------------------------ MODULE GatewayStreamProofs ------------------------
(***************************************************************************)
(* Proofs about GatewayStream: what the client is shown, what the request   *)
(* log says, what a reader of the log is given.                            *)
(***************************************************************************)
EXTENDS GatewayStream, FiniteSetTheorems, SequenceTheorems, WellFoundedInduction, TLAPS

-------------------------------------------------------------------------------
(* The values the components exchange.                                        *)

Overs == {"no", "ended", "error", "left", "abandoned"}
Kinds == {"message", "reasoning", "tool"}
Text == Seq(Nat)

Slots == [open : BOOLEAN, index : Nat, text : Text]
Pieces == [kind : Kinds, text : Text]
Items == [kind : Kinds, open : BOOLEAN, text : Text]

Created == [type : {"created"}]
Added == [type : {"added"}, kind : Kinds, index : Nat]
Changed == [type : {"delta", "done"}, kind : Kinds, index : Nat, text : Text]
Ending == [type : Terminals, output : Seq(Pieces), usage : BOOLEAN]
Events == Created \cup Added \cup Changed \cup Ending

ToolSlots == UNION {[D -> Slots] : D \in SUBSET Tools}

Translators ==
    [started : BOOLEAN, finished : BOOLEAN, completed : BOOLEAN,
     reason : Reasons, usage : BOOLEAN, next : Nat,
     message : Slots, reasoning : Slots, tools : ToolSlots,
     output : Seq(Pieces), queue : Seq(Events)]

Clients == [items : Seq(Items), ends : Seq(Terminals), ok : BOOLEAN, over : Overs]

-------------------------------------------------------------------------------
(* The client that has been shown everything the translator has emitted.  It  *)
(* exists as the end of a run: the states of the client under the events of a *)
(* queue, each of which is the next event of a well-formed response.          *)

Fine(c, e) == c.ok /\ c.ends = <<>> /\ Fits(c, e)

IsRun(cs, c, q, d) ==
    /\ cs \in [1 .. Len(q) + 1 -> Clients]
    /\ cs[1] = c /\ cs[Len(q) + 1] = d
    /\ \A k \in 1 .. Len(q) : Fine(cs[k], q[k]) /\ cs[k + 1] = Shows(cs[k], q[k])

Reaches(c, q, d) == \E cs : IsRun(cs, c, q, d)

\* The text that is open is the last item the client has.
TextShown(s, c) ==
    \A kind \in Texts : s[kind].open =>
        /\ s[kind].index + 1 = Len(c.items)
        /\ c.items[Len(c.items)] = Item(kind, TRUE, s[kind].text)

\* Each call that is under way has an item of its own, which shows what may be
\* shown of its arguments.
CallsHaveItems(s, c) ==
    /\ \A i \in DOMAIN s.tools :
          /\ s.tools[i].index + 1 \in DOMAIN c.items
          /\ c.items[s.tools[i].index + 1] =
               Item("tool", TRUE, Visible(i, s.tools[i].text))
    /\ \A i, j \in DOMAIN s.tools : s.tools[i].index = s.tools[j].index => i = j

\* The translator knows every item that is open.
OpenIsKnown(s, c) ==
    \A k \in DOMAIN c.items : c.items[k].open =>
        /\ \A kind \in Texts : c.items[k].kind = kind => s[kind].open /\ s[kind].index + 1 = k
        /\ c.items[k].kind = "tool" => \E i \in DOMAIN s.tools : s.tools[i].index + 1 = k

\* The items that are done are those the terminal event will list.
DoneAreListed(s, c) ==
    /\ \A j \in DOMAIN s.output : \E k \in DOMAIN c.items :
          ~c.items[k].open /\ s.output[j] = Piece(c.items[k].kind, c.items[k].text)
    /\ \A k \in DOMAIN c.items : ~c.items[k].open =>
          \E j \in DOMAIN s.output : s.output[j] = Piece(c.items[k].kind, c.items[k].text)

One(b) == IF b THEN 1 ELSE 0

\* All items have been counted: those that are done and those that are open.
Counted(s) ==
    s.next = Len(s.output) + One(s.message.open) + One(s.reasoning.open) + Cardinality(DOMAIN s.tools)

NothingOpen(s) == ~s.message.open /\ ~s.reasoning.open /\ DOMAIN s.tools = {}

\* The phases of the translator.
InPhase(s) ==
    /\ ~(s.message.open /\ s.reasoning.open)
    /\ ~s.started => s.next = 0 /\ ~s.finished
    /\ s.finished => NothingOpen(s)
    /\ s.completed => s.finished

Matches(s, c) ==
    /\ InPhase(s) /\ Counted(s)
    /\ c.ok /\ Len(c.items) = s.next
    /\ IF s.completed THEN Len(c.ends) = 1 ELSE c.ends = <<>>
    /\ TextShown(s, c) /\ CallsHaveItems(s, c) /\ OpenIsKnown(s, c) /\ DoneAreListed(s, c)

-------------------------------------------------------------------------------
(* What the client has been shown is what the provider has said.               *)

\* The text of the items of a kind, and of the fragments of one thing.
TextIn(items, kind) ==
    LET text[k \in 0 .. Len(items)] ==
            IF k = 0 THEN <<>>
            ELSE IF items[k].kind = kind THEN text[k - 1] \o items[k].text
            ELSE text[k - 1]
    IN  text[Len(items)]

SaidIn(said, to) ==
    LET text[k \in 0 .. Len(said)] ==
            IF k = 0 THEN <<>>
            ELSE IF said[k].to = to THEN Append(text[k - 1], said[k].part)
            ELSE text[k - 1]
    IN  text[Len(said)]

\* What has been heard of an answer: its texts, its calls with their arguments,
\* whether its end was meant, and the reason for it.
Heards ==
    [texts : [Texts -> Text], called : SUBSET Tools, calls : [Tools -> Text],
     meant : BOOLEAN, reason : Reasons]

\* Each call has an item of its own: the one its translator knows while it is
\* open, one with its whole input when it is done.
Placed(place, s, c, x) ==
    /\ place \in [x.called -> DOMAIN c.items]
    /\ \A i, j \in x.called : place[i] = place[j] => i = j
    /\ \A k \in DOMAIN c.items : c.items[k].kind = "tool" => \E i \in x.called : place[i] = k
    /\ \A i \in x.called : c.items[place[i]].kind = "tool"
    /\ \A i \in DOMAIN s.tools : place[i] = s.tools[i].index + 1
    /\ \A i \in x.called \ DOMAIN s.tools :
          c.items[place[i]] = Item("tool", FALSE, Input(i, x.calls[i]))

CallsCarried(s, c, x) ==
    /\ DOMAIN s.tools \subseteq x.called
    /\ \A i \in DOMAIN s.tools : s.tools[i].text = x.calls[i]
    /\ \A i \in Tools \ x.called : x.calls[i] = <<>>
    /\ \E place : Placed(place, s, c, x)

TextsCarried(c, x) == \A kind \in Texts : TextIn(c.items, kind) = x.texts[kind]

\* A response is only called complete when its end was meant.
EndMeant(ends, x) ==
    ends # <<>> /\ Head(ends) # "failed" => x.meant /\ (Head(ends) = "incomplete" <=> x.reason = "length")

Carries(s, c, x) == x \in Heards /\ TextsCarried(c, x) /\ CallsCarried(s, c, x) /\ EndMeant(c.ends, x)

\* The translator is in step with the client that has been shown all it has
\* emitted, whatever of that still waits in its queue, and this client has been
\* shown what was heard.
Tells(c, s, h) ==
    s \in Translators /\ \E d : Reaches(c, s.queue, d) /\ Matches(s, d) /\ Carries(s, d, h)

\* What is to be heard of the provider.
Heard(u) ==
    [texts  |-> [kind \in Texts |-> SaidIn(u.said, IF kind = "message" THEN Message ELSE Reasoning)],
     called |-> {i \in Tools : SaidIn(u.said, Call(i)) # <<>>},
     calls  |-> [i \in Tools |-> SaidIn(u.said, Call(i))],
     meant  |-> u.reason # "none" \/ u.done,
     reason |-> u.reason]

\* Until the answer has ended, every call of it is open.
Answering(c, s, h) == Tells(c, s, h) /\ (~s.finished => h.called = DOMAIN s.tools)

-------------------------------------------------------------------------------
(* The log.                                                                   *)

Fragments == [to : {Reasoning, Message} \cup {Call(i) : i \in Tools}, part : Nat \ {0}]
Statuses == Terminals \cup {"cancelled"}
Rows == Statuses \cup {"running", NoRow}
RequestWrites == {Insert, Detail} \cup {Status(s) : s \in Statuses}
LogWrites == RequestWrites \cup {Purge} \cup {Barrier(r) : r \in Readers}

UpstreamOK ==
    /\ upstream \in [state : {"open", "done", "ended", "broken"}, said : Seq(Fragments),
                     chunks : Nat, reason : Reasons, done : BOOLEAN]
    /\ upstream.chunks <= (IF upstream.state = "open" THEN MaxChunks ELSE MaxChunks + 1)
    /\ Len(upstream.said) <= MaxParts

BodyOK ==
    body \in [phase : {"idle", "starting", "streaming", "over"}, completed : BOOLEAN,
              ttft : BOOLEAN, saved : BOOLEAN, todo : Seq(RequestWrites)]

LogOK ==
    /\ log \in [writes : Seq(LogWrites), row : Rows, lost : BOOLEAN, purges : Nat,
               lock : Readers \cup {Maintainer, Nobody}]
    /\ Len(log.writes) <= Capacity

ReaderOK ==
    reader \in [Readers -> [state : {"idle", "locked", "waiting", "flushed"},
                           since : Statuses \cup {"any"}, result : Rows, reads : Nat]]

\* Some write of a queue is of the kind.
Has(q, kind) == \E k \in DOMAIN q : q[k].kind = kind

\* The insertion of a record comes before its status, and there is one of each.
InOrder(q) ==
    /\ \A j, k \in DOMAIN q : q[j].kind = "insert" /\ q[k].kind = "insert" => j = k
    /\ \A j, k \in DOMAIN q : q[j].kind = "status" /\ q[k].kind = "status" => j = k
    /\ \A j, k \in DOMAIN q : q[j].kind = "insert" /\ q[k].kind = "status" => j < k

SaysStatus(q, decided) == \A k \in DOMAIN q : q[k].kind = "status" => q[k].status = decided

\* What waits in the queue of the log, what the request has yet to offer, and what
\* is recorded, as long as no write was lost.
Record(phase, decided, writes, todo, row, purges) ==
    /\ InOrder(writes) /\ InOrder(todo)
    /\ Has(todo, "insert") => /\ phase = "starting"
                              /\ ~Has(writes, "insert") /\ ~Has(writes, "status") /\ ~Has(todo, "status")
    /\ Has(todo, "status") => ~Has(writes, "status")
    /\ SaysStatus(writes, decided) /\ SaysStatus(todo, decided)
    /\ phase = "idle" => ~Has(writes, "insert") /\ ~Has(todo, "insert") /\ row = NoRow /\ decided = "any"
    /\ phase = "starting" => decided = "any"
    /\ Has(writes, "insert") \/ Has(todo, "insert") => row = NoRow
    /\ phase # "idle" /\ ~Has(writes, "insert") /\ ~Has(todo, "insert") => row # NoRow \/ purges > 0
    /\ decided # "any" /\ ~Has(writes, "status") /\ ~Has(todo, "status") =>
          ~Has(writes, "insert") /\ row \in {decided, NoRow}

RecordInv == ~log.lost => Record(body.phase, Decided, log.writes, body.todo, log.row, log.purges)

\* The tap and the client agree on whether a response has ended.
TapInv ==
    /\ body.phase \in {"idle", "starting"} => client.ends = <<>> /\ ~body.completed
    /\ body.phase = "streaming" => (body.completed <=> client.ends # <<>>)
    /\ body.phase \in {"idle", "starting", "streaming"} <=> client.over = "no"
    /\ body.phase = "idle" => body.todo = <<>>

\* At most one write of the kind waits.
OneOf(q, kind) == \A j, k \in DOMAIN q : q[j].kind = kind /\ q[k].kind = kind => j = k

Waits(q, r) == \E k \in DOMAIN q : q[k] = Barrier(r)

\* The lock of the log, and the markers in its queue.
LockInv ==
    /\ \A r \in Readers : reader[r].state # "idle" => log.lock = r
    /\ OneOf(log.writes, "barrier") /\ OneOf(log.writes, "purge")
    /\ \A r \in Readers : Waits(log.writes, r) => reader[r].state = "waiting"
    /\ Has(log.writes, "purge") => log.lock = Maintainer
    /\ log.lock = Maintainer => log.purges > 0

\* Nothing behind a place in the queue changes the record of the request.
SettledBehind(writes, n) ==
    \A k \in DOMAIN writes : k > n => writes[k].kind \notin {"insert", "status"}

\* The marker of a reader is behind all that matters to it.
Passed(writes, r) == \A k \in DOMAIN writes : writes[k] = Barrier(r) => SettledBehind(writes, k)

\* What a reader will be given.
ReaderInv ==
    \A r \in Readers : reader[r].since # "any" =>
        /\ Verdict = reader[r].since
        /\ reader[r].state = "waiting" => Passed(log.writes, r)
        /\ reader[r].state = "flushed" => SettledBehind(log.writes, 0)
        /\ reader[r].state = "idle" /\ ~log.lost =>
              reader[r].result = reader[r].since \/ (reader[r].result = NoRow /\ log.purges > 0)

\* While the response goes on, the translator is in step with its client, which is
\* shown what the provider says; and with the provider on whether the answer has ended.
Told ==
    /\ client \in Clients /\ client.ok /\ translator \in Translators
    /\ body.phase # "over" => Answering(client, translator, Heard(upstream))

ReasonInv ==
    /\ upstream.reason = translator.reason
    /\ translator.finished => upstream.reason # "none" \/ upstream.state # "open"

-------------------------------------------------------------------------------
(* The operators of the translator: types, and what they change.              *)

\* Emitting an event changes the queue only.
LEMMA EmitFields ==
    ASSUME NEW s \in Translators, NEW e \in Events
    PROVE  /\ Emit(s, e) \in Translators
           /\ Emit(s, e) = [s EXCEPT !.queue = Append(s.queue, e)]
           /\ Emit(s, e).queue = Append(s.queue, e)
<1>1. Append(s.queue, e) \in Seq(Events)
  BY DEF Translators
<1> QED
  BY <1>1 DEF Emit, Translators

-------------------------------------------------------------------------------
(* What the client makes of an event.                                         *)

LEMMA CreatedShown ==
    ASSUME NEW c \in Clients,
           NEW e, e = [type |-> "created"]
    PROVE  /\ e \in Events
           /\ Shows(c, e) = c
           /\ Fits(c, e) <=> c.items = <<>>
<1>1. e \in Events
  BY DEF Events, Created
<1>2. Shows(c, e) = c
  BY DEF Shows, Terminals
<1>3. Fits(c, e) <=> c.items = <<>>
  BY DEF Fits, Terminals
<1> QED
  BY <1>1, <1>2, <1>3

\* d is c with one more item.
AddedTo(c, d, kind) ==
    /\ d \in Clients
    /\ d.items = Append(c.items, Item(kind, TRUE, <<>>))
    /\ d.ends = c.ends /\ d.ok = c.ok /\ d.over = c.over

LEMMA AddedShown ==
    ASSUME NEW c \in Clients, NEW kind \in Kinds, NEW index \in Nat,
           NEW e, e = [type |-> "added", kind |-> kind, index |-> index]
    PROVE  /\ e \in Events
           /\ AddedTo(c, Shows(c, e), kind)
           /\ Fits(c, e) <=> index = Len(c.items) /\ (kind \in Texts => ActiveItems(c) = {})
<1>1. Item(kind, TRUE, <<>>) \in Items
  BY DEF Item, Items, Text
<1>6. c.items \in Seq(Items)
  BY DEF Clients
<1>2. Append(c.items, Item(kind, TRUE, <<>>)) \in Seq(Items)
  BY <1>1, <1>6, AppendProperties
<1>3. Shows(c, e) = [c EXCEPT !.items = Append(c.items, Item(kind, TRUE, <<>>))]
  BY DEF Shows, Terminals
<1>4. Fits(c, e) <=> index = Len(c.items) /\ (kind \in Texts => ActiveItems(c) = {})
  BY DEF Fits, Terminals
<1>5. e \in Events
  BY DEF Events, Added
<1> QED
  BY <1>2, <1>3, <1>4, <1>5 DEF Clients, AddedTo

\* A delta adds to the text of an item; the item that is done has the text it is
\* done with.
ItemAfter(item, e) ==
    Item(item.kind, e.type = "delta", IF e.type = "delta" THEN item.text \o e.text ELSE e.text)

\* d is c with another item at n.
ChangedAt(c, d, n) ==
    /\ d \in Clients /\ Len(d.items) = Len(c.items)
    /\ \A k \in DOMAIN c.items : k # n => d.items[k] = c.items[k]

LEMMA ChangedShown ==
    ASSUME NEW c \in Clients, NEW type \in {"delta", "done"}, NEW kind \in Kinds, NEW index \in Nat, NEW text \in Text,
           NEW e, e = [type |-> type, kind |-> kind, index |-> index, text |-> text],
           index + 1 \in DOMAIN c.items, c.items[index + 1].open, c.items[index + 1].kind = kind
    PROVE  /\ e \in Events
           /\ ChangedAt(c, Shows(c, e), index + 1)
           /\ Shows(c, e).items[index + 1] = ItemAfter(c.items[index + 1], e)
           /\ Shows(c, e).ends = c.ends
           /\ Shows(c, e).ok = c.ok
           /\ Shows(c, e).over = c.over
           /\ Fits(c, e) <=> (type = "done" => DoneWith(kind, c.items[index + 1].text, text))
<1> DEFINE n == index + 1
           x == ItemAfter(c.items[n], e)
<1>1. e \in Events
  BY DEF Events, Changed
<1>2. Fits(c, e) <=> (type = "done" => DoneWith(kind, c.items[n].text, text))
  BY DEF Fits, Terminals
<1>3. c.items \in Seq(Items) /\ c.items[n] \in Items
  BY DEF Clients
<1>4. x \in Items
  BY <1>3 DEF ItemAfter, Item, Items, Text
<1>5. [c.items EXCEPT ![n] = x] \in Seq(Items)
  BY <1>3, <1>4
<1>6. Shows(c, e) = [c EXCEPT !.items = [c.items EXCEPT ![n] = x]]
  <2>1. CASE type = "delta"
    <3>1. x = Item(c.items[n].kind, TRUE, c.items[n].text \o text)
      BY <2>1 DEF ItemAfter
    <3>2. e.type = "delta" /\ e.index = index /\ e.text = text
      BY <2>1
    <3>3. Shows(c, e) = [c EXCEPT !.items[e.index + 1] = Item(@.kind, TRUE, @.text \o e.text)]
      BY <3>2, Zenon DEF Shows, Terminals
    <3> QED BY <3>1, <3>2, <3>3, Zenon
  <2>2. CASE type = "done"
    <3>1. x = Item(c.items[n].kind, FALSE, text)
      BY <2>2 DEF ItemAfter
    <3>2. e.type = "done" /\ e.index = index /\ e.text = text
      BY <2>2
    <3>3. Shows(c, e) = [c EXCEPT !.items[e.index + 1] = Item(@.kind, FALSE, e.text)]
      BY <3>2, Zenon DEF Shows, Terminals
    <3> QED BY <3>1, <3>2, <3>3, Zenon
  <2> QED BY <2>1, <2>2
<1>7. /\ Shows(c, e).items = [c.items EXCEPT ![n] = x]
      /\ Shows(c, e).ends = c.ends /\ Shows(c, e).ok = c.ok /\ Shows(c, e).over = c.over
      /\ Shows(c, e) \in Clients
  BY <1>5, <1>6 DEF Clients
<1>8. /\ Len(Shows(c, e).items) = Len(c.items)
      /\ \A k \in DOMAIN c.items : k # n => Shows(c, e).items[k] = c.items[k]
      /\ Shows(c, e).items[n] = x
  BY <1>3, <1>5, <1>7
<1>9. ChangedAt(c, Shows(c, e), n)
  BY <1>7, <1>8, Zenon DEF ChangedAt
<1> QED
  BY <1>1, <1>2, <1>7, <1>8, <1>9

LEMMA EndingShown ==
    ASSUME NEW c \in Clients, NEW e \in Ending
    PROVE  /\ Shows(c, e) \in Clients
           /\ Shows(c, e).items = c.items
           /\ Shows(c, e).ends = Append(c.ends, e.type)
           /\ Shows(c, e).ok = c.ok
           /\ Shows(c, e).over = c.over
           /\ Fits(c, e) <=> ListsAll(c, e.output)
<1>1. e.type \in Terminals /\ e.type \notin {"created", "added", "delta", "done"}
  BY DEF Ending, Terminals
<1>2. Append(c.ends, e.type) \in Seq(Terminals)
  BY <1>1 DEF Clients
<1>3. Shows(c, e) = [c EXCEPT !.ends = Append(c.ends, e.type)]
  BY <1>1 DEF Shows
<1>4. Fits(c, e) <=> ListsAll(c, e.output)
  BY <1>1 DEF Fits
<1> QED
  BY <1>2, <1>3, <1>4 DEF Clients

-------------------------------------------------------------------------------
(* Runs of the client.                                                        *)

LEMMA RunStays ==
    ASSUME NEW c \in Clients
    PROVE  Reaches(c, <<>>, c)
<1> DEFINE cs == [k \in 1 .. Len(<<>>) + 1 |-> c]
<1>1. IsRun(cs, c, <<>>, c)
  BY DEF IsRun
<1> QED
  BY <1>1 DEF Reaches

LEMMA RunEnds ==
    ASSUME NEW c, NEW d, NEW q \in Seq(Events), Reaches(c, q, d)
    PROVE  d \in Clients /\ (q = <<>> => d = c)
<1>1. PICK cs : IsRun(cs, c, q, d)
  BY DEF Reaches
<1>2. Len(q) \in Nat /\ Len(q) + 1 \in 1 .. Len(q) + 1
  OBVIOUS
<1> QED
  BY <1>1, <1>2 DEF IsRun

LEMMA RunEmit ==
    ASSUME NEW c, NEW d, NEW q \in Seq(Events), NEW e \in Events, Reaches(c, q, d),
           Fine(d, e), Shows(d, e) \in Clients
    PROVE  Reaches(c, Append(q, e), Shows(d, e))
<1>1. PICK cs : IsRun(cs, c, q, d)
  BY DEF Reaches
<1>2. PICK f : f = Shows(d, e)
  OBVIOUS
<1>3. PICK p : p = Append(q, e)
  OBVIOUS
<1>4. PICK n : n = Len(q)
  OBVIOUS
<1>5. /\ n \in Nat /\ Len(p) = n + 1 /\ p[n + 1] = e
      /\ \A k \in 1 .. n : p[k] = q[k]
  BY <1>3, <1>4
<1>6. /\ cs \in [1 .. n + 1 -> Clients]
      /\ cs[1] = c /\ cs[n + 1] = d
      /\ \A k \in 1 .. n : Fine(cs[k], q[k]) /\ cs[k + 1] = Shows(cs[k], q[k])
  BY <1>1, <1>4 DEF IsRun
<1> DEFINE ds == [k \in 1 .. n + 2 |-> IF k = n + 2 THEN f ELSE cs[k]]
<1>7. ds \in [1 .. Len(p) + 1 -> Clients]
  BY <1>2, <1>5, <1>6
<1>8. ds[1] = c /\ ds[Len(p) + 1] = f
  BY <1>5, <1>6
<1>9. ASSUME NEW k \in 1 .. Len(p) PROVE Fine(ds[k], p[k]) /\ ds[k + 1] = Shows(ds[k], p[k])
  <2>1. CASE k = n + 1
    <3>1. ds[k] = d /\ p[k] = e /\ ds[k + 1] = f
      BY <2>1, <1>5, <1>6
    <3> QED BY <3>1, <1>2
  <2>2. CASE k # n + 1
    <3>1. k \in 1 .. n
      BY <2>2, <1>5
    <3>2. ds[k] = cs[k] /\ p[k] = q[k] /\ ds[k + 1] = cs[k + 1]
      BY <3>1, <1>5
    <3> QED BY <3>1, <3>2, <1>6
  <2> QED BY <2>1, <2>2
<1>10. IsRun(ds, c, p, f)
  BY <1>7, <1>8, <1>9 DEF IsRun
<1>11. Reaches(c, p, f)
  BY <1>10 DEF Reaches
<1> QED
  BY <1>2, <1>3, <1>11

LEMMA RunPop ==
    ASSUME NEW c, NEW d, NEW q \in Seq(Events), q # <<>>, Reaches(c, q, d)
    PROVE  /\ Fine(c, Head(q)) /\ Shows(c, Head(q)) \in Clients
           /\ Reaches(Shows(c, Head(q)), Tail(q), d)
<1>1. PICK cs : IsRun(cs, c, q, d)
  BY DEF Reaches
<1>2. PICK e : e = Head(q)
  OBVIOUS
<1>3. PICK p : p = Tail(q)
  OBVIOUS
<1>4. PICK n : n = Len(q)
  OBVIOUS
<1>5. /\ n \in Nat \ {0} /\ Len(p) = n - 1 /\ q[1] = e
      /\ \A k \in 1 .. n - 1 : p[k] = q[k + 1]
  BY <1>2, <1>3, <1>4
<1>6. /\ cs \in [1 .. n + 1 -> Clients]
      /\ cs[1] = c /\ cs[n + 1] = d
      /\ \A k \in 1 .. n : Fine(cs[k], q[k]) /\ cs[k + 1] = Shows(cs[k], q[k])
  BY <1>1, <1>4 DEF IsRun
<1>7. Fine(c, e) /\ cs[2] = Shows(c, e) /\ cs[2] \in Clients
  <2>1. 1 \in 1 .. n /\ 1 + 1 = 2 /\ 2 \in 1 .. n + 1
    BY <1>5
  <2> QED BY <2>1, <1>5, <1>6
<1> DEFINE ds == [k \in 1 .. n |-> cs[k + 1]]
<1>8. ds \in [1 .. Len(p) + 1 -> Clients] /\ ds[1] = cs[2] /\ ds[Len(p) + 1] = d
  BY <1>5, <1>6
<1>9. ASSUME NEW k \in 1 .. Len(p) PROVE Fine(ds[k], p[k]) /\ ds[k + 1] = Shows(ds[k], p[k])
  <2>1. k + 1 \in 1 .. n /\ p[k] = q[k + 1] /\ ds[k] = cs[k + 1] /\ ds[k + 1] = cs[k + 1 + 1]
    BY <1>5
  <2> QED BY <2>1, <1>6
<1>10. IsRun(ds, cs[2], p, d)
  BY <1>8, <1>9 DEF IsRun
<1>11. Reaches(cs[2], p, d)
  BY <1>10 DEF Reaches
<1> QED
  BY <1>2, <1>3, <1>7, <1>11

-------------------------------------------------------------------------------
(* The steps of the translator: what each changes.                            *)

SameFlags(s, t) ==
    /\ t.started = s.started /\ t.finished = s.finished /\ t.completed = s.completed
    /\ t.reason = s.reason /\ t.usage = s.usage

DoneEvent(kind, index, text) == [type |-> "done", kind |-> kind, index |-> index, text |-> text]
DeltaEvent(kind, index, text) == [type |-> "delta", kind |-> kind, index |-> index, text |-> text]
AddedEvent(kind, index) == [type |-> "added", kind |-> kind, index |-> index]

LEMMA EventTypes ==
    ASSUME NEW kind \in Kinds, NEW index \in Nat, NEW text \in Text
    PROVE  /\ DoneEvent(kind, index, text) \in Events
           /\ DeltaEvent(kind, index, text) \in Events
           /\ AddedEvent(kind, index) \in Events
  BY DEF DoneEvent, DeltaEvent, AddedEvent, Events, Changed, Added

LEMMA SlotTypes ==
    ASSUME NEW s \in Translators
    PROVE  /\ s.message \in Slots /\ s.reasoning \in Slots
           /\ \A kind \in Texts : s[kind] \in Slots
           /\ \A kind \in Texts : s[kind].index \in Nat /\ s[kind].text \in Text /\ s[kind].open \in BOOLEAN
           /\ s.queue \in Seq(Events) /\ s.output \in Seq(Pieces) /\ s.next \in Nat
           /\ DOMAIN s.tools \subseteq Tools
           /\ \A i \in DOMAIN s.tools : s.tools[i] \in Slots
<1>1. /\ s.message \in Slots /\ s.reasoning \in Slots
      /\ s.queue \in Seq(Events) /\ s.output \in Seq(Pieces) /\ s.next \in Nat
      /\ s.tools \in ToolSlots
  BY DEF Translators
<1>2. \A kind \in Texts : s[kind] \in Slots
  BY <1>1 DEF Texts
<1>3. DOMAIN s.tools \subseteq Tools /\ \A i \in DOMAIN s.tools : s.tools[i] \in Slots
  BY <1>1 DEF ToolSlots
<1>4. \A x \in Slots : x.index \in Nat /\ x.text \in Text /\ x.open \in BOOLEAN
  BY DEF Slots
<1> QED
  BY <1>1, <1>2, <1>3, <1>4

LEMMA SlotValues ==
    /\ Closed \in Slots /\ ~Closed.open /\ Closed.index = 0 /\ Closed.text = <<>>
    /\ \A index \in Nat, text \in Text :
          /\ Opened(index, text) \in Slots
          /\ Opened(index, text).open = TRUE
          /\ Opened(index, text).index = index
          /\ Opened(index, text).text = text
  BY DEF Closed, Opened, Slots, Text

LEMMA CloseItemFields ==
    ASSUME NEW s \in Translators, NEW kind \in Texts, s[kind].open,
           NEW t, t = CloseItem(s, kind)
    PROVE  /\ t \in Translators
           /\ SameFlags(s, t) /\ t.next = s.next /\ t.tools = s.tools
           /\ t[kind] = Closed
           /\ \A other \in Texts \ {kind} : t[other] = s[other]
           /\ t.queue = Append(s.queue, DoneEvent(kind, s[kind].index, s[kind].text))
           /\ t.output = Append(s.output, Piece(kind, s[kind].text))
<1>1. PICK q : q = Append(s.queue, DoneEvent(kind, s[kind].index, s[kind].text))
  OBVIOUS
<1>2. PICK o : o = Append(s.output, Piece(kind, s[kind].text))
  OBVIOUS
<1>3. t = [[[s EXCEPT !.queue = q] EXCEPT !.output = o] EXCEPT ![kind] = Closed]
  <2>1. Emit(s, [type |-> "done", kind |-> kind, index |-> s[kind].index, text |-> s[kind].text]) = [s EXCEPT !.queue = q]
    BY <1>1, Zenon DEF Emit, DoneEvent
  <2>2. Complete(s, kind, s[kind].index, s[kind].text) = [[s EXCEPT !.queue = q] EXCEPT !.output = Append(@, Piece(kind, s[kind].text))]
    BY <2>1, Zenon DEF Complete
  <2>3. [s EXCEPT !.queue = q].output = s.output
    BY Zenon DEF Translators
  <2>4. Complete(s, kind, s[kind].index, s[kind].text) = [[s EXCEPT !.queue = q] EXCEPT !.output = o]
    BY <2>2, <2>3, <1>2, Zenon
  <2> QED
    BY <2>4, Zenon DEF CloseItem
<1>4. kind \in Kinds /\ Closed \in Slots
  BY SlotValues DEF Texts, Kinds
<1>5. q \in Seq(Events) /\ o \in Seq(Pieces)
  <2>1. DoneEvent(kind, s[kind].index, s[kind].text) \in Events
    BY <1>4, SlotTypes, EventTypes
  <2>2. Piece(kind, s[kind].text) \in Pieces
    BY <1>4, SlotTypes DEF Piece, Pieces
  <2> QED
    BY <1>1, <1>2, <2>1, <2>2, SlotTypes, AppendProperties
<1>6. CASE kind = "message"
  <2>1. t = [[[s EXCEPT !.queue = q] EXCEPT !.output = o] EXCEPT !.message = Closed]
    BY <1>3, <1>6, Zenon
  <2>2. /\ t \in Translators
        /\ SameFlags(s, t) /\ t.next = s.next /\ t.tools = s.tools
        /\ t.message = Closed /\ t.reasoning = s.reasoning
        /\ t.queue = q /\ t.output = o
    BY <1>4, <1>5, <2>1 DEF Translators, SameFlags
  <2> QED
    BY <1>1, <1>2, <1>6, <2>2, Zenon DEF Texts
<1>7. CASE kind = "reasoning"
  <2>1. t = [[[s EXCEPT !.queue = q] EXCEPT !.output = o] EXCEPT !.reasoning = Closed]
    BY <1>3, <1>7, Zenon
  <2>2. /\ t \in Translators
        /\ SameFlags(s, t) /\ t.next = s.next /\ t.tools = s.tools
        /\ t.reasoning = Closed /\ t.message = s.message
        /\ t.queue = q /\ t.output = o
    BY <1>4, <1>5, <2>1 DEF Translators, SameFlags
  <2> QED
    BY <1>1, <1>2, <1>7, <2>2, Zenon DEF Texts
<1> QED
  BY <1>6, <1>7 DEF Texts

\* The two halves of AppendTo.
OpenText(s, kind) == [Announce(s, kind) EXCEPT ![kind] = Opened(s.next, <<>>)]

TellText(s, kind, part) ==
    [Delta(s, kind, s[kind].index, <<part>>) EXCEPT ![kind] = Opened(@.index, Append(@.text, part))]

LEMMA AppendToHalves ==
    ASSUME NEW s, NEW kind, NEW part
    PROVE  AppendTo(s, kind, part) = TellText(IF s[kind].open THEN s ELSE OpenText(s, kind), kind, part)
  BY Zenon DEF AppendTo, OpenText, TellText

LEMMA AnnounceFields ==
    ASSUME NEW s \in Translators, NEW kind \in Kinds,
           NEW t, t = Announce(s, kind)
    PROVE  /\ t \in Translators
           /\ SameFlags(s, t) /\ t.next = s.next + 1 /\ t.tools = s.tools
           /\ t.message = s.message /\ t.reasoning = s.reasoning
           /\ t.queue = Append(s.queue, AddedEvent(kind, s.next))
           /\ t.output = s.output
<1>1. PICK q : q = Append(s.queue, AddedEvent(kind, s.next))
  OBVIOUS
<1>2. PICK n : n = s.next + 1
  OBVIOUS
<1>3. n \in Nat /\ q \in Seq(Events)
  <2>1. s.next \in Nat /\ s.queue \in Seq(Events) /\ <<>> \in Text
    BY SlotTypes DEF Text
  <2>2. AddedEvent(kind, s.next) \in Events
    BY <2>1, EventTypes
  <2> QED
    BY <1>1, <1>2, <2>1, <2>2, AppendProperties
<1>4. t = [[s EXCEPT !.queue = q] EXCEPT !.next = n]
  <2>1. Emit(s, [type |-> "added", kind |-> kind, index |-> s.next]) = [s EXCEPT !.queue = q]
    BY <1>1, Zenon DEF Emit, AddedEvent
  <2>2. [s EXCEPT !.queue = q].next = s.next
    BY Zenon DEF Translators
  <2>3. t = [[s EXCEPT !.queue = q] EXCEPT !.next = @ + 1]
    BY <2>1, Zenon DEF Announce
  <2> QED
    BY <2>2, <2>3, <1>2, Zenon
<1> QED
  BY <1>1, <1>2, <1>3, <1>4 DEF Translators, SameFlags

\* What a change of the slot of one text leaves.
WithSlot(s, kind, x) == [s EXCEPT ![kind] = x]

LEMMA SetSlot ==
    ASSUME NEW s \in Translators, NEW kind \in Texts, NEW x \in Slots,
           NEW t, t = WithSlot(s, kind, x)
    PROVE  /\ t \in Translators
           /\ SameFlags(s, t) /\ t.next = s.next /\ t.tools = s.tools
           /\ t[kind] = x
           /\ \A other \in Texts \ {kind} : t[other] = s[other]
           /\ t.queue = s.queue /\ t.output = s.output
<1>6. CASE kind = "message"
  <2>1. t = [s EXCEPT !.message = x]
    BY <1>6, Zenon DEF WithSlot
  <2>2. /\ t \in Translators
        /\ SameFlags(s, t) /\ t.next = s.next /\ t.tools = s.tools
        /\ t.message = x /\ t.reasoning = s.reasoning
        /\ t.queue = s.queue /\ t.output = s.output
    BY <2>1 DEF Translators, SameFlags
  <2> QED
    BY <1>6, <2>2, Zenon DEF Texts
<1>7. CASE kind = "reasoning"
  <2>1. t = [s EXCEPT !.reasoning = x]
    BY <1>7, Zenon DEF WithSlot
  <2>2. /\ t \in Translators
        /\ SameFlags(s, t) /\ t.next = s.next /\ t.tools = s.tools
        /\ t.reasoning = x /\ t.message = s.message
        /\ t.queue = s.queue /\ t.output = s.output
    BY <2>1 DEF Translators, SameFlags
  <2> QED
    BY <1>7, <2>2, Zenon DEF Texts
<1> QED
  BY <1>6, <1>7 DEF Texts

LEMMA OpenTextFields ==
    ASSUME NEW s \in Translators, NEW kind \in Texts,
           NEW t, t = OpenText(s, kind)
    PROVE  /\ t \in Translators
           /\ SameFlags(s, t) /\ t.next = s.next + 1 /\ t.tools = s.tools
           /\ t[kind] = Opened(s.next, <<>>)
           /\ \A other \in Texts \ {kind} : t[other] = s[other]
           /\ t.queue = Append(s.queue, AddedEvent(kind, s.next))
           /\ t.output = s.output
<1>1. PICK a : a = Announce(s, kind)
  OBVIOUS
<1>2. kind \in Kinds
  BY DEF Texts, Kinds
<1>3. /\ a \in Translators
      /\ SameFlags(s, a) /\ a.next = s.next + 1 /\ a.tools = s.tools
      /\ a.message = s.message /\ a.reasoning = s.reasoning
      /\ a.queue = Append(s.queue, AddedEvent(kind, s.next))
      /\ a.output = s.output
  BY <1>1, <1>2, AnnounceFields
<1>4. PICK x : x = Opened(s.next, <<>>)
  OBVIOUS
<1>5. x \in Slots
  <2>1. s.next \in Nat /\ <<>> \in Text
    BY SlotTypes DEF Text
  <2> QED BY <1>4, <2>1, SlotValues
<1>6. t = WithSlot(a, kind, x)
  BY <1>1, <1>4, Zenon DEF OpenText, WithSlot
<1>7. /\ t \in Translators
      /\ SameFlags(a, t) /\ t.next = a.next /\ t.tools = a.tools
      /\ t[kind] = x
      /\ \A other \in Texts \ {kind} : t[other] = a[other]
      /\ t.queue = a.queue /\ t.output = a.output
  BY <1>3, <1>5, <1>6, SetSlot
<1>8. \A other \in Texts : a[other] = s[other]
  BY <1>3, Zenon DEF Texts
<1>9. SameFlags(s, t)
  BY <1>3, <1>7 DEF SameFlags
<1> QED
  BY <1>3, <1>4, <1>7, <1>8, <1>9

LEMMA TellTextFields ==
    ASSUME NEW s \in Translators, NEW kind \in Texts, NEW part \in Nat,
           NEW t, t = TellText(s, kind, part)
    PROVE  /\ t \in Translators
           /\ SameFlags(s, t) /\ t.next = s.next /\ t.tools = s.tools
           /\ t[kind] = Opened(s[kind].index, Append(s[kind].text, part))
           /\ \A other \in Texts \ {kind} : t[other] = s[other]
           /\ t.queue = Append(s.queue, DeltaEvent(kind, s[kind].index, <<part>>))
           /\ t.output = s.output
<1>1. PICK e : e = DeltaEvent(kind, s[kind].index, <<part>>)
  OBVIOUS
<1>2. kind \in Kinds /\ <<part>> \in Text
  BY DEF Texts, Kinds, Text
<1>3. s[kind].index \in Nat /\ s[kind].text \in Seq(Nat) /\ s.queue \in Seq(Events)
  BY SlotTypes DEF Text
<1>4. e \in Events
  BY <1>1, <1>2, <1>3, EventTypes
<1>5. PICK a : a = Emit(s, e)
  OBVIOUS
<1>6. a = [s EXCEPT !.queue = Append(s.queue, e)]
  BY <1>4, <1>5, EmitFields
<1>14. a \in Translators
  BY <1>4, <1>5, EmitFields
<1>7. /\ SameFlags(s, a) /\ a.next = s.next /\ a.tools = s.tools
      /\ a.message = s.message /\ a.reasoning = s.reasoning
      /\ a.queue = Append(s.queue, e) /\ a.output = s.output
  BY <1>6, Zenon DEF Translators, SameFlags
<1>8. \A other \in Texts : a[other] = s[other]
  BY <1>7, Zenon DEF Texts
<1>9. PICK x : x = Opened(s[kind].index, Append(s[kind].text, part))
  OBVIOUS
<1>10. x \in Slots
  <2>1. Append(s[kind].text, part) \in Text
    BY <1>3, AppendProperties DEF Text
  <2> QED BY <2>1, <1>3, <1>9, SlotValues
<1>11. t = WithSlot(a, kind, x)
  <2>1. t = [a EXCEPT ![kind] = Opened(@.index, Append(@.text, part))]
    BY <1>1, <1>5, Zenon DEF TellText, Delta, DeltaEvent
  <2> QED BY <2>1, <1>8, <1>9, Zenon DEF WithSlot
<1>12. /\ t \in Translators
       /\ SameFlags(a, t) /\ t.next = a.next /\ t.tools = a.tools
       /\ t[kind] = x
       /\ \A other \in Texts \ {kind} : t[other] = a[other]
       /\ t.queue = a.queue /\ t.output = a.output
  BY <1>14, <1>10, <1>11, SetSlot
<1>13. SameFlags(s, t)
  BY <1>7, <1>12 DEF SameFlags
<1> QED
  BY <1>1, <1>7, <1>8, <1>9, <1>12, <1>13

\* The steps of a tool call.
WithTools(s, f) == [s EXCEPT !.tools = f]

LEMMA SetTools ==
    ASSUME NEW s \in Translators, NEW f \in ToolSlots,
           NEW t, t = WithTools(s, f)
    PROVE  /\ t \in Translators
           /\ SameFlags(s, t) /\ t.next = s.next /\ t.tools = f
           /\ t.message = s.message /\ t.reasoning = s.reasoning
           /\ t.queue = s.queue /\ t.output = s.output
  BY DEF WithTools, Translators, SameFlags

LEMMA ToolSlotsOf ==
    ASSUME NEW D, D \subseteq Tools, NEW f, f = [j \in D |-> f[j]], \A j \in D : f[j] \in Slots
    PROVE  f \in ToolSlots
<1>1. f \in [D -> Slots]
  OBVIOUS
<1> QED
  BY <1>1 DEF ToolSlots

OpenTool(s, i) ==
    [Announce(s, "tool") EXCEPT
        !.tools = [j \in DOMAIN @ \cup {i} |-> IF j = i THEN Opened(s.next, <<>>) ELSE @[j]]]

LEMMA OpenToolFields ==
    ASSUME NEW s \in Translators, NEW i \in Tools, i \notin DOMAIN s.tools,
           NEW t, t = OpenTool(s, i)
    PROVE  /\ t \in Translators
           /\ SameFlags(s, t) /\ t.next = s.next + 1
           /\ t.message = s.message /\ t.reasoning = s.reasoning
           /\ DOMAIN t.tools = DOMAIN s.tools \cup {i}
           /\ t.tools[i] = Opened(s.next, <<>>)
           /\ \A j \in DOMAIN s.tools : t.tools[j] = s.tools[j]
           /\ t.queue = Append(s.queue, AddedEvent("tool", s.next))
           /\ t.output = s.output
<1>1. PICK a : a = Announce(s, "tool")
  OBVIOUS
<1>2. "tool" \in Kinds
  BY DEF Kinds
<1>3. /\ a \in Translators
      /\ SameFlags(s, a) /\ a.next = s.next + 1 /\ a.tools = s.tools
      /\ a.message = s.message /\ a.reasoning = s.reasoning
      /\ a.queue = Append(s.queue, AddedEvent("tool", s.next))
      /\ a.output = s.output
  BY <1>1, <1>2, AnnounceFields
<1>4. PICK x : x = Opened(s.next, <<>>)
  OBVIOUS
<1>5. x \in Slots
  <2>1. s.next \in Nat /\ <<>> \in Text
    BY SlotTypes DEF Text
  <2> QED BY <1>4, <2>1, SlotValues
<1>6. PICK f : f = [j \in DOMAIN s.tools \cup {i} |-> IF j = i THEN x ELSE s.tools[j]]
  OBVIOUS
<1>7. f \in ToolSlots
  <2>1. DOMAIN s.tools \cup {i} \subseteq Tools /\ \A j \in DOMAIN s.tools : s.tools[j] \in Slots
    BY SlotTypes
  <2>2. \A j \in DOMAIN s.tools \cup {i} : f[j] \in Slots
    BY <1>5, <1>6, <2>1
  <2>3. f = [j \in DOMAIN s.tools \cup {i} |-> f[j]]
    BY <1>6
  <2> QED BY <2>1, <2>2, <2>3, ToolSlotsOf
<1>8. t = WithTools(a, f)
  <2>1. t = [a EXCEPT !.tools = [j \in DOMAIN @ \cup {i} |-> IF j = i THEN x ELSE @[j]]]
    BY <1>1, <1>4, Zenon DEF OpenTool
  <2> QED BY <2>1, <1>3, <1>6, Zenon DEF WithTools
<1>9. /\ t \in Translators
      /\ SameFlags(a, t) /\ t.next = a.next /\ t.tools = f
      /\ t.message = a.message /\ t.reasoning = a.reasoning
      /\ t.queue = a.queue /\ t.output = a.output
  BY <1>3, <1>7, <1>8, SetTools
<1>10. SameFlags(s, t)
  BY <1>3, <1>9 DEF SameFlags
<1>11. /\ DOMAIN f = DOMAIN s.tools \cup {i} /\ f[i] = x
       /\ \A j \in DOMAIN s.tools : f[j] = s.tools[j]
  BY <1>6
<1> QED
  BY <1>3, <1>4, <1>9, <1>10, <1>11

KeepPart(s, i, arguments) == [s EXCEPT !.tools[i] = Opened(@.index, arguments)]

LEMMA KeepPartFields ==
    ASSUME NEW s \in Translators, NEW i \in DOMAIN s.tools, NEW a \in Text,
           NEW t, t = KeepPart(s, i, a)
    PROVE  /\ t \in Translators
           /\ SameFlags(s, t) /\ t.next = s.next
           /\ t.message = s.message /\ t.reasoning = s.reasoning
           /\ DOMAIN t.tools = DOMAIN s.tools
           /\ t.tools[i] = Opened(s.tools[i].index, a)
           /\ \A j \in DOMAIN s.tools \ {i} : t.tools[j] = s.tools[j]
           /\ t.queue = s.queue /\ t.output = s.output
<1>1. PICK x : x = Opened(s.tools[i].index, a)
  OBVIOUS
<1>2. x \in Slots
  <2>1. s.tools[i] \in Slots
    BY SlotTypes
  <2>2. s.tools[i].index \in Nat
    BY <2>1 DEF Slots
  <2> QED BY <1>1, <2>2, SlotValues
<1>3. PICK f : f = [s.tools EXCEPT ![i] = x]
  OBVIOUS
<1>4. s.tools \in ToolSlots
  BY DEF Translators
<1>5. /\ DOMAIN f = DOMAIN s.tools /\ f[i] = x
      /\ \A j \in DOMAIN s.tools \ {i} : f[j] = s.tools[j]
      /\ f = [j \in DOMAIN s.tools |-> f[j]]
  BY <1>3
<1>6. f \in ToolSlots
  <2>1. DOMAIN s.tools \subseteq Tools /\ \A j \in DOMAIN s.tools : s.tools[j] \in Slots
    BY SlotTypes
  <2>2. \A j \in DOMAIN s.tools : f[j] \in Slots
    BY <1>2, <1>5, <2>1
  <2> QED BY <2>1, <2>2, <1>5, ToolSlotsOf
<1>7. t = WithTools(s, f)
  BY <1>1, <1>3, Zenon DEF WithTools, KeepPart
<1>8. /\ t \in Translators
      /\ SameFlags(s, t) /\ t.next = s.next /\ t.tools = f
      /\ t.message = s.message /\ t.reasoning = s.reasoning
      /\ t.queue = s.queue /\ t.output = s.output
  BY <1>6, <1>7, SetTools
<1> QED
  BY <1>1, <1>5, <1>8

\* An event in the queue changes nothing else.
LEMMA EmitKeeps ==
    ASSUME NEW s \in Translators, NEW e \in Events,
           NEW t, t = Emit(s, e)
    PROVE  /\ t \in Translators
           /\ SameFlags(s, t) /\ t.next = s.next /\ t.tools = s.tools
           /\ t.message = s.message /\ t.reasoning = s.reasoning
           /\ t.queue = Append(s.queue, e) /\ t.output = s.output
<1>1. t = [s EXCEPT !.queue = Append(s.queue, e)]
  BY EmitFields
<1>2. t \in Translators
  BY EmitFields
<1> QED
  BY <1>1, <1>2, Zenon DEF Translators, SameFlags

\* What a tool call shows.
LEMMA TextExtends ==
    ASSUME NEW u \in Text, NEW v \in Text, Len(u) <= Len(v), \A k \in 1 .. Len(u) : u[k] = v[k]
    PROVE  /\ SubSeq(v, Len(u) + 1, Len(v)) \in Text
           /\ v = u \o SubSeq(v, Len(u) + 1, Len(v))
<1>1. PICK w : w = SubSeq(v, Len(u) + 1, Len(v))
  OBVIOUS
<1>2. w \in Seq(Nat) /\ Len(w) = Len(v) - Len(u) /\ \A k \in 1 .. Len(w) : w[k] = v[Len(u) + k]
  BY <1>1, SMTT(30) DEF Text
<1>3. PICK x : x = u \o w
  OBVIOUS
<1>4. x \in Seq(Nat) /\ Len(x) = Len(v)
  BY <1>2, <1>3 DEF Text
<1>5. ASSUME NEW k \in 1 .. Len(v) PROVE x[k] = v[k]
  <2>1. CASE k <= Len(u)
    BY <2>1, <1>2, <1>3 DEF Text
  <2>2. CASE k > Len(u)
    <3>1. x[k] = w[k - Len(u)]
      BY <2>2, <1>2, <1>3 DEF Text
    <3>2. k - Len(u) \in 1 .. Len(w) /\ Len(u) + (k - Len(u)) = k
      BY <2>2, <1>2 DEF Text
    <3> QED BY <3>1, <3>2, <1>2
  <2> QED BY <2>1, <2>2 DEF Text
<1>6. x = v
  BY <1>4, <1>5, SeqEqual DEF Text
<1> QED
  BY <1>1, <1>2, <1>3, <1>6 DEF Text

LEMMA VisibleType ==
    ASSUME NEW i \in Tools, NEW a \in Text
    PROVE  /\ Visible(i, a) \in Text /\ Input(i, a) \in Text
           /\ DoneWith("tool", Visible(i, a), Input(i, a))
<1>1. Visible(i, a) \in Text
  BY DEF Visible, Text
<1>2. CASE ToolKind[i] = "search"
  <2>1. Visible(i, a) = <<>>
    BY <1>2 DEF Visible
  <2>2. Input(i, a) = IF a \in Parses THEN a ELSE <<>>
    BY <1>2 DEF Input
  <2>3. Input(i, a) \in Text
    BY <2>2 DEF Text
  <2> QED BY <1>1, <2>1, <2>3 DEF DoneWith
<1>3. CASE ToolKind[i] = "custom" /\ a \notin Parses
  <2>1. Input(i, a) = a /\ Visible(i, a) = SubSeq(a, 2, Len(a))
    BY <1>3 DEF Input, Visible
  <2>2. CASE a = <<>>
    BY <1>1, <2>1, <2>2 DEF DoneWith, Text
  <2>3. CASE a # <<>>
    <3>1. Tail(a) = SubSeq(a, 2, Len(a))
      BY <2>3 DEF Text
    <3> QED BY <1>1, <1>3, <2>1, <2>3, <3>1 DEF DoneWith
  <2> QED BY <2>2, <2>3
<1>4. CASE ToolKind[i] # "search" /\ ~(ToolKind[i] = "custom" /\ a \notin Parses)
  <2>1. Input(i, a) = Visible(i, a)
    BY <1>4 DEF Input
  <2> QED BY <1>1, <2>1 DEF DoneWith
<1> QED
  BY <1>2, <1>3, <1>4

\* What is shown of a call after another part is what was, and what is new.
Grows(i, a, b, new) == b \in Text /\ new \in Text /\ Visible(i, b) = Visible(i, a) \o new

LEMMA VisibleGrows ==
    ASSUME NEW i \in Tools, NEW a \in Text, NEW part \in Nat,
           NEW b, b = Append(a, part),
           NEW new, new = SubSeq(Visible(i, b), Len(Visible(i, a)) + 1, Len(Visible(i, b)))
    PROVE  Grows(i, a, b, new)
<1>1. b \in Text /\ Len(b) = Len(a) + 1 /\ \A k \in 1 .. Len(a) : b[k] = a[k]
  BY DEF Text
<1>2. PICK u : u = Visible(i, a)
  OBVIOUS
<1>3. PICK v : v = Visible(i, b)
  OBVIOUS
<1>4. u \in Text /\ v \in Text
  BY <1>1, <1>2, <1>3, VisibleType
<1>5. Len(u) <= Len(v) /\ \A k \in 1 .. Len(u) : u[k] = v[k]
  <2>1. CASE ToolKind[i] = "function"
    <3>1. u = a /\ v = b
      BY <2>1, <1>2, <1>3 DEF Visible
    <3> QED BY <3>1, <1>1 DEF Text
  <2>2. CASE ToolKind[i] = "custom"
    <3>1. u = SubSeq(a, 2, Len(a)) /\ v = SubSeq(b, 2, Len(b))
      BY <2>2, <1>2, <1>3 DEF Visible
    <3>2. CASE Len(a) = 0
      <4>1. Len(u) = 0
        BY <3>1, <3>2 DEF Text
      <4> QED BY <4>1, <1>4 DEF Text
    <3>3. CASE Len(a) # 0
      <4>1. Len(a) \in Nat \ {0}
        BY <3>3 DEF Text
      <4>2. PICK n : n = Len(a)
        OBVIOUS
      <4>3. n \in Nat \ {0} /\ a \in Seq(Nat) /\ b \in Seq(Nat) /\ Len(b) = n + 1
        BY <4>1, <4>2, <1>1 DEF Text
      <4>4. u = SubSeq(a, 2, n) /\ v = SubSeq(b, 2, n + 1)
        BY <3>1, <4>2, <4>3
      <4>5. Len(u) = n - 1
        BY <4>2, <4>3, <4>4
      <4>6. Len(v) = n
        BY <4>3, <4>4
      <4>7. ASSUME NEW k \in 1 .. n - 1 PROVE u[k] = v[k]
        <5>1. u[k] = a[k + 1]
          BY <4>2, <4>3, <4>4, SMTT(30)
        <5>2. v[k] = b[k + 1]
          BY <4>3, <4>4
        <5>3. k + 1 \in 1 .. Len(a)
          BY <4>2, <4>3
        <5> QED BY <5>1, <5>2, <5>3, <1>1
      <4>8. n - 1 <= n
        BY <4>3
      <4> QED BY <4>5, <4>6, <4>7, <4>8
    <3> QED BY <3>2, <3>3
  <2>3. CASE ToolKind[i] \notin {"function", "custom"}
    <3>1. u = <<>>
      BY <2>3, <1>2 DEF Visible
    <3> QED BY <3>1, <1>4 DEF Text
  <2> QED BY <2>1, <2>2, <2>3
<1>6. new = SubSeq(v, Len(u) + 1, Len(v))
  BY <1>2, <1>3
<1>7. new \in Text /\ v = u \o new
  BY <1>4, <1>5, <1>6, TextExtends, ZenonT(60)
<1> QED
  BY <1>1, <1>2, <1>3, <1>7 DEF Grows

\* t is s with one more item done.
Done1(s, t, kind, index, text) ==
    /\ t \in Translators
    /\ SameFlags(s, t) /\ t.next = s.next /\ t.tools = s.tools
    /\ t.message = s.message /\ t.reasoning = s.reasoning
    /\ t.queue = Append(s.queue, DoneEvent(kind, index, text))
    /\ t.output = Append(s.output, Piece(kind, text))

LEMMA CompleteKeeps ==
    ASSUME NEW s \in Translators, NEW kind \in Kinds, NEW index \in Nat, NEW text \in Text
    PROVE  Done1(s, Complete(s, kind, index, text), kind, index, text)
<1>0. PICK t : t = Complete(s, kind, index, text)
  OBVIOUS
<1>1. PICK q : q = Append(s.queue, DoneEvent(kind, index, text))
  OBVIOUS
<1>2. PICK o : o = Append(s.output, Piece(kind, text))
  OBVIOUS
<1>3. t = [[s EXCEPT !.queue = q] EXCEPT !.output = o]
  <2>1. Emit(s, [type |-> "done", kind |-> kind, index |-> index, text |-> text]) = [s EXCEPT !.queue = q]
    BY <1>1, Zenon DEF Emit, DoneEvent
  <2>2. t = [[s EXCEPT !.queue = q] EXCEPT !.output = Append(@, Piece(kind, text))]
    BY <1>0, <2>1, Zenon DEF Complete
  <2>3. [s EXCEPT !.queue = q].output = s.output
    BY Zenon DEF Translators
  <2> QED
    BY <2>2, <2>3, <1>2, Zenon
<1>4. q \in Seq(Events) /\ o \in Seq(Pieces)
  <2>1. DoneEvent(kind, index, text) \in Events
    BY EventTypes
  <2>2. Piece(kind, text) \in Pieces
    BY DEF Piece, Pieces
  <2> QED
    BY <1>1, <1>2, <2>1, <2>2, SlotTypes, AppendProperties
<1>5. /\ t \in Translators
      /\ SameFlags(s, t) /\ t.next = s.next /\ t.tools = s.tools
      /\ t.message = s.message /\ t.reasoning = s.reasoning
      /\ t.queue = q /\ t.output = o
  BY <1>3, <1>4 DEF Translators, SameFlags
<1> QED
  BY <1>0, <1>1, <1>2, <1>5 DEF Done1

ToolDone(s, t, f, index, text) ==
    /\ t \in Translators
    /\ SameFlags(s, t) /\ t.next = s.next /\ t.tools = f
    /\ t.message = s.message /\ t.reasoning = s.reasoning
    /\ t.queue = Append(s.queue, DoneEvent("tool", index, text))
    /\ t.output = Append(s.output, Piece("tool", text))

LEMMA CompleteTool ==
    ASSUME NEW s \in Translators, NEW index \in Nat, NEW text \in Text, NEW f \in ToolSlots
    PROVE  ToolDone(s, WithTools(Complete(s, "tool", index, text), f), f, index, text)
<1>0. PICK t : t = WithTools(Complete(s, "tool", index, text), f)
  OBVIOUS
<1>1. PICK kind : kind = "tool"
  OBVIOUS
<1>2. kind \in Kinds
  BY <1>1 DEF Kinds
<1>3. PICK a : a = Complete(s, kind, index, text)
  OBVIOUS
<1>8. Done1(s, a, kind, index, text)
  BY <1>2, <1>3, CompleteKeeps
<1>4. /\ a \in Translators
      /\ SameFlags(s, a) /\ a.next = s.next /\ a.tools = s.tools
      /\ a.message = s.message /\ a.reasoning = s.reasoning
      /\ a.queue = Append(s.queue, DoneEvent(kind, index, text))
      /\ a.output = Append(s.output, Piece(kind, text))
  BY <1>8 DEF Done1
<1>5. t = WithTools(a, f)
  BY <1>0, <1>1, <1>3
<1>6. /\ t \in Translators
      /\ SameFlags(a, t) /\ t.next = a.next /\ t.tools = f
      /\ t.message = a.message /\ t.reasoning = a.reasoning
      /\ t.queue = a.queue /\ t.output = a.output
  BY <1>4, <1>5, SetTools
<1>7. SameFlags(s, t)
  BY <1>4, <1>6 DEF SameFlags
<1> QED
  BY <1>0, <1>1, <1>4, <1>6, <1>7 DEF ToolDone

LEMMA CloseToolFields ==
    ASSUME NEW s \in Translators, NEW i \in DOMAIN s.tools,
           NEW t, t = CloseTool(s, i)
    PROVE  /\ t \in Translators
           /\ SameFlags(s, t) /\ t.next = s.next
           /\ t.message = s.message /\ t.reasoning = s.reasoning
           /\ DOMAIN t.tools = DOMAIN s.tools \ {i}
           /\ \A j \in DOMAIN s.tools \ {i} : t.tools[j] = s.tools[j]
           /\ t.queue = Append(s.queue, DoneEvent("tool", s.tools[i].index, Input(i, s.tools[i].text)))
           /\ t.output = Append(s.output, Piece("tool", Input(i, s.tools[i].text)))
<1>1. PICK n : n = s.tools[i].index
  OBVIOUS
<1>2. PICK w : w = Input(i, s.tools[i].text)
  OBVIOUS
<1>3. n \in Nat /\ w \in Text
  <2>1. s.tools[i] \in Slots /\ i \in Tools
    BY SlotTypes
  <2>2. s.tools[i].index \in Nat /\ s.tools[i].text \in Text
    BY <2>1 DEF Slots
  <2> QED BY <1>1, <1>2, <2>1, <2>2, VisibleType
<1>4. PICK f : f = [j \in DOMAIN s.tools \ {i} |-> s.tools[j]]
  OBVIOUS
<1>5. /\ DOMAIN f = DOMAIN s.tools \ {i}
      /\ \A j \in DOMAIN s.tools \ {i} : f[j] = s.tools[j]
      /\ f = [j \in DOMAIN s.tools \ {i} |-> f[j]]
  BY <1>4
<1>6. f \in ToolSlots
  <2>1. DOMAIN s.tools \ {i} \subseteq Tools /\ \A j \in DOMAIN s.tools \ {i} : s.tools[j] \in Slots
    BY SlotTypes
  <2>2. \A j \in DOMAIN s.tools \ {i} : f[j] \in Slots
    BY <1>5, <2>1
  <2> QED BY <2>1, <2>2, <1>5, ToolSlotsOf
<1>7. t = WithTools(Complete(s, "tool", n, w), f)
  <2>1. t = [Complete(s, "tool", n, w) EXCEPT !.tools = [j \in DOMAIN @ \ {i} |-> @[j]]]
    BY <1>1, <1>2, Zenon DEF CloseTool
  <2>2. Complete(s, "tool", n, w).tools = s.tools
    BY Zenon DEF Complete, Emit, Translators
  <2> QED BY <2>1, <2>2, <1>4, Zenon DEF WithTools
<1>8. /\ t \in Translators
      /\ SameFlags(s, t) /\ t.next = s.next /\ t.tools = f
      /\ t.message = s.message /\ t.reasoning = s.reasoning
      /\ t.queue = Append(s.queue, DoneEvent("tool", n, w))
      /\ t.output = Append(s.output, Piece("tool", w))
  <2>1. ToolDone(s, t, f, n, w)
    BY <1>3, <1>6, <1>7, CompleteTool
  <2> QED BY <2>1 DEF ToolDone
<1> QED
  BY <1>1, <1>2, <1>5, <1>8

EndEvent(s, type) == [type |-> type, output |-> s.output, usage |-> s.usage]

\* t is s with its terminal event.
Ended(s, t, type) ==
    /\ EndEvent(s, type) \in Ending /\ EndEvent(s, type) \in Events
    /\ t \in Translators
    /\ t.started = s.started /\ t.finished = s.finished /\ t.completed
    /\ t.reason = s.reason /\ t.usage = s.usage
    /\ t.next = s.next /\ t.tools = s.tools
    /\ t.message = s.message /\ t.reasoning = s.reasoning
    /\ t.queue = Append(s.queue, EndEvent(s, type)) /\ t.output = s.output

LEMMA TerminalFields ==
    ASSUME NEW s \in Translators, NEW type \in Terminals,
           NEW t, t = Terminal(s, type)
    PROVE  Ended(s, t, type)
<1>1. PICK e : e = EndEvent(s, type)
  OBVIOUS
<1>2. e \in Ending /\ e \in Events
  BY <1>1 DEF EndEvent, Ending, Events, Translators
<1>3. PICK a : a = Emit(s, e)
  OBVIOUS
<1>4. /\ a \in Translators
      /\ SameFlags(s, a) /\ a.next = s.next /\ a.tools = s.tools
      /\ a.message = s.message /\ a.reasoning = s.reasoning
      /\ a.queue = Append(s.queue, e) /\ a.output = s.output
  BY <1>2, <1>3, EmitKeeps
<1>5. t = [a EXCEPT !.completed = TRUE]
  BY <1>1, <1>3, Zenon DEF Terminal, EndEvent
<1>6. /\ t \in Translators
      /\ t.started = a.started /\ t.finished = a.finished /\ t.completed = TRUE
      /\ t.reason = a.reason /\ t.usage = a.usage
      /\ t.next = a.next /\ t.tools = a.tools
      /\ t.message = a.message /\ t.reasoning = a.reasoning
      /\ t.queue = a.queue /\ t.output = a.output
  BY <1>4, <1>5 DEF Translators
<1> QED
  BY <1>1, <1>2, <1>4, <1>6 DEF SameFlags, Ended

LEMMA StartFields ==
    ASSUME NEW s \in Translators, ~s.started,
           NEW t, t = Start(s)
    PROVE  /\ [type |-> "created"] \in Events
           /\ t \in Translators
           /\ t.started /\ t.finished = s.finished /\ t.completed = s.completed
           /\ t.reason = s.reason /\ t.usage = s.usage
           /\ t.next = s.next /\ t.tools = s.tools
           /\ t.message = s.message /\ t.reasoning = s.reasoning
           /\ t.queue = Append(s.queue, [type |-> "created"]) /\ t.output = s.output
<1>1. PICK e : e = [type |-> "created"]
  OBVIOUS
<1>2. e \in Events
  BY <1>1 DEF Events, Created
<1>3. PICK a : a = Emit(s, e)
  OBVIOUS
<1>4. /\ a \in Translators
      /\ SameFlags(s, a) /\ a.next = s.next /\ a.tools = s.tools
      /\ a.message = s.message /\ a.reasoning = s.reasoning
      /\ a.queue = Append(s.queue, e) /\ a.output = s.output
  BY <1>2, <1>3, EmitKeeps
<1>5. t = [a EXCEPT !.started = TRUE]
  BY <1>1, <1>3, Zenon DEF Start
<1>6. /\ t \in Translators
      /\ t.started = TRUE /\ t.finished = a.finished /\ t.completed = a.completed
      /\ t.reason = a.reason /\ t.usage = a.usage
      /\ t.next = a.next /\ t.tools = a.tools
      /\ t.message = a.message /\ t.reasoning = a.reasoning
      /\ t.queue = a.queue /\ t.output = a.output
  BY <1>4, <1>5 DEF Translators
<1> QED
  BY <1>1, <1>2, <1>4, <1>6 DEF SameFlags

-------------------------------------------------------------------------------
(* The translator and its client stay in step.                                *)

\* t has the items of s.
SameItems(s, t) ==
    /\ t.message = s.message /\ t.reasoning = s.reasoning /\ t.tools = s.tools
    /\ t.output = s.output /\ t.next = s.next

LEMMA MatchSame ==
    ASSUME NEW s \in Translators, NEW t \in Translators, NEW c,
           SameItems(s, t), t.completed = s.completed, InPhase(t), Matches(s, c)
    PROVE  Matches(t, c)
<1>1. \A kind \in Texts : t[kind] = s[kind]
  BY Zenon DEF SameItems, Texts
<1>2. Counted(t)
  BY Zenon DEF Matches, Counted, SameItems
<1>3. TextShown(t, c)
  BY <1>1 DEF Matches, TextShown
<1>4. CallsHaveItems(t, c)
  BY Zenon DEF Matches, CallsHaveItems, SameItems
<1>5. OpenIsKnown(t, c)
  BY <1>1, Zenon DEF Matches, OpenIsKnown, SameItems
<1>6. DoneAreListed(t, c)
  BY DEF Matches, DoneAreListed, SameItems
<1> QED
  BY <1>2, <1>3, <1>4, <1>5, <1>6 DEF Matches, SameItems

\* What is known of the items of a client.
LEMMA ItemFacts ==
    ASSUME NEW c \in Clients
    PROVE  /\ c.items \in Seq(Items)
           /\ \A k \in DOMAIN c.items : /\ c.items[k] \in Items
                                        /\ c.items[k].kind \in Kinds
                                        /\ c.items[k].open \in BOOLEAN
                                        /\ c.items[k].text \in Text
           /\ \A kind, open, text : /\ Item(kind, open, text).kind = kind
                                    /\ Item(kind, open, text).open = open
                                    /\ Item(kind, open, text).text = text
<1>1. c.items \in Seq(Items)
  BY DEF Clients
<1>2. \A k \in DOMAIN c.items : c.items[k] \in Items
  BY <1>1
<1> QED
  BY <1>1, <1>2 DEF Items, Item

\* t has emitted e, which the client finds fine and which keeps the two in step.
InStep(s, c, t, e) ==
    /\ e \in Events /\ t.queue = Append(s.queue, e)
    /\ Fine(c, e) /\ Shows(c, e) \in Clients /\ Matches(t, Shows(c, e))

LEMMA MatchTerminal ==
    ASSUME NEW s \in Translators, NEW c \in Clients, NEW type \in Terminals,
           Matches(s, c), s.finished, ~s.completed,
           NEW t, t = Terminal(s, type)
    PROVE  t \in Translators /\ InStep(s, c, t, EndEvent(s, type))
<1>1. PICK e : e = EndEvent(s, type)
  OBVIOUS
<1>2. /\ e \in Ending /\ e \in Events
      /\ t \in Translators
      /\ t.started = s.started /\ t.finished = s.finished /\ t.completed
      /\ SameItems(s, t)
      /\ t.queue = Append(s.queue, e)
  <2>1. Ended(s, t, type)
    BY TerminalFields
  <2> QED BY <1>1, <2>1, Zenon DEF Ended, SameItems
<1>3. PICK d : d = Shows(c, e)
  OBVIOUS
<1>4. /\ d \in Clients /\ d.items = c.items /\ d.ends = Append(c.ends, e.type) /\ d.ok = c.ok
      /\ Fits(c, e) <=> ListsAll(c, e.output)
  BY <1>2, <1>3, EndingShown
<1>5. NothingOpen(s)
  BY DEF Matches, InPhase
<1>6. \A k \in DOMAIN c.items : ~c.items[k].open
  <2>1. SUFFICES ASSUME NEW k \in DOMAIN c.items, c.items[k].open PROVE FALSE
    OBVIOUS
  <2>2. c.items[k].kind \in Kinds
    BY ItemFacts
  <2>3. OpenIsKnown(s, c)
    BY DEF Matches
  <2>4. CASE c.items[k].kind = "tool"
    BY <2>1, <2>3, <2>4, <1>5 DEF OpenIsKnown, NothingOpen
  <2>5. CASE c.items[k].kind = "message"
    BY <2>1, <2>3, <2>5, <1>5, Zenon DEF OpenIsKnown, NothingOpen, Texts
  <2>6. CASE c.items[k].kind = "reasoning"
    BY <2>1, <2>3, <2>6, <1>5, Zenon DEF OpenIsKnown, NothingOpen, Texts
  <2> QED BY <2>2, <2>4, <2>5, <2>6 DEF Kinds
<1>7. Len(s.output) = Len(c.items)
  <2>1. s.next = Len(s.output) + 0 + 0 + 0
    BY <1>5, FS_EmptySet DEF Matches, Counted, One, NothingOpen
  <2>2. Len(c.items) = s.next /\ Len(s.output) \in Nat
    BY SlotTypes DEF Matches
  <2> QED BY <2>1, <2>2
<1>8. e.output = s.output /\ e.type = type
  BY <1>1 DEF EndEvent
<1>9. ListsAll(c, e.output)
  BY <1>6, <1>7, <1>8 DEF ListsAll, Matches, DoneAreListed
<1>10. Fine(c, e)
  BY <1>4, <1>9 DEF Fine, Matches
<1>11. Matches(t, d)
  <2>1. c.ends = <<>>
    BY DEF Matches
  <2>2. Len(d.ends) = 1
    BY <2>1, <1>4, <1>8
  <2>3. \A kind \in Texts : t[kind] = s[kind]
    BY <1>2, Zenon DEF SameItems, Texts
  <2>4. InPhase(t)
    BY <1>2, Zenon DEF InPhase, Matches, SameItems, NothingOpen
  <2>5. Counted(t)
    BY <1>2, Zenon DEF Matches, Counted, SameItems
  <2>6. TextShown(t, d)
    BY <2>3, <1>4 DEF Matches, TextShown
  <2>7. CallsHaveItems(t, d)
    <3>1. CallsHaveItems(s, c) /\ t.tools = s.tools /\ d.items = c.items
      BY <1>2, <1>4 DEF Matches, SameItems
    <3>2. ASSUME NEW i \in DOMAIN t.tools
          PROVE  /\ t.tools[i].index + 1 \in DOMAIN d.items
                 /\ d.items[t.tools[i].index + 1] = Item("tool", TRUE, Visible(i, t.tools[i].text))
      <4>1. /\ s.tools[i].index + 1 \in DOMAIN c.items
            /\ c.items[s.tools[i].index + 1] = Item("tool", TRUE, Visible(i, s.tools[i].text))
        BY <3>1, Zenon DEF CallsHaveItems
      <4> QED BY <3>1, <4>1
    <3>3. \A i, j \in DOMAIN t.tools : t.tools[i].index = t.tools[j].index => i = j
      <4>1. \A i, j \in DOMAIN s.tools : s.tools[i].index = s.tools[j].index => i = j
        BY <3>1, Zenon DEF CallsHaveItems
      <4> QED BY <3>1, <4>1
    <3> QED BY <3>2, <3>3, Zenon DEF CallsHaveItems
  <2>8. OpenIsKnown(t, d)
    BY <2>3, <1>2, <1>4, ZenonT(60) DEF Matches, OpenIsKnown, SameItems
  <2>9. DoneAreListed(t, d)
    BY <1>2, <1>4 DEF Matches, DoneAreListed, SameItems
  <2> QED
    BY <1>2, <1>4, <2>2, <2>4, <2>5, <2>6, <2>7, <2>8, <2>9 DEF Matches, SameItems
<1> QED
  BY <1>1, <1>2, <1>3, <1>4, <1>10, <1>11 DEF InStep

LEMMA MatchStart ==
    ASSUME NEW s \in Translators, NEW c \in Clients,
           Matches(s, c), ~s.started,
           NEW t, t = Start(s)
    PROVE  t \in Translators /\ InStep(s, c, t, [type |-> "created"])
<1>1. PICK e : e = [type |-> "created"]
  OBVIOUS
<1>2. /\ e \in Events
      /\ t \in Translators
      /\ t.started /\ t.finished = s.finished /\ t.completed = s.completed
      /\ SameItems(s, t)
      /\ t.queue = Append(s.queue, e)
  BY <1>1, StartFields, Zenon DEF SameItems
<1>3. s.next = 0 /\ ~s.finished /\ c.ok /\ Len(c.items) = s.next /\ ~s.completed /\ c.ends = <<>>
  BY DEF Matches, InPhase
<1>4. c.items = <<>>
  BY <1>3, ItemFacts
<1>5. Shows(c, e) = c /\ Fine(c, e)
  BY <1>1, <1>3, <1>4, CreatedShown DEF Fine
<1>6. InPhase(t)
  BY <1>2, <1>3, Zenon DEF InPhase, Matches, SameItems
<1>7. Matches(t, c)
  BY <1>2, <1>6, MatchSame
<1> QED
  BY <1>1, <1>2, <1>5, <1>7 DEF InStep

\* What is open of the texts, and how many items there are.
LEMMA CountTypes ==
    ASSUME NEW s \in Translators
    PROVE  /\ IsFiniteSet(DOMAIN s.tools) /\ Cardinality(DOMAIN s.tools) \in Nat
           /\ Len(s.output) \in Nat /\ s.next \in Nat
           /\ One(s.message.open) \in Nat /\ One(s.reasoning.open) \in Nat
<1>1. DOMAIN s.tools \subseteq Tools /\ IsFiniteSet(Tools)
  BY SlotTypes, ToolAssumption DEF Tools
<1>2. IsFiniteSet(DOMAIN s.tools)
  BY <1>1, FS_Subset
<1> QED
  BY <1>2, FS_CardinalityType, SlotTypes DEF One

LEMMA CountText ==
    ASSUME NEW s \in Translators, NEW t \in Translators, NEW kind \in Texts,
           Counted(s), t.tools = s.tools, \A other \in Texts \ {kind} : t[other] = s[other],
           t.next + Len(s.output) + One(s[kind].open) = s.next + Len(t.output) + One(t[kind].open)
    PROVE  Counted(t)
<1>1. PICK z : z = Cardinality(DOMAIN s.tools)
  OBVIOUS
<1>2. PICK m : m = Len(s.output)
  OBVIOUS
<1>3. PICK p : p = Len(t.output)
  OBVIOUS
<1>4. z \in Nat /\ m \in Nat /\ p \in Nat /\ s.next \in Nat /\ t.next \in Nat
  BY <1>1, <1>2, <1>3, CountTypes
<1>5. s.next = m + One(s.message.open) + One(s.reasoning.open) + z
  BY <1>1, <1>2 DEF Counted
<1>6. CASE kind = "message"
  <2>1. t.reasoning = s.reasoning
    BY <1>6, Zenon DEF Texts
  <2>2. t.next + m + One(s.message.open) = s.next + p + One(t.message.open)
    BY <1>2, <1>3, <1>6
  <2>3. t.next = p + One(t.message.open) + One(t.reasoning.open) + z
    BY <1>4, <1>5, <2>1, <2>2 DEF One
  <2> QED BY <1>1, <1>3, <2>3 DEF Counted
<1>7. CASE kind = "reasoning"
  <2>1. t.message = s.message
    BY <1>7, Zenon DEF Texts
  <2>2. t.next + m + One(s.reasoning.open) = s.next + p + One(t.reasoning.open)
    BY <1>2, <1>3, <1>7
  <2>3. t.next = p + One(t.message.open) + One(t.reasoning.open) + z
    BY <1>4, <1>5, <2>1, <2>2 DEF One
  <2> QED BY <1>1, <1>3, <2>3 DEF Counted
<1> QED
  BY <1>6, <1>7 DEF Texts

\* At most one text is open.
LEMMA OneText ==
    ASSUME NEW s, NEW kind \in Texts,
           \/ ~(s.message.open /\ s.reasoning.open)
           \/ \A other \in Texts \ {kind} : ~s[other].open
    PROVE  /\ ~(s.message.open /\ s.reasoning.open)
           /\ s[kind].open => \A other \in Texts \ {kind} : ~s[other].open
<1>1. CASE kind = "message"
  BY <1>1, Zenon DEF Texts
<1>2. CASE kind = "reasoning"
  BY <1>2, Zenon DEF Texts
<1> QED
  BY <1>1, <1>2 DEF Texts

\* No call has its item beyond those of the client.
LEMMA IndexBound ==
    ASSUME NEW s \in Translators, NEW c \in Clients, Matches(s, c), NEW i \in DOMAIN s.tools
    PROVE  /\ s.tools[i].index \in Nat /\ s.tools[i].text \in Text /\ i \in Tools
           /\ s.tools[i].index + 1 \in DOMAIN c.items
           /\ s.tools[i].index < s.next
           /\ c.items[s.tools[i].index + 1] = Item("tool", TRUE, Visible(i, s.tools[i].text))
<1>1. s.tools[i] \in Slots /\ i \in Tools
  BY SlotTypes
<1>2. s.tools[i].index \in Nat /\ s.tools[i].text \in Text
  BY <1>1 DEF Slots
<1>3. /\ s.tools[i].index + 1 \in DOMAIN c.items
      /\ c.items[s.tools[i].index + 1] = Item("tool", TRUE, Visible(i, s.tools[i].text))
  BY Zenon DEF Matches, CallsHaveItems
<1>4. Len(c.items) = s.next /\ c.items \in Seq(Items)
  BY ItemFacts DEF Matches
<1>5. s.tools[i].index < s.next
  BY <1>2, <1>3, <1>4
<1> QED
  BY <1>1, <1>2, <1>3, <1>5

LEMMA TextChangesNoCall ==
    ASSUME NEW s \in Translators, NEW t, NEW c \in Clients, NEW d \in Clients, NEW n,
           Matches(s, c), t.tools = s.tools, c.items[n].kind \in Texts,
           ChangedAt(c, d, n)
    PROVE  CallsHaveItems(t, d)
<1>1. /\ DOMAIN d.items = DOMAIN c.items
      /\ \A k \in DOMAIN c.items : k # n => d.items[k] = c.items[k]
  BY ItemFacts DEF ChangedAt
<1>2. PICK f : f = t.tools
  OBVIOUS
<1>3. ASSUME NEW i \in DOMAIN f
      PROVE  /\ f[i].index + 1 \in DOMAIN d.items
             /\ d.items[f[i].index + 1] = Item("tool", TRUE, Visible(i, f[i].text))
  <2>1. i \in DOMAIN s.tools /\ f[i] = s.tools[i]
    BY <1>2
  <2>2. /\ s.tools[i].index + 1 \in DOMAIN c.items
        /\ c.items[s.tools[i].index + 1] = Item("tool", TRUE, Visible(i, s.tools[i].text))
    BY <2>1, IndexBound
  <2>3. c.items[s.tools[i].index + 1].kind = "tool"
    BY <2>2 DEF Item
  <2>4. s.tools[i].index + 1 # n
    BY <2>3 DEF Texts
  <2> QED BY <1>1, <2>1, <2>2, <2>4
<1>4. \A i, j \in DOMAIN s.tools : s.tools[i].index = s.tools[j].index => i = j
  BY Zenon DEF Matches, CallsHaveItems
<1>5. \A i, j \in DOMAIN f : f[i].index = f[j].index => i = j
  BY <1>2, <1>4
<1> QED
  BY <1>2, <1>3, <1>5, Zenon DEF CallsHaveItems

LEMMA ListedWhenDone ==
    ASSUME NEW s \in Translators, NEW t, NEW c \in Clients, NEW d \in Clients, NEW n \in DOMAIN c.items,
           NEW kind \in Kinds, NEW text \in Text,
           DoneAreListed(s, c), t.output = Append(s.output, Piece(kind, text)), c.items[n].open,
           ChangedAt(c, d, n),
           d.items[n] = Item(kind, FALSE, text)
    PROVE  DoneAreListed(t, d)
<1>1. /\ \A j \in DOMAIN s.output : \E k \in DOMAIN c.items :
            ~c.items[k].open /\ s.output[j] = Piece(c.items[k].kind, c.items[k].text)
      /\ \A k \in DOMAIN c.items : ~c.items[k].open =>
            \E j \in DOMAIN s.output : s.output[j] = Piece(c.items[k].kind, c.items[k].text)
  BY DEF DoneAreListed
<1>2. PICK o : o = t.output
  OBVIOUS
<1>3. PICK m : m = Len(s.output)
  OBVIOUS
<1>4. /\ m \in Nat /\ DOMAIN s.output = 1 .. m /\ DOMAIN o = 1 .. m + 1
      /\ o[m + 1] = Piece(kind, text)
      /\ \A j \in 1 .. m : o[j] = s.output[j]
  BY <1>2, <1>3, SlotTypes
<1>5. /\ DOMAIN d.items = DOMAIN c.items
      /\ \A k \in DOMAIN c.items : k # n => d.items[k] = c.items[k]
  BY ItemFacts DEF ChangedAt
<1>6. ~d.items[n].open /\ d.items[n].kind = kind /\ d.items[n].text = text
  BY DEF Item
<1>7. ASSUME NEW j \in DOMAIN o
      PROVE  \E k \in DOMAIN d.items : ~d.items[k].open /\ o[j] = Piece(d.items[k].kind, d.items[k].text)
  <2>1. CASE j = m + 1
    BY <2>1, <1>4, <1>5, <1>6
  <2>2. CASE j # m + 1
    <3>1. j \in DOMAIN s.output /\ o[j] = s.output[j]
      BY <2>2, <1>4
    <3>2. PICK k \in DOMAIN c.items : ~c.items[k].open /\ s.output[j] = Piece(c.items[k].kind, c.items[k].text)
      BY <3>1, <1>1
    <3>3. d.items[k] = c.items[k]
      BY <3>2, <1>5
    <3> QED BY <3>1, <3>2, <3>3, <1>5
  <2> QED BY <2>1, <2>2
<1>8. ASSUME NEW k \in DOMAIN d.items, ~d.items[k].open
      PROVE  \E j \in DOMAIN o : o[j] = Piece(d.items[k].kind, d.items[k].text)
  <2>1. CASE k = n
    <3>1. m + 1 \in DOMAIN o /\ o[m + 1] = Piece(d.items[k].kind, d.items[k].text)
      <4>1. Piece(d.items[n].kind, d.items[n].text) = Piece(kind, text)
        BY <1>6
      <4>2. m + 1 \in DOMAIN o /\ o[m + 1] = Piece(kind, text)
        BY <1>4
      <4> QED BY <2>1, <4>1, <4>2, Zenon
    <3> QED BY <3>1, Zenon
  <2>2. CASE k # n
    <3>1. d.items[k] = c.items[k] /\ k \in DOMAIN c.items
      BY <2>2, <1>5
    <3>2. PICK j \in DOMAIN s.output : s.output[j] = Piece(c.items[k].kind, c.items[k].text)
      BY <3>1, <1>1, <1>8
    <3> QED BY <3>1, <3>2, <1>4
  <2> QED BY <2>1, <2>2
<1>9. /\ \A j \in DOMAIN t.output : \E k \in DOMAIN d.items :
            ~d.items[k].open /\ t.output[j] = Piece(d.items[k].kind, d.items[k].text)
      /\ \A k \in DOMAIN d.items : ~d.items[k].open =>
            \E j \in DOMAIN t.output : t.output[j] = Piece(d.items[k].kind, d.items[k].text)
  BY <1>2, <1>7, <1>8, ZenonT(60)
<1> QED
  BY <1>9, Zenon DEF DoneAreListed

LEMMA ListedWhenOpen ==
    ASSUME NEW s, NEW t, NEW c \in Clients, NEW d \in Clients, NEW n \in DOMAIN c.items,
           DoneAreListed(s, c), t.output = s.output, c.items[n].open, d.items[n].open,
           ChangedAt(c, d, n)
    PROVE  DoneAreListed(t, d)
<1>1. /\ \A j \in DOMAIN s.output : \E k \in DOMAIN c.items :
            ~c.items[k].open /\ s.output[j] = Piece(c.items[k].kind, c.items[k].text)
      /\ \A k \in DOMAIN c.items : ~c.items[k].open =>
            \E j \in DOMAIN s.output : s.output[j] = Piece(c.items[k].kind, c.items[k].text)
  BY DEF DoneAreListed
<1>2. PICK o : o = t.output
  OBVIOUS
<1>3. /\ DOMAIN d.items = DOMAIN c.items
      /\ \A k \in DOMAIN c.items : k # n => d.items[k] = c.items[k]
  BY ItemFacts DEF ChangedAt
<1>4. ASSUME NEW j \in DOMAIN o
      PROVE  \E k \in DOMAIN d.items : ~d.items[k].open /\ o[j] = Piece(d.items[k].kind, d.items[k].text)
  <2>1. PICK k \in DOMAIN c.items : ~c.items[k].open /\ o[j] = Piece(c.items[k].kind, c.items[k].text)
    BY <1>1, <1>2
  <2>2. d.items[k] = c.items[k]
    BY <2>1, <1>3
  <2> QED BY <2>1, <2>2, <1>3
<1>5. ASSUME NEW k \in DOMAIN d.items, ~d.items[k].open
      PROVE  \E j \in DOMAIN o : o[j] = Piece(d.items[k].kind, d.items[k].text)
  <2>1. d.items[k] = c.items[k] /\ k \in DOMAIN c.items
    BY <1>3, <1>5
  <2> QED BY <2>1, <1>1, <1>2, <1>5
<1> QED
  BY <1>2, <1>4, <1>5 DEF DoneAreListed

\* A text is closed.
LEMMA MatchCloseItem ==
    ASSUME NEW s \in Translators, NEW c \in Clients, NEW kind \in Texts,
           Matches(s, c), s[kind].open,
           NEW t, t = CloseItem(s, kind)
    PROVE  /\ t \in Translators
           /\ InStep(s, c, t, DoneEvent(kind, s[kind].index, s[kind].text))
<1>1. PICK n : n = s[kind].index + 1
  OBVIOUS
<1>2. PICK text : text = s[kind].text
  OBVIOUS
<1>3. PICK e : e = DoneEvent(kind, s[kind].index, s[kind].text)
  OBVIOUS
<1>4. kind \in Kinds /\ s[kind].index \in Nat /\ text \in Text
  BY <1>2, SlotTypes DEF Texts, Kinds
<1>5. /\ t \in Translators
      /\ SameFlags(s, t) /\ t.next = s.next /\ t.tools = s.tools
      /\ t[kind] = Closed
      /\ \A other \in Texts \ {kind} : t[other] = s[other]
      /\ t.queue = Append(s.queue, e)
      /\ t.output = Append(s.output, Piece(kind, text))
  BY <1>2, <1>3, CloseItemFields
<1>6. n = Len(c.items) /\ n \in DOMAIN c.items /\ c.items[n] = Item(kind, TRUE, text)
  <2>1. n = Len(c.items) /\ c.items[n] = Item(kind, TRUE, text)
    BY <1>1, <1>2 DEF Matches, TextShown
  <2>2. n \in Nat \ {0} /\ c.items \in Seq(Items)
    BY <1>1, <1>4, ItemFacts
  <2> QED BY <2>1, <2>2
<1>7. c.items[n].open /\ c.items[n].kind = kind /\ c.items[n].text = text
  BY <1>6 DEF Item
<1>8. PICK d : d = Shows(c, e)
  OBVIOUS
<1>9. /\ e \in Events /\ ChangedAt(c, d, n)
      /\ d.items[n] = ItemAfter(c.items[n], e)
      /\ d.ends = c.ends /\ d.ok = c.ok
      /\ Fits(c, e)
  <2>1. e = [type |-> "done", kind |-> kind, index |-> s[kind].index, text |-> text]
    BY <1>2, <1>3 DEF DoneEvent
  <2>2. DoneWith(kind, c.items[n].text, text)
    BY <1>7 DEF DoneWith
  <2> QED BY <2>1, <2>2, <1>1, <1>4, <1>6, <1>7, <1>8, ChangedShown
<1>10. d.items[n] = Item(kind, FALSE, text)
  <2>1. e.type = "done" /\ e.text = text
    BY <1>2, <1>3 DEF DoneEvent
  <2> QED BY <2>1, <1>7, <1>9, Zenon DEF ItemAfter
<1>11. s.finished = FALSE /\ s.completed = FALSE /\ c.ok /\ c.ends = <<>>
  <2>1. ~s.finished
    BY Zenon DEF Matches, InPhase, NothingOpen, Texts
  <2> QED BY <2>1 DEF Matches, InPhase, Translators
<1>12. Fine(c, e)
  BY <1>9, <1>11 DEF Fine
<1>20. /\ d \in Clients /\ d.items \in Seq(Items)
       /\ Len(d.items) = Len(c.items) /\ DOMAIN d.items = DOMAIN c.items
       /\ \A k \in DOMAIN c.items : k # n => d.items[k] = c.items[k]
  BY <1>9, ItemFacts DEF ChangedAt
<1>13. /\ ~t[kind].open /\ \A other \in Texts \ {kind} : ~s[other].open
       /\ InPhase(t) /\ Counted(t)
  <2>1. ~t[kind].open
    BY <1>5, SlotValues
  <2>2. \A other \in Texts \ {kind} : ~s[other].open
    BY OneText DEF Matches, InPhase
  <2>3. ~(t.message.open /\ t.reasoning.open)
    BY <2>2, <1>5, OneText
  <2>4. InPhase(t)
    BY <1>5, <1>11, <2>3, Zenon DEF InPhase, Matches, SameFlags
  <2>5. Len(t.output) = Len(s.output) + 1 /\ Len(s.output) \in Nat
    BY <1>5, SlotTypes
  <2>6. t.next + Len(s.output) + One(s[kind].open) = s.next + Len(t.output) + One(t[kind].open)
    <3>1. One(s[kind].open) = 1 /\ One(t[kind].open) = 0
      BY <2>1 DEF One
    <3>2. t.next = s.next /\ s.next \in Nat
      BY <1>5, SlotTypes
    <3>3. PICK a : a = One(s[kind].open)
      OBVIOUS
    <3>4. PICK b : b = One(t[kind].open)
      OBVIOUS
    <3>5. t.next + Len(s.output) + a = s.next + Len(t.output) + b
      BY <3>1, <3>2, <3>3, <3>4, <2>5
    <3> QED BY <3>3, <3>4, <3>5, Zenon
  <2>7. Counted(t)
    <3>1. Counted(s) /\ t.tools = s.tools /\ \A other \in Texts \ {kind} : t[other] = s[other]
      BY <1>5 DEF Matches
    <3>2. t \in Translators
      BY <1>5
    <3> QED BY <3>1, <3>2, <2>6, CountText
  <2> QED BY <2>1, <2>2, <2>4, <2>7
<1>14. TextShown(t, d)
  <2>1. SUFFICES ASSUME NEW other \in Texts, t[other].open PROVE FALSE
    BY DEF TextShown
  <2>2. other # kind
    BY <2>1, <1>5, SlotValues
  <2>3. s[other].open
    BY <2>1, <2>2, <1>5
  <2> QED BY <2>2, <2>3, <1>13
<1>15. CallsHaveItems(t, d)
  BY <1>5, <1>7, <1>9, <1>20, TextChangesNoCall
<1>16. OpenIsKnown(t, d)
  <2>1. SUFFICES ASSUME NEW k \in DOMAIN d.items, d.items[k].open
                 PROVE  /\ \A other \in Texts : d.items[k].kind = other => t[other].open /\ t[other].index + 1 = k
                        /\ d.items[k].kind = "tool" => \E i \in DOMAIN t.tools : t.tools[i].index + 1 = k
    BY Zenon DEF OpenIsKnown
  <2>2. k # n
    BY <2>1, <1>10 DEF Item
  <2>3. d.items[k] = c.items[k] /\ k \in DOMAIN c.items
    BY <2>1, <2>2, <1>20
  <2>4. /\ \A other \in Texts : c.items[k].kind = other => s[other].open /\ s[other].index + 1 = k
        /\ c.items[k].kind = "tool" => \E i \in DOMAIN s.tools : s.tools[i].index + 1 = k
    BY <2>1, <2>3 DEF Matches, OpenIsKnown
  <2>5. c.items[k].kind # kind
    BY <2>2, <2>4, <1>1
  <2>6. ASSUME NEW other \in Texts, d.items[k].kind = other
        PROVE  t[other].open /\ t[other].index + 1 = k
    BY <2>3, <2>4, <2>5, <2>6, <1>5
  <2>7. d.items[k].kind = "tool" => \E i \in DOMAIN t.tools : t.tools[i].index + 1 = k
    BY <2>3, <2>4, <1>5
  <2> QED BY <2>6, <2>7
<1>17. DoneAreListed(t, d)
  <2>1. c.items[n].open /\ t.output = Append(s.output, Piece(kind, text))
    BY <1>5, <1>7
  <2> QED BY <2>1, <1>4, <1>6, <1>9, <1>10, <1>20, ListedWhenDone DEF Matches
<1> QED
  <2>1. Len(d.items) = t.next /\ t.completed = FALSE /\ d.ok /\ d.ends = <<>>
    BY <1>5, <1>9, <1>11, <1>20 DEF SameFlags, Matches
  <2>2. Matches(t, d)
    BY <2>1, <1>13, <1>14, <1>15, <1>16, <1>17, Zenon DEF Matches
  <2> QED
    BY <2>2, <1>3, <1>5, <1>8, <1>9, <1>12, <1>20 DEF InStep

\* What an item that is added leaves.
LEMMA AppendItem ==
    ASSUME NEW items \in Seq(Items), NEW x \in Items,
           NEW new, new = Append(items, x)
    PROVE  /\ new \in Seq(Items) /\ Len(new) = Len(items) + 1
           /\ DOMAIN new = DOMAIN items \cup {Len(items) + 1}
           /\ Len(items) + 1 \notin DOMAIN items
           /\ new[Len(items) + 1] = x
           /\ \A k \in DOMAIN items : new[k] = items[k]
  OBVIOUS

\* The items that are done stay listed when one that is open is added.
LEMMA ListedWithOpen ==
    ASSUME NEW s, NEW t, NEW c \in Clients, NEW d \in Clients, NEW x \in Items,
           DoneAreListed(s, c), t.output = s.output, d.items = Append(c.items, x), x.open
    PROVE  DoneAreListed(t, d)
<1>1. PICK items : items = c.items
  OBVIOUS
<1>2. PICK new : new = d.items
  OBVIOUS
<1>3. PICK n : n = Len(items) + 1
  OBVIOUS
<1>4. /\ DOMAIN new = DOMAIN items \cup {n} /\ n \notin DOMAIN items /\ new[n] = x
      /\ \A k \in DOMAIN items : new[k] = items[k]
  BY <1>1, <1>2, <1>3, AppendItem, ItemFacts
<1>5. /\ \A j \in DOMAIN s.output : \E k \in DOMAIN items :
            ~items[k].open /\ s.output[j] = Piece(items[k].kind, items[k].text)
      /\ \A k \in DOMAIN items : ~items[k].open =>
            \E j \in DOMAIN s.output : s.output[j] = Piece(items[k].kind, items[k].text)
  BY <1>1, Zenon DEF DoneAreListed
<1>6. \A j \in DOMAIN s.output : \E k \in DOMAIN new :
            ~new[k].open /\ s.output[j] = Piece(new[k].kind, new[k].text)
  BY <1>4, <1>5
<1>7. \A k \in DOMAIN new : ~new[k].open =>
            \E j \in DOMAIN s.output : s.output[j] = Piece(new[k].kind, new[k].text)
  BY <1>4, <1>5
<1>8. PICK o : o = t.output
  OBVIOUS
<1>9. /\ \A j \in DOMAIN o : \E k \in DOMAIN new : ~new[k].open /\ o[j] = Piece(new[k].kind, new[k].text)
      /\ \A k \in DOMAIN new : ~new[k].open => \E j \in DOMAIN o : o[j] = Piece(new[k].kind, new[k].text)
  BY <1>6, <1>7, <1>8
<1> QED
  BY <1>2, <1>8, <1>9, ZenonT(60) DEF DoneAreListed

LEMMA MatchOpenText ==
    ASSUME NEW s \in Translators, NEW c \in Clients, NEW kind \in Texts,
           Matches(s, c), ~s.message.open, ~s.reasoning.open, s.started, ~s.finished,
           NEW t, t = OpenText(s, kind)
    PROVE  /\ t \in Translators
           /\ InStep(s, c, t, AddedEvent(kind, s.next))
<1>1. PICK e : e = AddedEvent(kind, s.next)
  OBVIOUS
<1>2. /\ t \in Translators
      /\ SameFlags(s, t) /\ t.next = s.next + 1 /\ t.tools = s.tools
      /\ t[kind] = Opened(s.next, <<>>)
      /\ \A other \in Texts \ {kind} : t[other] = s[other]
      /\ t.queue = Append(s.queue, e)
      /\ t.output = s.output
  BY <1>1, OpenTextFields
<1>3. kind \in Kinds /\ s.next \in Nat /\ <<>> \in Text
  BY SlotTypes DEF Texts, Kinds, Text
<1>4. PICK d : d = Shows(c, e)
  OBVIOUS
<1>5. PICK x : x = Item(kind, TRUE, <<>>)
  OBVIOUS
<1>6. x \in Items /\ x.open /\ x.kind = kind /\ x.text = <<>>
  BY <1>3, <1>5 DEF Item, Items
<1>7. Len(c.items) = s.next /\ c.items \in Seq(Items) /\ c.ok /\ ~s.completed /\ c.ends = <<>>
  BY ItemFacts DEF Matches, InPhase
<1>8. \A k \in DOMAIN c.items : c.items[k].open => c.items[k].kind \notin Texts
  <2>1. \A k \in DOMAIN c.items : c.items[k].open =>
            \A other \in Texts : c.items[k].kind = other => s[other].open
    BY Zenon DEF Matches, OpenIsKnown
  <2>2. ~\E other \in Texts : s[other].open
    BY Zenon DEF Texts
  <2> QED BY <2>1, <2>2, Zenon
<1>9. ActiveItems(c) = {}
  BY <1>8 DEF ActiveItems
<1>10. /\ e \in Events /\ d \in Clients
       /\ d.items = Append(c.items, x)
       /\ d.ends = c.ends /\ d.ok = c.ok
       /\ Fits(c, e)
  <2>1. e = [type |-> "added", kind |-> kind, index |-> s.next]
    BY <1>1 DEF AddedEvent
  <2>2. s.next = Len(c.items) /\ (kind \in Texts => ActiveItems(c) = {})
    BY <1>7, <1>9
  <2>3. Fits(c, e)
    BY <2>1, <2>2, <1>3, AddedShown
  <2>4. e \in Events /\ AddedTo(c, d, kind)
    BY <2>1, <1>3, <1>4, AddedShown
  <2> QED BY <2>3, <2>4, <1>5 DEF AddedTo
<1>11. Fine(c, e)
  BY <1>7, <1>10 DEF Fine
<1>12. PICK n : n = s.next + 1
  OBVIOUS
<1>13. /\ d.items \in Seq(Items) /\ Len(d.items) = n
       /\ DOMAIN d.items = DOMAIN c.items \cup {n} /\ n \notin DOMAIN c.items
       /\ d.items[n] = x
       /\ \A k \in DOMAIN c.items : d.items[k] = c.items[k]
  BY <1>6, <1>7, <1>10, <1>12, AppendItem
<1>14. t[kind].open /\ t[kind].index = s.next /\ t[kind].text = <<>>
  BY <1>2, <1>3, SlotValues
<1>15. \A other \in Texts \ {kind} : ~t[other].open
  BY <1>2, Zenon DEF Texts
<1>16. InPhase(t) /\ Counted(t)
  <2>1. ~(t.message.open /\ t.reasoning.open)
    BY <1>15, OneText
  <2>2. InPhase(t)
    BY <1>2, <1>7, <2>1, Zenon DEF InPhase, Matches, SameFlags
  <2>3. ~s[kind].open
    BY Zenon DEF Texts
  <2>4. t.next + Len(s.output) + One(s[kind].open) = s.next + Len(t.output) + One(t[kind].open)
    BY <1>2, <1>14, <2>3, CountTypes DEF One
  <2>5. Counted(t)
    BY <1>2, <2>4, CountText DEF Matches
  <2> QED BY <2>2, <2>5
<1>17. TextShown(t, d)
  BY <1>5, <1>12, <1>13, <1>14, <1>15 DEF TextShown
<1>18. CallsHaveItems(t, d)
  <2>1. PICK f : f = t.tools
    OBVIOUS
  <2>2. ASSUME NEW i \in DOMAIN f
        PROVE  /\ f[i].index + 1 \in DOMAIN d.items
               /\ d.items[f[i].index + 1] = Item("tool", TRUE, Visible(i, f[i].text))
    <3>1. i \in DOMAIN s.tools /\ f[i] = s.tools[i]
      BY <1>2, <2>1
    <3>2. /\ s.tools[i].index + 1 \in DOMAIN c.items
          /\ c.items[s.tools[i].index + 1] = Item("tool", TRUE, Visible(i, s.tools[i].text))
      BY <3>1, IndexBound
    <3> QED BY <3>1, <3>2, <1>13
  <2>3. \A i, j \in DOMAIN s.tools : s.tools[i].index = s.tools[j].index => i = j
    BY Zenon DEF Matches, CallsHaveItems
  <2>4. \A i, j \in DOMAIN f : f[i].index = f[j].index => i = j
    BY <1>2, <2>1, <2>3
  <2> QED BY <2>1, <2>2, <2>4, Zenon DEF CallsHaveItems
<1>19. OpenIsKnown(t, d)
  <2>1. SUFFICES ASSUME NEW k \in DOMAIN d.items, d.items[k].open
                 PROVE  /\ \A other \in Texts : d.items[k].kind = other => t[other].open /\ t[other].index + 1 = k
                        /\ d.items[k].kind = "tool" => \E i \in DOMAIN t.tools : t.tools[i].index + 1 = k
    BY Zenon DEF OpenIsKnown
  <2>2. CASE k = n
    <3>1. d.items[k].kind = kind
      BY <2>2, <1>6, <1>13
    <3> QED BY <3>1, <2>2, <1>12, <1>14 DEF Texts
  <2>3. CASE k # n
    <3>1. d.items[k] = c.items[k] /\ k \in DOMAIN c.items
      BY <2>1, <2>3, <1>13
    <3>2. c.items[k].open /\ c.items[k].kind \notin Texts
      BY <2>1, <3>1, <1>8
    <3>3. c.items[k].kind = "tool" => \E i \in DOMAIN s.tools : s.tools[i].index + 1 = k
      BY <3>1, <3>2 DEF Matches, OpenIsKnown
    <3> QED BY <3>1, <3>2, <3>3, <1>2
  <2> QED BY <2>2, <2>3
<1>20. DoneAreListed(t, d)
  BY <1>2, <1>6, <1>10, ListedWithOpen DEF Matches
<1> QED
  <2>1. Len(d.items) = t.next /\ t.completed = FALSE /\ d.ok /\ d.ends = <<>>
    BY <1>2, <1>7, <1>10, <1>12, <1>13 DEF SameFlags, Translators
  <2>2. Matches(t, d)
    BY <2>1, <1>16, <1>17, <1>18, <1>19, <1>20, Zenon DEF Matches
  <2> QED
    BY <2>2, <1>1, <1>2, <1>4, <1>10, <1>11 DEF InStep

\* A fragment goes to the text that is open.
LEMMA MatchTellText ==
    ASSUME NEW s \in Translators, NEW c \in Clients, NEW kind \in Texts, NEW part \in Nat,
           Matches(s, c), s[kind].open,
           NEW t, t = TellText(s, kind, part)
    PROVE  /\ t \in Translators
           /\ InStep(s, c, t, DeltaEvent(kind, s[kind].index, <<part>>))
<1>1. PICK n : n = s[kind].index + 1
  OBVIOUS
<1>2. PICK text : text = s[kind].text
  OBVIOUS
<1>3. PICK e : e = DeltaEvent(kind, s[kind].index, <<part>>)
  OBVIOUS
<1>4. kind \in Kinds /\ s[kind].index \in Nat /\ text \in Text /\ <<part>> \in Text
  BY <1>2, SlotTypes DEF Texts, Kinds, Text
<1>18. PICK more : more = Append(text, part)
  OBVIOUS
<1>5. /\ t \in Translators
      /\ SameFlags(s, t) /\ t.next = s.next /\ t.tools = s.tools
      /\ t[kind] = Opened(s[kind].index, more)
      /\ \A other \in Texts \ {kind} : t[other] = s[other]
      /\ t.queue = Append(s.queue, e)
      /\ t.output = s.output
  BY <1>2, <1>3, <1>18, TellTextFields
<1>19. more \in Text /\ more = text \o <<part>>
  BY <1>4, <1>18 DEF Text
<1>6. n = Len(c.items) /\ n \in DOMAIN c.items /\ c.items[n] = Item(kind, TRUE, text)
  <2>1. n = Len(c.items) /\ c.items[n] = Item(kind, TRUE, text)
    BY <1>1, <1>2 DEF Matches, TextShown
  <2>2. n \in Nat \ {0} /\ c.items \in Seq(Items)
    BY <1>1, <1>4, ItemFacts
  <2> QED BY <2>1, <2>2
<1>7. c.items[n].open /\ c.items[n].kind = kind /\ c.items[n].text = text
  BY <1>6 DEF Item
<1>8. PICK d : d = Shows(c, e)
  OBVIOUS
<1>9. /\ e \in Events /\ ChangedAt(c, d, n)
      /\ d.items[n] = ItemAfter(c.items[n], e)
      /\ d.ends = c.ends /\ d.ok = c.ok
      /\ Fits(c, e)
  <2>1. e = [type |-> "delta", kind |-> kind, index |-> s[kind].index, text |-> <<part>>]
    BY <1>3 DEF DeltaEvent
  <2> QED BY <2>1, <1>1, <1>4, <1>6, <1>7, <1>8, ChangedShown
<1>10. d.items[n] = Item(kind, TRUE, more)
  <2>1. e.type = "delta" /\ e.text = <<part>>
    BY <1>3 DEF DeltaEvent
  <2>2. ItemAfter(c.items[n], e) = Item(c.items[n].kind, TRUE, c.items[n].text \o e.text)
    BY <2>1 DEF ItemAfter
  <2> QED BY <2>1, <2>2, <1>7, <1>9, <1>19, Zenon
<1>11. s.finished = FALSE /\ s.completed = FALSE /\ c.ok /\ c.ends = <<>>
  <2>1. ~s.finished
    BY Zenon DEF Matches, InPhase, NothingOpen, Texts
  <2> QED BY <2>1 DEF Matches, InPhase, Translators
<1>12. Fine(c, e)
  BY <1>9, <1>11 DEF Fine
<1>20. /\ d \in Clients /\ d.items \in Seq(Items)
       /\ Len(d.items) = Len(c.items) /\ DOMAIN d.items = DOMAIN c.items
       /\ \A k \in DOMAIN c.items : k # n => d.items[k] = c.items[k]
  BY <1>9, ItemFacts DEF ChangedAt
<1>21. t[kind].open = TRUE /\ t[kind].index = s[kind].index /\ t[kind].text = more
  <2>1. t[kind] = Opened(s[kind].index, more)
    BY <1>5
  <2> QED BY <2>1 DEF Opened
<1>13. /\ \A other \in Texts \ {kind} : ~s[other].open
       /\ InPhase(t) /\ Counted(t)
  <2>2. \A other \in Texts \ {kind} : ~s[other].open
    BY OneText DEF Matches, InPhase
  <2>3. ~(t.message.open /\ t.reasoning.open)
    BY <2>2, <1>5, OneText
  <2>4. InPhase(t)
    BY <1>5, <1>11, <2>3, Zenon DEF InPhase, Matches, SameFlags
  <2>5. One(t[kind].open) = One(s[kind].open)
    BY <1>21 DEF One
  <2>6. t.next + Len(s.output) + One(s[kind].open) = s.next + Len(t.output) + One(t[kind].open)
    <3>1. t.next = s.next /\ t.output = s.output
      BY <1>5
    <3> QED BY <2>5, <3>1, Zenon
  <2>7. Counted(t)
    <3>1. Counted(s) /\ t.tools = s.tools /\ \A other \in Texts \ {kind} : t[other] = s[other]
      BY <1>5 DEF Matches
    <3>2. t \in Translators
      BY <1>5
    <3> QED BY <3>1, <3>2, <2>6, CountText
  <2> QED BY <2>2, <2>4, <2>7
<1>14. TextShown(t, d)
  BY <1>1, <1>5, <1>6, <1>10, <1>13, <1>20, <1>21 DEF TextShown
<1>15. CallsHaveItems(t, d)
  BY <1>5, <1>7, <1>9, <1>20, TextChangesNoCall
<1>16. OpenIsKnown(t, d)
  <2>1. SUFFICES ASSUME NEW k \in DOMAIN d.items, d.items[k].open
                 PROVE  /\ \A other \in Texts : d.items[k].kind = other => t[other].open /\ t[other].index + 1 = k
                        /\ d.items[k].kind = "tool" => \E i \in DOMAIN t.tools : t.tools[i].index + 1 = k
    BY Zenon DEF OpenIsKnown
  <2>2. CASE k = n
    <3>1. d.items[k].kind = kind
      BY <2>2, <1>10 DEF Item
    <3> QED BY <2>2, <3>1, <1>1, <1>21 DEF Texts
  <2>3. CASE k # n
    <3>1. d.items[k] = c.items[k] /\ k \in DOMAIN c.items
      BY <2>1, <2>3, <1>20
    <3>2. /\ \A other \in Texts : c.items[k].kind = other => s[other].open /\ s[other].index + 1 = k
          /\ c.items[k].kind = "tool" => \E i \in DOMAIN s.tools : s.tools[i].index + 1 = k
      BY <2>1, <3>1 DEF Matches, OpenIsKnown
    <3>3. c.items[k].kind # kind
      BY <2>3, <3>2, <1>1
    <3>4. ASSUME NEW other \in Texts, d.items[k].kind = other
          PROVE  t[other].open /\ t[other].index + 1 = k
      BY <3>1, <3>2, <3>3, <3>4, <1>5
    <3>5. d.items[k].kind = "tool" => \E i \in DOMAIN t.tools : t.tools[i].index + 1 = k
      BY <3>1, <3>2, <1>5
    <3> QED BY <3>4, <3>5
  <2> QED BY <2>2, <2>3
<1>17. DoneAreListed(t, d)
  <2>1. d.items[n].open /\ t.output = s.output
    BY <1>5, <1>10 DEF Item
  <2>2. DoneAreListed(s, c)
    BY DEF Matches
  <2> QED BY <2>1, <2>2, <1>6, <1>7, <1>9, <1>20, ListedWhenOpen
<1> QED
  <2>1. Len(d.items) = t.next /\ t.completed = FALSE /\ d.ok /\ d.ends = <<>>
    BY <1>5, <1>9, <1>11, <1>20 DEF SameFlags, Matches
  <2>2. Matches(t, d)
    BY <2>1, <1>13, <1>14, <1>15, <1>16, <1>17, Zenon DEF Matches
  <2> QED
    BY <2>2, <1>3, <1>5, <1>8, <1>9, <1>12, <1>20 DEF InStep

\* A call is announced.
LEMMA VisibleEmpty ==
    ASSUME NEW i \in Tools
    PROVE  Visible(i, <<>>) = <<>>
<1>1. SubSeq(<<>>, 2, Len(<<>>)) = <<>>
  OBVIOUS
<1> QED
  BY <1>1 DEF Visible

LEMMA MatchOpenTool ==
    ASSUME NEW s \in Translators, NEW c \in Clients, NEW i \in Tools, i \notin DOMAIN s.tools,
           Matches(s, c), ~s.message.open, ~s.reasoning.open, s.started, ~s.finished,
           NEW t, t = OpenTool(s, i)
    PROVE  /\ t \in Translators
           /\ InStep(s, c, t, AddedEvent("tool", s.next))
<1>1. PICK e : e = AddedEvent("tool", s.next)
  OBVIOUS
<1>22. PICK f : f = t.tools
  OBVIOUS
<1>2. /\ t \in Translators
      /\ SameFlags(s, t) /\ t.next = s.next + 1
      /\ t.message = s.message /\ t.reasoning = s.reasoning
      /\ DOMAIN f = DOMAIN s.tools \cup {i}
      /\ f[i] = Opened(s.next, <<>>)
      /\ \A j \in DOMAIN s.tools : f[j] = s.tools[j]
      /\ t.queue = Append(s.queue, e)
      /\ t.output = s.output
  BY <1>1, <1>22, OpenToolFields
<1>3. "tool" \in Kinds /\ "tool" \notin Texts /\ s.next \in Nat /\ <<>> \in Text
  BY SlotTypes DEF Texts, Kinds, Text
<1>4. PICK d : d = Shows(c, e)
  OBVIOUS
<1>5. PICK x : x = Item("tool", TRUE, <<>>)
  OBVIOUS
<1>6. x \in Items /\ x.open /\ x.kind = "tool" /\ x.text = <<>>
  BY <1>3, <1>5 DEF Item, Items
<1>7. Len(c.items) = s.next /\ c.items \in Seq(Items) /\ c.ok /\ ~s.completed /\ c.ends = <<>>
  BY ItemFacts DEF Matches, InPhase
<1>10. /\ e \in Events /\ d \in Clients
       /\ d.items = Append(c.items, x)
       /\ d.ends = c.ends /\ d.ok = c.ok
       /\ Fits(c, e)
  <2>1. PICK kind : kind = "tool"
    OBVIOUS
  <2>2. e = [type |-> "added", kind |-> kind, index |-> s.next]
    BY <1>1, <2>1 DEF AddedEvent
  <2>3. s.next = Len(c.items) /\ (kind \in Texts => ActiveItems(c) = {}) /\ kind \in Kinds
    BY <1>3, <1>7, <2>1
  <2>4. Fits(c, e)
    BY <2>2, <2>3, <1>3, AddedShown
  <2>5. e \in Events /\ AddedTo(c, d, kind)
    BY <2>2, <2>3, <1>3, <1>4, AddedShown
  <2> QED BY <2>1, <2>4, <2>5, <1>5 DEF AddedTo
<1>11. Fine(c, e)
  BY <1>7, <1>10 DEF Fine
<1>12. PICK n : n = s.next + 1
  OBVIOUS
<1>13. /\ d.items \in Seq(Items) /\ Len(d.items) = n
       /\ DOMAIN d.items = DOMAIN c.items \cup {n} /\ n \notin DOMAIN c.items
       /\ d.items[n] = x
       /\ \A k \in DOMAIN c.items : d.items[k] = c.items[k]
  BY <1>6, <1>7, <1>10, <1>12, AppendItem
<1>14. f[i].open /\ f[i].index = s.next /\ f[i].text = <<>>
  BY <1>2 DEF Opened
<1>16. InPhase(t) /\ Counted(t)
  <2>1. InPhase(t)
    BY <1>2, <1>7, Zenon DEF InPhase, Matches, SameFlags
  <2>2. Cardinality(DOMAIN f) = Cardinality(DOMAIN s.tools) + 1
    BY <1>2, CountTypes, FS_AddElement
  <2>3. PICK z : z = Cardinality(DOMAIN s.tools)
    OBVIOUS
  <2>4. PICK y : y = Cardinality(DOMAIN f)
    OBVIOUS
  <2>5. y = z + 1 /\ z \in Nat
    BY <2>2, <2>3, <2>4, CountTypes
  <2>6. s.next = Len(s.output) + One(s.message.open) + One(s.reasoning.open) + z
    BY <2>3 DEF Matches, Counted
  <2>7. t.next = Len(s.output) + One(s.message.open) + One(s.reasoning.open) + y
    <3>1. PICK w : w = Len(s.output) + One(s.message.open) + One(s.reasoning.open)
      OBVIOUS
    <3>2. w \in Nat
      <4>1. Len(s.output) \in Nat /\ One(s.message.open) \in Nat /\ One(s.reasoning.open) \in Nat
        BY CountTypes
      <4> QED BY <3>1, <4>1
    <3>3. s.next = w + z /\ t.next = s.next + 1
      BY <3>1, <2>6, <1>2
    <3>4. t.next = w + y
      BY <3>2, <3>3, <2>5
    <3> QED BY <3>1, <3>4
  <2>8. t.next = Len(t.output) + One(t.message.open) + One(t.reasoning.open) + Cardinality(DOMAIN t.tools)
    BY <1>2, <1>22, <2>4, <2>7, Zenon
  <2> QED BY <2>1, <2>8 DEF Counted
<1>17. TextShown(t, d)
  <2>1. \A kind \in Texts : ~t[kind].open
    BY <1>2, Zenon DEF Texts
  <2> QED BY <2>1, Zenon DEF TextShown
<1>18. CallsHaveItems(t, d)
  <2>1. ASSUME NEW j \in DOMAIN f
        PROVE  /\ f[j].index + 1 \in DOMAIN d.items
               /\ d.items[f[j].index + 1] = Item("tool", TRUE, Visible(j, f[j].text))
    <3>1. CASE j = i
      <4>1. Visible(j, f[j].text) = <<>>
        BY <3>1, <1>14, VisibleEmpty
      <4>2. f[j].index + 1 = n
        BY <3>1, <1>12, <1>14
      <4> QED BY <4>1, <4>2, <1>5, <1>13, Zenon
    <3>2. CASE j # i
      <4>1. j \in DOMAIN s.tools /\ f[j] = s.tools[j]
        BY <3>2, <1>2
      <4>2. /\ s.tools[j].index + 1 \in DOMAIN c.items
            /\ c.items[s.tools[j].index + 1] = Item("tool", TRUE, Visible(j, s.tools[j].text))
        BY <4>1, IndexBound
      <4> QED BY <4>1, <4>2, <1>13
    <3> QED BY <3>1, <3>2
  <2>2. \A j \in DOMAIN s.tools : f[j].index # f[i].index
    <3>1. ASSUME NEW j \in DOMAIN s.tools PROVE f[j].index # f[i].index
      <4>1. s.tools[j].index < s.next /\ s.tools[j].index \in Nat
        BY IndexBound
      <4> QED BY <4>1, <1>2, <1>3, <1>14
    <3> QED BY <3>1
  <2>3. \A j, k \in DOMAIN s.tools : s.tools[j].index = s.tools[k].index => j = k
    BY Zenon DEF Matches, CallsHaveItems
  <2>4. \A j, k \in DOMAIN f : f[j].index = f[k].index => j = k
    BY <1>2, <2>2, <2>3
  <2> QED BY <1>22, <2>1, <2>4, Zenon DEF CallsHaveItems
<1>19. OpenIsKnown(t, d)
  <2>1. ASSUME NEW k \in DOMAIN d.items, d.items[k].open
        PROVE  /\ \A other \in Texts : d.items[k].kind = other => t[other].open /\ t[other].index + 1 = k
               /\ d.items[k].kind = "tool" => \E j \in DOMAIN f : f[j].index + 1 = k
    <3>1. CASE k = n
      <4>1. d.items[k].kind = "tool"
        BY <3>1, <1>6, <1>13
      <4>2. i \in DOMAIN f /\ f[i].index + 1 = k
        BY <3>1, <1>2, <1>12, <1>14
      <4> QED BY <4>1, <4>2, <1>3, Zenon
    <3>2. CASE k # n
      <4>1. d.items[k] = c.items[k] /\ k \in DOMAIN c.items
        BY <2>1, <3>2, <1>13
      <4>2. /\ \A other \in Texts : c.items[k].kind = other => s[other].open /\ s[other].index + 1 = k
            /\ c.items[k].kind = "tool" => \E j \in DOMAIN s.tools : s.tools[j].index + 1 = k
        BY <2>1, <4>1 DEF Matches, OpenIsKnown
      <4>3. \A other \in Texts : t[other] = s[other]
        BY <1>2, Zenon DEF Texts
      <4> QED BY <4>1, <4>2, <4>3, <1>2
    <3> QED BY <3>1, <3>2
  <2> QED BY <1>22, <2>1, Zenon DEF OpenIsKnown
<1>20. DoneAreListed(t, d)
  BY <1>2, <1>6, <1>10, ListedWithOpen DEF Matches
<1> QED
  <2>1. Len(d.items) = t.next /\ t.completed = FALSE /\ d.ok /\ d.ends = <<>>
    BY <1>2, <1>7, <1>10, <1>12, <1>13 DEF SameFlags, Translators
  <2>2. Matches(t, d)
    BY <2>1, <1>16, <1>17, <1>18, <1>19, <1>20, Zenon DEF Matches
  <2> QED
    BY <2>2, <1>1, <1>2, <1>4, <1>10, <1>11 DEF InStep

\* A call is closed.
LEMMA MatchCloseTool ==
    ASSUME NEW s \in Translators, NEW c \in Clients, NEW i \in DOMAIN s.tools,
           Matches(s, c), ~s.message.open, ~s.reasoning.open,
           NEW t, t = CloseTool(s, i)
    PROVE  /\ t \in Translators
           /\ InStep(s, c, t, DoneEvent("tool", s.tools[i].index, Input(i, s.tools[i].text)))
<1>1. PICK n : n = s.tools[i].index + 1
  OBVIOUS
<1>2. PICK text : text = Input(i, s.tools[i].text)
  OBVIOUS
<1>3. PICK e : e = DoneEvent("tool", s.tools[i].index, text)
  OBVIOUS
<1>4. /\ s.tools[i].index \in Nat /\ text \in Text /\ "tool" \in Kinds /\ "tool" \notin Texts
      /\ DoneWith("tool", Visible(i, s.tools[i].text), text)
  BY <1>2, IndexBound, VisibleType DEF Texts, Kinds
<1>22. PICK f : f = t.tools
  OBVIOUS
<1>5. /\ t \in Translators
      /\ SameFlags(s, t) /\ t.next = s.next
      /\ t.message = s.message /\ t.reasoning = s.reasoning
      /\ DOMAIN f = DOMAIN s.tools \ {i}
      /\ \A j \in DOMAIN s.tools \ {i} : f[j] = s.tools[j]
      /\ t.queue = Append(s.queue, e)
      /\ t.output = Append(s.output, Piece("tool", text))
  BY <1>2, <1>3, <1>22, CloseToolFields
<1>6. n \in DOMAIN c.items /\ c.items[n] = Item("tool", TRUE, Visible(i, s.tools[i].text))
  BY <1>1, IndexBound
<1>7. c.items[n].open /\ c.items[n].kind = "tool" /\ DoneWith("tool", c.items[n].text, text)
  BY <1>4, <1>6 DEF Item
<1>8. PICK d : d = Shows(c, e)
  OBVIOUS
<1>9. /\ e \in Events /\ ChangedAt(c, d, n)
      /\ d.items[n] = ItemAfter(c.items[n], e)
      /\ d.ends = c.ends /\ d.ok = c.ok
      /\ Fits(c, e)
  <2>1. PICK kind : kind = "tool"
    OBVIOUS
  <2>2. e = [type |-> "done", kind |-> kind, index |-> s.tools[i].index, text |-> text]
    BY <1>3, <2>1 DEF DoneEvent
  <2>3. PICK index : index = s.tools[i].index
    OBVIOUS
  <2>4. /\ index \in Nat /\ n = index + 1 /\ kind \in Kinds
        /\ e = [type |-> "done", kind |-> kind, index |-> index, text |-> text]
        /\ index + 1 \in DOMAIN c.items /\ c.items[index + 1].open
        /\ c.items[index + 1].kind = kind /\ DoneWith(kind, c.items[index + 1].text, text)
    BY <2>1, <2>2, <2>3, <1>1, <1>4, <1>6, <1>7
  <2> QED BY <2>4, <1>4, <1>8, ChangedShown
<1>10. d.items[n] = Item("tool", FALSE, text)
  <2>1. e.type = "done" /\ e.text = text
    BY <1>3 DEF DoneEvent
  <2> QED BY <2>1, <1>7, <1>9, Zenon DEF ItemAfter
<1>11. s.finished = FALSE /\ s.completed = FALSE /\ c.ok /\ c.ends = <<>>
  <2>1. ~s.finished
    BY Zenon DEF Matches, InPhase, NothingOpen
  <2> QED BY <2>1 DEF Matches, InPhase, Translators
<1>12. Fine(c, e)
  BY <1>9, <1>11 DEF Fine
<1>20. /\ d \in Clients /\ d.items \in Seq(Items)
       /\ Len(d.items) = Len(c.items) /\ DOMAIN d.items = DOMAIN c.items
       /\ \A k \in DOMAIN c.items : k # n => d.items[k] = c.items[k]
  BY <1>9, ItemFacts DEF ChangedAt
<1>23. \A j, k \in DOMAIN s.tools : s.tools[j].index = s.tools[k].index => j = k
  BY Zenon DEF Matches, CallsHaveItems
<1>13. InPhase(t) /\ Counted(t)
  <2>1. InPhase(t)
    BY <1>5, <1>11, Zenon DEF InPhase, Matches, SameFlags
  <2>2. Cardinality(DOMAIN f) = Cardinality(DOMAIN s.tools) - 1
    BY <1>5, CountTypes, FS_RemoveElement
  <2>3. PICK z : z = Cardinality(DOMAIN s.tools)
    OBVIOUS
  <2>4. PICK y : y = Cardinality(DOMAIN f)
    OBVIOUS
  <2>5. y = z - 1 /\ z \in Nat
    BY <2>2, <2>3, <2>4, CountTypes
  <2>6. s.next = Len(s.output) + One(s.message.open) + One(s.reasoning.open) + z
    BY <2>3 DEF Matches, Counted
  <2>9. Len(t.output) = Len(s.output) + 1
    BY <1>5, SlotTypes
  <2>7. t.next = Len(t.output) + One(s.message.open) + One(s.reasoning.open) + y
    <3>1. PICK a : a = One(s.message.open)
      OBVIOUS
    <3>2. PICK b : b = One(s.reasoning.open)
      OBVIOUS
    <3>3. a \in Nat /\ b \in Nat /\ Len(s.output) \in Nat
      BY <3>1, <3>2, CountTypes
    <3>4. s.next = Len(s.output) + a + b + z
      BY <3>1, <3>2, <2>6
    <3>5. t.next = Len(t.output) + a + b + y
      BY <3>3, <3>4, <1>5, <2>5, <2>9
    <3> QED BY <3>1, <3>2, <3>5
  <2>8. t.next = Len(t.output) + One(t.message.open) + One(t.reasoning.open) + Cardinality(DOMAIN t.tools)
    BY <1>5, <1>22, <2>4, <2>7, Zenon
  <2> QED BY <2>1, <2>8 DEF Counted
<1>14. TextShown(t, d)
  <2>1. \A kind \in Texts : ~t[kind].open
    BY <1>5, Zenon DEF Texts
  <2> QED BY <2>1, Zenon DEF TextShown
<1>15. CallsHaveItems(t, d)
  <2>1. ASSUME NEW j \in DOMAIN f
        PROVE  /\ f[j].index + 1 \in DOMAIN d.items
               /\ d.items[f[j].index + 1] = Item("tool", TRUE, Visible(j, f[j].text))
    <3>1. j \in DOMAIN s.tools /\ j # i /\ f[j] = s.tools[j]
      BY <1>5
    <3>2. /\ s.tools[j].index + 1 \in DOMAIN c.items /\ s.tools[j].index \in Nat
          /\ c.items[s.tools[j].index + 1] = Item("tool", TRUE, Visible(j, s.tools[j].text))
      BY <3>1, IndexBound
    <3>3. s.tools[j].index + 1 # n
      BY <3>1, <3>2, <1>1, <1>4, <1>23
    <3> QED BY <3>1, <3>2, <3>3, <1>20
  <2>2. \A j, k \in DOMAIN f : f[j].index = f[k].index => j = k
    BY <1>5, <1>23
  <2> QED BY <1>22, <2>1, <2>2, Zenon DEF CallsHaveItems
<1>16. OpenIsKnown(t, d)
  <2>1. ASSUME NEW k \in DOMAIN d.items, d.items[k].open
        PROVE  /\ \A other \in Texts : d.items[k].kind = other => t[other].open /\ t[other].index + 1 = k
               /\ d.items[k].kind = "tool" => \E j \in DOMAIN f : f[j].index + 1 = k
    <3>1. k # n
      BY <2>1, <1>10 DEF Item
    <3>2. d.items[k] = c.items[k] /\ k \in DOMAIN c.items
      BY <2>1, <3>1, <1>20
    <3>3. /\ \A other \in Texts : c.items[k].kind = other => s[other].open /\ s[other].index + 1 = k
          /\ c.items[k].kind = "tool" => \E j \in DOMAIN s.tools : s.tools[j].index + 1 = k
      BY <2>1, <3>2 DEF Matches, OpenIsKnown
    <3>4. \A other \in Texts : t[other] = s[other]
      BY <1>5, Zenon DEF Texts
    <3>5. ASSUME d.items[k].kind = "tool" PROVE \E j \in DOMAIN f : f[j].index + 1 = k
      <4>1. PICK j \in DOMAIN s.tools : s.tools[j].index + 1 = k
        BY <3>2, <3>3, <3>5
      <4>2. j # i
        BY <4>1, <3>1, <1>1
      <4> QED BY <4>1, <4>2, <1>5
    <3> QED BY <3>2, <3>3, <3>4, <3>5
  <2> QED BY <1>22, <2>1, Zenon DEF OpenIsKnown
<1>17. DoneAreListed(t, d)
  <2>1. PICK kind : kind = "tool"
    OBVIOUS
  <2>2. /\ kind \in Kinds /\ c.items[n].open /\ t.output = Append(s.output, Piece(kind, text))
        /\ d.items[n] = Item(kind, FALSE, text)
    BY <2>1, <1>4, <1>5, <1>7, <1>10
  <2>3. DoneAreListed(s, c)
    BY DEF Matches
  <2> QED BY <2>2, <2>3, <1>4, <1>6, <1>9, <1>20, ListedWhenDone
<1> QED
  <2>1. Len(d.items) = t.next /\ t.completed = FALSE /\ d.ok /\ d.ends = <<>>
    BY <1>5, <1>9, <1>11, <1>20 DEF SameFlags, Matches
  <2>2. Matches(t, d)
    BY <2>1, <1>13, <1>14, <1>15, <1>16, <1>17, Zenon DEF Matches
  <2> QED
    BY <2>2, <1>2, <1>3, <1>5, <1>8, <1>9, <1>12, <1>20 DEF InStep

\* A part of a call's arguments is kept; the item shows what may be shown of them.
LEMMA MatchKeepPart ==
    ASSUME NEW s \in Translators, NEW c \in Clients, NEW i \in DOMAIN s.tools, NEW a \in Text,
           Matches(s, c), Visible(i, a) = Visible(i, s.tools[i].text),
           NEW t, t = KeepPart(s, i, a)
    PROVE  t \in Translators /\ t.queue = s.queue /\ Matches(t, c)
<1>1. PICK f : f = t.tools
  OBVIOUS
<1>2. /\ t \in Translators
      /\ SameFlags(s, t) /\ t.next = s.next
      /\ t.message = s.message /\ t.reasoning = s.reasoning
      /\ DOMAIN f = DOMAIN s.tools
      /\ f[i] = Opened(s.tools[i].index, a)
      /\ \A j \in DOMAIN s.tools \ {i} : f[j] = s.tools[j]
      /\ t.queue = s.queue /\ t.output = s.output
  BY <1>1, KeepPartFields
<1>3. f[i].index = s.tools[i].index /\ f[i].text = a
  BY <1>2 DEF Opened
<1>4. \A j \in DOMAIN f : f[j].index = s.tools[j].index /\ Visible(j, f[j].text) = Visible(j, s.tools[j].text)
  BY <1>2, <1>3
<1>5. \A kind \in Texts : t[kind] = s[kind]
  BY <1>2, Zenon DEF Texts
<1>6. InPhase(t)
  BY <1>1, <1>2, Zenon DEF InPhase, Matches, SameFlags, NothingOpen
<1>7. Counted(t)
  BY <1>1, <1>2, Zenon DEF Matches, Counted
<1>8. TextShown(t, c)
  BY <1>5 DEF Matches, TextShown
<1>9. CallsHaveItems(t, c)
  <2>1. ASSUME NEW j \in DOMAIN f
        PROVE  /\ f[j].index + 1 \in DOMAIN c.items
               /\ c.items[f[j].index + 1] = Item("tool", TRUE, Visible(j, f[j].text))
    <3>1. j \in DOMAIN s.tools
      BY <1>2
    <3>2. /\ s.tools[j].index + 1 \in DOMAIN c.items
          /\ c.items[s.tools[j].index + 1] = Item("tool", TRUE, Visible(j, s.tools[j].text))
      BY <3>1, IndexBound
    <3> QED BY <3>2, <1>4
  <2>2. \A j, k \in DOMAIN s.tools : s.tools[j].index = s.tools[k].index => j = k
    BY Zenon DEF Matches, CallsHaveItems
  <2>3. \A j, k \in DOMAIN f : f[j].index = f[k].index => j = k
    BY <2>2, <1>2, <1>4
  <2> QED BY <1>1, <2>1, <2>3, Zenon DEF CallsHaveItems
<1>10. OpenIsKnown(t, c)
  <2>1. ASSUME NEW k \in DOMAIN c.items, c.items[k].open
        PROVE  /\ \A other \in Texts : c.items[k].kind = other => t[other].open /\ t[other].index + 1 = k
               /\ c.items[k].kind = "tool" => \E j \in DOMAIN f : f[j].index + 1 = k
    <3>1. /\ \A other \in Texts : c.items[k].kind = other => s[other].open /\ s[other].index + 1 = k
          /\ c.items[k].kind = "tool" => \E j \in DOMAIN s.tools : s.tools[j].index + 1 = k
      BY <2>1 DEF Matches, OpenIsKnown
    <3> QED BY <3>1, <1>2, <1>4, <1>5
  <2> QED BY <1>1, <2>1, Zenon DEF OpenIsKnown
<1>11. DoneAreListed(t, c)
  BY <1>2 DEF Matches, DoneAreListed
<1>12. Len(c.items) = t.next /\ c.ok /\ IF t.completed THEN Len(c.ends) = 1 ELSE c.ends = <<>>
  BY <1>2, Zenon DEF Matches, SameFlags
<1> QED
  BY <1>2, <1>6, <1>7, <1>8, <1>9, <1>10, <1>11, <1>12, Zenon DEF Matches

LEMMA MatchShowPart ==
    ASSUME NEW s \in Translators, NEW c \in Clients, NEW i \in DOMAIN s.tools, NEW a \in Text, NEW new \in Text,
           Matches(s, c), Visible(i, a) = Visible(i, s.tools[i].text) \o new,
           NEW t, t = Emit(KeepPart(s, i, a), DeltaEvent("tool", s.tools[i].index, new))
    PROVE  /\ t \in Translators
           /\ InStep(s, c, t, DeltaEvent("tool", s.tools[i].index, new))
<1>1. PICK n : n = s.tools[i].index + 1
  OBVIOUS
<1>2. PICK text : text = Visible(i, s.tools[i].text)
  OBVIOUS
<1>3. PICK e : e = DeltaEvent("tool", s.tools[i].index, new)
  OBVIOUS
<1>4. s.tools[i].index \in Nat /\ text \in Text /\ "tool" \in Kinds /\ "tool" \notin Texts
  BY <1>2, IndexBound, VisibleType DEF Texts, Kinds
<1>22. PICK f : f = t.tools
  OBVIOUS
<1>24. e \in Events
  <2>1. PICK kind : kind = "tool"
    OBVIOUS
  <2> QED BY <2>1, <1>3, <1>4, EventTypes
<1>5. /\ t \in Translators
      /\ SameFlags(s, t) /\ t.next = s.next
      /\ t.message = s.message /\ t.reasoning = s.reasoning
      /\ DOMAIN f = DOMAIN s.tools
      /\ f[i] = Opened(s.tools[i].index, a)
      /\ \A j \in DOMAIN s.tools \ {i} : f[j] = s.tools[j]
      /\ t.queue = Append(s.queue, e)
      /\ t.output = s.output
  <2>1. PICK k : k = KeepPart(s, i, a)
    OBVIOUS
  <2>2. /\ k \in Translators
        /\ SameFlags(s, k) /\ k.next = s.next
        /\ k.message = s.message /\ k.reasoning = s.reasoning
        /\ DOMAIN k.tools = DOMAIN s.tools
        /\ k.tools[i] = Opened(s.tools[i].index, a)
        /\ \A j \in DOMAIN s.tools \ {i} : k.tools[j] = s.tools[j]
        /\ k.queue = s.queue /\ k.output = s.output
    BY <2>1, KeepPartFields
  <2>3. t = Emit(k, e)
    BY <2>1, <1>3
  <2>4. /\ t \in Translators
        /\ SameFlags(k, t) /\ t.next = k.next /\ t.tools = k.tools
        /\ t.message = k.message /\ t.reasoning = k.reasoning
        /\ t.queue = Append(k.queue, e) /\ t.output = k.output
    BY <2>2, <2>3, <1>24, EmitKeeps
  <2>5. SameFlags(s, t)
    BY <2>2, <2>4 DEF SameFlags
  <2> QED BY <2>2, <2>4, <2>5, <1>22
<1>6. n \in DOMAIN c.items /\ c.items[n] = Item("tool", TRUE, text)
  BY <1>1, <1>2, IndexBound
<1>7. c.items[n].open /\ c.items[n].kind = "tool" /\ c.items[n].text = text
  BY <1>6 DEF Item
<1>8. PICK d : d = Shows(c, e)
  OBVIOUS
<1>9. /\ ChangedAt(c, d, n)
      /\ d.items[n] = ItemAfter(c.items[n], e)
      /\ d.ends = c.ends /\ d.ok = c.ok
      /\ Fits(c, e)
  <2>1. PICK kind : kind = "tool"
    OBVIOUS
  <2>2. PICK index : index = s.tools[i].index
    OBVIOUS
  <2>3. /\ index \in Nat /\ n = index + 1 /\ kind \in Kinds
        /\ e = [type |-> "delta", kind |-> kind, index |-> index, text |-> new]
        /\ index + 1 \in DOMAIN c.items /\ c.items[index + 1].open
        /\ c.items[index + 1].kind = kind
    BY <2>1, <2>2, <1>1, <1>3, <1>4, <1>6, <1>7 DEF DeltaEvent
  <2> QED BY <2>3, <1>8, ChangedShown
<1>10. d.items[n] = Item("tool", TRUE, text \o new)
  <2>1. e.type = "delta" /\ e.text = new
    BY <1>3 DEF DeltaEvent
  <2>2. ItemAfter(c.items[n], e) = Item(c.items[n].kind, TRUE, c.items[n].text \o e.text)
    BY <2>1 DEF ItemAfter
  <2> QED BY <2>1, <2>2, <1>7, <1>9, Zenon
<1>11. s.finished = FALSE /\ s.completed = FALSE /\ c.ok /\ c.ends = <<>>
  <2>1. ~s.finished
    BY Zenon DEF Matches, InPhase, NothingOpen
  <2> QED BY <2>1 DEF Matches, InPhase, Translators
<1>12. Fine(c, e)
  BY <1>9, <1>11 DEF Fine
<1>20. /\ d \in Clients /\ d.items \in Seq(Items)
       /\ Len(d.items) = Len(c.items) /\ DOMAIN d.items = DOMAIN c.items
       /\ \A k \in DOMAIN c.items : k # n => d.items[k] = c.items[k]
  BY <1>9, ItemFacts DEF ChangedAt
<1>23. \A j, k \in DOMAIN s.tools : s.tools[j].index = s.tools[k].index => j = k
  BY Zenon DEF Matches, CallsHaveItems
<1>25. /\ f[i].index = s.tools[i].index /\ f[i].text = a
       /\ \A j \in DOMAIN f : f[j].index = s.tools[j].index
  <2>1. f[i] = Opened(s.tools[i].index, a) /\ DOMAIN f = DOMAIN s.tools
    BY <1>5
  <2>2. f[i].index = s.tools[i].index /\ f[i].text = a
    BY <2>1 DEF Opened
  <2>3. \A j \in DOMAIN s.tools \ {i} : f[j].index = s.tools[j].index
    BY <1>5, Zenon
  <2> QED BY <2>1, <2>2, <2>3
<1>26. \A kind \in Texts : t[kind] = s[kind]
  BY <1>5, Zenon DEF Texts
<1>13. InPhase(t) /\ Counted(t)
  <2>1. InPhase(t)
    BY <1>5, <1>11, Zenon DEF InPhase, Matches, SameFlags
  <2>2. Counted(t)
    BY <1>5, <1>22, Zenon DEF Counted, Matches
  <2> QED BY <2>1, <2>2
<1>14. TextShown(t, d)
  <2>1. ASSUME NEW kind \in Texts, t[kind].open
        PROVE  t[kind].index + 1 = Len(d.items) /\ d.items[Len(d.items)] = Item(kind, TRUE, t[kind].text)
    <3>1. s[kind].open /\ s[kind].index + 1 = Len(c.items) /\ c.items[Len(c.items)] = Item(kind, TRUE, s[kind].text)
      BY <2>1, <1>26 DEF Matches, TextShown
    <3>2. c.items[Len(c.items)].kind = kind
      BY <3>1 DEF Item
    <3>3. Len(c.items) # n
      BY <3>2, <1>4, <1>7
    <3>4. Len(c.items) \in DOMAIN c.items
      BY <3>1, SlotTypes, ItemFacts
    <3>5. d.items[Len(d.items)] = c.items[Len(c.items)]
      BY <3>3, <3>4, <1>20
    <3> QED BY <3>1, <3>5, <1>20, <1>26
  <2> QED BY <2>1, Zenon DEF TextShown
<1>15. CallsHaveItems(t, d)
  <2>1. ASSUME NEW j \in DOMAIN f
        PROVE  /\ f[j].index + 1 \in DOMAIN d.items
               /\ d.items[f[j].index + 1] = Item("tool", TRUE, Visible(j, f[j].text))
    <3>1. CASE j = i
      BY <3>1, <1>1, <1>2, <1>6, <1>10, <1>20, <1>25
    <3>2. CASE j # i
      <4>1. j \in DOMAIN s.tools /\ f[j] = s.tools[j]
        BY <3>2, <1>5
      <4>2. /\ s.tools[j].index + 1 \in DOMAIN c.items /\ s.tools[j].index \in Nat
            /\ c.items[s.tools[j].index + 1] = Item("tool", TRUE, Visible(j, s.tools[j].text))
        BY <4>1, IndexBound
      <4>3. s.tools[j].index + 1 # n
        BY <3>2, <4>1, <4>2, <1>1, <1>4, <1>23
      <4> QED BY <4>1, <4>2, <4>3, <1>20
    <3> QED BY <3>1, <3>2
  <2>2. \A j, k \in DOMAIN f : f[j].index = f[k].index => j = k
    BY <1>5, <1>23, <1>25
  <2> QED BY <1>22, <2>1, <2>2, Zenon DEF CallsHaveItems
<1>16. OpenIsKnown(t, d)
  <2>1. ASSUME NEW k \in DOMAIN d.items, d.items[k].open
        PROVE  /\ \A other \in Texts : d.items[k].kind = other => t[other].open /\ t[other].index + 1 = k
               /\ d.items[k].kind = "tool" => \E j \in DOMAIN f : f[j].index + 1 = k
    <3>1. CASE k = n
      <4>1. d.items[k].kind = "tool"
        BY <3>1, <1>10 DEF Item
      <4>2. i \in DOMAIN f /\ f[i].index + 1 = k
        BY <3>1, <1>1, <1>5, <1>25
      <4> QED BY <4>1, <4>2, <1>4, Zenon
    <3>2. CASE k # n
      <4>1. d.items[k] = c.items[k] /\ k \in DOMAIN c.items
        BY <2>1, <3>2, <1>20
      <4>2. /\ \A other \in Texts : c.items[k].kind = other => s[other].open /\ s[other].index + 1 = k
            /\ c.items[k].kind = "tool" => \E j \in DOMAIN s.tools : s.tools[j].index + 1 = k
        BY <2>1, <4>1 DEF Matches, OpenIsKnown
      <4>3. \A other \in Texts : d.items[k].kind = other => t[other].open /\ t[other].index + 1 = k
        BY <4>1, <4>2, <1>26, Zenon
      <4>4. ASSUME d.items[k].kind = "tool" PROVE \E j \in DOMAIN f : f[j].index + 1 = k
        <5>1. PICK j \in DOMAIN s.tools : s.tools[j].index + 1 = k
          BY <4>1, <4>2, <4>4
        <5>2. j \in DOMAIN f /\ f[j].index = s.tools[j].index
          BY <5>1, <1>5, <1>25, Zenon
        <5> QED BY <5>1, <5>2
      <4> QED BY <4>3, <4>4, Zenon
    <3> QED BY <3>1, <3>2
  <2> QED BY <1>22, <2>1, Zenon DEF OpenIsKnown
<1>17. DoneAreListed(t, d)
  <2>1. d.items[n].open /\ t.output = s.output
    <3>1. d.items[n].open
      BY <1>10 DEF Item
    <3> QED BY <3>1, <1>5, Zenon
  <2>2. DoneAreListed(s, c)
    BY DEF Matches
  <2> QED BY <2>1, <2>2, <1>6, <1>7, <1>9, <1>20, ListedWhenOpen
<1> QED
  <2>1. Len(d.items) = t.next /\ t.completed = FALSE /\ d.ok /\ d.ends = <<>>
    BY <1>5, <1>9, <1>11, <1>20 DEF SameFlags, Matches
  <2>2. Matches(t, d)
    BY <2>1, <1>13, <1>14, <1>15, <1>16, <1>17, Zenon DEF Matches
  <2> QED
    BY <2>2, <1>3, <1>5, <1>8, <1>9, <1>12, <1>20, <1>24 DEF InStep

-------------------------------------------------------------------------------
(* Counting.  A claim about all numbers is proved from its least exception.   *)

LEMMA Least ==
    ASSUME NEW T, T \subseteq Nat, T # {}
    PROVE  \E n \in T : \A m \in T : ~(m < n)
<1>1. \E x \in T : \A y \in T : ~(<<y, x>> \in OpToRel(<, Nat))
  BY WFMin, NatLessThanWellFounded
<1>2. \A x, y \in T : y < x => <<y, x>> \in OpToRel(<, Nat)
  BY DEF OpToRel
<1> QED
  BY <1>1, <1>2

\* A finite set of numbers can be listed in ascending order.
IsAscending(q, S) ==
    /\ q \in [1 .. Cardinality(S) -> S]
    /\ \A i, j \in DOMAIN q : i < j => q[i] < q[j]

LEMMA AscendingExists ==
    ASSUME NEW S, S \subseteq Nat, IsFiniteSet(S)
    PROVE  \E q : IsAscending(q, S)
<1> DEFINE Bad == {n \in Nat : \E R \in SUBSET S : Cardinality(R) = n /\ ~\E q : IsAscending(q, R)}
<1>1. SUFFICES ASSUME ~\E q : IsAscending(q, S) PROVE FALSE
  OBVIOUS
<1>2. Cardinality(S) \in Bad
  BY <1>1, FS_CardinalityType
<1>3. PICK n \in Bad : \A m \in Bad : ~(m < n)
  <2>1. Bad \subseteq Nat /\ Bad # {}
    BY <1>2
  <2> HIDE DEF Bad
  <2> QED BY <2>1, Least
<1>4. PICK R \in SUBSET S : Cardinality(R) = n /\ ~\E q : IsAscending(q, R)
  BY <1>3
<1>5. n \in Nat /\ IsFiniteSet(R) /\ R \subseteq Nat
  BY <1>3, <1>4, FS_Subset
<1>6. R # {}
  <2>1. SUFFICES ASSUME R = {} PROVE FALSE
    OBVIOUS
  <2>2. Cardinality(R) = 0
    BY <2>1, FS_EmptySet
  <2>3. IsAscending([k \in 1 .. 0 |-> 0], R)
    BY <2>2 DEF IsAscending
  <2> QED BY <2>3, <1>4
<1>7. PICK m \in R : \A x \in R : ~(x < m)
  BY <1>5, <1>6, Least
<1> DEFINE Q == R \ {m}
<1>8. IsFiniteSet(Q) /\ Cardinality(Q) = n - 1 /\ Q \subseteq S
  BY <1>4, <1>5, <1>7, FS_RemoveElement
<1>9. n - 1 \in Nat /\ n - 1 < n
  BY <1>5, <1>8, FS_CardinalityType
<1>10. PICK p : IsAscending(p, Q)
  <2>1. n - 1 \notin Bad
    BY <1>3, <1>9
  <2> QED BY <2>1, <1>8, <1>9
<1> DEFINE q == [k \in 1 .. n |-> IF k = 1 THEN m ELSE p[k - 1]]
<1>11. p \in [1 .. n - 1 -> Q] /\ \A i, j \in 1 .. n - 1 : i < j => p[i] < p[j]
  BY <1>8, <1>10 DEF IsAscending
<1>12. \A k \in 2 .. n : k - 1 \in 1 .. n - 1 /\ q[k] = p[k - 1] /\ q[k] \in Q
  BY <1>5, <1>11
<1>13. \A x \in Q : m < x
  BY <1>5, <1>7
<1>14. q \in [1 .. n -> R]
  <2>1. \A k \in 1 .. n : q[k] \in R
    <3>1. ASSUME NEW k \in 1 .. n PROVE q[k] \in R
      <4>1. CASE k = 1
        BY <4>1, <1>7
      <4>2. CASE k # 1
        <5>1. k \in 2 .. n
          BY <4>2, <1>5
        <5>2. q[k] \in Q
          BY <5>1, <1>12
        <5> QED BY <5>2
      <4> QED BY <4>1, <4>2
    <3> QED BY <3>1
  <2> QED BY <2>1
<1>15. ASSUME NEW i \in 1 .. n, NEW j \in 1 .. n, i < j PROVE q[i] < q[j]
  <2>1. j \in 2 .. n
    BY <1>5, <1>15
  <2>2. CASE i = 1
    <3>1. q[i] = m
      BY <2>2
    <3>2. q[j] \in Q
      BY <2>1, <1>12
    <3>3. m < q[j]
      BY <3>2, <1>13
    <3> QED BY <3>1, <3>3, Zenon
  <2>3. CASE i # 1
    <3>1. i \in 2 .. n /\ i - 1 < j - 1
      BY <2>1, <2>3, <1>5, <1>15
    <3> QED BY <3>1, <2>1, <1>11, <1>12
  <2> QED BY <2>2, <2>3
<1>16. IsAscending(q, R)
  <2> HIDE DEF q
  <2> QED BY <1>4, <1>14, <1>15 DEF IsAscending
<1> QED
  BY <1>4, <1>16

LEMMA AscendingIs ==
    ASSUME NEW S, S \subseteq Nat, IsFiniteSet(S)
    PROVE  /\ IsAscending(Ascending(S), S)
           /\ Len(Ascending(S)) = Cardinality(S) /\ Cardinality(S) \in Nat
           /\ \A k \in 1 .. Len(Ascending(S)) : Ascending(S)[k] \in S
           /\ \A j, k \in 1 .. Len(Ascending(S)) : j # k => Ascending(S)[j] # Ascending(S)[k]
<1>1. PICK p : IsAscending(p, S)
  BY AscendingExists
<1>2. IsAscending(Ascending(S), S)
  BY <1>1, Zenon DEF Ascending, IsAscending
<1>3. PICK q : q = Ascending(S)
  OBVIOUS
<1>4. PICK n : n = Cardinality(S)
  OBVIOUS
<1>5. n \in Nat /\ q \in [1 .. n -> S] /\ \A i, j \in 1 .. n : i < j => q[i] < q[j]
  BY <1>2, <1>3, <1>4, FS_CardinalityType DEF IsAscending
<1>6. Len(q) = n
  BY <1>5
<1>7. ASSUME NEW j \in 1 .. n, NEW k \in 1 .. n, j # k PROVE q[j] # q[k]
  <2>1. q[j] \in Nat /\ q[k] \in Nat
    BY <1>5
  <2> QED BY <2>1, <1>5, <1>7
<1> QED
  BY <1>2, <1>3, <1>4, <1>5, <1>6, <1>7

-------------------------------------------------------------------------------
(* Texts that are put together from a share of each place of a list.          *)

Sums(f, n, g) ==
    /\ f \in [0 .. n -> Text] /\ f[0] = <<>>
    /\ \A k \in 1 .. n : f[k] = f[k - 1] \o g[k]

LEMMA SumsExist ==
    ASSUME NEW n \in Nat, NEW g, \A k \in 1 .. n : g[k] \in Text
    PROVE  \E f : Sums(f, n, g)
<1> DEFINE Bad == {m \in Nat : m <= n /\ ~\E f : Sums(f, m, g)}
<1>1. SUFFICES ASSUME ~\E f : Sums(f, n, g) PROVE FALSE
  OBVIOUS
<1>2. n \in Bad
  BY <1>1
<1>3. PICK m \in Bad : \A j \in Bad : ~(j < m)
  <2>1. Bad \subseteq Nat /\ Bad # {}
    BY <1>2
  <2> HIDE DEF Bad
  <2> QED BY <2>1, Least
<1>4. m \in Nat /\ m <= n /\ ~\E f : Sums(f, m, g)
  BY <1>3
<1>5. CASE m = 0
  <2>1. Sums([k \in 0 .. 0 |-> <<>>], 0, g)
    BY DEF Sums, Text
  <2> QED BY <2>1, <1>4, <1>5
<1>6. CASE m # 0
  <2>1. m - 1 \in Nat /\ m - 1 < m /\ m - 1 <= n /\ m \in 1 .. n
    BY <1>4, <1>6
  <2>2. PICK f : Sums(f, m - 1, g)
    <3>1. m - 1 \notin Bad
      BY <1>3, <2>1
    <3> QED BY <3>1, <2>1
  <2>3. f \in [0 .. m - 1 -> Text] /\ f[0] = <<>> /\ \A k \in 1 .. m - 1 : f[k] = f[k - 1] \o g[k]
    BY <2>2 DEF Sums
  <2>4. PICK v : v = f[m - 1] \o g[m]
    OBVIOUS
  <2>5. v \in Text
    <3>1. f[m - 1] \in Seq(Nat) /\ g[m] \in Seq(Nat)
      BY <2>1, <2>3 DEF Text
    <3> QED BY <3>1, <2>4, ConcatProperties DEF Text
  <2> DEFINE h == [k \in 0 .. m |-> IF k = m THEN v ELSE f[k]]
  <2>6. h \in [0 .. m -> Text] /\ h[0] = <<>>
    BY <2>1, <2>3, <2>5, <1>6
  <2>7. ASSUME NEW k \in 1 .. m PROVE h[k] = h[k - 1] \o g[k]
    <3>1. CASE k = m
      <4>1. h[k] = v /\ h[k - 1] = f[m - 1]
        BY <3>1, <2>1
      <4> QED BY <4>1, <3>1, <2>4
    <3>2. CASE k # m
      <4>1. k \in 1 .. m - 1 /\ h[k] = f[k] /\ h[k - 1] = f[k - 1]
        BY <3>2, <2>1
      <4> QED BY <4>1, <2>3
    <3> QED BY <3>1, <3>2
  <2>8. Sums(h, m, g)
    <3> HIDE DEF h
    <3> QED BY <2>6, <2>7 DEF Sums
  <2> QED BY <2>8, <1>4
<1> QED
  BY <1>5, <1>6

\* A function that adds the shares up is the only one.
LEMMA SumsAgree ==
    ASSUME NEW n \in Nat, NEW m \in Nat, NEW f, NEW h, NEW g, NEW e, Sums(f, n, g), Sums(h, m, e),
           NEW l \in Nat, l <= n, l <= m, \A k \in 1 .. l : g[k] = e[k]
    PROVE  f[l] = h[l]
<1> DEFINE Bad == {k \in Nat : k <= l /\ f[k] # h[k]}
<1>1. SUFFICES ASSUME f[l] # h[l] PROVE FALSE
  OBVIOUS
<1>2. PICK k \in Bad : \A j \in Bad : ~(j < k)
  <2>1. Bad \subseteq Nat /\ Bad # {}
    BY <1>1
  <2> HIDE DEF Bad
  <2> QED BY <2>1, Least
<1>3. k \in Nat /\ k <= l /\ f[k] # h[k]
  BY <1>2
<1>4. k # 0
  BY <1>3 DEF Sums
<1>5. k \in 1 .. l /\ k \in 1 .. n /\ k \in 1 .. m /\ k - 1 \in Nat /\ k - 1 < k /\ k - 1 <= l
  BY <1>3, <1>4
<1>6. f[k - 1] = h[k - 1]
  BY <1>2, <1>5
<1>7. f[k] = f[k - 1] \o g[k] /\ h[k] = h[k - 1] \o e[k]
  BY <1>5, Zenon DEF Sums
<1> QED
  BY <1>3, <1>5, <1>6, <1>7

\* Any function that satisfies the equations of a sum is one.
LEMMA SumsOnly ==
    ASSUME NEW n \in Nat, NEW g, \A k \in 1 .. n : g[k] \in Text,
           NEW f, f = [k \in 0 .. n |-> f[k]], f[0] = <<>>,
           \A k \in 1 .. n : f[k - 1] \in Text => f[k] = f[k - 1] \o g[k]
    PROVE  Sums(f, n, g)
<1> DEFINE Bad == {k \in Nat : k <= n /\ f[k] \notin Text}
<1>1. Bad = {}
  <2>1. SUFFICES ASSUME Bad # {} PROVE FALSE
    OBVIOUS
  <2>2. PICK k \in Bad : \A j \in Bad : ~(j < k)
    <3>1. Bad \subseteq Nat /\ Bad # {}
      BY <2>1
    <3> HIDE DEF Bad
    <3> QED BY <3>1, Least
  <2>3. k \in Nat /\ k <= n /\ f[k] \notin Text
    BY <2>2
  <2>4. k # 0
    BY <2>3 DEF Text
  <2>5. k \in 1 .. n /\ k - 1 \in Nat /\ k - 1 < k /\ k - 1 <= n
    BY <2>3, <2>4
  <2>6. f[k - 1] \in Text
    BY <2>2, <2>5
  <2>7. f[k] = f[k - 1] \o g[k] /\ g[k] \in Text
    BY <2>5, <2>6
  <2>8. f[k] \in Text
    BY <2>6, <2>7, ConcatProperties DEF Text
  <2> QED BY <2>3, <2>8
<1>2. \A k \in 0 .. n : f[k] \in Text
  BY <1>1
<1>3. f \in [0 .. n -> Text]
  BY <1>2
<1>4. \A k \in 1 .. n : k - 1 \in 0 .. n
  OBVIOUS
<1> QED
  BY <1>2, <1>3, <1>4 DEF Sums

\* What each item of a kind shows, and what each fragment adds to what it is part of.
ShownAt(items, kind) == [k \in DOMAIN items |-> IF items[k].kind = kind THEN items[k].text ELSE <<>>]
SaidAt(said, to) == [k \in DOMAIN said |-> IF said[k].to = to THEN <<said[k].part>> ELSE <<>>]

LEMMA TextSums ==
    ASSUME NEW items \in Seq(Items), NEW kind
    PROVE  \E f : Sums(f, Len(items), ShownAt(items, kind)) /\ TextIn(items, kind) = f[Len(items)]
<1>1. PICK n : n = Len(items)
  OBVIOUS
<1>2. PICK g : g = ShownAt(items, kind)
  OBVIOUS
<1>3. n \in Nat /\ DOMAIN items = 1 .. n
  BY <1>1
<1>4. \A k \in 1 .. n : items[k].text \in Text
  <2>1. \A k \in 1 .. n : items[k] \in Items
    BY <1>3
  <2> QED BY <2>1 DEF Items
<1>5. \A k \in 1 .. n : g[k] = IF items[k].kind = kind THEN items[k].text ELSE <<>>
  BY <1>2, <1>3 DEF ShownAt
<1>6. \A k \in 1 .. n : g[k] \in Text
  <2>1. <<>> \in Text
    BY DEF Text
  <2> QED BY <2>1, <1>4, <1>5
<1> DEFINE Is(f) == f = [k \in 0 .. n |-> IF k = 0 THEN <<>>
                                          ELSE IF items[k].kind = kind THEN f[k - 1] \o items[k].text
                                          ELSE f[k - 1]]
<1>7. ASSUME NEW f, NEW k \in 1 .. n, f[k - 1] \in Text
      PROVE  f[k - 1] \o g[k] = IF items[k].kind = kind THEN f[k - 1] \o items[k].text ELSE f[k - 1]
  <2>1. f[k - 1] \o <<>> = f[k - 1]
    BY <1>7, ConcatEmptySeq DEF Text
  <2> QED BY <2>1, <1>5
<1>8. \E f : Is(f)
  <2>1. PICK f : Sums(f, n, g)
    BY <1>3, <1>6, SumsExist
  <2>2. f \in [0 .. n -> Text] /\ f[0] = <<>> /\ \A k \in 1 .. n : f[k] = f[k - 1] \o g[k]
    BY <2>1 DEF Sums
  <2>3. ASSUME NEW k \in 0 .. n
        PROVE  f[k] = IF k = 0 THEN <<>> ELSE IF items[k].kind = kind THEN f[k - 1] \o items[k].text ELSE f[k - 1]
    <3>1. CASE k = 0
      BY <3>1, <2>2
    <3>2. CASE k # 0
      <4>1. k \in 1 .. n /\ k - 1 \in 0 .. n
        BY <3>2, <1>3
      <4>2. f[k - 1] \in Text
        BY <4>1, <2>2
      <4> QED BY <3>2, <4>1, <4>2, <2>2, <1>7
    <3> QED BY <3>1, <3>2
  <2>4. Is(f)
    <3>1. f = [k \in 0 .. n |-> f[k]]
      BY <2>2
    <3> QED BY <3>1, <2>3
  <2> QED BY <2>4
<1>9. PICK w : w = CHOOSE f : Is(f)
  OBVIOUS
<1>10. Is(w)
  <2> HIDE DEF Is
  <2> QED BY <1>8, <1>9, Zenon
<1>11. TextIn(items, kind) = w[n]
  BY <1>1, <1>9, Zenon DEF TextIn
<1>12. Sums(w, n, g)
  <2>1. w = [k \in 0 .. n |-> w[k]] /\ w[0] = <<>>
    BY <1>3, <1>10
  <2>2. \A k \in 1 .. n : w[k] = IF items[k].kind = kind THEN w[k - 1] \o items[k].text ELSE w[k - 1]
    BY <1>3, <1>10, SMTT(30)
  <2>3. \A k \in 1 .. n : w[k - 1] \in Text => w[k] = w[k - 1] \o g[k]
    BY <2>2, <1>7, Zenon
  <2> QED BY <2>1, <2>3, <1>3, <1>6, SumsOnly
<1> QED
  BY <1>1, <1>2, <1>11, <1>12

LEMMA SaidSums ==
    ASSUME NEW said \in Seq(Fragments), NEW to
    PROVE  \E f : Sums(f, Len(said), SaidAt(said, to)) /\ SaidIn(said, to) = f[Len(said)]
<1>1. PICK n : n = Len(said)
  OBVIOUS
<1>2. PICK g : g = SaidAt(said, to)
  OBVIOUS
<1>3. n \in Nat /\ DOMAIN said = 1 .. n
  BY <1>1
<1>4. \A k \in 1 .. n : said[k].part \in Nat /\ <<said[k].part>> \in Text
  <2>1. \A k \in 1 .. n : said[k] \in Fragments
    BY <1>3
  <2>2. \A k \in 1 .. n : said[k].part \in Nat
    BY <2>1 DEF Fragments
  <2> QED BY <2>2 DEF Text
<1>5. \A k \in 1 .. n : g[k] = IF said[k].to = to THEN <<said[k].part>> ELSE <<>>
  BY <1>2, <1>3 DEF SaidAt
<1>6. \A k \in 1 .. n : g[k] \in Text
  <2>1. <<>> \in Text
    BY DEF Text
  <2> QED BY <2>1, <1>4, <1>5
<1> DEFINE Is(f) == f = [k \in 0 .. n |-> IF k = 0 THEN <<>>
                                          ELSE IF said[k].to = to THEN Append(f[k - 1], said[k].part)
                                          ELSE f[k - 1]]
<1>7. ASSUME NEW f, NEW k \in 1 .. n, f[k - 1] \in Text
      PROVE  f[k - 1] \o g[k] = IF said[k].to = to THEN Append(f[k - 1], said[k].part) ELSE f[k - 1]
  <2>1. f[k - 1] \o <<>> = f[k - 1]
    BY <1>7, ConcatEmptySeq DEF Text
  <2>2. Append(f[k - 1], said[k].part) = f[k - 1] \o <<said[k].part>>
    BY <1>4, <1>7, AppendIsConcat DEF Text
  <2> QED BY <2>1, <2>2, <1>5
<1>8. \E f : Is(f)
  <2>1. PICK f : Sums(f, n, g)
    BY <1>3, <1>6, SumsExist
  <2>2. f \in [0 .. n -> Text] /\ f[0] = <<>> /\ \A k \in 1 .. n : f[k] = f[k - 1] \o g[k]
    BY <2>1 DEF Sums
  <2>3. ASSUME NEW k \in 0 .. n
        PROVE  f[k] = IF k = 0 THEN <<>> ELSE IF said[k].to = to THEN Append(f[k - 1], said[k].part) ELSE f[k - 1]
    <3>1. CASE k = 0
      BY <3>1, <2>2
    <3>2. CASE k # 0
      <4>1. k \in 1 .. n /\ k - 1 \in 0 .. n
        BY <3>2, <1>3
      <4>2. f[k - 1] \in Text
        BY <4>1, <2>2
      <4> QED BY <3>2, <4>1, <4>2, <2>2, <1>7
    <3> QED BY <3>1, <3>2
  <2>4. Is(f)
    <3>1. f = [k \in 0 .. n |-> f[k]]
      BY <2>2
    <3> QED BY <3>1, <2>3
  <2> QED BY <2>4
<1>9. PICK w : w = CHOOSE f : Is(f)
  OBVIOUS
<1>10. Is(w)
  <2> HIDE DEF Is
  <2> QED BY <1>8, <1>9, Zenon
<1>11. SaidIn(said, to) = w[n]
  BY <1>1, <1>9, Zenon DEF SaidIn
<1>12. Sums(w, n, g)
  <2>1. w = [k \in 0 .. n |-> w[k]] /\ w[0] = <<>>
    BY <1>3, <1>10
  <2>2. ASSUME NEW k \in 1 .. n
        PROVE  w[k] = IF said[k].to = to THEN Append(w[k - 1], said[k].part) ELSE w[k - 1]
    <3>1. k \in 0 .. n /\ k # 0
      BY <1>3
    <3> QED BY <3>1, <1>10
  <2>3. \A k \in 1 .. n : w[k - 1] \in Text => w[k] = w[k - 1] \o g[k]
    BY <2>2, <1>7, Zenon
  <2> QED BY <2>1, <2>3, <1>3, <1>6, SumsOnly
<1> QED
  BY <1>1, <1>2, <1>11, <1>12

\* A sum stays as it is where nothing is added.
LEMMA SumsStay ==
    ASSUME NEW n \in Nat, NEW f, NEW g, Sums(f, n, g),
           NEW i \in Nat, NEW j \in Nat, i <= j, j <= n,
           \A k \in 1 .. n : i < k /\ k <= j => g[k] = <<>>
    PROVE  f[j] = f[i]
<1> DEFINE Bad == {k \in Nat : i <= k /\ k <= j /\ f[k] # f[i]}
<1>1. SUFFICES ASSUME f[j] # f[i] PROVE FALSE
  OBVIOUS
<1>2. PICK k \in Bad : \A l \in Bad : ~(l < k)
  <2>1. Bad \subseteq Nat /\ Bad # {}
    BY <1>1
  <2> HIDE DEF Bad
  <2> QED BY <2>1, Least
<1>3. k \in Nat /\ i <= k /\ k <= j /\ f[k] # f[i]
  BY <1>2
<1>4. k # i
  BY <1>3
<1>5. k \in 1 .. n /\ i < k /\ k - 1 \in Nat /\ k - 1 < k /\ i <= k - 1 /\ k - 1 <= j /\ k - 1 \in 0 .. n
  BY <1>3, <1>4
<1>6. f[k - 1] = f[i]
  BY <1>2, <1>5
<1>7. f[k] = f[k - 1] \o g[k] /\ f[k - 1] \in Text
  BY <1>5, Zenon DEF Sums
<1>8. g[k] = <<>>
  BY <1>3, <1>5
<1>9. f[k] = f[k - 1]
  BY <1>7, <1>8, ConcatEmptySeq DEF Text
<1> QED
  BY <1>3, <1>6, <1>9

LEMMA TextType ==
    ASSUME NEW items \in Seq(Items), NEW kind
    PROVE  TextIn(items, kind) \in Text
<1>1. PICK f : Sums(f, Len(items), ShownAt(items, kind)) /\ TextIn(items, kind) = f[Len(items)]
  BY TextSums
<1>2. Len(items) \in 0 .. Len(items)
  OBVIOUS
<1> QED
  BY <1>1, <1>2, Zenon DEF Sums

\* Items of another kind do not matter to a text, nor whether an item is open.
LEMMA TextSame ==
    ASSUME NEW a \in Seq(Items), NEW b \in Seq(Items), Len(a) = Len(b), NEW kind,
           \A k \in DOMAIN a : /\ a[k].kind = kind <=> b[k].kind = kind
                               /\ a[k].kind = kind => a[k].text = b[k].text
    PROVE  TextIn(a, kind) = TextIn(b, kind)
<1>1. PICK n : n = Len(a)
  OBVIOUS
<1>2. n \in Nat /\ n = Len(b) /\ DOMAIN a = 1 .. n /\ DOMAIN b = 1 .. n
  BY <1>1
<1>3. PICK g : g = ShownAt(a, kind)
  OBVIOUS
<1>4. PICK e : e = ShownAt(b, kind)
  OBVIOUS
<1>5. PICK f : Sums(f, n, g) /\ TextIn(a, kind) = f[n]
  BY <1>1, <1>3, TextSums
<1>6. PICK h : Sums(h, n, e) /\ TextIn(b, kind) = h[n]
  BY <1>2, <1>4, TextSums
<1>7. \A k \in 1 .. n : g[k] = e[k]
  BY <1>2, <1>3, <1>4 DEF ShownAt
<1>8. n <= n
  BY <1>2
<1>9. f[n] = h[n]
  BY <1>2, <1>5, <1>6, <1>7, <1>8, SumsAgree
<1> QED
  BY <1>5, <1>6, <1>9

LEMMA ConcatThree ==
    ASSUME NEW x \in Text, NEW y \in Text, NEW z \in Text
    PROVE  (x \o y) \o z = x \o (y \o z)
<1>1. PICK v : v = (x \o y) \o z
  OBVIOUS
<1>2. PICK w : w = x \o (y \o z)
  OBVIOUS
<1>3. PICK p : p = x \o y
  OBVIOUS
<1>4. PICK q : q = y \o z
  OBVIOUS
<1>5. /\ p \in Seq(Nat) /\ Len(p) = Len(x) + Len(y)
      /\ \A i \in 1 .. Len(x) + Len(y) : p[i] = IF i <= Len(x) THEN x[i] ELSE y[i - Len(x)]
  BY <1>3, ConcatProperties DEF Text
<1>6. /\ q \in Seq(Nat) /\ Len(q) = Len(y) + Len(z)
      /\ \A i \in 1 .. Len(y) + Len(z) : q[i] = IF i <= Len(y) THEN y[i] ELSE z[i - Len(y)]
  BY <1>4, ConcatProperties DEF Text
<1>7. /\ v \in Seq(Nat) /\ Len(v) = Len(p) + Len(z)
      /\ \A i \in 1 .. Len(p) + Len(z) : v[i] = IF i <= Len(p) THEN p[i] ELSE z[i - Len(p)]
  BY <1>1, <1>3, <1>5, ConcatProperties DEF Text
<1>8. /\ w \in Seq(Nat) /\ Len(w) = Len(x) + Len(q)
      /\ \A i \in 1 .. Len(x) + Len(q) : w[i] = IF i <= Len(x) THEN x[i] ELSE q[i - Len(x)]
  BY <1>2, <1>4, <1>6, ConcatProperties DEF Text
<1>9. Len(x) \in Nat /\ Len(y) \in Nat /\ Len(z) \in Nat
  BY DEF Text
<1>13. PICK a : a = Len(x)
  OBVIOUS
<1>14. PICK b : b = Len(y)
  OBVIOUS
<1>15. PICK c : c = Len(z)
  OBVIOUS
<1>16. a \in Nat /\ b \in Nat /\ c \in Nat
  BY <1>9, <1>13, <1>14, <1>15
<1>17. /\ \A i \in 1 .. a + b : p[i] = IF i <= a THEN x[i] ELSE y[i - a]
       /\ \A i \in 1 .. b + c : q[i] = IF i <= b THEN y[i] ELSE z[i - b]
       /\ \A i \in 1 .. a + b + c : v[i] = IF i <= a + b THEN p[i] ELSE z[i - (a + b)]
       /\ \A i \in 1 .. a + (b + c) : w[i] = IF i <= a THEN x[i] ELSE q[i - a]
  BY <1>5, <1>6, <1>7, <1>8, <1>13, <1>14, <1>15, Zenon
<1>10. ASSUME NEW i \in 1 .. a + b + c PROVE v[i] = w[i]
  <2>0. i \in 1 .. a + (b + c)
    BY <1>16
  <2>1. CASE i <= a
    <3>1. i \in 1 .. a + b /\ i <= a + b
      BY <2>1, <1>16
    <3> QED BY <3>1, <2>0, <2>1, <1>17
  <2>2. CASE ~(i <= a) /\ i <= a + b
    <3>1. i \in 1 .. a + b /\ i - a \in 1 .. b + c /\ i - a <= b
      BY <2>2, <1>16
    <3> QED BY <3>1, <2>0, <2>2, <1>17
  <2>3. CASE ~(i <= a + b)
    <3>1. ~(i <= a) /\ i - a \in 1 .. b + c /\ ~(i - a <= b) /\ i - (a + b) = i - a - b
      BY <2>3, <1>16
    <3> QED BY <3>1, <2>0, <2>3, <1>17
  <2> QED BY <2>1, <2>2, <2>3
<1>11. Len(v) = Len(w)
  BY <1>5, <1>6, <1>7, <1>8, <1>9
<1>12. v = w
  <2>1. Len(v) = a + b + c
    BY <1>5, <1>7, <1>13, <1>14, <1>15
  <2>2. \A i \in 1 .. Len(v) : v[i] = w[i]
    BY <2>1, <1>10
  <2> QED BY <2>2, <1>7, <1>8, <1>11, SeqEqual
<1> QED
  BY <1>1, <1>2, <1>12

\* The last item is longer, or it is a new one.
LEMMA TextGrows ==
    ASSUME NEW a \in Seq(Items), NEW b \in Seq(Items), NEW kind, NEW u \in Text, NEW n \in Nat,
           Len(b) = n + 1, \A k \in 1 .. n : a[k] = b[k], b[n + 1].kind = kind,
           \/ Len(a) = n /\ b[n + 1].text = u
           \/ Len(a) = n + 1 /\ a[n + 1].kind = kind /\ b[n + 1].text = a[n + 1].text \o u
    PROVE  TextIn(b, kind) = TextIn(a, kind) \o u
<1>1. PICK m : m = Len(a)
  OBVIOUS
<1>2. m \in Nat /\ m \in {n, n + 1} /\ DOMAIN a = 1 .. m /\ DOMAIN b = 1 .. n + 1 /\ n + 1 \in Nat
      /\ n <= m /\ n <= n + 1 /\ n + 1 \in 1 .. n + 1 /\ n \in 0 .. n + 1
      /\ \A k \in 1 .. n : k \in 1 .. m /\ k \in 1 .. n + 1
  BY <1>1
<1>3. PICK g : g = ShownAt(a, kind)
  OBVIOUS
<1>4. PICK e : e = ShownAt(b, kind)
  OBVIOUS
<1>5. PICK f : Sums(f, m, g) /\ TextIn(a, kind) = f[m]
  BY <1>1, <1>3, TextSums
<1>6. PICK h : Sums(h, n + 1, e) /\ TextIn(b, kind) = h[n + 1]
  BY <1>4, TextSums
<1>7. \A k \in 1 .. n : g[k] = e[k]
  BY <1>2, <1>3, <1>4 DEF ShownAt
<1>8. f[n] = h[n]
  BY <1>2, <1>5, <1>6, <1>7, SumsAgree
<1>9. h[n] \in Text /\ h[n + 1] = h[n] \o e[n + 1]
  <2>1. PICK k : k = n + 1
    OBVIOUS
  <2>2. k \in 1 .. n + 1 /\ k - 1 = n
    BY <2>1
  <2>3. h[k] = h[k - 1] \o e[k]
    BY <2>2, <1>6, Zenon DEF Sums
  <2>4. h[n] \in Text
    BY <1>2, <1>6, Zenon DEF Sums
  <2> QED BY <2>1, <2>2, <2>3, <2>4
<1>10. e[n + 1] = b[n + 1].text
  BY <1>2, <1>4 DEF ShownAt
<1>11. CASE m = n /\ b[n + 1].text = u
  BY <1>11, <1>5, <1>6, <1>8, <1>9, <1>10
<1>12. CASE m = n + 1 /\ a[n + 1].kind = kind /\ b[n + 1].text = a[n + 1].text \o u
  <2>1. g[n + 1] = a[n + 1].text
    BY <1>12, <1>2, <1>3 DEF ShownAt
  <2>2. a[n + 1] \in Items
    BY <1>12, <1>2
  <2>3. a[n + 1].text \in Text
    BY <2>2 DEF Items
  <2>4. f[n + 1] = f[n] \o g[n + 1]
    <3>1. PICK k : k = n + 1
      OBVIOUS
    <3>2. k \in 1 .. m /\ k - 1 = n
      BY <3>1, <1>2, <1>12
    <3>3. f[k] = f[k - 1] \o g[k]
      BY <3>2, <1>5, Zenon DEF Sums
    <3> QED BY <3>1, <3>2, <3>3
  <2>5. (h[n] \o a[n + 1].text) \o u = h[n] \o (a[n + 1].text \o u)
    BY <2>3, <1>9, ConcatThree
  <2> QED BY <2>1, <2>4, <2>5, <1>5, <1>6, <1>8, <1>9, <1>10, <1>12
<1> QED
  BY <1>1, <1>2, <1>11, <1>12

\* A new item of another kind.
LEMMA TextOther ==
    ASSUME NEW a \in Seq(Items), NEW x \in Items, NEW kind, x.kind # kind \/ x.text = <<>>,
           NEW b, b = Append(a, x)
    PROVE  TextIn(b, kind) = TextIn(a, kind)
<1>1. PICK n : n = Len(a)
  OBVIOUS
<1>2. /\ n \in Nat /\ b \in Seq(Items) /\ Len(b) = n + 1 /\ DOMAIN a = 1 .. n /\ DOMAIN b = 1 .. n + 1
      /\ n + 1 \in Nat /\ n <= n /\ n <= n + 1 /\ b[n + 1] = x /\ n + 1 <= n + 1
      /\ \A k \in 1 .. n : k \in 1 .. n + 1 /\ b[k] = a[k]
  BY <1>1
<1>3. PICK g : g = ShownAt(a, kind)
  OBVIOUS
<1>4. PICK e : e = ShownAt(b, kind)
  OBVIOUS
<1>5. PICK f : Sums(f, n, g) /\ TextIn(a, kind) = f[n]
  BY <1>1, <1>3, TextSums
<1>6. PICK h : Sums(h, n + 1, e) /\ TextIn(b, kind) = h[n + 1]
  BY <1>2, <1>4, TextSums
<1>7. \A k \in 1 .. n : g[k] = e[k]
  BY <1>2, <1>3, <1>4 DEF ShownAt
<1>8. f[n] = h[n]
  BY <1>2, <1>5, <1>6, <1>7, SumsAgree
<1>9. e[n + 1] = <<>>
  <2>1. n + 1 \in 1 .. n + 1
    BY <1>2
  <2> QED BY <2>1, <1>2, <1>4 DEF ShownAt
<1>10. \A k \in 1 .. n + 1 : n < k /\ k <= n + 1 => e[k] = <<>>
  <2>1. \A k \in 1 .. n + 1 : n < k => k = n + 1
    BY <1>2
  <2> QED BY <2>1, <1>9
<1>11. h[n + 1] = h[n]
  BY <1>2, <1>6, <1>10, SumsStay
<1> QED
  BY <1>5, <1>6, <1>8, <1>11

-------------------------------------------------------------------------------
(* Each event keeps what the client has been shown in line with what was heard. *)

LEMMA HeardTypes ==
    ASSUME NEW x \in Heards
    PROVE  /\ x.called \subseteq Tools /\ x.calls \in [Tools -> Text] /\ x.texts \in [Texts -> Text]
           /\ \A i \in Tools : x.calls[i] \in Text
           /\ \A kind \in Texts : x.texts[kind] \in Text
  BY DEF Heards

\* The calls keep their places: no call and no item of a call is new, the items
\* of those that are done stay as they are, and a call that ends is done.
LEMMA CallsStay ==
    ASSUME NEW s, NEW t, NEW c \in Clients, NEW d \in Clients, NEW x \in Heards, NEW y \in Heards,
           CallsCarried(s, c, x), y.called = x.called,
           DOMAIN t.tools \subseteq DOMAIN s.tools,
           \A i \in DOMAIN t.tools : t.tools[i].index = s.tools[i].index /\ t.tools[i].text = y.calls[i],
           DOMAIN c.items \subseteq DOMAIN d.items,
           \A k \in DOMAIN d.items : d.items[k].kind = "tool" => k \in DOMAIN c.items,
           \A k \in DOMAIN c.items : d.items[k].kind = "tool" <=> c.items[k].kind = "tool",
           \A k \in DOMAIN c.items : c.items[k].kind = "tool" /\ ~c.items[k].open => d.items[k] = c.items[k],
           \A i \in Tools \ DOMAIN s.tools : y.calls[i] = x.calls[i],
           \A i \in DOMAIN s.tools \ DOMAIN t.tools :
              d.items[s.tools[i].index + 1] = Item("tool", FALSE, Input(i, y.calls[i]))
    PROVE  CallsCarried(t, d, y)
<1>1. PICK place : Placed(place, s, c, x)
  BY Zenon DEF CallsCarried
<1>2. /\ place \in [x.called -> DOMAIN c.items]
      /\ \A i, j \in x.called : place[i] = place[j] => i = j
      /\ \A k \in DOMAIN c.items : c.items[k].kind = "tool" => \E i \in x.called : place[i] = k
      /\ \A i \in x.called : c.items[place[i]].kind = "tool"
      /\ \A i \in DOMAIN s.tools : place[i] = s.tools[i].index + 1
      /\ \A i \in x.called \ DOMAIN s.tools :
            c.items[place[i]] = Item("tool", FALSE, Input(i, x.calls[i]))
  BY <1>1, Zenon DEF Placed
<1>3. DOMAIN s.tools \subseteq x.called /\ x.called \subseteq Tools
  BY HeardTypes DEF CallsCarried
<1>4. place \in [y.called -> DOMAIN d.items]
  BY <1>2
<1>5. \A i, j \in y.called : place[i] = place[j] => i = j
  BY <1>2
<1>6. \A k \in DOMAIN d.items : d.items[k].kind = "tool" => \E i \in y.called : place[i] = k
  BY <1>2, Zenon
<1>7. \A i \in y.called : d.items[place[i]].kind = "tool"
  <2>1. TAKE i \in y.called
  <2>2. i \in x.called
    OBVIOUS
  <2>3. place[i] \in DOMAIN c.items /\ c.items[place[i]].kind = "tool"
    BY <2>2, <1>2
  <2> QED BY <2>3
<1>8. \A i \in DOMAIN t.tools : place[i] = t.tools[i].index + 1
  BY <1>2
<1>9. \A i \in y.called \ DOMAIN t.tools :
        d.items[place[i]] = Item("tool", FALSE, Input(i, y.calls[i]))
  <2>1. TAKE i \in y.called \ DOMAIN t.tools
  <2>2. i \in x.called /\ i \in Tools
    BY <1>3
  <2>3. CASE i \in DOMAIN s.tools
    <3>1. place[i] = s.tools[i].index + 1
      BY <2>3, <1>2
    <3>2. d.items[s.tools[i].index + 1] = Item("tool", FALSE, Input(i, y.calls[i]))
      BY <2>3
    <3> QED BY <3>1, <3>2
  <2>4. CASE i \notin DOMAIN s.tools
    <3>1. place[i] \in DOMAIN c.items /\ c.items[place[i]] = Item("tool", FALSE, Input(i, x.calls[i]))
      BY <2>2, <2>4, <1>2
    <3>2. c.items[place[i]].kind = "tool" /\ ~c.items[place[i]].open
      BY <3>1 DEF Item
    <3>3. d.items[place[i]] = c.items[place[i]]
      BY <3>1, <3>2
    <3>4. y.calls[i] = x.calls[i]
      BY <2>2, <2>4
    <3> QED BY <3>1, <3>3, <3>4
  <2> QED BY <2>3, <2>4
<1>10. Placed(place, t, d, y)
  BY <1>4, <1>5, <1>6, <1>7, <1>8, <1>9, Zenon DEF Placed
<1>11. \A i \in Tools \ y.called : y.calls[i] = <<>>
  BY <1>3 DEF CallsCarried
<1>12. DOMAIN t.tools \subseteq y.called /\ \A i \in DOMAIN t.tools : t.tools[i].text = y.calls[i]
  BY <1>3
<1> QED
  BY <1>10, <1>11, <1>12, Zenon DEF CallsCarried

\* d is c with the item at n.
ItemShown(c, d, n, item) == ChangedAt(c, d, n) /\ d.ends = c.ends /\ d.items[n] = item

\* d is c with one item more.
ItemAdded(c, d, item) ==
    /\ d \in Clients /\ d.ends = c.ends
    /\ d.items = Append(c.items, item) /\ item \in Items

\* What a client makes of an item that is done, of text for it, and of a new one.
LEMMA DoneShown ==
    ASSUME NEW c \in Clients, NEW kind \in Kinds, NEW index \in Nat, NEW text \in Text,
           NEW n \in DOMAIN c.items, n = index + 1, c.items[n].open, c.items[n].kind = kind
    PROVE  ItemShown(c, Shows(c, DoneEvent(kind, index, text)), n, Item(kind, FALSE, text))
<1>1. PICK e : e = DoneEvent(kind, index, text)
  OBVIOUS
<1>2. e = [type |-> "done", kind |-> kind, index |-> index, text |-> text]
  BY <1>1 DEF DoneEvent
<1>3. ChangedAt(c, Shows(c, e), n) /\ Shows(c, e).ends = c.ends /\ Shows(c, e).items[n] = ItemAfter(c.items[n], e)
  BY <1>2, ChangedShown
<1>4. e.type = "done" /\ e.text = text
  BY <1>2
<1>5. ItemAfter(c.items[n], e) = Item(kind, FALSE, text)
  BY <1>4, Zenon DEF ItemAfter
<1> QED
  BY <1>1, <1>3, <1>5, Zenon DEF ItemShown

LEMMA DeltaShown ==
    ASSUME NEW c \in Clients, NEW kind \in Kinds, NEW index \in Nat, NEW text \in Text,
           NEW n \in DOMAIN c.items, n = index + 1, c.items[n].open, c.items[n].kind = kind
    PROVE  ItemShown(c, Shows(c, DeltaEvent(kind, index, text)), n, Item(kind, TRUE, c.items[n].text \o text))
<1>1. PICK e : e = DeltaEvent(kind, index, text)
  OBVIOUS
<1>2. e = [type |-> "delta", kind |-> kind, index |-> index, text |-> text]
  BY <1>1 DEF DeltaEvent
<1>3. ChangedAt(c, Shows(c, e), n) /\ Shows(c, e).ends = c.ends /\ Shows(c, e).items[n] = ItemAfter(c.items[n], e)
  BY <1>2, ChangedShown
<1>4. e.type = "delta" /\ e.text = text
  BY <1>2
<1>5. ItemAfter(c.items[n], e) = Item(kind, TRUE, c.items[n].text \o text)
  BY <1>4, Zenon DEF ItemAfter
<1> QED
  BY <1>1, <1>3, <1>5, Zenon DEF ItemShown

LEMMA NewShown ==
    ASSUME NEW c \in Clients, NEW kind \in Kinds, NEW index \in Nat
    PROVE  ItemAdded(c, Shows(c, AddedEvent(kind, index)), Item(kind, TRUE, <<>>))
<1>1. AddedTo(c, Shows(c, AddedEvent(kind, index)), kind)
  <2>1. PICK e : e = AddedEvent(kind, index)
    OBVIOUS
  <2>2. e = [type |-> "added", kind |-> kind, index |-> index]
    BY <2>1 DEF AddedEvent
  <2>3. AddedTo(c, Shows(c, e), kind)
    BY <2>2, AddedShown
  <2> QED BY <2>1, <2>3, Zenon
<1>2. Item(kind, TRUE, <<>>) \in Items
  BY DEF Item, Items, Text
<1> QED
  BY <1>1, <1>2 DEF AddedTo, ItemAdded

\* Nothing that matters to a text changes, whatever becomes of one item of the
\* client that is no text or keeps what it says.
LEMMA TextsStay ==
    ASSUME NEW c \in Clients, NEW d \in Clients, NEW n, ChangedAt(c, d, n), n \in DOMAIN c.items,
           d.items[n].kind = c.items[n].kind,
           c.items[n].kind \in Texts => d.items[n].text = c.items[n].text,
           NEW kind \in Texts
    PROVE  TextIn(d.items, kind) = TextIn(c.items, kind)
<1>1. PICK a : a = c.items
  OBVIOUS
<1>2. PICK b : b = d.items
  OBVIOUS
<1>3. a \in Seq(Items) /\ b \in Seq(Items) /\ Len(a) = Len(b)
  BY <1>1, <1>2, ItemFacts DEF ChangedAt
<1>4. ASSUME NEW k \in DOMAIN a
      PROVE  /\ a[k].kind = kind <=> b[k].kind = kind
             /\ a[k].kind = kind => a[k].text = b[k].text
  BY <1>1, <1>2 DEF ChangedAt
<1>5. TextIn(a, kind) = TextIn(b, kind)
  BY <1>3, <1>4, TextSame
<1> QED
  BY <1>1, <1>2, <1>5

\* The places of a client of which one item has changed.
LEMMA PlacesStay ==
    ASSUME NEW c \in Clients, NEW d \in Clients, NEW n, ChangedAt(c, d, n), n \in DOMAIN c.items
    PROVE  /\ DOMAIN d.items = DOMAIN c.items
           /\ \A k \in DOMAIN c.items : k # n => d.items[k] = c.items[k]
  BY ItemFacts DEF ChangedAt

\* An item that is not a call changes: the calls stay.
SameCalls(x, y) == y.called = x.called /\ y.calls = x.calls /\ x \in Heards /\ y \in Heards

TextChanged(c, d, n) ==
    /\ ChangedAt(c, d, n) /\ n \in DOMAIN c.items /\ d \in Clients
    /\ c.items[n].kind \in Texts /\ d.items[n].kind \in Texts

LEMMA CallsUntouched ==
    ASSUME NEW s, NEW t, NEW c \in Clients, NEW d, NEW x, NEW y, NEW n,
           CallsCarried(s, c, x), t.tools = s.tools, SameCalls(x, y), TextChanged(c, d, n)
    PROVE  CallsCarried(t, d, y)
<1> USE DEF SameCalls, TextChanged
<1>1. /\ DOMAIN d.items = DOMAIN c.items
      /\ \A k \in DOMAIN c.items : k # n => d.items[k] = c.items[k]
  BY PlacesStay
<1>2. \A k \in DOMAIN c.items : d.items[k].kind = "tool" <=> c.items[k].kind = "tool"
  BY <1>1 DEF Texts
<1>3. \A k \in DOMAIN c.items : c.items[k].kind = "tool" /\ ~c.items[k].open => d.items[k] = c.items[k]
  BY <1>1 DEF Texts
<1>4. \A i \in DOMAIN t.tools : t.tools[i].index = s.tools[i].index /\ t.tools[i].text = y.calls[i]
  BY DEF CallsCarried
<1>5. DOMAIN t.tools = DOMAIN s.tools
  OBVIOUS
<1> QED
  BY <1>1, <1>2, <1>3, <1>4, <1>5, CallsStay

LEMMA CarryCloseItem ==
    ASSUME NEW s \in Translators, NEW c \in Clients, NEW x, NEW kind \in Texts,
           Matches(s, c), s[kind].open, Carries(s, c, x),
           NEW t, t = CloseItem(s, kind)
    PROVE  Carries(t, Shows(c, DoneEvent(kind, s[kind].index, s[kind].text)), x)
<1>1. PICK index : index = s[kind].index
  OBVIOUS
<1>2. PICK text : text = s[kind].text
  OBVIOUS
<1>3. PICK d : d = Shows(c, DoneEvent(kind, index, text))
  OBVIOUS
<1>40. PICK n : n = index + 1
  OBVIOUS
<1>4. kind \in Kinds /\ index \in Nat /\ text \in Text
  BY <1>1, <1>2, SlotTypes DEF Texts, Kinds
<1>5. t.tools = s.tools
  BY CloseItemFields
<1>6. n \in DOMAIN c.items /\ c.items[n] = Item(kind, TRUE, text)
  <2>1. n = Len(c.items) /\ c.items[Len(c.items)] = Item(kind, TRUE, text)
    BY <1>1, <1>2, <1>40 DEF Matches, TextShown
  <2>2. n \in Nat \ {0} /\ c.items \in Seq(Items)
    BY <1>4, <1>40, ItemFacts
  <2> QED BY <2>1, <2>2
<1>7. c.items[n].open /\ c.items[n].kind = kind /\ c.items[n].text = text
  BY <1>6 DEF Item
<1>8. /\ ChangedAt(c, d, n) /\ d.ends = c.ends
      /\ d.items[n] = Item(kind, FALSE, text)
  <2>1. ItemShown(c, Shows(c, DoneEvent(kind, index, text)), n, Item(kind, FALSE, text))
    BY <1>4, <1>6, <1>7, <1>40, DoneShown, Zenon
  <2> QED BY <2>1, <1>3, Zenon DEF ItemShown
<1>9. d.items[n].kind = kind /\ d.items[n].text = text /\ d \in Clients
  BY <1>8 DEF Item, ChangedAt
<1>11. x \in Heards /\ TextsCarried(c, x) /\ CallsCarried(s, c, x) /\ EndMeant(c.ends, x)
  BY DEF Carries
<1>12. TextsCarried(d, x)
  <2>1. ASSUME NEW other \in Texts PROVE TextIn(d.items, other) = TextIn(c.items, other)
    BY <1>6, <1>7, <1>8, <1>9, TextsStay
  <2> QED BY <2>1, <1>11 DEF TextsCarried
<1>13. CallsCarried(t, d, x)
  <2>1. TextChanged(c, d, n) /\ SameCalls(x, x)
    BY <1>6, <1>7, <1>8, <1>9, <1>11 DEF TextChanged, SameCalls
  <2> QED BY <2>1, <1>5, <1>11, CallsUntouched, Zenon
<1> QED
  BY <1>1, <1>2, <1>3, <1>8, <1>11, <1>12, <1>13 DEF Carries

\* What has been heard after another fragment of a text.
HeardText(x, kind, part) == [x EXCEPT !.texts = [x.texts EXCEPT ![kind] = Append(x.texts[kind], part)]]

IsHeardText(x, y, kind, part) ==
    /\ y \in Heards
    /\ y.called = x.called /\ y.calls = x.calls /\ y.meant = x.meant /\ y.reason = x.reason
    /\ y.texts[kind] = Append(x.texts[kind], part)
    /\ \A other \in Texts \ {kind} : y.texts[other] = x.texts[other]

LEMMA HeardTextFields ==
    ASSUME NEW x \in Heards, NEW kind \in Texts, NEW part \in Nat
    PROVE  IsHeardText(x, HeardText(x, kind, part), kind, part)
<1>0. PICK y : y = HeardText(x, kind, part)
  OBVIOUS
<1>1. PICK f : f = [x.texts EXCEPT ![kind] = Append(x.texts[kind], part)]
  OBVIOUS
<1>2. x.texts \in [Texts -> Text] /\ x.texts[kind] \in Text
  BY HeardTypes
<1>3. Append(x.texts[kind], part) \in Text
  BY <1>2 DEF Text
<1>4. f \in [Texts -> Text]
  BY <1>1, <1>2, <1>3
<1>5. y = [x EXCEPT !.texts = f]
  BY <1>0, <1>1, Zenon DEF HeardText
<1>6. /\ y \in Heards /\ y.texts = f
      /\ y.called = x.called /\ y.calls = x.calls /\ y.meant = x.meant /\ y.reason = x.reason
  BY <1>4, <1>5 DEF Heards
<1>7. IsHeardText(x, y, kind, part)
  BY <1>1, <1>2, <1>6 DEF IsHeardText
<1> QED
  BY <1>0, <1>7, Zenon

LEMMA CarryOpenText ==
    ASSUME NEW s \in Translators, NEW c \in Clients, NEW x, NEW kind \in Texts,
           Carries(s, c, x),
           NEW t, t = OpenText(s, kind)
    PROVE  Carries(t, Shows(c, AddedEvent(kind, s.next)), x)
<1>1. PICK d : d = Shows(c, AddedEvent(kind, s.next))
  OBVIOUS
<1>2. PICK item : item = Item(kind, TRUE, <<>>)
  OBVIOUS
<1>3. kind \in Kinds /\ kind # "tool" /\ s.next \in Nat
  BY SlotTypes DEF Texts, Kinds
<1>4. t.tools = s.tools
  BY OpenTextFields
<1>5. d \in Clients /\ d.ends = c.ends /\ d.items = Append(c.items, item) /\ item \in Items
  <2>1. ItemAdded(c, Shows(c, AddedEvent(kind, s.next)), Item(kind, TRUE, <<>>))
    BY <1>3, NewShown, Zenon
  <2> QED BY <2>1, <1>1, <1>2, Zenon DEF ItemAdded
<1>6. item.kind = kind /\ item.text = <<>>
  BY <1>2 DEF Item
<1>7. c.items \in Seq(Items)
  BY ItemFacts
<1>8. PICK m : m = Len(c.items) + 1
  OBVIOUS
<1>9. /\ DOMAIN d.items = DOMAIN c.items \cup {m} /\ d.items[m] = item
      /\ \A k \in DOMAIN c.items : d.items[k] = c.items[k]
  BY <1>5, <1>7, <1>8, AppendItem
<1>10. x \in Heards /\ TextsCarried(c, x) /\ CallsCarried(s, c, x) /\ EndMeant(c.ends, x)
  BY DEF Carries
<1>11. TextsCarried(d, x)
  <2>1. ASSUME NEW other \in Texts PROVE TextIn(d.items, other) = TextIn(c.items, other)
    BY <1>5, <1>6, <1>7, TextOther
  <2> QED BY <2>1, <1>10 DEF TextsCarried
<1>12. CallsCarried(t, d, x)
  <2>1. \A k \in DOMAIN d.items : d.items[k].kind = "tool" => k \in DOMAIN c.items
    BY <1>3, <1>6, <1>9
  <2>2. \A i \in DOMAIN t.tools : t.tools[i].index = s.tools[i].index /\ t.tools[i].text = x.calls[i]
    BY <1>4, <1>10 DEF CallsCarried
  <2>3. DOMAIN t.tools = DOMAIN s.tools
    BY <1>4
  <2> QED BY <2>1, <2>2, <2>3, <1>5, <1>9, <1>10, CallsStay
<1> QED
  BY <1>1, <1>5, <1>10, <1>11, <1>12 DEF Carries

LEMMA TellTextTools ==
    ASSUME NEW s \in Translators, NEW kind \in Texts, NEW part \in Nat
    PROVE  TellText(s, kind, part).tools = s.tools
<1>1. PICK t : t = TellText(s, kind, part)
  OBVIOUS
<1>2. /\ t \in Translators
      /\ SameFlags(s, t) /\ t.next = s.next /\ t.tools = s.tools
      /\ t[kind] = Opened(s[kind].index, Append(s[kind].text, part))
      /\ \A other \in Texts \ {kind} : t[other] = s[other]
      /\ t.queue = Append(s.queue, DeltaEvent(kind, s[kind].index, <<part>>))
      /\ t.output = s.output
  BY <1>1, TellTextFields
<1> QED
  BY <1>1, <1>2, Zenon

LEMMA CarryTellText ==
    ASSUME NEW s \in Translators, NEW c \in Clients, NEW x, NEW kind \in Texts, NEW part \in Nat,
           Matches(s, c), s[kind].open, Carries(s, c, x),
           NEW t, t = TellText(s, kind, part),
           NEW y, y = HeardText(x, kind, part)
    PROVE  Carries(t, Shows(c, DeltaEvent(kind, s[kind].index, <<part>>)), y)
<1>1. PICK index : index = s[kind].index
  OBVIOUS
<1>2. PICK text : text = s[kind].text
  OBVIOUS
<1>3. PICK u : u = <<part>>
  OBVIOUS
<1>40. PICK n : n = index + 1
  OBVIOUS
<1>4. kind \in Kinds /\ index \in Nat /\ text \in Text /\ u \in Text
  BY <1>1, <1>2, <1>3, SlotTypes DEF Texts, Kinds, Text
<1>5. t.tools = s.tools
  BY TellTextTools, Zenon
<1>6. /\ n = Len(c.items) /\ n \in DOMAIN c.items
      /\ c.items[n] = Item(kind, TRUE, text) /\ c.items \in Seq(Items)
  <2>1. n = Len(c.items) /\ c.items[Len(c.items)] = Item(kind, TRUE, text)
    BY <1>1, <1>2, <1>40 DEF Matches, TextShown
  <2>2. n \in Nat \ {0} /\ c.items \in Seq(Items)
    BY <1>4, <1>40, ItemFacts
  <2> QED BY <2>1, <2>2
<1>7. c.items[n].open /\ c.items[n].kind = kind /\ c.items[n].text = text
  BY <1>6 DEF Item
<1>8. PICK d : d = Shows(c, DeltaEvent(kind, index, u))
  OBVIOUS
<1>9. /\ ChangedAt(c, d, n) /\ d.ends = c.ends
      /\ d.items[n] = Item(kind, TRUE, text \o u)
  <2>1. ItemShown(c, Shows(c, DeltaEvent(kind, index, u)), n, Item(kind, TRUE, c.items[n].text \o u))
    BY <1>4, <1>6, <1>7, <1>40, DeltaShown, Zenon
  <2> QED BY <2>1, <1>7, <1>8, Zenon DEF ItemShown
<1>10. d.items[n].kind = kind /\ d.items[n].text = text \o u /\ d \in Clients
  BY <1>9 DEF Item, ChangedAt
<1>11. x \in Heards /\ TextsCarried(c, x) /\ CallsCarried(s, c, x) /\ EndMeant(c.ends, x)
  BY DEF Carries
<1>12. /\ y \in Heards
       /\ y.called = x.called /\ y.calls = x.calls /\ y.meant = x.meant /\ y.reason = x.reason
       /\ y.texts[kind] = Append(x.texts[kind], part)
       /\ \A other \in Texts \ {kind} : y.texts[other] = x.texts[other]
  <2>1. IsHeardText(x, HeardText(x, kind, part), kind, part)
    BY <1>11, HeardTextFields, Zenon
  <2> QED BY <2>1, Zenon DEF IsHeardText
<1>13. PICK a : a = c.items
  OBVIOUS
<1>14. PICK b : b = d.items
  OBVIOUS
<1>15. /\ index \in Nat /\ n = index + 1 /\ a \in Seq(Items) /\ b \in Seq(Items) /\ Len(a) = n /\ Len(b) = n
       /\ DOMAIN a = 1 .. n
       /\ \A k \in DOMAIN a : k # n => b[k] = a[k]
  BY <1>4, <1>40, <1>6, <1>9, <1>13, <1>14, ItemFacts DEF ChangedAt
<1>16. ASSUME NEW other \in Texts PROVE TextIn(b, other) = y.texts[other]
  <2>1. TextIn(a, other) = x.texts[other]
    BY <1>11, <1>13 DEF TextsCarried
  <2>2. CASE other = kind
    <3>1. TextIn(b, kind) = TextIn(a, kind) \o u
      <4>1. \A k \in 1 .. index : a[k] = b[k]
        BY <1>4, <1>15
      <4>2. b[n].kind = kind /\ a[n].kind = kind /\ b[n].text = a[n].text \o u
        BY <1>7, <1>10, <1>13, <1>14
      <4>4. Len(a) = index + 1 /\ Len(b) = index + 1
        BY <1>15
      <4>5. b[index + 1].kind = kind /\ a[index + 1].kind = kind /\ b[index + 1].text = a[index + 1].text \o u
        BY <4>2, <1>15
      <4>6. a \in Seq(Items) /\ b \in Seq(Items) /\ index \in Nat /\ u \in Text
        BY <1>4, <1>15
      <4> QED BY <4>1, <4>4, <4>5, <4>6, TextGrows
    <3>2. TextIn(a, kind) \o u = Append(TextIn(a, kind), part)
      <4>1. TextIn(a, kind) \in Text
        BY <1>15, TextType
      <4> QED BY <4>1, <1>3 DEF Text
    <3> QED BY <2>1, <2>2, <3>1, <3>2, <1>12
  <2>3. CASE other # kind
    <3>1. ASSUME NEW k \in DOMAIN a
          PROVE  /\ a[k].kind = other <=> b[k].kind = other
                 /\ a[k].kind = other => a[k].text = b[k].text
      BY <2>3, <1>7, <1>10, <1>13, <1>14, <1>15
    <3>2. TextIn(a, other) = TextIn(b, other)
      BY <3>1, <1>15, TextSame
    <3> QED BY <2>1, <2>3, <3>2, <1>12
  <2> QED BY <2>2, <2>3
<1>17. TextsCarried(d, y)
  BY <1>14, <1>16 DEF TextsCarried
<1>18. CallsCarried(t, d, y)
  <2>1. TextChanged(c, d, n) /\ SameCalls(x, y)
    BY <1>6, <1>7, <1>9, <1>10, <1>11, <1>12 DEF TextChanged, SameCalls
  <2> QED BY <2>1, <1>5, <1>11, CallsUntouched, Zenon
<1>19. EndMeant(d.ends, y)
  BY <1>9, <1>11, <1>12, Zenon DEF EndMeant
<1> QED
  BY <1>1, <1>3, <1>8, <1>12, <1>17, <1>18, <1>19 DEF Carries

\* What has been heard after a call, and after another fragment of its arguments.
HeardCall(x, i) == [x EXCEPT !.called = x.called \cup {i}]

HeardPart(x, i, part) == [x EXCEPT !.calls = [x.calls EXCEPT ![i] = Append(x.calls[i], part)]]

SameWords(x, y) == y.texts = x.texts /\ y.meant = x.meant /\ y.reason = x.reason /\ y \in Heards

IsHeardCall(x, y, i) == SameWords(x, y) /\ y.called = x.called \cup {i} /\ y.calls = x.calls

IsHeardPart(x, y, i, part) ==
    /\ SameWords(x, y) /\ y.called = x.called
    /\ y.calls[i] = Append(x.calls[i], part)
    /\ \A j \in Tools \ {i} : y.calls[j] = x.calls[j]

LEMMA HeardCallFields ==
    ASSUME NEW x \in Heards, NEW i \in Tools
    PROVE  IsHeardCall(x, HeardCall(x, i), i)
<1>1. PICK y : y = HeardCall(x, i)
  OBVIOUS
<1>2. PICK S : S = x.called \cup {i}
  OBVIOUS
<1>3. S \in SUBSET Tools
  BY <1>2, HeardTypes
<1>4. y = [x EXCEPT !.called = S]
  BY <1>1, <1>2, Zenon DEF HeardCall
<1>5. /\ y \in Heards /\ y.called = S /\ y.calls = x.calls
      /\ y.texts = x.texts /\ y.meant = x.meant /\ y.reason = x.reason
  BY <1>3, <1>4 DEF Heards
<1>6. IsHeardCall(x, y, i)
  BY <1>2, <1>5 DEF IsHeardCall, SameWords
<1> QED
  BY <1>1, <1>6, Zenon

LEMMA HeardPartFields ==
    ASSUME NEW x \in Heards, NEW i \in Tools, NEW part \in Nat
    PROVE  IsHeardPart(x, HeardPart(x, i, part), i, part)
<1>1. PICK y : y = HeardPart(x, i, part)
  OBVIOUS
<1>2. PICK f : f = [x.calls EXCEPT ![i] = Append(x.calls[i], part)]
  OBVIOUS
<1>3. x.calls \in [Tools -> Text] /\ x.calls[i] \in Text
  BY HeardTypes
<1>4. Append(x.calls[i], part) \in Text
  BY <1>3 DEF Text
<1>5. f \in [Tools -> Text] /\ f[i] = Append(x.calls[i], part) /\ \A j \in Tools \ {i} : f[j] = x.calls[j]
  BY <1>2, <1>3, <1>4
<1>6. y = [x EXCEPT !.calls = f]
  BY <1>1, <1>2, Zenon DEF HeardPart
<1>7. /\ y \in Heards /\ y.calls = f /\ y.called = x.called
      /\ y.texts = x.texts /\ y.meant = x.meant /\ y.reason = x.reason
  BY <1>5, <1>6 DEF Heards
<1>8. IsHeardPart(x, y, i, part)
  BY <1>5, <1>7 DEF IsHeardPart, SameWords
<1> QED
  BY <1>1, <1>8, Zenon

\* The texts and the end of a client of which no text has changed.
LEMMA WordsStay ==
    ASSUME NEW c, NEW d, NEW x, NEW y, SameWords(x, y),
           TextsCarried(c, x), EndMeant(c.ends, x), d.ends = c.ends,
           \A kind \in Texts : TextIn(d.items, kind) = TextIn(c.items, kind)
    PROVE  TextsCarried(d, y) /\ EndMeant(d.ends, y)
<1>1. TextsCarried(d, y)
  BY DEF TextsCarried, SameWords
<1>2. EndMeant(d.ends, y)
  BY Zenon DEF EndMeant, SameWords
<1> QED
  BY <1>1, <1>2

LEMMA CarryOpenTool ==
    ASSUME NEW s \in Translators, NEW c \in Clients, NEW x, NEW i \in Tools, i \notin x.called,
           Matches(s, c), Carries(s, c, x),
           NEW t, t = OpenTool(s, i),
           NEW y, y = HeardCall(x, i)
    PROVE  Carries(t, Shows(c, AddedEvent("tool", s.next)), y)
<1>1. PICK kind : kind = "tool"
  OBVIOUS
<1>2. PICK item : item = Item(kind, TRUE, <<>>)
  OBVIOUS
<1>3. PICK d : d = Shows(c, AddedEvent(kind, s.next))
  OBVIOUS
<1>4. kind \in Kinds /\ kind \notin Texts /\ s.next \in Nat
  BY <1>1, SlotTypes DEF Texts, Kinds
<1>5. /\ x \in Heards /\ TextsCarried(c, x) /\ EndMeant(c.ends, x)
      /\ DOMAIN s.tools \subseteq x.called
      /\ \A j \in DOMAIN s.tools : s.tools[j].text = x.calls[j]
      /\ \A j \in Tools \ x.called : x.calls[j] = <<>>
  BY Zenon DEF Carries, CallsCarried
<1>6. PICK f : f = t.tools
  OBVIOUS
<1>7. /\ t \in Translators
      /\ SameFlags(s, t) /\ t.next = s.next + 1
      /\ t.message = s.message /\ t.reasoning = s.reasoning
      /\ DOMAIN f = DOMAIN s.tools \cup {i}
      /\ f[i] = Opened(s.next, <<>>)
      /\ \A j \in DOMAIN s.tools : f[j] = s.tools[j]
      /\ t.queue = Append(s.queue, AddedEvent("tool", s.next))
      /\ t.output = s.output
  BY <1>5, <1>6, OpenToolFields
<1>8. f[i].index = s.next /\ f[i].text = <<>>
  BY <1>7 DEF Opened
<1>9. d \in Clients /\ d.ends = c.ends /\ d.items = Append(c.items, item) /\ item \in Items
  <2>1. ItemAdded(c, Shows(c, AddedEvent(kind, s.next)), Item(kind, TRUE, <<>>))
    BY <1>4, NewShown, Zenon
  <2> QED BY <2>1, <1>2, <1>3, Zenon DEF ItemAdded
<1>10. item.kind = kind /\ item.text = <<>>
  BY <1>2 DEF Item
<1>11. PICK m : m = s.next + 1
  OBVIOUS
<1>12. /\ DOMAIN d.items = DOMAIN c.items \cup {m} /\ m \notin DOMAIN c.items
       /\ d.items[m] = item
       /\ \A k \in DOMAIN c.items : d.items[k] = c.items[k]
  <2>1. c.items \in Seq(Items) /\ m = Len(c.items) + 1
    BY <1>11, ItemFacts DEF Matches
  <2> QED BY <2>1, <1>9, AppendItem
<1>13. IsHeardCall(x, y, i)
  BY <1>5, HeardCallFields, Zenon
<1>14. SameWords(x, y) /\ y.called = x.called \cup {i} /\ y.calls = x.calls /\ y \in Heards
  BY <1>13 DEF IsHeardCall, SameWords
<1>15. TextsCarried(d, y) /\ EndMeant(d.ends, y)
  <2>1. ASSUME NEW other \in Texts PROVE TextIn(d.items, other) = TextIn(c.items, other)
    <3>1. c.items \in Seq(Items)
      BY ItemFacts
    <3> QED BY <3>1, <1>9, <1>10, TextOther
  <2> QED BY <2>1, <1>5, <1>9, <1>14, WordsStay, Zenon
<1>16. PICK old : Placed(old, s, c, x)
  BY Zenon DEF Carries, CallsCarried
<1>17. /\ old \in [x.called -> DOMAIN c.items]
       /\ \A j, k \in x.called : old[j] = old[k] => j = k
       /\ \A k \in DOMAIN c.items : c.items[k].kind = "tool" => \E j \in x.called : old[j] = k
       /\ \A j \in x.called : c.items[old[j]].kind = "tool"
       /\ \A j \in DOMAIN s.tools : old[j] = s.tools[j].index + 1
       /\ \A j \in x.called \ DOMAIN s.tools :
             c.items[old[j]] = Item("tool", FALSE, Input(j, x.calls[j]))
  BY <1>16, Zenon DEF Placed
<1> DEFINE place == [j \in y.called |-> IF j = i THEN m ELSE old[j]]
<1>18. /\ place[i] = m
       /\ \A j \in x.called : place[j] = old[j] /\ old[j] \in DOMAIN c.items
       /\ \A j \in y.called : j = i \/ j \in x.called
       /\ i \in y.called /\ \A j \in x.called : j \in y.called
  BY <1>14, <1>17
<1>19. place \in [y.called -> DOMAIN d.items]
  BY <1>12, <1>18
<1> HIDE DEF place
<1>20. \A j, k \in y.called : place[j] = place[k] => j = k
  BY <1>12, <1>17, <1>18
<1>21. \A k \in DOMAIN d.items : d.items[k].kind = "tool" => \E j \in y.called : place[j] = k
  BY <1>12, <1>17, <1>18
<1>22. \A j \in y.called : d.items[place[j]].kind = "tool"
  BY <1>1, <1>10, <1>12, <1>17, <1>18
<1>23. \A j \in DOMAIN f : place[j] = f[j].index + 1
  BY <1>5, <1>7, <1>8, <1>11, <1>17, <1>18
<1>24. \A j \in y.called \ DOMAIN f : d.items[place[j]] = Item("tool", FALSE, Input(j, y.calls[j]))
  <2>1. TAKE j \in y.called \ DOMAIN f
  <2>2. j \in x.called \ DOMAIN s.tools /\ y.calls[j] = x.calls[j]
    BY <1>7, <1>14, <1>18
  <2>3. place[j] = old[j] /\ old[j] \in DOMAIN c.items
    BY <2>2, <1>18
  <2>4. d.items[place[j]] = c.items[old[j]]
    BY <2>3, <1>12
  <2> QED BY <2>2, <2>4, <1>17
<1>25. Placed(place, t, d, y)
  BY <1>6, <1>19, <1>20, <1>21, <1>22, <1>23, <1>24, Zenon DEF Placed
<1>26. \A j \in DOMAIN f : f[j].text = y.calls[j]
  BY <1>5, <1>7, <1>8, <1>14
<1>27. DOMAIN f \subseteq y.called /\ \A j \in Tools \ y.called : y.calls[j] = <<>>
  BY <1>5, <1>7, <1>14
<1>28. CallsCarried(t, d, y)
  BY <1>6, <1>25, <1>26, <1>27, Zenon DEF CallsCarried
<1> QED
  BY <1>1, <1>3, <1>14, <1>15, <1>28, Zenon DEF Carries

\* The item of a call that is open changes: what the calls and the texts need.
CallChanged(c, d, n) ==
    /\ ChangedAt(c, d, n) /\ d \in Clients /\ d.ends = c.ends
    /\ n \in DOMAIN c.items /\ c.items[n].open
    /\ c.items[n].kind = "tool" /\ d.items[n].kind = "tool"

LEMMA CallChange ==
    ASSUME NEW c \in Clients, NEW d, NEW n, CallChanged(c, d, n)
    PROVE  /\ d \in Clients /\ d.ends = c.ends
           /\ DOMAIN d.items = DOMAIN c.items
           /\ \A k \in DOMAIN c.items : d.items[k].kind = "tool" <=> c.items[k].kind = "tool"
           /\ \A k \in DOMAIN c.items : c.items[k].kind = "tool" /\ ~c.items[k].open => d.items[k] = c.items[k]
           /\ \A kind \in Texts : TextIn(d.items, kind) = TextIn(c.items, kind)
<1>1. /\ d \in Clients /\ d.ends = c.ends /\ ChangedAt(c, d, n) /\ n \in DOMAIN c.items
      /\ c.items[n].open /\ c.items[n].kind = "tool" /\ d.items[n].kind = "tool"
  BY DEF CallChanged
<1>2. /\ DOMAIN d.items = DOMAIN c.items
      /\ \A k \in DOMAIN c.items : k # n => d.items[k] = c.items[k]
  BY <1>1, PlacesStay
<1>3. ASSUME NEW kind \in Texts PROVE TextIn(d.items, kind) = TextIn(c.items, kind)
  <2>1. c.items[n].kind \notin Texts
    BY <1>1 DEF Texts
  <2> QED BY <2>1, <1>1, TextsStay
<1> QED
  BY <1>1, <1>2, <1>3

\* The fragment of a call that is kept: its item, if it changes at all, is open.
CarryPartTo(s, c, x, i, part, t, d) ==
    /\ s \in Translators /\ c \in Clients /\ Carries(s, c, x)
    /\ i \in DOMAIN s.tools /\ part \in Nat
    /\ DOMAIN t.tools = DOMAIN s.tools
    /\ t.tools[i] = Opened(s.tools[i].index, Append(s.tools[i].text, part))
    /\ \A j \in DOMAIN s.tools \ {i} : t.tools[j] = s.tools[j]
    /\ d = c \/ \E n : CallChanged(c, d, n)

LEMMA CarryPart ==
    ASSUME NEW s, NEW c, NEW x, NEW i, NEW part, NEW t, NEW d,
           CarryPartTo(s, c, x, i, part, t, d)
    PROVE  Carries(t, d, HeardPart(x, i, part))
<1>1. /\ s \in Translators /\ c \in Clients /\ Carries(s, c, x)
      /\ i \in DOMAIN s.tools /\ part \in Nat
      /\ DOMAIN t.tools = DOMAIN s.tools
      /\ t.tools[i] = Opened(s.tools[i].index, Append(s.tools[i].text, part))
      /\ \A j \in DOMAIN s.tools \ {i} : t.tools[j] = s.tools[j]
      /\ d = c \/ \E n : CallChanged(c, d, n)
  BY DEF CarryPartTo
<1>2. PICK y : y = HeardPart(x, i, part)
  OBVIOUS
<1>3. /\ x \in Heards /\ TextsCarried(c, x) /\ EndMeant(c.ends, x) /\ CallsCarried(s, c, x)
      /\ DOMAIN s.tools \subseteq x.called
      /\ \A j \in DOMAIN s.tools : s.tools[j].text = x.calls[j]
  BY <1>1, Zenon DEF Carries, CallsCarried
<1>4. i \in Tools /\ DOMAIN s.tools \subseteq Tools
  BY <1>1, SlotTypes
<1>5. IsHeardPart(x, y, i, part)
  BY <1>1, <1>2, <1>3, <1>4, HeardPartFields, Zenon
<1>6. /\ SameWords(x, y) /\ y \in Heards /\ y.called = x.called
      /\ y.calls[i] = Append(x.calls[i], part)
      /\ \A j \in Tools \ {i} : y.calls[j] = x.calls[j]
  BY <1>5 DEF IsHeardPart, SameWords
<1>7. /\ d \in Clients /\ d.ends = c.ends
      /\ DOMAIN d.items = DOMAIN c.items
      /\ \A k \in DOMAIN c.items : d.items[k].kind = "tool" <=> c.items[k].kind = "tool"
      /\ \A k \in DOMAIN c.items : c.items[k].kind = "tool" /\ ~c.items[k].open => d.items[k] = c.items[k]
      /\ \A kind \in Texts : TextIn(d.items, kind) = TextIn(c.items, kind)
  <2>1. CASE d = c
    BY <2>1, <1>1
  <2>2. CASE \E n : CallChanged(c, d, n)
    BY <2>2, <1>1, CallChange, Zenon
  <2> QED BY <2>1, <2>2, <1>1
<1>8. ASSUME NEW j \in DOMAIN t.tools
      PROVE  t.tools[j].index = s.tools[j].index /\ t.tools[j].text = y.calls[j]
  <2>1. CASE j = i
    <3>1. t.tools[j].index = s.tools[i].index /\ t.tools[j].text = Append(s.tools[i].text, part)
      BY <2>1, <1>1 DEF Opened
    <3>2. s.tools[i].text = x.calls[i]
      BY <1>1, <1>3
    <3> QED BY <2>1, <3>1, <3>2, <1>6
  <2>2. CASE j # i
    <3>1. j \in DOMAIN s.tools \ {i} /\ j \in Tools \ {i}
      BY <2>2, <1>1, <1>4
    <3> QED BY <3>1, <1>1, <1>3, <1>6
  <2> QED BY <2>1, <2>2
<1>9. \A j \in Tools \ DOMAIN s.tools : y.calls[j] = x.calls[j]
  BY <1>1, <1>6
<1>10. CallsCarried(t, d, y)
  <2>1. DOMAIN t.tools \subseteq DOMAIN s.tools /\ DOMAIN s.tools \ DOMAIN t.tools = {}
    BY <1>1
  <2> QED BY <2>1, <1>1, <1>3, <1>6, <1>7, <1>8, <1>9, CallsStay
<1>11. TextsCarried(d, y) /\ EndMeant(d.ends, y)
  BY <1>3, <1>6, <1>7, WordsStay, Zenon
<1> QED
  BY <1>2, <1>6, <1>10, <1>11, Zenon DEF Carries

LEMMA CarryKeepPart ==
    ASSUME NEW s \in Translators, NEW c \in Clients, NEW x, NEW i \in DOMAIN s.tools, NEW part \in Nat,
           Matches(s, c), Carries(s, c, x),
           NEW a, a = Append(s.tools[i].text, part),
           NEW t, t = KeepPart(s, i, a)
    PROVE  Carries(t, c, HeardPart(x, i, part))
<1>1. a \in Text
  <2>1. s.tools[i].text \in Text
    BY IndexBound
  <2> QED BY <2>1 DEF Text
<1>2. PICK f : f = t.tools
  OBVIOUS
<1>3. /\ t \in Translators
      /\ SameFlags(s, t) /\ t.next = s.next
      /\ t.message = s.message /\ t.reasoning = s.reasoning
      /\ DOMAIN f = DOMAIN s.tools
      /\ f[i] = Opened(s.tools[i].index, a)
      /\ \A j \in DOMAIN s.tools \ {i} : f[j] = s.tools[j]
      /\ t.queue = s.queue /\ t.output = s.output
  BY <1>1, <1>2, KeepPartFields
<1>4. CarryPartTo(s, c, x, i, part, t, c)
  BY <1>2, <1>3, Zenon DEF CarryPartTo
<1> QED
  BY <1>4, CarryPart, Zenon

LEMMA CarryShowPart ==
    ASSUME NEW s \in Translators, NEW c \in Clients, NEW x, NEW i \in DOMAIN s.tools, NEW part \in Nat,
           Matches(s, c), Carries(s, c, x),
           NEW a, a = Append(s.tools[i].text, part),
           NEW new \in Text,
           NEW t, t = Emit(KeepPart(s, i, a), DeltaEvent("tool", s.tools[i].index, new))
    PROVE  Carries(t, Shows(c, DeltaEvent("tool", s.tools[i].index, new)), HeardPart(x, i, part))
<1>1. PICK kind : kind = "tool"
  OBVIOUS
<1>2. PICK index : index = s.tools[i].index
  OBVIOUS
<1>3. PICK e : e = DeltaEvent(kind, index, new)
  OBVIOUS
<1>4. kind \in Kinds
  BY <1>1 DEF Kinds
<1>5. PICK n : n = index + 1
  OBVIOUS
<1>6. /\ index \in Nat /\ s.tools[i].text \in Text /\ n \in DOMAIN c.items
      /\ c.items[n] = Item(kind, TRUE, Visible(i, s.tools[i].text))
  BY <1>1, <1>2, <1>5, IndexBound
<1>7. c.items[n].open /\ c.items[n].kind = kind
  BY <1>6 DEF Item
<1>8. a \in Text
  BY <1>6 DEF Text
<1>9. e \in Events
  BY <1>3, <1>4, <1>6, EventTypes
<1>10. PICK p : p = KeepPart(s, i, a)
  OBVIOUS
<1>11. PICK f : f = p.tools
  OBVIOUS
<1>12. /\ p \in Translators
       /\ SameFlags(s, p) /\ p.next = s.next
       /\ p.message = s.message /\ p.reasoning = s.reasoning
       /\ DOMAIN f = DOMAIN s.tools
       /\ f[i] = Opened(s.tools[i].index, a)
       /\ \A j \in DOMAIN s.tools \ {i} : f[j] = s.tools[j]
       /\ p.queue = s.queue /\ p.output = s.output
  BY <1>8, <1>10, <1>11, KeepPartFields
<1>13. t = Emit(p, e)
  BY <1>1, <1>2, <1>3, <1>10
<1>14. /\ t \in Translators
       /\ SameFlags(p, t) /\ t.next = p.next /\ t.tools = p.tools
       /\ t.message = p.message /\ t.reasoning = p.reasoning
       /\ t.queue = Append(p.queue, e) /\ t.output = p.output
  BY <1>9, <1>12, <1>13, EmitKeeps, SMTT(30)
<1>15. PICK d : d = Shows(c, e)
  OBVIOUS
<1>16. ItemShown(c, Shows(c, DeltaEvent(kind, index, new)), n, Item(kind, TRUE, c.items[n].text \o new))
  BY <1>4, <1>5, <1>6, <1>7, DeltaShown, Zenon
<1>17. ChangedAt(c, d, n) /\ d.ends = c.ends /\ d.items[n] = Item(kind, TRUE, c.items[n].text \o new)
  BY <1>3, <1>15, <1>16, Zenon DEF ItemShown
<1>18. d.items[n].kind = kind /\ d \in Clients
  BY <1>17 DEF Item, ChangedAt
<1>19. CallChanged(c, d, n)
  BY <1>1, <1>6, <1>7, <1>17, <1>18, Zenon DEF CallChanged
<1>20. CarryPartTo(s, c, x, i, part, t, d)
  BY <1>11, <1>12, <1>14, <1>19, Zenon DEF CarryPartTo
<1>21. Carries(t, d, HeardPart(x, i, part))
  BY <1>20, CarryPart, Zenon
<1> QED
  BY <1>1, <1>2, <1>3, <1>15, <1>21, Zenon

LEMMA CarryCloseTool ==
    ASSUME NEW s \in Translators, NEW c \in Clients, NEW x, NEW i \in DOMAIN s.tools,
           Matches(s, c), Carries(s, c, x),
           NEW t, t = CloseTool(s, i)
    PROVE  Carries(t, Shows(c, DoneEvent("tool", s.tools[i].index, Input(i, s.tools[i].text))), x)
<1>1. PICK kind : kind = "tool"
  OBVIOUS
<1>2. PICK index : index = s.tools[i].index
  OBVIOUS
<1>3. PICK text : text = Input(i, s.tools[i].text)
  OBVIOUS
<1>4. kind \in Kinds
  BY <1>1 DEF Kinds
<1>5. PICK n : n = index + 1
  OBVIOUS
<1>6. /\ index \in Nat /\ i \in Tools /\ s.tools[i].text \in Text /\ n \in DOMAIN c.items
      /\ c.items[n] = Item(kind, TRUE, Visible(i, s.tools[i].text))
  BY <1>1, <1>2, <1>5, IndexBound
<1>7. c.items[n].open /\ c.items[n].kind = kind
  BY <1>6 DEF Item
<1>8. text \in Text
  BY <1>3, <1>6, VisibleType
<1>9. PICK f : f = t.tools
  OBVIOUS
<1>10. /\ t \in Translators
       /\ SameFlags(s, t) /\ t.next = s.next
       /\ t.message = s.message /\ t.reasoning = s.reasoning
       /\ DOMAIN f = DOMAIN s.tools \ {i}
       /\ \A j \in DOMAIN s.tools \ {i} : f[j] = s.tools[j]
       /\ t.queue = Append(s.queue, DoneEvent("tool", s.tools[i].index, Input(i, s.tools[i].text)))
       /\ t.output = Append(s.output, Piece("tool", Input(i, s.tools[i].text)))
  BY <1>9, CloseToolFields
<1>11. PICK d : d = Shows(c, DoneEvent(kind, index, text))
  OBVIOUS
<1>12. ItemShown(c, Shows(c, DoneEvent(kind, index, text)), n, Item(kind, FALSE, text))
  BY <1>4, <1>5, <1>6, <1>7, <1>8, DoneShown, Zenon
<1>13. ChangedAt(c, d, n) /\ d.ends = c.ends /\ d.items[n] = Item(kind, FALSE, text)
  BY <1>11, <1>12, Zenon DEF ItemShown
<1>14. d.items[n].kind = kind /\ d \in Clients
  BY <1>13 DEF Item, ChangedAt
<1>15. CallChanged(c, d, n)
  BY <1>1, <1>6, <1>7, <1>13, <1>14, Zenon DEF CallChanged
<1>16. /\ DOMAIN d.items = DOMAIN c.items
       /\ \A k \in DOMAIN c.items : d.items[k].kind = "tool" <=> c.items[k].kind = "tool"
       /\ \A k \in DOMAIN c.items : c.items[k].kind = "tool" /\ ~c.items[k].open => d.items[k] = c.items[k]
       /\ \A other \in Texts : TextIn(d.items, other) = TextIn(c.items, other)
  BY <1>15, CallChange, Zenon
<1>17. /\ x \in Heards /\ TextsCarried(c, x) /\ EndMeant(c.ends, x) /\ CallsCarried(s, c, x)
       /\ DOMAIN s.tools \subseteq x.called
       /\ \A j \in DOMAIN s.tools : s.tools[j].text = x.calls[j]
  BY Zenon DEF Carries, CallsCarried
<1>18. CallsCarried(t, d, x)
  <2>1. DOMAIN t.tools \subseteq DOMAIN s.tools
    BY <1>9, <1>10
  <2>2. \A j \in DOMAIN t.tools : t.tools[j].index = s.tools[j].index /\ t.tools[j].text = x.calls[j]
    BY <1>9, <1>10, <1>17
  <2>3. ASSUME NEW j \in DOMAIN s.tools \ DOMAIN t.tools
        PROVE  d.items[s.tools[j].index + 1] = Item("tool", FALSE, Input(j, x.calls[j]))
    <3>1. j = i
      BY <1>9, <1>10
    <3>2. s.tools[i].text = x.calls[i]
      BY <1>17
    <3> QED BY <3>1, <3>2, <1>1, <1>2, <1>3, <1>5, <1>13
  <2> QED BY <2>1, <2>2, <2>3, <1>14, <1>16, <1>17, CallsStay
<1>19. TextsCarried(d, x) /\ EndMeant(d.ends, x)
  <2>1. SameWords(x, x)
    BY <1>17 DEF SameWords
  <2> QED BY <2>1, <1>13, <1>16, <1>17, WordsStay, Zenon
<1> QED
  BY <1>1, <1>2, <1>3, <1>11, <1>17, <1>18, <1>19, Zenon DEF Carries

\* The items and the calls stay as they are.
LEMMA CarrySame ==
    ASSUME NEW s, NEW c, NEW x, NEW t, NEW d, NEW y, Carries(s, c, x),
           t.tools = s.tools, d.items = c.items, SameCalls(x, y), y.texts = x.texts, EndMeant(d.ends, y)
    PROVE  Carries(t, d, y)
<1>1. PICK place : Placed(place, s, c, x)
  BY Zenon DEF Carries, CallsCarried
<1>2. Placed(place, t, d, y)
  BY <1>1, Zenon DEF Placed, SameCalls
<1>3. CallsCarried(t, d, y)
  <2>1. /\ DOMAIN t.tools \subseteq y.called
        /\ \A i \in DOMAIN t.tools : t.tools[i].text = y.calls[i]
        /\ \A i \in Tools \ y.called : y.calls[i] = <<>>
    BY Zenon DEF Carries, CallsCarried, SameCalls
  <2> QED BY <1>2, <2>1, Zenon DEF CallsCarried
<1>4. TextsCarried(d, y) /\ y \in Heards
  BY Zenon DEF Carries, TextsCarried, SameCalls
<1> QED
  BY <1>3, <1>4, Zenon DEF Carries

\* What is carried does not depend on the translator's queue.
LEMMA CarryAlso ==
    ASSUME NEW s, NEW c, NEW x, NEW t, Carries(s, c, x), t.tools = s.tools
    PROVE  Carries(t, c, x)
<1>1. SameCalls(x, x) /\ EndMeant(c.ends, x)
  BY Zenon DEF SameCalls, Carries
<1>2. c.items = c.items /\ x.texts = x.texts
  OBVIOUS
<1> QED
  BY <1>1, <1>2, CarrySame, Zenon

\* The response ends as it was meant to.
LEMMA CarryTerminal ==
    ASSUME NEW s \in Translators, NEW c \in Clients, NEW x, Carries(s, c, x), c.ends = <<>>,
           NEW type \in Terminals,
           type # "failed" => x.meant /\ (type = "incomplete" <=> x.reason = "length"),
           NEW t, t = Terminal(s, type)
    PROVE  Carries(t, Shows(c, EndEvent(s, type)), x)
<1>1. PICK d : d = Shows(c, EndEvent(s, type))
  OBVIOUS
<1>2. d.items = c.items /\ d.ends = Append(c.ends, type)
  <2>1. PICK e : e = EndEvent(s, type)
    OBVIOUS
  <2>2. e \in Ending /\ e.type = type
    BY <2>1, SlotTypes DEF EndEvent, Ending, Translators
  <2>3. Shows(c, e).items = c.items /\ Shows(c, e).ends = Append(c.ends, e.type)
    BY <2>2, EndingShown
  <2> QED BY <1>1, <2>1, <2>2, <2>3, Zenon
<1>3. Head(d.ends) = type
  BY <1>2
<1>4. EndMeant(d.ends, x)
  BY <1>3, Zenon DEF EndMeant
<1>6. t.tools = s.tools
  BY TerminalFields DEF Ended
<1>7. SameCalls(x, x)
  BY DEF SameCalls, Carries
<1> QED
  BY <1>1, <1>2, <1>4, <1>6, <1>7, CarrySame, Zenon

(* The steps of the translator keep it in step with its client, which has     *)
(* been shown what the translator was told.                                   *)

-------------------------------------------------------------------------------
(* The steps of the translator keep it in step with its client, which has     *)
(* been shown what the translator was told.                                   *)

LEMMA TellsPick ==
    ASSUME NEW c, NEW s, NEW h, Tells(c, s, h)
    PROVE  /\ s \in Translators /\ h \in Heards
           /\ \E d \in Clients : Reaches(c, s.queue, d) /\ Matches(s, d) /\ Carries(s, d, h)
<1>1. s \in Translators
  BY DEF Tells
<1>2. PICK d : Reaches(c, s.queue, d) /\ Matches(s, d) /\ Carries(s, d, h)
  BY DEF Tells
<1>3. d \in Clients
  BY <1>1, <1>2, RunEnds, SlotTypes
<1> QED
  BY <1>1, <1>2, <1>3 DEF Carries

LEMMA TellsMore ==
    ASSUME NEW c, NEW s \in Translators, NEW d \in Clients, NEW t \in Translators, NEW e, NEW h,
           Reaches(c, s.queue, d), InStep(s, d, t, e), Carries(t, Shows(d, e), h)
    PROVE  Tells(c, t, h)
<1>1. Reaches(c, Append(s.queue, e), Shows(d, e))
  BY RunEmit, SlotTypes DEF InStep
<1> QED
  BY <1>1 DEF InStep, Tells

\* What is known of a translator in step.
LEMMA TellsPhase ==
    ASSUME NEW c, NEW s, NEW h, Tells(c, s, h)
    PROVE  InPhase(s) /\ s \in Translators
  BY DEF Tells, Matches

\* What a step leaves of the other slots.
LEMMA TellsCloseItem ==
    ASSUME NEW c, NEW s, NEW h, Tells(c, s, h), NEW kind \in Texts,
           NEW t, t = CloseItem(s, kind)
    PROVE  /\ Tells(c, t, h) /\ SameFlags(s, t) /\ t.tools = s.tools
           /\ ~t[kind].open /\ \A other \in Texts : ~s[other].open => ~t[other].open
<1>1. PICK d \in Clients : s \in Translators /\ h \in Heards /\ Reaches(c, s.queue, d) /\ Matches(s, d) /\ Carries(s, d, h)
  BY TellsPick
<1>2. CASE s[kind].open
  <2>1. t \in Translators /\ InStep(s, d, t, DoneEvent(kind, s[kind].index, s[kind].text))
    BY <1>1, <1>2, MatchCloseItem
  <2>5. Carries(t, Shows(d, DoneEvent(kind, s[kind].index, s[kind].text)), h)
    BY <1>1, <1>2, CarryCloseItem
  <2>2. Tells(c, t, h)
    BY <1>1, <2>1, <2>5, TellsMore
  <2>3. /\ SameFlags(s, t) /\ t.tools = s.tools
        /\ t[kind] = Closed
        /\ \A other \in Texts \ {kind} : t[other] = s[other]
    BY <1>1, <1>2, CloseItemFields
  <2>4. ~t[kind].open
    BY <2>3, SlotValues
  <2> QED BY <2>2, <2>3, <2>4
<1>3. CASE ~s[kind].open
  <2>1. t = s
    BY <1>3 DEF CloseItem
  <2> QED BY <1>3, <2>1 DEF SameFlags
<1> QED
  BY <1>2, <1>3

LEMMA TellsAppendTo ==
    ASSUME NEW c, NEW s, NEW h, Tells(c, s, h), NEW kind \in Texts, NEW part \in Nat,
           \A other \in Texts \ {kind} : ~s[other].open, s.started, ~s.finished,
           NEW t, t = AppendTo(s, kind, part)
    PROVE  Tells(c, t, HeardText(h, kind, part)) /\ SameFlags(s, t) /\ t.tools = s.tools
<1>1. PICK d \in Clients : s \in Translators /\ h \in Heards /\ Reaches(c, s.queue, d) /\ Matches(s, d) /\ Carries(s, d, h)
  BY TellsPick
<1>2. PICK o : o = IF s[kind].open THEN s ELSE OpenText(s, kind)
  OBVIOUS
<1>3. t = TellText(o, kind, part)
  BY <1>2, AppendToHalves
<1>4. Tells(c, o, h) /\ SameFlags(s, o) /\ o[kind].open /\ o.tools = s.tools
  <2>1. CASE s[kind].open
    BY <1>2, <2>1 DEF SameFlags
  <2>2. CASE ~s[kind].open
    <3>1. o = OpenText(s, kind)
      BY <1>2, <2>2
    <3>2. ~s.message.open /\ ~s.reasoning.open
      BY <2>2, Zenon DEF Texts
    <3>3. o \in Translators /\ InStep(s, d, o, AddedEvent(kind, s.next))
      BY <1>1, <3>1, <3>2, MatchOpenText
    <3>7. Carries(o, Shows(d, AddedEvent(kind, s.next)), h)
      BY <1>1, <3>1, CarryOpenText
    <3>4. Tells(c, o, h)
      BY <1>1, <3>3, <3>7, TellsMore
    <3>5. SameFlags(s, o) /\ o[kind] = Opened(s.next, <<>>) /\ o.tools = s.tools
      BY <1>1, <3>1, OpenTextFields
    <3>6. o[kind].open
      BY <3>5 DEF Opened
    <3> QED BY <3>4, <3>5, <3>6
  <2> QED BY <2>1, <2>2
<1>5. PICK f \in Clients : o \in Translators /\ Reaches(c, o.queue, f) /\ Matches(o, f) /\ Carries(o, f, h)
  BY <1>4, TellsPick
<1>6. t \in Translators /\ InStep(o, f, t, DeltaEvent(kind, o[kind].index, <<part>>))
  BY <1>3, <1>4, <1>5, MatchTellText
<1>9. Carries(t, Shows(f, DeltaEvent(kind, o[kind].index, <<part>>)), HeardText(h, kind, part))
  BY <1>3, <1>4, <1>5, CarryTellText, Zenon
<1>7. Tells(c, t, HeardText(h, kind, part))
  BY <1>5, <1>6, <1>9, TellsMore
<1>10. t.tools = o.tools
  BY <1>3, <1>5, TellTextTools, ZenonT(30)
<1>8. SameFlags(o, t)
  BY <1>3, <1>5, TellTextFields
<1> QED
  BY <1>4, <1>7, <1>8, <1>10 DEF SameFlags

LEMMA TellsReasoning ==
    ASSUME NEW c, NEW s, NEW h, Tells(c, s, h), NEW part \in Nat, s.started, ~s.finished,
           NEW t, t = HandleReasoningDelta(s, part)
    PROVE  Tells(c, t, HeardText(h, "reasoning", part)) /\ SameFlags(s, t) /\ t.tools = s.tools
<1>1. PICK o : o = CloseItem(s, "message")
  OBVIOUS
<1>2. PICK kind : kind = "message"
  OBVIOUS
<1>3. PICK other : other = "reasoning"
  OBVIOUS
<1>4. kind \in Texts /\ other \in Texts /\ Texts = {kind, other}
  BY <1>2, <1>3 DEF Texts
<1>5. Tells(c, o, h) /\ SameFlags(s, o) /\ ~o[kind].open /\ o.tools = s.tools
  BY <1>1, <1>2, <1>4, TellsCloseItem
<1>6. t = AppendTo(o, other, part)
  BY <1>1, <1>3 DEF HandleReasoningDelta
<1>7. o.started /\ ~o.finished /\ \A x \in Texts \ {other} : ~o[x].open
  BY <1>4, <1>5 DEF SameFlags
<1>8. Tells(c, t, HeardText(h, other, part)) /\ SameFlags(o, t) /\ t.tools = o.tools
  BY <1>4, <1>5, <1>6, <1>7, TellsAppendTo
<1> QED
  BY <1>3, <1>5, <1>8, Zenon DEF SameFlags

LEMMA TellsContent ==
    ASSUME NEW c, NEW s, NEW h, Tells(c, s, h), NEW part \in Nat, s.started, ~s.finished,
           NEW t, t = HandleContentDelta(s, part)
    PROVE  Tells(c, t, HeardText(h, "message", part)) /\ SameFlags(s, t) /\ t.tools = s.tools
<1>1. PICK o : o = CloseItem(s, "reasoning")
  OBVIOUS
<1>2. PICK kind : kind = "reasoning"
  OBVIOUS
<1>3. PICK other : other = "message"
  OBVIOUS
<1>4. kind \in Texts /\ other \in Texts /\ Texts = {kind, other}
  BY <1>2, <1>3 DEF Texts
<1>5. Tells(c, o, h) /\ SameFlags(s, o) /\ ~o[kind].open /\ o.tools = s.tools
  BY <1>1, <1>2, <1>4, TellsCloseItem
<1>6. t = AppendTo(o, other, part)
  BY <1>1, <1>3 DEF HandleContentDelta
<1>7. o.started /\ ~o.finished /\ \A x \in Texts \ {other} : ~o[x].open
  BY <1>4, <1>5 DEF SameFlags
<1>8. Tells(c, t, HeardText(h, other, part)) /\ SameFlags(o, t) /\ t.tools = o.tools
  BY <1>4, <1>5, <1>6, <1>7, TellsAppendTo
<1> QED
  BY <1>3, <1>5, <1>8, Zenon DEF SameFlags

\* Both texts are closed.
CloseTexts(s, first, second) == CloseItem(CloseItem(s, first), second)

\* The step of TellsCloseItem, as one fact.
ItemClosed(c, h, s, t, kind) ==
    /\ Tells(c, t, h) /\ SameFlags(s, t) /\ t.tools = s.tools
    /\ ~t[kind].open /\ \A other \in Texts : ~s[other].open => ~t[other].open

LEMMA ClosesItem ==
    ASSUME NEW c, NEW s, NEW h, Tells(c, s, h), NEW kind \in Texts
    PROVE  ItemClosed(c, h, s, CloseItem(s, kind), kind)
<1>1. PICK t : t = CloseItem(s, kind)
  OBVIOUS
<1>2. /\ Tells(c, t, h) /\ SameFlags(s, t) /\ t.tools = s.tools
      /\ ~t[kind].open /\ \A other \in Texts : ~s[other].open => ~t[other].open
  BY <1>1, TellsCloseItem
<1>3. ItemClosed(c, h, s, t, kind)
  BY <1>2, Zenon DEF ItemClosed
<1> QED
  BY <1>1, <1>3, Zenon

LEMMA TellsCloseTexts ==
    ASSUME NEW c, NEW s, NEW h, Tells(c, s, h), NEW first \in Texts, NEW second \in Texts, first # second,
           NEW t, t = CloseTexts(s, first, second)
    PROVE  /\ Tells(c, t, h) /\ SameFlags(s, t) /\ t.tools = s.tools
           /\ ~t.message.open /\ ~t.reasoning.open
<1>1. PICK o : o = CloseItem(s, first)
  OBVIOUS
<1>2. Tells(c, o, h) /\ SameFlags(s, o) /\ o.tools = s.tools /\ ~o[first].open
  BY <1>1, ClosesItem DEF ItemClosed
<1>3. t = CloseItem(o, second)
  BY <1>1 DEF CloseTexts
<1>4. /\ Tells(c, t, h) /\ SameFlags(o, t) /\ t.tools = o.tools
      /\ ~t[second].open /\ \A other \in Texts : ~o[other].open => ~t[other].open
  <2>1. ItemClosed(c, h, o, CloseItem(o, second), second)
    BY <1>2, ClosesItem, Zenon
  <2>2. ItemClosed(c, h, o, t, second)
    BY <2>1, <1>3, Zenon
  <2> QED BY <2>2, Zenon DEF ItemClosed
<1>5. \A other \in Texts : ~t[other].open
  BY <1>2, <1>4 DEF Texts
<1>6. ~t.message.open /\ ~t.reasoning.open
  BY <1>5, Zenon DEF Texts
<1> QED
  BY <1>2, <1>4, <1>6 DEF SameFlags

\* A call that was heard of before.
LEMMA HeardAgain ==
    ASSUME NEW h \in Heards, NEW i \in h.called
    PROVE  HeardCall(h, i) = h
<1>1. h.called \cup {i} = h.called
  OBVIOUS
<1>2. HeardCall(h, i) = [h EXCEPT !.called = h.called]
  BY <1>1, Zenon DEF HeardCall
<1> QED
  BY <1>2 DEF Heards

LEMMA TellsStartTool ==
    ASSUME NEW c, NEW s, NEW h, Tells(c, s, h), NEW i \in Tools, s.started, ~s.finished,
           h.called = DOMAIN s.tools,
           NEW t, t = StartTool(s, i)
    PROVE  /\ Tells(c, t, HeardCall(h, i)) /\ SameFlags(s, t)
           /\ DOMAIN t.tools = DOMAIN s.tools \cup {i}
<1>1. CASE i \in DOMAIN s.tools
  <2>1. t = s
    BY <1>1 DEF StartTool
  <2>2. HeardCall(h, i) = h
    <3>1. h \in Heards /\ i \in h.called
      BY <1>1, TellsPick
    <3> QED BY <3>1, HeardAgain, Zenon
  <2> QED BY <1>1, <2>1, <2>2 DEF SameFlags
<1>2. CASE i \notin DOMAIN s.tools
  <2>1. PICK first : first = "message"
    OBVIOUS
  <2>2. PICK second : second = "reasoning"
    OBVIOUS
  <2>3. PICK o : o = CloseTexts(s, first, second)
    OBVIOUS
  <2>4. first \in Texts /\ second \in Texts /\ first # second
    BY <2>1, <2>2 DEF Texts
  <2>5. /\ Tells(c, o, h) /\ SameFlags(s, o) /\ o.tools = s.tools
        /\ ~o.message.open /\ ~o.reasoning.open
    BY <2>3, <2>4, TellsCloseTexts
  <2>6. t = OpenTool(o, i)
    BY <1>2, <2>1, <2>2, <2>3, Zenon DEF StartTool, OpenTool, CloseTexts
  <2>7. PICK d \in Clients : o \in Translators /\ Reaches(c, o.queue, d) /\ Matches(o, d) /\ Carries(o, d, h)
    BY <2>5, TellsPick
  <2>8. i \notin DOMAIN o.tools /\ o.started /\ ~o.finished
    BY <1>2, <2>5 DEF SameFlags
  <2>9. t \in Translators /\ InStep(o, d, t, AddedEvent("tool", o.next))
    BY <2>5, <2>6, <2>7, <2>8, MatchOpenTool
  <2>12. Carries(t, Shows(d, AddedEvent("tool", o.next)), HeardCall(h, i))
    <3>1. i \notin h.called
      BY <1>2
    <3> QED BY <3>1, <2>6, <2>7, CarryOpenTool, Zenon
  <2>10. Tells(c, t, HeardCall(h, i))
    BY <2>7, <2>9, <2>12, TellsMore
  <2>11. SameFlags(o, t) /\ DOMAIN t.tools = DOMAIN o.tools \cup {i}
    BY <2>6, <2>7, <2>8, OpenToolFields
  <2> QED BY <2>5, <2>10, <2>11 DEF SameFlags
<1> QED
  BY <1>1, <1>2

LEMMA TellsPart ==
    ASSUME NEW c, NEW s, NEW g, Tells(c, s, g), NEW i \in Tools, NEW part \in Nat, s.started, ~s.finished,
           g.called = DOMAIN s.tools,
           NEW t, t = HandleToolCallDelta(s, i, part)
    PROVE  /\ Tells(c, t, HeardPart(HeardCall(g, i), i, part)) /\ SameFlags(s, t)
           /\ DOMAIN t.tools = DOMAIN s.tools \cup {i}
<1>1. PICK o : o = StartTool(s, i)
  OBVIOUS
<1>14. PICK h : h = HeardCall(g, i)
  OBVIOUS
<1>2. Tells(c, o, h) /\ SameFlags(s, o) /\ i \in DOMAIN o.tools /\ DOMAIN o.tools = DOMAIN s.tools \cup {i}
  <2>1. Tells(c, o, HeardCall(g, i)) /\ SameFlags(s, o) /\ DOMAIN o.tools = DOMAIN s.tools \cup {i}
    BY <1>1, TellsStartTool
  <2> QED BY <2>1, <1>14
<1>3. PICK d \in Clients : o \in Translators /\ Reaches(c, o.queue, d) /\ Matches(o, d) /\ Carries(o, d, h)
  BY <1>2, TellsPick
<1>4. PICK old : old = o.tools[i].text
  OBVIOUS
<1>5. PICK a : a = Append(old, part)
  OBVIOUS
<1>6. PICK new : new = SubSeq(Visible(i, a), Len(Visible(i, old)) + 1, Len(Visible(i, a)))
  OBVIOUS
<1>7. PICK kept : kept = KeepPart(o, i, a)
  OBVIOUS
<1>8. t = IF new = <<>> THEN kept ELSE Delta(kept, "tool", o.tools[i].index, new)
  BY <1>1, <1>4, <1>5, <1>6, <1>7, Zenon DEF HandleToolCallDelta, KeepPart
<1>9. old \in Text
  BY <1>2, <1>3, <1>4, IndexBound
<1>10. a \in Text /\ new \in Text /\ Visible(i, a) = Visible(i, old) \o new
  <2>1. Grows(i, old, a, new)
    BY <1>5, <1>6, <1>9, VisibleGrows
  <2> QED BY <2>1 DEF Grows
<1>15. /\ kept \in Translators
       /\ SameFlags(o, kept) /\ kept.next = o.next
       /\ kept.message = o.message /\ kept.reasoning = o.reasoning
       /\ DOMAIN kept.tools = DOMAIN o.tools
       /\ kept.tools[i] = Opened(o.tools[i].index, a)
       /\ \A j \in DOMAIN o.tools \ {i} : kept.tools[j] = o.tools[j]
       /\ kept.queue = o.queue /\ kept.output = o.output
  BY <1>2, <1>3, <1>7, <1>10, KeepPartFields
<1>11. SameFlags(o, kept) /\ DOMAIN kept.tools = DOMAIN o.tools
  BY <1>15
<1>12. CASE new = <<>>
  <2>1. Visible(i, a) = Visible(i, old)
    BY <1>9, <1>10, <1>12, VisibleType DEF Text
  <2>2. t = kept
    BY <1>8, <1>12
  <2>3. t \in Translators /\ t.queue = o.queue /\ Matches(t, d)
    BY <2>1, <2>2, <1>2, <1>3, <1>4, <1>7, <1>10, MatchKeepPart
  <2>5. Carries(t, d, HeardPart(h, i, part))
    BY <2>2, <1>2, <1>3, <1>4, <1>5, <1>7, CarryKeepPart, Zenon
  <2>4. Tells(c, t, HeardPart(h, i, part))
    BY <2>3, <2>5, <1>3 DEF Tells
  <2> QED BY <2>2, <2>4, <1>2, <1>11, <1>14 DEF SameFlags
<1>13. CASE new # <<>>
  <2>1. PICK e : e = DeltaEvent("tool", o.tools[i].index, new)
    OBVIOUS
  <2>2. t = Emit(kept, e)
    BY <2>1, <1>8, <1>13, Zenon DEF Delta, DeltaEvent
  <2>3. t \in Translators /\ InStep(o, d, t, e)
    BY <2>1, <2>2, <1>2, <1>3, <1>4, <1>7, <1>10, MatchShowPart
  <2>7. Carries(t, Shows(d, e), HeardPart(h, i, part))
    BY <2>1, <2>2, <1>2, <1>3, <1>4, <1>5, <1>7, <1>10, CarryShowPart, Zenon
  <2>4. Tells(c, t, HeardPart(h, i, part))
    BY <2>3, <2>7, <1>3, TellsMore
  <2>5. kept \in Translators
    BY <1>2, <1>3, <1>7, <1>10, KeepPartFields
  <2>6. SameFlags(kept, t) /\ t.tools = kept.tools
    BY <2>2, <2>3, <2>5, EmitKeeps DEF InStep
  <2> QED BY <2>4, <2>6, <1>2, <1>11, <1>14 DEF SameFlags
<1> QED
  BY <1>12, <1>13

\* Each element of a set has its place among them.
LEMMA AscendingAll ==
    ASSUME NEW S, S \subseteq Nat, IsFiniteSet(S)
    PROVE  \A i \in S : \E k \in 1 .. Len(Ascending(S)) : Ascending(S)[k] = i
<1>1. PICK q : q = Ascending(S)
  OBVIOUS
<1>2. PICK n : n = Cardinality(S)
  OBVIOUS
<1>3. n \in Nat /\ Len(q) = n /\ q \in [1 .. n -> S] /\ \A j, k \in 1 .. n : j # k => q[j] # q[k]
  <2>1. /\ IsAscending(q, S) /\ Len(q) = n /\ n \in Nat
        /\ \A k \in 1 .. Len(q) : q[k] \in S
        /\ \A j, k \in 1 .. Len(q) : j # k => q[j] # q[k]
    BY <1>1, <1>2, AscendingIs
  <2>2. q \in [1 .. n -> S]
    BY <2>1, <1>2 DEF IsAscending
  <2> QED BY <2>1, <2>2
<1>4. q \in Injection(1 .. n, S)
  BY <1>3 DEF Injection, IsInjective
<1>5. Cardinality(1 .. n) = n
  <2>1. 1 \in Int /\ n \in Int
    BY <1>3
  <2>2. Cardinality(1 .. n) = IF 1 > n THEN 0 ELSE n - 1 + 1
    BY <2>1, FS_Interval
  <2> QED BY <2>2, <1>3
<1>6. q \in Surjection(1 .. n, S)
  BY <1>2, <1>4, <1>5, FS_Injection
<1>7. \A i \in S : \E k \in 1 .. n : q[k] = i
  BY <1>6 DEF Surjection
<1> QED
  BY <1>1, <1>3, <1>7

\* What has been heard after some of the parts of a chunk.
HeardParts(h, parts, S) ==
    [h EXCEPT !.called = h.called \cup S,
              !.calls = [i \in Tools |-> IF i \in S THEN Append(h.calls[i], parts[i]) ELSE h.calls[i]]]

LEMMA HeardSame ==
    ASSUME NEW x \in Heards, NEW y \in Heards, SameWords(x, y), SameCalls(x, y)
    PROVE  x = y
  BY DEF Heards, SameWords, SameCalls

IsHeardParts(h, y, parts, S) ==
    /\ SameWords(h, y) /\ y \in Heards /\ y.called = h.called \cup S
    /\ \A i \in S : y.calls[i] = Append(h.calls[i], parts[i])
    /\ \A i \in Tools \ S : y.calls[i] = h.calls[i]

LEMMA HeardPartsFields ==
    ASSUME NEW h \in Heards, NEW parts, NEW S, S \subseteq Tools, \A i \in S : parts[i] \in Nat
    PROVE  IsHeardParts(h, HeardParts(h, parts, S), parts, S)
<1>1. PICK y : y = HeardParts(h, parts, S)
  OBVIOUS
<1>2. PICK f : f = [i \in Tools |-> IF i \in S THEN Append(h.calls[i], parts[i]) ELSE h.calls[i]]
  OBVIOUS
<1>3. PICK C : C = h.called \cup S
  OBVIOUS
<1>4. C \in SUBSET Tools /\ \A i \in Tools : h.calls[i] \in Text
  BY <1>3, HeardTypes
<1>5. \A i \in S : Append(h.calls[i], parts[i]) \in Text
  BY <1>4 DEF Text
<1>6. f \in [Tools -> Text]
  BY <1>2, <1>4, <1>5
<1>7. y = [h EXCEPT !.called = C, !.calls = f]
  BY <1>1, <1>2, <1>3, Zenon DEF HeardParts
<1>8. /\ y \in Heards /\ y.called = C /\ y.calls = f
      /\ y.texts = h.texts /\ y.meant = h.meant /\ y.reason = h.reason
  BY <1>4, <1>6, <1>7 DEF Heards
<1>9. /\ \A i \in S : y.calls[i] = Append(h.calls[i], parts[i])
      /\ \A i \in Tools \ S : y.calls[i] = h.calls[i]
  BY <1>2, <1>8
<1>10. IsHeardParts(h, y, parts, S)
  BY <1>3, <1>8, <1>9, Zenon DEF IsHeardParts, SameWords
<1> QED
  BY <1>1, <1>10, Zenon

\* Two words of which the calls are the same function are the same.
LEMMA HeardEqual ==
    ASSUME NEW x \in Heards, NEW y \in Heards, SameWords(x, y), y.called = x.called,
           \A i \in Tools : y.calls[i] = x.calls[i]
    PROVE  x = y
<1>1. x.calls \in [Tools -> Text] /\ y.calls \in [Tools -> Text]
  BY HeardTypes
<1>2. y.calls = x.calls
  BY <1>1
<1> QED
  BY <1>2, HeardSame DEF SameCalls

LEMMA HeardPartsNone ==
    ASSUME NEW h \in Heards, NEW parts
    PROVE  HeardParts(h, parts, {}) = h
<1>1. PICK y : y = HeardParts(h, parts, {})
  OBVIOUS
<1>2. IsHeardParts(h, y, parts, {})
  BY <1>1, HeardPartsFields
<1>3. y = h
  BY <1>2, HeardEqual DEF IsHeardParts
<1> QED
  BY <1>1, <1>3

LEMMA HeardPartsNext ==
    ASSUME NEW h \in Heards, NEW parts, NEW S, S \subseteq Tools, \A i \in S : parts[i] \in Nat,
           NEW i \in Tools \ S, parts[i] \in Nat
    PROVE  HeardPart(HeardCall(HeardParts(h, parts, S), i), i, parts[i]) = HeardParts(h, parts, S \cup {i})
<1>1. PICK a : a = HeardParts(h, parts, S)
  OBVIOUS
<1>2. PICK b : b = HeardCall(a, i)
  OBVIOUS
<1>3. PICK c : c = HeardPart(b, i, parts[i])
  OBVIOUS
<1>4. PICK R : R = S \cup {i}
  OBVIOUS
<1>5. PICK d : d = HeardParts(h, parts, R)
  OBVIOUS
<1>6. IsHeardParts(h, a, parts, S)
  BY <1>1, HeardPartsFields
<1>7. IsHeardCall(a, b, i)
  BY <1>2, <1>6, HeardCallFields DEF IsHeardParts
<1>8. IsHeardPart(b, c, i, parts[i])
  BY <1>3, <1>7, HeardPartFields, Zenon DEF IsHeardCall, SameWords
<1>9. IsHeardParts(h, d, parts, R)
  BY <1>4, <1>5, HeardPartsFields
<1>10. SameWords(c, d) /\ c \in Heards /\ d \in Heards
  BY <1>6, <1>7, <1>8, <1>9, Zenon DEF IsHeardParts, IsHeardPart, IsHeardCall, SameWords
<1>11. d.called = c.called
  BY <1>4, <1>6, <1>7, <1>8, <1>9 DEF IsHeardParts, IsHeardPart, IsHeardCall
<1>12. ASSUME NEW j \in Tools PROVE d.calls[j] = c.calls[j]
  <2>1. b.calls = a.calls
    BY <1>7 DEF IsHeardCall
  <2>2. CASE j = i
    <3>1. c.calls[i] = Append(a.calls[i], parts[i])
      BY <2>1, <1>8 DEF IsHeardPart
    <3>2. a.calls[i] = h.calls[i]
      BY <1>6 DEF IsHeardParts
    <3>3. d.calls[i] = Append(h.calls[i], parts[i])
      BY <1>4, <1>9 DEF IsHeardParts
    <3> QED BY <2>2, <3>1, <3>2, <3>3
  <2>3. CASE j # i
    <3>1. c.calls[j] = a.calls[j]
      BY <2>1, <2>3, <1>8 DEF IsHeardPart
    <3>2. j \in S => a.calls[j] = Append(h.calls[j], parts[j]) /\ d.calls[j] = Append(h.calls[j], parts[j])
      BY <1>4, <1>6, <1>9 DEF IsHeardParts
    <3>3. j \notin S => a.calls[j] = h.calls[j] /\ d.calls[j] = h.calls[j]
      BY <2>3, <1>4, <1>6, <1>9 DEF IsHeardParts
    <3> QED BY <3>1, <3>2, <3>3
  <2> QED BY <2>2, <2>3
<1>13. c = d
  BY <1>10, <1>11, <1>12, HeardEqual
<1> QED
  BY <1>1, <1>2, <1>3, <1>4, <1>5, <1>13

\* The parts of a chunk, one after the other.
Handling(s, parts, q, f) ==
    f = [k \in 0 .. Len(q) |-> IF k = 0 THEN s ELSE HandleToolCallDelta(f[k - 1], q[k], parts[q[k]])]

LEMMA HandlingExists ==
    ASSUME NEW s, NEW parts, NEW q, Len(q) \in Nat
    PROVE  \E f : Handling(s, parts, q, f)
<1> DEFINE On(n, f) == f = [k \in 0 .. n |-> IF k = 0 THEN s ELSE HandleToolCallDelta(f[k - 1], q[k], parts[q[k]])]
           Bad == {n \in Nat : ~\E f : On(n, f)}
<1>1. Bad = {}
  <2>1. SUFFICES ASSUME Bad # {} PROVE FALSE
    OBVIOUS
  <2>2. PICK n \in Bad : \A m \in Bad : ~(m < n)
    <3>1. Bad \subseteq Nat /\ Bad # {}
      BY <2>1
    <3> HIDE DEF Bad
    <3> QED BY <3>1, Least
  <2>3. CASE n = 0
    <3>1. On(0, [k \in 0 .. 0 |-> s])
      <4>1. \A k \in 0 .. 0 : k = 0
        OBVIOUS
      <4> QED BY <4>1, Zenon
    <3> QED BY <2>3, <3>1
  <2>4. CASE n # 0
    <3>1. n - 1 \in Nat /\ n - 1 < n /\ n \in Nat
      BY <2>2, <2>4
    <3>2. PICK f : On(n - 1, f)
      BY <2>2, <3>1
    <3> DEFINE g == [k \in 0 .. n |-> IF k < n THEN f[k] ELSE HandleToolCallDelta(f[n - 1], q[n], parts[q[n]])]
    <3>3. On(n, g)
      BY <3>1, <3>2
    <3> QED BY <2>2, <3>3
  <2> QED BY <2>3, <2>4
<1>2. \E f : On(Len(q), f)
  BY <1>1
<1> QED
  BY <1>2 DEF Handling

LEMMA HandlesInTurn ==
    ASSUME NEW s, NEW parts, NEW q, q = Ascending(DOMAIN parts), Len(q) \in Nat
    PROVE  \E f : Handling(s, parts, q, f) /\ HandleToolCallDeltas(s, parts) = f[Len(q)]
<1>1. PICK g : g = CHOOSE f : Handling(s, parts, q, f)
  OBVIOUS
<1>2. Handling(s, parts, q, g)
  BY <1>1, HandlingExists
<1>3. g = CHOOSE f : f = [k \in 0 .. Len(q) |-> IF k = 0 THEN s ELSE HandleToolCallDelta(f[k - 1], q[k], parts[q[k]])]
  BY <1>1 DEF Handling
<1>4. HandleToolCallDeltas(s, parts) = g[Len(q)]
  BY <1>3, Zenon DEF HandleToolCallDeltas
<1> QED
  BY <1>2, <1>4

LEMMA TellsParts ==
    ASSUME NEW c, NEW s, NEW h, Tells(c, s, h), s.started,
           NEW parts, DOMAIN parts \subseteq Tools, \A i \in DOMAIN parts : parts[i] \in Nat,
           DOMAIN parts # {} => ~s.finished, ~s.finished => h.called = DOMAIN s.tools,
           NEW t, t = HandleToolCallDeltas(s, parts)
    PROVE  /\ Tells(c, t, HeardParts(h, parts, DOMAIN parts)) /\ SameFlags(s, t)
           /\ DOMAIN t.tools = DOMAIN s.tools \cup DOMAIN parts
<1>1. PICK q : q = Ascending(DOMAIN parts)
  OBVIOUS
<1>2. PICK n : n = Len(q)
  OBVIOUS
<1>3. /\ n \in Nat /\ \A k \in 1 .. n : q[k] \in DOMAIN parts
      /\ \A j, k \in 1 .. n : j # k => q[j] # q[k]
      /\ \A i \in DOMAIN parts : \E k \in 1 .. n : q[k] = i
  <2>1. DOMAIN parts \subseteq Nat /\ IsFiniteSet(DOMAIN parts)
    BY ToolAssumption, FS_Subset DEF Tools
  <2> QED BY <2>1, <1>1, <1>2, AscendingIs, AscendingAll
<1>4. PICK f : Handling(s, parts, q, f) /\ t = f[n]
  BY <1>1, <1>2, <1>3, HandlesInTurn
<1>5. f = [k \in 0 .. n |-> IF k = 0 THEN s ELSE HandleToolCallDelta(f[k - 1], q[k], parts[q[k]])]
  BY <1>2, <1>4 DEF Handling
<1>6. f[0] = s /\ \A k \in 1 .. n : f[k] = HandleToolCallDelta(f[k - 1], q[k], parts[q[k]])
  BY <1>3, <1>5, SMTT(30)
<1> DEFINE Up(k) == {q[j] : j \in 1 .. k}
           Fit(k) == /\ Tells(c, f[k], HeardParts(h, parts, Up(k))) /\ SameFlags(s, f[k])
                     /\ DOMAIN f[k].tools = DOMAIN s.tools \cup Up(k)
           Bad == {k \in 0 .. n : ~Fit(k)}
<1> HIDE DEF Fit
<1>8. h \in Heards
  BY TellsPick
<1>7. Bad = {}
  <2>1. SUFFICES ASSUME Bad # {} PROVE FALSE
    OBVIOUS
  <2>2. PICK k \in Bad : \A m \in Bad : ~(m < k)
    <3>1. Bad \subseteq Nat /\ Bad # {}
      BY <2>1, <1>3
    <3> HIDE DEF Bad
    <3> QED BY <3>1, Least
  <2>3. k # 0
    <3>1. Up(0) = {}
      OBVIOUS
    <3>2. HeardParts(h, parts, {}) = h
      BY <1>8, HeardPartsNone
    <3>3. Fit(0)
      BY <3>1, <3>2, <1>6 DEF SameFlags, Fit
    <3> QED BY <2>2, <3>3
  <2>4. k \in 1 .. n /\ k - 1 \in 0 .. n /\ k - 1 < k
    BY <2>2, <2>3, <1>3
  <2>5. Fit(k - 1)
    BY <2>2, <2>4
  <2>6. PICK i : i = q[k]
    OBVIOUS
  <2>7. i \in DOMAIN parts /\ i \in Tools /\ parts[i] \in Nat /\ ~s.finished /\ h.called = DOMAIN s.tools
    BY <2>4, <2>6, <1>3
  <2>8. PICK r : r = f[k - 1]
    OBVIOUS
  <2>13. PICK S : S = Up(k - 1)
    OBVIOUS
  <2>14. PICK g : g = HeardParts(h, parts, S)
    OBVIOUS
  <2>15. S \subseteq DOMAIN parts /\ i \notin S /\ Up(k) = S \cup {i}
    <3>1. \A j \in 1 .. k - 1 : j \in 1 .. n /\ j # k
      BY <2>4, <1>3
    <3>2. \A j \in 1 .. k : j \in 1 .. k - 1 \/ j = k
      BY <2>4, <1>3
    <3>3. k \in 1 .. k /\ \A j \in 1 .. k - 1 : j \in 1 .. k
      BY <2>4, <1>3
    <3> QED BY <3>1, <3>2, <3>3, <2>4, <2>6, <2>13, <1>3
  <2>9. /\ Tells(c, r, g) /\ SameFlags(s, r) /\ r.started /\ ~r.finished
        /\ DOMAIN r.tools = DOMAIN s.tools \cup S
    BY <2>5, <2>7, <2>8, <2>13, <2>14 DEF SameFlags, Fit
  <2>16. IsHeardParts(h, g, parts, S)
    <3>1. S \subseteq Tools /\ \A j \in S : parts[j] \in Nat
      BY <2>15
    <3> QED BY <3>1, <2>14, <1>8, HeardPartsFields, Zenon
  <2>17. g.called = DOMAIN r.tools
    BY <2>7, <2>9, <2>16 DEF IsHeardParts
  <2>10. f[k] = HandleToolCallDelta(r, i, parts[i])
    BY <2>4, <2>6, <2>8, <1>6
  <2>11. /\ Tells(c, f[k], HeardPart(HeardCall(g, i), i, parts[i])) /\ SameFlags(r, f[k])
         /\ DOMAIN f[k].tools = DOMAIN r.tools \cup {i}
    <3>1. PICK part : part = parts[i]
      OBVIOUS
    <3>2. PICK u : u = f[k]
      OBVIOUS
    <3>3. Tells(c, r, g) /\ i \in Tools /\ part \in Nat /\ r.started /\ ~r.finished /\ u = HandleToolCallDelta(r, i, part)
      BY <3>1, <3>2, <2>7, <2>9, <2>10
    <3>4. /\ Tells(c, u, HeardPart(HeardCall(g, i), i, part)) /\ SameFlags(r, u)
          /\ DOMAIN u.tools = DOMAIN r.tools \cup {i}
      BY <3>3, <2>17, TellsPart
    <3> QED BY <3>1, <3>2, <3>4
  <2>18. HeardPart(HeardCall(g, i), i, parts[i]) = HeardParts(h, parts, Up(k))
    <3>1. S \subseteq Tools /\ \A j \in S : parts[j] \in Nat
      BY <2>15
    <3>2. i \in Tools \ S
      BY <2>7, <2>15
    <3>3. HeardPart(HeardCall(HeardParts(h, parts, S), i), i, parts[i]) = HeardParts(h, parts, S \cup {i})
      BY <3>1, <3>2, <2>7, <1>8, HeardPartsNext
    <3> QED BY <3>3, <2>14, <2>15
  <2>12. SameFlags(s, f[k])
    BY <2>9, <2>11 DEF SameFlags
  <2>19. DOMAIN f[k].tools = DOMAIN s.tools \cup Up(k)
    BY <2>9, <2>11, <2>15
  <2>20. Fit(k)
    BY <2>11, <2>12, <2>18, <2>19 DEF Fit
  <2> QED BY <2>2, <2>20
<1>9. Fit(n)
  BY <1>3, <1>7
<1>10. Up(n) = DOMAIN parts
  BY <1>3, SMTT(30)
<1> QED
  BY <1>4, <1>9, <1>10 DEF Fit

\* The end of the calls.
LEMMA TellsCloseTool ==
    ASSUME NEW c, NEW s, NEW h, Tells(c, s, h), NEW i \in DOMAIN s.tools,
           ~s.message.open, ~s.reasoning.open,
           NEW t, t = CloseTool(s, i)
    PROVE  /\ Tells(c, t, h) /\ SameFlags(s, t)
           /\ ~t.message.open /\ ~t.reasoning.open
           /\ DOMAIN t.tools = DOMAIN s.tools \ {i}
<1>1. PICK d \in Clients : s \in Translators /\ h \in Heards /\ Reaches(c, s.queue, d) /\ Matches(s, d) /\ Carries(s, d, h)
  BY TellsPick
<1>2. /\ t \in Translators
      /\ InStep(s, d, t, DoneEvent("tool", s.tools[i].index, Input(i, s.tools[i].text)))
  BY <1>1, MatchCloseTool
<1>5. Carries(t, Shows(d, DoneEvent("tool", s.tools[i].index, Input(i, s.tools[i].text))), h)
  BY <1>1, CarryCloseTool, Zenon
<1>3. Tells(c, t, h)
  BY <1>1, <1>2, <1>5, TellsMore
<1>4. /\ SameFlags(s, t) /\ t.message = s.message /\ t.reasoning = s.reasoning
      /\ DOMAIN t.tools = DOMAIN s.tools \ {i}
  BY <1>1, CloseToolFields
<1> QED
  BY <1>3, <1>4

Closing(s, q, f) == f = [k \in 0 .. Len(q) |-> IF k = 0 THEN s ELSE CloseTool(f[k - 1], q[k])]

LEMMA ClosingExists ==
    ASSUME NEW s, NEW q, Len(q) \in Nat
    PROVE  \E f : Closing(s, q, f)
<1> DEFINE On(n, f) == f = [k \in 0 .. n |-> IF k = 0 THEN s ELSE CloseTool(f[k - 1], q[k])]
           Bad == {n \in Nat : ~\E f : On(n, f)}
<1>1. Bad = {}
  <2>1. SUFFICES ASSUME Bad # {} PROVE FALSE
    OBVIOUS
  <2>2. PICK n \in Bad : \A m \in Bad : ~(m < n)
    <3>1. Bad \subseteq Nat /\ Bad # {}
      BY <2>1
    <3> HIDE DEF Bad
    <3> QED BY <3>1, Least
  <2>3. CASE n = 0
    <3>1. On(0, [k \in 0 .. 0 |-> s])
      <4>1. \A k \in 0 .. 0 : k = 0
        OBVIOUS
      <4> QED BY <4>1, Zenon
    <3> QED BY <2>3, <3>1
  <2>4. CASE n # 0
    <3>1. n - 1 \in Nat /\ n - 1 < n /\ n \in Nat
      BY <2>2, <2>4
    <3>2. PICK f : On(n - 1, f)
      BY <2>2, <3>1
    <3> DEFINE g == [k \in 0 .. n |-> IF k < n THEN f[k] ELSE CloseTool(f[n - 1], q[n])]
    <3>3. On(n, g)
      BY <3>1, <3>2
    <3> QED BY <2>2, <3>3
  <2> QED BY <2>3, <2>4
<1>2. \E f : On(Len(q), f)
  BY <1>1
<1> QED
  BY <1>2 DEF Closing

LEMMA ClosesInTurn ==
    ASSUME NEW s, NEW q, q = Ascending(DOMAIN s.tools), Len(q) \in Nat
    PROVE  \E f : Closing(s, q, f) /\ CloseToolCalls(s) = f[Len(q)]
<1>1. PICK g : g = CHOOSE f : Closing(s, q, f)
  OBVIOUS
<1>2. Closing(s, q, g)
  BY <1>1, ClosingExists
<1>3. g = CHOOSE f : f = [k \in 0 .. Len(q) |-> IF k = 0 THEN s ELSE CloseTool(f[k - 1], q[k])]
  BY <1>1 DEF Closing
<1>4. CloseToolCalls(s) = g[Len(q)]
  BY <1>3, Zenon DEF CloseToolCalls
<1> QED
  BY <1>2, <1>4

\* The calls that are open once the first k of a list have been closed.
LEMMA TellsCloseCalls ==
    ASSUME NEW c, NEW s, NEW h, Tells(c, s, h), ~s.message.open, ~s.reasoning.open,
           NEW t, t = CloseToolCalls(s)
    PROVE  Tells(c, t, h) /\ SameFlags(s, t) /\ NothingOpen(t)
<1>1. PICK q : q = Ascending(DOMAIN s.tools)
  OBVIOUS
<1>2. PICK n : n = Len(q)
  OBVIOUS
<1>3. /\ n \in Nat /\ n = Cardinality(DOMAIN s.tools) /\ IsFiniteSet(DOMAIN s.tools)
      /\ \A k \in 1 .. n : q[k] \in DOMAIN s.tools
      /\ \A j, k \in 1 .. n : j # k => q[j] # q[k]
  <2>1. s \in Translators
    BY DEF Tells
  <2>2. DOMAIN s.tools \subseteq Tools
    BY <2>1, SlotTypes
  <2>3. DOMAIN s.tools \subseteq Nat /\ IsFiniteSet(DOMAIN s.tools)
    BY <2>2, ToolAssumption, FS_Subset DEF Tools
  <2> QED BY <2>3, <1>1, <1>2, AscendingIs
<1>4. PICK f : Closing(s, q, f) /\ t = f[n]
  BY <1>1, <1>2, <1>3, ClosesInTurn
<1>5. f = [k \in 0 .. n |-> IF k = 0 THEN s ELSE CloseTool(f[k - 1], q[k])]
  BY <1>2, <1>4 DEF Closing
<1>6. f[0] = s /\ \A k \in 1 .. n : f[k] = CloseTool(f[k - 1], q[k])
  BY <1>3, <1>5
<1> DEFINE Fit(k) == /\ Tells(c, f[k], h) /\ SameFlags(s, f[k])
                     /\ ~f[k].message.open /\ ~f[k].reasoning.open
                     /\ DOMAIN f[k].tools = {i \in DOMAIN s.tools : \A j \in 1 .. k : i # q[j]}
                     /\ Cardinality(DOMAIN f[k].tools) = n - k
           Bad == {k \in 0 .. n : ~Fit(k)}
<1>7. Bad = {}
  <2>1. SUFFICES ASSUME Bad # {} PROVE FALSE
    OBVIOUS
  <2>2. PICK k \in Bad : \A m \in Bad : ~(m < k)
    <3>1. Bad \subseteq Nat /\ Bad # {}
      BY <2>1, <1>3
    <3> HIDE DEF Bad
    <3> QED BY <3>1, Least
  <2>3. Fit(0)
    <3>1. DOMAIN s.tools = {i \in DOMAIN s.tools : \A j \in 1 .. 0 : i # q[j]}
      OBVIOUS
    <3>2. SameFlags(s, s)
      BY DEF SameFlags
    <3> QED BY <3>1, <3>2, <1>3, <1>6
  <2>4. k \in 1 .. n /\ k - 1 \in 0 .. n /\ k - 1 < k
    <3>1. k \in 0 .. n /\ ~Fit(k)
      BY <2>2
    <3>2. k # 0
      <4> HIDE DEF Fit
      <4> QED BY <2>3, <3>1
    <3> QED BY <3>1, <3>2, <1>3
  <2>5. Fit(k - 1)
    BY <2>2, <2>4
  <2>6. PICK i : i = q[k]
    OBVIOUS
  <2>7. PICK r : r = f[k - 1]
    OBVIOUS
  <2>8. PICK u : u = f[k]
    OBVIOUS
  <2>9. /\ Tells(c, r, h) /\ SameFlags(s, r) /\ ~r.message.open /\ ~r.reasoning.open
        /\ DOMAIN r.tools = {x \in DOMAIN s.tools : \A j \in 1 .. k - 1 : x # q[j]}
        /\ Cardinality(DOMAIN r.tools) = n - (k - 1)
    BY <2>5, <2>7
  <2>10. i \in DOMAIN r.tools
    BY <2>4, <2>6, <2>9, <1>3
  <2>11. u = CloseTool(r, i)
    BY <2>4, <2>6, <2>7, <2>8, <1>6
  <2>12. /\ Tells(c, u, h) /\ SameFlags(r, u)
         /\ ~u.message.open /\ ~u.reasoning.open
         /\ DOMAIN u.tools = DOMAIN r.tools \ {i}
    <3>1. Tells(c, r, h) /\ ~r.message.open /\ ~r.reasoning.open
      BY <2>9
    <3> QED BY <3>1, <2>10, <2>11, TellsCloseTool
  <2>13. SameFlags(s, u)
    BY <2>9, <2>12 DEF SameFlags
  <2>14. DOMAIN u.tools = {x \in DOMAIN s.tools : \A j \in 1 .. k : x # q[j]}
    <3>1. \A j \in 1 .. k : j \in 1 .. k - 1 \/ j = k
      BY <2>4, <1>3
    <3>2. \A j \in 1 .. k - 1 : j \in 1 .. k
      BY <2>4, <1>3
    <3>3. k \in 1 .. k
      BY <2>4, <1>3
    <3> QED BY <3>1, <3>2, <3>3, <2>6, <2>9, <2>12
  <2>15. Cardinality(DOMAIN u.tools) = n - k
    <3>1. DOMAIN r.tools \subseteq DOMAIN s.tools
      BY <2>9
    <3>2. IsFiniteSet(DOMAIN r.tools)
      BY <3>1, <1>3, FS_Subset
    <3>3. Cardinality(DOMAIN u.tools) = Cardinality(DOMAIN r.tools) - 1
      BY <3>2, <2>10, <2>12, FS_RemoveElement
    <3>4. Cardinality(DOMAIN r.tools) = n - (k - 1)
      BY <2>9
    <3> QED BY <3>3, <3>4, <2>4, <1>3
  <2>16. Fit(k)
    BY <2>8, <2>12, <2>13, <2>14, <2>15
  <2> QED BY <2>2, <2>16
<1>8. Fit(n)
  BY <1>3, <1>7
<1>9. /\ Tells(c, t, h) /\ SameFlags(s, t) /\ ~t.message.open /\ ~t.reasoning.open
      /\ Cardinality(DOMAIN t.tools) = n - n /\ DOMAIN t.tools \subseteq DOMAIN s.tools
  BY <1>4, <1>8
<1>10. DOMAIN t.tools = {}
  <2>1. IsFiniteSet(DOMAIN t.tools)
    BY <1>3, <1>9, FS_Subset
  <2>2. Cardinality(DOMAIN t.tools) = 0
    BY <1>3, <1>9
  <2> QED BY <2>1, <2>2, FS_EmptySet
<1> QED
  BY <1>9, <1>10 DEF NothingOpen

\* t differs from s in its flags only.
LEMMA TellsFlags ==
    ASSUME NEW c, NEW s, NEW h, Tells(c, s, h), NEW t \in Translators,
           SameItems(s, t), t.queue = s.queue, t.completed = s.completed, InPhase(t)
    PROVE  Tells(c, t, h)
<1>1. PICK d \in Clients : s \in Translators /\ h \in Heards /\ Reaches(c, s.queue, d) /\ Matches(s, d) /\ Carries(s, d, h)
  BY TellsPick
<1>2. Matches(t, d)
  BY <1>1, MatchSame
<1>3. Carries(t, d, h)
  <2>1. t.tools = s.tools /\ SameCalls(h, h) /\ EndMeant(d.ends, h)
    BY <1>1 DEF SameItems, SameCalls, Carries
  <2> QED BY <2>1, <1>1, CarrySame
<1> QED
  BY <1>1, <1>2, <1>3 DEF Tells

\* The end was meant, and the reason for it is the one the translator knows.
Meant(h, s) == h.meant /\ h.reason = s.reason

\* More is heard of the end.
LEMMA TellsMeant ==
    ASSUME NEW c, NEW s, NEW h, Tells(c, s, h), NEW y, SameCalls(h, y), y.texts = h.texts,
           h.meant => y.meant, s.completed => y.reason = h.reason
    PROVE  Tells(c, s, y)
<1>1. PICK d \in Clients : s \in Translators /\ h \in Heards /\ Reaches(c, s.queue, d) /\ Matches(s, d) /\ Carries(s, d, h)
  BY TellsPick
<1>2. EndMeant(d.ends, y)
  <2>1. EndMeant(d.ends, h)
    BY <1>1 DEF Carries
  <2>2. ~s.completed => d.ends = <<>>
    BY <1>1 DEF Matches
  <2> QED BY <2>1, <2>2 DEF EndMeant
<1>3. Carries(s, d, y)
  BY <1>1, <1>2, CarrySame
<1> QED
  BY <1>1, <1>3 DEF Tells

LEMMA TellsFinishItems ==
    ASSUME NEW c, NEW s, NEW h, Tells(c, s, h), s.started, ~s.completed,
           NEW t, t = FinishOpenItems(s)
    PROVE  /\ Tells(c, t, h) /\ t.started /\ t.finished /\ ~t.completed
           /\ t.reason = s.reason /\ t.usage = s.usage
<1>1. PICK first : first = "reasoning"
  OBVIOUS
<1>2. PICK second : second = "message"
  OBVIOUS
<1>3. PICK o : o = CloseTexts(s, first, second)
  OBVIOUS
<1>4. first \in Texts /\ second \in Texts /\ first # second
  BY <1>1, <1>2 DEF Texts
<1>5. Tells(c, o, h) /\ SameFlags(s, o) /\ ~o.message.open /\ ~o.reasoning.open
  BY <1>3, <1>4, TellsCloseTexts
<1>6. PICK u : u = CloseToolCalls(o)
  OBVIOUS
<1>7. Tells(c, u, h) /\ SameFlags(o, u) /\ NothingOpen(u)
  BY <1>5, <1>6, TellsCloseCalls
<1>8. t = [u EXCEPT !.finished = TRUE]
  BY <1>1, <1>2, <1>3, <1>6, Zenon DEF FinishOpenItems, CloseTexts
<1>9. u \in Translators
  BY <1>7 DEF Tells
<1>10. /\ t \in Translators
       /\ t.started = u.started /\ t.finished = TRUE /\ t.completed = u.completed
       /\ t.reason = u.reason /\ t.usage = u.usage
       /\ t.next = u.next /\ t.tools = u.tools
       /\ t.message = u.message /\ t.reasoning = u.reasoning
       /\ t.queue = u.queue /\ t.output = u.output
  BY <1>8, <1>9, Zenon DEF Translators
<1>11. t.started /\ ~t.completed /\ t.reason = s.reason /\ t.usage = s.usage
  BY <1>5, <1>7, <1>10 DEF SameFlags
<1>12. SameItems(u, t)
  BY <1>10 DEF SameItems
<1>13. InPhase(t)
  BY <1>7, <1>10, <1>11, Zenon DEF InPhase, NothingOpen
<1>14. Tells(c, t, h)
  BY <1>7, <1>10, <1>12, <1>13, TellsFlags
<1> QED
  BY <1>10, <1>11, <1>14

LEMMA TellsTerminal ==
    ASSUME NEW c, NEW s, NEW h, Tells(c, s, h), s.finished, ~s.completed, NEW type \in Terminals,
           type # "failed" => h.meant /\ (type = "incomplete" <=> h.reason = "length"),
           NEW t, t = Terminal(s, type)
    PROVE  /\ Tells(c, t, h) /\ t.started = s.started /\ t.finished /\ t.completed
           /\ t.reason = s.reason /\ t.usage = s.usage
           /\ t.queue # <<>>
<1>1. PICK d \in Clients : s \in Translators /\ h \in Heards /\ Reaches(c, s.queue, d) /\ Matches(s, d) /\ Carries(s, d, h)
  BY TellsPick
<1>2. t \in Translators /\ InStep(s, d, t, EndEvent(s, type))
  BY <1>1, MatchTerminal
<1>6. Carries(t, Shows(d, EndEvent(s, type)), h)
  <2>1. d.ends = <<>>
    BY <1>1 DEF Matches
  <2> QED BY <2>1, <1>1, CarryTerminal
<1>3. Tells(c, t, h)
  BY <1>1, <1>2, <1>6, TellsMore
<1>4. Ended(s, t, type)
  BY <1>1, TerminalFields
<1>5. t.queue # <<>>
  BY <1>1, <1>4, SlotTypes DEF Ended
<1> QED
  BY <1>3, <1>4, <1>5 DEF Ended

LEMMA TellsCompleted ==
    ASSUME NEW c, NEW s, NEW h, Tells(c, s, h), s.finished, ~s.completed, Meant(h, s),
           NEW t, t = EmitResponseCompleted(s)
    PROVE  /\ Tells(c, t, h) /\ t.started = s.started /\ t.finished /\ t.completed
           /\ t.reason = s.reason /\ t.usage = s.usage
<1>1. PICK type : type = IF s.reason = "length" THEN "incomplete" ELSE "completed"
  OBVIOUS
<1>2. type \in Terminals
  BY <1>1 DEF Terminals
<1>3. t = Terminal(s, type)
  BY <1>1 DEF EmitResponseCompleted
<1>4. h.meant /\ (type = "incomplete" <=> h.reason = "length")
  BY <1>1 DEF Meant
<1> QED
  BY <1>2, <1>3, <1>4, TellsTerminal

LEMMA TellsFinish ==
    ASSUME NEW c, NEW s, NEW h, Tells(c, s, h), s.started, ~s.completed, Meant(h, s),
           NEW t, t = HandleFinish(s)
    PROVE  /\ Tells(c, t, h) /\ t.started /\ t.finished
           /\ t.reason = s.reason /\ t.usage = s.usage
<1>1. PICK f : f = FinishOpenItems(s)
  OBVIOUS
<1>2. /\ Tells(c, f, h) /\ f.started /\ f.finished /\ ~f.completed
      /\ f.reason = s.reason /\ f.usage = s.usage
  BY <1>1, TellsFinishItems
<1>3. CASE f.usage
  <2>1. t = EmitResponseCompleted(f)
    BY <1>1, <1>3 DEF HandleFinish
  <2>2. /\ Tells(c, t, h) /\ t.started = f.started /\ t.finished /\ t.completed
        /\ t.reason = f.reason /\ t.usage = f.usage
    <3>1. Meant(h, f)
      BY <1>2 DEF Meant
    <3> QED BY <1>2, <2>1, <3>1, TellsCompleted, ZenonT(60)
  <2> QED BY <1>2, <2>2
<1>4. CASE ~f.usage
  <2>1. t = f
    BY <1>1, <1>4 DEF HandleFinish
  <2> QED BY <1>2, <2>1
<1> QED
  BY <1>3, <1>4

LEMMA TellsUsage ==
    ASSUME NEW c, NEW s, NEW h, Tells(c, s, h), s.finished /\ ~s.completed => Meant(h, s),
           NEW t, t = HandleUsage(s)
    PROVE  /\ Tells(c, t, h) /\ t.started = s.started /\ t.finished = s.finished
           /\ t.reason = s.reason /\ t.usage
           /\ ~s.finished => t.tools = s.tools
<1>1. PICK u : u = [s EXCEPT !.usage = TRUE]
  OBVIOUS
<1>2. s \in Translators /\ InPhase(s)
  BY TellsPhase
<1>3. /\ u \in Translators
      /\ u.started = s.started /\ u.finished = s.finished /\ u.completed = s.completed
      /\ u.reason = s.reason /\ u.usage = TRUE
      /\ u.next = s.next /\ u.tools = s.tools
      /\ u.message = s.message /\ u.reasoning = s.reasoning
      /\ u.queue = s.queue /\ u.output = s.output
  BY <1>1, <1>2, Zenon DEF Translators
<1>4. SameItems(s, u)
  BY <1>3 DEF SameItems
<1>5. InPhase(u)
  BY <1>2, <1>3, Zenon DEF InPhase, NothingOpen
<1>6. Tells(c, u, h)
  BY <1>3, <1>4, <1>5, TellsFlags
<1>7. CASE u.finished /\ ~u.completed
  <2>1. t = EmitResponseCompleted(u)
    BY <1>1, <1>7, Zenon DEF HandleUsage
  <2>2. /\ Tells(c, t, h) /\ t.started = u.started /\ t.finished /\ t.completed
        /\ t.reason = u.reason /\ t.usage = u.usage
    <3>1. Meant(h, u)
      BY <1>3, <1>7 DEF Meant
    <3> QED BY <1>6, <1>7, <2>1, <3>1, TellsCompleted
  <2>3. t.finished = s.finished
    <3>1. t \in Translators /\ s \in Translators
      BY <2>2, <1>2 DEF Tells
    <3> QED BY <3>1, <2>2, <1>3, <1>7 DEF Translators
  <2> QED BY <1>3, <1>7, <2>2, <2>3
<1>8. CASE ~(u.finished /\ ~u.completed)
  <2>1. t = u
    BY <1>1, <1>8, Zenon DEF HandleUsage
  <2> QED BY <1>3, <1>6, <2>1
<1> QED
  BY <1>7, <1>8

LEMMA TellsStart ==
    ASSUME NEW c, NEW s, NEW h, Tells(c, s, h),
           NEW t, t = Start(s)
    PROVE  /\ Tells(c, t, h) /\ t.started /\ t.finished = s.finished /\ t.completed = s.completed
           /\ t.reason = s.reason /\ t.usage = s.usage /\ t.tools = s.tools
<1>1. PICK d \in Clients : s \in Translators /\ h \in Heards /\ Reaches(c, s.queue, d) /\ Matches(s, d) /\ Carries(s, d, h)
  BY TellsPick
<1>2. CASE s.started
  <2>1. t = s
    BY <1>2 DEF Start
  <2> QED BY <1>2, <2>1
<1>3. CASE ~s.started
  <2>1. t \in Translators /\ InStep(s, d, t, [type |-> "created"])
    BY <1>1, <1>3, MatchStart
  <2>3. /\ t.started /\ t.finished = s.finished /\ t.completed = s.completed
        /\ t.reason = s.reason /\ t.usage = s.usage /\ t.tools = s.tools
    BY <1>1, <1>3, StartFields
  <2>4. Carries(t, Shows(d, [type |-> "created"]), h)
    <3>1. Shows(d, [type |-> "created"]) = d
      BY <1>1, CreatedShown
    <3>2. SameCalls(h, h) /\ EndMeant(d.ends, h)
      BY <1>1 DEF SameCalls, Carries
    <3> QED BY <3>1, <3>2, <2>3, <1>1, CarrySame
  <2>2. Tells(c, t, h)
    BY <1>1, <2>1, <2>4, TellsMore
  <2> QED BY <2>2, <2>3
<1> QED
  BY <1>2, <1>3

\* What a chunk may be: nothing of the answer follows the end of it.
ChunkInputs ==
    [reasoning : Nat, content : Nat, tools : UNION {[D -> Nat] : D \in SUBSET Tools},
     reason : Reasons, usage : BOOLEAN]

Says(chunk) ==
    chunk.reasoning # Absent \/ chunk.content # Absent \/ DOMAIN chunk.tools # {} \/ chunk.reason # "none"

\* What has been heard after a chunk: more of the end, of the texts and of the calls.
HeardEnd(h, chunk) ==
    [h EXCEPT !.meant = h.meant \/ chunk.reason # "none",
              !.reason = IF chunk.reason = "none" THEN h.reason ELSE chunk.reason]

HeardTextPart(h, kind, part) == IF part = Absent THEN h ELSE HeardText(h, kind, part)

HeardTexts(h, chunk) ==
    HeardTextPart(HeardTextPart(HeardEnd(h, chunk), "reasoning", chunk.reasoning), "message", chunk.content)

HeardChunk(h, chunk) == HeardParts(HeardTexts(h, chunk), chunk.tools, DOMAIN chunk.tools)

IsHeardEnd(h, y, chunk) ==
    /\ SameCalls(h, y) /\ y.texts = h.texts
    /\ y.meant = (h.meant \/ chunk.reason # "none")
    /\ y.reason = (IF chunk.reason = "none" THEN h.reason ELSE chunk.reason)

LEMMA HeardEndFields ==
    ASSUME NEW h \in Heards, NEW chunk, chunk.reason \in Reasons
    PROVE  IsHeardEnd(h, HeardEnd(h, chunk), chunk)
<1>1. PICK m : m = (h.meant \/ chunk.reason # "none")
  OBVIOUS
<1>2. PICK r : r = IF chunk.reason = "none" THEN h.reason ELSE chunk.reason
  OBVIOUS
<1>3. PICK y : y = HeardEnd(h, chunk)
  OBVIOUS
<1>4. y = [h EXCEPT !.meant = m, !.reason = r]
  BY <1>1, <1>2, <1>3, Zenon DEF HeardEnd
<1>5. m \in BOOLEAN /\ r \in Reasons
  <2>1. h.meant \in BOOLEAN /\ h.reason \in Reasons
    BY DEF Heards
  <2> QED BY <2>1, <1>1, <1>2
<1>6. /\ y \in Heards /\ y.texts = h.texts /\ y.called = h.called /\ y.calls = h.calls
      /\ y.meant = m /\ y.reason = r
  BY <1>4, <1>5 DEF Heards
<1>7. IsHeardEnd(h, y, chunk)
  BY <1>1, <1>2, <1>6, Zenon DEF IsHeardEnd, SameCalls
<1> QED
  BY <1>3, <1>7, Zenon

\* What the parts that are texts leave alone.
SameEnd(h, y) == y.called = h.called /\ y.calls = h.calls /\ y.meant = h.meant /\ y.reason = h.reason

IsHeardTextPart(h, y, kind, part) ==
    /\ SameEnd(h, y) /\ y \in Heards
    /\ y.texts[kind] = (IF part = Absent THEN h.texts[kind] ELSE Append(h.texts[kind], part))
    /\ \A other \in Texts \ {kind} : y.texts[other] = h.texts[other]

LEMMA HeardTextPartFields ==
    ASSUME NEW h \in Heards, NEW kind \in Texts, NEW part \in Nat
    PROVE  IsHeardTextPart(h, HeardTextPart(h, kind, part), kind, part)
<1>1. CASE part = Absent
  <2>1. HeardTextPart(h, kind, part) = h
    BY <1>1 DEF HeardTextPart
  <2>2. IsHeardTextPart(h, h, kind, part)
    BY <1>1 DEF IsHeardTextPart, SameEnd
  <2> QED BY <2>1, <2>2
<1>2. CASE part # Absent
  <2>1. HeardTextPart(h, kind, part) = HeardText(h, kind, part)
    BY <1>2 DEF HeardTextPart
  <2>2. IsHeardText(h, HeardText(h, kind, part), kind, part)
    BY HeardTextFields
  <2>3. IsHeardTextPart(h, HeardText(h, kind, part), kind, part)
    BY <2>2, <1>2, Zenon DEF IsHeardTextPart, IsHeardText, SameEnd
  <2> QED BY <2>1, <2>3
<1> QED
  BY <1>1, <1>2

\* All that has been heard after a chunk.
IsHeardChunk(h, y, chunk) ==
    /\ y \in Heards
    /\ y.meant = (h.meant \/ chunk.reason # "none")
    /\ y.reason = (IF chunk.reason = "none" THEN h.reason ELSE chunk.reason)
    /\ y.texts["reasoning"] = (IF chunk.reasoning = Absent THEN h.texts["reasoning"]
                               ELSE Append(h.texts["reasoning"], chunk.reasoning))
    /\ y.texts["message"] = (IF chunk.content = Absent THEN h.texts["message"]
                             ELSE Append(h.texts["message"], chunk.content))
    /\ y.called = h.called \cup DOMAIN chunk.tools
    /\ \A i \in Tools : y.calls[i] = (IF i \in DOMAIN chunk.tools THEN Append(h.calls[i], chunk.tools[i])
                                      ELSE h.calls[i])

LEMMA HeardChunkFields ==
    ASSUME NEW h \in Heards, NEW chunk,
           chunk.reasoning \in Nat, chunk.content \in Nat, chunk.reason \in Reasons,
           DOMAIN chunk.tools \subseteq Tools, \A i \in DOMAIN chunk.tools : chunk.tools[i] \in Nat
    PROVE  IsHeardChunk(h, HeardChunk(h, chunk), chunk)
<1>1. PICK a : a = HeardEnd(h, chunk)
  OBVIOUS
<1>2. PICK b : b = HeardTextPart(a, "reasoning", chunk.reasoning)
  OBVIOUS
<1>3. PICK c : c = HeardTextPart(b, "message", chunk.content)
  OBVIOUS
<1>4. PICK y : y = HeardParts(c, chunk.tools, DOMAIN chunk.tools)
  OBVIOUS
<1>5. y = HeardChunk(h, chunk)
  BY <1>1, <1>2, <1>3, <1>4, Zenon DEF HeardChunk, HeardTexts
<1>6. IsHeardEnd(h, a, chunk) /\ a \in Heards
  BY <1>1, HeardEndFields DEF IsHeardEnd, SameCalls
<1>7. "reasoning" \in Texts /\ "message" \in Texts /\ "reasoning" # "message"
  BY DEF Texts
<1>8. IsHeardTextPart(a, b, "reasoning", chunk.reasoning) /\ b \in Heards
  <2>1. IsHeardTextPart(a, b, "reasoning", chunk.reasoning)
    BY <1>2, <1>6, <1>7, HeardTextPartFields, Zenon
  <2> QED BY <2>1, Zenon DEF IsHeardTextPart
<1>9. IsHeardTextPart(b, c, "message", chunk.content) /\ c \in Heards
  <2>1. IsHeardTextPart(b, c, "message", chunk.content)
    BY <1>3, <1>7, <1>8, HeardTextPartFields, Zenon
  <2> QED BY <2>1, Zenon DEF IsHeardTextPart
<1>10. IsHeardParts(c, y, chunk.tools, DOMAIN chunk.tools)
  BY <1>4, <1>9, HeardPartsFields
<1>12. /\ c.texts["reasoning"] = b.texts["reasoning"] /\ b.texts["message"] = a.texts["message"]
       /\ a.texts = h.texts
  BY <1>6, <1>7, <1>8, <1>9 DEF IsHeardEnd, IsHeardTextPart
<1>13. /\ y.texts["reasoning"] = (IF chunk.reasoning = Absent THEN h.texts["reasoning"]
                                 ELSE Append(h.texts["reasoning"], chunk.reasoning))
       /\ y.texts["message"] = (IF chunk.content = Absent THEN h.texts["message"]
                               ELSE Append(h.texts["message"], chunk.content))
  BY <1>8, <1>9, <1>10, <1>12 DEF IsHeardTextPart, IsHeardParts, SameWords
<1>14. c.called = h.called /\ c.calls = h.calls
  BY <1>6, <1>8, <1>9 DEF IsHeardEnd, IsHeardTextPart, SameEnd, SameCalls
<1>15. /\ y.called = h.called \cup DOMAIN chunk.tools
       /\ \A i \in Tools : y.calls[i] = (IF i \in DOMAIN chunk.tools THEN Append(h.calls[i], chunk.tools[i])
                                         ELSE h.calls[i])
  BY <1>10, <1>14 DEF IsHeardParts
<1>16. /\ y.meant = (h.meant \/ chunk.reason # "none")
       /\ y.reason = (IF chunk.reason = "none" THEN h.reason ELSE chunk.reason)
  <2>1. y.meant = a.meant /\ y.reason = a.reason
    BY <1>8, <1>9, <1>10 DEF IsHeardTextPart, IsHeardParts, SameEnd, SameWords
  <2> QED BY <2>1, <1>6, Zenon DEF IsHeardEnd
<1>17. IsHeardChunk(h, y, chunk)
  BY <1>10, <1>13, <1>15, <1>16, Zenon DEF IsHeardChunk, IsHeardParts
<1> QED
  BY <1>5, <1>17, Zenon

LEMMA TellsChunk ==
    ASSUME NEW c, NEW s, NEW h, Tells(c, s, h), NEW chunk \in ChunkInputs, Says(chunk) => ~s.finished,
           ~s.finished => h.called = DOMAIN s.tools, s.finished => h.meant, h.reason = s.reason,
           NEW t, t = ProcessChunk(s, chunk)
    PROVE  /\ Tells(c, t, HeardChunk(h, chunk)) /\ t.started
           /\ t.reason = (IF chunk.reason = "none" THEN s.reason ELSE chunk.reason)
           /\ t.finished <=> s.finished \/ chunk.reason # "none"
           /\ ~t.finished => h.called \cup DOMAIN chunk.tools = DOMAIN t.tools
<1>1. /\ chunk.reasoning \in Nat /\ chunk.content \in Nat /\ chunk.reason \in Reasons
      /\ DOMAIN chunk.tools \subseteq Tools /\ \A i \in DOMAIN chunk.tools : chunk.tools[i] \in Nat
  <2>1. chunk.tools \in UNION {[D -> Nat] : D \in SUBSET Tools}
    BY DEF ChunkInputs
  <2> QED BY <2>1 DEF ChunkInputs
<1>2. PICK a : a = Start(s)
  OBVIOUS
<1>3. PICK b : b = IF chunk.reasoning = Absent THEN a ELSE HandleReasoningDelta(a, chunk.reasoning)
  OBVIOUS
<1>4. PICK o : o = IF chunk.content = Absent THEN b ELSE HandleContentDelta(b, chunk.content)
  OBVIOUS
<1>5. PICK d : d = HandleToolCallDeltas(o, chunk.tools)
  OBVIOUS
<1>6. PICK r : r = [d EXCEPT !.reason = chunk.reason]
  OBVIOUS
<1>7. PICK e : e = IF chunk.reason = "none" THEN d ELSE HandleFinish(r)
  OBVIOUS
<1>8. t = IF chunk.usage THEN HandleUsage(e) ELSE e
  BY <1>2, <1>3, <1>4, <1>5, <1>6, <1>7, Zenon DEF ProcessChunk
<1>20. PICK y : y = HeardEnd(h, chunk)
  OBVIOUS
<1>21. PICK z : z = HeardTextPart(y, "reasoning", chunk.reasoning)
  OBVIOUS
<1>22. PICK x : x = HeardTextPart(z, "message", chunk.content)
  OBVIOUS
<1>23. PICK g : g = HeardParts(x, chunk.tools, DOMAIN chunk.tools)
  OBVIOUS
<1>24. g = HeardChunk(h, chunk)
  BY <1>20, <1>21, <1>22, <1>23, Zenon DEF HeardChunk, HeardTexts
<1>25. h \in Heards /\ IsHeardEnd(h, y, chunk) /\ y \in Heards
  BY <1>1, <1>20, TellsPick, HeardEndFields DEF IsHeardEnd, SameCalls
<1>26. Tells(c, s, y)
  <2>1. s.completed => s.finished
    BY TellsPhase DEF InPhase
  <2>2. s.completed => y.reason = h.reason
    BY <2>1, <1>25 DEF Says, IsHeardEnd
  <2> QED BY <2>2, <1>25, TellsMeant DEF IsHeardEnd
<1>27. IsHeardTextPart(y, z, "reasoning", chunk.reasoning) /\ z \in Heards
  <2>1. "reasoning" \in Texts
    BY DEF Texts
  <2>2. IsHeardTextPart(y, z, "reasoning", chunk.reasoning)
    BY <2>1, <1>1, <1>21, <1>25, HeardTextPartFields, Zenon
  <2> QED BY <2>2, Zenon DEF IsHeardTextPart
<1>28. IsHeardTextPart(z, x, "message", chunk.content) /\ x \in Heards
  <2>1. "message" \in Texts
    BY DEF Texts
  <2>2. IsHeardTextPart(z, x, "message", chunk.content)
    BY <2>1, <1>1, <1>22, <1>27, HeardTextPartFields, Zenon
  <2> QED BY <2>2, Zenon DEF IsHeardTextPart
<1>29. IsHeardParts(x, g, chunk.tools, DOMAIN chunk.tools)
  BY <1>1, <1>23, <1>28, HeardPartsFields
<1>30. x.called = h.called
  BY <1>25, <1>27, <1>28 DEF IsHeardEnd, SameCalls, IsHeardTextPart, SameEnd
<1>31. /\ chunk.reason # "none" => g.meant /\ g.reason = chunk.reason
       /\ chunk.reason = "none" => g.meant = h.meant /\ g.reason = h.reason
  <2>1. g.meant = y.meant /\ g.reason = y.reason
    BY <1>27, <1>28, <1>29 DEF IsHeardTextPart, SameEnd, IsHeardParts, SameWords
  <2>2. h.meant \in BOOLEAN
    BY <1>25 DEF Heards
  <2> QED BY <2>1, <2>2, <1>25 DEF IsHeardEnd
<1>9. /\ Tells(c, a, y) /\ a.started /\ a.finished = s.finished /\ a.reason = s.reason
      /\ a.tools = s.tools
  BY <1>2, <1>26, TellsStart
<1>10. Tells(c, b, z) /\ SameFlags(a, b) /\ b.tools = a.tools
  <2>1. CASE chunk.reasoning = Absent
    BY <2>1, <1>3, <1>9, <1>21 DEF SameFlags, HeardTextPart
  <2>2. CASE chunk.reasoning # Absent
    <3>1. b = HandleReasoningDelta(a, chunk.reasoning) /\ a.started /\ ~a.finished
      BY <2>2, <1>3, <1>9 DEF Says
    <3>2. z = HeardText(y, "reasoning", chunk.reasoning)
      BY <2>2, <1>21 DEF HeardTextPart
    <3> QED BY <3>1, <3>2, <1>1, <1>9, TellsReasoning
  <2> QED BY <2>1, <2>2
<1>11. Tells(c, o, x) /\ SameFlags(b, o) /\ o.tools = b.tools
  <2>1. CASE chunk.content = Absent
    BY <2>1, <1>4, <1>10, <1>22 DEF SameFlags, HeardTextPart
  <2>2. CASE chunk.content # Absent
    <3>1. o = HandleContentDelta(b, chunk.content) /\ b.started /\ ~b.finished
      BY <2>2, <1>4, <1>9, <1>10 DEF Says, SameFlags
    <3>2. x = HeardText(z, "message", chunk.content)
      BY <2>2, <1>22 DEF HeardTextPart
    <3> QED BY <3>1, <3>2, <1>1, <1>10, TellsContent
  <2> QED BY <2>1, <2>2
<1>12. Tells(c, d, g) /\ SameFlags(o, d) /\ DOMAIN d.tools = DOMAIN o.tools \cup DOMAIN chunk.tools
  <2>1. o.started /\ (DOMAIN chunk.tools # {} => ~o.finished)
    BY <1>9, <1>10, <1>11 DEF Says, SameFlags
  <2>2. ~o.finished => x.called = DOMAIN o.tools
    BY <1>9, <1>10, <1>11, <1>30 DEF SameFlags
  <2> QED BY <2>1, <2>2, <1>1, <1>5, <1>11, <1>23, TellsParts
<1>13. d.started /\ d.finished = s.finished /\ d.reason = s.reason /\ d \in Translators /\ InPhase(d)
  BY <1>9, <1>10, <1>11, <1>12, TellsPhase DEF SameFlags
<1>14. /\ Tells(c, e, g) /\ e.started
       /\ e.reason = (IF chunk.reason = "none" THEN s.reason ELSE chunk.reason)
       /\ e.finished <=> s.finished \/ chunk.reason # "none"
       /\ chunk.reason = "none" => e = d
  <2>1. CASE chunk.reason = "none"
    BY <2>1, <1>7, <1>12, <1>13
  <2>2. CASE chunk.reason # "none"
    <3>1. /\ r \in Translators
          /\ r.started = d.started /\ r.finished = d.finished /\ r.completed = d.completed
          /\ r.reason = chunk.reason /\ r.usage = d.usage
          /\ r.next = d.next /\ r.tools = d.tools
          /\ r.message = d.message /\ r.reasoning = d.reasoning
          /\ r.queue = d.queue /\ r.output = d.output
      BY <1>1, <1>6, <1>13, Zenon DEF Translators
    <3>2. SameItems(d, r)
      BY <3>1 DEF SameItems
    <3>3. InPhase(r)
      BY <3>1, <1>13, Zenon DEF InPhase, NothingOpen
    <3>4. Tells(c, r, g)
      BY <3>1, <3>2, <3>3, <1>12, TellsFlags
    <3>5. ~d.finished
      BY <2>2, <1>13 DEF Says
    <3>6. r.started /\ ~r.completed
      BY <3>1, <3>3, <3>5, <1>13 DEF InPhase
    <3>7. e = HandleFinish(r)
      BY <2>2, <1>7
    <3>9. Meant(g, r)
      BY <2>2, <3>1, <1>31 DEF Meant
    <3>8. Tells(c, e, g) /\ e.started /\ e.finished /\ e.reason = r.reason
      BY <3>4, <3>6, <3>7, <3>9, TellsFinish
    <3> QED BY <2>2, <3>1, <3>8
  <2> QED BY <2>1, <2>2
<1>32. e.finished => Meant(g, e)
  BY <1>14, <1>31 DEF Meant
<1>33. ~e.finished => h.called \cup DOMAIN chunk.tools = DOMAIN e.tools
  BY <1>9, <1>10, <1>11, <1>12, <1>14
<1>15. CASE chunk.usage
  <2>1. t = HandleUsage(e)
    BY <1>8, <1>15
  <2>2. /\ Tells(c, t, g) /\ t.started = e.started /\ t.finished = e.finished /\ t.reason = e.reason
        /\ ~e.finished => t.tools = e.tools
    <3>1. Tells(c, e, g) /\ (e.finished /\ ~e.completed => Meant(g, e))
      BY <1>14, <1>32
    <3> QED BY <2>1, <3>1, TellsUsage
  <2> QED BY <2>2, <1>14, <1>24, <1>33
<1>16. CASE ~chunk.usage
  <2>1. t = e
    BY <1>8, <1>16
  <2> QED BY <2>1, <1>14, <1>24, <1>33
<1> QED
  BY <1>15, <1>16

LEMMA TellsDone ==
    ASSUME NEW c, NEW s, NEW h, Tells(c, s, h), s.started /\ ~s.completed => Meant(h, s),
           NEW t, t = HandleDone(s)
    PROVE  /\ Tells(c, t, h) /\ t.reason = s.reason /\ (s.started => t.finished /\ t.completed)
           /\ ~s.started => t = s
<1>1. InPhase(s) /\ s \in Translators
  BY TellsPhase
<1>2. CASE ~s.started
  <2>1. t = s
    BY <1>2, Zenon DEF HandleDone
  <2> QED BY <1>2, <2>1
<1>3. CASE s.started
  <2>1. PICK f : f = IF s.finished THEN s ELSE HandleFinish(s)
    OBVIOUS
  <2>2. Tells(c, f, h) /\ f.finished /\ f.reason = s.reason
    <3>1. CASE s.finished
      BY <2>1, <3>1
    <3>2. CASE ~s.finished
      <4>1. f = HandleFinish(s) /\ ~s.completed
        BY <2>1, <3>2, <1>1 DEF InPhase
      <4>2. Meant(h, s)
        BY <4>1, <1>3
      <4> QED BY <4>1, <4>2, <1>3, TellsFinish
    <3> QED BY <3>1, <3>2
  <2>3. t = IF f.completed THEN f ELSE EmitResponseCompleted(f)
    BY <1>3, <2>1, Zenon DEF HandleDone
  <2>4. CASE f.completed
    BY <2>2, <2>3, <2>4, <1>3
  <2>5. CASE ~f.completed
    <3>1. t = EmitResponseCompleted(f)
      BY <2>3, <2>5
    <3>2. Tells(c, t, h) /\ t.finished /\ t.completed /\ t.reason = f.reason
      <4>1. Meant(h, f)
        <5>1. ~s.completed
          <6>1. CASE s.finished
            BY <2>1, <2>5, <6>1
          <6>2. CASE ~s.finished
            BY <6>2, <1>1 DEF InPhase
          <6> QED BY <6>1, <6>2
        <5> QED BY <5>1, <2>2, <1>3 DEF Meant
      <4> QED BY <2>2, <2>5, <3>1, <4>1, TellsCompleted
    <3> QED BY <2>2, <3>2, <1>3
  <2> QED BY <2>4, <2>5
<1> QED
  BY <1>2, <1>3

LEMMA TellsStreamEnded ==
    ASSUME NEW c, NEW s, NEW h, Tells(c, s, h), s.reason # "none" => h.meant, h.reason = s.reason,
           NEW t, t = HandleStreamEnded(s)
    PROVE  /\ Tells(c, t, h) /\ t.reason = s.reason /\ (s.started => t.finished /\ t.completed)
           /\ ~s.started => t = s
<1>1. CASE s.started /\ s.reason = "none" /\ ~s.completed
  <2>1. PICK f : f = FinishOpenItems(s)
    OBVIOUS
  <2>2. Tells(c, f, h) /\ f.finished /\ ~f.completed /\ f.reason = s.reason
    BY <1>1, <2>1, TellsFinishItems
  <2>3. PICK type : type = "failed"
    OBVIOUS
  <2>4. t = Terminal(f, type) /\ type \in Terminals
    BY <1>1, <2>1, <2>3 DEF HandleStreamEnded, EmitResponseFailed, Terminals
  <2>5. Tells(c, t, h) /\ t.finished /\ t.completed /\ t.reason = f.reason
    BY <2>2, <2>3, <2>4, TellsTerminal
  <2> QED BY <2>2, <2>5, <1>1
<1>2. CASE ~(s.started /\ s.reason = "none" /\ ~s.completed)
  <2>1. t = HandleDone(s)
    <3>1. CASE s.started
      BY <1>2, <3>1 DEF HandleStreamEnded
    <3>2. CASE ~s.started
      BY <3>2, Zenon DEF HandleStreamEnded, HandleDone
    <3> QED BY <3>1, <3>2
  <2>2. s.started /\ ~s.completed => Meant(h, s)
    BY <1>2 DEF Meant
  <2> QED BY <2>1, <2>2, TellsDone
<1> QED
  BY <1>1, <1>2

-------------------------------------------------------------------------------
(* The queue of the log.                                                      *)

LEMMA HasEmpty ==
    ASSUME NEW kind
    PROVE  ~Has(<<>>, kind)
BY DEF Has

LEMMA HasAppend ==
    ASSUME NEW S, NEW q \in Seq(S), NEW w \in S, NEW kind
    PROVE  Has(Append(q, w), kind) <=> Has(q, kind) \/ w.kind = kind
<1>1. PICK n : n = Len(q)
  OBVIOUS
<1>2. PICK p : p = Append(q, w)
  OBVIOUS
<1>3. /\ n \in Nat /\ DOMAIN q = 1 .. n /\ DOMAIN p = 1 .. n + 1
      /\ p[n + 1] = w /\ \A k \in 1 .. n : p[k] = q[k]
  BY <1>1, <1>2
<1>4. (\E k \in DOMAIN p : p[k].kind = kind) <=> (\E k \in DOMAIN q : q[k].kind = kind) \/ w.kind = kind
  <2>1. \A k \in 1 .. n : p[k].kind = q[k].kind
    BY <1>3, Zenon
  <2>2. p[n + 1].kind = w.kind
    BY <1>3, Zenon
  <2>3. n + 1 \in 1 .. n + 1 /\ \A k \in 1 .. n + 1 : k \in 1 .. n \/ k = n + 1
    BY <1>3
  <2>4. 1 .. n \subseteq 1 .. n + 1
    BY <1>3
  <2> QED BY <1>3, <2>1, <2>2, <2>3, <2>4, Zenon
<1> QED
  BY <1>2, <1>4, Zenon DEF Has

\* The places of a queue whose head is gone.
LEMMA TailPlaces ==
    ASSUME NEW S, NEW q \in Seq(S), q # <<>>
    PROVE  /\ Tail(q) \in Seq(S) /\ Head(q) \in S /\ Head(q) = q[1]
           /\ 1 \in DOMAIN q
           /\ \A k \in DOMAIN Tail(q) : k \in Nat /\ k + 1 \in DOMAIN q /\ k + 1 # 1 /\ Tail(q)[k] = q[k + 1]
           /\ \A k \in DOMAIN q : k # 1 => k - 1 \in DOMAIN Tail(q) /\ Tail(q)[k - 1] = q[k]
           /\ Len(Tail(q)) = Len(q) - 1
  OBVIOUS

LEMMA HasTail ==
    ASSUME NEW S, NEW q \in Seq(S), q # <<>>, NEW kind
    PROVE  Has(q, kind) <=> Head(q).kind = kind \/ Has(Tail(q), kind)
<1>1. PICK p : p = Tail(q)
  OBVIOUS
<1>2. PICK h : h = Head(q)
  OBVIOUS
<1>3. /\ h = q[1] /\ 1 \in DOMAIN q
      /\ \A k \in DOMAIN p : k \in Nat /\ k + 1 \in DOMAIN q /\ p[k] = q[k + 1]
      /\ \A k \in DOMAIN q : k # 1 => k - 1 \in DOMAIN p /\ p[k - 1] = q[k]
  BY <1>1, <1>2, TailPlaces
<1>4. (\E k \in DOMAIN q : q[k].kind = kind) <=> h.kind = kind \/ (\E k \in DOMAIN p : p[k].kind = kind)
  BY <1>3, ZenonT(60)
<1> QED
  BY <1>1, <1>2, <1>4, Zenon DEF Has

LEMMA OrderTail ==
    ASSUME NEW S, NEW q \in Seq(S), q # <<>>, InOrder(q)
    PROVE  /\ InOrder(Tail(q))
           /\ Head(q).kind = "insert" => ~Has(Tail(q), "insert")
           /\ Head(q).kind = "status" => ~Has(Tail(q), "status") /\ ~Has(Tail(q), "insert")
<1>1. PICK p : p = Tail(q)
  OBVIOUS
<1>2. PICK h : h = Head(q)
  OBVIOUS
<1>3. /\ h = q[1] /\ 1 \in DOMAIN q
      /\ \A k \in DOMAIN p : k \in Nat /\ k + 1 \in DOMAIN q /\ k + 1 # 1 /\ p[k] = q[k + 1]
  BY <1>1, <1>2, TailPlaces
<1>4. ASSUME NEW k \in DOMAIN p PROVE k \in Nat /\ k + 1 \in DOMAIN q /\ k + 1 # 1 /\ p[k].kind = q[k + 1].kind
  BY <1>3, Zenon
<1>5. \A j, k \in DOMAIN p : (j + 1 = k + 1 => j = k) /\ (j + 1 < k + 1 => j < k)
  BY <1>4
<1>6. InOrder(p)
  BY <1>4, <1>5, ZenonT(60) DEF InOrder
<1>7. h.kind = "insert" => ~Has(p, "insert")
  BY <1>3, <1>4, Zenon DEF InOrder, Has
<1>8. h.kind = "status" => ~Has(p, "status")
  BY <1>3, <1>4, Zenon DEF InOrder, Has
<1>9. \A k \in DOMAIN p : ~(k + 1 < 1)
  BY <1>4
<1>10. h.kind = "status" => ~Has(p, "insert")
  BY <1>3, <1>4, <1>9, Zenon DEF InOrder, Has
<1> QED
  BY <1>1, <1>2, <1>6, <1>7, <1>8, <1>10, Zenon

LEMMA OrderAppend ==
    ASSUME NEW S, NEW q \in Seq(S), NEW w \in S, InOrder(q),
           w.kind = "insert" => ~Has(q, "insert") /\ ~Has(q, "status"),
           w.kind = "status" => ~Has(q, "status")
    PROVE  InOrder(Append(q, w))
<1>1. PICK n : n = Len(q)
  OBVIOUS
<1>2. PICK p : p = Append(q, w)
  OBVIOUS
<1>3. /\ n \in Nat /\ DOMAIN q = 1 .. n /\ DOMAIN p = 1 .. n + 1
      /\ p[n + 1] = w /\ \A k \in 1 .. n : p[k] = q[k]
  BY <1>1, <1>2
<1>4. \A k \in DOMAIN q : q[k].kind # w.kind \/ w.kind \notin {"insert", "status"}
  BY Zenon DEF Has
<1>5. \A k \in DOMAIN q : w.kind = "insert" => q[k].kind # "status"
  BY Zenon DEF Has
<1>6. ASSUME NEW j \in DOMAIN p, NEW k \in DOMAIN p
      PROVE  /\ p[j].kind = "insert" /\ p[k].kind = "insert" => j = k
             /\ p[j].kind = "status" /\ p[k].kind = "status" => j = k
             /\ p[j].kind = "insert" /\ p[k].kind = "status" => j < k
  <2>1. CASE j = n + 1 /\ k = n + 1
    <3>1. p[j].kind = w.kind /\ p[k].kind = w.kind /\ j = k
      BY <2>1, <1>3, Zenon
    <3> QED BY <3>1
  <2>2. CASE j = n + 1 /\ k # n + 1
    <3>1. k \in DOMAIN q
      BY <2>2, <1>3
    <3>2. p[j].kind = w.kind /\ p[k].kind = q[k].kind
      BY <3>1, <2>2, <1>3, Zenon
    <3> QED BY <3>1, <3>2, <1>4, <1>5
  <2>3. CASE j # n + 1 /\ k = n + 1
    <3>1. j \in DOMAIN q /\ j < k
      BY <2>3, <1>3
    <3>2. p[k].kind = w.kind /\ p[j].kind = q[j].kind
      BY <3>1, <2>3, <1>3, Zenon
    <3> QED BY <3>1, <3>2, <1>4, <1>5
  <2>4. CASE j # n + 1 /\ k # n + 1
    <3>1. j \in DOMAIN q /\ k \in DOMAIN q
      BY <2>4, <1>3
    <3>2. p[j].kind = q[j].kind /\ p[k].kind = q[k].kind
      BY <3>1, <1>3, Zenon
    <3> QED BY <3>1, <3>2, Zenon DEF InOrder
  <2> QED BY <2>1, <2>2, <2>3, <2>4
<1> QED
  BY <1>2, <1>6, Zenon DEF InOrder

LEMMA SaysAppend ==
    ASSUME NEW S, NEW q \in Seq(S), NEW w \in S, NEW decided, SaysStatus(q, decided),
           w.kind = "status" => w.status = decided
    PROVE  SaysStatus(Append(q, w), decided)
<1>1. PICK n : n = Len(q)
  OBVIOUS
<1>2. PICK p : p = Append(q, w)
  OBVIOUS
<1>3. /\ n \in Nat /\ DOMAIN q = 1 .. n /\ DOMAIN p = 1 .. n + 1
      /\ p[n + 1] = w /\ \A k \in 1 .. n : p[k] = q[k]
  BY <1>1, <1>2
<1>4. \A k \in DOMAIN p : k \in DOMAIN q \/ k = n + 1
  BY <1>3
<1>5. \A k \in DOMAIN p : p[k].kind = "status" => p[k].status = decided
  BY <1>3, <1>4, Zenon DEF SaysStatus
<1> QED
  BY <1>2, <1>5, Zenon DEF SaysStatus

LEMMA SaysTail ==
    ASSUME NEW S, NEW q \in Seq(S), q # <<>>, NEW decided, SaysStatus(q, decided)
    PROVE  /\ SaysStatus(Tail(q), decided)
           /\ Head(q).kind = "status" => Head(q).status = decided
<1>1. PICK p : p = Tail(q)
  OBVIOUS
<1>2. PICK h : h = Head(q)
  OBVIOUS
<1>3. /\ h = q[1] /\ 1 \in DOMAIN q
      /\ \A k \in DOMAIN p : k \in Nat /\ k + 1 \in DOMAIN q /\ p[k] = q[k + 1]
  BY <1>1, <1>2, TailPlaces
<1>4. SaysStatus(p, decided) /\ (h.kind = "status" => h.status = decided)
  BY <1>3, Zenon DEF SaysStatus
<1> QED
  BY <1>1, <1>2, <1>4, Zenon

\* A write that is a status says one.
LEMMA StatusValues ==
    ASSUME NEW w \in LogWrites
    PROVE  /\ w.kind = "status" => w.status \in Statuses
           /\ w.kind \in {"insert", "status", "detail", "purge", "barrier"}
           /\ w.kind = "barrier" => \E r \in Readers : w = Barrier(r)
           /\ w.kind = "purge" => w = Purge
BY DEF LogWrites, RequestWrites, Insert, Detail, Status, Purge, Barrier

LEMMA NothingDecided ==
    ASSUME NEW q \in Seq(LogWrites), SaysStatus(q, "any")
    PROVE  ~Has(q, "status")
<1>1. ASSUME NEW k \in DOMAIN q, q[k].kind = "status" PROVE FALSE
  <2>1. q[k] \in LogWrites
    OBVIOUS
  <2>2. q[k].status \in Statuses /\ q[k].status = "any"
    BY <1>1, <2>1, StatusValues DEF SaysStatus
  <2> QED BY <2>2 DEF Statuses, Terminals
<1> QED
  BY <1>1, Zenon DEF Has

-------------------------------------------------------------------------------
(* What waits and what is recorded, step by step.                             *)

Phases == {"idle", "starting", "streaming", "over"}

\* A request offers its next write.
LEMMA RecordOffer ==
    ASSUME NEW phase, NEW decided, NEW writes \in Seq(LogWrites), NEW todo \in Seq(RequestWrites),
           NEW row, NEW purges, Record(phase, decided, writes, todo, row, purges), todo # <<>>
    PROVE  Record(phase, decided, Append(writes, Head(todo)), Tail(todo), row, purges)
<1>1. PICK w : w = Head(todo)
  OBVIOUS
<1>2. PICK q : q = Tail(todo)
  OBVIOUS
<1>3. PICK p : p = Append(writes, w)
  OBVIOUS
<1>4. w \in LogWrites
  BY <1>1 DEF LogWrites
<1>5. /\ InOrder(writes) /\ InOrder(todo) /\ SaysStatus(writes, decided) /\ SaysStatus(todo, decided)
      /\ Has(todo, "insert") => ~Has(writes, "insert") /\ ~Has(writes, "status") /\ ~Has(todo, "status")
      /\ Has(todo, "status") => ~Has(writes, "status")
  BY Zenon DEF Record
<1>6. \A kind : Has(todo, kind) <=> w.kind = kind \/ Has(q, kind)
  BY <1>1, <1>2, HasTail, Zenon
<1>7. \A kind : Has(p, kind) <=> Has(writes, kind) \/ w.kind = kind
  BY <1>3, <1>4, HasAppend, Zenon
<1>8. InOrder(q) /\ (w.kind = "insert" => ~Has(q, "insert")) /\ (w.kind = "status" => ~Has(q, "status"))
  BY <1>1, <1>2, <1>5, OrderTail, Zenon
<1>9. SaysStatus(q, decided) /\ (w.kind = "status" => w.status = decided)
  BY <1>1, <1>2, <1>5, SaysTail, Zenon
<1>10. InOrder(p)
  BY <1>3, <1>4, <1>5, <1>6, OrderAppend, Zenon
<1>11. SaysStatus(p, decided)
  BY <1>3, <1>4, <1>5, <1>9, SaysAppend, Zenon
<1>12. Has(q, "insert") => ~Has(q, "status")
  BY <1>5, <1>6
<1>13. w.kind = "insert" => w.kind # "status"
  OBVIOUS
<1>14. Record(phase, decided, p, q, row, purges)
  BY <1>5, <1>6, <1>7, <1>8, <1>9, <1>10, <1>11, <1>12, <1>13 DEF Record
<1> QED
  BY <1>1, <1>2, <1>3, <1>14, Zenon

\* A marker joins the queue.
LEMMA RecordMarker ==
    ASSUME NEW phase, NEW decided, NEW writes \in Seq(LogWrites), NEW todo, NEW row, NEW purges,
           NEW w \in LogWrites, w.kind \in {"barrier", "purge"},
           Record(phase, decided, writes, todo, row, purges)
    PROVE  Record(phase, decided, Append(writes, w), todo, row, purges)
<1>1. PICK p : p = Append(writes, w)
  OBVIOUS
<1>2. w.kind # "insert" /\ w.kind # "status"
  OBVIOUS
<1>3. InOrder(writes) /\ SaysStatus(writes, decided)
  BY Zenon DEF Record
<1>4. InOrder(p)
  BY <1>1, <1>2, <1>3, OrderAppend, Zenon
<1>5. SaysStatus(p, decided)
  BY <1>1, <1>2, <1>3, SaysAppend, Zenon
<1>6. \A kind : Has(p, kind) <=> Has(writes, kind) \/ w.kind = kind
  BY <1>1, HasAppend, Zenon
<1>7. (Has(p, "insert") <=> Has(writes, "insert")) /\ (Has(p, "status") <=> Has(writes, "status"))
  BY <1>2, <1>6
<1>8. Record(phase, decided, p, todo, row, purges)
  BY <1>4, <1>5, <1>7 DEF Record
<1> QED
  BY <1>1, <1>8, Zenon

\* The writer takes the next write; a purge leaves no record.
LEMMA RecordNext ==
    ASSUME NEW phase, NEW decided \in Statuses \cup {"any"}, NEW writes \in Seq(LogWrites),
           NEW todo, NEW row \in Rows, NEW purges \in Nat, writes # <<>>,
           Record(phase, decided, writes, todo, row, purges),
           NEW r, r = IF Head(writes).kind = "purge" THEN NoRow ELSE Written(row, Head(writes)),
           Head(writes).kind = "purge" => purges > 0
    PROVE  Record(phase, decided, Tail(writes), todo, r, purges)
<1>1. PICK w : w = Head(writes)
  OBVIOUS
<1>2. PICK q : q = Tail(writes)
  OBVIOUS
<1>3. w \in LogWrites
  BY <1>1
<1>4. InOrder(writes) /\ SaysStatus(writes, decided)
  BY Zenon DEF Record
<1>5. \A kind : Has(writes, kind) <=> w.kind = kind \/ Has(q, kind)
  BY <1>1, <1>2, HasTail, Zenon
<1>6. /\ InOrder(q) /\ (w.kind = "insert" => ~Has(q, "insert"))
      /\ w.kind = "status" => ~Has(q, "status") /\ ~Has(q, "insert")
  BY <1>1, <1>2, <1>4, OrderTail, Zenon
<1>7. SaysStatus(q, decided) /\ (w.kind = "status" => w.status = decided)
  BY <1>1, <1>2, <1>4, SaysTail, Zenon
<1>8. decided # NoRow /\ "running" # NoRow
  BY DEF Statuses, Terminals, NoRow
<1>9. r = IF w.kind = "insert" THEN "running"
          ELSE IF w.kind = "status" /\ row # NoRow THEN decided
          ELSE IF w.kind = "purge" THEN NoRow ELSE row
  <2>1. w.kind = "insert" => r = "running"
    BY <1>1 DEF Written
  <2>2. w.kind = "status" /\ row # NoRow => r = decided
    BY <1>1, <1>7 DEF Written
  <2>3. w.kind = "purge" => r = NoRow
    BY <1>1
  <2>4. w.kind # "insert" /\ ~(w.kind = "status" /\ row # NoRow) /\ w.kind # "purge" => r = row
    BY <1>1 DEF Written
  <2> QED BY <2>1, <2>2, <2>3, <2>4
<1>10. Record(phase, decided, q, todo, r, purges)
  BY <1>1, <1>5, <1>6, <1>7, <1>8, <1>9 DEF Record
<1> QED
  BY <1>2, <1>10, Zenon

\* A cleanup begins.
LEMMA RecordPurges ==
    ASSUME NEW phase, NEW decided, NEW writes, NEW todo, NEW row, NEW purges \in Nat,
           Record(phase, decided, writes, todo, row, purges)
    PROVE  Record(phase, decided, writes, todo, row, purges + 1)
<1>1. purges > 0 => purges + 1 > 0
  OBVIOUS
<1> QED
  BY <1>1, Zenon DEF Record

\* A request begins.
LEMMA RecordBegin ==
    ASSUME NEW writes \in Seq(LogWrites), NEW row, NEW purges,
           Record("idle", "any", writes, <<>>, row, purges)
    PROVE  Record("starting", "any", writes, <<Insert, Detail>>, row, purges)
<1>1. PICK todo : todo = <<Insert, Detail>>
  OBVIOUS
<1>2. /\ DOMAIN todo = {1, 2} /\ todo[1].kind = "insert" /\ todo[2].kind = "detail"
  BY <1>1 DEF Insert, Detail
<1>3. InOrder(todo) /\ SaysStatus(todo, "any") /\ Has(todo, "insert") /\ ~Has(todo, "status")
  BY <1>2 DEF InOrder, SaysStatus, Has
<1>4. InOrder(writes) /\ SaysStatus(writes, "any") /\ ~Has(writes, "insert") /\ row = NoRow
  BY Zenon DEF Record
<1>5. ~Has(writes, "status")
  BY <1>4, NothingDecided
<1>6. Record("starting", "any", writes, todo, row, purges)
  BY <1>3, <1>4, <1>5 DEF Record
<1> QED
  BY <1>1, <1>6, Zenon

\* A request goes on to its next writes; how it ended may be among them.
LEMMA RecordGoesOn ==
    ASSUME NEW phase, NEW decided, NEW writes \in Seq(LogWrites), NEW row, NEW purges,
           Record(phase, decided, writes, <<>>, row, purges), phase # "idle",
           NEW next \in {"streaming", "over"}, NEW todo, NEW verdict,
           InOrder(todo), SaysStatus(todo, verdict), ~Has(todo, "insert"),
           \/ verdict = decided /\ ~Has(todo, "status")
           \/ decided = "any" /\ verdict # "any" /\ Has(todo, "status")
    PROVE  Record(next, verdict, writes, todo, row, purges)
<1>1. ~Has(<<>>, "insert") /\ ~Has(<<>>, "status")
  BY HasEmpty, Zenon
<1>2. next # "idle" /\ next # "starting"
  OBVIOUS
<1>3. /\ InOrder(writes) /\ SaysStatus(writes, decided)
      /\ Has(writes, "insert") => row = NoRow
      /\ ~Has(writes, "insert") => row # NoRow \/ purges > 0
      /\ decided # "any" /\ ~Has(writes, "status") => ~Has(writes, "insert") /\ row \in {decided, NoRow}
  BY <1>1, Zenon DEF Record
<1>4. CASE verdict = decided /\ ~Has(todo, "status")
  BY <1>2, <1>3, <1>4 DEF Record
<1>5. CASE decided = "any" /\ verdict # "any" /\ Has(todo, "status")
  <2>1. ~Has(writes, "status")
    BY <1>3, <1>5, NothingDecided
  <2>2. SaysStatus(writes, verdict)
    BY <2>1, Zenon DEF SaysStatus, Has
  <2> QED BY <1>2, <1>3, <1>5, <2>1, <2>2 DEF Record
<1> QED
  BY <1>4, <1>5

-------------------------------------------------------------------------------
(* The event that goes out.                                                   *)

LEMMA EventShown ==
    ASSUME NEW c \in Clients, NEW e \in Events
    PROVE  /\ Shows(c, e).ok = c.ok /\ Shows(c, e).over = c.over
           /\ e.type \in Terminals => Shows(c, e).ends = Append(c.ends, e.type)
           /\ e.type \notin Terminals => Shows(c, e).ends = c.ends
<1>1. e.type \in {"created", "added", "delta", "done"} \cup Terminals
  BY DEF Events, Created, Added, Changed, Ending
<1>2. CASE e.type = "created"
  <2>1. Shows(c, e) = c /\ e.type \notin Terminals
    BY <1>2 DEF Shows, Terminals
  <2> QED BY <2>1
<1>3. CASE e.type = "added"
  <2>1. e.type \notin Terminals
    BY <1>3 DEF Terminals
  <2>2. Shows(c, e) = [c EXCEPT !.items = Append(@, Item(e.kind, TRUE, <<>>))]
    BY <1>3, Zenon DEF Shows, Terminals
  <2>3. /\ Shows(c, e).ok = c.ok /\ Shows(c, e).over = c.over /\ Shows(c, e).ends = c.ends
    BY <2>2, Zenon DEF Clients
  <2> QED BY <2>1, <2>3
<1>4. CASE e.type = "delta"
  <2>1. e.type \notin Terminals
    BY <1>4 DEF Terminals
  <2>2. Shows(c, e) = [c EXCEPT !.items[e.index + 1] = Item(@.kind, TRUE, @.text \o e.text)]
    BY <1>4, Zenon DEF Shows, Terminals
  <2>3. /\ Shows(c, e).ok = c.ok /\ Shows(c, e).over = c.over /\ Shows(c, e).ends = c.ends
    BY <2>2, Zenon DEF Clients
  <2> QED BY <2>1, <2>3
<1>5. CASE e.type = "done"
  <2>1. e.type \notin Terminals
    BY <1>5 DEF Terminals
  <2>2. Shows(c, e) = [c EXCEPT !.items[e.index + 1] = Item(@.kind, FALSE, e.text)]
    BY <1>5, Zenon DEF Shows, Terminals
  <2>3. /\ Shows(c, e).ok = c.ok /\ Shows(c, e).over = c.over /\ Shows(c, e).ends = c.ends
    BY <2>2, Zenon DEF Clients
  <2> QED BY <2>1, <2>3
<1>6. CASE e.type \in Terminals
  <2>1. e.type \notin {"created", "added", "delta", "done"}
    BY <1>6 DEF Terminals
  <2>2. Shows(c, e) = [c EXCEPT !.ends = Append(@, e.type)]
    BY <1>6, <2>1 DEF Shows
  <2>3. /\ Shows(c, e).ok = c.ok /\ Shows(c, e).over = c.over /\ Shows(c, e).ends = Append(c.ends, e.type)
    BY <2>2, Zenon DEF Clients
  <2> QED BY <1>6, <2>3
<1> QED
  BY <1>1, <1>2, <1>3, <1>4, <1>5, <1>6

\* The event at the head of the queue reaches a client that is in step.
LEMMA TellsPop ==
    ASSUME NEW c \in Clients, NEW s, NEW h, Tells(c, s, h), s.queue # <<>>,
           NEW e, e = Head(s.queue),
           NEW t, t = [s EXCEPT !.queue = Tail(s.queue)]
    PROVE  /\ e \in Events /\ c.ends = <<>>
           /\ Receive(c, e) = Shows(c, e) /\ Shows(c, e) \in Clients
           /\ Tells(Shows(c, e), t, h) /\ SameFlags(s, t) /\ t.tools = s.tools
<1>1. PICK d \in Clients : s \in Translators /\ h \in Heards /\ Reaches(c, s.queue, d) /\ Matches(s, d) /\ Carries(s, d, h)
  BY TellsPick
<1>2. PICK q : q = s.queue
  OBVIOUS
<1>3. q \in Seq(Events) /\ q # <<>> /\ e = Head(q) /\ e \in Events /\ Tail(q) \in Seq(Events)
  BY <1>1, <1>2, SlotTypes
<1>4. Fine(c, e) /\ Shows(c, e) \in Clients /\ Reaches(Shows(c, e), Tail(q), d)
  BY <1>1, <1>2, <1>3, RunPop
<1>5. Receive(c, e) = Shows(c, e) /\ c.ends = <<>>
  BY <1>4, Zenon DEF Receive, Fine
<1>6. /\ t \in Translators /\ t.queue = Tail(q)
      /\ SameFlags(s, t) /\ SameItems(s, t)
  BY <1>1, <1>2, <1>3, Zenon DEF Translators, SameFlags, SameItems
<1>7. InPhase(s)
  BY TellsPhase
<1>8. InPhase(t)
  BY <1>6, <1>7, Zenon DEF InPhase, NothingOpen, SameFlags, SameItems
<1>9. t.completed = s.completed
  BY <1>6 DEF SameFlags
<1>10. Matches(t, d)
  BY <1>1, <1>6, <1>8, <1>9, MatchSame
<1>12. Carries(t, d, h)
  <2>1. t.tools = s.tools
    BY <1>6 DEF SameItems
  <2> QED BY <2>1, <1>1, CarryAlso
<1>11. Tells(Shows(c, e), t, h)
  BY <1>4, <1>6, <1>10, <1>12, Zenon DEF Tells
<1> QED
  BY <1>3, <1>4, <1>5, <1>6, <1>11 DEF SameItems

-------------------------------------------------------------------------------
(* The steps: types, and what each changes of the log and of the request.      *)

LEMMA WriteTypes ==
    /\ Insert \in RequestWrites /\ Detail \in RequestWrites
    /\ \A s \in Statuses : Status(s) \in RequestWrites
    /\ RequestWrites \subseteq LogWrites
    /\ Purge \in LogWrites /\ Purge.kind = "purge"
    /\ \A r \in Readers : Barrier(r) \in LogWrites /\ Barrier(r).kind = "barrier" /\ Barrier(r).by = r
BY DEF RequestWrites, LogWrites, Purge, Barrier

LEMMA BodyFields ==
    ASSUME BodyOK
    PROVE  /\ body.phase \in Phases /\ body.completed \in BOOLEAN /\ body.ttft \in BOOLEAN /\ body.saved \in BOOLEAN
           /\ body.todo \in Seq(RequestWrites)
BY DEF BodyOK, Phases

LEMMA LogFields ==
    ASSUME LogOK
    PROVE  /\ log.writes \in Seq(LogWrites) /\ log.row \in Rows /\ log.lost \in BOOLEAN /\ log.purges \in Nat
           /\ log.lock \in Readers \cup {Maintainer, Nobody} /\ Len(log.writes) <= Capacity
BY DEF LogOK

LEMMA OfferStep ==
    ASSUME BodyOK, LogOK, Offer
    PROVE  /\ BodyOK' /\ LogOK'
           /\ body.todo # <<>> /\ body'.todo = Tail(body.todo)
           /\ body'.phase = body.phase /\ body'.completed = body.completed
           /\ log'.row = log.row /\ log'.purges = log.purges /\ log'.lock = log.lock
           /\ log'.lost \/ (log'.writes = Append(log.writes, Head(body.todo)) /\ log'.lost = log.lost)
           /\ log'.writes \in {log.writes, Append(log.writes, Head(body.todo))}
           /\ log.lost => log'.lost
<1>1. body.todo # <<>> /\ body' = [body EXCEPT !.todo = Tail(body.todo)]
  BY DEF Offer, Busy
<1>2. body.todo \in Seq(RequestWrites)
  BY BodyFields
<1>3. Tail(body.todo) \in Seq(RequestWrites) /\ Head(body.todo) \in RequestWrites
  BY <1>1, <1>2
<1>4. /\ BodyOK' /\ body'.todo = Tail(body.todo)
      /\ body'.phase = body.phase /\ body'.completed = body.completed
  BY <1>1, <1>3, Zenon DEF BodyOK
<1>5. CASE Len(log.writes) < Capacity
  <2>1. PICK q : q = Append(log.writes, Head(body.todo))
    OBVIOUS
  <2>2. q \in Seq(LogWrites) /\ Len(q) <= Capacity
    <3>1. Head(body.todo) \in LogWrites /\ log.writes \in Seq(LogWrites)
      BY <1>3, WriteTypes, LogFields
    <3> QED BY <3>1, <2>1, <1>5, GatewayAssumption
  <2>3. log' = [log EXCEPT !.writes = q]
    BY <1>5, <2>1, Zenon DEF Offer
  <2>4. /\ LogOK' /\ log'.row = log.row /\ log'.purges = log.purges /\ log'.lock = log.lock
        /\ log'.writes = q /\ log'.lost = log.lost
    BY <2>2, <2>3, Zenon DEF LogOK
  <2> QED BY <1>1, <1>4, <2>1, <2>4
<1>6. CASE ~(Len(log.writes) < Capacity)
  <2>1. log' = [log EXCEPT !.lost = TRUE]
    BY <1>6, Zenon DEF Offer
  <2>2. /\ LogOK' /\ log'.row = log.row /\ log'.purges = log.purges /\ log'.lock = log.lock
        /\ log'.writes = log.writes /\ log'.lost = TRUE
    BY <2>1, Zenon DEF LogOK
  <2> QED BY <1>1, <1>4, <2>2
<1> QED
  BY <1>5, <1>6

LEMMA PersistStep ==
    ASSUME LogOK, NEW ok \in BOOLEAN, Persist(ok)
    PROVE  /\ LogOK' /\ log.writes # <<>> /\ log'.writes = Tail(log.writes)
           /\ Head(log.writes).kind \in {"insert", "status", "detail"}
           /\ log'.purges = log.purges /\ log'.lock = log.lock
           /\ log.lost => log'.lost
           /\ ~log'.lost => log'.row = Written(log.row, Head(log.writes))
<1>1. log.writes # <<>> /\ Head(log.writes).kind \in {"insert", "status", "detail"}
  BY DEF Persist
<1>2. PICK w : w = Head(log.writes)
  OBVIOUS
<1>3. PICK q : q = Tail(log.writes)
  OBVIOUS
<1>4. PICK row : row = IF ok THEN Written(log.row, w) ELSE log.row
  OBVIOUS
<1>5. PICK lost : lost = (log.lost \/ ~ok)
  OBVIOUS
<1>6. log.writes \in Seq(LogWrites) /\ log.row \in Rows /\ log.lost \in BOOLEAN
  BY LogFields
<1>7. q \in Seq(LogWrites) /\ w \in LogWrites /\ Len(q) <= Capacity
  <2>1. Len(log.writes) <= Capacity
    BY LogFields
  <2> QED BY <2>1, <1>1, <1>2, <1>3, <1>6, GatewayAssumption
<1>8. row \in Rows
  <2>1. w.kind = "status" => w.status \in Statuses
    BY <1>7, StatusValues
  <2>2. Written(log.row, w) \in Rows
    <3>1. w.kind = "insert" => Written(log.row, w) = "running"
      BY DEF Written
    <3>2. w.kind # "insert" /\ w.kind = "status" /\ log.row # NoRow => Written(log.row, w) = w.status
      BY DEF Written
    <3>3. w.kind # "insert" /\ ~(w.kind = "status" /\ log.row # NoRow) => Written(log.row, w) = log.row
      BY DEF Written
    <3> QED BY <2>1, <3>1, <3>2, <3>3, <1>6 DEF Rows
  <2> QED BY <2>2, <1>4, <1>6
<1>9. lost \in BOOLEAN
  BY <1>5
<1>10. log' = [log EXCEPT !.writes = q, !.row = row, !.lost = lost]
  BY <1>2, <1>3, <1>4, <1>5, Zenon DEF Persist
<1>11. /\ LogOK' /\ log'.writes = q /\ log'.row = row /\ log'.lost = lost
       /\ log'.purges = log.purges /\ log'.lock = log.lock
  BY <1>7, <1>8, <1>9, <1>10, Zenon DEF LogOK
<1> QED
  BY <1>1, <1>2, <1>3, <1>4, <1>5, <1>11

\* The steps of a reader and of the cleanup.
LEMMA ReadBeginsStep ==
    ASSUME LogOK, ReaderOK, NEW r \in Readers, ReadBegins(r), Verdict \in Statuses \cup {"any"}
    PROVE  /\ LogOK' /\ ReaderOK' /\ log.lock = Nobody /\ log'.lock = r
           /\ log'.writes = log.writes /\ log'.row = log.row /\ log'.lost = log.lost /\ log'.purges = log.purges
           /\ reader'[r].state = "locked" /\ reader'[r].since = Verdict
           /\ \A x \in Readers \ {r} : reader'[x] = reader[x]
<1>1. log' = [log EXCEPT !.lock = r] /\ log.lock = Nobody
  BY DEF ReadBegins
<1>2. /\ LogOK' /\ log'.lock = r
      /\ log'.writes = log.writes /\ log'.row = log.row /\ log'.lost = log.lost /\ log'.purges = log.purges
  BY <1>1, Zenon DEF LogOK
<1>3. PICK v : v = Verdict
  OBVIOUS
<1>4. PICK n : n = reader[r].reads + 1
  OBVIOUS
<1>5. PICK x : x = [reader[r] EXCEPT !.state = "locked", !.since = v, !.reads = n]
  OBVIOUS
<1>6. reader' = [reader EXCEPT ![r] = x]
  <2>1. reader' = [reader EXCEPT ![r].state = "locked", ![r].since = Verdict, ![r].reads = @ + 1]
    BY DEF ReadBegins
  <2> QED BY <2>1, <1>3, <1>4, <1>5, Zenon
<1>7. reader[r] \in [state : {"idle", "locked", "waiting", "flushed"},
                     since : Statuses \cup {"any"}, result : Rows, reads : Nat]
  BY Zenon DEF ReaderOK
<1>8. n \in Nat
  <2>1. reader[r].reads \in Nat
    BY <1>7, Zenon
  <2> QED BY <2>1, <1>4
<1>9. /\ x \in [state : {"idle", "locked", "waiting", "flushed"},
                since : Statuses \cup {"any"}, result : Rows, reads : Nat]
      /\ x.state = "locked" /\ x.since = v
  BY <1>3, <1>5, <1>7, <1>8, Zenon
<1>10. ReaderOK' /\ reader'[r] = x /\ \A y \in Readers \ {r} : reader'[y] = reader[y]
  BY <1>6, <1>9, Zenon DEF ReaderOK
<1> QED
  BY <1>1, <1>2, <1>3, <1>9, <1>10

LEMMA ReadFlushesStep ==
    ASSUME LogOK, ReaderOK, NEW r \in Readers, ReadFlushes(r)
    PROVE  /\ LogOK' /\ ReaderOK' /\ reader[r].state = "locked"
           /\ log'.writes = Append(log.writes, Barrier(r)) /\ log'.lock = log.lock
           /\ log'.row = log.row /\ log'.lost = log.lost /\ log'.purges = log.purges
           /\ reader'[r].state = "waiting" /\ reader'[r].since = reader[r].since
           /\ \A x \in Readers \ {r} : reader'[x] = reader[x]
<1>1. PICK q : q = Append(log.writes, Barrier(r))
  OBVIOUS
<1>2. q \in Seq(LogWrites) /\ Len(q) <= Capacity
  <2>1. log.writes \in Seq(LogWrites) /\ Barrier(r) \in LogWrites /\ Len(log.writes) < Capacity
    BY LogFields, WriteTypes DEF ReadFlushes
  <2> QED BY <2>1, <1>1, GatewayAssumption
<1>3. log' = [log EXCEPT !.writes = q] /\ reader[r].state = "locked"
  BY <1>1, Zenon DEF ReadFlushes
<1>4. /\ LogOK' /\ log'.writes = q /\ log'.lock = log.lock
      /\ log'.row = log.row /\ log'.lost = log.lost /\ log'.purges = log.purges
  BY <1>2, <1>3, Zenon DEF LogOK
<1>5. PICK x : x = [reader[r] EXCEPT !.state = "waiting"]
  OBVIOUS
<1>6. reader' = [reader EXCEPT ![r] = x]
  <2>1. reader' = [reader EXCEPT ![r].state = "waiting"]
    BY DEF ReadFlushes
  <2> QED BY <2>1, <1>5, Zenon
<1>7. reader[r] \in [state : {"idle", "locked", "waiting", "flushed"},
                     since : Statuses \cup {"any"}, result : Rows, reads : Nat]
  BY Zenon DEF ReaderOK
<1>8. /\ x \in [state : {"idle", "locked", "waiting", "flushed"},
                since : Statuses \cup {"any"}, result : Rows, reads : Nat]
      /\ x.state = "waiting" /\ x.since = reader[r].since
  BY <1>5, <1>7, Zenon
<1>9. ReaderOK' /\ reader'[r] = x /\ \A y \in Readers \ {r} : reader'[y] = reader[y]
  BY <1>6, <1>8, Zenon DEF ReaderOK
<1> QED
  BY <1>1, <1>3, <1>4, <1>8, <1>9

LEMMA FlushedStep ==
    ASSUME LogOK, ReaderOK, NEW r \in Readers, Flushed(r)
    PROVE  /\ LogOK' /\ ReaderOK' /\ log.writes # <<>> /\ Head(log.writes) = Barrier(r)
           /\ log'.writes = Tail(log.writes) /\ log'.lock = log.lock
           /\ log'.row = log.row /\ log'.lost = log.lost /\ log'.purges = log.purges
           /\ reader'[r].state = "flushed" /\ reader'[r].since = reader[r].since
           /\ \A x \in Readers \ {r} : reader'[x] = reader[x]
<1>1. PICK q : q = Tail(log.writes)
  OBVIOUS
<1>2. log.writes # <<>> /\ Head(log.writes) = Barrier(r)
  BY DEF Flushed, NextIs
<1>3. q \in Seq(LogWrites) /\ Len(q) <= Capacity
  <2>1. log.writes \in Seq(LogWrites) /\ Len(log.writes) <= Capacity
    BY LogFields
  <2> QED BY <2>1, <1>1, <1>2, GatewayAssumption
<1>4. log' = [log EXCEPT !.writes = q]
  BY <1>1, Zenon DEF Flushed
<1>5. /\ LogOK' /\ log'.writes = q /\ log'.lock = log.lock
      /\ log'.row = log.row /\ log'.lost = log.lost /\ log'.purges = log.purges
  BY <1>3, <1>4, Zenon DEF LogOK
<1>6. PICK x : x = [reader[r] EXCEPT !.state = "flushed"]
  OBVIOUS
<1>7. reader' = [reader EXCEPT ![r] = x]
  <2>1. reader' = [reader EXCEPT ![r].state = "flushed"]
    BY DEF Flushed
  <2> QED BY <2>1, <1>6, Zenon
<1>8. reader[r] \in [state : {"idle", "locked", "waiting", "flushed"},
                     since : Statuses \cup {"any"}, result : Rows, reads : Nat]
  BY Zenon DEF ReaderOK
<1>9. /\ x \in [state : {"idle", "locked", "waiting", "flushed"},
                since : Statuses \cup {"any"}, result : Rows, reads : Nat]
      /\ x.state = "flushed" /\ x.since = reader[r].since
  BY <1>6, <1>8, Zenon
<1>10. ReaderOK' /\ reader'[r] = x /\ \A y \in Readers \ {r} : reader'[y] = reader[y]
  BY <1>7, <1>9, Zenon DEF ReaderOK
<1> QED
  BY <1>1, <1>2, <1>5, <1>9, <1>10

LEMMA ReadReturnsStep ==
    ASSUME LogOK, ReaderOK, NEW r \in Readers, ReadReturns(r)
    PROVE  /\ LogOK' /\ ReaderOK' /\ reader[r].state = "flushed"
           /\ log'.writes = log.writes /\ log'.lock = Nobody
           /\ log'.row = log.row /\ log'.lost = log.lost /\ log'.purges = log.purges
           /\ reader'[r].state = "idle" /\ reader'[r].since = reader[r].since /\ reader'[r].result = log.row
           /\ \A x \in Readers \ {r} : reader'[x] = reader[x]
<1>1. log' = [log EXCEPT !.lock = Nobody] /\ reader[r].state = "flushed"
  BY DEF ReadReturns
<1>2. /\ LogOK' /\ log'.writes = log.writes /\ log'.lock = Nobody
      /\ log'.row = log.row /\ log'.lost = log.lost /\ log'.purges = log.purges
  BY <1>1, Zenon DEF LogOK
<1>3. PICK x : x = [reader[r] EXCEPT !.state = "idle", !.result = log.row]
  OBVIOUS
<1>4. reader' = [reader EXCEPT ![r] = x]
  <2>1. reader' = [reader EXCEPT ![r] = [reader[r] EXCEPT !.state = "idle", !.result = log.row]]
    BY DEF ReadReturns
  <2> QED BY <2>1, <1>3, Zenon
<1>5. reader[r] \in [state : {"idle", "locked", "waiting", "flushed"},
                     since : Statuses \cup {"any"}, result : Rows, reads : Nat]
  BY Zenon DEF ReaderOK
<1>6. log.row \in Rows
  BY LogFields
<1>7. /\ x \in [state : {"idle", "locked", "waiting", "flushed"},
                since : Statuses \cup {"any"}, result : Rows, reads : Nat]
      /\ x.state = "idle" /\ x.since = reader[r].since /\ x.result = log.row
  BY <1>3, <1>5, <1>6, Zenon
<1>8. ReaderOK' /\ reader'[r] = x /\ \A y \in Readers \ {r} : reader'[y] = reader[y]
  BY <1>4, <1>7, Zenon DEF ReaderOK
<1> QED
  BY <1>1, <1>2, <1>7, <1>8

LEMMA PurgeBeginsStep ==
    ASSUME LogOK, PurgeBegins
    PROVE  /\ LogOK' /\ log.lock = Nobody /\ log'.lock = Maintainer /\ log'.purges = log.purges + 1
           /\ log'.writes = log.writes /\ log'.row = log.row /\ log'.lost = log.lost
<1>1. PICK n : n = log.purges + 1
  OBVIOUS
<1>2. n \in Nat
  BY <1>1, LogFields
<1>3. log' = [log EXCEPT !.lock = Maintainer, !.purges = n] /\ log.lock = Nobody
  BY <1>1, Zenon DEF PurgeBegins
<1>4. /\ LogOK' /\ log'.lock = Maintainer /\ log'.purges = n
      /\ log'.writes = log.writes /\ log'.row = log.row /\ log'.lost = log.lost
  BY <1>2, <1>3, Zenon DEF LogOK
<1> QED
  BY <1>1, <1>3, <1>4

LEMMA PurgeSentStep ==
    ASSUME LogOK, PurgeSent
    PROVE  /\ LogOK' /\ log.lock = Maintainer /\ ~Has(log.writes, "purge")
           /\ log'.writes = Append(log.writes, Purge) /\ log'.lock = log.lock
           /\ log'.row = log.row /\ log'.lost = log.lost /\ log'.purges = log.purges
<1>1. PICK q : q = Append(log.writes, Purge)
  OBVIOUS
<1>2. log.writes \in Seq(LogWrites)
  BY LogFields
<1>3. q \in Seq(LogWrites) /\ Len(q) <= Capacity
  <2>1. Purge \in LogWrites /\ Len(log.writes) < Capacity
    BY WriteTypes DEF PurgeSent
  <2> QED BY <2>1, <1>1, <1>2, GatewayAssumption
<1>4. log' = [log EXCEPT !.writes = q]
  BY <1>1, Zenon DEF PurgeSent
<1>5. /\ LogOK' /\ log'.writes = q /\ log'.lock = log.lock
      /\ log'.row = log.row /\ log'.lost = log.lost /\ log'.purges = log.purges
  BY <1>3, <1>4, Zenon DEF LogOK
<1>6. ~Has(log.writes, "purge")
  <2>1. ASSUME NEW k \in DOMAIN log.writes, log.writes[k].kind = "purge" PROVE FALSE
    <3>1. log.writes[k] \in LogWrites /\ log.writes[k] # Purge
      BY <1>2 DEF PurgeSent
    <3> QED BY <2>1, <3>1, StatusValues
  <2> QED BY <2>1, Zenon DEF Has
<1>7. log.lock = Maintainer
  BY DEF PurgeSent
<1> QED
  BY <1>1, <1>5, <1>6, <1>7

LEMMA PurgedStep ==
    ASSUME LogOK, Purged
    PROVE  /\ LogOK' /\ log.writes # <<>> /\ Head(log.writes) = Purge
           /\ log'.writes = Tail(log.writes) /\ log'.lock = Nobody /\ log'.row = NoRow
           /\ log'.lost = log.lost /\ log'.purges = log.purges
<1>1. PICK q : q = Tail(log.writes)
  OBVIOUS
<1>2. log.writes # <<>> /\ Head(log.writes) = Purge
  BY DEF Purged, NextIs
<1>3. q \in Seq(LogWrites) /\ Len(q) <= Capacity
  <2>1. log.writes \in Seq(LogWrites) /\ Len(log.writes) <= Capacity
    BY LogFields
  <2> QED BY <2>1, <1>1, <1>2, GatewayAssumption
<1>4. log' = [log EXCEPT !.writes = q, !.row = NoRow, !.lock = Nobody]
  BY <1>1, Zenon DEF Purged
<1>5. NoRow \in Rows
  BY DEF Rows
<1>6. /\ LogOK' /\ log'.writes = q /\ log'.lock = Nobody /\ log'.row = NoRow
      /\ log'.lost = log.lost /\ log'.purges = log.purges
  BY <1>3, <1>4, <1>5, Zenon DEF LogOK
<1> QED
  BY <1>1, <1>2, <1>6

-------------------------------------------------------------------------------
(* The steps: the request.                                                     *)

Plain(todo) == InOrder(todo) /\ ~Has(todo, "insert") /\ ~Has(todo, "status")

Final(todo, status) ==
    InOrder(todo) /\ ~Has(todo, "insert") /\ Has(todo, "status") /\ SaysStatus(todo, status)

LEMMA TodoKinds ==
    /\ Plain(<<>>) /\ Plain(<<Detail>>)
    /\ \A x \in Statuses : /\ Final(<<Status(x)>>, x)
                           /\ Final(<<Detail, Status(x)>>, x)
                           /\ Final(<<Status(x), Detail>>, x)
<1>1. Plain(<<>>)
  BY DEF Plain, InOrder, Has
<1>2. Plain(<<Detail>>)
  <2>1. PICK q : q = <<Detail>>
    OBVIOUS
  <2>2. DOMAIN q = {1} /\ q[1].kind = "detail"
    BY <2>1 DEF Detail
  <2>3. Plain(q)
    BY <2>2 DEF Plain, InOrder, Has
  <2> QED BY <2>1, <2>3
<1>3. ASSUME NEW x \in Statuses PROVE Final(<<Status(x)>>, x)
  <2>1. PICK q : q = <<Status(x)>>
    OBVIOUS
  <2>2. DOMAIN q = {1} /\ q[1].kind = "status" /\ q[1].status = x
    BY <2>1 DEF Status
  <2>3. Final(q, x)
    BY <2>2 DEF Final, InOrder, Has, SaysStatus
  <2> QED BY <2>1, <2>3
<1>4. ASSUME NEW x \in Statuses PROVE Final(<<Detail, Status(x)>>, x)
  <2>1. PICK q : q = <<Detail, Status(x)>>
    OBVIOUS
  <2>2. DOMAIN q = {1, 2} /\ q[1].kind = "detail" /\ q[2].kind = "status" /\ q[2].status = x
    BY <2>1 DEF Status, Detail
  <2>3. Final(q, x)
    BY <2>2 DEF Final, InOrder, Has, SaysStatus
  <2> QED BY <2>1, <2>3
<1>5. ASSUME NEW x \in Statuses PROVE Final(<<Status(x), Detail>>, x)
  <2>1. PICK q : q = <<Status(x), Detail>>
    OBVIOUS
  <2>2. DOMAIN q = {1, 2} /\ q[1].kind = "status" /\ q[1].status = x /\ q[2].kind = "detail"
    BY <2>1 DEF Status, Detail
  <2>3. Final(q, x)
    BY <2>2 DEF Final, InOrder, Has, SaysStatus
  <2> QED BY <2>1, <2>3
<1> QED
  BY <1>1, <1>2, <1>3, <1>4, <1>5

LEMMA PairConcat ==
    ASSUME NEW v, NEW w
    PROVE  <<v>> \o <<w>> = <<v, w>>
<1>1. PICK S : S = {v, w}
  OBVIOUS
<1>2. PICK s : s = <<v>>
  OBVIOUS
<1>3. PICK t : t = <<w>>
  OBVIOUS
<1>4. s \in Seq(S) /\ t \in Seq(S) /\ Len(s) = 1 /\ Len(t) = 1 /\ s[1] = v /\ t[1] = w
  BY <1>1, <1>2, <1>3
<1>5. PICK p : p = s \o t
  OBVIOUS
<1>6. p \in Seq(S) /\ Len(p) = 2 /\ p[1] = v /\ p[2] = w
  BY <1>4, <1>5, ConcatProperties
<1>7. p = <<v, w>>
  BY <1>6
<1> QED
  BY <1>2, <1>3, <1>5, <1>7

\* What a request has left to write when its stream is over.
LEMMA LastWrites ==
    ASSUME NEW completed \in BOOLEAN, NEW copy \in {<<>>, <<Detail>>}, NEW x \in Statuses,
           NEW end, end = IF completed THEN <<>> ELSE <<Status(x)>>,
           NEW todo \in {copy \o end, end \o copy}
    PROVE  /\ todo \in Seq(RequestWrites)
           /\ completed => Plain(todo)
           /\ ~completed => Final(todo, x)
<1>1. Detail \in RequestWrites /\ Status(x) \in RequestWrites
  BY WriteTypes
<1>2. CASE completed
  <2>1. todo \in {<<>>, <<Detail>>}
    BY <1>1, <1>2
  <2>2. todo \in Seq(RequestWrites)
    BY <1>1, <2>1
  <2> QED BY <1>2, <2>1, <2>2, TodoKinds
<1>3. CASE ~completed
  <2>1. todo \in {<<Status(x)>>, <<Detail, Status(x)>>, <<Status(x), Detail>>}
    <3>1. PICK w : w = Status(x)
      OBVIOUS
    <3>2. PICK v : v = Detail
      OBVIOUS
    <3>3. end = <<w>> /\ copy \in {<<>>, <<v>>}
      BY <1>3, <3>1, <3>2
    <3>4. /\ <<>> \o <<w>> = <<w>> /\ <<w>> \o <<>> = <<w>>
          /\ <<v>> \o <<w>> = <<v, w>> /\ <<w>> \o <<v>> = <<w, v>>
      <4>1. <<>> \o <<w>> = <<w>> /\ <<w>> \o <<>> = <<w>>
        OBVIOUS
      <4>2. <<v>> \o <<w>> = <<v, w>> /\ <<w>> \o <<v>> = <<w, v>>
        BY PairConcat
      <4> QED BY <4>1, <4>2
    <3>5. todo \in {<<w>>, <<v, w>>, <<w, v>>}
      BY <3>3, <3>4, Zenon
    <3> QED BY <3>1, <3>2, <3>5
  <2>2. todo \in Seq(RequestWrites)
    BY <1>1, <2>1
  <2> QED BY <1>3, <2>1, <2>2, TodoKinds
<1> QED
  BY <1>2, <1>3

\* The request goes on, and how it ends is decided at most once.
GoesOn ==
    /\ body.todo = <<>> /\ body.phase \in {"starting", "streaming"} /\ body'.phase \in {"streaming", "over"}
    /\ \/ Decided' = Decided /\ Plain(body'.todo)
       \/ Decided = "any" /\ Decided' \in Statuses /\ Final(body'.todo, Decided')

Inner == UpstreamOK /\ BodyOK /\ Told /\ ReasonInv /\ TapInv

LEMMA DecidedTypes ==
    ASSUME client \in Clients
    PROVE  Decided \in Statuses \cup {"any"}
<1>1. client.ends \in Seq(Terminals)
  BY DEF Clients
<1>2. client.ends # <<>> => Head(client.ends) \in Terminals
  BY <1>1
<1>3. client.ends # <<>> => Decided = Head(client.ends)
  BY DEF Decided
<1>4. client.ends = <<>> /\ client.over = "left" => Decided = "cancelled"
  BY DEF Decided
<1>5. client.ends = <<>> /\ client.over \in {"ended", "error"} => Decided = "failed"
  BY DEF Decided
<1>6. client.ends = <<>> /\ client.over \notin {"left", "ended", "error"} => Decided = "any"
  BY DEF Decided
<1> QED
  BY <1>2, <1>3, <1>4, <1>5, <1>6 DEF Statuses, Terminals

LEMMA VerdictTypes ==
    ASSUME client \in Clients
    PROVE  Verdict \in Statuses \cup {"any"}
BY DecidedTypes DEF Verdict

\* The client learns that the body is over.
LEMMA ClientLeft ==
    ASSUME client \in Clients, NEW over \in Overs, client' = [client EXCEPT !.over = over]
    PROVE  /\ client' \in Clients /\ client'.over = over
           /\ client'.items = client.items /\ client'.ends = client.ends /\ client'.ok = client.ok
BY Zenon DEF Clients

LEMMA SameDecided ==
    ASSUME client' = client
    PROVE  Decided' = Decided
BY Zenon DEF Decided

LEMMA SameUpstream ==
    ASSUME UpstreamOK, upstream' = upstream
    PROVE  UpstreamOK'
BY Zenon DEF UpstreamOK

LEMMA BeginStep ==
    ASSUME Inner, Begin
    PROVE  /\ Inner' /\ body.phase = "idle" /\ body.todo = <<>>
           /\ body'.phase = "starting" /\ body'.todo = <<Insert, Detail>>
           /\ Decided' = Decided /\ Decided = "any"
<1>1. body' = [body EXCEPT !.phase = "starting", !.todo = <<Insert, Detail>>] /\ body.phase = "idle"
  BY DEF Begin
<1>2. UNCHANGED <<upstream, translator, client, log, reader>>
  BY DEF Begin
<1>3. <<Insert, Detail>> \in Seq(RequestWrites)
  BY WriteTypes
<1>4. /\ BodyOK' /\ body'.phase = "starting" /\ body'.todo = <<Insert, Detail>>
      /\ body'.completed = body.completed
  <2>1. PICK todo : todo = <<Insert, Detail>>
    OBVIOUS
  <2>2. BodyOK
    BY DEF Inner
  <2>3. BodyOK' /\ body'.phase = "starting" /\ body'.todo = todo /\ body'.completed = body.completed
    BY <1>1, <1>3, <2>1, <2>2, Zenon DEF BodyOK
  <2> QED BY <2>1, <2>3
<1>5. body.todo = <<>> /\ client.ends = <<>> /\ ~body.completed /\ client.over = "no"
  BY <1>1 DEF Inner, TapInv
<1>6. UpstreamOK' /\ Decided' = Decided
  BY <1>2, SameUpstream, SameDecided DEF Inner
<1>7. Told'
  BY <1>1, <1>2 DEF Inner, Told
<1>8. ReasonInv'
  BY <1>2 DEF Inner, ReasonInv
<1>9. TapInv'
  BY <1>2, <1>4, <1>5 DEF TapInv
<1>10. Decided = "any"
  BY <1>5 DEF Decided
<1> QED
  BY <1>1, <1>4, <1>5, <1>6, <1>7, <1>8, <1>9, <1>10 DEF Inner

LEMMA StreamsStep ==
    ASSUME Inner, Streams
    PROVE  Inner' /\ GoesOn
<1>1. body' = [body EXCEPT !.phase = "streaming"] /\ body.phase = "starting" /\ body.todo = <<>>
  BY DEF Streams, Busy
<1>2. UNCHANGED <<upstream, translator, client, log, reader>>
  BY DEF Streams
<1>3. BodyOK
  BY DEF Inner
<1>4. /\ BodyOK' /\ body'.phase = "streaming" /\ body'.todo = body.todo /\ body'.completed = body.completed
  BY <1>1, <1>3, Zenon DEF BodyOK
<1>5. client.ends = <<>> /\ ~body.completed /\ client.over = "no"
  BY <1>1 DEF Inner, TapInv
<1>6. UpstreamOK' /\ Decided' = Decided
  BY <1>2, SameUpstream, SameDecided DEF Inner
<1>7. Told'
  BY <1>1, <1>2 DEF Inner, Told
<1>8. ReasonInv'
  BY <1>2 DEF Inner, ReasonInv
<1>9. TapInv'
  BY <1>2, <1>4, <1>5 DEF TapInv
<1>10. GoesOn
  BY <1>1, <1>4, <1>6, TodoKinds DEF GoesOn
<1> QED
  BY <1>4, <1>6, <1>7, <1>8, <1>9, <1>10 DEF Inner

\* The request is over, whatever the provider goes on to do: what the log is yet
\* to be told, and what the client has been told.
LEMMA RequestOver ==
    ASSUME Inner, BodyOK', UpstreamOK', client' \in Clients, client'.ok = client.ok, translator' \in Translators,
           ReasonInv', body'.phase = "over", client'.over # "no"
    PROVE  Inner'
<1>1. Told'
  BY DEF Inner, Told
<1>2. TapInv'
  BY DEF TapInv
<1> QED
  BY <1>1, <1>2 DEF Inner

LEMMA StartFailsStep ==
    ASSUME Inner, StartFails
    PROVE  Inner' /\ GoesOn
<1>1. PICK todo : todo = <<Status("failed")>>
  OBVIOUS
<1>2. body' = [body EXCEPT !.phase = "over", !.todo = todo] /\ body.phase = "starting" /\ body.todo = <<>>
  BY <1>1 DEF StartFails, Busy
<1>3. UNCHANGED <<upstream, translator, log, reader>> /\ client' = [client EXCEPT !.over = "error"]
  BY DEF StartFails
<1>4. BodyOK /\ client \in Clients /\ translator \in Translators /\ UpstreamOK /\ ReasonInv
  BY DEF Inner, Told
<1>5. todo \in Seq(RequestWrites) /\ Final(todo, "failed") /\ "failed" \in Statuses
  <2>1. "failed" \in Statuses
    BY DEF Statuses, Terminals
  <2>2. Status("failed") \in RequestWrites
    BY <2>1, WriteTypes
  <2>3. Final(<<Status("failed")>>, "failed")
    BY <2>1, TodoKinds, Zenon
  <2> QED BY <1>1, <2>1, <2>2, <2>3
<1>6. /\ BodyOK' /\ body'.phase = "over" /\ body'.todo = todo
  BY <1>2, <1>4, <1>5, Zenon DEF BodyOK
<1>7. client.ends = <<>> /\ client.over = "no"
  BY <1>2 DEF Inner, TapInv
<1>8. client' \in Clients /\ client'.over = "error" /\ client'.ends = client.ends /\ client'.ok = client.ok
  <2>1. "error" \in Overs
    BY DEF Overs
  <2> QED BY <2>1, <1>3, <1>4, ClientLeft
<1>9. UpstreamOK' /\ translator' \in Translators /\ ReasonInv'
  BY <1>3, <1>4, SameUpstream DEF ReasonInv
<1>10. Inner'
  BY <1>6, <1>8, <1>9, RequestOver
<1>11. Decided = "any" /\ Decided' = "failed"
  BY <1>7, <1>8 DEF Decided
<1>12. GoesOn
  BY <1>2, <1>5, <1>6, <1>11 DEF GoesOn
<1> QED
  BY <1>10, <1>12

LEMMA AbandonStep ==
    ASSUME Inner, Abandon
    PROVE  Inner' /\ GoesOn
<1>1. body' = [body EXCEPT !.phase = "over"] /\ body.phase = "starting" /\ body.todo = <<>>
  BY DEF Abandon, Busy
<1>2. UNCHANGED <<upstream, translator, log, reader>> /\ client' = [client EXCEPT !.over = "abandoned"]
  BY DEF Abandon
<1>3. BodyOK /\ client \in Clients /\ translator \in Translators /\ UpstreamOK /\ ReasonInv
  BY DEF Inner, Told
<1>4. BodyOK' /\ body'.phase = "over" /\ body'.todo = body.todo
  BY <1>1, <1>3, Zenon DEF BodyOK
<1>5. client.ends = <<>> /\ client.over = "no"
  BY <1>1 DEF Inner, TapInv
<1>6. client' \in Clients /\ client'.over = "abandoned" /\ client'.ends = client.ends /\ client'.ok = client.ok
  <2>1. "abandoned" \in Overs
    BY DEF Overs
  <2> QED BY <2>1, <1>2, <1>3, ClientLeft
<1>7. UpstreamOK' /\ translator' \in Translators /\ ReasonInv'
  BY <1>2, <1>3, SameUpstream DEF ReasonInv
<1>8. Inner'
  BY <1>4, <1>6, <1>7, RequestOver
<1>9. Decided = "any" /\ Decided' = "any"
  BY <1>5, <1>6 DEF Decided
<1>10. GoesOn
  BY <1>1, <1>4, <1>9, TodoKinds DEF GoesOn
<1> QED
  BY <1>8, <1>10

\* The body is over: the tap records how, unless it has seen the end.
EndsAs(over, x, todo) ==
    /\ body.phase = "streaming" /\ body.todo = <<>>
    /\ \/ over = "left" /\ x = "cancelled"
       \/ over \in {"ended", "error"} /\ x = "failed"
    /\ \E copy \in {<<>>, <<Detail>>}, end \in {IF body.completed THEN <<>> ELSE <<Status(x)>>} :
          todo \in {copy \o end, end \o copy}
    /\ body' = [body EXCEPT !.phase = "over", !.completed = TRUE, !.saved = TRUE, !.todo = todo]
    /\ client' = [client EXCEPT !.over = over]

LEMMA StreamOver ==
    ASSUME Inner, NEW over, NEW x, NEW todo, EndsAs(over, x, todo),
           UpstreamOK', translator' \in Translators, ReasonInv'
    PROVE  Inner' /\ GoesOn
<1>a. /\ body.phase = "streaming" /\ body.todo = <<>>
      /\ (over = "left" /\ x = "cancelled") \/ (over \in {"ended", "error"} /\ x = "failed")
      /\ body' = [body EXCEPT !.phase = "over", !.completed = TRUE, !.saved = TRUE, !.todo = todo]
      /\ client' = [client EXCEPT !.over = over]
  BY Zenon DEF EndsAs
<1>b. PICK copy \in {<<>>, <<Detail>>}, end \in {IF body.completed THEN <<>> ELSE <<Status(x)>>} :
          todo \in {copy \o end, end \o copy}
  BY Zenon DEF EndsAs
<1>c. end = IF body.completed THEN <<>> ELSE <<Status(x)>>
  BY <1>b
<1>1. BodyOK /\ client \in Clients /\ body.completed \in BOOLEAN
  BY BodyFields DEF Inner, Told
<1>2. x \in Statuses /\ over \in Overs /\ over # "no"
  BY <1>a DEF Statuses, Terminals, Overs
<1>3. /\ todo \in Seq(RequestWrites)
      /\ body.completed => Plain(todo)
      /\ ~body.completed => Final(todo, x)
  BY <1>1, <1>2, <1>b, <1>c, LastWrites, Zenon
<1>4. BodyOK' /\ body'.phase = "over" /\ body'.todo = todo
  BY <1>a, <1>1, <1>3, Zenon DEF BodyOK
<1>5. client' \in Clients /\ client'.over = over /\ client'.ends = client.ends /\ client'.ok = client.ok
  BY <1>a, <1>1, <1>2, ClientLeft, Zenon
<1>6. Inner'
  BY <1>2, <1>4, <1>5, RequestOver
<1>7. (body.completed <=> client.ends # <<>>) /\ client.over = "no"
  BY <1>a DEF Inner, TapInv
<1>p. body.todo = <<>> /\ body.phase = "streaming"
  BY <1>a
<1>8. CASE body.completed
  <2>1. Decided' = Decided
    BY <1>5, <1>7, <1>8 DEF Decided
  <2> QED BY <2>1, <1>3, <1>4, <1>6, <1>8, <1>p DEF GoesOn
<1>9. CASE ~body.completed
  <2>1. Decided = "any"
    BY <1>7, <1>9 DEF Decided
  <2>2. Decided' = x
    <3>1. client'.ends = <<>> /\ client'.over = over
      BY <1>5, <1>7, <1>9
    <3>2. CASE over = "left" /\ x = "cancelled"
      BY <3>1, <3>2 DEF Decided
    <3>3. CASE over \in {"ended", "error"} /\ x = "failed"
      BY <3>1, <3>3 DEF Decided
    <3> QED BY <1>a, <3>2, <3>3
  <2> QED BY <2>1, <2>2, <1>2, <1>3, <1>4, <1>6, <1>9, <1>p DEF GoesOn
<1> QED
  BY <1>8, <1>9

LEMMA CopyKinds ==
    Copy(body) \in {<<>>, <<Detail>>}
BY DEF Copy

LEMMA DropStep ==
    ASSUME Inner, Drop
    PROVE  Inner' /\ GoesOn
<1>1. body.phase = "streaming" /\ body.todo = <<>>
  BY DEF Drop, Busy
<1>2. UNCHANGED <<upstream, translator, log, reader>> /\ client' = [client EXCEPT !.over = "left"]
  BY DEF Drop
<1>3. UpstreamOK' /\ translator' \in Translators /\ ReasonInv'
  BY <1>2, SameUpstream DEF Inner, Told, ReasonInv
<1>4. PICK end : end = IF body.completed THEN <<>> ELSE <<Status("cancelled")>>
  OBVIOUS
<1>5. PICK copy : copy = Copy(body)
  OBVIOUS
<1>6. PICK todo : todo = end \o copy
  OBVIOUS
<1>7. body' = [body EXCEPT !.phase = "over", !.completed = TRUE, !.saved = TRUE, !.todo = todo]
  BY <1>4, <1>5, <1>6, Zenon DEF Drop
<1>8. copy \in {<<>>, <<Detail>>} /\ todo \in {copy \o end, end \o copy}
  BY <1>5, <1>6, CopyKinds
<1>9. EndsAs("left", "cancelled", todo)
  BY <1>1, <1>2, <1>4, <1>7, <1>8, Zenon DEF EndsAs
<1> QED
  BY <1>3, <1>9, StreamOver, Zenon

\* The body of the provider is over.
LEMMA TapEnded ==
    ASSUME Inner, body.phase = "streaming", body.todo = <<>>,
           NEW copy \in {<<>>, <<Detail>>}, NEW over \in {"ended", "error"},
           body' = TapEnds(body, copy), client' = [client EXCEPT !.over = over],
           UpstreamOK', translator' \in Translators, ReasonInv'
    PROVE  Inner' /\ GoesOn
<1>1. PICK end : end = IF body.completed THEN <<>> ELSE <<Status("failed")>>
  OBVIOUS
<1>2. PICK todo : todo = copy \o end
  OBVIOUS
<1>3. body' = [body EXCEPT !.phase = "over", !.completed = TRUE, !.saved = TRUE, !.todo = todo]
  BY <1>1, <1>2, Zenon DEF TapEnds
<1>4. EndsAs(over, "failed", todo)
  BY <1>1, <1>2, <1>3, Zenon DEF EndsAs
<1> QED
  BY <1>4, StreamOver, Zenon

LEMMA BreakStep ==
    ASSUME Inner, Break
    PROVE  Inner' /\ GoesOn
<1>1. body.phase = "streaming" /\ body.todo = <<>> /\ upstream.state \in {"open", "done"}
  BY DEF Break, Polled, Busy
<1>2. UNCHANGED <<translator, log, reader>> /\ client' = [client EXCEPT !.over = "error"]
  BY DEF Break
<1>3. upstream' = [upstream EXCEPT !.state = "broken"] /\ body' = TapEnds(body, Copy(body))
  BY DEF Break
<1>4. UpstreamOK /\ MaxChunks \in Nat
  BY GatewayAssumption DEF Inner
<1>5. /\ upstream' \in [state : {"open", "done", "ended", "broken"}, said : Seq(Fragments),
                        chunks : Nat, reason : Reasons, done : BOOLEAN]
      /\ upstream'.state = "broken" /\ upstream'.chunks = upstream.chunks
      /\ upstream'.said = upstream.said /\ upstream'.reason = upstream.reason
  BY <1>3, <1>4, Zenon DEF UpstreamOK
<1>6. UpstreamOK'
  <2>1. upstream.chunks \in Nat /\ upstream.chunks <= MaxChunks + 1 /\ Len(upstream.said) <= MaxParts
    BY <1>4 DEF UpstreamOK
  <2> QED BY <2>1, <1>5 DEF UpstreamOK
<1>7. translator' \in Translators /\ ReasonInv'
  BY <1>2, <1>5 DEF Inner, Told, ReasonInv
<1>8. Copy(body) \in {<<>>, <<Detail>>} /\ "error" \in {"ended", "error"}
  BY CopyKinds
<1> QED
  BY <1>1, <1>2, <1>3, <1>6, <1>7, <1>8, TapEnded, Zenon

\* An event goes out to the client, past the tap.
LEMMA PopEventStep ==
    ASSUME Inner, PopEvent
    PROVE  Inner' /\ GoesOn
<1>1. body.phase = "streaming" /\ body.todo = <<>> /\ translator.queue # <<>>
  BY DEF PopEvent, Polled, Busy
<1>2. PICK e : e = Head(translator.queue)
  OBVIOUS
<1>3. /\ translator' = [translator EXCEPT !.queue = Tail(translator.queue)]
      /\ body' = Observe(body, e) /\ client' = Receive(client, e)
      /\ UNCHANGED <<upstream, log, reader>>
  BY <1>2, Zenon DEF PopEvent
<1>4. /\ BodyOK /\ client \in Clients /\ client.ok /\ UpstreamOK
      /\ Answering(client, translator, Heard(upstream))
      /\ body.completed \in BOOLEAN /\ body.ttft \in BOOLEAN
      /\ upstream.reason = translator.reason
      /\ translator.finished => upstream.reason # "none" \/ upstream.state # "open"
  BY <1>1, BodyFields DEF Inner, Told, ReasonInv
<1>5. PICK o : o = Shows(client, e)
  OBVIOUS
<1>6. /\ e \in Events /\ client.ends = <<>> /\ client' = o /\ o \in Clients
      /\ Answering(o, translator', Heard(upstream)) /\ SameFlags(translator, translator')
  <2>1. PICK t : t = translator'
    OBVIOUS
  <2>2. t = [translator EXCEPT !.queue = Tail(translator.queue)]
    BY <1>3, <2>1
  <2>3. /\ e \in Events /\ client.ends = <<>>
        /\ Receive(client, e) = o /\ o \in Clients
        /\ Tells(o, t, Heard(upstream)) /\ SameFlags(translator, t) /\ t.tools = translator.tools
    <3>1. Tells(client, translator, Heard(upstream))
      BY <1>4 DEF Answering
    <3> QED BY <3>1, <1>1, <1>2, <1>4, <1>5, <2>2, TellsPop
  <2>4. Answering(o, t, Heard(upstream))
    BY <2>3, <1>4 DEF Answering, SameFlags
  <2> QED BY <2>1, <2>3, <2>4, <1>3
<1>7. /\ client'.ok = client.ok /\ client'.over = client.over
      /\ e.type \in Terminals => client'.ends = Append(client.ends, e.type)
      /\ e.type \notin Terminals => client'.ends = client.ends
  BY <1>4, <1>5, <1>6, EventShown
<1>8. ~body.completed /\ client.over = "no"
  BY <1>1, <1>6 DEF Inner, TapInv
<1>9. /\ BodyOK' /\ body'.phase = "streaming"
      /\ e.type \in Terminals => body'.completed /\ body'.todo = <<Status(e.type)>>
      /\ e.type \notin Terminals => ~body'.completed /\ body'.todo \in {<<>>, <<Detail>>}
  <2>1. CASE e.type = "delta" /\ ~body.ttft
    <3>1. e.type \notin Terminals
      BY <2>1 DEF Terminals
    <3>2. body' = [body EXCEPT !.ttft = TRUE, !.todo = <<Detail>>]
      BY <1>3, <2>1, Zenon DEF Observe, Terminals
    <3>3. <<Detail>> \in Seq(RequestWrites)
      BY WriteTypes
    <3>4. PICK todo : todo = <<Detail>>
      OBVIOUS
    <3>5. BodyOK' /\ body'.phase = body.phase /\ body'.completed = body.completed /\ body'.todo = todo
      BY <1>4, <3>2, <3>3, <3>4, Zenon DEF BodyOK
    <3> QED BY <1>1, <1>8, <3>1, <3>4, <3>5
  <2>2. CASE e.type \in Terminals
    <3>1. e.type # "delta"
      BY <2>2 DEF Terminals
    <3>2. PICK todo : todo = <<Status(e.type)>>
      OBVIOUS
    <3>3. body' = [body EXCEPT !.completed = TRUE, !.todo = todo]
      BY <1>3, <2>2, <3>1, <3>2, Zenon DEF Observe
    <3>4. todo \in Seq(RequestWrites)
      <4>1. e.type \in Statuses
        BY <2>2 DEF Statuses
      <4>2. Status(e.type) \in RequestWrites
        BY <4>1, WriteTypes
      <4> QED BY <4>2, <3>2
    <3>5. BodyOK' /\ body'.phase = body.phase /\ body'.completed = TRUE /\ body'.todo = todo
      BY <1>4, <3>3, <3>4, Zenon DEF BodyOK
    <3> QED BY <1>1, <2>2, <3>2, <3>5
  <2>3. CASE ~(e.type = "delta" /\ ~body.ttft) /\ e.type \notin Terminals
    <3>1. body' = body
      BY <1>3, <2>3 DEF Observe
    <3> QED BY <1>1, <1>4, <1>8, <2>3, <3>1 DEF BodyOK
  <2> QED BY <2>1, <2>2, <2>3
<1>10. UpstreamOK'
  BY <1>3, <1>4, SameUpstream
<1>11. ReasonInv'
  BY <1>3, <1>4, <1>6 DEF ReasonInv, SameFlags
<1>12. translator' \in Translators
  BY <1>6 DEF Answering, Tells
<1>13. Told'
  BY <1>3, <1>4, <1>6, <1>7, <1>12 DEF Told
<1>14. e.type \in Terminals => client'.ends # <<>> /\ Head(client'.ends) = e.type
  BY <1>6, <1>7
<1>15. TapInv'
  BY <1>6, <1>7, <1>8, <1>9, <1>14 DEF TapInv
<1>16. GoesOn
  <2>1. Decided = "any"
    BY <1>6, <1>8 DEF Decided
  <2>2. CASE e.type \in Terminals
    <3>1. Decided' = e.type
      BY <2>2, <1>14 DEF Decided
    <3>2. e.type \in Statuses
      BY <2>2 DEF Statuses
    <3>3. Final(<<Status(e.type)>>, e.type)
      BY <3>2, TodoKinds, Zenon
    <3> QED BY <2>1, <2>2, <3>1, <3>2, <3>3, <1>1, <1>9 DEF GoesOn
  <2>3. CASE e.type \notin Terminals
    <3>1. Decided' = "any"
      BY <2>3, <1>6, <1>7, <1>8 DEF Decided
    <3>2. Plain(body'.todo)
      BY <2>3, <1>9, TodoKinds
    <3> QED BY <2>1, <3>1, <3>2, <1>1, <1>9 DEF GoesOn
  <2> QED BY <2>2, <2>3
<1> QED
  BY <1>9, <1>10, <1>11, <1>13, <1>15, <1>16 DEF Inner

\* The fragments of a chunk.
LEMMA DeltasTypes ==
    ASSUME UpstreamOK, NEW reasoning \in BOOLEAN, NEW content \in BOOLEAN, NEW tools \in SUBSET Tools,
           NEW deltas, deltas = Deltas(reasoning, content, tools)
    PROVE  /\ deltas \in Seq(Fragments)
           /\ deltas = <<>> => ~reasoning /\ ~content /\ tools = {}
<1>1. PICK called : called = Ascending(tools)
  OBVIOUS
<1>2. tools \subseteq Nat /\ IsFiniteSet(tools)
  BY ToolAssumption, FS_Subset DEF Tools
<1>3. /\ IsAscending(called, tools) /\ Len(called) = Cardinality(tools) /\ Cardinality(tools) \in Nat
      /\ \A k \in 1 .. Len(called) : called[k] \in tools
  BY <1>1, <1>2, AscendingIs
<1>4. PICK n : n = Len(called)
  OBVIOUS
<1>5. n \in Nat /\ DOMAIN called = 1 .. n
  BY <1>3, <1>4 DEF IsAscending
<1>6. PICK To : To = {Reasoning, Message} \cup {Call(i) : i \in Tools}
  OBVIOUS
<1>7. PICK a : a = IF reasoning THEN <<Reasoning>> ELSE <<>>
  OBVIOUS
<1>8. PICK b : b = IF content THEN <<Message>> ELSE <<>>
  OBVIOUS
<1>9. PICK d : d = [k \in DOMAIN called |-> Call(called[k])]
  OBVIOUS
<1>10. a \in Seq(To) /\ b \in Seq(To)
  <2>1. Reasoning \in To /\ Message \in To
    BY <1>6, Zenon
  <2>2. PICK x : x = Reasoning
    OBVIOUS
  <2>3. PICK y : y = Message
    OBVIOUS
  <2> QED BY <2>1, <2>2, <2>3, <1>7, <1>8
<1>11. d \in Seq(To) /\ Len(d) = n
  <2>1. ASSUME NEW k \in 1 .. n PROVE Call(called[k]) \in To
    <3>1. called[k] \in Tools
      BY <1>3, <1>4
    <3> QED BY <3>1, <1>6, Zenon
  <2>2. d = [k \in 1 .. n |-> Call(called[k])]
    BY <1>5, <1>9
  <2>3. d \in [1 .. n -> To]
    BY <2>1, <2>2, Zenon
  <2> QED BY <2>3, <1>5
<1>12. PICK targets : targets = a \o b \o d
  OBVIOUS
<1>13. targets \in Seq(To) /\ Len(targets) = Len(a) + Len(b) + Len(d)
  <2>1. PICK ab : ab = a \o b
    OBVIOUS
  <2>2. ab \in Seq(To) /\ Len(ab) = Len(a) + Len(b)
    BY <2>1, <1>10, ConcatProperties
  <2>3. targets = ab \o d
    BY <2>1, <1>12
  <2>4. targets \in Seq(To) /\ Len(targets) = Len(ab) + Len(d)
    BY <2>2, <2>3, <1>11, ConcatProperties
  <2> QED BY <2>2, <2>4
<1>14. deltas = [k \in DOMAIN targets |-> [to |-> targets[k], part |-> Len(upstream.said) + k]]
  BY <1>1, <1>7, <1>8, <1>9, <1>12, Zenon DEF Deltas
<1>15. PICK m : m = Len(targets)
  OBVIOUS
<1>16. PICK base : base = Len(upstream.said)
  OBVIOUS
<1>17. base \in Nat
  BY <1>16 DEF UpstreamOK
<1>18. m \in Nat /\ DOMAIN targets = 1 .. m /\ \A k \in 1 .. m : targets[k] \in To
  BY <1>13, <1>15
<1>19. deltas \in [1 .. m -> Fragments]
  <2>1. ASSUME NEW k \in 1 .. m PROVE [to |-> targets[k], part |-> base + k] \in Fragments
    <3>1. base + k \in Nat \ {0}
      BY <1>17, <1>18
    <3> QED BY <3>1, <1>18, <1>6, Zenon DEF Fragments
  <2> QED BY <2>1, <1>14, <1>16, <1>18, Zenon
<1>20. deltas \in Seq(Fragments) /\ Len(deltas) = m
  BY <1>18, <1>19
<1>21. ASSUME deltas = <<>> PROVE ~reasoning /\ ~content /\ tools = {}
  <2>1. Len(a) + Len(b) + Len(d) = 0
    BY <1>13, <1>15, <1>20, <1>21
  <2>2. Len(a) = 0 /\ Len(b) = 0 /\ n = 0
    BY <2>1, <1>10, <1>11, <1>5
  <2>3. ~reasoning /\ ~content
    BY <2>2, <1>7, <1>8
  <2>4. Cardinality(tools) = 0
    BY <2>2, <1>3, <1>4
  <2>5. tools = {}
    BY <2>4, <1>2, FS_EmptySet
  <2> QED BY <2>3, <2>5
<1> QED
  BY <1>20, <1>21

PartIn(deltas, to) ==
    IF {k \in DOMAIN deltas : deltas[k].to = to} = {} THEN Absent
    ELSE deltas[CHOOSE k \in {k \in DOMAIN deltas : deltas[k].to = to} : TRUE].part

LEMMA PartTypes ==
    ASSUME NEW deltas \in Seq(Fragments), NEW to
    PROVE  /\ PartIn(deltas, to) \in Nat
           /\ deltas = <<>> => PartIn(deltas, to) = Absent
<1> DEFINE K == {k \in DOMAIN deltas : deltas[k].to = to}
<1>1. K \subseteq DOMAIN deltas
  OBVIOUS
<1>2. PartIn(deltas, to) = IF K = {} THEN Absent ELSE deltas[CHOOSE k \in K : TRUE].part
  BY Zenon DEF PartIn
<1> HIDE DEF K
<1>3. CASE K = {}
  BY <1>2, <1>3 DEF Absent
<1>4. CASE K # {}
  <2>1. PICK k : k = CHOOSE j \in K : TRUE
    OBVIOUS
  <2>2. k \in K
    BY <1>4, <2>1, Zenon
  <2>3. k \in DOMAIN deltas
    BY <2>2, <1>1
  <2>4. deltas[k] \in Fragments /\ deltas # <<>>
    BY <2>3
  <2>5. deltas[k].part \in Nat
    BY <2>4 DEF Fragments
  <2> QED BY <2>1, <2>4, <2>5, <1>2, <1>4
<1> QED
  BY <1>3, <1>4

LEMMA SaidType ==
    ASSUME NEW said \in Seq(Fragments), NEW to
    PROVE  SaidIn(said, to) \in Text
<1>1. PICK f : Sums(f, Len(said), SaidAt(said, to)) /\ SaidIn(said, to) = f[Len(said)]
  BY SaidSums
<1>2. Len(said) \in 0 .. Len(said)
  OBVIOUS
<1> QED
  BY <1>1, <1>2, Zenon DEF Sums

\* What has been said after a chunk, of which each part is of something else.
LEMMA SaidAfter ==
    ASSUME NEW said \in Seq(Fragments), NEW deltas \in Seq(Fragments), NEW to,
           \A j, k \in DOMAIN deltas : deltas[j].to = deltas[k].to => j = k
    PROVE  SaidIn(said \o deltas, to) =
              IF PartIn(deltas, to) = Absent THEN SaidIn(said, to)
              ELSE Append(SaidIn(said, to), PartIn(deltas, to))
<1>1. PICK n : n = Len(said)
  OBVIOUS
<1>2. PICK m : m = Len(deltas)
  OBVIOUS
<1>3. PICK q : q = said \o deltas
  OBVIOUS
<1>4. /\ n \in Nat /\ m \in Nat /\ n + m \in Nat /\ n <= n /\ n <= n + m
      /\ DOMAIN said = 1 .. n /\ DOMAIN deltas = 1 .. m
  BY <1>1, <1>2
<1>5. /\ q \in Seq(Fragments) /\ Len(q) = n + m /\ DOMAIN q = 1 .. n + m
      /\ \A k \in 1 .. n : k \in 1 .. n + m /\ q[k] = said[k]
      /\ \A k \in 1 .. n + m : n < k => k - n \in 1 .. m /\ q[k] = deltas[k - n]
  BY <1>1, <1>2, <1>3
<1>6. PICK g : g = SaidAt(said, to)
  OBVIOUS
<1>7. PICK e : e = SaidAt(q, to)
  OBVIOUS
<1>8. PICK f : Sums(f, n, g) /\ SaidIn(said, to) = f[n]
  BY <1>1, <1>6, SaidSums
<1>9. PICK h : Sums(h, n + m, e) /\ SaidIn(q, to) = h[n + m]
  BY <1>5, <1>7, SaidSums
<1>10. \A k \in 1 .. n : g[k] = e[k]
  BY <1>4, <1>5, <1>6, <1>7 DEF SaidAt
<1>11. f[n] = h[n]
  BY <1>4, <1>8, <1>9, <1>10, SumsAgree
<1>12. ASSUME NEW k \in 1 .. n + m, n < k, deltas[k - n].to # to PROVE e[k] = <<>>
  BY <1>12, <1>5, <1>7 DEF SaidAt
<1> DEFINE K == {k \in DOMAIN deltas : deltas[k].to = to}
<1>13. PartIn(deltas, to) = IF K = {} THEN Absent ELSE deltas[CHOOSE k \in K : TRUE].part
  BY Zenon DEF PartIn
<1>14. CASE K = {}
  <2>1. \A k \in 1 .. n + m : n < k /\ k <= n + m => e[k] = <<>>
    <3>1. ASSUME NEW k \in 1 .. n + m, n < k PROVE e[k] = <<>>
      <4>1. k - n \in DOMAIN deltas
        BY <3>1, <1>4, <1>5
      <4>2. deltas[k - n].to # to
        BY <4>1, <1>14
      <4> QED BY <3>1, <4>2, <1>12
    <3> QED BY <3>1
  <2>2. h[n + m] = h[n]
    <3>1. n + m <= n + m
      BY <1>4
    <3> QED BY <2>1, <3>1, <1>4, <1>9, SumsStay
  <2>3. PartIn(deltas, to) = Absent
    BY <1>13, <1>14, Zenon
  <2> QED BY <2>2, <2>3, <1>3, <1>8, <1>9, <1>11
<1>15. CASE K # {}
  <2>1. PICK d : d = CHOOSE k \in K : TRUE
    OBVIOUS
  <2>2. d \in K
    BY <1>15, <2>1, Zenon
  <2>3. /\ d \in 1 .. m /\ deltas[d].to = to /\ \A k \in DOMAIN deltas : deltas[k].to = to => k = d
        /\ deltas[d] \in Fragments /\ PartIn(deltas, to) = deltas[d].part
    <3>1. d \in DOMAIN deltas /\ deltas[d].to = to
      BY <2>2
    <3>2. \A k \in DOMAIN deltas : deltas[k].to = to => k = d
      BY <3>1, Zenon
    <3>3. PartIn(deltas, to) = deltas[d].part
      BY <1>13, <1>15, <2>1, Zenon
    <3> QED BY <3>1, <3>2, <3>3, <1>4
  <2>4. deltas[d].part \in Nat /\ deltas[d].part # Absent
    BY <2>3 DEF Fragments, Absent
  <2>5. PICK l : l = n + d
    OBVIOUS
  <2>6. /\ l \in 1 .. n + m /\ n < l /\ l - n = d /\ l - 1 \in Nat /\ n <= l - 1 /\ l - 1 < l
        /\ l - 1 <= n + m /\ l <= n + m /\ l \in Nat /\ l - 1 \in 0 .. n + m
    BY <1>4, <2>3, <2>5
  <2>7. e[l] = <<deltas[d].part>>
    <3>1. q[l] = deltas[d]
      BY <2>6, <1>5
    <3> QED BY <3>1, <2>3, <2>6, <1>5, <1>7 DEF SaidAt
  <2>8. ASSUME NEW k \in 1 .. n + m, n < k, k # l PROVE e[k] = <<>>
    <3>1. k - n \in DOMAIN deltas /\ k - n # d
      BY <2>8, <2>6, <1>4, <1>5
    <3>2. deltas[k - n].to # to
      BY <3>1, <2>3
    <3> QED BY <3>2, <2>8, <1>12
  <2>9. h[l - 1] = h[n]
    <3>1. \A k \in 1 .. n + m : n < k /\ k <= l - 1 => e[k] = <<>>
      <4>1. ASSUME NEW k \in 1 .. n + m, n < k, k <= l - 1 PROVE k # l
        BY <4>1, <2>6
      <4> QED BY <4>1, <2>8
    <3> QED BY <3>1, <2>6, <1>4, <1>9, SumsStay
  <2>10. h[l] = h[l - 1] \o e[l] /\ h[l - 1] \in Text
    BY <2>6, <1>9, Zenon DEF Sums
  <2>11. h[n + m] = h[l]
    <3>1. \A k \in 1 .. n + m : l < k /\ k <= n + m => e[k] = <<>>
      <4>1. ASSUME NEW k \in 1 .. n + m, l < k PROVE k # l /\ n < k
        BY <4>1, <2>6, <1>4
      <4> QED BY <4>1, <2>8
    <3>2. n + m <= n + m
      BY <1>4
    <3> QED BY <3>1, <3>2, <2>6, <1>4, <1>9, SumsStay
  <2>12. h[l - 1] \o <<deltas[d].part>> = Append(h[l - 1], deltas[d].part)
    BY <2>4, <2>10, AppendIsConcat DEF Text
  <2>13. h[n + m] = Append(f[n], deltas[d].part)
    BY <2>7, <2>9, <2>10, <2>11, <2>12, <1>11
  <2> QED BY <2>3, <2>4, <2>13, <1>3, <1>8, <1>9
<1> QED
  BY <1>14, <1>15

\* A chunk has one fragment for each thing it has something of.
LEMMA DeltasOnce ==
    ASSUME UpstreamOK, NEW reasoning \in BOOLEAN, NEW content \in BOOLEAN, NEW tools \in SUBSET Tools,
           NEW deltas, deltas = Deltas(reasoning, content, tools)
    PROVE  /\ \A j, k \in DOMAIN deltas : deltas[j].to = deltas[k].to => j = k
           /\ \A i \in Tools : (\E k \in DOMAIN deltas : deltas[k].to = Call(i)) <=> i \in tools
<1>1. PICK called : called = Ascending(tools)
  OBVIOUS
<1>2. tools \subseteq Nat /\ IsFiniteSet(tools)
  BY ToolAssumption, FS_Subset DEF Tools
<1>3. PICK n : n = Len(called)
  OBVIOUS
<1>4. /\ n \in Nat /\ DOMAIN called = 1 .. n /\ \A k \in 1 .. n : called[k] \in tools
      /\ \A j, k \in 1 .. n : called[j] = called[k] => j = k
      /\ \A i \in tools : \E k \in 1 .. n : called[k] = i
  <2>1. /\ IsAscending(called, tools) /\ Len(called) = Cardinality(tools) /\ Cardinality(tools) \in Nat
        /\ \A k \in 1 .. Len(called) : called[k] \in tools
        /\ \A j, k \in 1 .. Len(called) : j # k => called[j] # called[k]
    BY <1>1, <1>2, AscendingIs
  <2>2. \A i \in tools : \E k \in 1 .. Len(called) : called[k] = i
    BY <1>1, <1>2, AscendingAll
  <2>3. DOMAIN called = 1 .. n /\ n \in Nat
    BY <2>1, <1>3 DEF IsAscending
  <2> QED BY <2>1, <2>2, <2>3, <1>3
<1>5. PICK a : a = IF reasoning THEN <<Reasoning>> ELSE <<>>
  OBVIOUS
<1>6. PICK b : b = IF content THEN <<Message>> ELSE <<>>
  OBVIOUS
<1>7. PICK d : d = [k \in DOMAIN called |-> Call(called[k])]
  OBVIOUS
<1>8. PICK x : x = Len(a)
  OBVIOUS
<1>9. PICK y : y = Len(b)
  OBVIOUS
<1>10. /\ x \in {0, 1} /\ DOMAIN a = 1 .. x /\ \A k \in 1 .. x : a[k] = Reasoning
       /\ y \in {0, 1} /\ DOMAIN b = 1 .. y /\ \A k \in 1 .. y : b[k] = Message
  <2>1. ASSUME NEW flag \in BOOLEAN, NEW r, NEW q, q = IF flag THEN <<r>> ELSE <<>>
        PROVE  Len(q) \in {0, 1} /\ DOMAIN q = 1 .. Len(q) /\ \A k \in 1 .. Len(q) : q[k] = r
    <3>1. CASE flag
      BY <2>1, <3>1
    <3>2. CASE ~flag
      BY <2>1, <3>2
    <3> QED BY <3>1, <3>2
  <2>2. Len(a) \in {0, 1} /\ DOMAIN a = 1 .. Len(a) /\ \A k \in 1 .. Len(a) : a[k] = Reasoning
    BY <2>1, <1>5, ZenonT(30)
  <2>3. Len(b) \in {0, 1} /\ DOMAIN b = 1 .. Len(b) /\ \A k \in 1 .. Len(b) : b[k] = Message
    BY <2>1, <1>6, ZenonT(30)
  <2> QED BY <2>2, <2>3, <1>8, <1>9, Zenon
<1>11. d = [k \in 1 .. n |-> Call(called[k])] /\ Len(d) = n
  BY <1>4, <1>7
<1>12. PICK targets : targets = a \o b \o d
  OBVIOUS
<1>13. /\ DOMAIN targets = 1 .. x + y + n
       /\ \A k \in 1 .. x : targets[k] = Reasoning
       /\ \A k \in 1 .. y : targets[x + k] = Message
       /\ \A k \in 1 .. n : targets[x + y + k] = Call(called[k])
  <2>1. PICK ab : ab = a \o b
    OBVIOUS
  <2>2. DOMAIN ab = 1 .. x + y /\ Len(ab) = x + y
    BY <2>1, <1>8, <1>9, <1>10
  <2>3. (\A k \in 1 .. x : ab[k] = a[k]) /\ (\A k \in 1 .. y : ab[x + k] = b[k])
    BY <2>1, <1>8, <1>9, <1>10
  <2>4. targets = ab \o d
    BY <2>1, <1>12
  <2>5. DOMAIN targets = 1 .. x + y + n
    BY <2>2, <2>4, <1>4, <1>10, <1>11
  <2>6. \A k \in 1 .. x + y : targets[k] = ab[k]
    BY <2>2, <2>4, <1>4, <1>10, <1>11
  <2>7. \A k \in 1 .. n : targets[x + y + k] = d[k]
    BY <2>2, <2>4, <1>4, <1>10, <1>11, SMTT(30)
  <2>8. \A k \in 1 .. x : targets[k] = Reasoning
    <3>1. \A k \in 1 .. x : k \in 1 .. x + y
      BY <1>10
    <3> QED BY <3>1, <2>3, <2>6, <1>10
  <2>9. \A k \in 1 .. y : targets[x + k] = Message
    <3>1. \A k \in 1 .. y : x + k \in 1 .. x + y
      BY <1>10
    <3> QED BY <3>1, <2>3, <2>6, <1>10
  <2>10. \A k \in 1 .. n : targets[x + y + k] = Call(called[k])
    BY <2>7, <1>11
  <2> QED BY <2>5, <2>8, <2>9, <2>10
<1>14. \A k \in DOMAIN targets :
          \/ k \in 1 .. x
          \/ \E l \in 1 .. y : k = x + l
          \/ \E l \in 1 .. n : k = x + y + l
  <2>1. SUFFICES ASSUME NEW k \in 1 .. x + y + n, k \notin 1 .. x, ~\E l \in 1 .. y : k = x + l
                 PROVE  \E l \in 1 .. n : k = x + y + l
    BY <1>13
  <2>2. k > x /\ k > x + y
    <3>1. k > x
      BY <2>1, <1>4, <1>10
    <3>2. CASE y = 0
      BY <3>1, <3>2, <1>10
    <3>3. CASE y = 1
      <4>1. k # x + 1
        BY <2>1, <3>3
      <4> QED BY <3>1, <3>3, <4>1, <1>4, <1>10
    <3> QED BY <3>2, <3>3, <1>10
  <2>3. k - (x + y) \in 1 .. n /\ k = x + y + (k - (x + y))
    BY <2>1, <2>2, <1>4, <1>10
  <2> QED BY <2>3
<1>15. /\ Reasoning # Message
       /\ \A i : Call(i) # Reasoning /\ Call(i) # Message
       /\ \A i, j : Call(i) = Call(j) => i = j
  BY DEF Reasoning, Message, Call
<1>16. \A j, k \in DOMAIN targets : targets[j] = targets[k] => j = k
  <2>1. \A j, k \in 1 .. x : j = k
    BY <1>10
  <2>2. \A j, k \in 1 .. y : j = k
    BY <1>10
  <2>3. SUFFICES ASSUME NEW j \in DOMAIN targets, NEW k \in DOMAIN targets, targets[j] = targets[k]
                 PROVE  j = k
    OBVIOUS
  <2>4. CASE j \in 1 .. x
    BY <2>1, <2>3, <2>4, <1>13, <1>14, <1>15
  <2>5. CASE \E l \in 1 .. y : j = x + l
    BY <2>2, <2>3, <2>5, <1>13, <1>14, <1>15
  <2>6. CASE \E l \in 1 .. n : j = x + y + l
    <3>1. PICK l \in 1 .. n : j = x + y + l
      BY <2>6
    <3>2. targets[j] = Call(called[l])
      BY <3>1, <1>13
    <3>3. PICK m \in 1 .. n : k = x + y + m
      BY <3>2, <2>3, <1>13, <1>14, <1>15
    <3>4. targets[k] = Call(called[m])
      BY <3>3, <1>13
    <3>5. l = m
      BY <3>2, <3>4, <2>3, <1>4, <1>15
    <3> QED BY <3>1, <3>3, <3>5
  <2> QED BY <2>4, <2>5, <2>6, <1>14
<1>17. \A i \in Tools : (\E k \in DOMAIN targets : targets[k] = Call(i)) <=> i \in tools
  <2>1. SUFFICES ASSUME NEW i \in Tools
                 PROVE  (\E k \in DOMAIN targets : targets[k] = Call(i)) <=> i \in tools
    OBVIOUS
  <2>2. ASSUME NEW k \in DOMAIN targets, targets[k] = Call(i) PROVE i \in tools
    <3>1. PICK l \in 1 .. n : k = x + y + l
      BY <2>2, <1>13, <1>14, <1>15
    <3>2. Call(called[l]) = Call(i)
      BY <3>1, <2>2, <1>13
    <3>3. called[l] = i
      BY <3>2, <1>15
    <3> QED BY <3>1, <3>3, <1>4
  <2>3. ASSUME i \in tools PROVE \E k \in DOMAIN targets : targets[k] = Call(i)
    <3>1. PICK l \in 1 .. n : called[l] = i
      BY <2>3, <1>4
    <3>2. x + y + l \in 1 .. x + y + n
      BY <1>4, <1>10
    <3>3. targets[x + y + l] = Call(i)
      BY <3>1, <1>13
    <3> QED BY <3>2, <3>3, <1>13
  <2> QED BY <2>2, <2>3
<1>18. deltas = [k \in DOMAIN targets |-> [to |-> targets[k], part |-> Len(upstream.said) + k]]
  BY <1>1, <1>5, <1>6, <1>7, <1>12, Zenon DEF Deltas
<1>19. DOMAIN deltas = DOMAIN targets /\ \A k \in DOMAIN targets : deltas[k].to = targets[k]
  BY <1>18
<1> QED
  BY <1>16, <1>17, <1>19

\* The chunk has a part of a thing if one of its fragments is of it.
LEMMA PartThere ==
    ASSUME NEW deltas \in Seq(Fragments), NEW to
    PROVE  PartIn(deltas, to) # Absent <=> \E k \in DOMAIN deltas : deltas[k].to = to
<1> DEFINE K == {k \in DOMAIN deltas : deltas[k].to = to}
<1>1. \A k \in K : deltas[k].part # Absent
  <2>1. \A k \in DOMAIN deltas : deltas[k] \in Fragments
    OBVIOUS
  <2> QED BY <2>1 DEF Fragments, Absent
<1>2. PartIn(deltas, to) = IF K = {} THEN Absent ELSE deltas[CHOOSE k \in K : TRUE].part
  BY Zenon DEF PartIn
<1>3. K # {} <=> \E k \in DOMAIN deltas : deltas[k].to = to
  OBVIOUS
<1> HIDE DEF K
<1>4. K # {} => (CHOOSE k \in K : TRUE) \in K
  BY Zenon
<1> QED
  BY <1>1, <1>2, <1>3, <1>4

LEMMA HeardTyped ==
    ASSUME NEW u, u.said \in Seq(Fragments), u.reason \in Reasons, u.done \in BOOLEAN
    PROVE  /\ Heard(u) \in Heards
           /\ Heard(u).meant = (u.reason # "none" \/ u.done) /\ Heard(u).reason = u.reason
           /\ Heard(u).texts["message"] = SaidIn(u.said, Message)
           /\ Heard(u).texts["reasoning"] = SaidIn(u.said, Reasoning)
           /\ Heard(u).called = {i \in Tools : SaidIn(u.said, Call(i)) # <<>>}
           /\ \A i \in Tools : Heard(u).calls[i] = SaidIn(u.said, Call(i))
<1>1. \A to : SaidIn(u.said, to) \in Text
  BY SaidType
<1>2. PICK texts : texts = [kind \in Texts |-> SaidIn(u.said, IF kind = "message" THEN Message ELSE Reasoning)]
  OBVIOUS
<1>3. PICK calls : calls = [i \in Tools |-> SaidIn(u.said, Call(i))]
  OBVIOUS
<1>4. PICK called : called = {i \in Tools : SaidIn(u.said, Call(i)) # <<>>}
  OBVIOUS
<1>5. PICK meant : meant = (u.reason # "none" \/ u.done)
  OBVIOUS
<1>6. Heard(u) = [texts |-> texts, called |-> called, calls |-> calls, meant |-> meant, reason |-> u.reason]
  BY <1>2, <1>3, <1>4, <1>5, Zenon DEF Heard
<1>7. /\ texts \in [Texts -> Text] /\ calls \in [Tools -> Text]
      /\ called \in SUBSET Tools /\ meant \in BOOLEAN
  <2>1. called \in SUBSET Tools /\ meant \in BOOLEAN
    BY <1>4, <1>5
  <2> QED BY <2>1, <1>1, <1>2, <1>3, Zenon
<1>8. /\ texts["message"] = SaidIn(u.said, Message)
      /\ texts["reasoning"] = SaidIn(u.said, Reasoning)
  <2>1. "message" \in Texts /\ "reasoning" \in Texts /\ "reasoning" # "message"
    BY DEF Texts
  <2> QED BY <2>1, <1>2, Zenon
<1>9. \A i \in Tools : calls[i] = SaidIn(u.said, Call(i))
  BY <1>3, Zenon
<1>10. PICK h : h = Heard(u)
  OBVIOUS
<1>11. /\ h.texts = texts /\ h.called = called /\ h.calls = calls
       /\ h.meant = meant /\ h.reason = u.reason
  BY <1>6, <1>10
<1>12. h \in Heards
  BY <1>6, <1>7, <1>10 DEF Heards
<1> QED
  BY <1>4, <1>5, <1>8, <1>9, <1>10, <1>11, <1>12, Zenon

LEMMA SomethingSaid ==
    ASSUME NEW w \in Text, NEW part \in Nat
    PROVE  Append(w, part) # <<>>
  BY AppendProperties DEF Text

\* A chunk with these fragments, at most one for each text and call.
Carrying(chunk, deltas, tools, reason) ==
    /\ \A j, k \in DOMAIN deltas : deltas[j].to = deltas[k].to => j = k
    /\ \A i \in Tools : (\E k \in DOMAIN deltas : deltas[k].to = Call(i)) <=> i \in tools
    /\ chunk.reasoning = PartIn(deltas, Reasoning) /\ chunk.content = PartIn(deltas, Message)
    /\ chunk.tools = [i \in tools |-> PartIn(deltas, Call(i))] /\ chunk.reason = reason

SaysMore(u, v, deltas, reason) ==
    /\ v.said = u.said \o deltas /\ v.done = u.done
    /\ v.reason = (IF reason = "none" THEN u.reason ELSE reason)

\* What is heard of a provider that has sent a chunk is what was heard of it before,
\* and the chunk.
LEMMA HeardAfter ==
    ASSUME NEW u, u.said \in Seq(Fragments), u.reason \in Reasons, u.done \in BOOLEAN,
           NEW deltas \in Seq(Fragments), NEW tools \in SUBSET Tools, NEW reason \in Reasons,
           NEW chunk, Carrying(chunk, deltas, tools, reason),
           NEW v, SaysMore(u, v, deltas, reason)
    PROVE  HeardChunk(Heard(u), chunk) = Heard(v)
<1>0. /\ \A j, k \in DOMAIN deltas : deltas[j].to = deltas[k].to => j = k
      /\ \A i \in Tools : (\E k \in DOMAIN deltas : deltas[k].to = Call(i)) <=> i \in tools
      /\ chunk.reasoning = PartIn(deltas, Reasoning) /\ chunk.content = PartIn(deltas, Message)
      /\ chunk.tools = [i \in tools |-> PartIn(deltas, Call(i))] /\ chunk.reason = reason
      /\ v.said = u.said \o deltas /\ v.done = u.done
      /\ v.reason = (IF reason = "none" THEN u.reason ELSE reason)
  BY Zenon DEF Carrying, SaysMore
<1> USE <1>0
<1>1. PICK h : h = Heard(u)
  OBVIOUS
<1>2. PICK y : y = HeardChunk(h, chunk)
  OBVIOUS
<1>3. PICK z : z = Heard(v)
  OBVIOUS
<1>4. /\ h \in Heards
      /\ h.meant = (u.reason # "none" \/ u.done) /\ h.reason = u.reason
      /\ h.texts["message"] = SaidIn(u.said, Message)
      /\ h.texts["reasoning"] = SaidIn(u.said, Reasoning)
      /\ h.called = {i \in Tools : SaidIn(u.said, Call(i)) # <<>>}
      /\ \A i \in Tools : h.calls[i] = SaidIn(u.said, Call(i))
  BY <1>1, HeardTyped
<1>5. v.said \in Seq(Fragments) /\ v.reason \in Reasons /\ v.done \in BOOLEAN
  BY ConcatProperties
<1>6. /\ z \in Heards
      /\ z.meant = (v.reason # "none" \/ v.done) /\ z.reason = v.reason
      /\ z.texts["message"] = SaidIn(v.said, Message)
      /\ z.texts["reasoning"] = SaidIn(v.said, Reasoning)
      /\ z.called = {i \in Tools : SaidIn(v.said, Call(i)) # <<>>}
      /\ \A i \in Tools : z.calls[i] = SaidIn(v.said, Call(i))
  BY <1>3, <1>5, HeardTyped
<1>7. \A to : SaidIn(v.said, to) = IF PartIn(deltas, to) = Absent THEN SaidIn(u.said, to)
                                   ELSE Append(SaidIn(u.said, to), PartIn(deltas, to))
  <2>1. SUFFICES ASSUME NEW to
                 PROVE  SaidIn(v.said, to) = IF PartIn(deltas, to) = Absent THEN SaidIn(u.said, to)
                                             ELSE Append(SaidIn(u.said, to), PartIn(deltas, to))
    OBVIOUS
  <2>2. PICK said : said = u.said
    OBVIOUS
  <2>3. said \in Seq(Fragments)
    BY <2>2
  <2>4. SaidIn(said \o deltas, to) = IF PartIn(deltas, to) = Absent THEN SaidIn(said, to)
                                     ELSE Append(SaidIn(said, to), PartIn(deltas, to))
    BY <2>3, SaidAfter
  <2> QED BY <2>2, <2>4, Zenon
<1>8. /\ DOMAIN chunk.tools = tools /\ \A i \in tools : chunk.tools[i] = PartIn(deltas, Call(i))
      /\ chunk.reasoning \in Nat /\ chunk.content \in Nat /\ \A i \in tools : chunk.tools[i] \in Nat
  BY PartTypes
<1>9. IsHeardChunk(h, y, chunk)
  <2>1. DOMAIN chunk.tools \subseteq Tools /\ \A i \in DOMAIN chunk.tools : chunk.tools[i] \in Nat
    BY <1>8
  <2> QED BY <2>1, <1>2, <1>4, <1>8, HeardChunkFields
<1>10. \A i \in Tools : PartIn(deltas, Call(i)) # Absent <=> i \in tools
  BY PartThere
<1>11. \A i \in Tools : z.calls[i] = y.calls[i]
  <2>1. SUFFICES ASSUME NEW i \in Tools PROVE z.calls[i] = y.calls[i]
    OBVIOUS
  <2>2. SaidIn(v.said, Call(i)) = IF i \notin tools THEN SaidIn(u.said, Call(i))
                                  ELSE Append(SaidIn(u.said, Call(i)), PartIn(deltas, Call(i)))
    BY <1>7, <1>10
  <2>3. y.calls[i] = IF i \in tools THEN Append(h.calls[i], chunk.tools[i]) ELSE h.calls[i]
    BY <1>8, <1>9 DEF IsHeardChunk
  <2> QED BY <2>2, <2>3, <1>4, <1>6, <1>8
<1>12. z.called = y.called
  <2>1. \A i \in Tools : SaidIn(v.said, Call(i)) # <<>> <=> SaidIn(u.said, Call(i)) # <<>> \/ i \in tools
    <3>1. SUFFICES ASSUME NEW i \in Tools
                   PROVE  SaidIn(v.said, Call(i)) # <<>> <=> SaidIn(u.said, Call(i)) # <<>> \/ i \in tools
      OBVIOUS
    <3>2. PICK w : w = SaidIn(u.said, Call(i))
      OBVIOUS
    <3>3. w \in Text
      BY <3>2, SaidType
    <3>4. Append(w, PartIn(deltas, Call(i))) # <<>>
      <4>1. PICK part : part = PartIn(deltas, Call(i))
        OBVIOUS
      <4>2. part \in Nat
        BY <4>1, PartTypes
      <4>3. Append(w, part) # <<>>
        BY <4>2, <3>3, SomethingSaid, Zenon
      <4> QED BY <4>1, <4>3
    <3> QED BY <3>2, <3>4, <1>7, <1>10
  <2>2. y.called = h.called \cup tools
    BY <1>8, <1>9 DEF IsHeardChunk
  <2> QED BY <2>1, <2>2, <1>4, <1>6
<1>13. z.texts["message"] = y.texts["message"] /\ z.texts["reasoning"] = y.texts["reasoning"]
  BY <1>4, <1>6, <1>7, <1>9 DEF IsHeardChunk
<1>14. z.reason = y.reason
  BY <1>4, <1>6, <1>9 DEF IsHeardChunk
<1>15. z.meant = y.meant
  <2>1. y.meant = (h.meant \/ reason # "none")
    BY <1>9, Zenon DEF IsHeardChunk
  <2> QED BY <2>1, <1>4, <1>6
<1>16. y \in Heards
  BY <1>9 DEF IsHeardChunk
<1>17. z.calls = y.calls
  <2>1. z.calls \in [Tools -> Text] /\ y.calls \in [Tools -> Text]
    BY <1>6, <1>16, HeardTypes
  <2> QED BY <2>1, <1>11
<1>18. z.texts = y.texts
  <2>1. z.texts \in [Texts -> Text] /\ y.texts \in [Texts -> Text]
    BY <1>6, <1>16, HeardTypes
  <2>2. \A kind \in Texts : z.texts[kind] = y.texts[kind]
    BY <1>13 DEF Texts
  <2> QED BY <2>1, <2>2
<1>19. y = z
  <2>1. SameWords(y, z) /\ SameCalls(y, z)
    BY <1>6, <1>12, <1>14, <1>15, <1>16, <1>17, <1>18 DEF SameWords, SameCalls
  <2> QED BY <2>1, <1>6, <1>16, HeardSame
<1> QED
  BY <1>1, <1>2, <1>3, <1>19

LEMMA ChunkStep ==
    ASSUME Inner, NEW reasoning \in BOOLEAN, NEW content \in BOOLEAN, NEW usage \in BOOLEAN,
           NEW tools \in SUBSET Tools, NEW reason \in Reasons,
           Chunk(reasoning, content, tools, reason, usage)
    PROVE  Inner' /\ UNCHANGED <<body, client, log, reader>>
<1>1. PICK deltas : deltas = Deltas(reasoning, content, tools)
  OBVIOUS
<1> DEFINE ChunkOf(ds) ==
             [reasoning |-> PartIn(ds, Reasoning), content |-> PartIn(ds, Message),
              tools |-> [i \in tools |-> PartIn(ds, Call(i))], reason |-> reason, usage |-> usage]
<1>2. PICK chunk : chunk = ChunkOf(deltas)
  OBVIOUS
<1>3. /\ body.phase = "streaming" /\ upstream.state = "open" /\ upstream.chunks < MaxChunks
      /\ upstream.reason # "none" => deltas = <<>> /\ reason = "none"
      /\ Len(upstream.said) + Len(deltas) <= MaxParts
      /\ UNCHANGED <<body, client, log, reader>>
  BY <1>1, Zenon DEF Chunk, Polled
<1>4. translator' = ProcessChunk(translator, chunk)
  <2>1. translator' = ProcessChunk(translator, ChunkOf(Deltas(reasoning, content, tools)))
    BY Zenon DEF Chunk, PartIn
  <2> HIDE DEF ChunkOf
  <2> QED BY <2>1, <1>1, <1>2, Zenon
<1>5. /\ UpstreamOK /\ BodyOK /\ client \in Clients /\ client.ok
      /\ Answering(client, translator, Heard(upstream))
      /\ upstream.reason = translator.reason
      /\ translator.finished => upstream.reason # "none" \/ upstream.state # "open"
  BY <1>3 DEF Inner, Told, ReasonInv
<1>6. deltas \in Seq(Fragments) /\ (deltas = <<>> => ~reasoning /\ ~content /\ tools = {})
  BY <1>1, <1>5, DeltasTypes
<1>7. chunk \in ChunkInputs
  <2>1. PICK f : f = [i \in tools |-> PartIn(deltas, Call(i))]
    OBVIOUS
  <2>2. f \in [tools -> Nat]
    BY <2>1, <1>6, PartTypes
  <2>3. f \in UNION {[D -> Nat] : D \in SUBSET Tools}
    BY <2>2
  <2>4. PartIn(deltas, Reasoning) \in Nat /\ PartIn(deltas, Message) \in Nat
    BY <1>6, PartTypes
  <2> QED BY <2>1, <2>3, <2>4, <1>2 DEF ChunkInputs
<1>8. Says(chunk) => ~translator.finished
  <2>1. ASSUME translator.finished PROVE ~Says(chunk)
    <3>1. deltas = <<>> /\ reason = "none"
      BY <2>1, <1>3, <1>5
    <3>2. PartIn(deltas, Reasoning) = Absent /\ PartIn(deltas, Message) = Absent /\ tools = {}
      BY <3>1, <1>6, PartTypes
    <3> QED BY <3>1, <3>2, <1>2 DEF Says
  <2> QED BY <2>1
<1>21. PICK h : h = Heard(upstream)
  OBVIOUS
<1>22. upstream.said \in Seq(Fragments) /\ upstream.reason \in Reasons /\ upstream.done \in BOOLEAN
  BY <1>5 DEF UpstreamOK
<1>9. /\ Tells(client, translator', HeardChunk(h, chunk))
      /\ translator'.reason = (IF chunk.reason = "none" THEN translator.reason ELSE chunk.reason)
      /\ translator'.finished <=> translator.finished \/ chunk.reason # "none"
      /\ ~translator'.finished => h.called \cup DOMAIN chunk.tools = DOMAIN translator'.tools
  <2>1. PICK t : t = translator'
    OBVIOUS
  <2>2. Tells(client, translator, h) /\ (~translator.finished => h.called = DOMAIN translator.tools)
    BY <1>5, <1>21 DEF Answering
  <2>3. (translator.finished => h.meant) /\ h.reason = translator.reason
    BY <1>3, <1>5, <1>21, <1>22, HeardTyped
  <2>4. /\ Tells(client, t, HeardChunk(h, chunk))
        /\ t.reason = (IF chunk.reason = "none" THEN translator.reason ELSE chunk.reason)
        /\ t.finished <=> translator.finished \/ chunk.reason # "none"
        /\ ~t.finished => h.called \cup DOMAIN chunk.tools = DOMAIN t.tools
    BY <2>1, <2>2, <2>3, <1>4, <1>7, <1>8, TellsChunk
  <2> QED BY <2>1, <2>4
<1>10. chunk.reason = reason
  BY <1>2
<1>11. PICK said : said = upstream.said \o deltas
  OBVIOUS
<1>12. PICK n : n = upstream.chunks + 1
  OBVIOUS
<1>13. PICK r : r = IF reason = "none" THEN upstream.reason ELSE reason
  OBVIOUS
<1>14. upstream' = [upstream EXCEPT !.said = said, !.chunks = n, !.reason = r]
  <2>1. upstream' = [upstream EXCEPT !.said = @ \o deltas, !.chunks = @ + 1,
                                    !.reason = IF reason = "none" THEN @ ELSE reason]
    BY <1>1, Zenon DEF Chunk
  <2> QED BY <2>1, <1>11, <1>12, <1>13, Zenon
<1>15. /\ said \in Seq(Fragments) /\ Len(said) <= MaxParts /\ n \in Nat /\ n <= MaxChunks /\ r \in Reasons
  <2>1. upstream.said \in Seq(Fragments) /\ upstream.chunks \in Nat /\ upstream.reason \in Reasons
    BY <1>5 DEF UpstreamOK
  <2>2. said \in Seq(Fragments) /\ Len(said) = Len(upstream.said) + Len(deltas)
    BY <2>1, <1>6, <1>11, ConcatProperties
  <2>3. MaxChunks \in Nat /\ MaxParts \in Nat
    BY GatewayAssumption
  <2> QED BY <2>1, <2>2, <2>3, <1>3, <1>12, <1>13
<1>16. /\ upstream' \in [state : {"open", "done", "ended", "broken"}, said : Seq(Fragments),
                         chunks : Nat, reason : Reasons, done : BOOLEAN]
       /\ upstream'.state = upstream.state /\ upstream'.said = said /\ upstream'.chunks = n /\ upstream'.reason = r
       /\ upstream'.done = upstream.done
  BY <1>5, <1>14, <1>15, Zenon DEF UpstreamOK
<1>17. UpstreamOK'
  BY <1>3, <1>15, <1>16 DEF UpstreamOK
<1>18. ReasonInv'
  BY <1>3, <1>5, <1>9, <1>10, <1>13, <1>16 DEF ReasonInv
<1>23. HeardChunk(h, chunk) = Heard(upstream')
  <2>1. PICK v : v = upstream'
    OBVIOUS
  <2>2. Carrying(chunk, deltas, tools, reason)
    <3>1. /\ \A j, k \in DOMAIN deltas : deltas[j].to = deltas[k].to => j = k
          /\ \A i \in Tools : (\E k \in DOMAIN deltas : deltas[k].to = Call(i)) <=> i \in tools
      BY <1>1, <1>5, DeltasOnce
    <3>2. /\ chunk.reasoning = PartIn(deltas, Reasoning) /\ chunk.content = PartIn(deltas, Message)
          /\ chunk.tools = [i \in tools |-> PartIn(deltas, Call(i))]
      BY <1>2
    <3> QED BY <3>1, <3>2, <1>10, Zenon DEF Carrying
  <2>3. SaysMore(upstream, v, deltas, reason)
    BY <2>1, <1>11, <1>13, <1>16, Zenon DEF SaysMore
  <2>4. deltas \in Seq(Fragments) /\ upstream.said \in Seq(Fragments) /\ upstream.reason \in Reasons
        /\ upstream.done \in BOOLEAN
    BY <1>6, <1>22
  <2>5. HeardChunk(Heard(upstream), chunk) = Heard(v)
    <3>1. tools \in SUBSET Tools /\ reason \in Reasons
      BY <1>1
    <3> QED BY <2>2, <2>3, <2>4, <3>1, HeardAfter
  <2> QED BY <2>1, <2>5, <1>21
<1>24. Answering(client, translator', Heard(upstream'))
  <2>1. HeardChunk(h, chunk).called = h.called \cup DOMAIN chunk.tools
    <3>1. h \in Heards
      BY <1>21, <1>22, HeardTyped
    <3>2. /\ chunk.reasoning \in Nat /\ chunk.content \in Nat /\ chunk.reason \in Reasons
          /\ DOMAIN chunk.tools \subseteq Tools /\ \A i \in DOMAIN chunk.tools : chunk.tools[i] \in Nat
      BY <1>2, <1>6, PartTypes
    <3>3. IsHeardChunk(h, HeardChunk(h, chunk), chunk)
      BY <3>1, <3>2, HeardChunkFields
    <3> QED BY <3>3, Zenon DEF IsHeardChunk
  <2> QED BY <2>1, <1>9, <1>23 DEF Answering
<1>19. Told'
  <2>1. translator' \in Translators
    BY <1>9 DEF Tells
  <2> QED BY <2>1, <1>3, <1>5, <1>24 DEF Told
<1>20. BodyOK' /\ TapInv'
  BY <1>3 DEF Inner, BodyOK, TapInv
<1> QED
  BY <1>3, <1>17, <1>18, <1>19, <1>20 DEF Inner

\* The body goes on.
LEMMA BodyGoesOn ==
    ASSUME Inner, body.phase = "streaming", client' = client,
           UpstreamOK', ReasonInv', Answering(client, translator', Heard(upstream')),
           BodyOK', body'.phase = "streaming", body'.completed = body.completed
    PROVE  Inner'
<1>1. translator' \in Translators
  BY DEF Answering, Tells
<1>2. Told'
  BY <1>1 DEF Inner, Told
<1>3. TapInv'
  BY DEF Inner, TapInv
<1> QED
  BY <1>2, <1>3 DEF Inner

\* Of a provider that is done no more is heard, but that it meant to be.
LEMMA HeardDone ==
    ASSUME UpstreamOK, UpstreamOK', upstream'.said = upstream.said, upstream'.reason = upstream.reason,
           upstream.done => upstream'.done
    PROVE  /\ SameCalls(Heard(upstream), Heard(upstream'))
           /\ Heard(upstream').texts = Heard(upstream).texts
           /\ Heard(upstream').reason = Heard(upstream).reason
           /\ upstream'.done => Heard(upstream').meant
           /\ Heard(upstream).reason = upstream.reason
           /\ upstream.reason # "none" => Heard(upstream).meant
           /\ upstream'.done = upstream.done => Heard(upstream') = Heard(upstream)
<1>1. PICK u : u = upstream
  OBVIOUS
<1>2. PICK v : v = upstream'
  OBVIOUS
<1>3. /\ u.said \in Seq(Fragments) /\ u.reason \in Reasons /\ u.done \in BOOLEAN
      /\ v.said = u.said /\ v.reason = u.reason /\ v.done \in BOOLEAN
  BY <1>1, <1>2 DEF UpstreamOK
<1>4. Heard(u) \in Heards /\ Heard(v) \in Heards
  BY <1>3, HeardTyped
<1>5. /\ Heard(v).texts = Heard(u).texts /\ Heard(v).called = Heard(u).called
      /\ Heard(v).calls = Heard(u).calls /\ Heard(v).reason = Heard(u).reason
      /\ Heard(u).reason = u.reason
  BY <1>3, Zenon DEF Heard
<1>6. Heard(v).meant = (v.reason # "none" \/ v.done) /\ Heard(u).meant = (u.reason # "none" \/ u.done)
  BY <1>3, HeardTyped
<1>7. v.done = u.done => Heard(v) = Heard(u)
  BY <1>3, Zenon DEF Heard
<1> QED
  BY <1>1, <1>2, <1>3, <1>4, <1>5, <1>6, <1>7 DEF SameCalls

LEMMA DoneStep ==
    ASSUME Inner, Done
    PROVE  /\ Inner' /\ UNCHANGED <<log, reader>>
           /\ GoesOn \/ UNCHANGED <<body, client>>
<1>1. body.phase = "streaming" /\ body.todo = <<>> /\ upstream.state = "open"
  BY DEF Done, Polled, Busy
<1>2. PICK n : n = upstream.chunks + 1
  OBVIOUS
<1>3. /\ upstream' = [upstream EXCEPT !.state = "done", !.done = TRUE, !.chunks = n]
      /\ translator' = HandleDone(translator) /\ UNCHANGED <<log, reader>>
  BY <1>2, Zenon DEF Done
<1>4. /\ UpstreamOK /\ BodyOK /\ client \in Clients
      /\ Answering(client, translator, Heard(upstream))
      /\ upstream.reason = translator.reason
  BY <1>1 DEF Inner, Told, ReasonInv
<1>5. n \in Nat /\ n <= MaxChunks + 1 /\ Len(upstream.said) <= MaxParts
  <2>1. upstream.chunks \in Nat /\ upstream.chunks <= MaxChunks /\ Len(upstream.said) <= MaxParts /\ MaxChunks \in Nat
    BY <1>1, <1>4, GatewayAssumption DEF UpstreamOK
  <2> QED BY <2>1, <1>2
<1>6. /\ upstream' \in [state : {"open", "done", "ended", "broken"}, said : Seq(Fragments),
                        chunks : Nat, reason : Reasons, done : BOOLEAN]
      /\ upstream'.state = "done" /\ upstream'.chunks = n
      /\ upstream'.said = upstream.said /\ upstream'.reason = upstream.reason /\ upstream'.done
  BY <1>3, <1>4, <1>5, Zenon DEF UpstreamOK
<1>7. UpstreamOK'
  BY <1>5, <1>6 DEF UpstreamOK
<1>12. PICK h : h = Heard(upstream)
  OBVIOUS
<1>13. PICK y : y = Heard(upstream')
  OBVIOUS
<1>14. /\ SameCalls(h, y) /\ y.texts = h.texts /\ y.meant /\ y.reason = h.reason
       /\ h.reason = translator.reason
  BY <1>4, <1>6, <1>7, <1>12, <1>13, HeardDone
<1>8. Answering(client, translator', y) /\ translator'.reason = translator.reason
  <2>1. Tells(client, translator, h) /\ (~translator.finished => h.called = DOMAIN translator.tools)
    BY <1>4, <1>12 DEF Answering
  <2>2. Tells(client, translator, y)
    BY <2>1, <1>14, TellsMeant
  <2>3. Meant(y, translator)
    BY <1>14 DEF Meant
  <2>4. PICK t : t = HandleDone(translator)
    OBVIOUS
  <2>5. /\ Tells(client, t, y) /\ t.reason = translator.reason /\ (translator.started => t.finished)
        /\ ~translator.started => t = translator
    BY <2>2, <2>3, <2>4, TellsDone
  <2>6. Answering(client, t, y)
    BY <2>1, <2>5, <1>14 DEF Answering, SameCalls
  <2> QED BY <2>4, <2>5, <2>6, <1>3
<1>9. ReasonInv'
  BY <1>4, <1>6, <1>8 DEF ReasonInv
<1>10. CASE translator'.queue = <<>>
  <2>1. /\ body' = [TapEnds(body, <<>>) EXCEPT !.todo = Append(@, Detail)]
        /\ client' = [client EXCEPT !.over = "ended"]
    BY <1>10, Zenon DEF Done
  <2>2. translator' \in Translators
    BY <1>8 DEF Answering, Tells
  <2>3. PICK end : end = IF body.completed THEN <<>> ELSE <<Status("failed")>>
    OBVIOUS
  <2>4. PICK copy \in {<<>>, <<Detail>>} : copy = <<Detail>>
    OBVIOUS
  <2>5. PICK todo : todo = end \o copy
    OBVIOUS
  <2>6. Append(<<>> \o end, Detail) = todo
    <3>1. CASE body.completed
      BY <3>1, <2>3, <2>4, <2>5
    <3>2. CASE ~body.completed
      BY <3>2, <2>3, <2>4, <2>5
    <3> QED BY <3>1, <3>2
  <2>7. body' = [body EXCEPT !.phase = "over", !.completed = TRUE, !.saved = TRUE, !.todo = todo]
    <3>1. TapEnds(body, <<>>) = [body EXCEPT !.phase = "over", !.completed = TRUE, !.saved = TRUE,
                                             !.todo = <<>> \o end]
      BY <2>3, Zenon DEF TapEnds
    <3> QED BY <3>1, <2>1, <2>6, <1>4 DEF BodyOK
  <2>8. EndsAs("ended", "failed", todo)
    BY <2>1, <2>3, <2>4, <2>5, <2>7, <1>1, Zenon DEF EndsAs
  <2>9. Inner' /\ GoesOn
    BY <2>2, <2>8, <1>1, <1>7, <1>9, StreamOver, Zenon
  <2> QED BY <2>9, <1>3
<1>11. CASE translator'.queue # <<>>
  <2>1. UNCHANGED <<body, client>>
    BY <1>11, Zenon DEF Done
  <2>2. BodyOK' /\ body'.phase = "streaming" /\ body'.completed = body.completed
    BY <2>1, <1>1, <1>4 DEF BodyOK
  <2>3. Inner'
    BY <2>1, <2>2, <1>1, <1>7, <1>8, <1>9, <1>13, BodyGoesOn
  <2> QED BY <2>1, <2>3, <1>3
<1> QED
  BY <1>10, <1>11

LEMMA EndStep ==
    ASSUME Inner, End
    PROVE  Inner' /\ UNCHANGED <<log, reader>> /\ GoesOn
<1>1. body.phase = "streaming" /\ body.todo = <<>>
  BY DEF End, Polled, Busy
<1>2. PICK copy \in {<<>>, <<Detail>>} : copy = Copy(body)
  BY CopyKinds
<1>3. /\ upstream' = [upstream EXCEPT !.state = "ended"]
      /\ translator' = HandleStreamEnded(translator) /\ UNCHANGED <<log, reader>>
  BY DEF End
<1>4. /\ UpstreamOK /\ BodyOK /\ client \in Clients
      /\ Answering(client, translator, Heard(upstream))
      /\ upstream.reason = translator.reason
  BY <1>1 DEF Inner, Told, ReasonInv
<1>5. /\ upstream' \in [state : {"open", "done", "ended", "broken"}, said : Seq(Fragments),
                        chunks : Nat, reason : Reasons, done : BOOLEAN]
      /\ upstream'.state = "ended" /\ upstream'.chunks = upstream.chunks
      /\ upstream'.said = upstream.said /\ upstream'.reason = upstream.reason /\ upstream'.done = upstream.done
  BY <1>3, <1>4, Zenon DEF UpstreamOK
<1>6. UpstreamOK'
  <2>1. upstream.chunks \in Nat /\ upstream.chunks <= MaxChunks + 1 /\ Len(upstream.said) <= MaxParts
    BY <1>4, GatewayAssumption DEF UpstreamOK
  <2> QED BY <2>1, <1>5 DEF UpstreamOK
<1>11. PICK h : h = Heard(upstream)
  OBVIOUS
<1>12. /\ Heard(upstream') = h /\ h.reason = translator.reason
       /\ translator.reason # "none" => h.meant
  BY <1>4, <1>5, <1>6, <1>11, HeardDone
<1>7. Answering(client, translator', Heard(upstream')) /\ translator'.reason = translator.reason
  <2>1. Tells(client, translator, h) /\ (~translator.finished => h.called = DOMAIN translator.tools)
    BY <1>4, <1>11 DEF Answering
  <2>2. PICK t : t = HandleStreamEnded(translator)
    OBVIOUS
  <2>3. /\ Tells(client, t, h) /\ t.reason = translator.reason /\ (translator.started => t.finished)
        /\ ~translator.started => t = translator
    BY <2>1, <2>2, <1>12, TellsStreamEnded
  <2>4. Answering(client, t, h)
    BY <2>1, <2>3 DEF Answering
  <2> QED BY <2>2, <2>3, <2>4, <1>3, <1>12
<1>8. ReasonInv'
  BY <1>4, <1>5, <1>7 DEF ReasonInv
<1>9. CASE translator'.queue = <<>>
  <2>1. body' = TapEnds(body, copy) /\ client' = [client EXCEPT !.over = "ended"]
    BY <1>2, <1>9, Zenon DEF End
  <2>2. translator' \in Translators
    BY <1>7 DEF Answering, Tells
  <2>3. Inner' /\ GoesOn
    <3>1. PICK over \in {"ended", "error"} : over = "ended"
      OBVIOUS
    <3>2. client' = [client EXCEPT !.over = over]
      BY <2>1, <3>1, Zenon
    <3> QED BY <3>2, <2>1, <2>2, <1>1, <1>6, <1>8, TapEnded, Zenon
  <2> QED BY <2>3, <1>3
<1>10. CASE translator'.queue # <<>>
  <2>1. body' = [body EXCEPT !.saved = TRUE, !.todo = copy] /\ client' = client
    BY <1>2, <1>10, Zenon DEF End
  <2>2. copy \in Seq(RequestWrites) /\ Plain(copy)
    <3>1. CASE copy = <<>>
      BY <3>1, TodoKinds
    <3>2. CASE copy = <<Detail>>
      BY <3>2, WriteTypes, TodoKinds
    <3> QED BY <3>1, <3>2
  <2>3. BodyOK' /\ body'.phase = body.phase /\ body'.completed = body.completed /\ body'.todo = copy
    BY <2>1, <2>2, <1>4, Zenon DEF BodyOK
  <2>4. Inner'
    BY <2>1, <2>3, <1>1, <1>6, <1>7, <1>8, BodyGoesOn
  <2>5. GoesOn
    BY <2>1, <2>2, <2>3, <1>1, SameDecided DEF GoesOn
  <2> QED BY <2>4, <2>5, <1>3
<1> QED
  BY <1>9, <1>10

-------------------------------------------------------------------------------
(* The steps, sorted by what they change of the request and of the log.       *)

Begins ==
    /\ body.phase = "idle" /\ body.todo = <<>> /\ Decided = "any" /\ Decided' = Decided
    /\ body'.phase = "starting" /\ body'.todo = <<Insert, Detail>>
    /\ UNCHANGED <<log, reader>>

Advances == GoesOn /\ UNCHANGED <<log, reader>>

Serves ==
    /\ \/ \E ok \in BOOLEAN : Persist(ok)
       \/ \E r \in Readers : ReadBegins(r) \/ ReadFlushes(r) \/ Flushed(r) \/ ReadReturns(r)
       \/ PurgeBegins \/ PurgeSent \/ Purged
    /\ UNCHANGED <<upstream, translator, body, client>>

LEMMA OfferInner ==
    ASSUME Inner, LogOK, Offer
    PROVE  Inner' /\ UNCHANGED <<client, reader>>
<1>1. UNCHANGED <<upstream, translator, client, reader>>
  BY DEF Offer
<1>2. /\ BodyOK' /\ body.todo # <<>>
      /\ body'.phase = body.phase /\ body'.completed = body.completed
  BY OfferStep DEF Inner
<1>3. UpstreamOK'
  BY <1>1, SameUpstream DEF Inner
<1>4. Told'
  BY <1>1, <1>2 DEF Inner, Told
<1>5. ReasonInv'
  BY <1>1 DEF Inner, ReasonInv
<1>6. TapInv'
  BY <1>1, <1>2 DEF Inner, TapInv
<1> QED
  BY <1>1, <1>2, <1>3, <1>4, <1>5, <1>6 DEF Inner

LEMMA InnerStays ==
    ASSUME Inner, UNCHANGED <<upstream, translator, body, client>>
    PROVE  Inner' /\ Verdict' = Verdict /\ Decided' = Decided
<1>1. UpstreamOK'
  BY SameUpstream DEF Inner
<1>2. BodyOK'
  BY DEF Inner, BodyOK
<1>3. Told'
  BY DEF Inner, Told
<1>4. ReasonInv'
  BY DEF Inner, ReasonInv
<1>5. TapInv'
  BY DEF Inner, TapInv
<1>6. Decided' = Decided
  BY SameDecided
<1>7. Verdict' = Verdict
  BY <1>6 DEF Verdict, Busy
<1> QED
  BY <1>1, <1>2, <1>3, <1>4, <1>5, <1>6, <1>7 DEF Inner

LEMMA Moves ==
    ASSUME Inner, LogOK, Next
    PROVE  Inner' /\ (Offer \/ Begins \/ Advances \/ UNCHANGED <<body, client, log, reader>> \/ Serves)
<1>1. CASE Offer
  BY <1>1, OfferInner
<1>2. CASE Begin
  <2>1. UNCHANGED <<log, reader>>
    BY <1>2 DEF Begin
  <2> QED BY <2>1, <1>2, BeginStep DEF Begins
<1>3. CASE Streams
  <2>1. UNCHANGED <<log, reader>>
    BY <1>3 DEF Streams
  <2> QED BY <2>1, <1>3, StreamsStep DEF Advances
<1>4. CASE StartFails
  <2>1. UNCHANGED <<log, reader>>
    BY <1>4 DEF StartFails
  <2> QED BY <2>1, <1>4, StartFailsStep DEF Advances
<1>5. CASE Abandon
  <2>1. UNCHANGED <<log, reader>>
    BY <1>5 DEF Abandon
  <2> QED BY <2>1, <1>5, AbandonStep DEF Advances
<1>6. CASE PopEvent
  <2>1. UNCHANGED <<log, reader>>
    BY <1>6 DEF PopEvent
  <2> QED BY <2>1, <1>6, PopEventStep DEF Advances
<1>7. CASE Drop
  <2>1. UNCHANGED <<log, reader>>
    BY <1>7 DEF Drop
  <2> QED BY <2>1, <1>7, DropStep DEF Advances
<1>8. CASE Chunks
  <2>1. PICK reasoning \in BOOLEAN, content \in BOOLEAN, usage \in BOOLEAN, tools \in SUBSET Tools, reason \in Reasons :
            Chunk(reasoning, content, tools, reason, usage)
    BY <1>8, Zenon DEF Chunks
  <2> QED BY <2>1, ChunkStep
<1>9. CASE Done
  BY <1>9, DoneStep DEF Advances
<1>10. CASE End
  BY <1>10, EndStep DEF Advances
<1>11. CASE Break
  <2>1. UNCHANGED <<log, reader>>
    BY <1>11 DEF Break
  <2> QED BY <2>1, <1>11, BreakStep DEF Advances
<1>12. CASE \E ok \in BOOLEAN : Persist(ok)
  <2>1. UNCHANGED <<upstream, translator, body, client>>
    BY <1>12 DEF Persist
  <2> QED BY <2>1, <1>12, InnerStays DEF Serves
<1>13. CASE \E r \in Readers : ReadBegins(r) \/ ReadFlushes(r) \/ Flushed(r) \/ ReadReturns(r)
  <2>1. UNCHANGED <<upstream, translator, body, client>>
    BY <1>13 DEF ReadBegins, ReadFlushes, Flushed, ReadReturns
  <2> QED BY <2>1, <1>13, InnerStays DEF Serves
<1>14. CASE PurgeBegins \/ PurgeSent \/ Purged
  <2>1. UNCHANGED <<upstream, translator, body, client>>
    BY <1>14 DEF PurgeBegins, PurgeSent, Purged
  <2> QED BY <2>1, <1>14, InnerStays DEF Serves
<1> QED
  BY <1>1, <1>2, <1>3, <1>4, <1>5, <1>6, <1>7, <1>8, <1>9, <1>10, <1>11, <1>12, <1>13, <1>14 DEF Next

\* What waits and what is recorded goes together with how the request ended.
LEMMA RecordAdvances ==
    ASSUME Inner, LogOK, RecordInv, Begins \/ Advances
    PROVE  RecordInv'
<1>1. log' = log
  BY DEF Begins, Advances
<1>2. SUFFICES ASSUME ~log.lost
               PROVE  Record(body'.phase, Decided', log.writes, body'.todo, log.row, log.purges)
  BY <1>1 DEF RecordInv
<1>3. Record(body.phase, Decided, log.writes, body.todo, log.row, log.purges) /\ log.writes \in Seq(LogWrites)
  BY <1>2, LogFields DEF RecordInv
<1>4. CASE Begins
  <2>1. Record("idle", "any", log.writes, <<>>, log.row, log.purges)
    BY <1>3, <1>4 DEF Begins
  <2>2. Record("starting", "any", log.writes, <<Insert, Detail>>, log.row, log.purges)
    BY <2>1, <1>3, RecordBegin
  <2> QED BY <2>2, <1>4 DEF Begins
<1>5. CASE Advances
  <2>1. /\ body.todo = <<>> /\ body.phase # "idle" /\ body'.phase \in {"streaming", "over"}
        /\ \/ Decided' = Decided /\ Plain(body'.todo)
           \/ Decided = "any" /\ Decided' \in Statuses /\ Final(body'.todo, Decided')
    BY <1>5 DEF Advances, GoesOn
  <2>2. PICK decided : decided = Decided
    OBVIOUS
  <2>3. PICK verdict : verdict = Decided'
    OBVIOUS
  <2>4. PICK todo : todo = body'.todo
    OBVIOUS
  <2>5. PICK next : next = body'.phase
    OBVIOUS
  <2>6. PICK phase : phase = body.phase
    OBVIOUS
  <2>7. Record(phase, decided, log.writes, <<>>, log.row, log.purges)
    BY <1>3, <2>1, <2>2, <2>6
  <2>8. CASE verdict = decided /\ Plain(todo)
    <3>1. SaysStatus(todo, verdict)
      BY <2>8, Zenon DEF Plain, SaysStatus, Has
    <3>2. InOrder(todo) /\ ~Has(todo, "insert") /\ ~Has(todo, "status")
      BY <2>8 DEF Plain
    <3>3. Record(next, verdict, log.writes, todo, log.row, log.purges)
      BY <3>1, <3>2, <2>1, <2>5, <2>6, <2>7, <2>8, <1>3, RecordGoesOn
    <3> QED BY <3>3, <2>3, <2>4, <2>5
  <2>9. CASE decided = "any" /\ verdict \in Statuses /\ Final(todo, verdict)
    <3>1. InOrder(todo) /\ ~Has(todo, "insert") /\ Has(todo, "status") /\ SaysStatus(todo, verdict)
      BY <2>9 DEF Final
    <3>2. verdict # "any"
      BY <2>9 DEF Statuses, Terminals
    <3>3. Record(next, verdict, log.writes, todo, log.row, log.purges)
      BY <3>1, <3>2, <2>1, <2>5, <2>6, <2>7, <2>9, <1>3, RecordGoesOn
    <3> QED BY <3>3, <2>3, <2>4, <2>5
  <2> QED BY <2>1, <2>2, <2>3, <2>4, <2>8, <2>9
<1> QED
  BY <1>4, <1>5

LEMMA RecordOffers ==
    ASSUME Inner, LogOK, RecordInv, Offer
    PROVE  RecordInv'
<1>1. /\ body.todo # <<>> /\ body'.todo = Tail(body.todo) /\ body'.phase = body.phase
      /\ log'.row = log.row /\ log'.purges = log.purges
      /\ log'.lost \/ (log'.writes = Append(log.writes, Head(body.todo)) /\ log'.lost = log.lost)
      /\ Decided' = Decided
  BY OfferStep, OfferInner, SameDecided DEF Inner
<1>2. SUFFICES ASSUME ~log'.lost
               PROVE  Record(body'.phase, Decided', log'.writes, body'.todo, log'.row, log'.purges)
  BY DEF RecordInv
<1>3. /\ log'.writes = Append(log.writes, Head(body.todo)) /\ ~log.lost
      /\ log.writes \in Seq(LogWrites) /\ body.todo \in Seq(RequestWrites)
  BY <1>1, <1>2, LogFields, BodyFields DEF Inner
<1>4. Record(body.phase, Decided, log.writes, body.todo, log.row, log.purges)
  BY <1>3 DEF RecordInv
<1>5. Record(body.phase, Decided, Append(log.writes, Head(body.todo)), Tail(body.todo), log.row, log.purges)
  BY <1>1, <1>3, <1>4, RecordOffer
<1> QED
  BY <1>1, <1>3, <1>5

LEMMA RecordServes ==
    ASSUME Inner, LogOK, ReaderOK, RecordInv, LockInv, Serves
    PROVE  RecordInv'
<1>1. body' = body /\ Decided' = Decided
  BY SameDecided DEF Serves
<1>2. SUFFICES ASSUME ~log'.lost
               PROVE  Record(body.phase, Decided, log'.writes, body.todo, log'.row, log'.purges)
  BY <1>1 DEF RecordInv
<1>3. /\ log.writes \in Seq(LogWrites) /\ log.row \in Rows /\ log.purges \in Nat
      /\ Decided \in Statuses \cup {"any"} /\ Verdict \in Statuses \cup {"any"}
  BY LogFields, DecidedTypes, VerdictTypes DEF Inner, Told
<1>4. ~log.lost => Record(body.phase, Decided, log.writes, body.todo, log.row, log.purges)
  BY DEF RecordInv
<1>5. ASSUME log.writes # <<>>, log'.writes = Tail(log.writes), log'.purges = log.purges, ~log.lost,
             Head(log.writes).kind = "purge" => log.purges > 0,
             log'.row = IF Head(log.writes).kind = "purge" THEN NoRow ELSE Written(log.row, Head(log.writes))
      PROVE  Record(body.phase, Decided, log'.writes, body.todo, log'.row, log'.purges)
  <2>1. PICK row : row = log'.row
    OBVIOUS
  <2>2. Record(body.phase, Decided, Tail(log.writes), body.todo, row, log.purges)
    BY <1>3, <1>4, <1>5, <2>1, RecordNext
  <2> QED BY <1>5, <2>1, <2>2
<1>6. ASSUME NEW ok \in BOOLEAN, Persist(ok) PROVE Record(body.phase, Decided, log'.writes, body.todo, log'.row, log'.purges)
  <2>1. /\ log.writes # <<>> /\ log'.writes = Tail(log.writes)
        /\ Head(log.writes).kind # "purge" /\ log'.purges = log.purges /\ ~log.lost
        /\ log'.row = Written(log.row, Head(log.writes))
    BY <1>2, <1>6, PersistStep
  <2> QED BY <2>1, <1>5
<1>7. ASSUME NEW r \in Readers, Flushed(r) PROVE Record(body.phase, Decided, log'.writes, body.todo, log'.row, log'.purges)
  <2>1. /\ log.writes # <<>> /\ Head(log.writes) = Barrier(r) /\ log'.writes = Tail(log.writes)
        /\ log'.row = log.row /\ log'.lost = log.lost /\ log'.purges = log.purges
    BY <1>7, FlushedStep
  <2>2. Head(log.writes).kind = "barrier"
    BY <2>1, WriteTypes
  <2>3. Written(log.row, Head(log.writes)) = log.row
    BY <2>2 DEF Written
  <2> QED BY <2>1, <2>2, <2>3, <1>2, <1>5
<1>8. ASSUME Purged PROVE Record(body.phase, Decided, log'.writes, body.todo, log'.row, log'.purges)
  <2>1. /\ log.writes # <<>> /\ Head(log.writes) = Purge /\ log'.writes = Tail(log.writes)
        /\ log'.row = NoRow /\ log'.lost = log.lost /\ log'.purges = log.purges
    BY <1>8, PurgedStep
  <2>2. Head(log.writes).kind = "purge"
    BY <2>1, WriteTypes
  <2>3. log.purges > 0
    <3>1. Has(log.writes, "purge")
      BY <2>1, <2>2, <1>3, HasTail
    <3> QED BY <3>1 DEF LockInv
  <2> QED BY <2>1, <2>2, <2>3, <1>2, <1>5
<1>9. ASSUME NEW r \in Readers, ReadBegins(r) PROVE Record(body.phase, Decided, log'.writes, body.todo, log'.row, log'.purges)
  <2>1. log'.writes = log.writes /\ log'.row = log.row /\ log'.lost = log.lost /\ log'.purges = log.purges
    BY <1>3, <1>9, ReadBeginsStep
  <2> QED BY <2>1, <1>2, <1>4
<1>10. ASSUME NEW r \in Readers, ReadReturns(r) PROVE Record(body.phase, Decided, log'.writes, body.todo, log'.row, log'.purges)
  <2>1. log'.writes = log.writes /\ log'.row = log.row /\ log'.lost = log.lost /\ log'.purges = log.purges
    BY <1>10, ReadReturnsStep
  <2> QED BY <2>1, <1>2, <1>4
<1>11. ASSUME NEW r \in Readers, ReadFlushes(r) PROVE Record(body.phase, Decided, log'.writes, body.todo, log'.row, log'.purges)
  <2>1. /\ log'.writes = Append(log.writes, Barrier(r))
        /\ log'.row = log.row /\ log'.lost = log.lost /\ log'.purges = log.purges
    BY <1>11, ReadFlushesStep
  <2>2. Barrier(r) \in LogWrites /\ Barrier(r).kind \in {"barrier", "purge"}
    BY WriteTypes
  <2>3. Record(body.phase, Decided, Append(log.writes, Barrier(r)), body.todo, log.row, log.purges)
    BY <2>1, <2>2, <1>2, <1>3, <1>4, RecordMarker
  <2> QED BY <2>1, <2>3
<1>12. ASSUME PurgeBegins PROVE Record(body.phase, Decided, log'.writes, body.todo, log'.row, log'.purges)
  <2>1. log'.writes = log.writes /\ log'.row = log.row /\ log'.lost = log.lost /\ log'.purges = log.purges + 1
    BY <1>12, PurgeBeginsStep
  <2>2. Record(body.phase, Decided, log.writes, body.todo, log.row, log.purges + 1)
    BY <2>1, <1>2, <1>3, <1>4, RecordPurges
  <2> QED BY <2>1, <2>2
<1>13. ASSUME PurgeSent PROVE Record(body.phase, Decided, log'.writes, body.todo, log'.row, log'.purges)
  <2>1. /\ log'.writes = Append(log.writes, Purge)
        /\ log'.row = log.row /\ log'.lost = log.lost /\ log'.purges = log.purges
    BY <1>13, PurgeSentStep
  <2>2. Purge \in LogWrites /\ Purge.kind \in {"barrier", "purge"}
    BY WriteTypes
  <2>3. Record(body.phase, Decided, Append(log.writes, Purge), body.todo, log.row, log.purges)
    BY <2>1, <2>2, <1>2, <1>3, <1>4, RecordMarker
  <2> QED BY <2>1, <2>3
<1> QED
  BY <1>6, <1>7, <1>8, <1>9, <1>10, <1>11, <1>12, <1>13 DEF Serves

-------------------------------------------------------------------------------
(* The lock of the log and its markers.                                       *)

LEMMA WaitsHas ==
    ASSUME NEW q \in Seq(LogWrites)
    PROVE  /\ \A r \in Readers : Waits(q, r) => Has(q, "barrier")
           /\ Has(q, "barrier") => \E r \in Readers : Waits(q, r)
<1>1. ASSUME NEW r \in Readers, Waits(q, r) PROVE Has(q, "barrier")
  BY <1>1, WriteTypes, Zenon DEF Waits, Has
<1>2. ASSUME Has(q, "barrier") PROVE \E r \in Readers : Waits(q, r)
  <2>1. PICK k \in DOMAIN q : q[k].kind = "barrier"
    BY <1>2, Zenon DEF Has
  <2>2. q[k] \in LogWrites
    BY <2>1
  <2>3. PICK r \in Readers : q[k] = Barrier(r)
    BY <2>1, <2>2, StatusValues
  <2> QED BY <2>3, Zenon DEF Waits
<1> QED
  BY <1>1, <1>2

LEMMA OneAppend ==
    ASSUME NEW q \in Seq(LogWrites), NEW w \in LogWrites, NEW kind, OneOf(q, kind), w.kind = kind => ~Has(q, kind)
    PROVE  OneOf(Append(q, w), kind)
<1>1. PICK n : n = Len(q)
  OBVIOUS
<1>2. PICK p : p = Append(q, w)
  OBVIOUS
<1>3. /\ n \in Nat /\ DOMAIN q = 1 .. n /\ DOMAIN p = 1 .. n + 1
      /\ p[n + 1] = w /\ \A k \in 1 .. n : p[k] = q[k]
  BY <1>1, <1>2
<1>4. \A k \in DOMAIN p : k \in DOMAIN q \/ k = n + 1
  BY <1>3
<1>5. ASSUME NEW j \in DOMAIN p, NEW k \in DOMAIN p, p[j].kind = kind, p[k].kind = kind PROVE j = k
  BY <1>3, <1>4, <1>5, Zenon DEF OneOf, Has
<1> QED
  BY <1>2, <1>5, Zenon DEF OneOf

LEMMA OneTail ==
    ASSUME NEW q \in Seq(LogWrites), q # <<>>, NEW kind, OneOf(q, kind)
    PROVE  OneOf(Tail(q), kind) /\ (Head(q).kind = kind => ~Has(Tail(q), kind))
<1>1. PICK p : p = Tail(q)
  OBVIOUS
<1>2. PICK h : h = Head(q)
  OBVIOUS
<1>3. /\ h = q[1] /\ 1 \in DOMAIN q
      /\ \A k \in DOMAIN p : k \in Nat /\ k + 1 \in DOMAIN q /\ k + 1 # 1 /\ p[k] = q[k + 1]
  BY <1>1, <1>2, TailPlaces
<1>4. \A j, k \in DOMAIN p : j + 1 = k + 1 => j = k
  BY <1>3
<1>5. OneOf(p, kind)
  BY <1>3, <1>4, Zenon DEF OneOf
<1>6. h.kind = kind => ~Has(p, kind)
  BY <1>3, Zenon DEF OneOf, Has
<1> QED
  BY <1>1, <1>2, <1>5, <1>6, Zenon

LEMMA WaitsAppend ==
    ASSUME NEW q \in Seq(LogWrites), NEW w \in LogWrites, NEW r
    PROVE  Waits(Append(q, w), r) <=> Waits(q, r) \/ w = Barrier(r)
<1>1. PICK n : n = Len(q)
  OBVIOUS
<1>2. PICK p : p = Append(q, w)
  OBVIOUS
<1>3. /\ n \in Nat /\ DOMAIN q = 1 .. n /\ DOMAIN p = 1 .. n + 1
      /\ p[n + 1] = w /\ \A k \in 1 .. n : p[k] = q[k]
  BY <1>1, <1>2
<1>4. /\ \A k \in DOMAIN p : k \in DOMAIN q \/ k = n + 1
      /\ n + 1 \in DOMAIN p /\ DOMAIN q \subseteq DOMAIN p
  BY <1>3
<1>5. Waits(p, r) <=> Waits(q, r) \/ w = Barrier(r)
  BY <1>3, <1>4, Zenon DEF Waits
<1> QED
  BY <1>2, <1>5, Zenon

LEMMA WaitsTail ==
    ASSUME NEW q \in Seq(LogWrites), q # <<>>, NEW r
    PROVE  Waits(q, r) <=> Head(q) = Barrier(r) \/ Waits(Tail(q), r)
<1>1. PICK p : p = Tail(q)
  OBVIOUS
<1>2. PICK h : h = Head(q)
  OBVIOUS
<1>3. /\ h = q[1] /\ 1 \in DOMAIN q
      /\ \A k \in DOMAIN p : k \in Nat /\ k + 1 \in DOMAIN q /\ p[k] = q[k + 1]
      /\ \A k \in DOMAIN q : k # 1 => k - 1 \in DOMAIN p /\ p[k - 1] = q[k]
  BY <1>1, <1>2, TailPlaces
<1>4. Waits(q, r) <=> h = Barrier(r) \/ Waits(p, r)
  BY <1>3, Zenon DEF Waits
<1> QED
  BY <1>1, <1>2, <1>4, Zenon

LEMMA LockOffers ==
    ASSUME Inner, LogOK, LockInv, Offer
    PROVE  LockInv'
<1>1. /\ log'.writes \in {log.writes, Append(log.writes, Head(body.todo))}
      /\ log'.purges = log.purges /\ log'.lock = log.lock /\ reader' = reader /\ body.todo # <<>>
  BY OfferStep, OfferInner DEF Inner
<1>2. PICK w : w = Head(body.todo)
  OBVIOUS
<1>3. PICK p : p = Append(log.writes, w)
  OBVIOUS
<1>4. log.writes \in Seq(LogWrites) /\ w \in RequestWrites /\ w \in LogWrites
  <2>1. body.todo \in Seq(RequestWrites)
    BY BodyFields DEF Inner
  <2> QED BY <2>1, <1>1, <1>2, LogFields, WriteTypes
<1>5. w.kind \notin {"barrier", "purge"} /\ \A r \in Readers : w # Barrier(r)
  <2>1. w.kind \notin {"barrier", "purge"}
    BY <1>4 DEF RequestWrites, Insert, Detail, Status
  <2> QED BY <2>1, WriteTypes
<1>6. CASE log'.writes = log.writes
  BY <1>1, <1>6 DEF LockInv
<1>7. CASE log'.writes = p
  <2>1. OneOf(p, "barrier") /\ OneOf(p, "purge")
    BY <1>3, <1>4, <1>5, OneAppend DEF LockInv
  <2>2. \A r \in Readers : Waits(p, r) <=> Waits(log.writes, r)
    BY <1>3, <1>4, <1>5, WaitsAppend
  <2>3. Has(p, "purge") <=> Has(log.writes, "purge")
    BY <1>3, <1>4, <1>5, HasAppend
  <2> QED BY <1>1, <1>7, <2>1, <2>2, <2>3 DEF LockInv
<1> QED
  BY <1>1, <1>2, <1>3, <1>6, <1>7

LEMMA LockServes ==
    ASSUME Inner, LogOK, ReaderOK, LockInv, Serves
    PROVE  LockInv'
<1>1. PICK q : q = log.writes
  OBVIOUS
<1>2. /\ q \in Seq(LogWrites) /\ log.purges \in Nat /\ Verdict \in Statuses \cup {"any"}
      /\ Maintainer \notin Readers /\ Nobody \notin Readers /\ Maintainer # Nobody
  BY <1>1, LogFields, VerdictTypes, GatewayAssumption DEF Inner, Told, Maintainer, Nobody
<1>3. /\ \A r \in Readers : reader[r].state # "idle" => log.lock = r
      /\ OneOf(q, "barrier") /\ OneOf(q, "purge")
      /\ \A r \in Readers : Waits(q, r) => reader[r].state = "waiting"
      /\ Has(q, "purge") => log.lock = Maintainer
      /\ log.lock = Maintainer => log.purges > 0
  BY <1>1 DEF LockInv
<1>4. ASSUME q # <<>>
      PROVE  /\ OneOf(Tail(q), "barrier") /\ OneOf(Tail(q), "purge")
             /\ \A r \in Readers : Waits(Tail(q), r) => Waits(q, r)
             /\ Has(Tail(q), "purge") => Has(q, "purge")
             /\ Head(q).kind = "barrier" => ~Has(Tail(q), "barrier")
             /\ Head(q).kind = "purge" => ~Has(Tail(q), "purge")
  BY <1>2, <1>3, <1>4, OneTail, WaitsTail, HasTail
<1>5. ASSUME NEW ok \in BOOLEAN, Persist(ok) PROVE LockInv'
  <2>1. q # <<>> /\ log'.writes = Tail(q) /\ log'.purges = log.purges /\ log'.lock = log.lock
    BY <1>1, <1>5, PersistStep
  <2>2. reader' = reader
    BY <1>5 DEF Persist
  <2> QED BY <1>3, <1>4, <2>1, <2>2 DEF LockInv
<1>6. ASSUME NEW r \in Readers, ReadBegins(r) PROVE LockInv'
  <2>1. /\ log.lock = Nobody /\ log'.lock = r /\ log'.writes = q /\ log'.purges = log.purges
        /\ reader'[r].state = "locked" /\ \A x \in Readers \ {r} : reader'[x] = reader[x]
    BY <1>1, <1>2, <1>6, ReadBeginsStep
  <2>2. \A x \in Readers : reader[x].state = "idle"
    BY <1>2, <1>3, <2>1
  <2>3. \A x \in Readers : ~Waits(q, x)
    BY <1>3, <2>2
  <2>4. ~Has(q, "purge") /\ r # Maintainer
    BY <1>2, <1>3, <2>1
  <2> QED BY <1>3, <2>1, <2>2, <2>3, <2>4 DEF LockInv
<1>7. ASSUME NEW r \in Readers, ReadFlushes(r) PROVE LockInv'
  <2>1. /\ reader[r].state = "locked" /\ log'.writes = Append(q, Barrier(r)) /\ log'.lock = log.lock
        /\ log'.purges = log.purges
        /\ reader'[r].state = "waiting" /\ \A x \in Readers \ {r} : reader'[x] = reader[x]
    BY <1>1, <1>7, ReadFlushesStep
  <2>2. log.lock = r /\ \A x \in Readers : ~Waits(q, x)
    BY <1>3, <2>1
  <2>3. ~Has(q, "barrier")
    BY <1>2, <2>2, WaitsHas
  <2>4. Barrier(r) \in LogWrites /\ Barrier(r).kind = "barrier" /\ \A x \in Readers : Barrier(r) = Barrier(x) => x = r
    BY WriteTypes
  <2>5. PICK p : p = Append(q, Barrier(r))
    OBVIOUS
  <2>6. OneOf(p, "barrier") /\ OneOf(p, "purge") /\ (Has(p, "purge") <=> Has(q, "purge"))
    <3>1. OneOf(p, "barrier")
      BY <1>2, <1>3, <2>3, <2>4, <2>5, OneAppend
    <3>2. OneOf(p, "purge")
      BY <1>2, <1>3, <2>4, <2>5, OneAppend
    <3>3. Has(p, "purge") <=> Has(q, "purge")
      BY <1>2, <2>4, <2>5, HasAppend
    <3> QED BY <3>1, <3>2, <3>3
  <2>7. \A x \in Readers : Waits(p, x) => x = r
    BY <1>2, <2>2, <2>4, <2>5, WaitsAppend
  <2> QED BY <1>3, <2>1, <2>5, <2>6, <2>7 DEF LockInv
<1>8. ASSUME NEW r \in Readers, Flushed(r) PROVE LockInv'
  <2>1. /\ q # <<>> /\ Head(q) = Barrier(r) /\ log'.writes = Tail(q) /\ log'.lock = log.lock
        /\ log'.purges = log.purges
        /\ reader'[r].state = "flushed" /\ \A x \in Readers \ {r} : reader'[x] = reader[x]
    BY <1>1, <1>8, FlushedStep
  <2>2. Head(q).kind = "barrier"
    BY <2>1, WriteTypes
  <2>3. ~Has(Tail(q), "barrier") /\ Tail(q) \in Seq(LogWrites)
    BY <1>2, <1>4, <2>1, <2>2
  <2>4. \A x \in Readers : ~Waits(Tail(q), x)
    BY <2>3, WaitsHas
  <2>5. Waits(q, r)
    BY <1>2, <2>1, WaitsTail
  <2>6. log.lock = r
    BY <1>3, <2>5
  <2> QED BY <1>3, <1>4, <2>1, <2>4, <2>6 DEF LockInv
<1>9. ASSUME NEW r \in Readers, ReadReturns(r) PROVE LockInv'
  <2>1. /\ reader[r].state = "flushed" /\ log'.writes = q /\ log'.lock = Nobody /\ log'.purges = log.purges
        /\ reader'[r].state = "idle" /\ \A x \in Readers \ {r} : reader'[x] = reader[x]
    BY <1>1, <1>9, ReadReturnsStep
  <2>2. log.lock = r
    BY <1>3, <2>1
  <2>3. \A x \in Readers \ {r} : reader[x].state = "idle"
    BY <1>3, <2>2
  <2>4. \A x \in Readers : ~Waits(q, x)
    BY <1>3, <2>1, <2>3
  <2>5. ~Has(q, "purge")
    BY <1>2, <1>3, <2>2
  <2> QED BY <1>2, <1>3, <2>1, <2>3, <2>4, <2>5 DEF LockInv
<1>10. ASSUME PurgeBegins PROVE LockInv'
  <2>1. log.lock = Nobody /\ log'.lock = Maintainer /\ log'.purges = log.purges + 1 /\ log'.writes = q /\ reader' = reader
    BY <1>1, <1>10, PurgeBeginsStep DEF PurgeBegins
  <2>2. \A x \in Readers : reader[x].state = "idle"
    BY <1>2, <1>3, <2>1
  <2>3. log'.purges > 0
    BY <1>2, <2>1
  <2> QED BY <1>3, <2>1, <2>2, <2>3 DEF LockInv
<1>11. ASSUME PurgeSent PROVE LockInv'
  <2>1. /\ log.lock = Maintainer /\ ~Has(q, "purge") /\ log'.writes = Append(q, Purge) /\ log'.lock = log.lock
        /\ log'.purges = log.purges /\ reader' = reader
    BY <1>1, <1>11, PurgeSentStep DEF PurgeSent
  <2>2. Purge \in LogWrites /\ Purge.kind = "purge" /\ \A x \in Readers : Purge # Barrier(x)
    BY WriteTypes
  <2>3. PICK p : p = Append(q, Purge)
    OBVIOUS
  <2>4. OneOf(p, "barrier") /\ OneOf(p, "purge")
    <3>1. OneOf(p, "barrier")
      BY <1>2, <1>3, <2>2, <2>3, OneAppend
    <3>2. OneOf(p, "purge")
      BY <1>2, <1>3, <2>1, <2>2, <2>3, OneAppend
    <3> QED BY <3>1, <3>2
  <2>5. \A x \in Readers : Waits(p, x) => Waits(q, x)
    BY <1>2, <2>2, <2>3, WaitsAppend
  <2> QED BY <1>3, <2>1, <2>3, <2>4, <2>5 DEF LockInv
<1>12. ASSUME Purged PROVE LockInv'
  <2>1. /\ q # <<>> /\ Head(q) = Purge /\ log'.writes = Tail(q) /\ log'.lock = Nobody
        /\ log'.purges = log.purges /\ reader' = reader
    BY <1>1, <1>12, PurgedStep DEF Purged
  <2>2. Head(q).kind = "purge"
    BY <2>1, WriteTypes
  <2>3. ~Has(Tail(q), "purge")
    BY <1>4, <2>1, <2>2
  <2>4. log.lock = Maintainer
    BY <1>2, <1>3, <2>1, <2>2, HasTail
  <2>5. \A x \in Readers : reader[x].state = "idle"
    BY <1>2, <1>3, <2>4
  <2> QED BY <1>2, <1>3, <1>4, <2>1, <2>3, <2>5 DEF LockInv
<1> QED
  BY <1>5, <1>6, <1>7, <1>8, <1>9, <1>10, <1>11, <1>12 DEF Serves

-------------------------------------------------------------------------------
(* What a reader is given.                                                    *)

LEMMA BehindTail ==
    ASSUME NEW q \in Seq(LogWrites), q # <<>>
    PROVE  /\ SettledBehind(q, 0) => SettledBehind(Tail(q), 0)
           /\ \A r : Passed(q, r) => Passed(Tail(q), r)
           /\ \A r : Passed(q, r) /\ Head(q) = Barrier(r) => SettledBehind(Tail(q), 0)
<1>1. PICK p : p = Tail(q)
  OBVIOUS
<1>2. PICK h : h = Head(q)
  OBVIOUS
<1>3. /\ h = q[1] /\ 1 \in DOMAIN q
      /\ \A k \in DOMAIN p : k \in Nat /\ k + 1 \in DOMAIN q /\ p[k] = q[k + 1]
  BY <1>1, <1>2, TailPlaces
<1>4. \A j, k \in DOMAIN p : k + 1 > 0 /\ k + 1 > 1 /\ (k > j => k + 1 > j + 1)
  <2>1. DOMAIN p \subseteq Nat /\ \A k \in DOMAIN p : k >= 1
    BY <1>1
  <2> QED BY <2>1
<1>5. SettledBehind(q, 0) => SettledBehind(p, 0)
  BY <1>3, <1>4, Zenon DEF SettledBehind
<1>6. \A r : Passed(q, r) => Passed(p, r)
  BY <1>3, <1>4, Zenon DEF SettledBehind, Passed
<1>7. \A r : Passed(q, r) /\ h = Barrier(r) => SettledBehind(p, 0)
  BY <1>3, <1>4, Zenon DEF SettledBehind, Passed
<1> QED
  BY <1>1, <1>2, <1>5, <1>6, <1>7, Zenon

LEMMA BehindAppend ==
    ASSUME NEW q \in Seq(LogWrites), NEW r \in Readers, ~Waits(q, r)
    PROVE  Passed(Append(q, Barrier(r)), r)
<1>1. PICK n : n = Len(q)
  OBVIOUS
<1>2. PICK p : p = Append(q, Barrier(r))
  OBVIOUS
<1>3. /\ n \in Nat /\ DOMAIN q = 1 .. n /\ DOMAIN p = 1 .. n + 1
      /\ \A k \in 1 .. n : p[k] = q[k]
  BY <1>1, <1>2
<1>4. ASSUME NEW k \in DOMAIN p, p[k] = Barrier(r) PROVE SettledBehind(p, k)
  <2>1. k = n + 1
    <3>1. k \notin DOMAIN q
      BY <1>3, <1>4, Zenon DEF Waits
    <3> QED BY <3>1, <1>3
  <2>2. \A j \in DOMAIN p : ~(j > k)
    BY <2>1, <1>3
  <2> QED BY <2>2, Zenon DEF SettledBehind
<1> QED
  BY <1>2, <1>4, Zenon DEF Passed

LEMMA BehindHas ==
    ASSUME NEW q \in Seq(LogWrites), SettledBehind(q, 0)
    PROVE  ~Has(q, "insert") /\ ~Has(q, "status")
<1>1. \A k \in DOMAIN q : k > 0
  OBVIOUS
<1>2. \A k \in DOMAIN q : q[k].kind \notin {"insert", "status"}
  BY <1>1, Zenon DEF SettledBehind
<1> QED
  BY <1>2 DEF Has

LEMMA VerdictGiven ==
    ASSUME Verdict # "any"
    PROVE  body.phase = "over" /\ body.todo = <<>> /\ Decided = Verdict
BY DEF Verdict, Busy

\* What the log says once nothing of the request waits.
LEMMA RowSettled ==
    ASSUME LogOK, RecordInv, Verdict # "any", ~log.lost, ~Has(log.writes, "insert"), ~Has(log.writes, "status")
    PROVE  log.row = Verdict \/ (log.row = NoRow /\ log.purges > 0)
<1>1. body.phase = "over" /\ body.todo = <<>> /\ Decided = Verdict
  BY VerdictGiven
<1>2. Record("over", Verdict, log.writes, <<>>, log.row, log.purges)
  BY <1>1 DEF RecordInv
<1>3. ~Has(<<>>, "insert") /\ ~Has(<<>>, "status")
  BY HasEmpty, Zenon
<1> QED
  BY <1>2, <1>3 DEF Record

LEMMA ReaderOffers ==
    ASSUME Inner, LogOK, ReaderInv, Offer \/ Begins \/ Advances
    PROVE  ReaderInv'
<1>1. reader' = reader
  BY OfferInner DEF Begins, Advances
<1>2. Verdict = "any"
  BY DEF Offer, Begins, Advances, GoesOn, Busy, Verdict
<1>3. \A r \in Readers : reader[r].since = "any"
  BY <1>2 DEF ReaderInv
<1> QED
  BY <1>1, <1>3 DEF ReaderInv

LEMMA ReaderServes ==
    ASSUME Inner, LogOK, ReaderOK, RecordInv, LockInv, ReaderInv, Serves
    PROVE  ReaderInv'
<1>1. PICK q : q = log.writes
  OBVIOUS
<1>2. PICK v : v = Verdict
  OBVIOUS
<1>3. /\ q \in Seq(LogWrites) /\ log.purges \in Nat /\ v \in Statuses \cup {"any"}
      /\ Maintainer \notin Readers /\ Nobody \notin Readers /\ Verdict \in Statuses \cup {"any"}
  BY <1>1, <1>2, LogFields, VerdictTypes, GatewayAssumption DEF Inner, Told, Maintainer, Nobody
<1>4. Verdict' = v
  BY <1>2, InnerStays DEF Serves
<1>5. \A x \in Readers : reader[x].since # "any" =>
          /\ v = reader[x].since
          /\ reader[x].state = "waiting" => Passed(q, x)
          /\ reader[x].state = "flushed" => SettledBehind(q, 0)
          /\ reader[x].state = "idle" /\ ~log.lost =>
                reader[x].result = reader[x].since \/ (reader[x].result = NoRow /\ log.purges > 0)
  BY <1>1, <1>2 DEF ReaderInv
<1>6. /\ \A x \in Readers : reader[x].state # "idle" => log.lock = x
      /\ \A x \in Readers : Waits(q, x) => reader[x].state = "waiting"
  BY <1>1 DEF LockInv
<1>7. ASSUME q # <<>>
      PROVE  /\ SettledBehind(q, 0) => SettledBehind(Tail(q), 0)
             /\ \A x \in Readers : Passed(q, x) => Passed(Tail(q), x)
             /\ \A x \in Readers : Passed(q, x) /\ Head(q) = Barrier(x) => SettledBehind(Tail(q), 0)
  BY <1>3, <1>7, BehindTail
<1>8. ASSUME NEW ok \in BOOLEAN, Persist(ok) PROVE ReaderInv'
  <2>1. q # <<>> /\ log'.writes = Tail(q) /\ log'.purges = log.purges /\ (log.lost => log'.lost)
    BY <1>1, <1>8, PersistStep
  <2>2. reader' = reader
    BY <1>8 DEF Persist
  <2> QED BY <1>4, <1>5, <1>7, <2>1, <2>2 DEF ReaderInv
<1>9. ASSUME NEW r \in Readers, ReadBegins(r) PROVE ReaderInv'
  <2>1. /\ log'.writes = q /\ log'.purges = log.purges /\ log'.lost = log.lost
        /\ reader'[r].state = "locked" /\ reader'[r].since = v /\ \A x \in Readers \ {r} : reader'[x] = reader[x]
    BY <1>1, <1>2, <1>3, <1>9, ReadBeginsStep
  <2> QED BY <1>4, <1>5, <2>1 DEF ReaderInv
<1>10. ASSUME NEW r \in Readers, ReadFlushes(r) PROVE ReaderInv'
  <2>1. /\ reader[r].state = "locked" /\ log'.writes = Append(q, Barrier(r))
        /\ log'.purges = log.purges /\ log'.lost = log.lost
        /\ reader'[r].state = "waiting" /\ reader'[r].since = reader[r].since
        /\ \A x \in Readers \ {r} : reader'[x] = reader[x]
    BY <1>1, <1>10, ReadFlushesStep
  <2>2. \A x \in Readers \ {r} : reader[x].state = "idle"
    BY <1>6, <2>1
  <2>3. ~Waits(q, r)
    BY <1>6, <2>1
  <2>4. Passed(log'.writes, r)
    BY <1>3, <2>1, <2>3, BehindAppend
  <2> QED BY <1>4, <1>5, <2>1, <2>2, <2>4 DEF ReaderInv
<1>11. ASSUME NEW r \in Readers, Flushed(r) PROVE ReaderInv'
  <2>1. /\ q # <<>> /\ Head(q) = Barrier(r) /\ log'.writes = Tail(q)
        /\ log'.purges = log.purges /\ log'.lost = log.lost
        /\ reader'[r].state = "flushed" /\ reader'[r].since = reader[r].since
        /\ \A x \in Readers \ {r} : reader'[x] = reader[x]
    BY <1>1, <1>11, FlushedStep
  <2>2. reader[r].state = "waiting"
    BY <1>3, <1>6, <2>1, WaitsTail
  <2>3. reader[r].since # "any" => SettledBehind(Tail(q), 0)
    BY <1>5, <1>7, <2>1, <2>2
  <2> QED BY <1>4, <1>5, <1>7, <2>1, <2>3 DEF ReaderInv
<1>12. ASSUME NEW r \in Readers, ReadReturns(r) PROVE ReaderInv'
  <2>1. /\ reader[r].state = "flushed" /\ log'.writes = q /\ log'.purges = log.purges /\ log'.lost = log.lost
        /\ reader'[r].state = "idle" /\ reader'[r].since = reader[r].since /\ reader'[r].result = log.row
        /\ \A x \in Readers \ {r} : reader'[x] = reader[x]
    BY <1>1, <1>12, ReadReturnsStep
  <2>2. ASSUME reader[r].since # "any", ~log.lost
        PROVE  log.row = reader[r].since \/ (log.row = NoRow /\ log.purges > 0)
    <3>1. SettledBehind(q, 0) /\ Verdict = reader[r].since
      BY <1>2, <1>5, <2>1, <2>2
    <3>2. ~Has(log.writes, "insert") /\ ~Has(log.writes, "status")
      BY <1>1, <1>3, <3>1, BehindHas
    <3> QED BY <2>2, <3>1, <3>2, RowSettled
  <2> QED BY <1>4, <1>5, <2>1, <2>2 DEF ReaderInv
<1>13. ASSUME PurgeBegins PROVE ReaderInv'
  <2>1. log'.purges = log.purges + 1 /\ log'.writes = q /\ log'.lost = log.lost /\ reader' = reader
    BY <1>1, <1>13, PurgeBeginsStep DEF PurgeBegins
  <2>2. log.purges > 0 => log'.purges > 0
    BY <1>3, <2>1
  <2> QED BY <1>4, <1>5, <2>1, <2>2 DEF ReaderInv
<1>14. ASSUME PurgeSent PROVE ReaderInv'
  <2>1. log.lock = Maintainer /\ log'.purges = log.purges /\ log'.lost = log.lost /\ reader' = reader
    BY <1>14, PurgeSentStep DEF PurgeSent
  <2>2. \A x \in Readers : reader[x].state = "idle"
    BY <1>3, <1>6, <2>1
  <2> QED BY <1>4, <1>5, <2>1, <2>2 DEF ReaderInv
<1>15. ASSUME Purged PROVE ReaderInv'
  <2>1. q # <<>> /\ log'.writes = Tail(q) /\ log'.purges = log.purges /\ log'.lost = log.lost /\ reader' = reader
    BY <1>1, <1>15, PurgedStep DEF Purged
  <2> QED BY <1>4, <1>5, <1>7, <2>1 DEF ReaderInv
<1> QED
  BY <1>8, <1>9, <1>10, <1>11, <1>12, <1>13, <1>14, <1>15 DEF Serves

-------------------------------------------------------------------------------
(* The invariant.                                                             *)

GatewayInv == Inner /\ LogOK /\ ReaderOK /\ RecordInv /\ LockInv /\ ReaderInv

\* Nothing has been said, and nothing shown.
LEMMA SaidNothing ==
    ASSUME NEW to
    PROVE  SaidIn(<<>>, to) = <<>>
<1>1. <<>> \in Seq(Fragments) /\ Len(<<>>) = 0
  OBVIOUS
<1>2. PICK f : Sums(f, Len(<<>>), SaidAt(<<>>, to)) /\ SaidIn(<<>>, to) = f[Len(<<>>)]
  BY <1>1, SaidSums
<1> QED
  BY <1>1, <1>2 DEF Sums

LEMMA TextNothing ==
    ASSUME NEW kind
    PROVE  TextIn(<<>>, kind) = <<>>
<1>1. <<>> \in Seq(Items) /\ Len(<<>>) = 0
  OBVIOUS
<1>2. PICK f : Sums(f, Len(<<>>), ShownAt(<<>>, kind)) /\ TextIn(<<>>, kind) = f[Len(<<>>)]
  BY <1>1, TextSums
<1> QED
  BY <1>1, <1>2 DEF Sums

LEMMA TellsNothing ==
    ASSUME NEW c, c = [items |-> <<>>, ends |-> <<>>, ok |-> TRUE, over |-> "no"],
           NEW u, u.said = <<>>, u.reason = "none", u.done = FALSE
    PROVE  c \in Clients /\ NewState \in Translators /\ Answering(c, NewState, Heard(u))
<1>1. c \in Clients /\ c.items = <<>> /\ c.ends = <<>> /\ c.ok
  BY DEF Clients, Overs
<1>2. PICK s : s = NewState
  OBVIOUS
<1>3. Closed \in Slots /\ ~Closed.open
  BY DEF Closed, Slots, Text
<1>4. PICK f : f = [i \in {} |-> Closed]
  OBVIOUS
<1>5. f \in ToolSlots /\ DOMAIN f = {}
  <2>1. f \in [{} -> Slots] /\ {} \in SUBSET Tools
    BY <1>4
  <2> QED BY <2>1, <1>4 DEF ToolSlots
<1>6. /\ ~s.started /\ ~s.finished /\ ~s.completed /\ s.reason = "none" /\ ~s.usage /\ s.next = 0
      /\ s.message = Closed /\ s.reasoning = Closed /\ s.tools = f /\ s.output = <<>> /\ s.queue = <<>>
  BY <1>2, <1>4 DEF NewState
<1>7. s \in Translators
  <2>1. "none" \in Reasons
    BY DEF Reasons
  <2> QED BY <2>1, <1>2, <1>3, <1>4, <1>5 DEF NewState, Translators
<1>8. InPhase(s)
  BY <1>3, <1>6 DEF InPhase
<1>9. Counted(s)
  <2>1. Cardinality(DOMAIN s.tools) = 0
    BY <1>5, <1>6, FS_EmptySet
  <2> QED BY <2>1, <1>3, <1>6 DEF Counted, One
<1>10. \A kind \in Texts : ~s[kind].open
  BY <1>3, <1>6 DEF Texts
<1>11. TextShown(s, c)
  BY <1>10, Zenon DEF TextShown
<1>12. CallsHaveItems(s, c)
  BY <1>5, <1>6, Zenon DEF CallsHaveItems
<1>13. DOMAIN c.items = {} /\ DOMAIN s.output = {}
  BY <1>1, <1>6
<1>14. OpenIsKnown(s, c)
  BY <1>13, Zenon DEF OpenIsKnown
<1>15. DoneAreListed(s, c)
  BY <1>13, Zenon DEF DoneAreListed
<1>16. Len(c.items) = s.next
  BY <1>1, <1>6
<1>17. Matches(s, c)
  BY <1>1, <1>6, <1>8, <1>9, <1>11, <1>12, <1>14, <1>15, <1>16 DEF Matches
<1>18. Reaches(c, s.queue, c)
  BY <1>1, <1>6, RunStays
<1>19. PICK h : h = Heard(u)
  OBVIOUS
<1>20. \A to : SaidIn(<<>>, to) = <<>>
  BY SaidNothing
<1>21. /\ h \in Heards /\ h.called = {} /\ \A i \in Tools : h.calls[i] = <<>>
       /\ h.texts["message"] = <<>> /\ h.texts["reasoning"] = <<>>
  <2>1. u.said \in Seq(Fragments)
    OBVIOUS
  <2>2. u.reason \in Reasons /\ u.done \in BOOLEAN
    BY Zenon DEF Reasons
  <2>3. /\ Heard(u) \in Heards
        /\ Heard(u).texts["message"] = SaidIn(u.said, Message)
        /\ Heard(u).texts["reasoning"] = SaidIn(u.said, Reasoning)
        /\ Heard(u).called = {i \in Tools : SaidIn(u.said, Call(i)) # <<>>}
        /\ \A i \in Tools : Heard(u).calls[i] = SaidIn(u.said, Call(i))
    BY <2>1, <2>2, HeardTyped, Zenon
  <2> QED BY <2>3, <1>19, <1>20
<1>22. TextsCarried(c, h)
  <2>1. \A kind : TextIn(<<>>, kind) = <<>>
    BY TextNothing
  <2>2. \A kind \in Texts : h.texts[kind] = <<>>
    BY <1>21 DEF Texts
  <2> QED BY <2>1, <2>2, <1>1 DEF TextsCarried
<1>23. CallsCarried(s, c, h)
  <2>1. PICK place : place = [i \in {} |-> 0]
    OBVIOUS
  <2>2. place \in [{} -> DOMAIN c.items]
    BY <2>1
  <2>3. Placed(place, s, c, h)
    BY <2>2, <1>5, <1>6, <1>13, <1>21 DEF Placed
  <2> QED BY <2>3, <1>5, <1>6, <1>21 DEF CallsCarried
<1>24. Carries(s, c, h)
  BY <1>1, <1>21, <1>22, <1>23 DEF Carries, EndMeant
<1>25. Tells(c, s, h)
  BY <1>7, <1>17, <1>18, <1>24, Zenon DEF Tells
<1> QED
  BY <1>1, <1>2, <1>5, <1>6, <1>7, <1>19, <1>21, <1>25 DEF Answering

LEMMA InitInv ==
    ASSUME Init
    PROVE  GatewayInv
<1>1. UpstreamOK
  BY GatewayAssumption DEF Init, UpstreamOK, Reasons
<1>2. BodyOK
  BY DEF Init, BodyOK
<1>3. LogOK
  BY GatewayAssumption DEF Init, LogOK, Rows
<1>4. ReaderOK
  BY DEF Init, ReaderOK, Rows
<1>5. /\ client \in Clients /\ client.ok /\ translator \in Translators
      /\ Answering(client, translator, Heard(upstream))
  <2>1. /\ client = [items |-> <<>>, ends |-> <<>>, ok |-> TRUE, over |-> "no"] /\ translator = NewState
        /\ upstream.said = <<>> /\ upstream.reason = "none" /\ upstream.done = FALSE
    BY DEF Init
  <2> QED BY <2>1, TellsNothing
<1>6. Told
  BY <1>5 DEF Told
<1>7. ReasonInv
  BY DEF Init, ReasonInv, NewState
<1>8. TapInv
  BY DEF Init, TapInv
<1>9. Decided = "any"
  BY DEF Init, Decided
<1>10. RecordInv
  <2>1. InOrder(<<>>) /\ ~Has(<<>>, "insert") /\ ~Has(<<>>, "status") /\ SaysStatus(<<>>, "any")
    BY DEF InOrder, Has, SaysStatus
  <2>2. body.phase = "idle" /\ log.writes = <<>> /\ body.todo = <<>> /\ log.row = NoRow
    BY DEF Init
  <2> QED BY <2>1, <2>2, <1>9 DEF RecordInv, Record
<1>11. LockInv
  <2>1. OneOf(<<>>, "barrier") /\ OneOf(<<>>, "purge") /\ ~Has(<<>>, "purge") /\ \A r : ~Waits(<<>>, r)
    BY DEF OneOf, Has, Waits
  <2>2. log.writes = <<>> /\ log.lock = Nobody /\ \A r \in Readers : reader[r].state = "idle"
    BY DEF Init
  <2>3. Nobody # Maintainer
    BY DEF Nobody, Maintainer
  <2> QED BY <2>1, <2>2, <2>3 DEF LockInv
<1>12. ReaderInv
  BY DEF Init, ReaderInv
<1> QED
  BY <1>1, <1>2, <1>3, <1>4, <1>6, <1>7, <1>8, <1>10, <1>11, <1>12 DEF GatewayInv, Inner

LEMMA NextInv ==
    ASSUME GatewayInv, [Next]_vars
    PROVE  GatewayInv'
<1>1. Inner /\ LogOK /\ ReaderOK /\ RecordInv /\ LockInv /\ ReaderInv
  BY DEF GatewayInv
<1>2. CASE Next
  <2>1. Inner' /\ (Offer \/ Begins \/ Advances \/ UNCHANGED <<body, client, log, reader>> \/ Serves)
    BY <1>1, <1>2, Moves
  <2>2. CASE Offer
    <3>1. LogOK' /\ reader' = reader
      BY <1>1, <2>2, OfferStep, OfferInner DEF Inner
    <3>2. ReaderOK'
      BY <1>1, <3>1 DEF ReaderOK
    <3> QED BY <1>1, <2>1, <2>2, <3>1, <3>2, RecordOffers, LockOffers, ReaderOffers DEF GatewayInv
  <2>3. CASE Begins \/ Advances
    <3>1. log' = log /\ reader' = reader
      BY <2>3 DEF Begins, Advances
    <3>2. LogOK' /\ ReaderOK' /\ LockInv'
      BY <1>1, <3>1 DEF LogOK, ReaderOK, LockInv
    <3> QED BY <1>1, <2>1, <2>3, <3>2, RecordAdvances, ReaderOffers DEF GatewayInv
  <2>4. CASE UNCHANGED <<body, client, log, reader>>
    <3>1. LogOK' /\ ReaderOK' /\ LockInv'
      BY <1>1, <2>4 DEF LogOK, ReaderOK, LockInv
    <3>2. Decided' = Decided
      BY <2>4, SameDecided
    <3>3. RecordInv'
      BY <1>1, <2>4, <3>2 DEF RecordInv
    <3>4. Verdict' = Verdict
      BY <2>4, <3>2 DEF Verdict, Busy
    <3>5. ReaderInv'
      BY <1>1, <2>4, <3>4 DEF ReaderInv
    <3> QED BY <2>1, <3>1, <3>3, <3>5 DEF GatewayInv
  <2>5. CASE Serves
    <3>1. LogOK' /\ ReaderOK'
      <4>1. Verdict \in Statuses \cup {"any"}
        BY <1>1, VerdictTypes DEF Inner, Told
      <4>2. ASSUME NEW ok \in BOOLEAN, Persist(ok) PROVE LogOK' /\ ReaderOK'
        <5>1. LogOK' /\ reader' = reader
          BY <1>1, <4>2, PersistStep DEF Persist
        <5> QED BY <5>1, <1>1 DEF ReaderOK
      <4>3. ASSUME NEW r \in Readers, ReadBegins(r) PROVE LogOK' /\ ReaderOK'
        BY <1>1, <4>1, <4>3, ReadBeginsStep
      <4>4. ASSUME NEW r \in Readers, ReadFlushes(r) PROVE LogOK' /\ ReaderOK'
        BY <1>1, <4>4, ReadFlushesStep
      <4>5. ASSUME NEW r \in Readers, Flushed(r) PROVE LogOK' /\ ReaderOK'
        BY <1>1, <4>5, FlushedStep
      <4>6. ASSUME NEW r \in Readers, ReadReturns(r) PROVE LogOK' /\ ReaderOK'
        BY <1>1, <4>6, ReadReturnsStep
      <4>7. ASSUME PurgeBegins \/ PurgeSent \/ Purged PROVE LogOK' /\ ReaderOK'
        <5>1. LogOK' /\ reader' = reader
          BY <1>1, <4>7, PurgeBeginsStep, PurgeSentStep, PurgedStep DEF PurgeBegins, PurgeSent, Purged
        <5> QED BY <5>1, <1>1 DEF ReaderOK
      <4> QED BY <2>5, <4>2, <4>3, <4>4, <4>5, <4>6, <4>7 DEF Serves
    <3> QED BY <1>1, <2>1, <2>5, <3>1, RecordServes, LockServes, ReaderServes DEF GatewayInv
  <2> QED BY <2>1, <2>2, <2>3, <2>4, <2>5
<1>3. CASE UNCHANGED vars
  <2>1. /\ upstream' = upstream /\ translator' = translator /\ body' = body
        /\ client' = client /\ log' = log /\ reader' = reader
    BY <1>3 DEF vars
  <2>2. Inner' /\ Verdict' = Verdict /\ Decided' = Decided
    BY <1>1, <2>1, InnerStays
  <2>3. LogOK' /\ ReaderOK' /\ LockInv'
    BY <1>1, <2>1 DEF LogOK, ReaderOK, LockInv
  <2>4. RecordInv' /\ ReaderInv'
    BY <1>1, <2>1, <2>2 DEF RecordInv, ReaderInv
  <2> QED BY <2>2, <2>3, <2>4 DEF GatewayInv
<1> QED
  BY <1>2, <1>3

\* What the translator, the tap, the queue and the readers of the log agree on at
\* every moment of a request.
THEOREM GatewayHolds == Spec => []GatewayInv
<1>1. Init => GatewayInv
  BY InitInv
<1>2. GatewayInv /\ [Next]_vars => GatewayInv'
  BY NextInv
<1> QED
  BY <1>1, <1>2, PTL DEF Spec
-------------------------------------------------------------------------------
(* What the runs check, for every value of the constants.                     *)

\* The queue of the log keeps its bound (WRITE_QUEUE_CAPACITY) and the values are
\* what they should be; and the events a client is shown are a well-formed response
\* (what assert_codex_active_item_invariants asserts in the translator's tests, and
\* more), for chunks of any content, any number of tool calls and any moment at which
\* the provider stops or the client goes away.
THEOREM StreamHolds == Spec => []StreamInv
<1>1. GatewayInv => StreamInv
  <2>1. SUFFICES ASSUME GatewayInv PROVE StreamInv
    OBVIOUS
  <2>2. UpstreamOK /\ BodyOK /\ Told /\ LogOK /\ ReaderOK
    BY <2>1 DEF GatewayInv, Inner
  <2>3. upstream.state \in {"open", "done", "ended", "broken"} /\ upstream.chunks \in 0 .. MaxChunks + 1
        /\ Len(upstream.said) <= MaxParts
    BY <2>2, GatewayAssumption DEF UpstreamOK
  <2>4. DOMAIN translator.tools \subseteq Tools
    BY <2>2, SlotTypes DEF Told
  <2>5. body.phase \in {"idle", "starting", "streaming", "over"}
    BY <2>2, BodyFields DEF Phases
  <2>6. client.over \in {"no", "ended", "error", "left", "abandoned"} /\ WellFormed
    BY <2>2 DEF Told, Clients, Overs, WellFormed
  <2>7. LogWrites = Writes
    BY Zenon DEF LogWrites, RequestWrites, Writes, Statuses
  <2>8. /\ \A k \in DOMAIN log.writes : log.writes[k] \in Writes
        /\ Len(log.writes) <= Capacity
        /\ log.row \in Terminals \cup {"running", "cancelled", NoRow}
        /\ log.lock \in Readers \cup {Maintainer, Nobody}
    <3>1. log.writes \in Seq(LogWrites) /\ log.row \in Rows
      BY <2>2, LogFields
    <3>2. \A k \in DOMAIN log.writes : log.writes[k] \in Writes
      BY <3>1, <2>7
    <3> QED BY <2>2, <3>1, <3>2, LogFields DEF Rows, Statuses
  <2>9. \A r \in Readers : reader[r].state \in {"idle", "locked", "waiting", "flushed"}
    BY <2>2, Zenon DEF ReaderOK
  <2> QED BY <2>3, <2>4, <2>5, <2>6, <2>8, <2>9 DEF StreamInv, TypeOK
<1> QED
  BY <1>1, GatewayHolds, PTL

\* Once a request is over and its writes are through, the record has the status the
\* client was shown, whichever of the streams of the body was the first to end and
\* whatever readers and cleanups put into the queue meanwhile.
THEOREM LogHolds == Spec => []LogTellsTruth
<1>1. GatewayInv => LogTellsTruth
  <2>1. SUFFICES ASSUME GatewayInv, Verdict # "any", Settled, ~log.lost
                 PROVE  log.row = Verdict \/ (log.row = NoRow /\ log.purges > 0)
    BY DEF LogTellsTruth
  <2>2. ~Has(log.writes, "insert") /\ ~Has(log.writes, "status")
    BY <2>1 DEF Settled, Has
  <2> QED BY <2>1, <2>2, RowSettled DEF GatewayInv
<1> QED
  BY <1>1, GatewayHolds, PTL

\* A read of the log that began after a request was over is given its final status:
\* flush_pending_writes puts the reader's marker behind the writes of the request.
THEOREM ReadHolds == Spec => []ReadIsSettled
<1>1. GatewayInv => ReadIsSettled
  BY DEF GatewayInv, ReaderInv, ReadIsSettled
<1> QED
  BY <1>1, GatewayHolds, PTL

-------------------------------------------------------------------------------
(* The whole answer.                                                           *)

\* A client that is shown an answer that has ended has been shown all of it.
LEMMA ToldAll ==
    ASSUME NEW c \in Clients, NEW s, NEW h, Tells(c, s, h), c.ends # <<>>
    PROVE  /\ TextsCarried(c, h) /\ EndMeant(c.ends, h)
           /\ \E place : /\ place \in [h.called -> DOMAIN c.items]
                         /\ \A i, j \in h.called : place[i] = place[j] => i = j
                         /\ \A k \in DOMAIN c.items : c.items[k].kind = "tool" => \E i \in h.called : place[i] = k
                         /\ \A i \in h.called : c.items[place[i]] = Item("tool", FALSE, Input(i, h.calls[i]))
<1>1. PICK d \in Clients : s \in Translators /\ h \in Heards /\ Reaches(c, s.queue, d) /\ Matches(s, d) /\ Carries(s, d, h)
  BY TellsPick
<1>2. PICK q : q = s.queue
  OBVIOUS
<1>3. q \in Seq(Events)
  BY <1>1, <1>2, SlotTypes
<1>4. q = <<>>
  <2>1. SUFFICES ASSUME q # <<>> PROVE FALSE
    OBVIOUS
  <2>2. Fine(c, Head(q))
    BY <1>1, <1>2, <1>3, <2>1, RunPop
  <2> QED BY <2>2 DEF Fine
<1>5. d = c
  BY <1>1, <1>2, <1>3, <1>4, RunEnds
<1>6. DOMAIN s.tools = {}
  <2>1. s.completed
    BY <1>1, <1>5 DEF Matches
  <2>2. NothingOpen(s)
    BY <2>1, <1>1 DEF Matches, InPhase
  <2> QED BY <2>2 DEF NothingOpen
<1>7. PICK place : Placed(place, s, c, h)
  BY <1>1, <1>5 DEF Carries, CallsCarried
<1>8. /\ place \in [h.called -> DOMAIN c.items]
      /\ \A i, j \in h.called : place[i] = place[j] => i = j
      /\ \A k \in DOMAIN c.items : c.items[k].kind = "tool" => \E i \in h.called : place[i] = k
      /\ \A i \in h.called : c.items[place[i]] = Item("tool", FALSE, Input(i, h.calls[i]))
  BY <1>6, <1>7, Zenon DEF Placed
<1> QED
  BY <1>1, <1>5, <1>8 DEF Carries

\* The texts and calls of WholeAnswer, as operators of the values.
LEMMA SameTexts ==
    /\ \A kind : TextOf(kind) = TextIn(client.items, kind)
    /\ \A to : SaidTo(to) = SaidIn(upstream.said, to)
  BY Zenon DEF TextOf, TextIn, SaidTo, SaidIn

\* While the response goes on, an answer that has ended is whole.
LEMMA WholeGoing ==
    ASSUME Inner, body.phase # "over"
    PROVE  WholeAnswer
<1>1. SUFFICES ASSUME client.ends # <<>>, Head(client.ends) # "failed"
               PROVE  /\ upstream.reason # "none" \/ upstream.done
                      /\ Head(client.ends) = "incomplete" <=> upstream.reason = "length"
                      /\ TextOf("message") = SaidTo(Message)
                      /\ TextOf("reasoning") = SaidTo(Reasoning)
                      /\ \E place \in Bijection(Called, CallsShown) :
                             \A i \in Called : client.items[place[i]].text = Input(i, SaidTo(Call(i)))
  BY Zenon DEF WholeAnswer
<1>2. PICK h : h = Heard(upstream)
  OBVIOUS
<1>3. client \in Clients /\ Tells(client, translator, h)
  BY <1>2 DEF Inner, Told, Answering
<1>4. /\ h \in Heards
      /\ h.meant = (upstream.reason # "none" \/ upstream.done) /\ h.reason = upstream.reason
      /\ h.texts["message"] = SaidTo(Message)
      /\ h.texts["reasoning"] = SaidTo(Reasoning)
      /\ h.called = Called
      /\ \A i \in Tools : h.calls[i] = SaidTo(Call(i))
  <2>1. upstream.said \in Seq(Fragments) /\ upstream.reason \in Reasons /\ upstream.done \in BOOLEAN
    BY DEF Inner, UpstreamOK
  <2>2. /\ h \in Heards
        /\ h.meant = (upstream.reason # "none" \/ upstream.done) /\ h.reason = upstream.reason
        /\ h.texts["message"] = SaidIn(upstream.said, Message)
        /\ h.texts["reasoning"] = SaidIn(upstream.said, Reasoning)
        /\ h.called = {i \in Tools : SaidIn(upstream.said, Call(i)) # <<>>}
        /\ \A i \in Tools : h.calls[i] = SaidIn(upstream.said, Call(i))
    BY <2>1, <1>2, HeardTyped, Zenon
  <2> QED BY <2>2, SameTexts, Zenon DEF Called
<1>5. /\ TextsCarried(client, h) /\ EndMeant(client.ends, h)
      /\ \E place : /\ place \in [h.called -> DOMAIN client.items]
                    /\ \A i, j \in h.called : place[i] = place[j] => i = j
                    /\ \A k \in DOMAIN client.items : client.items[k].kind = "tool" => \E i \in h.called : place[i] = k
                    /\ \A i \in h.called : client.items[place[i]] = Item("tool", FALSE, Input(i, h.calls[i]))
  BY <1>1, <1>3, ToldAll
<1>6. /\ upstream.reason # "none" \/ upstream.done
      /\ Head(client.ends) = "incomplete" <=> upstream.reason = "length"
  BY <1>1, <1>4, <1>5 DEF EndMeant
<1>7. TextOf("message") = SaidTo(Message) /\ TextOf("reasoning") = SaidTo(Reasoning)
  <2>1. TextIn(client.items, "message") = h.texts["message"] /\ TextIn(client.items, "reasoning") = h.texts["reasoning"]
    BY <1>5 DEF TextsCarried, Texts
  <2> QED BY <2>1, <1>4, SameTexts, Zenon
<1>8. PICK place : /\ place \in [h.called -> DOMAIN client.items]
                   /\ \A i, j \in h.called : place[i] = place[j] => i = j
                   /\ \A k \in DOMAIN client.items : client.items[k].kind = "tool" => \E i \in h.called : place[i] = k
                   /\ \A i \in h.called : client.items[place[i]] = Item("tool", FALSE, Input(i, h.calls[i]))
  BY <1>5
<1>9. \A i \in Called : /\ client.items[place[i]].kind = "tool"
                        /\ client.items[place[i]].text = Input(i, h.calls[i])
  <2>1. \A i \in Called : client.items[place[i]] = Item("tool", FALSE, Input(i, h.calls[i]))
    BY <1>4, <1>8, Zenon
  <2>2. SUFFICES ASSUME NEW i \in Called
                 PROVE  /\ client.items[place[i]].kind = "tool"
                        /\ client.items[place[i]].text = Input(i, h.calls[i])
    OBVIOUS
  <2>3. PICK item : item = client.items[place[i]]
    OBVIOUS
  <2>4. PICK text : text = Input(i, h.calls[i])
    OBVIOUS
  <2>5. item = Item("tool", FALSE, text)
    BY <2>1, <2>2, <2>3, <2>4
  <2>6. item.kind = "tool" /\ item.text = text
    BY <2>5 DEF Item
  <2> QED BY <2>3, <2>4, <2>6
<1>10. place \in [Called -> CallsShown]
  <2>1. \A i \in Called : place[i] \in CallsShown
    BY <1>4, <1>8, <1>9 DEF CallsShown
  <2> QED BY <2>1, <1>4, <1>8
<1>11. place \in Bijection(Called, CallsShown)
  <2>1. \A i, j \in Called : place[i] = place[j] => i = j
    BY <1>4, <1>8
  <2>2. \A k \in CallsShown : \E i \in Called : place[i] = k
    BY <1>4, <1>8 DEF CallsShown
  <2>3. place \in Injection(Called, CallsShown)
    BY <2>1, <1>10, Zenon DEF Injection, IsInjective
  <2>4. place \in Surjection(Called, CallsShown)
    BY <2>2, <1>10, Zenon DEF Surjection
  <2> QED BY <2>3, <2>4, Zenon DEF Bijection
<1>12. \A i \in Called : client.items[place[i]].text = Input(i, SaidTo(Call(i)))
  <2>1. Called \subseteq Tools
    BY DEF Called
  <2> QED BY <2>1, <1>4, <1>9, Zenon
<1> QED
  BY <1>6, <1>7, <1>11, <1>12

\* What the client was shown of an answer, and what the provider has said of it.
Kept ==
    /\ client'.items = client.items /\ client'.ends = client.ends
    /\ upstream'.said = upstream.said /\ upstream'.reason = upstream.reason
    /\ upstream.done => upstream'.done

LEMMA WholeKept ==
    ASSUME WholeAnswer, Kept
    PROVE  WholeAnswer'
<1>1. /\ \A kind : TextOf(kind)' = TextOf(kind) /\ \A to : SaidTo(to)' = SaidTo(to)
  <2>1. /\ \A kind : TextOf(kind)' = TextIn(client'.items, kind)
        /\ \A to : SaidTo(to)' = SaidIn(upstream'.said, to)
    BY Zenon DEF TextOf, TextIn, SaidTo, SaidIn
  <2> QED BY <2>1, SameTexts, Zenon DEF Kept
<1>2. Called' = Called
  <2>1. \A i \in Tools : SaidTo(Call(i))' = SaidTo(Call(i))
    BY <1>1
  <2> QED BY <2>1 DEF Called
<1>3. CallsShown' = CallsShown
  BY Zenon DEF Kept, CallsShown
<1> QED
  BY <1>1, <1>2, <1>3, ZenonT(30) DEF Kept, WholeAnswer

\* A step after which the response is over shows the client no more of it.
LEMMA OverKeeps ==
    ASSUME Inner, [Next]_vars, body'.phase = "over"
    PROVE  Kept
<1>1. /\ body \in [phase : {"idle", "starting", "streaming", "over"}, completed : BOOLEAN,
                   ttft : BOOLEAN, saved : BOOLEAN, todo : Seq(RequestWrites)]
      /\ client \in Clients /\ UpstreamOK
  BY DEF Inner, Told, BodyOK
<1>2. ASSUME NEW over, client' = [client EXCEPT !.over = over]
      PROVE  client'.items = client.items /\ client'.ends = client.ends
  BY <1>1, <1>2, Zenon DEF Clients
<1>3. CASE UNCHANGED <<upstream, client>>
  BY <1>3 DEF Kept
<1>4. CASE StartFails \/ Abandon \/ Drop
  <2>1. upstream' = upstream /\ \E over : client' = [client EXCEPT !.over = over]
    BY <1>4 DEF StartFails, Abandon, Drop
  <2> QED BY <2>1, <1>2 DEF Kept
<1>5. CASE PopEvent
  <2>1. body' = Observe(body, Head(translator.queue)) /\ body.phase = "streaming"
    BY <1>5 DEF PopEvent, Polled
  <2>2. body'.phase = body.phase
    <3>1. PICK e : e = Head(translator.queue)
      OBVIOUS
    <3>2. body' = Observe(body, e)
      BY <2>1, <3>1
    <3>3. CASE e.type = "delta" /\ ~body.ttft
      BY <3>2, <3>3, <1>1 DEF Observe
    <3>4. CASE e.type \in Terminals
      BY <3>2, <3>4, <1>1 DEF Observe, Terminals
    <3>5. CASE ~(e.type = "delta" /\ ~body.ttft) /\ e.type \notin Terminals
      BY <3>2, <3>5 DEF Observe
    <3> QED BY <3>3, <3>4, <3>5
  <2> QED BY <2>1, <2>2
<1>6. CASE Chunks
  <2>1. body' = body /\ body.phase = "streaming"
    <3>1. PICK reasoning, content, usage \in BOOLEAN, tools \in SUBSET Tools, reason \in Reasons :
              Chunk(reasoning, content, tools, reason, usage)
      BY <1>6, Zenon DEF Chunks
    <3>2. UNCHANGED <<body, client, log, reader>> /\ Polled
      BY <3>1, Zenon DEF Chunk
    <3> QED BY <3>2 DEF Polled
  <2> QED BY <2>1
<1>7. CASE Done
  <2>1. client' = client \/ \E over : client' = [client EXCEPT !.over = over]
    BY <1>7, Zenon DEF Done
  <2>2. PICK n : upstream' = [upstream EXCEPT !.state = "done", !.done = TRUE, !.chunks = n]
    BY <1>7, Zenon DEF Done
  <2>3. upstream'.said = upstream.said /\ upstream'.reason = upstream.reason /\ upstream'.done
    BY <2>2, <1>1, Zenon DEF UpstreamOK
  <2> QED BY <2>1, <2>3, <1>2 DEF Kept
<1>8. CASE End \/ Break
  <2>1. client' = client \/ \E over : client' = [client EXCEPT !.over = over]
    BY <1>8, Zenon DEF End, Break
  <2>2. PICK state : upstream' = [upstream EXCEPT !.state = state]
    BY <1>8, Zenon DEF End, Break
  <2>3. upstream'.said = upstream.said /\ upstream'.reason = upstream.reason /\ upstream'.done = upstream.done
    BY <2>2, <1>1, Zenon DEF UpstreamOK
  <2> QED BY <2>1, <2>3, <1>2 DEF Kept
<1>9. CASE Offer \/ Begin \/ Streams
  BY <1>3, <1>9 DEF Offer, Begin, Streams
<1>10. CASE (\E ok \in BOOLEAN : Persist(ok)) \/ PurgeBegins \/ PurgeSent \/ Purged
  BY <1>3, <1>10 DEF Persist, PurgeBegins, PurgeSent, Purged
<1>11. CASE \E r \in Readers : ReadBegins(r) \/ ReadFlushes(r) \/ Flushed(r) \/ ReadReturns(r)
  BY <1>3, <1>11 DEF ReadBegins, ReadFlushes, Flushed, ReadReturns
<1>12. CASE UNCHANGED vars
  BY <1>3, <1>12 DEF vars
<1> QED
  BY <1>4, <1>5, <1>6, <1>7, <1>8, <1>9, <1>10, <1>11, <1>12 DEF Next

\* A response that the client is told is complete is the whole answer of the
\* provider: its messages and its reasoning hold every fragment that was sent, once
\* and in order, each tool call is shown once with its whole input, and the response
\* is called complete, or incomplete, as the provider's finish reason says.
THEOREM WholeHolds == Spec => []WholeAnswer
<1>1. Init => WholeAnswer
  BY DEF Init, WholeAnswer
<1>2. GatewayInv /\ WholeAnswer /\ [Next]_vars /\ GatewayInv' => WholeAnswer'
  <2>1. SUFFICES ASSUME GatewayInv, WholeAnswer, [Next]_vars, GatewayInv' PROVE WholeAnswer'
    OBVIOUS
  <2>2. Inner /\ Inner'
    BY <2>1 DEF GatewayInv
  <2>3. CASE body'.phase = "over"
    BY <2>1, <2>2, <2>3, OverKeeps, WholeKept
  <2>4. CASE body'.phase # "over"
    <3>1. (Inner /\ body.phase # "over" => WholeAnswer)'
      BY WholeGoing, PTL
    <3> QED BY <3>1, <2>2, <2>4
  <2> QED BY <2>3, <2>4
<1> QED
  BY <1>1, <1>2, GatewayHolds, PTL DEF Spec

=============================================================================
