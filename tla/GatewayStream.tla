---------------------------- MODULE GatewayStream ----------------------------
(***************************************************************************)
(* One streamed answer of the AI gateway, from the provider to the client  *)
(* and into the request log.                                               *)
(*                                                                         *)
(* The body of a response is a stack of streams that the server polls: the *)
(* provider's bytes, a copy of them for the log (UpstreamSseCaptureStream), *)
(* the translator (ResponsesStream) and the tap that reads the translated  *)
(* events for the log (ResponsesSseLogStream).  Dropping the body drops the *)
(* stack.  The log itself is a bounded queue in front of a writer thread:  *)
(* requests offer writes to it and never wait, readers and the cleanup wait *)
(* for a marker of theirs to come out of it.                               *)
(*                                                                         *)
(* The provider keeps the contract that the translator's comments state    *)
(* (nothing of the answer follows its finish reason) and may stop anywhere. *)
(***************************************************************************)
EXTENDS ResponsesStream, Functions

CONSTANTS
    Readers,      \* requests for a page or a record of the log
    Capacity,     \* WRITE_QUEUE_CAPACITY
    MaxParts,     \* bound: fragments the provider sends
    MaxChunks,    \* bound: chunks the provider sends
    MaxWatched,   \* bound: chunks and fragments of an answer during which the log is used otherwise
    MaxReads,     \* bound: reads of the log, all readers together
    MaxPurges     \* bound: cleanups of the log

Maintainer == "maintainer"
Nobody == "nobody"

ASSUME GatewayAssumption ==
    /\ Capacity \in Nat \ {0}
    /\ Maintainer \notin Readers /\ Nobody \notin Readers
    /\ {MaxParts, MaxChunks, MaxWatched, MaxReads, MaxPurges} \subseteq Nat

VARIABLES
    upstream,     \* the provider: whether it still sends, and what it has sent
    translator,   \* ResponsesStreamState with its output queue
    body,         \* the response: its phase and the state of the tap and of the copy
    client,       \* what the client has been shown
    log,          \* the write queue, the record of this request, the cleanup's lock
    reader        \* the readers of the log

vars == <<upstream, translator, body, client, log, reader>>

\* The record of a request: its status, or none before it is inserted and after
\* it is deleted.
NoRow == "none"

Insert == [kind |-> "insert"]
Status(s) == [kind |-> "status", status |-> s]
Detail == [kind |-> "detail"]                  \* an update that leaves the status alone
Barrier(r) == [kind |-> "barrier", by |-> r]
Purge == [kind |-> "purge"]

Init ==
    /\ upstream = [state |-> "open", said |-> <<>>, chunks |-> 0, reason |-> "none", done |-> FALSE]
    /\ translator = NewState
    /\ body = [phase |-> "idle", completed |-> FALSE, ttft |-> FALSE, saved |-> FALSE, todo |-> <<>>]
    /\ client = [items |-> <<>>, ends |-> <<>>, ok |-> TRUE, over |-> "no"]
    /\ log = [writes |-> <<>>, row |-> NoRow, lost |-> FALSE, purges |-> 0, lock |-> Nobody]
    /\ reader = [r \in Readers |-> [state |-> "idle", since |-> "any", result |-> NoRow, reads |-> 0]]

-------------------------------------------------------------------------------
(* What the client sees.  A message and a reasoning item exclude each other   *)
(* and text goes to an open item.                                             *)

Texts == {"message", "reasoning"}

ActiveItems(c) == {k \in DOMAIN c.items : c.items[k].open /\ c.items[k].kind \in Texts}

\* Every item is done, and the output of the terminal event lists them.
ListsAll(c, output) ==
    /\ \A k \in DOMAIN c.items : ~c.items[k].open
    /\ Len(output) = Len(c.items)
    /\ \A j \in DOMAIN output : \E k \in DOMAIN c.items : output[j] = Piece(c.items[k].kind, c.items[k].text)
    /\ \A k \in DOMAIN c.items : \E j \in DOMAIN output : output[j] = Piece(c.items[k].kind, c.items[k].text)

\* An item is done with the text it was streamed; but nothing is streamed of a
\* tool search, and a custom call whose arguments are not whole JSON is done with
\* these arguments, of which the input was streamed without what opens the object.
DoneWith(kind, shown, text) ==
    \/ shown = text
    \/ kind = "tool" /\ shown = <<>>
    \/ kind = "tool" /\ text \notin Parses /\ text # <<>> /\ shown = Tail(text)

\* The assertion that the translator's tests make of every sequence of events.
Fits(c, e) ==
    /\ e.type = "created" => c.items = <<>>
    /\ e.type = "added" => /\ e.index = Len(c.items)
                           /\ e.kind \in Texts => ActiveItems(c) = {}
    /\ e.type \in {"delta", "done"} => /\ e.index + 1 \in DOMAIN c.items
                                       /\ c.items[e.index + 1].open
                                       /\ c.items[e.index + 1].kind = e.kind
    /\ e.type = "done" => DoneWith(e.kind, c.items[e.index + 1].text, e.text)
    /\ e.type \in Terminals => ListsAll(c, e.output)

Item(kind, open, text) == [kind |-> kind, open |-> open, text |-> text]

Shows(c, e) ==
    CASE e.type = "added" -> [c EXCEPT !.items = Append(@, Item(e.kind, TRUE, <<>>))]
      [] e.type = "delta" -> [c EXCEPT !.items[e.index + 1] = Item(@.kind, TRUE, @.text \o e.text)]
      [] e.type = "done" -> [c EXCEPT !.items[e.index + 1] = Item(@.kind, FALSE, e.text)]
      [] e.type \in Terminals -> [c EXCEPT !.ends = Append(@, e.type)]
      [] OTHER -> c

Receive(c, e) ==
    IF c.ok /\ c.ends = <<>> /\ Fits(c, e) THEN Shows(c, e) ELSE [c EXCEPT !.ok = FALSE]

-------------------------------------------------------------------------------
(* The request.  Its writes to the log are offered one by one.                *)

Busy == body.todo # <<>>

\* enqueue_write: a write that finds the queue full is dropped.
Offer ==
    /\ Busy
    /\ body' = [body EXCEPT !.todo = Tail(@)]
    /\ log' = IF Len(log.writes) < Capacity
              THEN [log EXCEPT !.writes = Append(@, Head(body.todo))]
              ELSE [log EXCEPT !.lost = TRUE]
    /\ UNCHANGED <<upstream, translator, client, reader>>

\* The request is admitted, routed and recorded, and sent to the provider.
Begin ==
    /\ body.phase = "idle"
    /\ body' = [body EXCEPT !.phase = "starting", !.todo = <<Insert, Detail>>]
    /\ UNCHANGED <<upstream, translator, client, log, reader>>

\* The provider answers with a stream.
Streams ==
    /\ body.phase = "starting" /\ ~Busy
    /\ body' = [body EXCEPT !.phase = "streaming"]
    /\ UNCHANGED <<upstream, translator, client, log, reader>>

\* The provider refuses or cannot be reached: update_failed_log.
StartFails ==
    /\ body.phase = "starting" /\ ~Busy
    /\ body' = [body EXCEPT !.phase = "over", !.todo = <<Status("failed")>>]
    /\ client' = [client EXCEPT !.over = "error"]
    /\ UNCHANGED <<upstream, translator, log, reader>>

\* The client goes away while the handler waits for the provider: the handler is
\* dropped where it waits, and nothing of it runs.
Abandon ==
    /\ body.phase = "starting" /\ ~Busy
    /\ body' = [body EXCEPT !.phase = "over"]
    /\ client' = [client EXCEPT !.over = "abandoned"]
    /\ UNCHANGED <<upstream, translator, log, reader>>

-------------------------------------------------------------------------------
(* The body is polled.                                                        *)

Polled == body.phase = "streaming" /\ ~Busy

\* observe_sse_chunk: the first delta sets the time to the first token, a
\* terminal event the status.
Observe(b, e) ==
    CASE e.type = "delta" /\ ~b.ttft -> [b EXCEPT !.ttft = TRUE, !.todo = <<Detail>>]
      [] e.type \in Terminals -> [b EXCEPT !.completed = TRUE, !.todo = <<Status(e.type)>>]
      [] OTHER -> b

\* An event that waits in the translator's queue goes out before the provider is
\* asked for more.
PopEvent ==
    /\ Polled /\ translator.queue # <<>>
    /\ translator' = [translator EXCEPT !.queue = Tail(@)]
    /\ body' = Observe(body, Head(translator.queue))
    /\ client' = Receive(client, Head(translator.queue))
    /\ UNCHANGED <<upstream, log, reader>>

\* The copy of the provider's bytes is saved once, when there are any.
Copy(b) == IF b.saved \/ upstream.chunks = 0 THEN <<>> ELSE <<Detail>>

\* Mutant: the end of the stream is recorded as a failure of any response.
TapEndsFailed(b, copy) ==
    [b EXCEPT !.phase = "over", !.completed = TRUE, !.saved = TRUE,
              !.todo = copy \o <<Status("failed")>>]

\* The stream is over, with or without an error: a response whose terminal event
\* the tap has not seen is recorded as failed.
TapEnds(b, copy) ==
    [b EXCEPT !.phase = "over", !.completed = TRUE, !.saved = TRUE,
              !.todo = copy \o (IF b.completed THEN <<>> ELSE <<Status("failed")>>)]

\* The body is dropped before it ended: the tap goes first, then the copy.
Drop ==
    /\ body.phase = "streaming" /\ ~Busy
    /\ body' = [body EXCEPT !.phase = "over", !.completed = TRUE, !.saved = TRUE,
                            !.todo = (IF body.completed THEN <<>> ELSE <<Status("cancelled")>>)
                                     \o Copy(body)]
    /\ client' = [client EXCEPT !.over = "left"]
    /\ UNCHANGED <<upstream, translator, log, reader>>

\* What a fragment is part of.
Reasoning == <<"reasoning", 0>>
Message == <<"message", 0>>
Call(i) == <<"tool", i>>

SaidTo(to) ==
    LET said[k \in 0 .. Len(upstream.said)] ==
            IF k = 0 THEN <<>>
            ELSE IF upstream.said[k].to = to THEN Append(said[k - 1], upstream.said[k].part)
            ELSE said[k - 1]
    IN  said[Len(upstream.said)]

\* The fragments of a chunk, in the order in which the translator takes them up.
Deltas(reasoning, content, tools) ==
    LET called  == Ascending(tools)
        targets == (IF reasoning THEN <<Reasoning>> ELSE <<>>)
                   \o (IF content THEN <<Message>> ELSE <<>>)
                   \o [k \in DOMAIN called |-> Call(called[k])]
    IN  [k \in DOMAIN targets |-> [to |-> targets[k], part |-> Len(upstream.said) + k]]

Small == upstream.chunks <= MaxWatched /\ Len(upstream.said) <= MaxWatched
Watched == log.purges > 0 \/ \E r \in Readers : reader[r].reads > 0

\* A chunk of the answer.
Chunk(reasoning, content, tools, reason, usage) ==
    LET deltas == Deltas(reasoning, content, tools)
        PartTo(to) == LET K == {k \in DOMAIN deltas : deltas[k].to = to}
                      IN  IF K = {} THEN Absent ELSE deltas[CHOOSE k \in K : TRUE].part
    IN
    /\ Polled /\ translator.queue = <<>>
    /\ upstream.state = "open" /\ upstream.chunks < MaxChunks
    /\ upstream.reason # "none" => deltas = <<>> /\ reason = "none"
    /\ deltas # <<>> \/ reason # "none" \/ usage \/ upstream.chunks = 0
    /\ Len(deltas) <= 2
    /\ Len(upstream.said) + Len(deltas) <= MaxParts
    /\ upstream' = [upstream EXCEPT !.said = @ \o deltas, !.chunks = @ + 1,
                                    !.reason = IF reason = "none" THEN @ ELSE reason]
    /\ Watched \/ log.writes # <<>> => Small'
    /\ translator' = ProcessChunk(translator,
                        [reasoning |-> PartTo(Reasoning), content |-> PartTo(Message),
                         tools |-> [i \in tools |-> PartTo(Call(i))], reason |-> reason, usage |-> usage])
    /\ UNCHANGED <<body, client, log, reader>>

\* [DONE].  The body ends at once when nothing is left to send; the tap is told
\* first, and the copy is saved when the stack is dropped.
Done ==
    /\ Polled /\ translator.queue = <<>>
    /\ upstream.state = "open"
    /\ upstream' = [upstream EXCEPT !.state = "done", !.done = TRUE, !.chunks = @ + 1]
    /\ translator' = HandleDone(translator)
    /\ IF translator'.queue = <<>>
       THEN /\ body' = [TapEnds(body, <<>>) EXCEPT !.todo = Append(@, Detail)]
            /\ client' = [client EXCEPT !.over = "ended"]
       ELSE UNCHANGED <<body, client>>
    /\ UNCHANGED <<log, reader>>

\* The provider's bytes end: the copy is saved and the translator told, each time
\* the body is polled again.
End ==
    /\ Polled /\ translator.queue = <<>>
    /\ upstream.state \in {"open", "done", "ended"}
    /\ upstream' = [upstream EXCEPT !.state = "ended"]
    /\ translator' = HandleStreamEnded(translator)
    /\ IF translator'.queue = <<>>
       THEN /\ body' = TapEnds(body, Copy(body))
            /\ client' = [client EXCEPT !.over = "ended"]
       ELSE /\ body' = [body EXCEPT !.saved = TRUE, !.todo = Copy(body)]
            /\ UNCHANGED client
    /\ UNCHANGED <<log, reader>>

\* The connection to the provider fails.
Break ==
    /\ Polled /\ translator.queue = <<>>
    /\ upstream.state \in {"open", "done"}
    /\ upstream' = [upstream EXCEPT !.state = "broken"]
    /\ body' = TapEnds(body, Copy(body))
    /\ client' = [client EXCEPT !.over = "error"]
    /\ UNCHANGED <<translator, log, reader>>

-------------------------------------------------------------------------------
(* The log.  Its readers, its cleanup, its failures and its delays meet       *)
(* answers of a small size only: what they do does not depend on what an      *)
(* answer says.                                                               *)

\* What the writes of a request do to its record.
Written(row, w) ==
    CASE w.kind = "insert" -> "running"
      [] w.kind = "status" /\ row # NoRow -> w.status
      [] OTHER -> row

NextIs(w) == log.writes # <<>> /\ Head(log.writes) = w

\* The writer persists the next write, which may fail.
Persist(ok) ==
    /\ log.writes # <<>> /\ Head(log.writes).kind \in {"insert", "status", "detail"}
    /\ ok \/ Small
    /\ log' = [log EXCEPT !.writes = Tail(@),
                          !.row = IF ok THEN Written(@, Head(log.writes)) ELSE @,
                          !.lost = @ \/ ~ok]
    /\ UNCHANGED <<upstream, translator, body, client, reader>>

\* What the client can tell of the end of a request; "any" where the handler was
\* dropped.
Decided ==
    IF client.ends # <<>> THEN Head(client.ends)
    ELSE CASE client.over = "left" -> "cancelled"
           [] client.over \in {"ended", "error"} -> "failed"
           [] OTHER -> "any"

\* The same once the request is over; "any" while it goes on.
Verdict == IF body.phase # "over" \/ Busy THEN "any" ELSE Decided

\* list_page and get_detail, refused while a cleanup or another reader is at work.
ReadBegins(r) ==
    /\ reader[r].state = "idle" /\ reader[r].reads < MaxReads /\ Small
    /\ log.lock = Nobody
    /\ log' = [log EXCEPT !.lock = r]
    /\ reader' = [reader EXCEPT ![r].state = "locked", ![r].since = Verdict, ![r].reads = @ + 1]
    /\ UNCHANGED <<upstream, translator, body, client>>

\* Mutant: the page is read without waiting for the writer.
ReadUnflushed(r) ==
    /\ reader[r].state = "locked"
    /\ reader' = [reader EXCEPT ![r].state = "flushed"]
    /\ UNCHANGED <<upstream, translator, body, client, log>>

\* flush_pending_writes waits for room in the queue, then for the writer.
ReadFlushes(r) ==
    /\ reader[r].state = "locked" /\ Len(log.writes) < Capacity
    /\ log' = [log EXCEPT !.writes = Append(@, Barrier(r))]
    /\ reader' = [reader EXCEPT ![r].state = "waiting"]
    /\ UNCHANGED <<upstream, translator, body, client>>

Flushed(r) ==
    /\ NextIs(Barrier(r))
    /\ log' = [log EXCEPT !.writes = Tail(@)]
    /\ reader' = [reader EXCEPT ![r].state = "flushed"]
    /\ UNCHANGED <<upstream, translator, body, client>>

ReadReturns(r) ==
    /\ reader[r].state = "flushed"
    /\ log' = [log EXCEPT !.lock = Nobody]
    /\ reader' = [reader EXCEPT ![r] = [@ EXCEPT !.state = "idle", !.result = log.row]]
    /\ UNCHANGED <<upstream, translator, body, client>>

\* run_maintenance, which waits for the lock, for room and for the writer.
PurgeBegins ==
    /\ log.purges < MaxPurges /\ log.lock = Nobody /\ Small
    /\ log' = [log EXCEPT !.lock = Maintainer, !.purges = @ + 1]
    /\ UNCHANGED <<upstream, translator, body, client, reader>>

PurgeSent ==
    /\ log.lock = Maintainer /\ Len(log.writes) < Capacity
    /\ \A k \in DOMAIN log.writes : log.writes[k] # Purge
    /\ log' = [log EXCEPT !.writes = Append(@, Purge)]
    /\ UNCHANGED <<upstream, translator, body, client, reader>>

\* Mutant: the lock is not released.
PurgedHoldsLock ==
    /\ NextIs(Purge)
    /\ log' = [log EXCEPT !.writes = Tail(@), !.row = NoRow]
    /\ UNCHANGED <<upstream, translator, body, client, reader>>

\* The writer deletes the records, answers, and the lock is released.
Purged ==
    /\ NextIs(Purge)
    /\ log' = [log EXCEPT !.writes = Tail(@), !.row = NoRow, !.lock = Nobody]
    /\ UNCHANGED <<upstream, translator, body, client, reader>>

-------------------------------------------------------------------------------
Chunks ==
    \E reasoning, content, usage \in BOOLEAN, tools \in SUBSET Tools, reason \in Reasons :
        Chunk(reasoning, content, tools, reason, usage)

Next ==
    \/ Offer \/ Begin \/ Streams \/ StartFails \/ Abandon
    \/ PopEvent \/ Drop \/ Chunks \/ Done \/ End \/ Break
    \/ \E ok \in BOOLEAN : Persist(ok)
    \/ \E r \in Readers : ReadBegins(r) \/ ReadFlushes(r) \/ Flushed(r) \/ ReadReturns(r)
    \/ PurgeBegins \/ PurgeSent \/ Purged

Spec == Init /\ [][Next]_vars

\* The writer thread runs until the process ends, a handler's blocking calls
\* return when they can, and the server polls a body whose client reads.
Fairness ==
    /\ WF_vars(Offer \/ PopEvent \/ (End /\ upstream.state # "open"))
    /\ WF_vars(Persist(TRUE) \/ Purged \/ \E r \in Readers : Flushed(r))
    /\ WF_vars(PurgeSent)
    /\ \A r \in Readers : WF_vars(ReadFlushes(r) \/ ReadReturns(r))

LiveSpec == Spec /\ Fairness
-------------------------------------------------------------------------------
(* Properties.                                                                *)

Writes == {Insert, Detail, Purge}
          \cup {Status(s) : s \in Terminals \cup {"cancelled"}}
          \cup {Barrier(r) : r \in Readers}

\* Types; and the bounded queue never holds more than its capacity, although
\* requests, readers and the cleanup fill it independently.
TypeOK ==
    /\ upstream.state \in {"open", "done", "ended", "broken"}
    /\ upstream.chunks \in 0 .. MaxChunks + 1 /\ Len(upstream.said) <= MaxParts
    /\ DOMAIN translator.tools \subseteq Tools
    /\ body.phase \in {"idle", "starting", "streaming", "over"}
    /\ client.over \in {"no", "ended", "error", "left", "abandoned"}
    /\ \A k \in DOMAIN log.writes : log.writes[k] \in Writes
    /\ Len(log.writes) <= Capacity
    /\ log.row \in Terminals \cup {"running", "cancelled", NoRow}
    /\ log.lock \in Readers \cup {Maintainer, Nobody}
    /\ \A r \in Readers : reader[r].state \in {"idle", "locked", "waiting", "flushed"}

\* The events a client is shown are a well-formed response, whatever the order in
\* which the provider mixes reasoning, content and tool calls in its chunks: items
\* come under consecutive indexes, a message and a reasoning item are never open
\* together, text only goes to an open item of its kind, a message and a reasoning
\* item are done with exactly the text that was streamed for them and a tool call
\* with what DoneWith allows, the terminal event finds every item done and lists
\* them all, and no event follows it (not even when the body is polled again after
\* [DONE]).  The ordering half of this is what assert_codex_active_item_invariants
\* asserts in the translator's tests.
WellFormed == client.ok

\* The log's queue keeps its bound and the client is shown a well-formed response.
StreamInv == TypeOK /\ WellFormed

\* A response that the client is told is complete is the whole answer: the text of
\* its messages and of its reasoning is what the provider sent, in order and
\* without loss or repetition, each tool call of the provider is shown once and
\* nothing else is; and a response is only called complete when the provider said
\* that it had finished.  A call is shown with its whole input if its arguments are
\* whole JSON; where the answer was cut off in them (finish reason "length") or
\* they are not JSON, a custom call is shown with the raw arguments, all that were
\* sent, and a tool search with empty ones: its input is lost.
TextOf(kind) ==
    LET text[k \in 0 .. Len(client.items)] ==
            IF k = 0 THEN <<>>
            ELSE IF client.items[k].kind = kind THEN text[k - 1] \o client.items[k].text
            ELSE text[k - 1]
    IN  text[Len(client.items)]

Called == {i \in Tools : SaidTo(Call(i)) # <<>>}
CallsShown == {k \in DOMAIN client.items : client.items[k].kind = "tool"}

WholeAnswer ==
    client.ends # <<>> /\ Head(client.ends) # "failed" =>
        /\ upstream.reason # "none" \/ upstream.done
        /\ Head(client.ends) = "incomplete" <=> upstream.reason = "length"
        /\ TextOf("message") = SaidTo(Message)
        /\ TextOf("reasoning") = SaidTo(Reasoning)
        /\ \E place \in Bijection(Called, CallsShown) :
               \A i \in Called : client.items[place[i]].text = Input(i, SaidTo(Call(i)))

\* The log tells what happened: once a request is over and its writes are through,
\* the record has the status of the terminal event the client was shown, failed
\* when the client saw the stream end or break without one, cancelled when the
\* client left before one, unless the queue overflowed, a write failed or the
\* record was cleaned up.  The tap's flag, the order in which the streams of the
\* stack are dropped and the queue all have a hand in it.
Settled == \A k \in DOMAIN log.writes : log.writes[k].kind \notin {"insert", "status"}

LogTellsTruth ==
    Verdict # "any" /\ Settled /\ ~log.lost =>
        log.row = Verdict \/ (log.row = NoRow /\ log.purges > 0)

\* A read of the log that began after a request was over shows its final status
\* and never that it is still running, although the writes are persisted by
\* another thread: the reader's marker passes the queue behind them.  The
\* exceptions are a write that the full queue dropped or that failed (`lost`),
\* which leaves the record as it was, and a record that was cleaned up.
ReadIsSettled ==
    \A r \in Readers :
        reader[r].state = "idle" /\ reader[r].since # "any" /\ ~log.lost =>
            reader[r].result = reader[r].since \/ (reader[r].result = NoRow /\ log.purges > 0)

\* A client that keeps reading is told how a response ended once the provider has
\* stopped in any way but by a broken connection; only a body in which the provider sent
\* nothing ends without a terminal event.
Stopped == upstream.state \in {"done", "ended"} /\ translator.started

AnswerEnds == Stopped ~> (client.ends # <<>> \/ client.over \in {"left", "error"})

\* Readers and the cleanup always get through and give the lock of the log back,
\* which they hold from beginning to end: a full queue is emptied by the writer,
\* which waits for nobody.
LogServes == log.lock # Nobody ~> log.lock = Nobody
===============================================================================
