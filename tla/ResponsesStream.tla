--------------------------- MODULE ResponsesStream ---------------------------
(***************************************************************************)
(* The translator of an AI-gateway answer: a Chat Completions stream comes *)
(* in chunk by chunk and goes out as the events of the Responses API       *)
(* (transform/responses_stream.rs).  The translator is a state machine     *)
(* without concurrency, so it is written as functions from a state and an  *)
(* input to the next state; GatewayStream runs it between an upstream and a *)
(* client.                                                                 *)
(*                                                                         *)
(* A fragment of text is a number, a text a sequence of fragments.  The    *)
(* ids, the sequence numbers, the names of the events and the part events  *)
(* that wrap the text of an item are left out.                             *)
(***************************************************************************)
EXTENDS Naturals, Sequences, FiniteSets

CONSTANTS
    ToolKind,   \* the kind of tool the upstream calls at each tool index
    Parses      \* the texts that are whole JSON, with an input where a custom tool is called

ASSUME ToolAssumption ==
    /\ DOMAIN ToolKind \subseteq Nat /\ IsFiniteSet(DOMAIN ToolKind)
    /\ \A i \in DOMAIN ToolKind : ToolKind[i] \in {"function", "custom", "search"}

Tools == DOMAIN ToolKind

Absent == 0

Reasons == {"none", "stop", "length"}

Terminals == {"completed", "incomplete", "failed"}

\* A set of tool indexes in the order in which a chunk and the map of open calls
\* list them.
Ascending(S) ==
    CHOOSE q \in [1 .. Cardinality(S) -> S] : \A i, j \in DOMAIN q : i < j => q[i] < q[j]

\* An item that is not open: its flag, its output index and its accumulated text.
Closed == [open |-> FALSE, index |-> 0, text |-> <<>>]

Opened(index, text) == [open |-> TRUE, index |-> index, text |-> text]

\* The state of a translator before the first chunk.
NewState ==
    [started   |-> FALSE, finished |-> FALSE, completed |-> FALSE,
     reason    |-> "none", usage |-> FALSE, next |-> 0,
     message   |-> Closed, reasoning |-> Closed,
     tools     |-> [i \in {} |-> Closed],
     output    |-> <<>>, queue |-> <<>>]

Emit(s, event) == [s EXCEPT !.queue = Append(@, event)]

Delta(s, kind, index, text) ==
    Emit(s, [type |-> "delta", kind |-> kind, index |-> index, text |-> text])

\* An item of the answer is announced under the next output index.
Announce(s, kind) ==
    [Emit(s, [type |-> "added", kind |-> kind, index |-> s.next]) EXCEPT !.next = @ + 1]

\* An item of the output that the terminal event carries.
Piece(kind, text) == [kind |-> kind, text |-> text]

\* An item is done: its whole text is sent and kept for the terminal event.
Complete(s, kind, index, text) ==
    [Emit(s, [type |-> "done", kind |-> kind, index |-> index, text |-> text])
        EXCEPT !.output = Append(@, Piece(kind, text))]

\* close_message_item and close_reasoning_item.
CloseItem(s, kind) ==
    IF s[kind].open
    THEN [Complete(s, kind, s[kind].index, s[kind].text) EXCEPT ![kind] = Closed]
    ELSE s

\* A fragment of text for the open item of its kind, which is announced first
\* when there is none.
AppendTo(s, kind, part) ==
    LET o == IF s[kind].open THEN s
             ELSE [Announce(s, kind) EXCEPT ![kind] = Opened(s.next, <<>>)]
    IN  [Delta(o, kind, o[kind].index, <<part>>) EXCEPT ![kind] = Opened(@.index, Append(@.text, part))]

\* Mutant: reasoning does not close the message that is open.
ReasoningBesideMessage(s, part) == AppendTo(s, "reasoning", part)

HandleReasoningDelta(s, part) == AppendTo(CloseItem(s, "message"), "reasoning", part)

HandleContentDelta(s, part) == AppendTo(CloseItem(s, "reasoning"), "message", part)

\* What a client is given of the arguments so far: all of a function's, the
\* input field of a custom tool's JSON, whole or not (its first fragment opens the
\* object; a custom call that is sent without the object goes as a function's),
\* nothing of a tool search before it is done.
Visible(i, arguments) ==
    CASE ToolKind[i] = "function" -> arguments
      [] ToolKind[i] = "custom" -> SubSeq(arguments, 2, Len(arguments))
      [] OTHER -> <<>>

\* What a call is done with (completed_tool_item, completed_custom_tool_input).
\* Arguments that are not whole JSON, because the answer was cut off in them or
\* the model wrote them wrong, stay raw in a custom call and are {} in a search.
Input(i, arguments) ==
    CASE ToolKind[i] = "search" -> IF arguments \in Parses THEN arguments ELSE <<>>
      [] ToolKind[i] = "custom" /\ arguments \notin Parses -> arguments
      [] OTHER -> Visible(i, arguments)

\* The first delta of a tool call closes the open text and announces the call;
\* its later deltas leave the text alone.
StartTool(s, i) ==
    IF i \in DOMAIN s.tools THEN s
    ELSE LET c == CloseItem(CloseItem(s, "message"), "reasoning")
         IN  [Announce(c, "tool") EXCEPT
                !.tools = [j \in DOMAIN @ \cup {i} |->
                              IF j = i THEN Opened(c.next, <<>>) ELSE @[j]]]

HandleToolCallDelta(s, i, part) ==
    LET o    == StartTool(s, i)
        a    == Append(o.tools[i].text, part)
        new  == SubSeq(Visible(i, a), Len(Visible(i, o.tools[i].text)) + 1, Len(Visible(i, a)))
        kept == [o EXCEPT !.tools[i] = Opened(@.index, a)]
    IN  IF new = <<>> THEN kept ELSE Delta(kept, "tool", o.tools[i].index, new)

CloseTool(s, i) ==
    [Complete(s, "tool", s.tools[i].index, Input(i, s.tools[i].text)) EXCEPT
        !.tools = [j \in DOMAIN @ \ {i} |-> @[j]]]

CloseToolCalls(s) ==
    LET called == Ascending(DOMAIN s.tools)
        closed[k \in 0 .. Len(called)] ==
            IF k = 0 THEN s ELSE CloseTool(closed[k - 1], called[k])
    IN  closed[Len(called)]

FinishOpenItems(s) ==
    [CloseToolCalls(CloseItem(CloseItem(s, "reasoning"), "message")) EXCEPT !.finished = TRUE]

Terminal(s, type) ==
    [Emit(s, [type |-> type, output |-> s.output, usage |-> s.usage]) EXCEPT !.completed = TRUE]

EmitResponseCompleted(s) == Terminal(s, IF s.reason = "length" THEN "incomplete" ELSE "completed")

EmitResponseFailed(s) == Terminal(s, "failed")

HandleFinish(s) ==
    LET f == FinishOpenItems(s)
    IN  IF f.usage THEN EmitResponseCompleted(f) ELSE f

\* The usage of the answer ends a stream that has finished and was waiting for it.
HandleUsage(s) ==
    LET u == [s EXCEPT !.usage = TRUE]
    IN  IF u.finished /\ ~u.completed THEN EmitResponseCompleted(u) ELSE u

\* The parts of tool calls in a chunk, one after the other.
HandleToolCallDeltas(s, parts) ==
    LET called == Ascending(DOMAIN parts)
        handled[k \in 0 .. Len(called)] ==
            IF k = 0 THEN s ELSE HandleToolCallDelta(handled[k - 1], called[k], parts[called[k]])
    IN  handled[Len(called)]

Start(s) == IF s.started THEN s ELSE [Emit(s, [type |-> "created"]) EXCEPT !.started = TRUE]

\* process_chunk.  A chunk without a choice carries only the usage; one with a
\* choice may carry reasoning, content, parts of tool calls, the finish reason
\* and the usage, and they are handled in this order.
ProcessChunk(s, chunk) ==
    LET a == Start(s)
        b == IF chunk.reasoning = Absent THEN a ELSE HandleReasoningDelta(a, chunk.reasoning)
        c == IF chunk.content = Absent THEN b ELSE HandleContentDelta(b, chunk.content)
        d == HandleToolCallDeltas(c, chunk.tools)
        e == IF chunk.reason = "none" THEN d ELSE HandleFinish([d EXCEPT !.reason = chunk.reason])
    IN  IF chunk.usage THEN HandleUsage(e) ELSE e

\* Mutant: [DONE] does not end a response whose usage never came.
DoneWaitsForUsage(s) ==
    IF s.started /\ ~s.finished THEN HandleFinish(s) ELSE s

\* The upstream sent [DONE].
HandleDone(s) ==
    LET f == IF s.finished THEN s ELSE HandleFinish(s)
    IN  CASE ~s.started -> s
          [] s.started /\ f.completed -> f
          [] s.started /\ ~f.completed -> EmitResponseCompleted(f)

\* Mutant: a body that ends is taken for one that is done.
EndedAsDone(s) == HandleDone(s)

\* The body of the upstream ended.  Without a finish reason the answer was cut off.
HandleStreamEnded(s) ==
    CASE ~s.started -> s
      [] s.started /\ s.reason = "none" /\ ~s.completed -> EmitResponseFailed(FinishOpenItems(s))
      [] OTHER -> HandleDone(s)
===============================================================================
