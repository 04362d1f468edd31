-------------------------- MODULE ServerEnvelopes --------------------------
(***************************************************************************)
(* How the reader of a remote-control connection takes the envelopes that  *)
(* an app-server sends on one stream (server_envelopes.rs): the duplicate  *)
(* check against the acknowledgement cursor, the reassembly of chunked     *)
(* messages (observe_server_chunk in protocol.rs), the bounded work queue  *)
(* and the acknowledgement that follows it.                                *)
(*                                                                         *)
(* Cursors and assemblies are kept per stream and per connection, so one   *)
(* stream of one connection is the whole state; a new connection starts    *)
(* from EnvelopesInit.  The reader is a single task: nothing it does for   *)
(* one envelope is interleaved with another, only with the worker.         *)
(***************************************************************************)
EXTENDS Naturals, Sequences

CONSTANTS Seqs,       \* seq_ids of the messages
          Segments,   \* segments of each message, 0 if it is sent whole
          USIZE_MAX,  \* what a whole message has for a segment_id in comparisons
          Capacity    \* REMOTE_CONTROL_SERVER_WORK_QUEUE_CAPACITY

ASSUME EnvelopeAssumption ==
    /\ Seqs \subseteq Nat
    /\ Segments \in [Seqs -> Nat]
    /\ USIZE_MAX \in Nat
    /\ \A s \in Seqs : Segments[s] <= USIZE_MAX
    /\ Capacity \in Nat \ {0}

VARIABLES open,       \* the reader runs
          current,    \* the stream belongs to a client of the connection
          cursor,     \* server_ack_cursors: the newest envelope acknowledged, if any
          chunks,     \* next_segment_id of each assembly, 0 if there is none
          delivered,  \* all that was ever put into the work queue
          done,       \* how much of it the worker has taken
          acked,      \* envelopes acknowledged to the app-server
          arrived,    \* envelopes received
          ordered,    \* no envelope has overtaken another so far
          faulty      \* messages of which something arrived damaged or too early

envelopeVars == <<open, current, cursor, chunks, delivered, done, acked, arrived, ordered, faulty>>

Whole(s) == Segments[s] = 0
LastSegment(s) == IF Whole(s) THEN USIZE_MAX ELSE Segments[s] - 1
\* (seq_id, segment_id.unwrap_or(usize::MAX))
Envelopes == {e \in Seqs \X (0..USIZE_MAX) :
                 IF Whole(e[1]) THEN e[2] = USIZE_MAX ELSE e[2] < Segments[e[1]]}

EnvelopesInit ==
    /\ open = TRUE
    /\ current \in BOOLEAN
    /\ cursor = {}
    /\ chunks = [s \in Seqs |-> 0]
    /\ delivered = <<>> /\ done = 0
    /\ acked = {} /\ arrived = {} /\ faulty = {}
    /\ ordered = TRUE

-----------------------------------------------------------------------------
\* Mutant: the last acknowledged envelope is not a duplicate.
AckCursorGe(l, r) == l[1] > r[1] \/ (l[1] = r[1] /\ l[2] >= r[2])

\* ack_cursor_gt
AckCursorGt(l, r) == l[1] > r[1] \/ (l[1] = r[1] /\ l[2] > r[2])

Newer(e) == \A c \in cursor : AckCursorGt(e, c)

\* ack_server_envelope, then mark_server_envelope_acked
Acknowledge(e) == /\ acked' = acked \cup {e}
                  /\ cursor' = IF Newer(e) THEN {e} ELSE cursor

\* The handler returns an error: the reader ends and the connection with it.
ReaderFails == open' = FALSE /\ UNCHANGED <<cursor, chunks, delivered, acked>>

\* Mutant: a full queue loses the message and the reader goes on.
DeliverOrDrop(e) ==
    /\ delivered' = IF Len(delivered) - done < Capacity THEN Append(delivered, e[1]) ELSE delivered
    /\ chunks' = [chunks EXCEPT ![e[1]] = 0]
    /\ Acknowledge(e) /\ UNCHANGED open

\* enqueue_remote_server_work with try_send: acknowledged only once queued.
Deliver(e) ==
    IF Len(delivered) - done < Capacity
    THEN /\ delivered' = Append(delivered, e[1])
         /\ chunks' = [chunks EXCEPT ![e[1]] = 0]
         /\ Acknowledge(e) /\ UNCHANGED open
    ELSE ReaderFails

\* An envelope that adds nothing to the queue is acknowledged all the same.
Keep(e, next) ==
    /\ chunks' = [chunks EXCEPT ![e[1]] = next]
    /\ Acknowledge(e) /\ UNCHANGED <<open, delivered>>

\* observe_server_chunk: a segment that was already taken leaves the assembly
\* alone; one that is damaged, or not the next, throws it away.
ObserveChunk(e, damaged) ==
    LET next == chunks[e[1]]
    IN IF e[2] < next THEN Keep(e, next)
       ELSE IF damaged \/ e[2] # next THEN Keep(e, 0)
       ELSE IF e[2] + 1 < Segments[e[1]] THEN Keep(e, next + 1)
       ELSE Deliver(e)

\* handle_server_envelope.  Messages, acknowledgements and pongs that come whole
\* differ only in what the worker does with them; a whole envelope that is
\* damaged does not parse.
HandleEnvelope(e, damaged) ==
    IF damaged /\ Whole(e[1]) THEN ReaderFails
    ELSE IF ~current THEN Keep(e, chunks[e[1]])
    ELSE IF ~Newer(e) THEN /\ acked' = acked \cup {e}
                           /\ UNCHANGED <<open, cursor, chunks, delivered>>
    ELSE IF Whole(e[1]) THEN Deliver(e) ELSE ObserveChunk(e, damaged)

\* This envelope arrives although an earlier one has never been received.
Overtakes(e) == \E f \in Envelopes \ arrived : AckCursorGt(e, f)

ReceiveEnvelope(e, damaged) ==
    /\ open
    /\ arrived' = arrived \cup {e}
    /\ ordered' = (ordered /\ ~Overtakes(e))
    /\ faulty' = IF e \notin arrived /\ (damaged \/ ~current) THEN faulty \cup {e[1]} ELSE faulty
    /\ HandleEnvelope(e, damaged)
    /\ UNCHANGED <<current, done>>

\* run_remote_server_work_queue takes the next item.
Work == /\ open
        /\ done < Len(delivered)
        /\ done' = done + 1
        /\ UNCHANGED <<open, current, cursor, chunks, delivered, acked, arrived, ordered, faulty>>

\* ensure_client_state_for_connection_locked creates the client of this stream.
CreateClient == /\ open /\ ~current
                /\ current' = TRUE
                /\ UNCHANGED <<open, cursor, chunks, delivered, done, acked, arrived, ordered, faulty>>

\* The websocket ends for another reason; the worker is aborted.
WebsocketEnds == /\ open
                 /\ open' = FALSE
                 /\ UNCHANGED <<current, cursor, chunks, delivered, done, acked, arrived, ordered, faulty>>

EnvelopesNext ==
    \/ \E e \in Envelopes, damaged \in BOOLEAN : ReceiveEnvelope(e, damaged)
    \/ Work \/ CreateClient \/ WebsocketEnds

EnvelopesSpec == EnvelopesInit /\ [][EnvelopesNext]_envelopeVars

-----------------------------------------------------------------------------
\* The state stays in its domain; the work queue never outgrows its capacity.
EnvelopesTypeOK ==
    /\ open \in BOOLEAN /\ current \in BOOLEAN
    /\ cursor \subseteq Envelopes /\ \A c, f \in cursor : c = f
    /\ chunks \in [Seqs -> Nat]
    /\ \A s \in Seqs : chunks[s] = 0 \/ chunks[s] < Segments[s]
    /\ delivered \in Seq(Seqs)
    /\ done \in 0..Len(delivered)
    /\ Len(delivered) - done <= Capacity
    /\ acked \subseteq Envelopes /\ arrived \subseteq Envelopes
    /\ ordered \in BOOLEAN
    /\ faulty \subseteq Seqs

\* Whatever is sent again, lost, damaged or out of order, the worker gets the
\* messages of a stream in the order of their seq_ids and none of them twice.
StrictlyOrdered == \A i, j \in 1..Len(delivered) : i < j => delivered[i] < delivered[j]

\* The app-server forgets a message once its last envelope is acknowledged.
\* As long as it keeps the order (it may send again), such a message is in the
\* queue or handled, unless it arrived damaged or on a stream that no client
\* owned yet.
AckedIsKept ==
    ordered => \A s \in Seqs \ faulty :
        <<s, LastSegment(s)>> \in acked => \E i \in 1..Len(delivered) : delivered[i] = s
=============================================================================
