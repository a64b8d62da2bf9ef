----------------------------- MODULE Transcript -----------------------------
(***************************************************************************)
(* One reader follows one thread over the network: the event log with its  *)
(* subscribers (core/events.py), the server's end of the socket            *)
(* (core/contract_server.py), the hub that relays it (hub/relay.py) and    *)
(* the client that reconnects under the reader (cli/contract_socket.py).   *)
(*                                                                         *)
(* An event is its sequence.  The log is committed before it is published, *)
(* so a stop of the instance is a drop of the connection like any other.   *)
(* Unary calls, tokens and the validation of frames are left out.          *)
(***************************************************************************)
EXTENDS Naturals, Sequences

CONSTANTS
    Limit,      \* SUBSCRIPTION_QUEUE_LIMIT
    MaxEvents,  \* bound: events appended
    MaxDrops,   \* bound: connections that fail
    MaxLeaves   \* bound: times the reader closes the thread and opens it again

VARIABLES
    head,     \* heads.sequence of the thread: events 1..head are stored
    streams,  \* _Connection._subscriptions: frame id -> the stream the task serves
    up,       \* frames on their way to the server
    down,     \* frames on their way to the client
    live,     \* ContractSocket._live
    sub,      \* the reader's _Subscription
    got,      \* the sequences the reader rendered
    drops, leaves

transcriptVars == <<head, streams, up, down, live, sub, got, drops, leaves>>

\* Event numbers from a+1 to b, in order.
Span(a, b) == [i \in 1..(b - a) |-> a + i]

Frame(kind, id, n) == [kind |-> kind, id |-> id, n |-> n]

\* _OVERFLOWED, as an item: no event has this sequence.
Overflow == 0

\* items: what the reader has not taken yet; last: last_sequence; after: what it asked from.
NoSub(id) == [id |-> id, held |-> FALSE, after |-> 0, last |-> 0, items |-> <<>>]

\* A mutant of Ask that asks from where the reader began, also on a new connection.
AskFromStart(s) == Frame("subscribe", s.id, s.after)

\* _Subscription.frame: from the last sequence that came, or from where the reader began.
Ask(s) == Frame("subscribe", s.id, IF s.last > 0 THEN s.last ELSE s.after)

Init ==
    /\ head = 0
    /\ streams = <<>>
    /\ up = <<>> /\ down = <<>>
    /\ live = FALSE
    /\ sub = NoSub(0)
    /\ got = <<>>
    /\ drops = 0 /\ leaves = 0

-----------------------------------------------------------------------------
(* The event log. *)

Opened(id) == id \in DOMAIN streams /\ streams[id].open

\* EventLog._append: the commit and the publication share the lock.
AppendEvent ==
    /\ head < MaxEvents
    /\ head' = head + 1
    /\ streams' = [id \in DOMAIN streams |->
          IF streams[id].open /\ ~streams[id].full
          THEN [streams[id] EXCEPT !.subscriber = Append(@, head + 1)]
          ELSE streams[id]]
    /\ UNCHANGED <<up, down, live, sub, got, drops, leaves>>

\* EventLog.subscribe: the replay and the registration, under the same lock.
Subscribed(id) ==
    [streams[id] EXCEPT !.open = TRUE, !.replay = Span(streams[id].after, head)]

-----------------------------------------------------------------------------
(* The server's end of the socket. *)

\* _Connection._receive.  (A frame id that is open already is refused; a client never sends one.)
Receive ==
    /\ up # <<>>
    /\ LET frame == Head(up) IN
       /\ up' = Tail(up)
       /\ \/ /\ frame.kind = "subscribe" /\ frame.id \notin DOMAIN streams
             /\ streams' = [id \in DOMAIN streams \union {frame.id} |->
                   IF id = frame.id
                   THEN [open |-> FALSE, full |-> FALSE, after |-> frame.n,
                         replay |-> <<>>, subscriber |-> <<>>, queue |-> <<>>]
                   ELSE streams[id]]
             /\ UNCHANGED down
          \/ /\ frame.kind = "cancel" /\ frame.id \in DOMAIN streams
             /\ streams' = [id \in DOMAIN streams \ {frame.id} |-> streams[id]]
             /\ down' = Append(down, Frame("end", frame.id, 0))
          \/ /\ frame.kind = "cancel" /\ frame.id \notin DOMAIN streams
             /\ down' = Append(down, Frame("error", frame.id, 0))
             /\ UNCHANGED streams
    /\ UNCHANGED <<head, live, sub, got, drops, leaves>>

\* _stream, up to the frame that tells the head.
Open(id) ==
    /\ id \in DOMAIN streams /\ ~streams[id].open
    /\ streams' = [streams EXCEPT ![id] = Subscribed(id)]
    /\ down' = Append(down, Frame("subscribed", id, head))
    /\ UNCHANGED <<head, up, live, sub, got, drops, leaves>>

\* _fill: an item is read ahead of the socket.  An item too many ends the stream and drops its
\* subscriber.
ReadAhead(id, item, rest) ==
    streams' = [streams EXCEPT ![id] =
        IF Len(rest.queue) >= Limit
        THEN [rest EXCEPT !.full = TRUE, !.queue = Append(@, Overflow),
                          !.replay = <<>>, !.subscriber = <<>>]
        ELSE [rest EXCEPT !.queue = Append(@, item)]]

\* EventLog._deliver: an event of the replay, and then of the live queue, without those the reader
\* has.
Fill(id) ==
    /\ Opened(id) /\ ~streams[id].full
    /\ LET s == streams[id]
           newer == {i \in DOMAIN s.subscriber : s.subscriber[i] > s.after}
       IN \/ /\ s.replay # <<>>
             /\ ReadAhead(id, Head(s.replay), [s EXCEPT !.replay = Tail(@)])
          \/ /\ s.replay = <<>>
             /\ \E i \in newer :
                  /\ \A j \in newer : i <= j
                  /\ ReadAhead(id, s.subscriber[i],
                               [s EXCEPT !.subscriber = SubSeq(@, i + 1, Len(@))])
    /\ UNCHANGED <<head, up, down, live, sub, got, drops, leaves>>

\* _drain: one item to the socket; the overflow is an error and the end.
Drain(id) ==
    /\ Opened(id) /\ streams[id].queue # <<>>
    /\ LET item == Head(streams[id].queue) IN
       \/ /\ item = Overflow
          /\ down' = down \o <<Frame("error", id, Overflow), Frame("end", id, 0)>>
          /\ streams' = [each \in DOMAIN streams \ {id} |-> streams[each]]
       \/ /\ item # Overflow
          /\ down' = Append(down, Frame("item", id, item))
          /\ streams' = [streams EXCEPT ![id].queue = Tail(@)]
    /\ UNCHANGED <<head, up, live, sub, got, drops, leaves>>

-----------------------------------------------------------------------------
(* The client. *)

\* _connect and _opened: a new socket, on which a subscription that is held is asked for again
\* from the last sequence seen.
Connect ==
    /\ ~live
    /\ live' = TRUE
    /\ up' = IF sub.held THEN <<Ask(sub)>> ELSE <<>>
    /\ UNCHANGED <<head, streams, down, sub, got, drops, leaves>>

\* The socket drops, at either end, at the relay between them, or with the instance: what was on
\* the way is lost, and the server cancels the connection's streams.
Drop ==
    /\ live /\ drops < MaxDrops
    /\ drops' = drops + 1
    /\ live' = FALSE
    /\ up' = <<>> /\ down' = <<>>
    /\ streams' = <<>>
    /\ UNCHANGED <<head, sub, got, leaves>>

\* ContractSocket.subscribe by a reader that renders on from the last event it has.
Subscribe ==
    /\ live /\ ~sub.held /\ sub.items = <<>>
    /\ LET new == [NoSub(sub.id + 1) EXCEPT !.held = TRUE, !.after = Len(got)] IN
       /\ sub' = new
       /\ up' = Append(up, Ask(new))
    /\ UNCHANGED <<head, streams, down, live, got, drops, leaves>>

Released(s) == [s EXCEPT !.held = FALSE, !.items = <<>>]

\* _items' finally and _cancel: the reader takes no more.
Release ==
    /\ sub' = Released(sub)
    /\ up' = IF sub.held /\ live THEN Append(up, Frame("cancel", sub.id, 0)) ELSE up

Leave ==
    /\ sub.held /\ leaves < MaxLeaves
    /\ leaves' = leaves + 1
    /\ Release
    /\ UNCHANGED <<head, streams, down, live, got, drops>>

\* What a frame of the subscription does to it.
Answered(frame) ==
    CASE frame.kind = "item" -> [sub EXCEPT !.last = frame.n, !.items = Append(@, frame.n)]
      [] frame.kind = "error" -> [sub EXCEPT !.items = Append(@, Overflow)]
      [] frame.kind = "end" -> [sub EXCEPT !.held = FALSE]
      [] OTHER -> sub

\* _answer: a frame of a subscription that is not held is dropped.
Answer ==
    /\ down # <<>>
    /\ down' = Tail(down)
    /\ sub' = IF sub.held /\ Head(down).id = sub.id THEN Answered(Head(down)) ELSE sub
    /\ UNCHANGED <<head, streams, up, live, got, drops, leaves>>

\* The reader takes one item; an error ends its loop, and so its subscription.
Render ==
    /\ sub.items # <<>>
    /\ \/ /\ Head(sub.items) # Overflow
          /\ got' = Append(got, Head(sub.items))
          /\ sub' = [sub EXCEPT !.items = Tail(@)]
          /\ UNCHANGED up
       \/ /\ Head(sub.items) = Overflow
          /\ Release
          /\ UNCHANGED got
    /\ UNCHANGED <<head, streams, down, live, drops, leaves>>

-----------------------------------------------------------------------------

Opens == \E id \in DOMAIN streams : Open(id)
Fills == \E id \in DOMAIN streams : Fill(id)
Drains == \E id \in DOMAIN streams : Drain(id)

Next ==
    \/ AppendEvent
    \/ Receive \/ Opens \/ Fills \/ Drains
    \/ Connect \/ Drop \/ Subscribe \/ Leave \/ Answer \/ Render

Spec == Init /\ [][Next]_transcriptVars

-----------------------------------------------------------------------------

Promise == INSTANCE Feed WITH seen <- got

(* The reader is given every event of the thread once, in order and in the end, however the      *)
(* connection drops between a replay and the live events, the reader falls behind the queue's    *)
(* limit, or leaves and comes back (events.py subscribe: "so neither misses an append";          *)
(* contract_socket.py: "asking again neither repeats nor skips an item").                        *)
ImplementsFeed == Promise!Spec

=============================================================================
