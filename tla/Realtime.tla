------------------------------ MODULE Realtime ------------------------------
(* Live updates of the Python port (webgui/realtime.py): events published   *)
(* on a channel, the listener that buffers each and sends it to the web     *)
(* sockets that subscribed, and the replay of what a client missed while it *)
(* was away.  One client that reconnects, one session's channel.            *)
(*                                                                          *)
(* Data abstracted: an event is its number, a stream id is the place of the *)
(* entry in the stream.  The client names the highest id it has received.   *)
EXTENDS Integers, Sequences, FiniteSets

CONSTANTS Conns,        \* 1 .. n: the client's connections, one after another
          MaxEvents,    \* bound: events published
          ReplayLimit   \* STREAM_REPLAY_LIMIT

VARIABLES link,         \* each connection's socket: none, up, down
          sockets,      \* websockets (and active_connections)
          subs,         \* connection_subscriptions that hold the channel
          handler,      \* where handle_websocket of each connection is
          toReplay,     \* stream ids replay_missed_messages has still to send
          pubsub,       \* the process's subscription: subscribed, and what has come
          stream,       \* the events of stream:{channel}
          published, unbuffered,   \* events published; one its publisher has yet to buffer
          sending,      \* what the listener sends, to whom it still has to
          got, last,    \* the client: events and highest id it has received
          since,        \* history: events published before the client's first word
          cut           \* history: a replay was limited, failed or was broken off, or the
                        \* listener's buffering failed

rtVars == <<link, sockets, subs, handler, toReplay, pubsub, stream, published,
            unbuffered, sending, got, last, since, cut>>
client    == <<got, last>>
server    == <<sockets, subs, handler, toReplay>>
publisher == <<published, unbuffered>>

Nothing == [event |-> 0, id |-> 0, to |-> {}]

Init ==
  /\ link = [c \in Conns |-> "none"] /\ sockets = {} /\ subs = {}
  /\ handler = [c \in Conns |-> "none"] /\ toReplay = [c \in Conns |-> {}]
  /\ pubsub = [on |-> FALSE, queue |-> <<>>] /\ stream = <<>>
  /\ published = 0 /\ unbuffered = 0 /\ sending = Nothing
  /\ got = {} /\ last = 0 /\ since = 0 /\ cut = FALSE

Goto(c, s) == handler' = [handler EXCEPT ![c] = s]
Least(S)   == CHOOSE x \in S : \A y \in S : x <= y
Greater(x, y) == IF x > y THEN x ELSE y

\* The client receives entry i, of event e.
Receive(e, i) == got' = got \cup {e} /\ last' = Greater(last, i)

-----------------------------------------------------------------------------
(* publish_event: to the channel and, another command later, to the stream. *)

PublishEvent ==
  /\ published < MaxEvents /\ unbuffered = 0
  /\ published' = published + 1 /\ unbuffered' = published'
  /\ pubsub' = IF pubsub.on THEN [pubsub EXCEPT !.queue = Append(@, published')] ELSE pubsub
  /\ UNCHANGED <<link, server, stream, sending, client, since, cut>>

BufferMessage ==
  /\ unbuffered # 0 /\ stream' = Append(stream, unbuffered) /\ unbuffered' = 0
  /\ UNCHANGED <<link, server, pubsub, published, sending, client, since, cut>>

\* XADD fails, which is logged.
BufferFails ==
  /\ unbuffered # 0 /\ unbuffered' = 0
  /\ UNCHANGED <<link, server, pubsub, stream, published, sending, client, since, cut>>

-----------------------------------------------------------------------------
(* The listener buffers every event once more and sends it under that id,   *)
(* or under none if XADD fails.                                             *)

Handle(id) ==
  /\ sending = Nothing /\ pubsub.queue # <<>>
  /\ pubsub' = [pubsub EXCEPT !.queue = Tail(@)]
  /\ sending' = IF subs = {} THEN Nothing
                ELSE [event |-> Head(pubsub.queue), id |-> id, to |-> subs]
  /\ UNCHANGED <<link, server, publisher, client, since>>

HandleMessage ==
  /\ Handle(Len(stream) + 1) /\ stream' = Append(stream, Head(pubsub.queue))
  /\ UNCHANGED cut

HandleUnbuffered == Handle(0) /\ cut' = TRUE /\ UNCHANGED stream

Remove(c) == sockets' = sockets \ {c} /\ subs' = subs \ {c}

Sent(c) == sending' = IF sending.to = {c} THEN Nothing ELSE [sending EXCEPT !.to = @ \ {c}]

SendLive(c) ==
  /\ c \in sending.to /\ Sent(c)
  /\ CASE c \in sockets /\ link[c] = "up" -> Receive(sending.event, sending.id)
       /\ UNCHANGED <<sockets, subs>>
       [] c \in sockets /\ link[c] # "up" -> Remove(c) /\ UNCHANGED client
       [] OTHER -> UNCHANGED <<client, sockets, subs>>
  /\ UNCHANGED <<link, handler, toReplay, pubsub, stream, publisher, since, cut>>

-----------------------------------------------------------------------------
(* WebSocketHandler: a client that has lost its connection opens another,   *)
(* subscribes and names the last id it has seen.                            *)

Connect(c) ==
  /\ link[c] = "none" /\ \A d \in Conns : d < c => link[d] = "down"
  /\ link' = [link EXCEPT ![c] = "up"] /\ sockets' = sockets \cup {c} /\ Goto(c, "receive")
  /\ UNCHANGED <<subs, toReplay, pubsub, stream, publisher, sending, client, since, cut>>

\* (A mutant: the range leaves its first entry out.)
AfterNext(id) == (id + 2) .. Len(stream)
\* get_messages_since: the oldest entries after the last id, up to the limit.
After(id)  == (id + 1) .. Len(stream)
Oldest(S)  == {i \in S : Cardinality({j \in S : j < i}) < ReplayLimit}

\* The subscription and the reading of the stream are not interrupted by the
\* listener; the sends that follow are. If XRANGE fails, nothing is replayed.
SubscribeToSession(c) ==
  /\ handler[c] = "receive" /\ link[c] = "up" /\ c \notin subs
  /\ subs' = subs \cup {c} /\ pubsub' = [pubsub EXCEPT !.on = TRUE]
  /\ IF last = 0 THEN since' = published /\ UNCHANGED <<handler, toReplay, cut>>  \* no last_message_id
     ELSE \E found \in {Oldest(After(last)), {}} :
            /\ toReplay' = [toReplay EXCEPT ![c] = found]
            /\ cut' = (cut \/ found # After(last))
            /\ Goto(c, IF found = {} THEN "receive" ELSE "replay")
            /\ UNCHANGED since
  /\ UNCHANGED <<link, sockets, stream, publisher, sending, client>>

\* One entry; what cannot be sent is skipped.
ReplayOne(c) ==
  /\ handler[c] = "replay"
  /\ LET i == Least(toReplay[c]) IN
       /\ IF c \in sockets /\ link[c] = "up" THEN Receive(stream[i], i) ELSE UNCHANGED client
       /\ toReplay' = [toReplay EXCEPT ![c] = @ \ {i}]
       /\ Goto(c, IF toReplay[c] = {i} THEN "receive" ELSE "replay")
  /\ UNCHANGED <<link, sockets, subs, pubsub, stream, publisher, sending, since, cut>>

\* The connection breaks, or the pruner closes it and removes it. What the
\* client has received while older entries were still to come is all it knows.
Break(c) ==
  /\ link[c] = "up" /\ link' = [link EXCEPT ![c] = "down"]
  /\ cut' = (cut \/ handler[c] = "replay")
  /\ Remove(c) \/ UNCHANGED <<sockets, subs>>
  /\ UNCHANGED <<handler, toReplay, pubsub, stream, publisher, sending, client, since>>

\* receive_text raises: remove_connection, whatever is left of it by then.
Closed(c) ==
  /\ handler[c] = "receive" /\ link[c] = "down"
  /\ Goto(c, "done") /\ Remove(c)
  /\ UNCHANGED <<link, toReplay, pubsub, stream, publisher, sending, client, since, cut>>

Next ==
  \/ PublishEvent \/ BufferMessage \/ BufferFails \/ HandleMessage \/ HandleUnbuffered
  \/ \E c \in Conns :
       \/ SendLive(c) \/ Connect(c) \/ SubscribeToSession(c) \/ ReplayOne(c)
       \/ Break(c) \/ Closed(c)

-----------------------------------------------------------------------------
(* Properties *)

\* A client that comes back and names the last id it has seen has in the end
\* every event since its first word, some more than once, though each entry is
\* buffered twice under other ids, the publisher's copy may fail, and events go
\* on while it is replayed to; unless a replay was limited, failed or lost its
\* connection, or the listener could not buffer an event.
NothingMissed ==
  (\E c \in Conns : link[c] = "up" /\ handler[c] = "receive" /\ c \in subs)
    /\ pubsub.queue = <<>> /\ unbuffered = 0 /\ sending = Nothing /\ ~cut
  => (since + 1) .. published \subseteq got

\* Nothing of a connection is left once its handler has ended, whoever removed
\* it first: the listener, the pruner or the handler (remove_connection).
GoneClean == \A c \in Conns : handler[c] = "done" => c \notin sockets \cup subs
=============================================================================
