------------------------------ MODULE Delivery ------------------------------
(***************************************************************************)
(* Real-time delivery: the WebSocket connections of citizens, each served  *)
(* by three goroutines -- the handler (writes), the reader (detects that   *)
(* the client is gone) and the forwarder of RedisSubscriber.Subscribe --   *)
(* and the Redis subscription behind them: its TCP connection, the         *)
(* goroutine of go-redis that reads it, and its channel.  A message is the *)
(* number of its PUBLISH; a citizen is his channel, which hex encoding     *)
(* makes unique.                                                           *)
(*                                                                         *)
(* An action takes a goroutine from one blocking operation to the next.    *)
(***************************************************************************)
EXTENDS Naturals, SequencesExt

CONSTANTS
  Citizens,
  Conns,            \* requests of GET /ws
  Capacity,         \* of the channel msgs, subscriber.go:21 (16)
  RedisBuffer,      \* capacity of the channel sub.Channel() returns (go-redis: 100)
  MaxPublished,     \* bound on the messages published
  Troubles          \* what this instance allows to go wrong

TroubleKinds ==
  { "slow",         \* clients read or answer pings too slowly
    "reconnect",    \* the subscription's Redis connection is lost and remade
    "closed",       \* the Redis client is closed
    "garbled" }     \* a foreign payload is published on a citizen's channel

ASSUME DeliveryAssumption ==
  /\ Capacity \in Nat \ {0}
  /\ RedisBuffer \in Nat
  /\ MaxPublished \in Nat
  /\ Troubles \subseteq TroubleKinds

VARIABLES
  log,              \* what was published: to whom, and whether it is a Message
  who,              \* who[c]: the citizen that the token of connection c names
  client,           \* client[c]: "new", "connected" or "gone"
  received,         \* received[c]: the messages client c has got
  ctx,              \* ctx[c]: "live" or "cancelled"
  hpc,              \* hpc[c]: "start", "upgraded", "select", "write" or "done"
  writing,          \* writing[c]: the message in WriteJSON, 0 if none
  rpc,              \* rpc[c]: the reader, "off", "read" or "done"
  fpc,              \* fpc[c]: the forwarder, "off", "select", "send" or "done"
  sending,          \* sending[c]: the message that the forwarder holds, 0 if none
  msgs,             \* msgs[c]: the channel from the forwarder to the handler
  sub,              \* sub[c]: "none", "requested", "on" or "closed"
  wire,             \* wire[c]: messages Redis sent that go-redis has not read
  inbox,            \* inbox[c]: those in go-redis's channel, and the one behind it
  openedAt,         \* history: Len(log) when the client saw the upgrade
  onAt,             \* history: Len(log) when Redis confirmed the subscription
  hit               \* history: hit[c], a slow client cost connection c a message

handler == <<hpc, writing>>
forwarder == <<fpc, sending, msgs>>
subscription == <<sub, wire, inbox, onAt>>
peer == <<client, received, openedAt>>
vars == <<log, who, client, received, ctx, hpc, writing, rpc, fpc, sending, msgs, sub,
          wire, inbox, openedAt, onAt, hit>>

Messages == 1..MaxPublished

Init ==
  /\ log = <<>>
  /\ who \in [Conns -> Citizens]
  /\ client = [c \in Conns |-> "new"]
  /\ received = [c \in Conns |-> <<>>]
  /\ ctx = [c \in Conns |-> "live"]
  /\ hpc = [c \in Conns |-> "start"]
  /\ writing = [c \in Conns |-> 0]
  /\ rpc = [c \in Conns |-> "off"]
  /\ fpc = [c \in Conns |-> "off"]
  /\ sending = [c \in Conns |-> 0]
  /\ msgs = [c \in Conns |-> <<>>]
  /\ sub = [c \in Conns |-> "none"]
  /\ wire = [c \in Conns |-> <<>>]
  /\ inbox = [c \in Conns |-> <<>>]
  /\ openedAt = [c \in Conns |-> 0]
  /\ onAt = [c \in Conns |-> 0]
  /\ hit = [c \in Conns |-> FALSE]

-----------------------------------------------------------------------------
(* Redis and go-redis *)

\* Mutant: every connection listens to one common channel.
SubscribesToAll(c, citizen) == TRUE

\* channelFor: connection c is subscribed to the channel of this citizen.
SubscribesTo(c, citizen) == who[c] = citizen

\* PUBLISH reaches the subscriptions that are on, and no other.
Publish(citizen) ==
  /\ Len(log) < MaxPublished
  /\ \E valid \in BOOLEAN :
       /\ valid \/ "garbled" \in Troubles
       /\ log' = Append(log, [to |-> citizen, valid |-> valid])
  /\ wire' = [c \in Conns |-> IF sub[c] = "on" /\ SubscribesTo(c, citizen)
                              THEN Append(wire[c], Len(log'))
                              ELSE wire[c]]
  /\ UNCHANGED <<who, peer, ctx, handler, rpc, forwarder, sub, inbox, onAt, hit>>

\* Redis processes SUBSCRIBE: the first one, or that of a remade connection.
Confirm(c) ==
  /\ sub[c] = "requested"
  /\ sub' = [sub EXCEPT ![c] = "on"]
  /\ onAt' = [onAt EXCEPT ![c] = Len(log)]
  /\ UNCHANGED <<log, who, peer, ctx, handler, rpc, forwarder, wire, inbox, hit>>

\* go-redis's goroutine reads a message and holds it until its channel has room.
Receive(c) ==
  /\ wire[c] # <<>> /\ Len(inbox[c]) <= RedisBuffer
  /\ inbox' = [inbox EXCEPT ![c] = Append(@, Head(wire[c]))]
  /\ wire' = [wire EXCEPT ![c] = Tail(@)]
  /\ UNCHANGED <<log, who, peer, ctx, handler, rpc, forwarder, sub, onAt, hit>>

\* The TCP connection is gone, and with it what has not been read from it.
LosesUnread(c) == wire' = [wire EXCEPT ![c] = <<>>]

\* go-redis loses the connection and subscribes again on a new one.
Reconnect(c) ==
  /\ "reconnect" \in Troubles
  /\ sub[c] = "on"
  /\ sub' = [sub EXCEPT ![c] = "requested"]
  /\ LosesUnread(c)
  /\ UNCHANGED <<log, who, peer, ctx, handler, rpc, forwarder, inbox, onAt, hit>>

\* go-redis closes the channel once it has sent the message it holds; what is in
\* the channel can still be received.
CloseChannel(c) ==
  /\ "closed" \in Troubles
  /\ sub[c] \in {"requested", "on"}
  /\ sub' = [sub EXCEPT ![c] = "closed"]
  /\ LosesUnread(c)
  /\ UNCHANGED <<log, who, peer, ctx, handler, rpc, forwarder, inbox, onAt, hit>>

\* go-redis gives up the message it holds: the channel had no room for a minute.
Discard(c) ==
  /\ "slow" \in Troubles
  /\ Len(inbox[c]) > RedisBuffer
  /\ inbox' = [inbox EXCEPT ![c] = RemoveAt(@, RedisBuffer + 1)]
  /\ hit' = [hit EXCEPT ![c] = TRUE]
  /\ UNCHANGED <<log, who, peer, ctx, handler, rpc, forwarder, sub, wire, onAt>>

-----------------------------------------------------------------------------
(* The handler *)

\* Without a citizen the answer is 401, and a failed upgrade ends the request.
Upgrade(c) ==
  /\ hpc[c] = "start"
  /\ \/ /\ hpc' = [hpc EXCEPT ![c] = "done"]
        /\ UNCHANGED <<client, openedAt>>
     \/ /\ hpc' = [hpc EXCEPT ![c] = "upgraded"]
        /\ client' = [client EXCEPT ![c] = "connected"]
        /\ openedAt' = [openedAt EXCEPT ![c] = Len(log)]
  /\ UNCHANGED <<log, who, received, ctx, writing, rpc, forwarder, subscription, hit>>

\* Subscribe sends SUBSCRIBE without waiting for Redis to confirm it (an error is
\* not returned: go-redis tries again) and starts the forwarder; then the handler
\* starts the reader.
Subscribe(c) ==
  /\ hpc[c] = "upgraded"
  /\ hpc' = [hpc EXCEPT ![c] = "select"]
  /\ sub' = [sub EXCEPT ![c] = "requested"]
  /\ fpc' = [fpc EXCEPT ![c] = "select"]
  /\ rpc' = [rpc EXCEPT ![c] = "read"]
  /\ UNCHANGED <<log, who, peer, ctx, writing, sending, msgs, wire, inbox, onAt, hit>>

\* Handle returns: the deferred calls cancel the context and close the connection.
HandlerReturn(c) ==
  /\ hpc' = [hpc EXCEPT ![c] = "done"]
  /\ writing' = [writing EXCEPT ![c] = 0]
  /\ ctx' = [ctx EXCEPT ![c] = "cancelled"]

\* case <-ctx.Done().  select takes any case that is ready.
HandlerDone(c) ==
  /\ hpc[c] = "select" /\ ctx[c] = "cancelled"
  /\ HandlerReturn(c)
  /\ UNCHANGED <<log, who, peer, rpc, forwarder, subscription, hit>>

\* case msg, ok := <-msgs, with a message.
HandlerTake(c) ==
  /\ hpc[c] = "select" /\ msgs[c] # <<>>
  /\ hpc' = [hpc EXCEPT ![c] = "write"]
  /\ writing' = [writing EXCEPT ![c] = Head(msgs[c])]
  /\ msgs' = [msgs EXCEPT ![c] = Tail(@)]
  /\ UNCHANGED <<log, who, peer, ctx, rpc, fpc, sending, subscription, hit>>

\* Mutant: the closed channel is noticed although it holds messages.
EndsEarly(c) == fpc[c] = "done"

\* A receive from msgs gives !ok: the forwarder closed it and it is empty.
Ended(c) == fpc[c] = "done" /\ msgs[c] = <<>>

HandlerEnd(c) ==
  /\ hpc[c] = "select" /\ Ended(c)
  /\ HandlerReturn(c)
  /\ UNCHANGED <<log, who, peer, rpc, forwarder, subscription, hit>>

\* WriteJSON: to a client that is gone it succeeds or fails; a slow one may make
\* it exceed writeTimeout.
HandlerWrite(c) ==
  /\ hpc[c] = "write"
  /\ \/ /\ received' = IF client[c] = "connected"
                       THEN [received EXCEPT ![c] = Append(@, writing[c])]
                       ELSE received
        /\ hpc' = [hpc EXCEPT ![c] = "select"]
        /\ writing' = [writing EXCEPT ![c] = 0]
        /\ UNCHANGED <<ctx, hit>>
     \/ /\ client[c] = "gone" \/ "slow" \in Troubles
        /\ HandlerReturn(c)
        /\ hit' = [hit EXCEPT ![c] = TRUE]
        /\ UNCHANGED received
  /\ UNCHANGED <<log, who, client, openedAt, rpc, forwarder, subscription>>

\* case <-ticker.C: the ping cannot be written.  One that can changes nothing.
HandlerPing(c) ==
  /\ hpc[c] = "select"
  /\ client[c] = "gone" \/ "slow" \in Troubles
  /\ HandlerReturn(c)
  /\ hit' = [hit EXCEPT ![c] = TRUE]
  /\ UNCHANGED <<log, who, peer, rpc, forwarder, subscription>>

-----------------------------------------------------------------------------
(* The reader *)

\* ReadMessage fails: the client left or answered no ping within pongTimeout, or
\* the handler closed the connection.
ReaderFail(c) ==
  /\ rpc[c] = "read"
  /\ client[c] = "gone" \/ hpc[c] = "done" \/ "slow" \in Troubles
  /\ rpc' = [rpc EXCEPT ![c] = "done"]
  /\ ctx' = [ctx EXCEPT ![c] = "cancelled"]
  /\ hit' = [hit EXCEPT ![c] = @ \/ hpc[c] # "done"]
  /\ UNCHANGED <<log, who, peer, handler, forwarder, subscription>>

-----------------------------------------------------------------------------
(* The forwarder *)

\* The goroutine of Subscribe returns: close(ch), then sub.Close().
ForwarderReturn(c) ==
  /\ fpc' = [fpc EXCEPT ![c] = "done"]
  /\ sending' = [sending EXCEPT ![c] = 0]
  /\ sub' = [sub EXCEPT ![c] = "closed"]
  /\ LosesUnread(c)
  /\ inbox' = [inbox EXCEPT ![c] = <<>>]
  /\ UNCHANGED <<msgs, onAt>>

\* Mutant: the send of the forwarder does not watch the context.
NoticesInSelectOnly(c) == fpc[c] = "select"

\* Both selects of the forwarder have the case <-ctx.Done().
NoticesDone(c) == fpc[c] \in {"select", "send"}

ForwarderDone(c) ==
  /\ NoticesDone(c) /\ ctx[c] = "cancelled"
  /\ ForwarderReturn(c)
  /\ UNCHANGED <<log, who, peer, ctx, handler, rpc, hit>>

\* case msg, ok := <-redisCh with !ok: closed, and nothing left in it.
ForwarderEnd(c) ==
  /\ fpc[c] = "select" /\ sub[c] = "closed" /\ inbox[c] = <<>>
  /\ ForwarderReturn(c)
  /\ UNCHANGED <<log, who, peer, ctx, handler, rpc, hit>>

\* case msg, ok := <-redisCh: a payload that is no Message is skipped.
ForwarderTake(c) ==
  /\ fpc[c] = "select" /\ inbox[c] # <<>>
  /\ inbox' = [inbox EXCEPT ![c] = Tail(@)]
  /\ IF log[Head(inbox[c])].valid
     THEN /\ fpc' = [fpc EXCEPT ![c] = "send"]
          /\ sending' = [sending EXCEPT ![c] = Head(inbox[c])]
     ELSE UNCHANGED <<fpc, sending>>
  /\ UNCHANGED <<log, who, peer, ctx, handler, rpc, msgs, sub, wire, onAt, hit>>

\* Mutant: the channel takes one message more than its capacity.
RoomForOneMore(c) == Len(msgs[c]) <= Capacity

\* The buffered channel can take a message.
Room(c) == Len(msgs[c]) < Capacity

\* Mutant: the send has a default case, and a full channel drops the message.
SendOrDrop(c) ==
  /\ fpc[c] = "send"
  /\ msgs' = [msgs EXCEPT ![c] = IF Room(c) THEN Append(@, sending[c]) ELSE @]
  /\ sending' = [sending EXCEPT ![c] = 0]
  /\ fpc' = [fpc EXCEPT ![c] = "select"]
  /\ UNCHANGED <<log, who, peer, ctx, handler, rpc, subscription, hit>>

\* case ch <- m.
ForwarderSend(c) ==
  /\ fpc[c] = "send" /\ Room(c)
  /\ msgs' = [msgs EXCEPT ![c] = Append(@, sending[c])]
  /\ sending' = [sending EXCEPT ![c] = 0]
  /\ fpc' = [fpc EXCEPT ![c] = "select"]
  /\ UNCHANGED <<log, who, peer, ctx, handler, rpc, subscription, hit>>

-----------------------------------------------------------------------------
\* The client closes the connection, or the network does without a word.
Leave(c) ==
  /\ client[c] = "connected"
  /\ client' = [client EXCEPT ![c] = "gone"]
  /\ UNCHANGED <<log, who, received, openedAt, ctx, handler, rpc, forwarder, subscription, hit>>

RedisStep(c) == Confirm(c) \/ Receive(c) \/ Reconnect(c) \/ CloseChannel(c) \/ Discard(c)

HandlerStep(c) ==
  \/ Subscribe(c)
  \/ HandlerDone(c)
  \/ HandlerTake(c)
  \/ HandlerEnd(c)
  \/ HandlerWrite(c)

ForwarderStep(c) ==
  \/ ForwarderDone(c)
  \/ ForwarderEnd(c)
  \/ ForwarderTake(c)
  \/ ForwarderSend(c)

Next ==
  \/ \E citizen \in Citizens : Publish(citizen)
  \/ \E c \in Conns :
       \/ RedisStep(c)
       \/ Upgrade(c) \/ HandlerStep(c) \/ HandlerPing(c)
       \/ ReaderFail(c)
       \/ ForwarderStep(c)
       \/ Leave(c)

Spec == Init /\ [][Next]_vars

\* The Go scheduler runs every goroutine that can run, writes end within
\* writeTimeout, and a read from a client that is gone fails within pongTimeout.
\* go-redis's goroutine is one of them; nothing is assumed about clients,
\* publications, Redis or the connection to it.
FairSpec ==
  /\ Spec
  /\ \A c \in Conns :
       /\ WF_vars(HandlerStep(c))
       /\ WF_vars(ForwarderStep(c))
       /\ WF_vars(Receive(c))
       /\ WF_vars(ReaderFail(c) /\ (client[c] = "gone" \/ hpc[c] = "done"))

-----------------------------------------------------------------------------
(* Properties *)

\* The values the variables take; msgs never holds more than its capacity.
DeliveryTypeOK ==
  /\ log \in Seq([to: Citizens, valid: BOOLEAN]) /\ Len(log) <= MaxPublished
  /\ who \in [Conns -> Citizens]
  /\ client \in [Conns -> {"new", "connected", "gone"}]
  /\ received \in [Conns -> Seq(Messages)]
  /\ ctx \in [Conns -> {"live", "cancelled"}]
  /\ hpc \in [Conns -> {"start", "upgraded", "select", "write", "done"}]
  /\ writing \in [Conns -> 0..MaxPublished]
  /\ rpc \in [Conns -> {"off", "read", "done"}]
  /\ fpc \in [Conns -> {"off", "select", "send", "done"}]
  /\ sending \in [Conns -> 0..MaxPublished]
  /\ msgs \in [Conns -> Seq(Messages)]
  /\ \A c \in Conns : Len(msgs[c]) <= Capacity
  /\ sub \in [Conns -> {"none", "requested", "on", "closed"}]
  /\ wire \in [Conns -> Seq(Messages)]
  /\ inbox \in [Conns -> Seq(Messages)]
  /\ \A c \in Conns : Len(inbox[c]) <= RedisBuffer + 1
  /\ openedAt \in [Conns -> 0..MaxPublished]
  /\ onAt \in [Conns -> 0..MaxPublished]
  /\ hit \in [Conns -> BOOLEAN]

Held(m) == IF m = 0 THEN <<>> ELSE <<m>>

Backlog(c) == inbox[c] \o wire[c]

\* The messages of connection c from the client back to Redis, oldest first.
Pipeline(c) ==
  received[c] \o Held(writing[c]) \o msgs[c] \o Held(sending[c]) \o Backlog(c)

\* What a client receives, and will receive, are messages for its own citizen, in
\* the order of publication and none twice, whatever is dropped, remade or slow on
\* the way, and nothing that is not a Message (R-ISO-3, R-WS-4).
DeliveredInOrder ==
  \A c \in Conns :
    /\ \A i, j \in DOMAIN Pipeline(c) : i < j => Pipeline(c)[i] < Pipeline(c)[j]
    /\ \A i \in DOMAIN Pipeline(c) : log[Pipeline(c)[i]].to = who[c]
    /\ \A i \in DOMAIN received[c] : log[received[c][i]].valid

\* The messages for the citizen of connection c published after the first n.
PublishedAfter(c, n) ==
  {m \in 1..Len(log) : m > n /\ log[m].to = who[c] /\ log[m].valid}

InPipelineAfter(c, n) == {m \in ToSet(Pipeline(c)) : m > n /\ log[m].valid}

\* Unless a slow client made go-redis give up a message, a subscribed connection
\* has, received or on the way, exactly what was published since Redis confirmed
\* the subscription (in order and once, by DeliveredInOrder): the first one, or that
\* of a connection remade under a full channel and a blocked forwarder.
NothingSkipped ==
  \A c \in Conns :
    sub[c] = "on" /\ ctx[c] = "live" /\ client[c] = "connected" /\ ~hit[c]
      => InPipelineAfter(c, onAt[c]) = PublishedAfter(c, onAt[c])

\* Every connection that a client sees as open gets all that is published from
\* then on (R-WS-4 "quando conectado, a notificação é entregue a todas as conexões
\* ativas").
ConnectedMissesNothing ==
  \A c \in Conns :
    ctx[c] = "live" /\ client[c] = "connected"
      => InPipelineAfter(c, openedAt[c]) = PublishedAfter(c, openedAt[c])

\* Everything that connection c used is given back.
Released(c) ==
  /\ hpc[c] = "done"
  /\ rpc[c] \in {"off", "done"}
  /\ fpc[c] \in {"off", "done"}
  /\ sub[c] \in {"none", "closed"}

\* When the client is gone or any of its goroutines has ended, all three end and
\* the subscription is closed: nobody waits for ever on a full channel, a silent
\* client or another goroutine (R-WS-5, R-WS-6).
ConnectionReleased ==
  \A c \in Conns :
    (client[c] = "gone" \/ "done" \in {hpc[c], rpc[c], fpc[c]}) ~> Released(c)

\* A message that go-redis has read reaches the client, unless the client leaves or
\* is too slow: the capacities of both channels, a remade and a closing subscription
\* delay it and do not lose it.  One that Redis has sent, and that is not read yet,
\* has one more way to get lost, the end of the connection it is on.
MessageArrives ==
  \A c \in Conns, m \in Messages :
    LET Over == m \in ToSet(received[c]) \/ client[c] = "gone" \/ hit[c]
    IN /\ (m \in ToSet(inbox[c]) /\ log[m].valid) ~> Over
       /\ (m \in ToSet(wire[c]) /\ log[m].valid) ~> (Over \/ sub[c] # "on")
=============================================================================
