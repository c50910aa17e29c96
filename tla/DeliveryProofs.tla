--------------------------- MODULE DeliveryProofs ----------------------------
(***************************************************************************)
(* Theorems about Delivery, for any number of citizens, connections and    *)
(* messages, any capacity of the channels and any troubles.                *)
(***************************************************************************)
EXTENDS Delivery, SequenceTheorems, TLAPS

-----------------------------------------------------------------------------
(* Type correctness *)

\* The handler holds a message while it writes and the forwarder while it sends, and
\* there is neither forwarder nor subscription before the handler has subscribed.
HoldersAreBusy ==
  \A c \in Conns :
    /\ hpc[c] = "write" <=> writing[c] # 0
    /\ fpc[c] = "send" <=> sending[c] # 0
    /\ hpc[c] \in {"start", "upgraded"} => fpc[c] = "off" /\ sub[c] = "none"

TypeInv == DeliveryTypeOK /\ HoldersAreBusy

LEMMA PublishType ==
  ASSUME TypeInv, NEW citizen \in Citizens, Publish(citizen)
  PROVE  TypeInv'
<1> USE DeliveryAssumption DEF TypeInv, DeliveryTypeOK
<1>1. log' \in Seq([to: Citizens, valid: BOOLEAN]) /\ Len(log') \in Messages
  BY DEF Publish, Messages
<1>2. wire' \in [Conns -> Seq(Messages)]
  BY <1>1 DEF Publish
<1> QED
  BY <1>1, <1>2 DEF Publish, Messages, HoldersAreBusy, handler, forwarder, peer

LEMMA RedisType ==
  ASSUME TypeInv, NEW c \in Conns, RedisStep(c)
  PROVE  TypeInv'
<1> USE DeliveryAssumption DEF TypeInv, DeliveryTypeOK, HoldersAreBusy, handler, forwarder, peer
<1>1. CASE Confirm(c)
  BY <1>1 DEF Confirm
<1>2. CASE Reconnect(c)
  BY <1>2 DEF Reconnect, LosesUnread
<1>3. CASE CloseChannel(c)
  BY <1>3 DEF CloseChannel, LosesUnread
<1>4. CASE Discard(c)
  <2> DEFINE i == inbox[c]  n == RedisBuffer + 1
  <2>1. i \in Seq(Messages) /\ Len(i) = n /\ n \in Nat \ {0}
    BY <1>4 DEF Discard
  <2> HIDE DEF i, n
  <2>2. RemoveAt(i, n) \in Seq(Messages) /\ Len(RemoveAt(i, n)) <= n
    <3>1. /\ SubSeq(i, 1, n - 1) \in Seq(Messages) /\ Len(SubSeq(i, 1, n - 1)) = n - 1
          /\ SubSeq(i, n + 1, Len(i)) \in Seq(Messages) /\ Len(SubSeq(i, n + 1, Len(i))) = 0
      BY ONLY <2>1, SubSeqProperties
    <3> QED
      BY ONLY <2>1, <3>1 DEF RemoveAt
  <2>3. RemoveAt(inbox[c], RedisBuffer + 1) \in Seq(Messages)
        /\ Len(RemoveAt(inbox[c], RedisBuffer + 1)) <= RedisBuffer + 1
    BY ONLY <2>2 DEF i, n
  <2> QED
    BY <1>4, <2>3 DEF Discard
<1>5. CASE Receive(c)
  <2>1. /\ Append(inbox[c], Head(wire[c])) \in Seq(Messages) /\ Tail(wire[c]) \in Seq(Messages)
        /\ Len(Append(inbox[c], Head(wire[c]))) <= RedisBuffer + 1
    BY <1>5 DEF Receive
  <2> QED
    BY <1>5, <2>1 DEF Receive
<1> QED
  BY <1>1, <1>2, <1>3, <1>4, <1>5 DEF RedisStep

LEMMA UpgradeType ==
  ASSUME TypeInv, NEW c \in Conns, Upgrade(c)
  PROVE  TypeInv'
<1>1. /\ Len(log) \in 0..MaxPublished
      /\ openedAt \in [Conns -> 0..MaxPublished]
      /\ client \in [Conns -> {"new", "connected", "gone"}]
  BY DeliveryAssumption DEF TypeInv, DeliveryTypeOK
<1>2. /\ openedAt' \in [Conns -> 0..MaxPublished]
      /\ client' \in [Conns -> {"new", "connected", "gone"}]
      /\ hpc[c] = "start"
      /\ \E s \in {"done", "upgraded"} : hpc' = [hpc EXCEPT ![c] = s]
  BY <1>1 DEF Upgrade
<1>3. UNCHANGED <<log, who, received, ctx, writing, rpc, fpc, sending, msgs, sub, wire, inbox,
                  onAt, hit>>
  BY DEF Upgrade, forwarder, subscription
<1>4. HoldersAreBusy'
  BY <1>2, <1>3 DEF TypeInv, DeliveryTypeOK, HoldersAreBusy
<1> QED
  BY <1>2, <1>3, <1>4 DEF TypeInv, DeliveryTypeOK

LEMMA WriteType ==
  ASSUME TypeInv, NEW c \in Conns, HandlerWrite(c)
  PROVE  TypeInv'
<1>1. /\ writing[c] \in Messages /\ received \in [Conns -> Seq(Messages)]
      /\ ctx \in [Conns -> {"live", "cancelled"}]
      /\ hit \in [Conns -> BOOLEAN]
  BY DeliveryAssumption DEF TypeInv, DeliveryTypeOK, HoldersAreBusy, HandlerWrite, Messages
<1>2. Append(received[c], writing[c]) \in Seq(Messages)
  BY <1>1
<1>3. received' \in [Conns -> Seq(Messages)]
  BY <1>1, <1>2 DEF HandlerWrite
<1>4. /\ hpc[c] = "write"
      /\ \E s \in {"select", "done"} : hpc' = [hpc EXCEPT ![c] = s]
      /\ writing' = [writing EXCEPT ![c] = 0]
      /\ ctx' \in [Conns -> {"live", "cancelled"}]
      /\ hit' \in [Conns -> BOOLEAN]
  BY <1>1 DEF HandlerWrite, HandlerReturn
<1>5. UNCHANGED <<log, who, client, rpc, fpc, sending, msgs, sub, wire, inbox, openedAt, onAt>>
  BY DEF HandlerWrite, forwarder, subscription
<1>6. HoldersAreBusy'
  BY <1>4, <1>5 DEF TypeInv, DeliveryTypeOK, HoldersAreBusy
<1>7. /\ hpc' \in [Conns -> {"start", "upgraded", "select", "write", "done"}]
      /\ writing' \in [Conns -> 0..MaxPublished]
  BY <1>4, DeliveryAssumption DEF TypeInv, DeliveryTypeOK
<1> QED
  BY <1>3, <1>4, <1>5, <1>6, <1>7 DEF TypeInv, DeliveryTypeOK

LEMMA HandlerType ==
  ASSUME TypeInv, NEW c \in Conns, Upgrade(c) \/ HandlerStep(c) \/ HandlerPing(c)
  PROVE  TypeInv'
<1> USE DeliveryAssumption DEF TypeInv, DeliveryTypeOK, HoldersAreBusy, forwarder, peer,
    subscription, HandlerReturn
<1>1. CASE Subscribe(c)
  BY <1>1 DEF Subscribe
<1>2. CASE HandlerDone(c)
  BY <1>2 DEF HandlerDone
<1>3. CASE HandlerTake(c)
  <2>1. /\ Head(msgs[c]) \in Messages /\ Tail(msgs[c]) \in Seq(Messages)
        /\ Len(Tail(msgs[c])) <= Capacity
    BY <1>3 DEF HandlerTake
  <2>2. Head(msgs[c]) # 0 /\ Head(msgs[c]) \in 0..MaxPublished
    BY <2>1 DEF Messages
  <2> QED
    BY <1>3, <2>1, <2>2 DEF HandlerTake
<1>4. CASE HandlerEnd(c)
  BY <1>4 DEF HandlerEnd
<1>5. CASE HandlerPing(c)
  BY <1>5 DEF HandlerPing
<1> QED
  BY <1>1, <1>2, <1>3, <1>4, <1>5, UpgradeType, WriteType DEF HandlerStep

LEMMA TakeType ==
  ASSUME TypeInv, NEW c \in Conns, ForwarderTake(c)
  PROVE  TypeInv'
<1> DEFINE m == Head(inbox[c])
<1>1. /\ fpc[c] = "select" /\ inbox' = [inbox EXCEPT ![c] = Tail(@)]
      /\ \/ fpc' = [fpc EXCEPT ![c] = "send"] /\ sending' = [sending EXCEPT ![c] = m]
         \/ fpc' = fpc /\ sending' = sending
  BY DEF ForwarderTake
<1>2. UNCHANGED <<log, who, client, received, ctx, hpc, writing, rpc, msgs, sub, wire, openedAt,
                  onAt, hit>>
  BY DEF ForwarderTake, handler, peer
<1>3. /\ m \in Messages /\ inbox \in [Conns -> Seq(Messages)] /\ Tail(inbox[c]) \in Seq(Messages)
      /\ Len(Tail(inbox[c])) <= RedisBuffer + 1
  BY DeliveryAssumption DEF TypeInv, DeliveryTypeOK, ForwarderTake
<1>4. m # 0 /\ m \in 0..MaxPublished
  BY <1>3, DeliveryAssumption DEF Messages
<1>5. /\ fpc \in [Conns -> {"off", "select", "send", "done"}]
      /\ sending \in [Conns -> 0..MaxPublished]
  BY DEF TypeInv, DeliveryTypeOK
<1> HIDE DEF m
<1>6. /\ fpc' \in [Conns -> {"off", "select", "send", "done"}]
      /\ sending' \in [Conns -> 0..MaxPublished]
  BY <1>1, <1>4, <1>5
<1>7. HoldersAreBusy'
  BY <1>1, <1>2, <1>4, <1>5 DEF TypeInv, HoldersAreBusy
<1>8. inbox' \in [Conns -> Seq(Messages)] /\ \A d \in Conns : Len(inbox'[d]) <= RedisBuffer + 1
  BY <1>1, <1>3 DEF TypeInv, DeliveryTypeOK
<1> QED
  BY <1>2, <1>6, <1>7, <1>8 DEF TypeInv, DeliveryTypeOK

LEMMA ReturnType ==
  ASSUME TypeInv, NEW c \in Conns, ForwarderDone(c) \/ ForwarderEnd(c)
  PROVE  TypeInv'
<1>1. /\ fpc[c] # "off" /\ fpc' = [fpc EXCEPT ![c] = "done"]
      /\ sending' = [sending EXCEPT ![c] = 0] /\ sub' = [sub EXCEPT ![c] = "closed"]
      /\ wire' = [wire EXCEPT ![c] = <<>>] /\ inbox' = [inbox EXCEPT ![c] = <<>>]
  BY DEF ForwarderDone, ForwarderEnd, NoticesDone, ForwarderReturn, LosesUnread
<1>2. UNCHANGED <<log, who, client, received, ctx, hpc, writing, rpc, msgs, openedAt, onAt, hit>>
  BY DEF ForwarderDone, ForwarderEnd, ForwarderReturn, handler, peer
<1>3. /\ fpc \in [Conns -> {"off", "select", "send", "done"}]
      /\ sending \in [Conns -> 0..MaxPublished]
      /\ sub \in [Conns -> {"none", "requested", "on", "closed"}]
      /\ wire \in [Conns -> Seq(Messages)] /\ inbox \in [Conns -> Seq(Messages)]
      /\ \A d \in Conns : Len(inbox[d]) <= RedisBuffer + 1
  BY DEF TypeInv, DeliveryTypeOK
<1>4. /\ fpc' \in [Conns -> {"off", "select", "send", "done"}]
      /\ sending' \in [Conns -> 0..MaxPublished]
      /\ sub' \in [Conns -> {"none", "requested", "on", "closed"}]
  BY <1>1, <1>3, DeliveryAssumption
<1>5. /\ wire' \in [Conns -> Seq(Messages)] /\ inbox' \in [Conns -> Seq(Messages)]
      /\ \A d \in Conns : Len(inbox'[d]) <= RedisBuffer + 1
  <2>1. <<>> \in Seq(Messages) /\ Len(<<>>) <= RedisBuffer + 1
    BY DeliveryAssumption
  <2>2. \A d \in Conns : inbox'[d] = inbox[d] \/ inbox'[d] = <<>>
    BY <1>1, <1>3
  <2> QED
    BY <1>1, <1>3, <2>1, <2>2
<1>6. HoldersAreBusy'
  BY <1>1, <1>2, <1>3 DEF TypeInv, HoldersAreBusy
<1> QED
  BY <1>2, <1>4, <1>5, <1>6 DEF TypeInv, DeliveryTypeOK

LEMMA SendType ==
  ASSUME TypeInv, NEW c \in Conns, ForwarderSend(c)
  PROVE  TypeInv'
<1>1. /\ fpc[c] = "send" /\ fpc' = [fpc EXCEPT ![c] = "select"]
      /\ sending' = [sending EXCEPT ![c] = 0]
      /\ msgs' = [msgs EXCEPT ![c] = Append(@, sending[c])] /\ Len(msgs[c]) < Capacity
  BY DEF ForwarderSend, Room
<1>2. UNCHANGED <<log, who, client, received, ctx, hpc, writing, rpc, sub, wire, inbox, openedAt,
                  onAt, hit>>
  BY DEF ForwarderSend, handler, peer, subscription
<1>3. /\ fpc \in [Conns -> {"off", "select", "send", "done"}]
      /\ sending \in [Conns -> 0..MaxPublished] /\ sending[c] # 0
      /\ msgs \in [Conns -> Seq(Messages)] /\ \A d \in Conns : Len(msgs[d]) <= Capacity
  BY <1>1 DEF TypeInv, DeliveryTypeOK, HoldersAreBusy
<1>4. /\ fpc' \in [Conns -> {"off", "select", "send", "done"}]
      /\ sending' \in [Conns -> 0..MaxPublished]
  BY <1>1, <1>3, DeliveryAssumption
<1>5. /\ msgs' \in [Conns -> Seq(Messages)]
      /\ \A d \in Conns : Len(msgs'[d]) <= Capacity
  <2>1. sending[c] \in Messages
    BY <1>3, DeliveryAssumption DEF Messages
  <2>2. /\ Append(msgs[c], sending[c]) \in Seq(Messages)
        /\ Len(Append(msgs[c], sending[c])) <= Capacity
    BY <1>1, <1>3, <2>1, DeliveryAssumption
  <2> QED
    BY <1>1, <1>3, <2>2
<1>6. HoldersAreBusy'
  BY <1>1, <1>2, <1>3 DEF TypeInv, HoldersAreBusy
<1> QED
  BY <1>2, <1>4, <1>5, <1>6 DEF TypeInv, DeliveryTypeOK

LEMMA StepType == TypeInv /\ [Next]_vars => TypeInv'
<1> SUFFICES ASSUME TypeInv, [Next]_vars PROVE TypeInv'
  OBVIOUS
<1>1. ASSUME NEW c \in Conns, ReaderFail(c) PROVE TypeInv'
  BY <1>1 DEF ReaderFail, TypeInv, DeliveryTypeOK, HoldersAreBusy, handler, forwarder, peer,
     subscription
<1>2. ASSUME NEW c \in Conns, Leave(c) PROVE TypeInv'
  BY <1>2 DEF Leave, TypeInv, DeliveryTypeOK, HoldersAreBusy, handler, forwarder, subscription
<1>3. ASSUME UNCHANGED vars PROVE TypeInv'
  BY <1>3 DEF vars, TypeInv, DeliveryTypeOK, HoldersAreBusy
<1> QED
  BY <1>1, <1>2, <1>3, PublishType, RedisType, HandlerType, TakeType, ReturnType,
     SendType DEF Next, ForwarderStep

LEMMA InitType == Init => TypeInv
  BY DeliveryAssumption DEF Init, TypeInv, DeliveryTypeOK, HoldersAreBusy, Messages

LEMMA TypeInvariant == Spec => []TypeInv
  BY InitType, StepType, PTL DEF Spec

\* Every variable keeps its type, and the channel from the forwarder to the handler never
\* holds more than its capacity (subscriber.go:21).
THEOREM DeliveryTypeCorrect == Spec => []DeliveryTypeOK
  BY TypeInvariant, PTL DEF TypeInv

-----------------------------------------------------------------------------
(* Sequences *)

Increasing(s) == \A i, j \in DOMAIN s : i < j => s[i] < s[j]

LEMMA ConcatElements ==
  ASSUME NEW S, NEW s \in Seq(S), NEW t \in Seq(S)
  PROVE  ToSet(s \o t) = ToSet(s) \cup ToSet(t)
<1>1. \A x \in ToSet(s \o t) : x \in ToSet(s) \cup ToSet(t)
  BY DEF ToSet
<1>2. ASSUME NEW i \in DOMAIN s PROVE s[i] \in ToSet(s \o t)
  <2>1. i \in DOMAIN (s \o t) /\ (s \o t)[i] = s[i]
    OBVIOUS
  <2> QED
    BY <2>1 DEF ToSet
<1>3. ASSUME NEW i \in DOMAIN t PROVE t[i] \in ToSet(s \o t)
  <2>1. Len(s) + i \in DOMAIN (s \o t) /\ (s \o t)[Len(s) + i] = t[i]
    OBVIOUS
  <2> QED
    BY <2>1 DEF ToSet
<1>4. (\A x \in ToSet(s) : x \in ToSet(s \o t)) /\ (\A x \in ToSet(t) : x \in ToSet(s \o t))
  BY <1>2, <1>3 DEF ToSet
<1> QED
  BY <1>1, <1>4

\* A concatenation is increasing when its parts are and the first stays below the second.
LEMMA ConcatIncreasing ==
  ASSUME NEW s \in Seq(Nat), NEW t \in Seq(Nat)
  PROVE  Increasing(s \o t) <=>
           /\ Increasing(s) /\ Increasing(t)
           /\ \A x \in ToSet(s), y \in ToSet(t) : x < y
<1> DEFINE p == s \o t
<1>1. /\ DOMAIN s = 1..Len(s) /\ DOMAIN t = 1..Len(t) /\ DOMAIN p = 1..(Len(s) + Len(t))
      /\ Len(s) \in Nat /\ Len(t) \in Nat
      /\ \A i \in 1..Len(s) : p[i] = s[i]
      /\ \A i \in 1..Len(t) : p[Len(s) + i] = t[i]
      /\ \A i \in DOMAIN p : i \in DOMAIN s \/ (i - Len(s) \in DOMAIN t /\ p[i] = t[i - Len(s)])
  <2>1. /\ DOMAIN s = 1..Len(s) /\ DOMAIN t = 1..Len(t) /\ Len(s) \in Nat /\ Len(t) \in Nat
        /\ DOMAIN p = 1..(Len(s) + Len(t))
    OBVIOUS
  <2>2. \A i \in 1..(Len(s) + Len(t)) : p[i] = IF i <= Len(s) THEN s[i] ELSE t[i - Len(s)]
    BY ConcatProperties
  <2> HIDE DEF p
  <2>3. \A i \in 1..Len(s) : p[i] = s[i]
    BY <2>1, <2>2
  <2>4. ASSUME NEW i \in 1..Len(t) PROVE p[Len(s) + i] = t[i]
    <3>1. Len(s) + i \in 1..(Len(s) + Len(t)) /\ ~(Len(s) + i <= Len(s)) /\ Len(s) + i - Len(s) = i
      BY <2>1
    <3> QED
      BY <2>2, <3>1
  <2>5. ASSUME NEW i \in DOMAIN p, i \notin DOMAIN s
        PROVE  i - Len(s) \in DOMAIN t /\ p[i] = t[i - Len(s)]
    BY <2>1, <2>2, <2>5
  <2> QED
    BY <2>1, <2>3, <2>4, <2>5
<1> HIDE DEF p
<1>2. ASSUME Increasing(p)
      PROVE  /\ Increasing(s) /\ Increasing(t)
             /\ \A x \in ToSet(s), y \in ToSet(t) : x < y
  <2>1. Increasing(s)
    BY <1>1, <1>2 DEF Increasing
  <2>2. ASSUME NEW i \in DOMAIN t, NEW j \in DOMAIN t, i < j PROVE t[i] < t[j]
    <3>1. Len(s) + i \in DOMAIN p /\ Len(s) + j \in DOMAIN p /\ Len(s) + i < Len(s) + j
      BY <1>1, <2>2
    <3> QED
      BY <1>1, <1>2, <3>1 DEF Increasing
  <2>3. ASSUME NEW i \in DOMAIN s, NEW j \in DOMAIN t PROVE s[i] < t[j]
    <3>1. i \in DOMAIN p /\ Len(s) + j \in DOMAIN p /\ i < Len(s) + j
      BY <1>1
    <3> QED
      BY <1>1, <1>2, <3>1 DEF Increasing
  <2> QED
    BY <2>1, <2>2, <2>3 DEF Increasing, ToSet
<1>3. ASSUME Increasing(s), Increasing(t), \A x \in ToSet(s), y \in ToSet(t) : x < y,
             NEW i \in DOMAIN p, NEW j \in DOMAIN p, i < j
      PROVE  p[i] < p[j]
  <2>1. CASE j \in DOMAIN s
    BY <1>1, <1>3, <2>1 DEF Increasing
  <2>2. CASE i \in DOMAIN s /\ j \notin DOMAIN s
    <3>1. p[i] = s[i] /\ j - Len(s) \in DOMAIN t /\ p[j] = t[j - Len(s)]
      BY <1>1, <2>2
    <3> QED
      BY <1>3, <2>2, <3>1 DEF ToSet
  <2>3. CASE i \notin DOMAIN s /\ j \notin DOMAIN s
    <3>1. /\ i - Len(s) \in DOMAIN t /\ p[i] = t[i - Len(s)]
          /\ j - Len(s) \in DOMAIN t /\ p[j] = t[j - Len(s)]
          /\ i - Len(s) < j - Len(s)
      BY <1>1, <1>3, <2>3
    <3> QED
      BY <1>3, <3>1 DEF Increasing
  <2> QED
    BY <1>1, <1>3, <2>1, <2>2, <2>3
<1> QED
  BY <1>2, <1>3 DEF Increasing, p

\* What is left when a stretch is dropped.
LEMMA DropIncreasing ==
  ASSUME NEW a \in Seq(Nat), NEW b \in Seq(Nat), NEW u \in Seq(Nat), Increasing(a \o b \o u)
  PROVE  /\ Increasing(a \o u)
         /\ ToSet(a \o b \o u) = ToSet(a \o u) \cup ToSet(b)
<1>1. a \o b \in Seq(Nat)
  OBVIOUS
<1>2. /\ Increasing(a) /\ Increasing(u) /\ ToSet(a \o b) = ToSet(a) \cup ToSet(b)
      /\ \A x \in ToSet(a \o b), y \in ToSet(u) : x < y
  <2>1. /\ Increasing(a \o b) /\ Increasing(u)
        /\ \A x \in ToSet(a \o b), y \in ToSet(u) : x < y
    BY <1>1, ConcatIncreasing
  <2>2. Increasing(a)
    BY <2>1, ConcatIncreasing
  <2> QED
    BY <2>1, <2>2, ConcatElements
<1>3. ToSet(a \o u) = ToSet(a) \cup ToSet(u)
  BY ConcatElements
<1>4. ToSet(a \o b \o u) = ToSet(a \o b) \cup ToSet(u)
  BY <1>1, ConcatElements
<1> QED
  BY <1>2, <1>3, <1>4, ConcatIncreasing

LEMMA AppendIncreasing ==
  ASSUME NEW s \in Seq(Nat), NEW n \in Nat, Increasing(s), \A x \in ToSet(s) : x < n
  PROVE  Increasing(Append(s, n)) /\ ToSet(Append(s, n)) = ToSet(s) \cup {n}
<1>1. <<n>> \in Seq(Nat) /\ Increasing(<<n>>) /\ ToSet(<<n>>) = {n}
  BY DEF Increasing, ToSet
<1>2. Append(s, n) = s \o <<n>>
  BY AppendIsConcat
<1>3. Increasing(s \o <<n>>)
  BY <1>1, ConcatIncreasing
<1>4. ToSet(s \o <<n>>) = ToSet(s) \cup {n}
  <2>1. \A t \in Seq(Nat) : ToSet(s \o t) = ToSet(s) \cup ToSet(t)
    BY ConcatElements
  <2> QED
    BY <1>1, <2>1
<1> QED
  BY <1>2, <1>3, <1>4

LEMMA Concatenation ==
  /\ <<>> \in Seq(Messages)
  /\ \A s, t \in Seq(Messages) : s \o t \in Seq(Messages)
  /\ \A s, t, u \in Seq(Messages) : s \o t \o u = s \o (t \o u)
  /\ \A s \in Seq(Messages) : s \o <<>> = s /\ <<>> \o s = s
  /\ \A s \in Seq(Messages), x \in Messages : <<x>> \in Seq(Messages) /\ Append(s, x) = s \o <<x>>
<1>1. \A s, t, u \in Seq(Messages) : s \o t \o u = s \o (t \o u)
  BY ConcatAssociative
<1>2. \A s \in Seq(Messages) : s \o <<>> = s /\ <<>> \o s = s
  BY ConcatEmptySeq
<1>3. \A s \in Seq(Messages), x \in Messages : <<x>> \in Seq(Messages) /\ Append(s, x) = s \o <<x>>
  BY AppendIsConcat
<1>4. <<>> \in Seq(Messages) /\ \A s, t \in Seq(Messages) : s \o t \in Seq(Messages)
  OBVIOUS
<1> QED
  BY <1>1, <1>2, <1>3, <1>4

\* Concatenation by a name of its own, which the provers do not rewrite.
Cat(s, t) == s \o t

LEMMA Regroup ==
  ASSUME NEW s \in Seq(Messages), NEW q \in Seq(Messages), NEW f \in Seq(Messages),
         NEW i \in Seq(Messages)
  PROVE  Cat(Cat(Cat(s, q), f), i) = Cat(s, Cat(Cat(q, f), i))
<1> DEFINE l == s \o q \o f \o i  r == s \o (q \o f \o i)
<1>1. /\ l \in Seq(Messages) /\ r \in Seq(Messages)
      /\ Len(l) = Len(s) + Len(q) + Len(f) + Len(i) /\ Len(r) = Len(l)
  OBVIOUS
<1>2. ASSUME NEW n \in 1..Len(l) PROVE l[n] = r[n]
  BY <1>1
<1> HIDE DEF l, r
<1>3. l = r
  BY <1>1, <1>2, SeqEqual
<1>4. Cat(Cat(Cat(s, q), f), i) = l /\ Cat(s, Cat(Cat(q, f), i)) = r
  BY DEF Cat, l, r
<1> QED
  BY <1>3, <1>4

LEMMA CatAssociates ==
  /\ \A s, t \in Seq(Messages) : Cat(s, t) \in Seq(Messages)
  /\ \A s, t, u \in Seq(Messages) : Cat(Cat(s, t), u) = Cat(s, Cat(t, u))
  BY Concatenation DEF Cat

LEMMA HeadAndTail ==
  ASSUME NEW S, NEW s \in Seq(S), s # <<>>
  PROVE  Head(s) \in S /\ Tail(s) \in Seq(S) /\ s = <<Head(s)>> \o Tail(s)
<1>1. Head(s) \in S /\ Tail(s) \in Seq(S) /\ Len(Tail(s)) = Len(s) - 1 /\ Len(s) \in Nat \ {0}
  BY HeadTailProperties, EmptySeq
<1>2. SubSeq(s, 1, Len(s)) = <<s[1]>> \o SubSeq(s, 2, Len(s))
  BY <1>1, SubSeqRecursiveFirst
<1>3. SubSeq(s, 1, Len(s)) = s /\ Tail(s) = SubSeq(s, 2, Len(s)) /\ Head(s) = s[1]
  BY SubSeqFull, TailIsSubSeq
<1> QED
  BY <1>1, <1>2, <1>3

-----------------------------------------------------------------------------
(* What a step does to the messages of a connection *)

\* The parts of the pipeline are sequences of messages.
LEMMA PartsAreSequences ==
  ASSUME TypeInv, NEW c \in Conns
  PROVE  /\ received[c] \in Seq(Messages) /\ Held(writing[c]) \in Seq(Messages)
         /\ msgs[c] \in Seq(Messages) /\ Held(sending[c]) \in Seq(Messages)
         /\ inbox[c] \in Seq(Messages) /\ wire[c] \in Seq(Messages)
         /\ Backlog(c) \in Seq(Messages) /\ Pipeline(c) \in Seq(Messages)
<1>1. /\ received[c] \in Seq(Messages) /\ msgs[c] \in Seq(Messages)
      /\ inbox[c] \in Seq(Messages) /\ wire[c] \in Seq(Messages)
      /\ writing[c] \in 0..MaxPublished /\ sending[c] \in 0..MaxPublished
  BY DEF TypeInv, DeliveryTypeOK
<1>2. \A m \in 0..MaxPublished : Held(m) \in Seq(Messages)
  <2>1. \A m \in 0..MaxPublished : m # 0 => m \in Messages
    BY DeliveryAssumption DEF Messages
  <2>2. \A m : Held(m) = IF m = 0 THEN <<>> ELSE <<m>>
    BY DEF Held
  <2> QED
    BY <2>1, <2>2, Concatenation, <1>1
<1> QED
  BY <1>1, <1>2, Concatenation DEF Pipeline, Backlog

\* How the two stretches on the side of Redis change together.
LEMMA BacklogMoves ==
  ASSUME TypeInv, NEW c \in Conns
  PROVE  /\ inbox'[c] = inbox[c] /\ wire'[c] = wire[c] => Backlog(c)' = Backlog(c)
         /\ inbox'[c] = <<>> /\ wire'[c] = <<>> => Backlog(c)' = <<>>
         /\ inbox'[c] = inbox[c] /\ wire'[c] = <<>> => Backlog(c)' = inbox[c]
         /\ \A m \in Messages :
              inbox'[c] = inbox[c] /\ wire'[c] = Append(wire[c], m)
                => Backlog(c)' = Append(Backlog(c), m)
<1> DEFINE i == inbox[c]  w == wire[c]
<1>1. i \in Seq(Messages) /\ w \in Seq(Messages)
  BY PartsAreSequences
<1>2. <<>> \o <<>> = <<>> /\ i \o <<>> = i
  BY <1>1, Concatenation
<1>3. ASSUME NEW m \in Messages PROVE i \o Append(w, m) = Append(i \o w, m)
  <2>1. /\ Append(w, m) = w \o <<m>> /\ Append(i \o w, m) = i \o w \o <<m>>
        /\ i \o w \o <<m>> = i \o (w \o <<m>>)
    BY <1>1, Concatenation
  <2> QED
    BY <2>1
<1> QED
  BY <1>2, <1>3 DEF Backlog

\* Receive: what go-redis reads is the next of what Redis sent.
LEMMA ReceiveKeeps ==
  ASSUME TypeInv, NEW c \in Conns, wire[c] # <<>>,
         inbox'[c] = Append(inbox[c], Head(wire[c])), wire'[c] = Tail(wire[c])
  PROVE  Backlog(c)' = Backlog(c)
<1> DEFINE i == inbox[c]  h == <<Head(wire[c])>>  t == Tail(wire[c])
<1>1. i \in Seq(Messages) /\ wire[c] = h \o t /\ h \in Seq(Messages) /\ t \in Seq(Messages)
      /\ inbox'[c] = i \o h
  BY PartsAreSequences, HeadAndTail, Concatenation
<1>2. Backlog(c) = i \o (h \o t) /\ Backlog(c)' = i \o h \o t
  BY <1>1 DEF Backlog
<1> HIDE DEF i, h, t
<1> QED
  BY <1>1, <1>2, Concatenation

\* ForwarderTake: the head of go-redis's channel is the head of all that waits.
LEMMA TakesOldest ==
  ASSUME TypeInv, NEW c \in Conns, inbox[c] # <<>>
  PROVE  /\ Backlog(c) # <<>> /\ Head(Backlog(c)) = Head(inbox[c])
         /\ inbox'[c] = Tail(inbox[c]) /\ wire'[c] = wire[c] => Backlog(c)' = Tail(Backlog(c))
<1> DEFINE i == inbox[c]  w == wire[c]
<1> DEFINE h == Head(i)  t == Tail(i)
<1>1. /\ w \in Seq(Messages) /\ h \in Messages /\ t \in Seq(Messages)
      /\ i = <<h>> \o t /\ <<h>> \in Seq(Messages)
  BY PartsAreSequences, HeadAndTail, Concatenation
<1>2. Backlog(c) = <<h>> \o t \o w
  BY <1>1 DEF Backlog
<1>3. inbox'[c] = t /\ wire'[c] = w => Backlog(c)' = t \o w
  BY DEF Backlog
<1> HIDE DEF i, w, h, t
<1>4. <<h>> \o t \o w = <<h>> \o (t \o w) /\ t \o w \in Seq(Messages)
  BY <1>1, Concatenation
<1> DEFINE u == t \o w
<1>5. Backlog(c) = <<h>> \o u /\ u \in Seq(Messages)
  BY <1>2, <1>4
<1> HIDE DEF u
<1>6. <<h>> \o u # <<>> /\ Head(<<h>> \o u) = h /\ Tail(<<h>> \o u) = u
  BY <1>1, <1>5
<1> QED
  BY <1>3, <1>5, <1>6 DEF i, w, h, t, u

\* The step leaves the pipeline of c as it is; it drops the stretch b from it; it adds
\* message m at its end.
Keeps(c) == Pipeline(c)' = Pipeline(c)
Drops(c, b) ==
  \E a, u \in Seq(Messages) : Pipeline(c) = a \o b \o u /\ Pipeline(c)' = a \o u
Adds(c, m) == Pipeline(c)' = Append(Pipeline(c), m)

\* Only the parts of the pipeline matter.
LEMMA SameParts ==
  ASSUME NEW c, received'[c] = received[c], writing'[c] = writing[c], msgs'[c] = msgs[c],
         sending'[c] = sending[c], Backlog(c)' = Backlog(c)
  PROVE  Keeps(c)
  BY DEF Keeps, Pipeline, Held

\* The handler gives up the message it was writing, or the client is gone.
LEMMA WritingDropped ==
  ASSUME TypeInv, NEW c \in Conns, received'[c] = received[c], writing'[c] = 0,
         msgs'[c] = msgs[c], sending'[c] = sending[c], Backlog(c)' = Backlog(c)
  PROVE  Drops(c, Held(writing[c]))
<1> DEFINE r == received[c]  w == Held(writing[c])  q == msgs[c]  f == Held(sending[c])
           i == Backlog(c)
<1>1. /\ r \in Seq(Messages) /\ w \in Seq(Messages) /\ q \in Seq(Messages)
      /\ f \in Seq(Messages) /\ i \in Seq(Messages)
  BY PartsAreSequences
<1>2. /\ Pipeline(c) = Cat(Cat(Cat(Cat(r, w), q), f), i)
      /\ Pipeline(c)' = Cat(Cat(Cat(Cat(r, <<>>), q), f), i)
  BY DEF Pipeline, Held, Cat
<1> DEFINE u == Cat(Cat(q, f), i)
<1>3. Cat(r, w) \in Seq(Messages) /\ Cat(r, <<>>) = r /\ u \in Seq(Messages)
  BY <1>1, Concatenation DEF Cat
<1> HIDE DEF r, w, q, f, i
<1>4. Pipeline(c) = Cat(Cat(r, w), u) /\ Pipeline(c)' = Cat(r, u)
  BY <1>1, <1>2, <1>3, Regroup
<1> HIDE DEF u
<1>5. Pipeline(c) = r \o w \o u /\ Pipeline(c)' = r \o u
  BY <1>4 DEF Cat
<1>6. Drops(c, w)
  BY <1>1, <1>3, <1>5 DEF Drops
<1> QED
  BY <1>6 DEF w

\* HandlerTake.
LEMMA TakeKeeps ==
  ASSUME TypeInv, NEW c \in Conns, writing[c] = 0, msgs[c] # <<>>,
         received'[c] = received[c], writing'[c] = Head(msgs[c]), msgs'[c] = Tail(msgs[c]),
         sending'[c] = sending[c], Backlog(c)' = Backlog(c)
  PROVE  Keeps(c)
<1> DEFINE r == received[c]  h == <<Head(msgs[c])>>  t == Tail(msgs[c])
           f == Held(sending[c])  i == Backlog(c)
<1>1. r \in Seq(Messages)
  BY PartsAreSequences
<1>2. msgs[c] = h \o t /\ h \in Seq(Messages) /\ t \in Seq(Messages) /\ Head(msgs[c]) # 0
  <2>1. Head(msgs[c]) \in Messages /\ t \in Seq(Messages) /\ msgs[c] = h \o t
    BY PartsAreSequences, HeadAndTail
  <2> QED
    BY <2>1, DeliveryAssumption, Concatenation DEF Messages
<1>3. Pipeline(c) = r \o <<>> \o msgs[c] \o f \o i /\ Pipeline(c)' = r \o h \o t \o f \o i
  BY <1>2 DEF Pipeline, Held
<1> HIDE DEF r, h, t, f, i
<1>4. r \o <<>> = r /\ r \o h \o t = r \o (h \o t)
  BY <1>1, <1>2, Concatenation
<1> QED
  BY <1>2, <1>3, <1>4 DEF Keeps

\* A write that succeeds.
LEMMA WriteKeeps ==
  ASSUME TypeInv, NEW c \in Conns, writing[c] # 0,
         received'[c] = Append(received[c], writing[c]), writing'[c] = 0,
         msgs'[c] = msgs[c], sending'[c] = sending[c], Backlog(c)' = Backlog(c)
  PROVE  Keeps(c)
<1> DEFINE r == received[c]  w == <<writing[c]>>
<1>1. r \in Seq(Messages) /\ writing[c] \in Messages
  BY PartsAreSequences, DeliveryAssumption DEF TypeInv, DeliveryTypeOK, Messages
<1>2. received'[c] = r \o w /\ r \o w \in Seq(Messages)
  BY <1>1, Concatenation
<1>3. /\ Pipeline(c) = r \o w \o msgs[c] \o Held(sending[c]) \o Backlog(c)
      /\ Pipeline(c)' = (r \o w) \o <<>> \o msgs[c] \o Held(sending[c]) \o Backlog(c)
  BY <1>2 DEF Pipeline, Held
<1> HIDE DEF r, w
<1>4. (r \o w) \o <<>> = r \o w
  BY <1>2, Concatenation
<1> QED
  BY <1>3, <1>4 DEF Keeps

\* ForwarderReturn.
LEMMA ReturnDrops ==
  ASSUME TypeInv, NEW c \in Conns, received'[c] = received[c], writing'[c] = writing[c],
         msgs'[c] = msgs[c], sending'[c] = 0, Backlog(c)' = <<>>
  PROVE  Drops(c, Held(sending[c]) \o Backlog(c))
<1> DEFINE a == received[c] \o Held(writing[c]) \o msgs[c]  f == Held(sending[c])  i == Backlog(c)
<1>1. a \in Seq(Messages) /\ f \in Seq(Messages) /\ i \in Seq(Messages) /\ <<>> \in Seq(Messages)
  BY PartsAreSequences, Concatenation
<1>2. Pipeline(c) = a \o f \o i /\ Pipeline(c)' = a \o <<>> \o <<>>
  BY DEF Pipeline, Held
<1> HIDE DEF a, f, i
<1>3. a \o f \o i = a \o (f \o i) /\ a \o <<>> = a /\ a \o f \o i \in Seq(Messages)
  BY <1>1, Concatenation
<1>4. a \o f \o i \o <<>> = a \o f \o i
  BY <1>3, Concatenation
<1>5. Drops(c, f \o i)
  BY <1>1, <1>2, <1>3, <1>4 DEF Drops
<1> QED
  BY <1>5 DEF f, i

\* ForwarderTake: a Message is kept, anything else dropped.
LEMMA ForwarderTakes ==
  ASSUME TypeInv, NEW c \in Conns, sending[c] = 0, Backlog(c) # <<>>,
         received'[c] = received[c], writing'[c] = writing[c], msgs'[c] = msgs[c],
         sending'[c] \in {0, Head(Backlog(c))}, Backlog(c)' = Tail(Backlog(c))
  PROVE  IF sending'[c] = 0 THEN Drops(c, <<Head(Backlog(c))>>) ELSE Keeps(c)
<1> DEFINE a == received[c] \o Held(writing[c]) \o msgs[c]  h == <<Head(Backlog(c))>>
           t == Tail(Backlog(c))
<1>1. a \in Seq(Messages)
  BY PartsAreSequences, Concatenation
<1>2. Backlog(c) = h \o t /\ h \in Seq(Messages) /\ t \in Seq(Messages) /\ Head(Backlog(c)) # 0
  <2>1. Head(Backlog(c)) \in Messages /\ t \in Seq(Messages) /\ Backlog(c) = h \o t
    BY PartsAreSequences, HeadAndTail
  <2> QED
    BY <2>1, DeliveryAssumption, Concatenation DEF Messages
<1>3. /\ Pipeline(c) = a \o <<>> \o Backlog(c)
      /\ Pipeline(c)' = a \o (IF sending'[c] = 0 THEN <<>> ELSE h) \o t
  BY <1>2 DEF Pipeline, Held
<1> HIDE DEF a, h, t
<1>4. a \o <<>> = a /\ a \o h \o t = a \o (h \o t)
  BY <1>1, <1>2, Concatenation
<1>5. CASE sending'[c] = 0
  <2>1. Pipeline(c) = a \o h \o t /\ Pipeline(c)' = a \o t
    BY <1>2, <1>3, <1>4, <1>5
  <2>2. Drops(c, h)
    BY <1>1, <1>2, <2>1 DEF Drops
  <2> QED
    BY <1>5, <2>2 DEF h
<1>6. CASE sending'[c] # 0
  BY <1>2, <1>3, <1>4, <1>6 DEF Keeps
<1> QED
  BY <1>5, <1>6

\* ForwarderSend.
LEMMA SendKeeps ==
  ASSUME TypeInv, NEW c \in Conns, sending[c] # 0,
         received'[c] = received[c], writing'[c] = writing[c],
         msgs'[c] = Append(msgs[c], sending[c]), sending'[c] = 0, Backlog(c)' = Backlog(c)
  PROVE  Keeps(c)
<1> DEFINE a == received[c] \o Held(writing[c])  q == msgs[c]  f == <<sending[c]>>
<1>1. a \in Seq(Messages) /\ q \in Seq(Messages) /\ sending[c] \in Messages
  <2>1. sending[c] \in Messages
    BY DeliveryAssumption DEF TypeInv, DeliveryTypeOK, Messages
  <2> QED
    BY <2>1, PartsAreSequences, Concatenation
<1>2. f \in Seq(Messages) /\ msgs'[c] = q \o f
  BY <1>1, Concatenation
<1>3. Pipeline(c) = a \o q \o f \o Backlog(c) /\ Pipeline(c)' = a \o (q \o f) \o <<>> \o Backlog(c)
  BY <1>2 DEF Pipeline, Held
<1> HIDE DEF a, q, f
<1>4. a \o q \o f = a \o (q \o f) /\ a \o (q \o f) \in Seq(Messages)
  BY <1>1, <1>2, Concatenation
<1>5. a \o (q \o f) \o <<>> = a \o (q \o f)
  BY <1>4, Concatenation
<1> QED
  BY <1>3, <1>4, <1>5 DEF Keeps

\* Discard.
LEMMA DiscardDrops ==
  ASSUME TypeInv, NEW c \in Conns, NEW n \in 1..Len(inbox[c]),
         received'[c] = received[c], writing'[c] = writing[c], msgs'[c] = msgs[c],
         sending'[c] = sending[c], inbox'[c] = RemoveAt(inbox[c], n), wire'[c] = wire[c]
  PROVE  Drops(c, <<inbox[c][n]>>)
<1> DEFINE a == received[c] \o Held(writing[c]) \o msgs[c] \o Held(sending[c])  i == inbox[c]
           f == SubSeq(i, 1, n - 1)  x == <<i[n]>>  t == SubSeq(i, n + 1, Len(i))  w == wire[c]
<1>1. a \in Seq(Messages) /\ i \in Seq(Messages) /\ w \in Seq(Messages)
  BY PartsAreSequences, Concatenation
<1>2. Pipeline(c) = Cat(a, Cat(i, w)) /\ Pipeline(c)' = Cat(a, Cat(Cat(f, t), w))
  <2>1. Backlog(c) = i \o w /\ Backlog(c)' = f \o t \o w
    BY DEF Backlog, RemoveAt
  <2>2. Pipeline(c) = a \o Backlog(c) /\ Pipeline(c)' = a \o Backlog(c)'
    BY DEF Pipeline, Held
  <2> HIDE DEF a, i, f, t, w
  <2> QED
    BY <2>1, <2>2 DEF Cat
<1> HIDE DEF a, w
<1>3. f \in Seq(Messages) /\ x \in Seq(Messages) /\ t \in Seq(Messages)
  BY <1>1
<1>4. i = Cat(Cat(f, x), t)
  <2>1. 1 \in 1..Len(i) /\ n \in 1..Len(i)
    BY <1>1
  <2>2. SubSeq(i, 1, n) = f \o x
    BY ONLY <1>1, <2>1, SubSeqRecursiveSecond
  <2>3. SubSeq(i, 1, Len(i)) = i
    BY ONLY <1>1, SubSeqFull
  <2>4. SubSeq(i, 1, n) \o t = SubSeq(i, 1, Len(i))
    BY <1>1, ConcatAdjacentSubSeq
  <2> QED
    BY <2>2, <2>3, <2>4 DEF Cat
<1> HIDE DEF i, f, x, t
<1>5. /\ Cat(i, w) = Cat(f, Cat(x, Cat(t, w))) /\ Cat(Cat(f, t), w) = Cat(f, Cat(t, w))
      /\ Cat(t, w) \in Seq(Messages) /\ Cat(a, f) \in Seq(Messages)
  BY <1>1, <1>3, <1>4, CatAssociates
<1>6. /\ Cat(a, Cat(f, Cat(x, Cat(t, w)))) = Cat(Cat(Cat(a, f), x), Cat(t, w))
      /\ Cat(a, Cat(f, Cat(t, w))) = Cat(Cat(a, f), Cat(t, w))
  BY <1>1, <1>3, <1>5, CatAssociates
<1> DEFINE g == Cat(a, f)  u == Cat(t, w)
<1>7. Pipeline(c) = Cat(Cat(g, x), u) /\ Pipeline(c)' = Cat(g, u)
  BY <1>2, <1>5, <1>6
<1> HIDE DEF g, u
<1>8. Pipeline(c) = g \o x \o u /\ Pipeline(c)' = g \o u
  BY <1>7 DEF Cat
<1>9. Drops(c, x)
  BY <1>5, <1>8 DEF Drops, g, u
<1> QED
  BY <1>9 DEF i, x

\* Reconnect and CloseChannel.
LEMMA UnreadDrops ==
  ASSUME TypeInv, NEW c \in Conns,
         received'[c] = received[c], writing'[c] = writing[c], msgs'[c] = msgs[c],
         sending'[c] = sending[c], inbox'[c] = inbox[c], wire'[c] = <<>>
  PROVE  Drops(c, wire[c])
<1> DEFINE a == received[c] \o Held(writing[c]) \o msgs[c] \o Held(sending[c])  i == inbox[c]
           w == wire[c]
<1>1. a \in Seq(Messages) /\ i \in Seq(Messages) /\ w \in Seq(Messages)
  BY PartsAreSequences, Concatenation
<1>2. Backlog(c)' = i /\ Backlog(c) = i \o w
  BY BacklogMoves DEF Backlog
<1>3. Pipeline(c) = a \o (i \o w) /\ Pipeline(c)' = a \o i
  BY <1>2 DEF Pipeline, Held
<1> HIDE DEF a, i, w
<1>4. a \o (i \o w) = a \o i \o w /\ a \o i \in Seq(Messages)
  BY <1>1, Concatenation
<1>5. a \o i \o w \o <<>> = a \o i \o w /\ a \o i \o <<>> = a \o i
  BY <1>1, <1>4, Concatenation
<1>6. Drops(c, w)
  <2>1. Pipeline(c) = (a \o i) \o w \o <<>> /\ Pipeline(c)' = (a \o i) \o <<>>
    BY <1>3, <1>4, <1>5
  <2> QED
    BY <1>4, <2>1, Concatenation DEF Drops
<1> QED
  BY <1>6 DEF w

\* Publish.
LEMMA PublishAdds ==
  ASSUME TypeInv, NEW c \in Conns, NEW m \in Messages,
         received'[c] = received[c], writing'[c] = writing[c], msgs'[c] = msgs[c],
         sending'[c] = sending[c], Backlog(c)' = Append(Backlog(c), m)
  PROVE  Adds(c, m)
<1> DEFINE a == received[c] \o Held(writing[c]) \o msgs[c] \o Held(sending[c])  i == Backlog(c)
<1>1. a \in Seq(Messages) /\ i \in Seq(Messages) /\ <<m>> \in Seq(Messages)
  BY PartsAreSequences, Concatenation
<1>2. Pipeline(c) = a \o i /\ Pipeline(c)' = a \o Append(i, m)
  BY DEF Pipeline, Held
<1> HIDE DEF a, i
<1>3. Append(i, m) = i \o <<m>> /\ a \o i \in Seq(Messages) /\ a \o i \o <<m>> = a \o (i \o <<m>>)
  BY <1>1, Concatenation
<1>4. Append(a \o i, m) = a \o i \o <<m>>
  BY <1>3, Concatenation
<1> QED
  BY <1>2, <1>3, <1>4 DEF Adds

\* Connection c is one that must not miss anything.
Expecting(c) == sub[c] = "on" /\ ctx[c] = "live" /\ client[c] = "connected" /\ ~hit[c]

\* What a step that publishes nothing does to connection c: it loses messages only if they
\* are none, or if the connection need not have them; and it starts to expect messages
\* only with a confirmed subscription.
QuietStep(c) ==
  /\ log' = log /\ who' = who
  /\ \/ Keeps(c)
     \/ \E b \in Seq(Messages) :
          Drops(c, b) /\ (Expecting(c)' => \A m \in ToSet(b) : ~log[m].valid)
  /\ Expecting(c)' => (Expecting(c) /\ onAt'[c] = onAt[c]) \/ onAt'[c] = Len(log)

\* What a step that publishes a message for citizen does to connection c.
LoudStep(c, citizen) ==
  /\ Len(log) < MaxPublished
  /\ \E valid \in BOOLEAN : log' = Append(log, [to |-> citizen, valid |-> valid])
  /\ who' = who /\ onAt' = onAt
  /\ Expecting(c)' = Expecting(c)
  /\ \/ Keeps(c) /\ ~(sub[c] = "on" /\ who[c] = citizen)
     \/ Adds(c, Len(log')) /\ who[c] = citizen

LEMMA PublishIsLoud ==
  ASSUME TypeInv, NEW citizen \in Citizens, Publish(citizen), NEW c \in Conns
  PROVE  LoudStep(c, citizen)
<1>1. /\ UNCHANGED <<who, onAt, received, writing, msgs, sending, inbox, sub, ctx, client, hit>>
      /\ Len(log) < MaxPublished
      /\ \E valid \in BOOLEAN : log' = Append(log, [to |-> citizen, valid |-> valid])
      /\ wire'[c] = IF sub[c] = "on" /\ who[c] = citizen
                    THEN Append(wire[c], Len(log'))
                    ELSE wire[c]
  BY DEF Publish, SubscribesTo, handler, forwarder, peer
<1>2. Len(log') \in Messages
  BY <1>1, DeliveryAssumption DEF Messages, TypeInv, DeliveryTypeOK
<1>3. Expecting(c)' = Expecting(c)
  BY <1>1 DEF Expecting
<1>4. CASE sub[c] = "on" /\ who[c] = citizen
  <2>1. Backlog(c)' = Append(Backlog(c), Len(log'))
    BY <1>1, <1>2, <1>4, BacklogMoves
  <2>2. Adds(c, Len(log'))
    BY <1>1, <1>2, <2>1, PublishAdds
  <2> QED
    BY <1>1, <1>3, <1>4, <2>2 DEF LoudStep
<1>5. CASE ~(sub[c] = "on" /\ who[c] = citizen)
  <2>1. Backlog(c)' = Backlog(c)
    BY <1>1, <1>5, BacklogMoves
  <2>2. Keeps(c)
    BY <1>1, <2>1, SameParts
  <2> QED
    BY <1>1, <1>3, <1>5, <2>2 DEF LoudStep
<1> QED
  BY <1>4, <1>5

LEMMA SameBacklog ==
  ASSUME NEW c, inbox'[c] = inbox[c], wire'[c] = wire[c]
  PROVE  Backlog(c)' = Backlog(c)
  BY DEF Backlog

\* A step of connection d as the other connections see it.
LEMMA OthersAreQuiet ==
  ASSUME TypeInv, NEW c \in Conns, NEW d \in Conns, d # c,
         \/ RedisStep(d) \/ Upgrade(d) \/ HandlerStep(d) \/ HandlerPing(d)
         \/ ReaderFail(d) \/ ForwarderStep(d) \/ Leave(d)
  PROVE  QuietStep(c)
<1> DEFINE Same == /\ UNCHANGED <<log, who>>
                   /\ received'[c] = received[c] /\ writing'[c] = writing[c] /\ msgs'[c] = msgs[c]
                   /\ sending'[c] = sending[c] /\ wire'[c] = wire[c] /\ inbox'[c] = inbox[c]
                   /\ sub'[c] = sub[c]
                   /\ ctx'[c] = ctx[c] /\ client'[c] = client[c] /\ hit'[c] = hit[c]
                   /\ onAt'[c] = onAt[c]
<1> USE DEF TypeInv, DeliveryTypeOK, handler, forwarder, peer, subscription
<1>1. CASE RedisStep(d)
  <2>1. Same
    BY <1>1 DEF RedisStep, Confirm, Receive, Reconnect, CloseChannel, LosesUnread, Discard
  <2> QED
    BY <2>1, SameBacklog, SameParts DEF QuietStep, Expecting
<1>2. CASE Upgrade(d) \/ HandlerPing(d) \/ ReaderFail(d) \/ Leave(d)
  <2>1. Same
    BY <1>2 DEF Upgrade, HandlerPing, HandlerReturn, ReaderFail, Leave
  <2> QED
    BY <2>1, SameBacklog, SameParts DEF QuietStep, Expecting
<1>3. CASE HandlerStep(d)
  <2>1. Same
    BY <1>3 DEF HandlerStep, Subscribe, HandlerDone, HandlerTake, HandlerEnd, HandlerWrite,
       HandlerReturn
  <2> QED
    BY <2>1, SameBacklog, SameParts DEF QuietStep, Expecting
<1>4. CASE ForwarderStep(d)
  <2>1. Same
    BY <1>4 DEF ForwarderStep, ForwarderDone, ForwarderEnd, ForwarderTake, ForwarderSend,
       ForwarderReturn, LosesUnread
  <2> QED
    BY <2>1, SameBacklog, SameParts DEF QuietStep, Expecting
<1> QED
  BY <1>1, <1>2, <1>3, <1>4

\* A step of Redis or go-redis on connection c.
LEMMA RedisIsQuiet ==
  ASSUME TypeInv, NEW c \in Conns, RedisStep(c)
  PROVE  QuietStep(c)
<1>1. UNCHANGED <<log, who, received, writing, msgs, sending, ctx, client>>
  BY DEF RedisStep, Confirm, Receive, Reconnect, CloseChannel, Discard, handler, forwarder, peer
<1>2. CASE Confirm(c)
  <2>1. Backlog(c)' = Backlog(c) /\ onAt'[c] = Len(log)
    BY <1>2 DEF Confirm, TypeInv, DeliveryTypeOK, Backlog
  <2> QED
    BY <1>1, <2>1, SameParts DEF QuietStep
<1>3. CASE Reconnect(c) \/ CloseChannel(c)
  <2>1. inbox'[c] = inbox[c] /\ wire'[c] = <<>> /\ sub'[c] # "on"
    BY <1>3 DEF Reconnect, CloseChannel, LosesUnread, TypeInv, DeliveryTypeOK
  <2>2. Drops(c, wire[c]) /\ wire[c] \in Seq(Messages)
    BY <1>1, <2>1, UnreadDrops, PartsAreSequences
  <2> QED
    BY <1>1, <2>1, <2>2 DEF QuietStep, Expecting
<1>4. CASE Discard(c)
  <2> DEFINE n == RedisBuffer + 1
  <2>1. /\ inbox'[c] = RemoveAt(inbox[c], n) /\ wire'[c] = wire[c] /\ hit'[c] = TRUE
        /\ n \in 1..Len(inbox[c])
    BY <1>4, DeliveryAssumption DEF Discard, TypeInv, DeliveryTypeOK
  <2>2. Drops(c, <<inbox[c][n]>>) /\ <<inbox[c][n]>> \in Seq(Messages)
    BY <1>1, <2>1, DiscardDrops, PartsAreSequences
  <2> QED
    BY <1>1, <2>1, <2>2 DEF QuietStep, Expecting
<1>5. CASE Receive(c)
  <2>1. /\ inbox'[c] = Append(inbox[c], Head(wire[c])) /\ wire'[c] = Tail(wire[c])
        /\ wire[c] # <<>> /\ UNCHANGED <<sub, hit, onAt>>
    BY <1>5 DEF Receive, TypeInv, DeliveryTypeOK
  <2> QED
    BY <1>1, <2>1, ReceiveKeeps, SameParts DEF QuietStep, Expecting
<1> QED
  BY <1>2, <1>3, <1>4, <1>5 DEF RedisStep

\* A return of the handler gives up the message it holds, and cancels the context.
LEMMA ReturnIsQuiet ==
  ASSUME TypeInv, NEW c \in Conns, HandlerReturn(c),
         UNCHANGED <<log, who, received, msgs, sending, wire, inbox>>
  PROVE  QuietStep(c)
<1>1. writing'[c] = 0 /\ ctx'[c] = "cancelled"
  BY DEF HandlerReturn, TypeInv, DeliveryTypeOK
<1>2. Drops(c, Held(writing[c])) /\ Held(writing[c]) \in Seq(Messages)
  BY <1>1, BacklogMoves, WritingDropped, PartsAreSequences
<1> QED
  BY <1>1, <1>2 DEF QuietStep, Expecting

LEMMA HandlerIsQuiet ==
  ASSUME TypeInv, NEW c \in Conns, Upgrade(c) \/ HandlerStep(c) \/ HandlerPing(c)
  PROVE  QuietStep(c)
<1> USE DEF forwarder, peer, subscription
<1>1. CASE Upgrade(c)
  <2>1. UNCHANGED <<log, who, received, writing, msgs, sending, wire, inbox, sub>> /\ hpc[c] = "start"
    BY <1>1 DEF Upgrade
  <2>2. sub'[c] # "on"
    BY <2>1 DEF TypeInv, HoldersAreBusy
  <2> QED
    BY <2>1, <2>2, BacklogMoves, SameParts DEF QuietStep, Expecting
<1>2. CASE Subscribe(c)
  <2>1. UNCHANGED <<log, who, received, writing, msgs, sending, wire, inbox>> /\ sub'[c] # "on"
    BY <1>2 DEF Subscribe, TypeInv, DeliveryTypeOK
  <2> QED
    BY <2>1, BacklogMoves, SameParts DEF QuietStep, Expecting
<1>3. CASE HandlerDone(c) \/ HandlerEnd(c) \/ HandlerPing(c)
  BY <1>3, ReturnIsQuiet DEF HandlerDone, HandlerEnd, HandlerPing
<1>4. CASE HandlerTake(c)
  <2>1. /\ UNCHANGED <<log, who, received, sending, wire, inbox, sub, ctx, client, hit, onAt>>
        /\ hpc[c] = "select" /\ msgs[c] # <<>>
        /\ writing'[c] = Head(msgs[c]) /\ msgs'[c] = Tail(msgs[c])
    BY <1>4 DEF HandlerTake, TypeInv, DeliveryTypeOK
  <2>2. writing[c] = 0
    BY <2>1 DEF TypeInv, HoldersAreBusy
  <2> QED
    BY <2>1, <2>2, BacklogMoves, TakeKeeps DEF QuietStep, Expecting
<1>5. CASE HandlerWrite(c) /\ received' # received
  <2>1. /\ UNCHANGED <<log, who, msgs, sending, wire, inbox, sub, ctx, client, hit, onAt>>
        /\ hpc[c] = "write" /\ received'[c] = Append(received[c], writing[c])
        /\ writing'[c] = 0
    BY <1>5 DEF HandlerWrite, TypeInv, DeliveryTypeOK
  <2>2. writing[c] # 0
    BY <2>1 DEF TypeInv, HoldersAreBusy
  <2> QED
    BY <2>1, <2>2, BacklogMoves, WriteKeeps DEF QuietStep, Expecting
<1>6. CASE HandlerWrite(c) /\ received' = received
  <2>1. UNCHANGED <<log, who, received, msgs, sending, wire, inbox, sub, client, onAt>>
    BY <1>6 DEF HandlerWrite
  <2>2. CASE HandlerReturn(c)
    BY <2>1, <2>2, ReturnIsQuiet
  <2>3. CASE ~HandlerReturn(c)
    <3>1. received' = IF client[c] = "connected"
                      THEN [received EXCEPT ![c] = Append(@, writing[c])]
                      ELSE received
      BY <1>6, <2>3 DEF HandlerWrite
    <3>2. hpc[c] = "write" /\ writing' = [writing EXCEPT ![c] = 0]
      BY <1>6, <2>3 DEF HandlerWrite
    <3>3. client[c] # "connected"
      <4>1. received[c] \in Seq(Messages) /\ writing[c] \in Messages
        BY <3>2, DeliveryAssumption DEF TypeInv, DeliveryTypeOK, HoldersAreBusy, Messages
      <4>2. Append(received[c], writing[c]) # received[c]
        BY <4>1
      <4> QED
        BY <2>1, <3>1, <4>2 DEF TypeInv, DeliveryTypeOK
    <3>4. writing'[c] = 0
      BY <3>2 DEF TypeInv, DeliveryTypeOK
    <3>5. Drops(c, Held(writing[c])) /\ Held(writing[c]) \in Seq(Messages)
      BY <2>1, <3>4, BacklogMoves, WritingDropped, PartsAreSequences
    <3> QED
      BY <2>1, <3>3, <3>5 DEF QuietStep, Expecting
  <2> QED
    BY <2>2, <2>3
<1> QED
  BY <1>1, <1>2, <1>3, <1>4, <1>5, <1>6 DEF HandlerStep

LEMMA ForwarderIsQuiet ==
  ASSUME TypeInv, NEW c \in Conns, ForwarderStep(c)
  PROVE  QuietStep(c)
<1> USE DEF handler, peer, subscription
<1>1. CASE ForwarderDone(c) \/ ForwarderEnd(c)
  <2>1. UNCHANGED <<log, who, received, writing, msgs>> /\ ForwarderReturn(c)
    BY <1>1 DEF ForwarderDone, ForwarderEnd, ForwarderReturn
  <2>2. sending'[c] = 0 /\ inbox'[c] = <<>> /\ wire'[c] = <<>> /\ sub'[c] = "closed"
    BY <2>1 DEF ForwarderReturn, LosesUnread, TypeInv, DeliveryTypeOK
  <2>3. /\ Drops(c, Held(sending[c]) \o Backlog(c))
        /\ Held(sending[c]) \o Backlog(c) \in Seq(Messages)
    BY <2>1, <2>2, BacklogMoves, ReturnDrops, PartsAreSequences, Concatenation
  <2> QED
    BY <2>1, <2>2, <2>3 DEF QuietStep, Expecting
<1>2. CASE ForwarderTake(c)
  <2> DEFINE m == Head(inbox[c])
  <2>1. /\ UNCHANGED <<log, who, received, writing, msgs, wire, sub, ctx, client, hit, onAt>>
        /\ fpc[c] = "select" /\ inbox[c] # <<>> /\ inbox'[c] = Tail(inbox[c])
        /\ sending'[c] = IF log[m].valid THEN m ELSE sending[c]
    BY <1>2 DEF ForwarderTake, TypeInv, DeliveryTypeOK
  <2>2. sending[c] = 0
    BY <2>1 DEF TypeInv, HoldersAreBusy
  <2>3. m \in Messages /\ m # 0 /\ <<m>> \in Seq(Messages) /\ ToSet(<<m>>) = {m}
    <3>1. inbox[c] \in Seq(Messages)
      BY PartsAreSequences
    <3>2. m \in Messages
      BY <2>1, <3>1
    <3> HIDE DEF m
    <3> QED
      BY <3>2, DeliveryAssumption DEF Messages, ToSet
  <2>4. IF sending'[c] = 0 THEN Drops(c, <<m>>) ELSE Keeps(c)
    <3>1. /\ Backlog(c) # <<>> /\ m = Head(Backlog(c)) /\ Backlog(c)' = Tail(Backlog(c))
          /\ sending'[c] \in {0, m}
      BY <2>1, <2>2, TakesOldest
    <3> HIDE DEF m
    <3> QED
      BY <2>1, <2>2, <3>1, ForwarderTakes
  <2> HIDE DEF m
  <2>5. CASE log[m].valid
    <3>1. Keeps(c)
      BY <2>1, <2>3, <2>4, <2>5
    <3> QED
      BY <2>1, <3>1 DEF QuietStep, Expecting
  <2>6. CASE ~log[m].valid
    <3>1. Drops(c, <<m>>)
      BY <2>1, <2>2, <2>4, <2>6
    <3>2. \A x \in ToSet(<<m>>) : ~log[x].valid
      BY <2>3, <2>6
    <3> QED
      BY <2>1, <2>3, <3>1, <3>2 DEF QuietStep, Expecting
  <2> QED
    BY <2>5, <2>6
<1>3. CASE ForwarderSend(c)
  <2>1. /\ UNCHANGED <<log, who, received, writing, wire, inbox, sub, ctx, client, hit, onAt>>
        /\ fpc[c] = "send" /\ msgs'[c] = Append(msgs[c], sending[c]) /\ sending'[c] = 0
    BY <1>3 DEF ForwarderSend, TypeInv, DeliveryTypeOK
  <2>2. sending[c] # 0
    BY <2>1 DEF TypeInv, HoldersAreBusy
  <2> QED
    BY <2>1, <2>2, BacklogMoves, SendKeeps DEF QuietStep, Expecting
<1> QED
  BY <1>1, <1>2, <1>3 DEF ForwarderStep

\* Every step is quiet for every connection, unless it publishes.
LEMMA QuietOrLoud ==
  ASSUME TypeInv, [Next]_vars, NEW c \in Conns
  PROVE  QuietStep(c) \/ \E citizen \in Citizens : LoudStep(c, citizen)
<1>1. ASSUME ReaderFail(c) \/ Leave(c) PROVE QuietStep(c)
  <2>1. /\ UNCHANGED <<log, who, received, writing, msgs, sending, wire, inbox, sub, onAt>>
        /\ \/ ctx'[c] = "cancelled"
           \/ client'[c] = "gone"
    BY <1>1 DEF ReaderFail, Leave, handler, forwarder, peer, subscription, TypeInv, DeliveryTypeOK
  <2> QED
    BY <2>1, BacklogMoves, SameParts DEF QuietStep, Expecting
<1>2. ASSUME UNCHANGED vars PROVE QuietStep(c)
  BY <1>2, BacklogMoves, SameParts DEF vars, QuietStep, Expecting
<1>3. ASSUME NEW d \in Conns,
             \/ RedisStep(d) \/ Upgrade(d) \/ HandlerStep(d) \/ HandlerPing(d)
             \/ ReaderFail(d) \/ ForwarderStep(d) \/ Leave(d)
      PROVE  QuietStep(c)
  <2>1. CASE d # c
    BY <1>3, <2>1, OthersAreQuiet
  <2>2. CASE d = c
    BY <1>1, <1>3, <2>2, RedisIsQuiet, HandlerIsQuiet, ForwarderIsQuiet
  <2> QED
    BY <2>1, <2>2
<1> QED
  BY <1>2, <1>3, PublishIsLoud DEF Next

-----------------------------------------------------------------------------
(* Order and completeness *)

IsMessage(m) == m \in 1..Len(log) /\ log[m].valid

InOrder(c) ==
  /\ Increasing(Pipeline(c))
  /\ \A m \in ToSet(Pipeline(c)) : m \in 1..Len(log) /\ log[m].to = who[c]

\* What has passed the forwarder are Messages.
Parsed(c) ==
  /\ \A i \in DOMAIN received[c] : IsMessage(received[c][i])
  /\ writing[c] # 0 => IsMessage(writing[c])
  /\ \A i \in DOMAIN msgs[c] : IsMessage(msgs[c][i])
  /\ sending[c] # 0 => IsMessage(sending[c])

Complete(c) == Expecting(c) => PublishedAfter(c, onAt[c]) \subseteq ToSet(Pipeline(c))

DeliveryInv == TypeInv /\ \A c \in Conns : InOrder(c) /\ Parsed(c) /\ Complete(c)

\* Publishing leaves the earlier messages as they are.
LEMMA LogGrows ==
  ASSUME TypeInv, NEW citizen \in Citizens, NEW valid \in BOOLEAN,
         log' = Append(log, [to |-> citizen, valid |-> valid])
  PROVE  /\ Len(log) \in Nat /\ Len(log') = Len(log) + 1
         /\ \A m \in 1..Len(log) : log'[m] = log[m]
         /\ log'[Len(log')].to = citizen
<1>1. log \in Seq([to: Citizens, valid: BOOLEAN])
  BY DEF TypeInv, DeliveryTypeOK
<1>2. [to |-> citizen, valid |-> valid] \in [to: Citizens, valid: BOOLEAN]
  OBVIOUS
<1> QED
  BY <1>1, <1>2, AppendProperties

LEMMA MessagesAreNumbers == Seq(Messages) \subseteq Seq(Nat)
<1>1. Messages \subseteq Nat
  BY DeliveryAssumption DEF Messages
<1> QED
  BY <1>1, SeqMonotonic

LEMMA OrderStep ==
  ASSUME TypeInv, TypeInv', [Next]_vars, NEW c \in Conns, InOrder(c), Complete(c)
  PROVE  InOrder(c)' /\ Complete(c)'
<1> DEFINE p == Pipeline(c)
<1>1. p \in Seq(Messages) /\ p \in Seq(Nat)
  BY PartsAreSequences, MessagesAreNumbers
<1>2. CASE QuietStep(c)
  <2>1. log' = log /\ who' = who
    BY <1>2 DEF QuietStep
  <2>2. /\ Increasing(p') /\ ToSet(p') \subseteq ToSet(p)
        /\ Expecting(c)' => \A m \in ToSet(p) : log[m].valid => m \in ToSet(p')
    <3>1. CASE Keeps(c)
      BY <3>1 DEF Keeps, InOrder
    <3>2. ASSUME NEW b \in Seq(Messages), Drops(c, b),
                 Expecting(c)' => \A m \in ToSet(b) : ~log[m].valid
          PROVE  /\ Increasing(p') /\ ToSet(p') \subseteq ToSet(p)
                 /\ Expecting(c)' => \A m \in ToSet(p) : log[m].valid => m \in ToSet(p')
      <4>1. PICK a \in Seq(Messages), u \in Seq(Messages) : p = a \o b \o u /\ p' = a \o u
        BY <3>2 DEF Drops
      <4>2. a \in Seq(Nat) /\ b \in Seq(Nat) /\ u \in Seq(Nat) /\ Increasing(a \o b \o u)
        BY <4>1, MessagesAreNumbers DEF InOrder
      <4>3. Increasing(a \o u) /\ ToSet(a \o b \o u) = ToSet(a \o u) \cup ToSet(b)
        BY <4>2, DropIncreasing
      <4>4. Increasing(p') /\ ToSet(p) = ToSet(p') \cup ToSet(b)
        BY <4>1, <4>3
      <4> QED
        BY <3>2, <4>4
    <3> QED
      BY <1>2, <3>1, <3>2 DEF QuietStep
  <2>3. InOrder(c)'
    BY <2>1, <2>2 DEF InOrder
  <2>4. ASSUME Expecting(c)' PROVE PublishedAfter(c, onAt[c])' \subseteq ToSet(p')
    <3>1. CASE Expecting(c) /\ onAt'[c] = onAt[c]
      <4>1. PublishedAfter(c, onAt[c])' = PublishedAfter(c, onAt[c])
        BY <2>1, <3>1 DEF PublishedAfter
      <4>2. \A m \in PublishedAfter(c, onAt[c]) : m \in ToSet(p) /\ log[m].valid
        BY <3>1 DEF Complete, PublishedAfter
      <4> QED
        BY <2>2, <2>4, <4>1, <4>2
    <3>2. CASE onAt'[c] = Len(log)
      <4>1. Len(log) \in Nat
        BY DEF TypeInv, DeliveryTypeOK
      <4>2. PublishedAfter(c, onAt[c])' = {}
        BY <2>1, <3>2, <4>1 DEF PublishedAfter
      <4> QED
        BY <4>2
    <3> QED
      BY <1>2, <2>4, <3>1, <3>2 DEF QuietStep
  <2> QED
    BY <2>3, <2>4 DEF Complete
<1>3. ASSUME NEW citizen \in Citizens, LoudStep(c, citizen) PROVE InOrder(c)' /\ Complete(c)'
  <2> DEFINE n == Len(log')
  <2>1. PICK valid \in BOOLEAN : log' = Append(log, [to |-> citizen, valid |-> valid])
    BY <1>3 DEF LoudStep
  <2>2. /\ Len(log) \in Nat /\ n = Len(log) + 1 /\ log'[n].to = citizen
        /\ \A m \in 1..Len(log) : log'[m] = log[m]
    BY <2>1, LogGrows
  <2>3. who' = who /\ onAt' = onAt /\ Expecting(c)' = Expecting(c)
    BY <1>3 DEF LoudStep
  <2>4. \A m \in ToSet(p) : m \in 1..Len(log) /\ m < n /\ log'[m].to = who'[c]
    BY <2>2, <2>3 DEF InOrder
  <2> HIDE DEF n
  <2>5. PublishedAfter(c, onAt[c])' \subseteq PublishedAfter(c, onAt[c]) \cup {n}
    BY <2>2, <2>3 DEF PublishedAfter, n
  <2>6. CASE Adds(c, n) /\ who[c] = citizen
    <3>1. p' = Append(p, n) /\ n \in Nat
      BY <2>2, <2>6 DEF Adds
    <3>2. Increasing(p') /\ ToSet(p') = ToSet(p) \cup {n}
      BY <1>1, <2>4, <3>1, AppendIncreasing DEF InOrder
    <3>3. InOrder(c)'
      <4>1. \A m \in ToSet(p') : m \in 1..n /\ log'[m].to = who'[c]
        BY <2>2, <2>3, <2>4, <2>6, <3>2
      <4> QED
        BY <3>2, <4>1 DEF InOrder, n
    <3>4. Complete(c)'
      BY <2>3, <2>5, <3>2 DEF Complete
    <3> QED
      BY <3>3, <3>4
  <2>7. CASE Keeps(c) /\ ~(sub[c] = "on" /\ who[c] = citizen)
    <3>1. p' = p
      BY <2>7 DEF Keeps
    <3>2. InOrder(c)'
      <4>1. \A m \in ToSet(p') : m \in 1..n /\ log'[m].to = who'[c]
        BY <2>2, <2>4, <3>1
      <4> QED
        BY <3>1, <4>1 DEF InOrder, n
    <3>3. ASSUME Expecting(c) PROVE n \notin PublishedAfter(c, onAt[c])'
      BY <2>2, <2>3, <2>7, <3>3 DEF PublishedAfter, Expecting, n
    <3>4. Complete(c)'
      BY <2>3, <2>5, <3>1, <3>3 DEF Complete
    <3> QED
      BY <3>2, <3>4
  <2> QED
    BY <1>3, <2>6, <2>7 DEF LoudStep, n
<1> QED
  BY <1>2, <1>3, QuietOrLoud

LEMMA AppendElements ==
  ASSUME NEW S, NEW s \in Seq(S), NEW x \in S, NEW i \in DOMAIN Append(s, x)
  PROVE  \/ i \in DOMAIN s /\ Append(s, x)[i] = s[i]
         \/ Append(s, x)[i] = x
  BY AppendProperties

\* What waits for the forwarder was published.
LEMMA InboxPublished ==
  ASSUME TypeInv, NEW c \in Conns, InOrder(c), inbox[c] # <<>>
  PROVE  Head(inbox[c]) \in 1..Len(log)
<1> DEFINE a == received[c] \o Held(writing[c]) \o msgs[c] \o Held(sending[c])
<1>1. a \in Seq(Messages) /\ Backlog(c) \in Seq(Messages)
  BY PartsAreSequences, Concatenation
<1>2. Pipeline(c) = a \o Backlog(c)
  BY DEF Pipeline
<1> HIDE DEF a
<1>3. ToSet(Pipeline(c)) = ToSet(a) \cup ToSet(Backlog(c))
  BY <1>1, <1>2, ConcatElements
<1>4. Head(inbox[c]) \in ToSet(Backlog(c))
  BY <1>1, TakesOldest DEF ToSet
<1> QED
  BY <1>3, <1>4 DEF InOrder

LEMMA ParsedStep ==
  ASSUME TypeInv, [Next]_vars, NEW c \in Conns, InOrder(c), Parsed(c)
  PROVE  Parsed(c)'
<1>1. ASSUME UNCHANGED <<log>>, received'[c] = received[c], writing'[c] \in {0, writing[c]},
             msgs'[c] = msgs[c], sending'[c] \in {0, sending[c]}
      PROVE  Parsed(c)'
  BY <1>1 DEF Parsed, IsMessage
<1>2. ASSUME NEW citizen \in Citizens, Publish(citizen) PROVE Parsed(c)'
  <2>1. UNCHANGED <<received, writing, msgs, sending>>
    BY <1>2 DEF Publish, handler, forwarder, peer
  <2>2. PICK valid \in BOOLEAN : log' = Append(log, [to |-> citizen, valid |-> valid])
    BY <1>2 DEF Publish
  <2>3. \A m : IsMessage(m) => IsMessage(m)'
    BY <2>2, LogGrows DEF IsMessage
  <2> QED
    BY <2>1, <2>3 DEF Parsed
<1> USE DEF TypeInv, DeliveryTypeOK, handler, forwarder, peer, subscription
<1>3. ASSUME NEW d \in Conns, RedisStep(d) \/ Upgrade(d) \/ ReaderFail(d) \/ Leave(d)
      PROVE  Parsed(c)'
  BY <1>1, <1>3 DEF RedisStep, Confirm, Receive, Reconnect, CloseChannel, Discard, Upgrade,
     ReaderFail, Leave
<1>4. ASSUME NEW d \in Conns,
             Subscribe(d) \/ HandlerDone(d) \/ HandlerEnd(d) \/ HandlerPing(d)
      PROVE  Parsed(c)'
  BY <1>1, <1>4 DEF Subscribe, HandlerDone, HandlerEnd, HandlerPing, HandlerReturn
<1>5. ASSUME NEW d \in Conns, ForwarderDone(d) \/ ForwarderEnd(d) PROVE Parsed(c)'
  BY <1>1, <1>5 DEF ForwarderDone, ForwarderEnd, ForwarderReturn
<1>6. ASSUME NEW d \in Conns, d # c, HandlerTake(d) \/ HandlerWrite(d) PROVE Parsed(c)'
  BY <1>1, <1>6 DEF HandlerTake, HandlerWrite, HandlerReturn
<1>7. ASSUME NEW d \in Conns, d # c, ForwarderTake(d) \/ ForwarderSend(d) PROVE Parsed(c)'
  BY <1>1, <1>7 DEF ForwarderTake, ForwarderSend
<1>8. ASSUME HandlerTake(c) PROVE Parsed(c)'
  <2>1. /\ UNCHANGED <<log, received, sending>> /\ msgs[c] # <<>> /\ msgs[c] \in Seq(Messages)
        /\ writing'[c] = Head(msgs[c]) /\ msgs'[c] = Tail(msgs[c])
    BY <1>8 DEF HandlerTake
  <2>2. IsMessage(Head(msgs[c])) /\ \A i \in DOMAIN Tail(msgs[c]) : IsMessage(Tail(msgs[c])[i])
    BY <2>1 DEF Parsed
  <2> QED
    BY <2>1, <2>2 DEF Parsed, IsMessage
<1>9. ASSUME HandlerWrite(c) PROVE Parsed(c)'
  <2>1. /\ UNCHANGED <<log, msgs, sending>> /\ writing'[c] = 0
        /\ received'[c] = received[c] \/ received'[c] = Append(received[c], writing[c])
    BY <1>9 DEF HandlerWrite, HandlerReturn
  <2>2. writing[c] # 0 /\ received[c] \in Seq(Messages) /\ writing[c] \in Messages
    BY <1>9, DeliveryAssumption DEF HandlerWrite, HoldersAreBusy, Messages
  <2>3. \A i \in DOMAIN Append(received[c], writing[c]) :
          IsMessage(Append(received[c], writing[c])[i])
    <3>1. \A i \in DOMAIN received[c] : IsMessage(received[c][i])
      BY DEF Parsed
    <3>2. IsMessage(writing[c])
      BY <2>2 DEF Parsed
    <3> QED
      BY <2>2, <3>1, <3>2, AppendElements
  <2>4. \A i \in DOMAIN received'[c] : IsMessage(received'[c][i])
    BY <2>1, <2>2, <2>3 DEF Parsed
  <2> QED
    BY <2>1, <2>4 DEF Parsed, IsMessage
<1>10. ASSUME ForwarderTake(c) PROVE Parsed(c)'
  <2>1. /\ UNCHANGED <<log, received, writing, msgs>> /\ inbox[c] # <<>>
        /\ sending'[c] = IF log[Head(inbox[c])].valid THEN Head(inbox[c]) ELSE sending[c]
    BY <1>10 DEF ForwarderTake
  <2>2. Head(inbox[c]) \in 1..Len(log)
    BY <2>1, InboxPublished
  <2> QED
    BY <2>1, <2>2 DEF Parsed, IsMessage
<1>11. ASSUME ForwarderSend(c) PROVE Parsed(c)'
  <2>1. /\ UNCHANGED <<log, received, writing>> /\ sending'[c] = 0
        /\ msgs'[c] = Append(msgs[c], sending[c])
    BY <1>11 DEF ForwarderSend
  <2>2. sending[c] # 0 /\ msgs[c] \in Seq(Messages) /\ sending[c] \in Messages
    BY <1>11, DeliveryAssumption DEF ForwarderSend, HoldersAreBusy, Messages
  <2>3. \A i \in DOMAIN msgs'[c] : IsMessage(msgs'[c][i])
    BY <2>1, <2>2 DEF Parsed
  <2> QED
    BY <2>1, <2>3 DEF Parsed, IsMessage
<1>12. ASSUME UNCHANGED vars PROVE Parsed(c)'
  BY <1>12 DEF vars, Parsed, IsMessage
<1> QED
  BY <1>2, <1>3, <1>4, <1>5, <1>6, <1>7, <1>8, <1>9, <1>10, <1>11, <1>12
     DEF Next, HandlerStep, ForwarderStep

LEMMA DeliveryInvariant == Spec => []DeliveryInv
<1>1. Init => DeliveryInv
  <2> SUFFICES ASSUME Init, NEW c \in Conns PROVE InOrder(c) /\ Parsed(c) /\ Complete(c)
    BY InitType DEF DeliveryInv
  <2>1. Pipeline(c) = <<>> \o <<>> \o <<>> \o <<>> \o (<<>> \o <<>>)
    BY DEF Init, Pipeline, Backlog, Held
  <2>2. <<>> \o <<>> = <<>>
    BY Concatenation
  <2>3. Pipeline(c) = <<>>
    BY <2>1, <2>2
  <2>4. ToSet(<<>>) = {} /\ Increasing(<<>>)
    BY DEF ToSet, Increasing
  <2> QED
    BY <2>3, <2>4 DEF Init, InOrder, Parsed, Complete, Expecting
<1>2. DeliveryInv /\ [Next]_vars => DeliveryInv'
  BY StepType, OrderStep, ParsedStep DEF DeliveryInv
<1> QED
  BY <1>1, <1>2, PTL DEF Spec

\* The part of DeliveredInOrder about the positions of the pipeline.
LEMMA OrderByPosition ==
  ASSUME NEW c \in Conns, InOrder(c)
  PROVE  /\ \A i, j \in DOMAIN Pipeline(c) : i < j => Pipeline(c)[i] < Pipeline(c)[j]
         /\ \A i \in DOMAIN Pipeline(c) : log[Pipeline(c)[i]].to = who[c]
  BY DEF InOrder, Increasing, ToSet

\* Whatever the capacity of the channels and whatever is dropped, remade or slow on the
\* way: a client gets messages for its own citizen only, in the order of publication and
\* none twice (subscriber.go:21-46, handler.go:66-98).
THEOREM MessagesInOrder == Spec => []DeliveredInOrder
<1>1. DeliveryInv => DeliveredInOrder
  BY OrderByPosition DEF DeliveryInv, DeliveredInOrder, Parsed, IsMessage
<1> QED
  BY <1>1, DeliveryInvariant, PTL

\* Whatever the capacity of the channels: a connection with a live subscription has,
\* received or on the way, exactly what was published for its citizen since Redis confirmed
\* the subscription (subscriber.go:25-46), unless a slow client made go-redis give up one.
THEOREM ConnectionsSkipNothing == Spec => []NothingSkipped
<1>1. ASSUME DeliveryInv, NEW c \in Conns, Expecting(c)
      PROVE  InPipelineAfter(c, onAt[c]) = PublishedAfter(c, onAt[c])
  <2>1. InOrder(c) /\ PublishedAfter(c, onAt[c]) \subseteq ToSet(Pipeline(c))
    BY <1>1 DEF DeliveryInv, Complete
  <2> QED
    BY <2>1 DEF InOrder, InPipelineAfter, PublishedAfter
<1>2. DeliveryInv => NothingSkipped
  BY <1>1 DEF NothingSkipped, Expecting
<1> QED
  BY <1>2, DeliveryInvariant, PTL
=============================================================================
