------------------------------ MODULE Realtime ------------------------------
(***************************************************************************)
(* The hub (internal/realtime/hub.go) between the SMTP sessions that       *)
(* publish to it and the WebSocket handlers that subscribe to it           *)
(* (handleMailboxWebSocket, httpapi/api.go).                               *)
(*                                                                         *)
(* Subscribe and Close take the hub's RWMutex for writing and are one      *)
(* action each.  Publish holds it for reading while it offers the mail to  *)
(* the subscriptions of an address one after the other, so several calls   *)
(* of Publish interleave.  As with sync.RWMutex, no reader gets in while a *)
(* writer waits.  Sending on a closed channel would be a panic that takes  *)
(* the process down.                                                       *)
(***************************************************************************)
EXTENDS Integers, Sequences, SequencesExt

CONSTANTS
    Addresses,
    Subs,          \* the WebSocket connections
    SubAddress,    \* SubAddress[s]: the address s subscribes to
    Calls,         \* the calls of Publish, each with a mail of its own
    CallAddress,   \* CallAddress[c]: the address c publishes to
    NoCall,        \* the handler holds no mail
    Capacity       \* of a subscription's channel: 16

ASSUME RealtimeAssumption ==
    /\ SubAddress \in [Subs -> Addresses]
    /\ CallAddress \in [Calls -> Addresses]
    /\ NoCall \notin Calls
    /\ Capacity \in Nat \ {0}

VARIABLES
    subscribers,  \* Hub.subscribers: the subscriptions of an address, by address
    channel,      \* Subscription.C: what is buffered in it
    closed,       \* the subscriptions whose channel is closed
    handler,      \* the handler of each connection: where it is, what it holds
    publish,      \* each call of Publish: where it is, whom it still has to offer to
    offered,      \* history: the mails offered to a subscription, in order
    missed,       \* history: the mails that found its channel full
    frames        \* history: the mails the browser was sent, in order

vars == <<subscribers, channel, closed, handler, publish, offered, missed, frames>>

-----------------------------------------------------------------------------
(* The hub's map and its lock.                                             *)

Subscribers(a) == IF a \in DOMAIN subscribers THEN subscribers[a] ELSE {}

Readers == {c \in Calls : publish[c].pc = "loop"}
Writers == {s \in Subs : handler[s].pc \in {"subscribe", "close"}}

\* Variant: the address keeps an empty set when its last subscription goes.
WithoutKeepingKey(s) ==
    [subscribers EXCEPT ![SubAddress[s]] = @ \ {s}]

\* The map with s in it, and without s: an address without subscriptions is no key.
With(s) ==
    [a \in DOMAIN subscribers \union {SubAddress[s]} |->
        IF a = SubAddress[s] THEN Subscribers(a) \union {s} ELSE subscribers[a]]

Without(s) ==
    LET rest == Subscribers(SubAddress[s]) \ {s}
    IN  [a \in DOMAIN subscribers \ (IF rest = {} THEN {SubAddress[s]} ELSE {}) |->
            subscribers[a] \ {s}]

-----------------------------------------------------------------------------

Init ==
    /\ subscribers = << >>
    /\ channel = [s \in Subs |-> << >>]
    /\ closed = {}
    /\ handler = [s \in Subs |-> [pc |-> "new", holding |-> NoCall]]
    /\ publish = [c \in Calls |-> [pc |-> "new", todo |-> {}, connected |-> {}]]
    /\ offered = [s \in Subs |-> << >>]
    /\ missed = [s \in Subs |-> {}]
    /\ frames = [s \in Subs |-> << >>]

\* The connections that are up: the browser believes it hears of every mail.
Connected == {s \in Subs : handler[s].pc \in {"select", "write"}}

-----------------------------------------------------------------------------
(* handleMailboxWebSocket.                                                 *)

\* A request passes the checks and comes to hub.Subscribe.
Connect(s) ==
    /\ handler[s].pc = "new"
    /\ handler' = [handler EXCEPT ![s].pc = "subscribe"]
    /\ UNCHANGED <<subscribers, channel, closed, publish, offered, missed, frames>>

\* Variant: the connection is upgraded first and subscribed afterwards.
UpgradeFirst(s) ==
    \/ /\ handler[s].pc = "subscribe"
       /\ handler' = [handler EXCEPT ![s].pc = "select"]
       /\ UNCHANGED <<subscribers, channel, closed, publish, offered, missed, frames>>
    \/ /\ handler[s].pc = "select" /\ s \notin Subscribers(SubAddress[s]) /\ Readers = {}
       /\ subscribers' = With(s)
       /\ UNCHANGED <<channel, closed, handler, publish, offered, missed, frames>>

\* hub.Subscribe.
Subscribe(s) ==
    /\ handler[s].pc = "subscribe" /\ Readers = {}
    /\ subscribers' = With(s)
    /\ handler' = [handler EXCEPT ![s].pc = "upgrade"]
    /\ UNCHANGED <<channel, closed, publish, offered, missed, frames>>

\* The handshake succeeds, or fails and the handler returns.
Upgrade(s) ==
    /\ handler[s].pc = "upgrade"
    /\ \E pc \in {"select", "close"} : handler' = [handler EXCEPT ![s].pc = pc]
    /\ UNCHANGED <<subscribers, channel, closed, publish, offered, missed, frames>>

\* select takes a mail from the channel ...
Receive(s) ==
    /\ handler[s].pc = "select" /\ channel[s] # << >>
    /\ handler' = [handler EXCEPT ![s] = [pc |-> "write", holding |-> Head(channel[s])]]
    /\ channel' = [channel EXCEPT ![s] = Tail(@)]
    /\ UNCHANGED <<subscribers, closed, publish, offered, missed, frames>>

\* Variant: the handler does not forget the mail it has sent.
WriteKeepingMail(s) ==
    /\ handler[s].pc = "write"
    /\ frames' = [frames EXCEPT ![s] = Append(@, handler[s].holding)]
    /\ handler' = [handler EXCEPT ![s].pc = "select"]
    /\ UNCHANGED <<subscribers, channel, closed, publish, offered, missed>>

\* ... and WriteJSON sends it, without a deadline: it may take for ever.
Write(s) ==
    /\ handler[s].pc = "write"
    /\ frames' = [frames EXCEPT ![s] = Append(@, handler[s].holding)]
    /\ handler' = [handler EXCEPT ![s] = [pc |-> "select", holding |-> NoCall]]
    /\ UNCHANGED <<subscribers, channel, closed, publish, offered, missed>>

\* The browser is gone (select sees it) or the write fails: the handler returns.
Leave(s) ==
    /\ handler[s].pc \in {"select", "write"}
    /\ handler' = [handler EXCEPT ![s] = [pc |-> "close", holding |-> NoCall]]
    /\ UNCHANGED <<subscribers, channel, closed, publish, offered, missed, frames>>

\* Variant: the channel is closed without waiting for the lock.
CloseUnlocked(s) ==
    /\ handler[s].pc = "close"
    /\ subscribers' = Without(s)
    /\ closed' = closed \union {s}
    /\ handler' = [handler EXCEPT ![s].pc = "closed"]
    /\ UNCHANGED <<channel, publish, offered, missed, frames>>

\* Subscription.Close, deferred by the handler.
Close(s) ==
    /\ handler[s].pc = "close" /\ Readers = {}
    /\ subscribers' = Without(s)
    /\ closed' = closed \union {s}
    /\ handler' = [handler EXCEPT ![s].pc = "closed"]
    /\ UNCHANGED <<channel, publish, offered, missed, frames>>

-----------------------------------------------------------------------------
(* Hub.Publish.                                                            *)

\* RLock: wait for the writers, then range over the subscriptions.
Lock(c) ==
    /\ publish[c].pc = "new" /\ Writers = {}
    /\ publish' = [publish EXCEPT ![c] = [pc |-> "loop", todo |-> Subscribers(CallAddress[c]),
                                          connected |-> Connected]]
    /\ UNCHANGED <<subscribers, channel, closed, handler, offered, missed, frames>>

\* Variant: the send waits for room in the channel.
OfferBlocking(c, s) ==
    /\ publish[c].pc = "loop" /\ s \in publish[c].todo
    /\ Len(channel[s]) < Capacity
    /\ offered' = [offered EXCEPT ![s] = Append(@, c)]
    /\ channel' = [channel EXCEPT ![s] = Append(@, c)]
    /\ publish' = [publish EXCEPT ![c].todo = @ \ {s}]
    /\ UNCHANGED <<subscribers, closed, handler, missed, frames>>

\* Variant: a full channel makes room by dropping what waited longest.
OfferDroppingOldest(c, s) ==
    /\ publish[c].pc = "loop" /\ s \in publish[c].todo
    /\ offered' = [offered EXCEPT ![s] = Append(@, c)]
    /\ channel' = [channel EXCEPT ![s] =
                     Append(IF Len(@) < Capacity THEN @ ELSE Tail(@), c)]
    /\ publish' = [publish EXCEPT ![c].todo = @ \ {s}]
    /\ UNCHANGED <<subscribers, closed, handler, missed, frames>>

\* The non-blocking send to one subscription: a full channel misses the mail.
Offer(c, s) ==
    /\ publish[c].pc = "loop" /\ s \in publish[c].todo
    /\ offered' = [offered EXCEPT ![s] = Append(@, c)]
    /\ IF Len(channel[s]) < Capacity
       THEN /\ channel' = [channel EXCEPT ![s] = Append(@, c)]
            /\ UNCHANGED missed
       ELSE /\ missed' = [missed EXCEPT ![s] = @ \union {c}]
            /\ UNCHANGED channel
    /\ publish' = [publish EXCEPT ![c].todo = @ \ {s}]
    /\ UNCHANGED <<subscribers, closed, handler, frames>>

\* RUnlock.
Unlock(c) ==
    /\ publish[c].pc = "loop" /\ publish[c].todo = {}
    /\ publish' = [publish EXCEPT ![c].pc = "done"]
    /\ UNCHANGED <<subscribers, channel, closed, handler, offered, missed, frames>>

-----------------------------------------------------------------------------

Handle(s) == Connect(s) \/ Upgrade(s) \/ Receive(s) \/ Write(s) \/ Leave(s)

Publish(c) == Lock(c) \/ (\E s \in Subs : Offer(c, s)) \/ Unlock(c)

Next ==
    \/ \E s \in Subs : Handle(s) \/ Subscribe(s) \/ Close(s)
    \/ \E c \in Calls : Publish(c)

Spec == Init /\ [][Next]_vars

\* A session that has started to publish goes on, and so does whoever can have
\* the lock.  No browser need ever read, so Write is not fair.
FairSpec ==
    /\ Spec
    /\ \A s \in Subs : WF_vars(Subscribe(s)) /\ WF_vars(Close(s))
    /\ \A c \in Calls : WF_vars(Publish(c))

-----------------------------------------------------------------------------
(* Properties.                                                             *)

\* Every variable keeps its type, and a handler holds a mail while it writes.
TypeOK ==
    /\ subscribers \in [DOMAIN subscribers -> SUBSET Subs] /\ DOMAIN subscribers \subseteq Addresses
    /\ channel \in [Subs -> Seq(Calls)]
    /\ closed \subseteq Subs
    /\ handler \in [Subs -> [pc : {"new", "subscribe", "upgrade", "select", "write", "close", "closed"},
                             holding : Calls \union {NoCall}]]
    /\ \A s \in Subs : handler[s].pc = "write" <=> handler[s].holding # NoCall
    /\ publish \in [Calls -> [pc : {"new", "loop", "done"}, todo : SUBSET Subs,
                              connected : SUBSET Subs]]
    /\ offered \in [Subs -> Seq(Calls)]
    /\ missed \in [Subs -> SUBSET Calls]
    /\ frames \in [Subs -> Seq(Calls)]

\* No call of Publish ever offers to a closed channel, which would be a panic:
\* whoever it still has to offer to is open, whoever leaves meanwhile
\* (hub.go:35-45 against hub.go:47-57).
NoSendOnClosed ==
    \A c \in Calls : publish[c].pc = "loop" => publish[c].todo \intersect closed = {}

\* Who has subscribed and not yet closed.
Registered == {s \in Subs : handler[s].pc \in {"upgrade", "select", "write", "close"}}

\* The hub knows exactly the connections that have subscribed and not yet
\* closed, each under its own address, and keeps nothing for other addresses
\* (hub.go:24-33, 47-57).
HubExact ==
    \A a \in Addresses :
        LET subs == {s \in Registered : SubAddress[s] = a}
        IN  IF subs = {} THEN a \notin DOMAIN subscribers
            ELSE a \in DOMAIN subscribers /\ subscribers[a] = subs

\* What the browser of s has been sent, and then what is on its way to it.
Pending(s) ==
    (IF handler[s].holding = NoCall THEN << >> ELSE <<handler[s].holding>>) \o channel[s]
Sent(s) == frames[s] \o Pending(s)

\* The elements of sent come in the order in which they are in all.
InOrderOf(sent, all) ==
    \A i, j \in DOMAIN sent : i < j =>
        \E k, l \in DOMAIN all : k < l /\ all[k] = sent[i] /\ all[l] = sent[j]

\* As long as a connection is up, its browser has been sent, or is going to be
\* sent, exactly the mails offered to it, in the order they were offered and
\* each once, except for those that found sixteen others waiting.
FifoExactlyOnce ==
    \A s \in Connected :
        /\ IsInjective(offered[s])
        /\ Range(Sent(s)) = Range(offered[s]) \ missed[s]
        /\ InOrderOf(Sent(s), offered[s])

\* Whoever was connected when a publication began, and still is when it ends,
\* was offered the mail: the handshake has no window in which mails are lost
\* (api.go:253-255).
HandshakeLosesNothing ==
    \A c \in Calls, s \in Subs :
        (publish[c].pc = "done" /\ s \in publish[c].connected \intersect Connected
          /\ SubAddress[s] = CallAddress[c])
            => \E i \in DOMAIN offered[s] : offered[s][i] = c

\* A publication ends although a browser may never read (hub.go:39-43).
PublishCompletes == \A c \in Calls : publish[c].pc = "loop" ~> publish[c].pc = "done"

\* A connection that is closing gets closed although mails keep coming in
\* (hub.go:47-57).
CloseCompletes == \A s \in Subs : handler[s].pc = "close" ~> s \in closed

=============================================================================
