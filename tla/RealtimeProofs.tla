---------------------------- MODULE RealtimeProofs ----------------------------
(***************************************************************************)
(* Proofs about Realtime, for any number of connections and publications   *)
(* and any capacity of the channels.                                       *)
(*                                                                         *)
(* A call of Publish works through a set of subscriptions it read when it  *)
(* got the lock.  NoSendOnClosed is not inductive by itself: that set must *)
(* be known to consist of registered subscriptions (LoopRegistered), which *)
(* needs the hub's map to be exact when the lock is taken (HubExact), and  *)
(* a closed channel to belong to a handler that is past Close.             *)
(*                                                                         *)
(* What is delivered rests on three more facts.  A mail is offered to a    *)
(* subscription only by a call that then has nothing more to offer it      *)
(* (OfferedOnce).  Whoever was connected when a call got the lock is in    *)
(* the set it works through, or has been offered the mail (OfferedToAll).  *)
(* And what was written, what the handler holds and what is buffered are,  *)
(* one after the other, what was offered and found room (SentInOrder).     *)
(***************************************************************************)
EXTENDS Realtime, SequenceTheorems, TLAPS

\* The closed channels are those of the handlers that have run Close.
ClosedExact == closed = {s \in Subs : handler[s].pc = "closed"}

\* Whoever a call still has to offer to has subscribed and not closed.
LoopRegistered == \A c \in Calls : publish[c].pc = "loop" => publish[c].todo \subseteq Registered

IInv == TypeOK /\ HubExact /\ ClosedExact /\ LoopRegistered

\* A mail is offered to a subscription once, by a call that is done with it.
OfferedOnce ==
    \A s \in Subs :
        /\ IsInjective(offered[s])
        /\ missed[s] \subseteq Range(offered[s])
        /\ \A c \in Range(offered[s]) : publish[c].pc # "new" /\ s \notin publish[c].todo

\* Who was connected when a call began has been offered its mail, or will be.
OfferedToAll ==
    \A c \in Calls :
        /\ publish[c].pc = "done" => publish[c].todo = {}
        /\ publish[c].pc # "new" =>
             \A s \in publish[c].connected : SubAddress[s] = CallAddress[c] =>
                 s \in publish[c].todo \/ c \in Range(offered[s])

\* Until its handler returns, whoever subscribed or will is sent what was
\* offered and found room, in that order.
SentInOrder ==
    \A s \in Subs : handler[s].pc \notin {"close", "closed"} =>
        /\ Range(Sent(s)) = Range(offered[s]) \ missed[s]
        /\ InOrderOf(Sent(s), offered[s])

DeliveryInv == IInv /\ OfferedOnce /\ OfferedToAll /\ SentInOrder

-----------------------------------------------------------------------------

LEMMA InitIInv == Init => IInv
<1> SUFFICES ASSUME Init PROVE IInv
  OBVIOUS
<1> USE DEF Init
<1>1. TypeOK
  <2>1. DOMAIN subscribers = {}
    OBVIOUS
  <2>2. << >> \in Seq(Calls)
    OBVIOUS
  <2> QED BY <2>1, <2>2 DEF TypeOK
<1>2. HubExact
  BY DEF HubExact, Registered
<1>3. ClosedExact /\ LoopRegistered
  BY DEF ClosedExact, LoopRegistered
<1> QED BY <1>1, <1>2, <1>3 DEF IInv

\* The types are preserved by every step.
LEMMA NextTypeOK == TypeOK /\ [Next]_vars => TypeOK'
<1> SUFFICES ASSUME TypeOK, [Next]_vars PROVE TypeOK'
  OBVIOUS
<1> USE DEF TypeOK
<1>1. ASSUME NEW s \in Subs, Connect(s) PROVE TypeOK'
  BY <1>1 DEF Connect
<1>2. ASSUME NEW s \in Subs, Subscribe(s) PROVE TypeOK'
  <2>1. SubAddress[s] \in Addresses
    BY RealtimeAssumption
  <2>2. \A a \in DOMAIN subscribers : subscribers[a] \in SUBSET Subs
    OBVIOUS
  <2>3. \A a : Subscribers(a) \in SUBSET Subs
    BY <2>2 DEF Subscribers
  <2>4. With(s) \in [DOMAIN subscribers \union {SubAddress[s]} -> SUBSET Subs]
    BY <2>2, <2>3 DEF With
  <2> QED BY <1>2, <2>1, <2>4 DEF Subscribe
<1>3. ASSUME NEW s \in Subs, Upgrade(s) PROVE TypeOK'
  BY <1>3 DEF Upgrade
<1>4. ASSUME NEW s \in Subs, Receive(s) PROVE TypeOK'
  <2>1. Head(channel[s]) \in Calls /\ Tail(channel[s]) \in Seq(Calls)
    BY <1>4 DEF Receive
  <2> QED BY <1>4, <2>1, RealtimeAssumption DEF Receive
<1>5. ASSUME NEW s \in Subs, Write(s) PROVE TypeOK'
  <2>1. handler[s].holding \in Calls
    BY <1>5 DEF Write
  <2>2. Append(frames[s], handler[s].holding) \in Seq(Calls)
    BY <2>1
  <2> QED BY <1>5, <2>2 DEF Write
<1>6. ASSUME NEW s \in Subs, Leave(s) PROVE TypeOK'
  BY <1>6 DEF Leave
<1>7. ASSUME NEW s \in Subs, Close(s) PROVE TypeOK'
  <2>1. \A a \in DOMAIN subscribers : subscribers[a] \in SUBSET Subs
    OBVIOUS
  <2>2. PICK gone : Without(s) = [a \in DOMAIN subscribers \ gone |-> subscribers[a] \ {s}]
    BY DEF Without
  <2>3. Without(s) \in [DOMAIN subscribers \ gone -> SUBSET Subs]
    BY <2>1, <2>2
  <2> QED BY <1>7, <2>3 DEF Close
<1>8. ASSUME NEW c \in Calls, Lock(c) PROVE TypeOK'
  <2>1. \A a \in DOMAIN subscribers : subscribers[a] \in SUBSET Subs
    OBVIOUS
  <2>2. Subscribers(CallAddress[c]) \in SUBSET Subs /\ Connected \in SUBSET Subs
    BY <2>1 DEF Subscribers, Connected
  <2> QED BY <1>8, <2>2 DEF Lock
<1>9. ASSUME NEW c \in Calls, NEW s \in Subs, Offer(c, s) PROVE TypeOK'
  <2>1. Append(offered[s], c) \in Seq(Calls) /\ Append(channel[s], c) \in Seq(Calls)
    OBVIOUS
  <2>2. offered' \in [Subs -> Seq(Calls)]
    BY <1>9, <2>1 DEF Offer
  <2>3. channel' \in [Subs -> Seq(Calls)]
    BY <1>9, <2>1 DEF Offer
  <2>4. missed' \in [Subs -> SUBSET Calls]
    <3>1. missed[s] \union {c} \in SUBSET Calls
      OBVIOUS
    <3> QED BY <1>9, <3>1 DEF Offer
  <2>5. publish' \in [Calls -> [pc : {"new", "loop", "done"}, todo : SUBSET Subs,
                                connected : SUBSET Subs]]
    <3>1. publish[c].todo \ {s} \in SUBSET Subs
      OBVIOUS
    <3>2. [publish[c] EXCEPT !.todo = publish[c].todo \ {s}]
            \in [pc : {"new", "loop", "done"}, todo : SUBSET Subs, connected : SUBSET Subs]
      <4> DEFINE T == SUBSET Subs
      <4>1. publish[c] \in [pc : {"new", "loop", "done"}, todo : T, connected : T]
        OBVIOUS
      <4>2. publish[c].todo \ {s} \in T
        BY <3>1
      <4> HIDE DEF T
      <4>3. [publish[c] EXCEPT !.todo = publish[c].todo \ {s}]
              \in [pc : {"new", "loop", "done"}, todo : T, connected : T]
        BY <4>1, <4>2
      <4> QED BY <4>3 DEF T
    <3> QED BY <1>9, <3>2 DEF Offer
  <2> QED BY <1>9, <2>2, <2>3, <2>4, <2>5 DEF Offer
<1>10. ASSUME NEW c \in Calls, Unlock(c) PROVE TypeOK'
  BY <1>10, ZenonT(40) DEF Unlock
<1>11. CASE UNCHANGED vars
  BY <1>11 DEF vars
<1> QED
  BY <1>1, <1>2, <1>3, <1>4, <1>5, <1>6, <1>7, <1>8, <1>9, <1>10, <1>11
  DEF Next, Handle, Publish

\* The hub's map stays exact: Subscribe and Close change it together with the
\* handler, and no other step changes it or who is registered.
LEMMA NextHubExact == IInv /\ [Next]_vars => HubExact'
<1> SUFFICES ASSUME IInv, [Next]_vars PROVE HubExact'
  OBVIOUS
<1> USE DEF IInv
<1> DEFINE At(a) == {s \in Registered : SubAddress[s] = a}
<1>1. ASSUME NEW a \in Addresses
      PROVE  /\ Subscribers(a) = At(a)
             /\ a \in DOMAIN subscribers <=> At(a) # {}
  BY DEF HubExact, Subscribers
<1>2. ASSUME \A a \in Addresses : /\ a \in DOMAIN subscribers' <=> At(a)' # {}
                                  /\ a \in DOMAIN subscribers' => subscribers'[a] = At(a)'
      PROVE  HubExact'
  BY <1>2 DEF HubExact
<1>3. ASSUME NEW s \in Subs, Subscribe(s) PROVE HubExact'
  <2>1. Registered' = Registered \union {s} /\ SubAddress[s] \in Addresses
    <3>1. \A t \in Subs : handler'[t].pc = IF t = s THEN "upgrade" ELSE handler[t].pc
      BY <1>3 DEF Subscribe, TypeOK
    <3> QED BY <3>1, RealtimeAssumption DEF Registered
  <2>2. ASSUME NEW a \in Addresses, a # SubAddress[s]
        PROVE  /\ At(a)' = At(a)
               /\ a \in DOMAIN subscribers' <=> a \in DOMAIN subscribers
               /\ a \in DOMAIN subscribers => subscribers'[a] = subscribers[a]
    BY <1>3, <2>1, <2>2 DEF Subscribe, With
  <2>3. /\ At(SubAddress[s])' = At(SubAddress[s]) \union {s}
        /\ SubAddress[s] \in DOMAIN subscribers'
        /\ subscribers'[SubAddress[s]] = Subscribers(SubAddress[s]) \union {s}
    BY <1>3, <2>1 DEF Subscribe, With
  <2>4. \A a \in Addresses : a \in DOMAIN subscribers => subscribers[a] = At(a)
    BY DEF HubExact
  <2> HIDE DEF At
  <2> QED BY <1>1, <1>2, <2>1, <2>2, <2>3, <2>4
<1>4. ASSUME NEW s \in Subs, Close(s) PROVE HubExact'
  <2>1. Registered' = Registered \ {s} /\ SubAddress[s] \in Addresses
    <3>1. \A t \in Subs : handler'[t].pc = IF t = s THEN "closed" ELSE handler[t].pc
      BY <1>4 DEF Close, TypeOK
    <3> QED BY <3>1, RealtimeAssumption DEF Registered
  <2> DEFINE rest == Subscribers(SubAddress[s]) \ {s}
  <2>2. ASSUME NEW a \in Addresses
        PROVE  At(a)' = At(a) \ {s}
    BY <2>1
  <2>3. subscribers' = [a \in DOMAIN subscribers \ (IF rest = {} THEN {SubAddress[s]} ELSE {}) |->
                          subscribers[a] \ {s}]
    BY <1>4 DEF Close, Without
  <2>4. rest = At(SubAddress[s])'
    BY <1>1, <2>1, <2>2
  <2>5. ASSUME NEW a \in Addresses, a # SubAddress[s]
        PROVE  At(a)' = At(a) /\ At(a) \ {s} = At(a)
    BY <2>1, <2>2, <2>5
  <2>6. \A a \in Addresses : a \in DOMAIN subscribers => subscribers[a] = At(a)
    BY DEF HubExact
  <2> HIDE DEF At, rest
  <2>7. ASSUME NEW a \in Addresses, a # SubAddress[s]
        PROVE  /\ a \in DOMAIN subscribers' <=> At(a)' # {}
               /\ a \in DOMAIN subscribers' => subscribers'[a] = At(a)'
    BY <1>1, <2>3, <2>5, <2>6, <2>7
  <2>8. LET a == SubAddress[s]
        IN  /\ a \in DOMAIN subscribers' <=> At(a)' # {}
            /\ a \in DOMAIN subscribers' => subscribers'[a] = At(a)'
    <3>1. CASE rest = {}
      BY <2>3, <2>4, <3>1
    <3>2. CASE rest # {}
      <4>1. At(SubAddress[s])' = At(SubAddress[s]) \ {s} /\ At(SubAddress[s]) # {}
        BY <2>1, <2>2, <2>4, <3>2
      <4>2. SubAddress[s] \in DOMAIN subscribers
        BY <1>1, <2>1, <4>1
      <4> QED BY <2>1, <2>3, <2>4, <2>6, <3>2, <4>1, <4>2
    <3> QED BY <3>1, <3>2
  <2> QED BY <1>2, <2>7, <2>8
<1>5. CASE subscribers' = subscribers /\ Registered' = Registered
  BY <1>5 DEF HubExact
<1>6. ASSUME NEW s \in Subs, Handle(s) PROVE subscribers' = subscribers /\ Registered' = Registered
  <2>1. \A t \in Subs : t \in Registered <=> handler'[t].pc \in {"upgrade", "select", "write", "close"}
    <3>1. CASE Connect(s)
      BY <3>1 DEF Connect, Registered, TypeOK
    <3>2. CASE Upgrade(s)
      BY <3>2 DEF Upgrade, Registered, TypeOK
    <3>3. CASE Receive(s)
      BY <3>3 DEF Receive, Registered, TypeOK
    <3>4. CASE Write(s)
      BY <3>4 DEF Write, Registered, TypeOK
    <3>5. CASE Leave(s)
      BY <3>5 DEF Leave, Registered, TypeOK
    <3> QED BY <1>6, <3>1, <3>2, <3>3, <3>4, <3>5 DEF Handle
  <2>2. Registered' = Registered
    BY <2>1 DEF Registered
  <2> QED BY <1>6, <2>2 DEF Handle, Connect, Upgrade, Receive, Write, Leave
<1>7. ASSUME NEW c \in Calls, Publish(c) PROVE subscribers' = subscribers /\ Registered' = Registered
  BY <1>7 DEF Publish, Lock, Offer, Unlock, Registered
<1> QED
  BY <1>3, <1>4, <1>5, <1>6, <1>7 DEF Next, vars, Registered

\* A closed channel belongs to a handler that has run Close.
LEMMA NextClosedExact == IInv /\ [Next]_vars => ClosedExact'
<1> SUFFICES ASSUME IInv, [Next]_vars PROVE ClosedExact'
  OBVIOUS
<1> USE DEF IInv, ClosedExact
<1>1. ASSUME NEW s \in Subs, Close(s) PROVE ClosedExact'
  <2>1. \A t \in Subs : handler'[t].pc = IF t = s THEN "closed" ELSE handler[t].pc
    BY <1>1 DEF Close, TypeOK
  <2> QED BY <1>1, <2>1 DEF Close
<1>2. ASSUME NEW s \in Subs, Handle(s) \/ Subscribe(s) PROVE ClosedExact'
  <2>1. \A t \in Subs : handler'[t].pc = "closed" <=> handler[t].pc = "closed"
    <3>1. CASE Connect(s)
      BY <3>1 DEF Connect, TypeOK
    <3>2. CASE Upgrade(s)
      BY <3>2 DEF Upgrade, TypeOK
    <3>3. CASE Receive(s)
      BY <3>3 DEF Receive, TypeOK
    <3>4. CASE Write(s)
      BY <3>4 DEF Write, TypeOK
    <3>5. CASE Leave(s)
      BY <3>5 DEF Leave, TypeOK
    <3>6. CASE Subscribe(s)
      BY <3>6 DEF Subscribe, TypeOK
    <3> QED BY <1>2, <3>1, <3>2, <3>3, <3>4, <3>5, <3>6 DEF Handle
  <2>2. closed' = closed
    BY <1>2 DEF Handle, Connect, Upgrade, Receive, Write, Leave, Subscribe
  <2> QED BY <2>1, <2>2
<1>3. ASSUME NEW c \in Calls, Publish(c) PROVE ClosedExact'
  BY <1>3 DEF Publish, Lock, Offer, Unlock
<1>4. CASE UNCHANGED vars
  BY <1>4 DEF vars
<1> QED BY <1>1, <1>2, <1>3, <1>4 DEF Next

\* A call reads registered subscriptions only, and none of them can close
\* before the call lets go of the lock.
LEMMA NextLoopRegistered == IInv /\ [Next]_vars => LoopRegistered'
<1> SUFFICES ASSUME IInv, [Next]_vars, NEW c \in Calls, publish'[c].pc = "loop"
             PROVE  publish'[c].todo \subseteq Registered'
  BY DEF LoopRegistered
<1> USE DEF IInv
<1>1. ASSUME publish' = publish, Registered \subseteq Registered'
      PROVE  publish'[c].todo \subseteq Registered'
  BY <1>1 DEF LoopRegistered
<1>2. ASSUME NEW s \in Subs, Close(s)
      PROVE  FALSE
  BY <1>2 DEF Close, Readers
<1>3. ASSUME NEW s \in Subs, Handle(s) \/ Subscribe(s)
      PROVE  publish' = publish /\ Registered \subseteq Registered'
  <2>1. \A t \in Registered : handler'[t].pc \in {"upgrade", "select", "write", "close"}
    <3>1. CASE Connect(s)
      BY <3>1 DEF Connect, Registered, TypeOK
    <3>2. CASE Upgrade(s)
      BY <3>2 DEF Upgrade, Registered, TypeOK
    <3>3. CASE Receive(s)
      BY <3>3 DEF Receive, Registered, TypeOK
    <3>4. CASE Write(s)
      BY <3>4 DEF Write, Registered, TypeOK
    <3>5. CASE Leave(s)
      BY <3>5 DEF Leave, Registered, TypeOK
    <3>6. CASE Subscribe(s)
      BY <3>6 DEF Subscribe, Registered, TypeOK
    <3> QED BY <1>3, <3>1, <3>2, <3>3, <3>4, <3>5, <3>6 DEF Handle
  <2> QED BY <1>3, <2>1 DEF Handle, Connect, Upgrade, Receive, Write, Leave, Subscribe, Registered
<1>4. ASSUME NEW d \in Calls, Lock(d)
      PROVE  publish'[c].todo \subseteq Registered'
  <2>1. Registered' = Registered
    BY <1>4 DEF Lock, Registered
  <2>2. CASE c = d
    <3>1. publish'[c].todo = Subscribers(CallAddress[c])
      BY <1>4, <2>2 DEF Lock, TypeOK
    <3>2. Subscribers(CallAddress[c]) \subseteq Registered
      BY RealtimeAssumption DEF HubExact, Subscribers
    <3> QED BY <2>1, <3>1, <3>2
  <2>3. CASE c # d
    BY <1>4, <2>1, <2>3 DEF Lock, TypeOK, LoopRegistered
  <2> QED BY <2>2, <2>3
<1>5. ASSUME NEW d \in Calls, NEW s \in Subs, Offer(d, s)
      PROVE  publish'[c].todo \subseteq Registered'
  <2>1. Registered' = Registered
    BY <1>5 DEF Offer, Registered
  <2>2. publish[c].pc = "loop" /\ publish'[c].todo \subseteq publish[c].todo
    BY <1>5 DEF Offer, TypeOK
  <2> QED BY <2>1, <2>2 DEF LoopRegistered
<1>6. ASSUME NEW d \in Calls, Unlock(d)
      PROVE  publish'[c].todo \subseteq Registered'
  <2>1. Registered' = Registered
    BY <1>6 DEF Unlock, Registered
  <2>2. publish[c].pc = "loop" /\ publish'[c].todo = publish[c].todo
    BY <1>6 DEF Unlock, TypeOK
  <2> QED BY <2>1, <2>2 DEF LoopRegistered
<1>7. CASE UNCHANGED vars
  BY <1>1, <1>7 DEF vars, Registered
<1> QED BY <1>1, <1>2, <1>3, <1>4, <1>5, <1>6, <1>7 DEF Next, Publish

LEMMA NextIInv == IInv /\ [Next]_vars => IInv'
BY NextTypeOK, NextHubExact, NextClosedExact, NextLoopRegistered DEF IInv

LEMMA Invariance == Spec => []IInv
BY InitIInv, NextIInv, PTL DEF Spec

-----------------------------------------------------------------------------
(* The theorems.                                                           *)

\* Every variable of the hub keeps its type, and a handler holds a mail
\* exactly while it writes.
THEOREM TypeCorrect == Spec => []TypeOK
BY Invariance, PTL DEF IInv

\* The hub's map names exactly the connections that have subscribed and not
\* closed, each under its address, and no address without one.
THEOREM HubCorrect == Spec => []HubExact
BY Invariance, PTL DEF IInv

\* No call of Publish ever offers a mail to a closed channel, for any number of
\* publishers and connections: publishing cannot panic.
THEOREM NeverSendsOnClosed == Spec => []NoSendOnClosed
<1>1. IInv => NoSendOnClosed
  BY DEF IInv, ClosedExact, LoopRegistered, NoSendOnClosed, Registered
<1> QED BY <1>1, Invariance, PTL

-----------------------------------------------------------------------------
(* The order of delivery.                                                  *)

\* The head and the tail make the whole.
LEMMA HeadAndTail ==
  ASSUME NEW S, NEW q \in Seq(S), q # << >>
  PROVE  <<Head(q)>> \o Tail(q) = q
<1>1. Len(q) \in Nat /\ 1 \in 1 .. Len(q) /\ Len(q) \in 1 .. Len(q)
  <2>1. Len(q) \in Nat /\ Len(q) # 0
    BY LenProperties, EmptySeq
  <2> QED BY <2>1
<1>2. SubSeq(q, 1, Len(q)) = <<q[1]>> \o SubSeq(q, 2, Len(q))
  BY <1>1, SubSeqRecursiveFirst
<1>3. SubSeq(q, 1, Len(q)) = q
  BY SubSeqFull
<1>4. Tail(q) = SubSeq(q, 2, Len(q))
  BY TailIsSubSeq
<1>5. Head(q) = q[1]
  BY HeadTailProperties
<1> QED BY <1>2, <1>3, <1>4, <1>5

\* Taking the head of a channel into the handler's hand, and sending what is in
\* the hand, leave the whole as it was.
LEMMA HandOver ==
  ASSUME NEW S, NEW f \in Seq(S), NEW q \in Seq(S), NEW e \in S
  PROVE  /\ q # << >> => f \o (<<Head(q)>> \o Tail(q)) = f \o (<< >> \o q)
         /\ Append(f, e) \o (<< >> \o q) = f \o (<<e>> \o q)
<1>1. << >> \o q = q
  BY ConcatEmptySeq
<1>2. ASSUME q # << >> PROVE <<Head(q)>> \o Tail(q) = q
  BY <1>2, HeadAndTail
<1>3. Append(f, e) \o q = f \o (<<e>> \o q)
  <2>1. <<e>> \in Seq(S)
    OBVIOUS
  <2>2. Append(f, e) = f \o <<e>>
    BY AppendIsConcat
  <2> QED BY <2>1, <2>2, ConcatAssociative
<1> QED BY <1>1, <1>2, <1>3

\* What is appended to the last part is appended to the whole.
LEMMA AppendToWhole ==
  ASSUME NEW S, NEW f \in Seq(S), NEW q \in Seq(S), NEW e \in S
  PROVE  f \o q \in Seq(S) /\ f \o Append(q, e) = Append(f \o q, e)
<1>1. <<e>> \in Seq(S) /\ Append(q, e) = q \o <<e>>
  BY AppendIsConcat
<1>2. f \o q \in Seq(S)
  BY ConcatProperties
<1>3. Append(f \o q, e) = (f \o q) \o <<e>>
  BY <1>2, AppendIsConcat
<1>4. f \o (q \o <<e>>) = (f \o q) \o <<e>>
  BY <1>1, ConcatAssociative
<1> QED BY <1>1, <1>2, <1>3, <1>4

\* What appending does to the elements, to their being distinct and to their order.
LEMMA AppendElements ==
  ASSUME NEW S, NEW s \in Seq(S), NEW e \in S
  PROVE  /\ Append(s, e) \in Seq(S)
         /\ Range(Append(s, e)) = Range(s) \union {e}
         /\ IsInjective(s) /\ e \notin Range(s) => IsInjective(Append(s, e))
<1>1. /\ Append(s, e) \in Seq(S) /\ Len(Append(s, e)) = Len(s) + 1
      /\ \A i \in 1 .. Len(s) : Append(s, e)[i] = s[i]
      /\ Append(s, e)[Len(s) + 1] = e
  BY AppendProperties
<1>2. DOMAIN s = 1 .. Len(s) /\ DOMAIN Append(s, e) = 1 .. Len(s) + 1 /\ Len(s) \in Nat
  BY <1>1, LenProperties
<1>3. Range(Append(s, e)) = Range(s) \union {e}
  <2>1. \A i \in DOMAIN Append(s, e) : Append(s, e)[i] \in Range(s) \union {e}
    BY <1>1, <1>2 DEF Range
  <2>2. e \in Range(Append(s, e))
    BY <1>1, <1>2 DEF Range
  <2>3. \A i \in DOMAIN s : s[i] \in Range(Append(s, e))
    BY <1>1, <1>2 DEF Range
  <2> QED BY <2>1, <2>2, <2>3 DEF Range
<1>4. ASSUME IsInjective(s), e \notin Range(s) PROVE IsInjective(Append(s, e))
  <2>1. \A i \in DOMAIN s : s[i] # e
    BY <1>4 DEF Range
  <2>2. \A i, j \in DOMAIN s : s[i] = s[j] => i = j
    BY <1>4 DEF IsInjective
  <2>3. ASSUME NEW i \in DOMAIN Append(s, e), NEW j \in DOMAIN Append(s, e),
               Append(s, e)[i] = Append(s, e)[j]
        PROVE  i = j
    BY <1>1, <1>2, <2>1, <2>2, <2>3
  <2> QED BY <2>3 DEF IsInjective
<1> QED BY <1>1, <1>3, <1>4

\* An order stays an order when more comes, or the same comes to both.
LEMMA AppendInOrder ==
  ASSUME NEW S, NEW sent \in Seq(S), NEW all \in Seq(S), NEW e \in S,
         InOrderOf(sent, all), Range(sent) \subseteq Range(all)
  PROVE  InOrderOf(sent, Append(all, e)) /\ InOrderOf(Append(sent, e), Append(all, e))
<1>1. /\ Len(Append(sent, e)) = Len(sent) + 1 /\ Len(Append(all, e)) = Len(all) + 1
      /\ Append(sent, e) \in Seq(S) /\ Append(all, e) \in Seq(S)
      /\ \A i \in 1 .. Len(sent) : Append(sent, e)[i] = sent[i]
      /\ \A i \in 1 .. Len(all) : Append(all, e)[i] = all[i]
      /\ Append(sent, e)[Len(sent) + 1] = e /\ Append(all, e)[Len(all) + 1] = e
  BY AppendProperties
<1>2. /\ DOMAIN sent = 1 .. Len(sent) /\ DOMAIN Append(sent, e) = 1 .. Len(sent) + 1
      /\ DOMAIN all = 1 .. Len(all) /\ DOMAIN Append(all, e) = 1 .. Len(all) + 1
      /\ Len(sent) \in Nat /\ Len(all) \in Nat
  BY <1>1, LenProperties
<1>3. ASSUME NEW i \in DOMAIN sent, NEW j \in DOMAIN sent, i < j
      PROVE  \E k, l \in DOMAIN Append(all, e) :
                k < l /\ Append(all, e)[k] = sent[i] /\ Append(all, e)[l] = sent[j]
  <2>1. PICK k \in DOMAIN all, l \in DOMAIN all : k < l /\ all[k] = sent[i] /\ all[l] = sent[j]
    BY <1>3 DEF InOrderOf
  <2>2. /\ k \in DOMAIN Append(all, e) /\ l \in DOMAIN Append(all, e)
        /\ Append(all, e)[k] = sent[i] /\ Append(all, e)[l] = sent[j]
    BY <1>1, <1>2, <2>1
  <2> QED BY <2>1, <2>2
<1>4. ASSUME NEW i \in DOMAIN sent
      PROVE  \E k, l \in DOMAIN Append(all, e) :
                k < l /\ Append(all, e)[k] = sent[i] /\ Append(all, e)[l] = e
  <2>1. PICK k \in DOMAIN all : all[k] = sent[i]
    BY DEF Range
  <2>2. /\ k \in DOMAIN Append(all, e) /\ Len(all) + 1 \in DOMAIN Append(all, e)
        /\ k < Len(all) + 1 /\ Append(all, e)[k] = sent[i]
    BY <1>1, <1>2, <2>1
  <2> QED BY <1>1, <2>2
<1>5. InOrderOf(sent, Append(all, e))
  BY <1>3 DEF InOrderOf
<1>6. ASSUME NEW i \in DOMAIN Append(sent, e), NEW j \in DOMAIN Append(sent, e), i < j
      PROVE  \E k, l \in DOMAIN Append(all, e) :
                /\ k < l /\ Append(all, e)[k] = Append(sent, e)[i]
                /\ Append(all, e)[l] = Append(sent, e)[j]
  <2>1. i \in DOMAIN sent /\ Append(sent, e)[i] = sent[i]
    BY <1>1, <1>2, <1>6
  <2>2. CASE j \in DOMAIN sent
    <3>1. Append(sent, e)[j] = sent[j]
      BY <1>1, <1>2, <2>2
    <3> QED BY <1>3, <1>6, <2>1, <2>2, <3>1
  <2>3. CASE j \notin DOMAIN sent
    <3>1. Append(sent, e)[j] = e
      BY <1>1, <1>2, <2>3
    <3> QED BY <1>4, <2>1, <3>1
  <2> QED BY <2>2, <2>3
<1>7. InOrderOf(Append(sent, e), Append(all, e))
  BY <1>6 DEF InOrderOf
<1> QED BY <1>5, <1>7

-----------------------------------------------------------------------------

LEMMA InitDelivery == Init => DeliveryInv
<1> SUFFICES ASSUME Init PROVE DeliveryInv
  OBVIOUS
<1>1. \A s \in Subs : offered[s] = << >> /\ missed[s] = {} /\ Sent(s) = << >>
  BY ConcatEmptySeq DEF Init, Sent, Pending
<1>2. Range(<< >>) = {} /\ IsInjective(<< >>) /\ InOrderOf(<< >>, << >>)
  BY DEF Range, IsInjective, InOrderOf
<1>3. OfferedOnce /\ SentInOrder
  BY <1>1, <1>2 DEF OfferedOnce, SentInOrder
<1>4. OfferedToAll
  BY DEF Init, OfferedToAll
<1> QED BY <1>3, <1>4, InitIInv DEF DeliveryInv

\* What a step of Publish offers is a mail that was not offered before.
LEMMA OfferIsNew ==
  ASSUME TypeOK, OfferedOnce, NEW c \in Calls, NEW s \in Subs, Offer(c, s)
  PROVE  /\ c \notin Range(offered[s]) /\ c \notin missed[s]
         /\ offered[s] \in Seq(Calls) /\ offered'[s] = Append(offered[s], c)
         /\ \A t \in Subs : t # s => offered'[t] = offered[t] /\ missed'[t] = missed[t]
         /\ missed'[s] \subseteq missed[s] \union {c}
         /\ offered'[s] \in Seq(Calls)
         /\ Range(offered'[s]) = Range(offered[s]) \union {c}
         /\ IsInjective(offered'[s])
         /\ publish'[c].pc = "loop" /\ publish'[c].todo = publish[c].todo \ {s}
         /\ publish'[c].connected = publish[c].connected
         /\ \A d \in Calls : d # c => publish'[d] = publish[d]
<1>1. c \notin Range(offered[s]) /\ c \notin missed[s] /\ IsInjective(offered[s])
  BY DEF Offer, OfferedOnce
<1>2. /\ offered[s] \in Seq(Calls) /\ offered'[s] = Append(offered[s], c)
      /\ \A t \in Subs : t # s => offered'[t] = offered[t]
  BY DEF Offer, TypeOK
<1>3. /\ missed'[s] \subseteq missed[s] \union {c}
      /\ \A t \in Subs : t # s => missed'[t] = missed[t]
  BY DEF Offer, TypeOK
<1>4. /\ offered'[s] \in Seq(Calls) /\ IsInjective(offered'[s])
      /\ Range(offered'[s]) = Range(offered[s]) \union {c}
  BY <1>1, <1>2, AppendElements
<1>5. /\ publish'[c].pc = "loop" /\ publish'[c].todo = publish[c].todo \ {s}
      /\ publish'[c].connected = publish[c].connected
      /\ \A d \in Calls : d # c => publish'[d] = publish[d]
  BY DEF Offer, TypeOK
<1> QED BY <1>1, <1>2, <1>3, <1>4, <1>5

LEMMA NextOfferedOnce == TypeOK /\ OfferedOnce /\ [Next]_vars => OfferedOnce'
<1> SUFFICES ASSUME TypeOK, OfferedOnce, [Next]_vars, NEW s \in Subs
             PROVE  /\ IsInjective(offered'[s])
                    /\ missed'[s] \subseteq Range(offered'[s])
                    /\ \A c \in Range(offered'[s]) :
                          publish'[c].pc # "new" /\ s \notin publish'[c].todo
  BY DEF OfferedOnce
<1>1. Range(offered[s]) \subseteq Calls
  <2>1. offered[s] \in Seq(Calls)
    BY DEF TypeOK
  <2> QED BY <2>1, RangeOfSeq
<1>2. CASE UNCHANGED <<offered, missed, publish>>
  BY <1>2 DEF OfferedOnce
<1>3. ASSUME NEW c \in Calls, Lock(c) PROVE UNCHANGED <<offered, missed>> /\ c \notin Range(offered[s])
  BY <1>3 DEF Lock, OfferedOnce
<1>4. ASSUME NEW c \in Calls, Lock(c)
      PROVE \A d \in Calls : d # c => publish'[d] = publish[d]
  BY <1>4 DEF Lock, TypeOK
<1>5. ASSUME NEW c \in Calls, Lock(c)
      PROVE \A d \in Range(offered'[s]) : publish'[d].pc # "new" /\ s \notin publish'[d].todo
  BY <1>1, <1>3, <1>4, <1>5 DEF OfferedOnce
<1>6. ASSUME NEW c \in Calls, Lock(c)
      PROVE IsInjective(offered'[s]) /\ missed'[s] \subseteq Range(offered'[s])
  BY <1>3, <1>6 DEF OfferedOnce
<1>7. ASSUME NEW c \in Calls, Unlock(c)
      PROVE /\ UNCHANGED <<offered, missed>>
            /\ \A d \in Calls : publish'[d].todo = publish[d].todo
                                /\ (publish'[d].pc = "new" => publish[d].pc = "new")
  BY <1>7 DEF Unlock, TypeOK
<1>8. ASSUME NEW c \in Calls, Unlock(c)
      PROVE /\ IsInjective(offered'[s]) /\ missed'[s] \subseteq Range(offered'[s])
            /\ \A d \in Range(offered'[s]) : publish'[d].pc # "new" /\ s \notin publish'[d].todo
  BY <1>1, <1>7, <1>8 DEF OfferedOnce
<1>9. ASSUME NEW c \in Calls, NEW t \in Subs, Offer(c, t)
      PROVE /\ IsInjective(offered'[s]) /\ missed'[s] \subseteq Range(offered'[s])
            /\ \A d \in Range(offered'[s]) : publish'[d].pc # "new" /\ s \notin publish'[d].todo
  <2>1. \A d \in Calls : /\ publish'[d].pc = "new" => publish[d].pc = "new"
                         /\ publish'[d].todo \subseteq publish[d].todo
    BY <1>9, OfferIsNew
  <2>2. CASE s = t
    <3>1. /\ IsInjective(offered'[s]) /\ Range(offered'[s]) = Range(offered[s]) \union {c}
          /\ missed'[s] \subseteq missed[s] \union {c}
          /\ publish'[c].pc = "loop" /\ publish'[c].todo = publish[c].todo \ {s}
      BY <1>9, <2>2, OfferIsNew
    <3>2. missed[s] \subseteq Range(offered[s])
      BY DEF OfferedOnce
    <3>3. \A d \in Range(offered[s]) : publish'[d].pc # "new" /\ s \notin publish'[d].todo
      BY <1>1, <2>1 DEF OfferedOnce
    <3> QED BY <3>1, <3>2, <3>3
  <2>3. CASE s # t
    <3>1. offered'[s] = offered[s] /\ missed'[s] = missed[s]
      BY <1>9, <2>3, OfferIsNew
    <3> QED BY <1>1, <2>1, <3>1 DEF OfferedOnce
  <2> QED BY <2>2, <2>3
<1>10. ASSUME NEW t \in Subs, Handle(t) \/ Subscribe(t) \/ Close(t)
       PROVE  UNCHANGED <<offered, missed, publish>>
  BY <1>10 DEF Handle, Connect, Upgrade, Receive, Write, Leave, Subscribe, Close
<1>11. UNCHANGED vars => UNCHANGED <<offered, missed, publish>>
  BY DEF vars
<1> QED BY <1>2, <1>5, <1>6, <1>8, <1>9, <1>10, <1>11 DEF Next, Publish

LEMMA NextOfferedToAll ==
  ASSUME TypeOK, HubExact, OfferedOnce, OfferedToAll, [Next]_vars
  PROVE  OfferedToAll'
<1> SUFFICES ASSUME NEW c \in Calls
             PROVE  /\ publish'[c].pc = "done" => publish'[c].todo = {}
                    /\ publish'[c].pc # "new" =>
                         \A s \in publish'[c].connected : SubAddress[s] = CallAddress[c] =>
                             s \in publish'[c].todo \/ c \in Range(offered'[s])
  BY DEF OfferedToAll
<1>1. \A s \in publish[c].connected : s \in Subs
  BY DEF TypeOK
<1>2. CASE UNCHANGED <<offered, publish>>
  BY <1>2 DEF OfferedToAll
<1>3. ASSUME Lock(c)
      PROVE  /\ publish'[c].pc # "done"
             /\ \A s \in publish'[c].connected : SubAddress[s] = CallAddress[c] =>
                   s \in publish'[c].todo
  <2>1. /\ publish'[c].pc = "loop" /\ publish'[c].connected = Connected
        /\ publish'[c].todo = Subscribers(CallAddress[c])
    BY <1>3 DEF Lock, TypeOK
  <2>2. ASSUME NEW s \in Connected, SubAddress[s] = CallAddress[c]
        PROVE  s \in Subscribers(CallAddress[c])
    <3>1. s \in Registered /\ CallAddress[c] \in Addresses
      BY RealtimeAssumption DEF Connected, Registered
    <3> QED BY <2>2, <3>1 DEF HubExact, Subscribers
  <2> QED BY <2>1, <2>2
<1>4. ASSUME NEW d \in Calls, d # c, Lock(d) \/ Unlock(d)
      PROVE  UNCHANGED offered /\ publish'[c] = publish[c]
  BY <1>4 DEF Lock, Unlock, TypeOK
<1>5. ASSUME Unlock(c)
      PROVE  /\ publish'[c].todo = {} /\ publish[c].todo = {}
             /\ publish[c].pc = "loop" /\ publish'[c].connected = publish[c].connected
             /\ UNCHANGED offered
  BY <1>5 DEF Unlock, TypeOK
<1>6. ASSUME NEW d \in Calls, NEW t \in Subs, Offer(d, t)
      PROVE  /\ publish'[c].pc = "done" => publish'[c].todo = {}
             /\ publish'[c].pc # "new" =>
                  \A s \in publish'[c].connected : SubAddress[s] = CallAddress[c] =>
                      s \in publish'[c].todo \/ c \in Range(offered'[s])
  <2>1. \A s \in Subs : Range(offered[s]) \subseteq Range(offered'[s])
    BY <1>6, OfferIsNew
  <2>2. CASE d = c
    <3>1. /\ publish[c].pc = "loop" /\ publish'[c].pc = "loop"
          /\ publish'[c].connected = publish[c].connected
          /\ publish'[c].todo = publish[c].todo \ {t} /\ c \in Range(offered'[t])
      <4>1. Offer(c, t)
        BY <1>6, <2>2
      <4>2. publish[c].pc = "loop"
        BY <4>1 DEF Offer
      <4> QED BY <4>1, <4>2, OfferIsNew, SMTT(30)
    <3> QED BY <1>1, <2>1, <3>1 DEF OfferedToAll
  <2>3. CASE d # c
    <3>1. publish'[c] = publish[c]
      BY <1>6, <2>3, OfferIsNew
    <3> QED BY <1>1, <2>1, <3>1 DEF OfferedToAll
  <2> QED BY <2>2, <2>3
<1>7. ASSUME NEW t \in Subs, Handle(t) \/ Subscribe(t) \/ Close(t)
      PROVE  UNCHANGED <<offered, publish>>
  BY <1>7 DEF Handle, Connect, Upgrade, Receive, Write, Leave, Subscribe, Close
<1>8. UNCHANGED vars => UNCHANGED <<offered, publish>>
  BY DEF vars
<1>9. CASE Unlock(c)
  BY <1>5, <1>9 DEF OfferedToAll
<1>10. ASSUME NEW d \in Calls, d # c, Lock(d) \/ Unlock(d)
       PROVE  /\ publish'[c].pc = "done" => publish'[c].todo = {}
              /\ publish'[c].pc # "new" =>
                   \A s \in publish'[c].connected : SubAddress[s] = CallAddress[c] =>
                       s \in publish'[c].todo \/ c \in Range(offered'[s])
  BY <1>4, <1>10 DEF OfferedToAll
<1> QED BY <1>2, <1>3, <1>6, <1>7, <1>8, <1>9, <1>10 DEF Next, Publish

-----------------------------------------------------------------------------

\* What is sent, part by part: to the browser, in the handler's hand, in the
\* channel.
LEMMA SentParts ==
  ASSUME TypeOK, NEW s \in Subs
  PROVE  /\ frames[s] \in Seq(Calls) /\ channel[s] \in Seq(Calls)
         /\ handler[s].holding = NoCall => Sent(s) = frames[s] \o (<< >> \o channel[s])
         /\ handler[s].holding # NoCall =>
              /\ handler[s].holding \in Calls
              /\ Sent(s) = frames[s] \o (<<handler[s].holding>> \o channel[s])
         /\ Pending(s) \in Seq(Calls) /\ Sent(s) \in Seq(Calls)
<1>1. frames[s] \in Seq(Calls) /\ channel[s] \in Seq(Calls)
  BY DEF TypeOK
<1>2. handler[s].holding = NoCall => Sent(s) = frames[s] \o (<< >> \o channel[s])
  BY DEF Sent, Pending
<1>3. handler[s].holding # NoCall =>
              /\ handler[s].holding \in Calls
              /\ Sent(s) = frames[s] \o (<<handler[s].holding>> \o channel[s])
  BY DEF TypeOK, Sent, Pending
<1>4. Pending(s) \in Seq(Calls) /\ Sent(s) \in Seq(Calls)
  <2>1. \A c \in Calls : <<c>> \in Seq(Calls)
    OBVIOUS
  <2>2. Pending(s) \in Seq(Calls)
    <3>1. CASE handler[s].holding = NoCall
      <4>1. Pending(s) = channel[s]
        BY <1>1, <3>1, ConcatEmptySeq DEF Pending
      <4> QED BY <1>1, <4>1
    <3>2. CASE handler[s].holding # NoCall
      <4>1. <<handler[s].holding>> \in Seq(Calls)
        BY <1>3, <2>1, <3>2
      <4>2. Pending(s) = <<handler[s].holding>> \o channel[s]
        BY <3>2 DEF Pending
      <4> QED BY <1>1, <4>1, <4>2, ConcatProperties
    <3> QED BY <3>1, <3>2
  <2>3. Sent(s) \in Seq(Calls)
    BY <1>1, <2>2, ConcatProperties DEF Sent
  <2> QED BY <2>2, <2>3
<1> QED BY <1>1, <1>2, <1>3, <1>4

\* Receive and Write move a mail along, and what is sent stays the same.
LEMMA MovingAlong ==
  ASSUME TypeOK, NEW s \in Subs, Receive(s) \/ Write(s)
  PROVE  \A t \in Subs : Sent(t)' = Sent(t)
<1>1. ASSUME NEW t \in Subs, t # s PROVE Sent(t)' = Sent(t)
  <2>1. frames'[t] = frames[t] /\ channel'[t] = channel[t] /\ handler'[t] = handler[t]
    BY <1>1 DEF Receive, Write, TypeOK
  <2> QED BY <2>1 DEF Sent, Pending
<1>2. CASE Receive(s)
  <2>1. /\ handler[s].holding = NoCall /\ channel[s] # << >>
        /\ frames'[s] = frames[s] /\ channel'[s] = Tail(channel[s])
        /\ handler'[s].holding = Head(channel[s])
    BY <1>2 DEF Receive, TypeOK
  <2>2. Head(channel[s]) \in Calls
    BY <2>1, SentParts, HeadTailProperties
  <2>3. Head(channel[s]) # NoCall
    BY <2>2, RealtimeAssumption
  <2>4. Sent(s)' = frames[s] \o (<<Head(channel[s])>> \o Tail(channel[s]))
    BY <2>1, <2>3 DEF Sent, Pending
  <2>5. Sent(s)' = frames[s] \o (<< >> \o channel[s])
    <3>1. frames[s] \in Seq(Calls) /\ channel[s] \in Seq(Calls)
      BY SentParts
    <3>2. frames[s] \o (<<Head(channel[s])>> \o Tail(channel[s])) = frames[s] \o (<< >> \o channel[s])
      BY <2>1, <2>2, <3>1, HandOver
    <3> QED BY <2>4, <3>2
  <2> QED BY <1>1, <2>1, <2>5, SentParts
<1>3. CASE Write(s)
  <2>1. /\ handler[s].holding # NoCall /\ handler'[s].holding = NoCall
        /\ frames'[s] = Append(frames[s], handler[s].holding) /\ channel'[s] = channel[s]
    BY <1>3 DEF Write, TypeOK
  <2>2. Sent(s)' = Append(frames[s], handler[s].holding) \o (<< >> \o channel[s])
    BY <2>1 DEF Sent, Pending
  <2>3. handler[s].holding \in Calls /\ frames[s] \in Seq(Calls) /\ channel[s] \in Seq(Calls)
    BY <2>1, SentParts
  <2>4. \A f, q \in Seq(Calls), e \in Calls : Append(f, e) \o (<< >> \o q) = f \o (<<e>> \o q)
    BY HandOver
  <2>5. Sent(s)' = frames[s] \o (<<handler[s].holding>> \o channel[s])
    BY <2>2, <2>3, <2>4
  <2> QED BY <1>1, <2>1, <2>5, SentParts
<1> QED BY <1>2, <1>3

LEMMA NextSentInOrder ==
  ASSUME TypeOK, OfferedOnce, SentInOrder, [Next]_vars
  PROVE  SentInOrder'
<1> SUFFICES ASSUME NEW s \in Subs, handler'[s].pc \notin {"close", "closed"}
             PROVE  /\ Range(Sent(s)') = Range(offered'[s]) \ missed'[s]
                    /\ InOrderOf(Sent(s)', offered'[s])
  BY DEF SentInOrder
<1>1. ASSUME Sent(s)' = Sent(s), handler[s].pc \notin {"close", "closed"},
             offered'[s] = offered[s], missed'[s] = missed[s]
      PROVE  /\ Range(Sent(s)') = Range(offered'[s]) \ missed'[s]
             /\ InOrderOf(Sent(s)', offered'[s])
  BY <1>1 DEF SentInOrder
<1>2. CASE UNCHANGED <<handler, channel, frames, offered, missed>>
  <2>1. Sent(s)' = Sent(s)
    BY <1>2 DEF Sent, Pending
  <2> QED BY <1>1, <1>2, <2>1
<1>3. ASSUME NEW t \in Subs, Connect(t) \/ Subscribe(t) \/ Upgrade(t) \/ Leave(t) \/ Close(t)
      PROVE  /\ handler[s].pc \notin {"close", "closed"} /\ handler'[s].holding = handler[s].holding
             /\ UNCHANGED <<channel, frames, offered, missed>>
  <2>1. UNCHANGED <<channel, frames, offered, missed>>
    BY <1>3 DEF Connect, Subscribe, Upgrade, Leave, Close
  <2>2. CASE s # t
    <3>1. handler'[s] = handler[s]
      BY <1>3, <2>2 DEF Connect, Subscribe, Upgrade, Leave, Close, TypeOK
    <3> QED BY <2>1, <3>1
  <2>3. CASE s = t
    <3>1. ~Leave(s) /\ ~Close(s)
      BY DEF Leave, Close, TypeOK
    <3>2. CASE Connect(s)
      BY <2>1, <3>2 DEF Connect, TypeOK
    <3>3. CASE Subscribe(s)
      BY <2>1, <3>3 DEF Subscribe, TypeOK
    <3>4. CASE Upgrade(s)
      BY <2>1, <3>4 DEF Upgrade, TypeOK
    <3> QED BY <1>3, <2>3, <3>1, <3>2, <3>3, <3>4
  <2> QED BY <2>2, <2>3
<1>4. ASSUME NEW t \in Subs, Connect(t) \/ Subscribe(t) \/ Upgrade(t) \/ Leave(t) \/ Close(t)
      PROVE  /\ Range(Sent(s)') = Range(offered'[s]) \ missed'[s]
             /\ InOrderOf(Sent(s)', offered'[s])
  <2>1. Sent(s)' = Sent(s)
    BY <1>3, <1>4 DEF Sent, Pending
  <2> QED BY <1>1, <1>3, <1>4, <2>1
<1>5. ASSUME NEW t \in Subs, Receive(t) \/ Write(t)
      PROVE  /\ handler[s].pc \notin {"close", "closed"}
             /\ UNCHANGED <<offered, missed>>
  BY <1>5 DEF Receive, Write, TypeOK
<1>6. ASSUME NEW t \in Subs, Receive(t) \/ Write(t)
      PROVE  /\ Range(Sent(s)') = Range(offered'[s]) \ missed'[s]
             /\ InOrderOf(Sent(s)', offered'[s])
  BY <1>1, <1>5, <1>6, MovingAlong
<1>7. ASSUME NEW c \in Calls, Offer(c, s)
      PROVE  /\ Range(Sent(s)') = Range(offered'[s]) \ missed'[s]
             /\ InOrderOf(Sent(s)', offered'[s])
  <2>1. /\ Range(Sent(s)) = Range(offered[s]) \ missed[s] /\ InOrderOf(Sent(s), offered[s])
    BY <1>7 DEF SentInOrder, Offer
  <2>2. /\ c \notin Range(offered[s]) /\ c \notin missed[s] /\ offered[s] \in Seq(Calls)
        /\ offered'[s] = Append(offered[s], c)
        /\ Range(offered'[s]) = Range(offered[s]) \union {c}
    BY <1>7, OfferIsNew
  <2>3. /\ Sent(s) \in Seq(Calls)
        /\ InOrderOf(Sent(s), offered'[s]) /\ InOrderOf(Append(Sent(s), c), offered'[s])
        /\ Range(Append(Sent(s), c)) = Range(Sent(s)) \union {c}
    <3>1. Sent(s) \in Seq(Calls) /\ Range(Sent(s)) \subseteq Range(offered[s])
      BY <2>1, SentParts
    <3> QED BY <2>1, <2>2, <3>1, AppendInOrder, AppendElements
  <2>4. frames'[s] = frames[s] /\ handler'[s] = handler[s]
    BY <1>7 DEF Offer
  <2>5. CASE Len(channel[s]) < Capacity
    <3>1. channel'[s] = Append(channel[s], c) /\ missed'[s] = missed[s]
      BY <1>7, <2>5 DEF Offer, TypeOK
    <3>2. Sent(s)' = frames[s] \o (Pending(s)')
      BY <2>4 DEF Sent
    <3>3. Pending(s)' = Append(Pending(s), c)
      <4>1. CASE handler[s].holding = NoCall
        <5>1. Pending(s)' = << >> \o Append(channel[s], c) /\ Pending(s) = << >> \o channel[s]
          BY <2>4, <3>1, <4>1 DEF Pending
        <5>2. << >> \in Seq(Calls)
          OBVIOUS
        <5> QED BY <5>1, <5>2, SentParts, AppendToWhole
      <4>2. CASE handler[s].holding # NoCall
        <5>1. /\ Pending(s)' = <<handler[s].holding>> \o Append(channel[s], c)
              /\ Pending(s) = <<handler[s].holding>> \o channel[s]
          BY <2>4, <3>1, <4>2 DEF Pending
        <5>2. \A d \in Calls : <<d>> \in Seq(Calls)
          OBVIOUS
        <5>3. <<handler[s].holding>> \in Seq(Calls)
          BY <4>2, <5>2, SentParts
        <5> QED BY <5>1, <5>3, SentParts, AppendToWhole
      <4> QED BY <4>1, <4>2
    <3>4. frames[s] \in Seq(Calls) /\ Pending(s) \in Seq(Calls)
      BY SentParts
    <3>5. \A f, q \in Seq(Calls) : f \o Append(q, c) = Append(f \o q, c)
      BY AppendToWhole
    <3>6. Sent(s)' = Append(Sent(s), c)
      BY <3>2, <3>3, <3>4, <3>5 DEF Sent
    <3> QED BY <2>1, <2>2, <2>3, <3>1, <3>6
  <2>6. CASE ~(Len(channel[s]) < Capacity)
    <3>1. channel'[s] = channel[s] /\ missed'[s] = missed[s] \union {c}
      BY <1>7, <2>6 DEF Offer, TypeOK
    <3>2. Sent(s)' = Sent(s)
      BY <2>4, <3>1 DEF Sent, Pending
    <3> QED BY <2>1, <2>2, <2>3, <3>1, <3>2
  <2> QED BY <2>5, <2>6
<1>8. ASSUME NEW c \in Calls, NEW t \in Subs, t # s, Offer(c, t)
      PROVE  /\ Range(Sent(s)') = Range(offered'[s]) \ missed'[s]
             /\ InOrderOf(Sent(s)', offered'[s])
  <2>1. /\ channel'[s] = channel[s] /\ UNCHANGED <<frames, handler>>
        /\ offered'[s] = offered[s] /\ missed'[s] = missed[s]
    BY <1>8 DEF Offer, TypeOK
  <2>2. Sent(s)' = Sent(s)
    BY <2>1 DEF Sent, Pending
  <2> QED BY <1>1, <2>1, <2>2
<1>9. ASSUME NEW c \in Calls, Lock(c) \/ Unlock(c)
      PROVE  UNCHANGED <<handler, channel, frames, offered, missed>>
  BY <1>9 DEF Lock, Unlock
<1>10. UNCHANGED vars => UNCHANGED <<handler, channel, frames, offered, missed>>
  BY DEF vars
<1> QED BY <1>2, <1>4, <1>6, <1>7, <1>8, <1>9, <1>10 DEF Next, Handle, Publish

LEMMA DeliveryInvariance == Spec => []DeliveryInv
<1>1. DeliveryInv /\ [Next]_vars => DeliveryInv'
  BY NextIInv, NextOfferedOnce, NextOfferedToAll, NextSentInOrder DEF DeliveryInv, IInv
<1> QED BY <1>1, InitDelivery, PTL DEF Spec

\* As long as a connection is up, its browser has been sent, or is going to be
\* sent, exactly the mails offered to it, in the order they were offered and
\* each once, except for those that found its channel full: for any number of
\* publishers, connections and mails and any capacity.
THEOREM DeliveredInOrderOnce == Spec => []FifoExactlyOnce
<1>1. DeliveryInv => FifoExactlyOnce
  BY DEF DeliveryInv, OfferedOnce, SentInOrder, FifoExactlyOnce, Connected
<1> QED BY <1>1, DeliveryInvariance, PTL

\* Whoever was connected when a publication began, and still is when it ends,
\* was offered the mail, whoever subscribes, closes or publishes meanwhile.
THEOREM NothingLostInHandshake == Spec => []HandshakeLosesNothing
<1>1. ASSUME DeliveryInv PROVE HandshakeLosesNothing
  <2> SUFFICES ASSUME NEW c \in Calls, NEW s \in Subs, publish[c].pc = "done",
                      s \in publish[c].connected, SubAddress[s] = CallAddress[c]
               PROVE  \E i \in DOMAIN offered[s] : offered[s][i] = c
    BY DEF HandshakeLosesNothing
  <2>1. c \in Range(offered[s])
    BY <1>1 DEF DeliveryInv, OfferedToAll
  <2> QED BY <2>1 DEF Range
<1> QED BY <1>1, DeliveryInvariance, PTL

=============================================================================
