--------------------------- MODULE MailStoreProofs ---------------------------
(***************************************************************************)
(* Proofs about MailStore, for every set of ids, addresses and spellings,  *)
(* every set of retentions and every bound on the clock.                   *)
(*                                                                         *)
(* IndexExact is inductive once the types are known.  NeverEarly needs one *)
(* more fact, JanitorPatient: the retention the janitor is about to apply  *)
(* is no shorter than the shortest one in force since its tick.  Both, and *)
(* the refinement of Inbox, then follow step by step.                      *)
(***************************************************************************)
EXTENDS MailStore, FiniteSetTheorems, TLAPS

\* The retention the janitor will read, or has read, was in force since its tick.
JanitorPatient ==
    /\ janitor.pc = "clock" => leastRetention <= Effective(retention)
    /\ janitor.pc = "sweep" => leastRetention <= janitor.keep

IInv == TypeOK /\ IndexExact /\ JanitorPatient

-----------------------------------------------------------------------------
(* The operators of the store.                                             *)

\* A positive retention results whatever was configured.
LEMMA EffectiveType ==
  ASSUME NEW d \in Int
  PROVE  Effective(d) \in Nat \ {0}
BY TimeAssumption DEF Effective

\* An ordering of a finite set is a sequence that enumerates it.
LEMMA OrderingEnumerates ==
  ASSUME NEW S, S \subseteq Ids, NEW s \in Orderings(S)
  PROVE  s \in Seq(Ids) /\ Enumerates(s, S)
<1>1. IsFiniteSet(S)
  BY IdsAssumption, FS_Subset
<1>2. Cardinality(S) \in Nat
  BY <1>1, FS_CardinalityType
<1>3. s \in [1..Cardinality(S) -> S]
  BY DEF Orderings
<1>4. s \in Seq(S)
  BY <1>2, <1>3
<1>5. s \in Seq(Ids)
  BY <1>4
<1>6. Enumerates(s, S)
  BY <1>3 DEF Orderings, Enumerates
<1> QED BY <1>5, <1>6

\* Appending a new member to an enumeration enumerates the set with it.
LEMMA AppendEnumerates ==
  ASSUME NEW S \in SUBSET Ids, NEW s \in Seq(Ids), Enumerates(s, S),
         NEW id \in Ids, id \notin S
  PROVE  Append(s, id) \in Seq(Ids) /\ Enumerates(Append(s, id), S \union {id})
<1> DEFINE t == Append(s, id)
<1>1. /\ t \in Seq(Ids) /\ Len(t) = Len(s) + 1 /\ Len(s) \in Nat
      /\ DOMAIN t = 1..Len(s) + 1 /\ DOMAIN s = 1..Len(s)
      /\ \A i \in 1..Len(s) : t[i] = s[i]
      /\ t[Len(s) + 1] = id
  OBVIOUS
<1> HIDE DEF t
<1>2. \A x \in S \union {id} : \E i \in DOMAIN t : t[i] = x
  BY <1>1 DEF Enumerates
<1>3. \A i \in DOMAIN t : t[i] \in S \union {id}
  BY <1>1 DEF Enumerates
<1>4. \A i, j \in DOMAIN t : t[i] = t[j] => i = j
  <2> SUFFICES ASSUME NEW i \in DOMAIN t, NEW j \in DOMAIN t, t[i] = t[j]
               PROVE  i = j
    OBVIOUS
  <2>1. CASE i \in DOMAIN s /\ j \in DOMAIN s
    BY <1>1, <2>1 DEF Enumerates
  <2>2. CASE i \in DOMAIN s /\ j = Len(s) + 1
    BY <1>1, <2>2 DEF Enumerates
  <2>3. CASE j \in DOMAIN s /\ i = Len(s) + 1
    BY <1>1, <2>3 DEF Enumerates
  <2>4. CASE i = Len(s) + 1 /\ j = Len(s) + 1
    BY <2>4
  <2> QED BY <1>1, <2>1, <2>2, <2>3, <2>4
<1> QED BY <1>1, <1>2, <1>3, <1>4 DEF Enumerates, t

\* With an exact index, a reader of a mailbox is shown the stored mails for it.
LEMMA ListingExact ==
  ASSUME TypeOK, IndexExact, NEW a \in Addresses
  PROVE  ListMailbox(a) = AddressedTo(byID, a)
BY DEF IndexExact, Enumerates, ListMailbox, AddressedTo, Live

-----------------------------------------------------------------------------
(* The inductive invariant.                                                *)

LEMMA InitIInv == Init => IInv
<1> SUFFICES ASSUME Init PROVE IInv
  OBVIOUS
<1>1. DOMAIN byID = {} /\ DOMAIN inflight = {}
  BY DEF Init
<1>2. \A a \in Addresses : mailbox[a] = << >>
  BY DEF Init
<1>3. TypeOK
  BY <1>1, TimeAssumption DEF Init, TypeOK, Live
<1>4. IndexExact
  BY <1>1, <1>2 DEF IndexExact, Enumerates, AddressedTo
<1>5. JanitorPatient
  BY DEF Init, JanitorPatient
<1> QED BY <1>3, <1>4, <1>5 DEF IInv

\* The types are preserved by every step.
LEMMA NextTypeOK == IInv /\ [Next]_vars => TypeOK'
<1> SUFFICES ASSUME IInv, [Next]_vars PROVE TypeOK'
  OBVIOUS
<1> USE DEF IInv, TypeOK, Live
<1>1. ASSUME NEW id \in Ids, NEW recipients \in SUBSET Spellings, NewMessage(id, recipients)
      PROVE  TypeOK'
  <2>1. NormalizeRecipients(recipients) \in SUBSET Addresses
    BY NormAssumption DEF NormalizeRecipients
  <2>2. [to |-> NormalizeRecipients(recipients), receivedAt |-> now] \in Message
    BY <2>1, TimeAssumption DEF Message
  <2>3. inflight' \in [DOMAIN inflight \union {id} -> Message]
    BY <1>1, <2>2 DEF NewMessage
  <2> QED BY <1>1, <2>3 DEF NewMessage
<1>2. ASSUME NEW id \in Ids, Add(id)
      PROVE  TypeOK'
  <2>1. inflight[id] \in Message /\ inflight[id].to \in SUBSET Addresses
    BY <1>2 DEF Add, Message
  <2>2. mailbox' \in [Addresses -> Seq(Ids)]
    BY <1>2 DEF Add, Index
  <2>3. byID' \in [DOMAIN byID \union {id} -> Message]
    BY <1>2, <2>1 DEF Add
  <2>4. inflight' \in [DOMAIN inflight \ {id} -> Message]
    BY <1>2 DEF Add
  <2> QED BY <1>2, <2>2, <2>3, <2>4 DEF Add
<1>3. ASSUME NEW duration \in Retentions, Configure(duration)
      PROVE  TypeOK'
  <2>1. Effective(duration) \in Nat \ {0}
    BY EffectiveType, TimeAssumption
  <2> QED BY <1>3, <2>1 DEF Configure
<1>4. CASE JanitorTick
  <2>1. Effective(retention) \in Nat \ {0}
    BY EffectiveType, TimeAssumption
  <2>2. janitor' \in [pc : {"idle", "clock", "sweep"}, at : 0..now, keep : Nat \ {0}]
    <3>1. now \in 0..now
      BY TimeAssumption
    <3> QED BY <1>4, <3>1 DEF JanitorTick
  <2> QED BY <1>4, <2>1, <2>2 DEF JanitorTick
<1>5. CASE JanitorRetention
  <2>1. Effective(retention) \in Nat \ {0}
    BY EffectiveType, TimeAssumption
  <2>2. janitor' \in [pc : {"idle", "clock", "sweep"}, at : 0..now, keep : Nat \ {0}]
    BY <1>5, <2>1 DEF JanitorRetention
  <2> QED BY <1>5, <2>2 DEF JanitorRetention
<1>6. CASE Cleanup
  <2>1. PICK gone : byID' = [id \in DOMAIN byID \ gone |-> byID[id]]
    BY <1>6 DEF Cleanup
  <2>2. byID' \in [DOMAIN byID \ gone -> Message] /\ DOMAIN byID' \subseteq DOMAIN byID
    BY <2>1
  <2>3. janitor' \in [pc : {"idle", "clock", "sweep"}, at : 0..now, keep : Nat \ {0}]
    BY <1>6 DEF Cleanup
  <2>4. mailbox' \in [Addresses -> Seq(Ids)]
    <3>1. CASE mailbox' = mailbox
      BY <3>1
    <3>2. CASE mailbox' \in Reindexed(byID')
      <4>1. \A a \in Addresses : AddressedTo(byID', a) \subseteq Ids
        BY <2>2 DEF AddressedTo
      <4>2. \A a \in Addresses : mailbox'[a] \in Seq(Ids)
        BY <3>2, <4>1, OrderingEnumerates DEF Reindexed
      <4>3. mailbox' \in [Addresses -> UNION {Orderings(AddressedTo(byID', a)) : a \in Addresses}]
        BY <3>2 DEF Reindexed
      <4> QED BY <4>2, <4>3
    <3> QED BY <1>6, <3>1, <3>2 DEF Cleanup
  <2> QED BY <1>6, <2>2, <2>3, <2>4 DEF Cleanup
<1>7. CASE Tick
  <2>1. now' \in 0..MaxTime /\ janitor.at \in 0..now'
    BY <1>7, TimeAssumption DEF Tick
  <2>2. janitor' \in [pc : {"idle", "clock", "sweep"}, at : 0..now', keep : Nat \ {0}]
    BY <1>7, <2>1 DEF Tick
  <2> QED BY <1>7, <2>1, <2>2 DEF Tick
<1>8. CASE UNCHANGED vars
  BY <1>8 DEF vars
<1> QED BY <1>1, <1>2, <1>3, <1>4, <1>5, <1>6, <1>7, <1>8 DEF Next, Janitor


\* The index is kept exact by every step.
LEMMA NextIndexExact == IInv /\ [Next]_vars => IndexExact'
<1> SUFFICES ASSUME IInv, [Next]_vars, NEW a \in Addresses
             PROVE  Enumerates(mailbox'[a], AddressedTo(byID', a))
  BY DEF IndexExact
<1> USE DEF IInv
<1>1. Enumerates(mailbox[a], AddressedTo(byID, a))
  BY DEF IndexExact
<1>2. AddressedTo(byID, a) \in SUBSET Ids /\ mailbox[a] \in Seq(Ids)
  BY DEF TypeOK, AddressedTo, Live
<1>3. ASSUME NEW id \in Ids, Add(id)
      PROVE  Enumerates(mailbox'[a], AddressedTo(byID', a))
  <2>1. id \notin DOMAIN byID
    BY <1>3 DEF Add, TypeOK, Live
  <2>2. CASE a \in inflight[id].to
    <3>1. AddressedTo(byID', a) = AddressedTo(byID, a) \union {id}
      BY <1>3, <2>1, <2>2 DEF Add, AddressedTo, Live
    <3>2. mailbox'[a] = Append(mailbox[a], id)
      BY <1>3, <2>2 DEF Add, Index
    <3>3. id \notin AddressedTo(byID, a)
      BY <2>1 DEF AddressedTo
    <3> QED BY <1>1, <1>2, <3>1, <3>2, <3>3, AppendEnumerates
  <2>3. CASE a \notin inflight[id].to
    <3>1. AddressedTo(byID', a) = AddressedTo(byID, a)
      BY <1>3, <2>1, <2>3 DEF Add, AddressedTo, Live
    <3>2. mailbox'[a] = mailbox[a]
      BY <1>3, <2>3 DEF Add, Index
    <3> QED BY <1>1, <3>1, <3>2
  <2> QED BY <2>2, <2>3
<1>4. CASE Cleanup
  <2>1. PICK gone : /\ byID' = [id \in DOMAIN byID \ gone |-> byID[id]]
                    /\ IF gone = {} THEN mailbox' = mailbox ELSE mailbox' \in Reindexed(byID')
    BY <1>4 DEF Cleanup, Live
  <2>2. CASE gone = {}
    <3>1. AddressedTo(byID', a) = AddressedTo(byID, a)
      BY <2>1, <2>2 DEF AddressedTo
    <3> QED BY <1>1, <2>1, <2>2, <3>1
  <2>3. CASE gone # {}
    <3>1. mailbox'[a] \in Orderings(AddressedTo(byID', a))
      BY <2>1, <2>3 DEF Reindexed
    <3>2. AddressedTo(byID', a) \subseteq Ids
      BY <2>1 DEF AddressedTo, TypeOK, Live
    <3> QED BY <3>1, <3>2, OrderingEnumerates
  <2> QED BY <2>2, <2>3
<1>5. CASE UNCHANGED <<byID, mailbox>>
  BY <1>1, <1>5
<1>6. ASSUME NEW id \in Ids, NEW recipients \in SUBSET Spellings, NewMessage(id, recipients)
      PROVE  UNCHANGED <<byID, mailbox>>
  BY <1>6 DEF NewMessage
<1> QED BY <1>3, <1>4, <1>5, <1>6
     DEF Next, Janitor, Configure, JanitorTick, JanitorRetention, Tick, vars

\* The janitor stays patient: Configure can only lower leastRetention.
LEMMA NextJanitorPatient == IInv /\ [Next]_vars => JanitorPatient'
<1> SUFFICES ASSUME IInv, [Next]_vars PROVE JanitorPatient'
  OBVIOUS
<1> USE DEF IInv, JanitorPatient
<1>1. CASE JanitorTick
  <2>1. Effective(retention) \in Nat \ {0}
    BY EffectiveType, TimeAssumption DEF TypeOK
  <2> QED BY <1>1, <2>1 DEF JanitorTick, TypeOK
<1>2. CASE JanitorRetention
  BY <1>2 DEF JanitorRetention, TypeOK
<1>3. ASSUME NEW duration \in Retentions, Configure(duration)
      PROVE  JanitorPatient'
  <2>1. Effective(duration) \in Nat \ {0} /\ Effective(retention') = Effective(duration)
    BY <1>3, EffectiveType, TimeAssumption DEF Configure
  <2> QED BY <1>3, <2>1 DEF Configure, TypeOK
<1>4. CASE Cleanup
  BY <1>4 DEF Cleanup, TypeOK
<1>5. CASE UNCHANGED <<janitor, retention, leastRetention>>
  BY <1>5 DEF Effective
<1> QED BY <1>1, <1>2, <1>3, <1>4, <1>5 DEF Next, Janitor, NewMessage, Add, Tick, vars

LEMMA NextIInv == IInv /\ [Next]_vars => IInv'
BY NextTypeOK, NextIndexExact, NextJanitorPatient DEF IInv

LEMMA Invariance == Spec => []IInv
BY InitIInv, NextIInv, PTL DEF Spec

-----------------------------------------------------------------------------
(* The theorems.                                                           *)

\* Every variable of the mail store keeps its type, and no mail is stored and
\* in flight at once.
THEOREM TypeCorrect == Spec => []TypeOK
BY Invariance, PTL DEF IInv

\* The index of every address names exactly the stored mails sent to it, each
\* once, whatever the interleaving of sessions and sweeps.
THEOREM IndexCorrect == Spec => []IndexExact
BY Invariance, PTL DEF IInv

\* No sweep removes a mail that is not older than the shortest retention in
\* force since the janitor's tick.
THEOREM NoEarlyRemoval == Spec => NeverEarly
<1>1. IInv /\ [Next]_vars =>
        [\A id \in Live \ DOMAIN byID' : now - byID[id].receivedAt > leastRetention]_vars
  <2> SUFFICES ASSUME IInv, [Next]_vars, NEW id \in Live \ DOMAIN byID'
               PROVE  now - byID[id].receivedAt > leastRetention
    OBVIOUS
  <2> USE DEF IInv, Live
  <2>1. CASE Cleanup
    <3>1. id \in Expired(byID, janitor.at - janitor.keep)
      BY <2>1 DEF Cleanup
    <3>2. byID[id].receivedAt < janitor.at - janitor.keep
      BY <3>1 DEF Expired
    <3>3. byID[id].receivedAt \in Nat
      BY DEF TypeOK, Message
    <3>4. janitor.at <= now /\ janitor.at \in Nat /\ janitor.keep \in Nat
      BY DEF TypeOK
    <3>5. leastRetention <= janitor.keep /\ leastRetention \in Nat /\ now \in Nat
      BY <2>1, TimeAssumption DEF Cleanup, JanitorPatient, TypeOK
    <3> QED BY <3>2, <3>3, <3>4, <3>5
  <2>2. CASE DOMAIN byID \subseteq DOMAIN byID'
    BY <2>2
  <2> QED BY <2>1, <2>2
       DEF Next, Janitor, NewMessage, Add, Configure, JanitorTick, JanitorRetention, Tick, vars
<1> QED BY <1>1, Invariance, PTL DEF Spec, NeverEarly

\* The mail store implements Inbox: every step is a delivery to all of a mail's
\* inboxes, an expiry from all of them, or invisible to every reader.
THEOREM Refinement == Spec => ImplementsInbox
<1> DEFINE Shown == [a \in Addresses |-> ListMailbox(a)]
<1>1. ASSUME TypeOK, IndexExact
      PROVE  Shown = [a \in Addresses |-> AddressedTo(byID, a)]
  BY <1>1, ListingExact
<1>2. Init => Inboxes!Init
  <2> SUFFICES ASSUME Init PROVE Inboxes!Init
    OBVIOUS
  <2>1. \A a \in Addresses : ListMailbox(a) = {}
    BY DEF Init, ListMailbox, Live
  <2>2. drawn \ DOMAIN inflight = {}
    BY DEF Init
  <2> QED BY <2>1, <2>2 DEF Inboxes!Init
<1>3. IInv /\ IInv' /\ [Next]_vars => [Inboxes!Next]_(Inboxes!inboxVars)
  <2> SUFFICES ASSUME IInv, IInv', [Next]_vars
               PROVE  Inboxes!Next \/ UNCHANGED Inboxes!inboxVars
    OBVIOUS
  <2>1. Shown = [a \in Addresses |-> AddressedTo(byID, a)]
    BY <1>1 DEF IInv
  <2>2. Shown' = [a \in Addresses |-> AddressedTo(byID', a)]
    <3>1. \A a \in Addresses : ListMailbox(a)' = AddressedTo(byID', a)
      BY DEF IInv, IndexExact, Enumerates, ListMailbox, AddressedTo, Live
    <3> QED BY <3>1
  <2> HIDE DEF Shown
  <2>3. ASSUME NEW id \in Ids, Add(id)
        PROVE  Inboxes!Deliver(id, inflight[id].to) /\ inflight[id].to \in SUBSET Addresses
    <3>1. id \in drawn /\ id \in DOMAIN inflight /\ id \notin Live
      BY <2>3 DEF Add, IInv, TypeOK
    <3>2. /\ drawn' \ DOMAIN inflight' = (drawn \ DOMAIN inflight) \union {id}
          /\ id \notin drawn \ DOMAIN inflight
      BY <2>3, <3>1 DEF Add
    <3>3. ASSUME NEW a \in Addresses
          PROVE  AddressedTo(byID', a) = IF a \in inflight[id].to
                                         THEN AddressedTo(byID, a) \union {id}
                                         ELSE AddressedTo(byID, a)
      BY <2>3, <3>1 DEF Add, AddressedTo, Live
    <3>4. Shown' = [a \in Addresses |-> IF a \in inflight[id].to
                                        THEN Shown[a] \union {id} ELSE Shown[a]]
      BY <2>1, <2>2, <3>3
    <3>5. inflight[id].to \in SUBSET Addresses
      BY <3>1 DEF IInv, TypeOK, Message
    <3> QED BY <3>2, <3>4, <3>5 DEF Inboxes!Deliver, Shown
  <2>4. ASSUME Cleanup
        PROVE  \E gone \in SUBSET Ids : Inboxes!Expire(gone)
    <3> DEFINE gone == Expired(byID, janitor.at - janitor.keep)
    <3>1. byID' = [id \in Live \ gone |-> byID[id]] /\ UNCHANGED <<drawn, inflight>>
      BY <2>4 DEF Cleanup
    <3>2. gone \in SUBSET Ids
      BY DEF Expired, IInv, TypeOK, Live
    <3> HIDE DEF gone
    <3>3. \A a \in Addresses : AddressedTo(byID', a) = AddressedTo(byID, a) \ gone
      BY <3>1 DEF AddressedTo, Live
    <3>4. Shown' = [a \in Addresses |-> Shown[a] \ gone]
      BY <2>1, <2>2, <3>3
    <3>5. Inboxes!Expire(gone)
      BY <3>1, <3>4 DEF Inboxes!Expire, Shown
    <3> QED BY <3>2, <3>5
  <2>5. ASSUME NEW id \in Ids, NEW recipients \in SUBSET Spellings, NewMessage(id, recipients)
        PROVE  UNCHANGED Inboxes!inboxVars
    <3>1. byID' = byID /\ drawn' \ DOMAIN inflight' = drawn \ DOMAIN inflight
      BY <2>5 DEF NewMessage, IInv, TypeOK
    <3>2. Shown' = Shown
      BY <2>1, <2>2, <3>1
    <3> QED BY <3>1, <3>2 DEF Inboxes!inboxVars, Shown
  <2>6. CASE UNCHANGED <<byID, drawn, inflight>>
    <3>1. Shown' = Shown
      BY <2>1, <2>2, <2>6
    <3> QED BY <2>6, <3>1 DEF Inboxes!inboxVars, Shown
  <2> QED BY <2>3, <2>4, <2>5, <2>6
       DEF Next, Janitor, Configure, JanitorTick, JanitorRetention, Tick, vars, Inboxes!Next
<1> QED BY <1>2, <1>3, Invariance, PTL DEF Spec, ImplementsInbox, Inboxes!Spec

=============================================================================
