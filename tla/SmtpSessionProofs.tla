-------------------------- MODULE SmtpSessionProofs --------------------------
(***************************************************************************)
(* Proofs about SmtpSession, for any number of connections, any addresses, *)
(* settings and paths, and any limit of the log.                           *)
(*                                                                         *)
(* A transaction is known by the number of its MAIL event, so no two       *)
(* sessions are in the same one (Apart), and a session holds what was      *)
(* accepted in its own (InTransaction).  A mail is stored from there, and  *)
(* since no mail of that transaction is in the store before (NotYet), what *)
(* a later RCPT accepts cannot belong to a mail.                           *)
(*                                                                         *)
(* What the log tells is said of the events by their numbers rather than   *)
(* by their places in it, which shift: the log has the events from Oldest  *)
(* on, an event comes after its MAIL (AfterMail), and of a transaction     *)
(* whose MAIL is still there nothing is gone (SessionTold, StoredTold).    *)
(***************************************************************************)
EXTENDS SmtpSession, SequenceTheorems, TLAPS

Underway == {"data", "silent", "stored"}

\* A session holds the recipients accepted in its transaction, and has some
\* once Data has begun; outside of a transaction it holds none.
InTransaction ==
    \A c \in Connections :
        LET session == connection[c]
        IN  /\ session.recipients = {address \in Address : <<session.from, address>> \in accepted}
            /\ session.mailed <=> session.from # 0
            /\ session.pc \in {"none", "connected", "closed"} => session.from = 0
            /\ session.pc \in Underway => session.recipients # {} /\ session.from # 0

\* No two sessions are in one transaction.
Apart ==
    \A c, d \in Connections :
        c # d => connection[c].from = 0 \/ connection[c].from # connection[d].from

\* A transaction has a mail in the store when its session has stored it.
NotYet ==
    \A c \in Connections : connection[c].from # 0 =>
        IF connection[c].pc = "stored"
        THEN [from |-> connection[c].from, to |-> connection[c].recipients] \in mails
        ELSE \A mail \in mails : mail.from # connection[c].from

\* A mail is for whom RCPT accepted in its transaction.
MailsMatch ==
    \A mail \in mails : mail.to = {address \in Address : <<mail.from, address>> \in accepted}

AnsweredStored == \A from \in answered : \E mail \in mails : mail.from = from

\* The number of the oldest event the log shows, if it shows any.
Oldest == next - Len(log) + 1

\* The log is what was recorded last, in order.
Newest ==
    /\ Len(log) = since
    /\ \A i \in DOMAIN log : log[i].id = next - Len(log) + i

Events == Range(log)

\* An event of a transaction is its MAIL or comes after it.
AfterMail == \A event \in Events : event.from <= event.id

Begun(events, from, recipients, by) ==
    \E event \in events : /\ event.type = "data_start" /\ event.from = from
                          /\ event.recipients = recipients /\ event.id < by

AcceptedIn(events, from, address, by) ==
    \E event \in events : /\ event.type = "rcpt_accept" /\ event.from = from
                          /\ address \in event.recipients /\ event.id < by

\* A session whose MAIL the log still shows is in it with all its recipients,
\* and with Data when that has begun.
SessionTold ==
    \A c \in Connections : (connection[c].from # 0 /\ Oldest <= connection[c].from) =>
        /\ \A address \in connection[c].recipients :
              AcceptedIn(Events, connection[c].from, address, next + 1)
        /\ connection[c].pc \in Underway =>
              Begun(Events, connection[c].from, connection[c].recipients, next + 1)

\* A mail the log calls stored is, and if the log still shows its MAIL, it shows
\* Data and the recipients too, before it.
StoredTold ==
    \A event \in Events : (event.type = "mail_stored" /\ Oldest <= event.from) =>
        /\ [from |-> event.from, to |-> event.recipients] \in mails
        /\ Begun(Events, event.from, event.recipients, event.id)
        /\ \A address \in event.recipients : AcceptedIn(Events, event.from, address, event.id)

\* The address handed out last is one the sessions take.
HandedValid ==
    handed # Nothing => HasDomain(handed.domain) /\ ~ IsReservedLocalPart(handed.local)

TransactionInv == InTransaction /\ Apart /\ NotYet /\ MailsMatch

MailInv == TransactionInv /\ AnsweredStored

LogInv == Newest /\ AfterMail /\ SessionTold /\ StoredTold

IInv == TypeOK /\ MailInv /\ LogInv /\ HandedValid

-----------------------------------------------------------------------------
(* What the steps record.                                                  *)

\* What a record of TypeOK is made of.
Session ==
    [pc : {"none", "connected", "idle", "data", "silent", "stored", "closed"},
     mailed : BOOLEAN, taken : 0..MaxRecipients, from : 0..next, recipients : SUBSET Address]

LEMMA SessionTyped ==
  ASSUME TypeOK, NEW c \in Connections
  PROVE  /\ connection[c] \in Session
         /\ connection[c].from \in 0..next /\ connection[c].recipients \subseteq Address
         /\ connection[c].taken \in 0..MaxRecipients /\ next \in Nat
BY DEF TypeOK, Session

\* A step records nothing, empties the log, or records one event.
LEMMA StepRecords ==
  ASSUME TypeOK, Next
  PROVE  \/ NothingRecorded
         \/ Clear
         \/ \E event \in Event : /\ event.id = next + 1 /\ event.from <= next + 1
                                 /\ Record(event.type, event.from, event.recipients)
<1> DEFINE New(type, from, recipients) ==
             [id |-> next + 1, type |-> type, from |-> from, recipients |-> recipients]
           Told == \E event \in Event : /\ event.id = next + 1 /\ event.from <= next + 1
                                        /\ Record(event.type, event.from, event.recipients)
<1>1. next \in Nat
  BY DEF TypeOK
<1>2. ASSUME NEW type \in {"listen_start", "listen_error", "connect", "helo", "mail_from",
                           "rcpt_accept", "rcpt_reject", "data_start", "data_error", "mail_stored"},
             NEW from \in 0..(next + 1), NEW recipients \in SUBSET Address,
             Record(type, from, recipients)
      PROVE  Told
  <2>1. New(type, from, recipients) \in Event
    BY <1>1 DEF Event
  <2>2. Record(New(type, from, recipients).type, New(type, from, recipients).from,
               New(type, from, recipients).recipients)
    BY <1>2
  <2> QED BY <1>1, <2>1, <2>2
<1> HIDE DEF Told
<1>3. ASSUME Listen PROVE Told
  BY <1>1, <1>2, <1>3 DEF Listen
<1>4. ASSUME Bind PROVE NothingRecorded \/ Told
  BY <1>1, <1>2, <1>4 DEF Bind
<1>5. ASSUME NEW c \in Connections, Accept(c) \/ NewSession(c) \/ Mail(c)
      PROVE  Told
  BY <1>1, <1>2, <1>5 DEF Accept, NewSession, Mail
<1>6. ASSUME NEW c \in Connections, Data(c) \/ ReadFails(c) \/ Answer(c)
      PROVE  Told
  <2>1. connection[c].from \in 0..(next + 1) /\ connection[c].recipients \in SUBSET Address
    BY <1>1, SessionTyped
  <2> QED BY <1>2, <1>6, <2>1 DEF Data, ReadFails, Answer
<1>7. ASSUME NEW c \in Connections, NEW path \in Paths, RcptAccept(c, path) \/ RcptReject(c, path)
      PROVE  Told
  <2>1. connection[c].from \in 0..(next + 1) /\ connection[c].recipients \in SUBSET Address
    BY <1>1, SessionTyped
  <2>2. NormalizePath[path] \in Address \union {Malformed}
    BY SmtpAssumption
  <2>3. CASE RcptAccept(c, path)
    <3>1. NormalizePath[path] \in Address
      BY <2>2, <2>3 DEF RcptAccept, ValidRecipient
    <3> QED BY <1>2, <2>1, <2>3, <3>1 DEF RcptAccept
  <2>4. CASE RcptReject(c, path)
    <3>1. {NormalizePath[path]} \ {Malformed} \in SUBSET Address
      BY <2>2
    <3> QED BY <1>2, <2>1, <2>4, <3>1 DEF RcptReject
  <2> QED BY <1>7, <2>3, <2>4
<1>8. ASSUME NEW c \in Connections, Reset(c) \/ Quit(c) \/ FallSilent(c) \/ Store(c)
      PROVE  NothingRecorded
  BY <1>8 DEF Reset, Quit, FallSilent, Store
<1>9. ASSUME NEW address \in Address, RandomMailbox(address) \/ CreateMailbox(address)
      PROVE  NothingRecorded
  BY <1>9 DEF RandomMailbox, CreateMailbox
<1>10. ASSUME NEW form \in Settings, Configure(form)
       PROVE  NothingRecorded
  BY <1>10 DEF Configure
<1> QED BY <1>3, <1>4, <1>5, <1>6, <1>7, <1>8, <1>9, <1>10 DEF Next, Receive, Told

\* What Record does to the log: the new event is its last, the oldest goes when
\* the limit is reached, and nothing else does.
LEMMA RecordEffect ==
  ASSUME TypeOK, Newest, NEW event \in Event, event.id = next + 1,
         Record(event.type, event.from, event.recipients)
  PROVE  /\ next' = next + 1 /\ log' \in Seq(Event) /\ since' \in 0..Limit /\ Newest'
         /\ Len(log') # 0 /\ log'[Len(log')] = event
         /\ Oldest \in Int /\ Oldest <= Oldest' /\ Oldest' <= next'
         /\ event \in Events'
         /\ \A old \in Events : old \in Event /\ old.id <= next
         /\ \A old \in Events : old.id >= Oldest' => old \in Events'
         /\ \A some \in Events' : some = event \/ some \in Events
<1>1. /\ next \in Nat /\ log \in Seq(Event) /\ since \in 0..Limit /\ Limit \in Nat \ {0}
      /\ Len(log) = since /\ DOMAIN log = 1..Len(log) /\ Len(log) \in Nat
  BY SmtpAssumption, LenProperties DEF TypeOK, Newest
<1>2. /\ next' = next + 1 /\ log' = Keep(Append(log, event))
      /\ since' = IF since = Limit THEN Limit ELSE since + 1
  <2>1. event = [id |-> next + 1, type |-> event.type, from |-> event.from,
                 recipients |-> event.recipients]
    BY DEF Event
  <2> QED BY <2>1 DEF Record
<1> DEFINE longer == Append(log, event)
<1>3. /\ longer \in Seq(Event) /\ Len(longer) = Len(log) + 1
      /\ \A i \in 1..Len(log) : longer[i] = log[i]
      /\ longer[Len(log) + 1] = event
  BY <1>1, AppendProperties
<1> HIDE DEF longer
<1>4. /\ log' \in Seq(Event) /\ Len(log') = since' /\ since' \in 0..Limit /\ since' # 0
      /\ log'[Len(log')] = event
      /\ \A i \in 1..Len(log') : log'[i] = longer[i + Len(log) + 1 - Len(log')]
      /\ Len(log') \in {Len(log), Len(log) + 1}
  <2>1. CASE since # Limit
    <3>1. log' = longer /\ since' = since + 1
      BY <1>1, <1>2, <1>3, <2>1 DEF Keep, longer
    <3> QED BY <1>1, <1>3, <2>1, <3>1
  <2>2. CASE since = Limit
    <3>1. log' = SubSeq(longer, 2, Len(longer)) /\ since' = Limit
      BY <1>1, <1>2, <1>3, <2>2 DEF Keep, longer
    <3>2. Limit + 1 = Len(longer) /\ Limit >= 1
      BY <1>1, <1>3, <2>2
    <3>3. /\ log' \in Seq(Event) /\ Len(log') = Limit
          /\ \A i \in 1..Limit : log'[i] = longer[i + 1]
      BY <1>1, <1>3, <3>1, <3>2
    <3> QED BY <1>1, <1>3, <2>2, <3>1, <3>2, <3>3
  <2> QED BY <2>1, <2>2
<1>5. /\ DOMAIN log' = 1..Len(log') /\ Len(log') \in Nat
      /\ \A i \in 1..Len(log') : i # Len(log') => i + Len(log) + 1 - Len(log') \in 1..Len(log)
      /\ \A i \in 1..Len(log) : i + Len(log') - Len(log) # 1 =>
            \E k \in 1..Len(log') : k + Len(log) + 1 - Len(log') = i
  <2>1. DOMAIN log' = 1..Len(log') /\ Len(log') \in Nat
    BY <1>4, LenProperties
  <2>2. CASE Len(log') = Len(log)
    BY <1>1, <2>1, <2>2
  <2>3. CASE Len(log') = Len(log) + 1
    BY <1>1, <2>1, <2>3
  <2> QED BY <1>4, <2>1, <2>2, <2>3
<1>6. \A i \in 1..Len(log) : log[i].id = next - Len(log) + i
  BY <1>1 DEF Newest
<1>7. Newest'
  <2>1. ASSUME NEW i \in 1..Len(log') PROVE log'[i].id = next' - Len(log') + i
    <3>1. CASE i = Len(log')
      <4>1. log'[i].id = next + 1
        BY <1>1, <1>4, <3>1
      <4>2. Len(log') \in Nat /\ next' = next + 1 /\ next \in Nat
        BY <1>1, <1>2, <1>5
      <4> QED BY <3>1, <4>1, <4>2
    <3>2. CASE i # Len(log')
      <4>1. i + Len(log) + 1 - Len(log') \in 1..Len(log)
        BY <1>5, <3>2
      <4>2. log'[i] = log[i + Len(log) + 1 - Len(log')]
        BY <1>3, <1>4, <4>1
      <4> QED BY <1>1, <1>2, <1>4, <1>5, <1>6, <4>1, <4>2
    <3> QED BY <3>1, <3>2
  <2> QED BY <1>4, <1>5, <2>1 DEF Newest
<1>8. Oldest \in Int /\ Oldest <= Oldest' /\ Oldest' <= next'
  BY <1>1, <1>2, <1>4, <1>5 DEF Oldest
<1>9. event \in Events'
  <2>1. Len(log') \in DOMAIN log'
    BY <1>4, <1>5
  <2> QED BY <1>4, <2>1 DEF Events, Range
<1>10. ASSUME NEW old \in Events
       PROVE /\ old \in Event /\ old.id <= next
             /\ old.id >= Oldest' => old \in Events'
  <2>1. PICK i \in 1..Len(log) : old = log[i]
    BY <1>1 DEF Events, Range
  <2>2. old \in Event /\ old.id = next - Len(log) + i
    BY <1>1, <1>6, <2>1
  <2>3. ASSUME old.id >= Oldest' PROVE old \in Events'
    <3>1. i + Len(log') - Len(log) # 1
      BY <1>1, <1>2, <1>4, <1>5, <2>1, <2>2, <2>3 DEF Oldest
    <3>2. PICK k \in 1..Len(log') : k + Len(log) + 1 - Len(log') = i
      BY <1>5, <2>1, <3>1
    <3>3. log'[k] = longer[i]
      BY <1>4, <3>2
    <3> QED BY <1>3, <1>5, <2>1, <3>2, <3>3 DEF Events, Range
  <2> QED BY <1>1, <2>2, <2>3
<1>11. ASSUME NEW some \in Events' PROVE some = event \/ some \in Events
  <2>1. PICK i \in 1..Len(log') : some = log'[i]
    BY <1>5 DEF Events, Range
  <2>2. CASE i = Len(log')
    BY <1>4, <2>1, <2>2
  <2>3. CASE i # Len(log')
    <3>1. i + Len(log) + 1 - Len(log') \in 1..Len(log)
      BY <1>5, <2>3
    <3>2. some = log[i + Len(log) + 1 - Len(log')]
      BY <1>3, <1>4, <2>1, <3>1
    <3> QED BY <1>1, <3>1, <3>2 DEF Events, Range
  <2> QED BY <2>2, <2>3
<1> QED BY <1>2, <1>4, <1>7, <1>8, <1>9, <1>10, <1>11

-----------------------------------------------------------------------------
(* Types.                                                                  *)

LEMMA ConsequencesTyped ==
  ASSUME TypeOK, Newest, [Next]_vars
  PROVE  /\ log' \in Seq(Event) /\ next' \in Nat /\ since' \in 0..Limit
         /\ next <= next' /\ Newest'
<1>1. log \in Seq(Event) /\ next \in Nat /\ since \in 0..Limit /\ Limit \in Nat
  BY SmtpAssumption DEF TypeOK
<1>2. CASE NothingRecorded
  <2>1. log' = log /\ next' = next /\ since' = since
    BY <1>2 DEF NothingRecorded
  <2>2. Newest'
    BY <2>1 DEF Newest
  <2> QED BY <1>1, <2>1, <2>2
<1>3. CASE Clear
  <2>1. log' = << >> /\ since' = 0 /\ next' = next
    BY <1>3 DEF Clear
  <2>2. << >> \in Seq(Event) /\ Len(<< >>) = 0 /\ DOMAIN << >> = {}
    OBVIOUS
  <2>3. Len(log') = since' /\ DOMAIN log' = {} /\ log' \in Seq(Event)
    BY <2>1, <2>2
  <2>4. Newest'
    BY <2>3 DEF Newest
  <2> QED BY <1>1, <2>1, <2>3, <2>4
<1>4. ASSUME NEW event \in Event, event.id = next + 1,
             Record(event.type, event.from, event.recipients)
      PROVE  /\ log' \in Seq(Event) /\ next' \in Nat /\ since' \in 0..Limit
             /\ next <= next' /\ Newest'
  BY <1>1, <1>4, RecordEffect
<1>5. UNCHANGED vars => NothingRecorded
  BY DEF vars, NothingRecorded
<1> QED BY <1>2, <1>3, <1>4, <1>5, StepRecords

\* The rest of TypeOK, for a step that changes one session at most.
LEMMA OneSessionTyped ==
  ASSUME TypeOK, next' \in Nat, next <= next', NEW c \in Connections, NEW session \in Session',
         connection' = [connection EXCEPT ![c] = session]
  PROVE  connection' \in [Connections -> Session']
<1>1. connection \in [Connections -> Session] /\ next \in Nat
  BY DEF TypeOK, Session
<1>2. Session \subseteq Session'
  BY <1>1 DEF Session
<1> QED BY <1>1, <1>2

LEMMA ConfigTyped ==
  ASSUME NEW form \in Settings
  PROVE  /\ Saved(form) \in Config /\ Saved(form).domains # {} /\ Saved(form).reserved # {}
         /\ \A domain \in Saved(form).domains : domain \in {Canonical[d] : d \in DomainNames}
<1>1. /\ form.domains \subseteq DomainNames /\ form.reserved \subseteq Locals
      /\ Default.domains \subseteq DomainNames /\ Default.domains # {}
      /\ Default.reserved \subseteq Locals /\ Default.reserved # {}
  BY SmtpAssumption DEF Config
<1>2. \A domain \in Default.domains : domain \in {Canonical[d] : d \in DomainNames}
  BY <1>1, SmtpAssumption
<1>3. {Canonical[domain] : domain \in form.domains} \subseteq {Canonical[d] : d \in DomainNames}
  BY <1>1
<1>4. {Canonical[d] : d \in DomainNames} \subseteq DomainNames
  BY SmtpAssumption
<1> QED BY <1>1, <1>2, <1>3, <1>4 DEF Saved, Config

LEMMA NextTypeOK == TypeOK /\ Newest /\ InTransaction /\ [Next]_vars => TypeOK'
<1> SUFFICES ASSUME TypeOK, Newest, InTransaction, [Next]_vars PROVE TypeOK'
  OBVIOUS
<1>1. /\ log' \in Seq(Event) /\ next' \in Nat /\ since' \in 0..Limit /\ next <= next'
      /\ next \in Nat
  BY ConsequencesTyped DEF TypeOK
<1>2. 0..next \subseteq 0..next' /\ 1..next \subseteq 1..next'
  BY <1>1
<1>3. /\ config' \in Config /\ config'.domains # {} /\ config'.reserved # {}
      /\ \A domain \in config'.domains : domain \in {Canonical[d] : d \in DomainNames}
  <2>1. CASE UNCHANGED config
    BY <2>1 DEF TypeOK
  <2>2. ASSUME NEW form \in Settings, Configure(form) PROVE config' = Saved(form)
    BY <2>2 DEF Configure
  <2>3. ASSUME NEW form \in Settings, Configure(form)
        PROVE  /\ config' \in Config /\ config'.domains # {} /\ config'.reserved # {}
               /\ \A domain \in config'.domains : domain \in {Canonical[d] : d \in DomainNames}
    BY <2>2, <2>3, ConfigTyped
  <2>4. (\E form \in Settings : Configure(form)) \/ UNCHANGED config
    BY DEF Next, Listen, Bind, Accept, NewSession, Mail, Reset, Data, Quit, RcptAccept,
           RcptReject, FallSilent, Receive, ReadFails, Store, Answer, RandomMailbox,
           CreateMailbox, Clear, Unheard, vars
  <2> QED BY <2>1, <2>3, <2>4
<1>4. server' \in {"new", "binding", "serving", "failed"}
  BY ZenonT(40) DEF TypeOK, Next, Listen, Bind, Accept, NewSession, Mail, Reset, Data, Quit, RcptAccept,
         RcptReject, FallSilent, Receive, ReadFails, Store, Answer, RandomMailbox,
         CreateMailbox, Configure, Clear, Unheard, vars
<1>5. connection' \in [Connections -> Session']
  <2>1. Session \subseteq Session' /\ connection \in [Connections -> Session]
    BY <1>2 DEF Session, TypeOK
  <2>2. CASE UNCHANGED connection
    BY <2>1, <2>2
  <2>3. ASSUME NEW c \in Connections, NEW session \in Session,
               connection' = [connection EXCEPT ![c] = session]
        PROVE  connection' \in [Connections -> Session']
    BY <2>1, <2>3
  <2>4. ASSUME NEW c \in Connections, NEW pc \in {"connected", "idle", "data", "silent", "stored"},
               connection' = [connection EXCEPT ![c].pc = pc]
        PROVE  connection' \in [Connections -> Session']
    <3>1. [connection[c] EXCEPT !.pc = pc] \in Session
      BY <2>1 DEF Session
    <3>2. connection' = [connection EXCEPT ![c] = [connection[c] EXCEPT !.pc = pc]]
      BY <2>4
    <3> QED BY <2>3, <3>1, <3>2
  <2>5. \A pc \in {"idle", "closed"} : AtRest(pc) \in Session
    BY <1>1, SmtpAssumption DEF AtRest, Session
  <2>6. ASSUME NEW c \in Connections, Mail(c)
        PROVE  connection' \in [Connections -> Session']
    <3>1. [connection[c] EXCEPT !.mailed = TRUE, !.from = next + 1, !.recipients = {}] \in Session'
      <4>1. next + 1 \in 0..next'
        BY <1>1, <2>6 DEF Mail, Record
      <4> QED BY <2>1, <4>1 DEF Session
    <3>2. connection' = [connection EXCEPT ![c] =
             [connection[c] EXCEPT !.mailed = TRUE, !.from = next + 1, !.recipients = {}]]
      BY <2>6 DEF Mail
    <3> QED BY <1>1, <3>1, <3>2, OneSessionTyped
  <2>7. ASSUME NEW c \in Connections, NEW path \in Paths, RcptAccept(c, path)
        PROVE  connection' \in [Connections -> Session']
    <3> DEFINE recipients == connection[c].recipients \union {NormalizePath[path]}
    <3>1. NormalizePath[path] \in Address
      BY <2>7, SmtpAssumption DEF RcptAccept, ValidRecipient
    <3>2. recipients \in SUBSET Address
      BY <3>1, SessionTyped
    <3>3. connection[c].taken + 1 \in 0..MaxRecipients
      BY <2>7, SessionTyped, SmtpAssumption DEF RcptAccept, RcptReaches
    <3>4. connection' = [connection EXCEPT ![c] =
             [connection[c] EXCEPT !.recipients = recipients, !.taken = connection[c].taken + 1]]
      BY <2>7 DEF RcptAccept
    <3> HIDE DEF recipients
    <3>5. [connection[c] EXCEPT !.recipients = recipients, !.taken = connection[c].taken + 1]
             \in Session
      BY <2>1, <3>2, <3>3 DEF Session
    <3> QED BY <2>3, <3>4, <3>5
  <2>8. ASSUME NEW c \in Connections,
               Accept(c) \/ NewSession(c) \/ FallSilent(c) \/ Store(c)
        PROVE  connection' \in [Connections -> Session']
    BY <2>4, <2>8 DEF Accept, NewSession, FallSilent, Store
  <2>9. ASSUME NEW c \in Connections, Reset(c) \/ Quit(c) \/ ReadFails(c) \/ Answer(c)
        PROVE  connection' \in [Connections -> Session']
    BY <2>3, <2>5, <2>9 DEF Reset, Quit, ReadFails, Answer
  <2>10. ASSUME NEW c \in Connections, Data(c)
         PROVE  connection' \in [Connections -> Session']
    BY <2>3, <2>4, <2>5, <2>10 DEF Data
  <2>11. \/ UNCHANGED connection
         \/ \E c \in Connections : \/ Mail(c) \/ Accept(c) \/ NewSession(c) \/ FallSilent(c)
                                   \/ Store(c) \/ Reset(c) \/ Quit(c) \/ ReadFails(c)
                                   \/ Answer(c) \/ Data(c)
                                   \/ \E path \in Paths : RcptAccept(c, path)
    BY DEF Next, Receive, Listen, Bind, RcptReject, RandomMailbox, CreateMailbox, Configure,
           Clear, Unheard, vars
  <2> QED BY <2>2, <2>6, <2>7, <2>8, <2>9, <2>10, <2>11
<1>6. mails' \subseteq [from : 1..next', to : (SUBSET Address) \ {{}}]
  <2>1. mails \subseteq [from : 1..next', to : (SUBSET Address) \ {{}}]
    BY <1>2 DEF TypeOK
  <2>2. ASSUME NEW c \in Connections, Store(c)
        PROVE  mails' \subseteq [from : 1..next', to : (SUBSET Address) \ {{}}]
    <3>1. connection[c].from # 0 /\ connection[c].recipients # {}
      BY <2>2 DEF Store, InTransaction, Underway
    <3>2. connection[c].from \in 1..next' /\ connection[c].recipients \in (SUBSET Address) \ {{}}
      BY <1>1, <3>1, SessionTyped
    <3> QED BY <2>1, <2>2, <3>2 DEF Store
  <2>3. (\E c \in Connections : Store(c)) \/ UNCHANGED mails
    BY DEF Next, Listen, Bind, Accept, NewSession, Mail, Reset, Data, Quit, RcptAccept,
           RcptReject, FallSilent, Receive, ReadFails, Answer, RandomMailbox,
           CreateMailbox, Configure, Clear, Unheard, vars
  <2> QED BY <2>1, <2>2, <2>3
<1>7. accepted' \subseteq (1..next') \X Address
  <2>1. accepted \subseteq (1..next') \X Address
    BY <1>2 DEF TypeOK
  <2>2. ASSUME NEW c \in Connections, NEW path \in Paths, RcptAccept(c, path)
        PROVE  accepted' \subseteq (1..next') \X Address
    <3>1. NormalizePath[path] \in Address
      BY <2>2, SmtpAssumption DEF RcptAccept, ValidRecipient
    <3>2. connection[c].from # 0
      BY <2>2 DEF RcptAccept, RcptReaches, InTransaction
    <3>3. connection[c].from \in 1..next'
      BY <1>1, <3>2, SessionTyped
    <3> QED BY <2>1, <2>2, <3>1, <3>3 DEF RcptAccept
  <2>3. (\E c \in Connections, path \in Paths : RcptAccept(c, path)) \/ UNCHANGED accepted
    BY DEF Next, Listen, Bind, Accept, NewSession, Mail, Reset, Data, Quit, Store,
           RcptReject, FallSilent, Receive, ReadFails, Answer, RandomMailbox,
           CreateMailbox, Configure, Clear, Unheard, vars
  <2> QED BY <2>1, <2>2, <2>3
<1>8. answered' \subseteq 1..next'
  <2>1. answered \subseteq 1..next'
    BY <1>2 DEF TypeOK
  <2>2. ASSUME NEW c \in Connections, Answer(c)
        PROVE  answered' \subseteq 1..next'
    <3>1. connection[c].from # 0
      BY <2>2 DEF Answer, InTransaction, Underway
    <3>2. connection[c].from \in 1..next'
      BY <1>1, <3>1, SessionTyped
    <3> QED BY <2>1, <2>2, <3>2 DEF Answer
  <2>3. (\E c \in Connections : Answer(c)) \/ UNCHANGED answered
    BY DEF Next, Listen, Bind, Accept, NewSession, Mail, Reset, Data, Quit, Store,
           RcptReject, RcptAccept, FallSilent, Receive, ReadFails, RandomMailbox,
           CreateMailbox, Configure, Clear, Unheard, vars
  <2> QED BY <2>1, <2>2, <2>3
<1>9. handed' \in Address \union {Nothing}
  BY DEF TypeOK, Next, Listen, Bind, Accept, NewSession, Mail, Reset, Data, Quit, RcptAccept,
         RcptReject, FallSilent, Receive, ReadFails, Store, Answer, RandomMailbox,
         CreateMailbox, Configure, Clear, Unheard, vars
<1> QED BY <1>1, <1>3, <1>4, <1>5, <1>6, <1>7, <1>8, <1>9 DEF TypeOK, Session

-----------------------------------------------------------------------------
(* Mails and transactions.                                                 *)

\* What most steps do to a session: it stays in its transaction, or is in none.
Stays(c) ==
    LET session == connection'[c]
    IN  /\ session.from = connection[c].from
        /\ session.recipients = connection[c].recipients
        /\ session.mailed = connection[c].mailed
        /\ session.pc \in {"none", "connected", "closed"} => session.from = 0
        /\ session.pc \in Underway => session.recipients # {} /\ session.from # 0
        /\ session.pc = "stored" <=> connection[c].pc = "stored"

Rests(c) == \E pc \in {"idle", "closed"} : connection'[c] = AtRest(pc)

LEMMA QuietStep ==
  ASSUME TypeOK, TransactionInv, UNCHANGED <<mails, accepted>>,
         \A c \in Connections : Stays(c) \/ Rests(c)
  PROVE  TransactionInv'
<1>1. accepted \subseteq (1..next) \X Address /\ next \in Nat
  BY DEF TypeOK
<1>2. InTransaction'
  <2> SUFFICES ASSUME NEW c \in Connections
               PROVE  /\ connection'[c].recipients =
                            {address \in Address : <<connection'[c].from, address>> \in accepted}
                      /\ connection'[c].mailed <=> connection'[c].from # 0
                      /\ connection'[c].pc \in {"none", "connected", "closed"} =>
                            connection'[c].from = 0
                      /\ connection'[c].pc \in Underway =>
                            connection'[c].recipients # {} /\ connection'[c].from # 0
    BY DEF InTransaction, Underway
  <2>1. CASE Stays(c)
    BY <2>1 DEF Stays, TransactionInv, InTransaction
  <2>2. CASE Rests(c)
    <3>1. \A address \in Address : <<0, address>> \notin accepted
      BY <1>1
    <3> QED BY <2>2, <3>1 DEF Rests, AtRest, Underway
  <2> QED BY <2>1, <2>2
<1>3. \A c \in Connections :
         connection'[c].from # 0 => Stays(c) /\ connection'[c].from = connection[c].from
  BY DEF Stays, Rests, AtRest
<1>4. Apart'
  BY <1>3 DEF TransactionInv, Apart
<1>5. NotYet'
  BY <1>3 DEF TransactionInv, NotYet, Stays
<1>6. MailsMatch'
  BY DEF TransactionInv, MailsMatch
<1> QED BY <1>2, <1>4, <1>5, <1>6 DEF TransactionInv

\* What the other sessions do meanwhile: nothing.
LEMMA Others ==
  ASSUME TypeOK, NEW c \in Connections,
         \/ Mail(c) \/ Store(c) \/ \E path \in Paths : RcptAccept(c, path)
  PROVE  \A d \in Connections : d # c => connection'[d] = connection[d]
BY DEF TypeOK, Mail, Store, RcptAccept

LEMMA MailStep ==
  ASSUME TypeOK, TransactionInv, NEW c \in Connections, Mail(c)
  PROVE  TransactionInv'
<1>1. /\ connection'[c].pc = "idle" /\ connection'[c].mailed = TRUE
      /\ connection'[c].from = next + 1 /\ connection'[c].recipients = {}
      /\ UNCHANGED <<mails, accepted>>
  BY DEF Mail, Speaks, Unheard, TypeOK
<1>2. \A d \in Connections : d # c => connection'[d] = connection[d]
  BY Others
<1>3. /\ accepted \subseteq (1..next) \X Address /\ next \in Nat
      /\ \A mail \in mails : mail.from \in 1..next
      /\ \A d \in Connections : connection[d].from \in 0..next
  BY SessionTyped DEF TypeOK
<1>4. InTransaction'
  <2>1. \A address \in Address : <<next + 1, address>> \notin accepted
    BY <1>3
  <2>2. next + 1 # 0
    BY <1>3
  <2> QED BY <1>1, <1>2, <2>1, <2>2 DEF TransactionInv, InTransaction, Underway
<1>5. Apart'
  <2>1. ASSUME NEW d \in Connections PROVE connection[d].from # next + 1
    <3>1. connection[d].from \in 0..next
      BY <1>3
    <3> QED BY <1>3, <3>1
  <2> QED BY <1>1, <1>2, <2>1 DEF TransactionInv, Apart
<1>6. NotYet'
  <2>1. \A mail \in mails : mail.from # next + 1
    BY <1>3
  <2> QED BY <1>1, <1>2, <2>1 DEF TransactionInv, NotYet
<1>7. MailsMatch'
  BY <1>1 DEF TransactionInv, MailsMatch
<1> QED BY <1>4, <1>5, <1>6, <1>7 DEF TransactionInv

LEMMA RcptAcceptStep ==
  ASSUME TypeOK, TransactionInv, NEW c \in Connections, NEW path \in Paths, RcptAccept(c, path)
  PROVE  TransactionInv'
<1> DEFINE address == NormalizePath[path]
           from == connection[c].from
<1>1. address \in Address
  BY SmtpAssumption DEF RcptAccept, ValidRecipient
<1>2. /\ connection'[c].pc = "idle" /\ connection[c].pc = "idle"
      /\ connection'[c].mailed = connection[c].mailed /\ connection'[c].from = from
      /\ connection'[c].recipients = connection[c].recipients \union {address}
      /\ UNCHANGED mails /\ accepted' = accepted \union {<<from, address>>}
  BY DEF RcptAccept, RcptReaches, Speaks, TypeOK
<1>3. from # 0
  BY DEF RcptAccept, RcptReaches, TransactionInv, InTransaction
<1>4. \A d \in Connections : d # c => connection'[d] = connection[d]
  BY Others
<1>5. \A d \in Connections : d # c => connection[d].from # from
  BY <1>3 DEF TransactionInv, Apart
<1> HIDE DEF address, from
<1>6. InTransaction'
  <2>1. ASSUME NEW d \in Connections, d # c, NEW a \in Address
        PROVE  <<connection[d].from, a>> \in accepted' <=> <<connection[d].from, a>> \in accepted
    BY <1>2, <1>5, <2>1
  <2>2. ASSUME NEW a \in Address
        PROVE  <<from, a>> \in accepted' <=> <<from, a>> \in accepted \/ a = address
    BY <1>2
  <2>3. connection[c].recipients = {a \in Address : <<from, a>> \in accepted}
    BY DEF TransactionInv, InTransaction, from
  <2>4. connection'[c].recipients = {a \in Address : <<from, a>> \in accepted'}
    BY <1>1, <1>2, <2>2, <2>3
  <2>5. /\ connection'[c].mailed <=> connection'[c].from # 0
        /\ connection'[c].recipients =
             {a \in Address : <<connection'[c].from, a>> \in accepted'}
        /\ connection'[c].pc \in {"none", "connected", "closed"} => connection'[c].from = 0
        /\ connection'[c].pc \in Underway =>
              connection'[c].recipients # {} /\ connection'[c].from # 0
    BY <1>2, <1>3, <2>4 DEF TransactionInv, InTransaction, Underway, from
  <2>6. ASSUME NEW d \in Connections, d # c
        PROVE  /\ connection'[d].mailed <=> connection'[d].from # 0
               /\ connection'[d].recipients =
                    {a \in Address : <<connection'[d].from, a>> \in accepted'}
               /\ connection'[d].pc \in {"none", "connected", "closed"} => connection'[d].from = 0
               /\ connection'[d].pc \in Underway =>
                     connection'[d].recipients # {} /\ connection'[d].from # 0
    BY <1>4, <2>1, <2>6 DEF TransactionInv, InTransaction
  <2> QED BY <2>5, <2>6 DEF InTransaction, Underway
<1>7. Apart'
  BY <1>2, <1>4 DEF TransactionInv, Apart, from
<1>8. NotYet'
  BY <1>2, <1>4 DEF TransactionInv, NotYet, from
<1>9. MailsMatch'
  <2>1. \A mail \in mails : mail.from # from
    BY <1>2, <1>3 DEF TransactionInv, NotYet, from
  <2>2. ASSUME NEW mail \in mails, NEW a \in Address
        PROVE  <<mail.from, a>> \in accepted' <=> <<mail.from, a>> \in accepted
    BY <1>2, <2>1
  <2> QED BY <1>2, <2>2 DEF TransactionInv, MailsMatch
<1> QED BY <1>6, <1>7, <1>8, <1>9 DEF TransactionInv

LEMMA StoreStep ==
  ASSUME TypeOK, TransactionInv, NEW c \in Connections, Store(c)
  PROVE  TransactionInv'
<1> DEFINE new == [from |-> connection[c].from, to |-> connection[c].recipients]
<1>1. /\ connection'[c].pc = "stored" /\ connection[c].pc = "data"
      /\ connection'[c].mailed = connection[c].mailed
      /\ connection'[c].from = connection[c].from
      /\ connection'[c].recipients = connection[c].recipients
      /\ UNCHANGED accepted /\ mails' = mails \union {new}
  BY DEF Store, TypeOK
<1>2. \A d \in Connections : d # c => connection'[d] = connection[d]
  BY Others
<1>3. connection[c].from # 0 /\ connection[c].recipients # {}
  BY <1>1 DEF TransactionInv, InTransaction, Underway
<1>4. new.from = connection[c].from /\ new.to = connection[c].recipients
  OBVIOUS
<1> HIDE DEF new
<1>5. InTransaction'
  BY <1>1, <1>2, <1>3 DEF TransactionInv, InTransaction, Underway
<1>6. Apart'
  BY <1>1, <1>2 DEF TransactionInv, Apart
<1>7. NotYet'
  <2>1. \A d \in Connections : d # c => connection[d].from # new.from
    BY <1>3, <1>4 DEF TransactionInv, Apart
  <2>2. new = [from |-> connection'[c].from, to |-> connection'[c].recipients]
    BY <1>1 DEF new
  <2>3. new \in mails'
    BY <1>1
  <2> QED BY <1>1, <1>2, <2>1, <2>2, <2>3 DEF TransactionInv, NotYet
<1>8. MailsMatch'
  BY <1>1, <1>4 DEF TransactionInv, MailsMatch, InTransaction
<1> QED BY <1>5, <1>6, <1>7, <1>8 DEF TransactionInv

LEMMA SessionsQuiet ==
  ASSUME TypeOK, InTransaction, NEW c \in Connections,
         \/ Accept(c) \/ NewSession(c) \/ Reset(c) \/ Data(c) \/ Quit(c)
         \/ FallSilent(c) \/ ReadFails(c) \/ Answer(c)
  PROVE  UNCHANGED <<mails, accepted>> /\ \A d \in Connections : Stays(d) \/ Rests(d)
<1>1. UNCHANGED <<mails, accepted>>
  BY DEF Accept, NewSession, Reset, Data, Quit, FallSilent, ReadFails, Answer, Unheard
<1>2. ASSUME NEW d \in Connections, connection'[d] = connection[d] PROVE Stays(d)
  BY <1>2 DEF Stays, InTransaction
<1>3. ASSUME NEW d \in Connections, d # c PROVE connection'[d] = connection[d]
  BY <1>3 DEF Accept, NewSession, Reset, Data, Quit, FallSilent, ReadFails, Answer, TypeOK
<1>4. CASE Reset(c) \/ Quit(c) \/ ReadFails(c) \/ Answer(c)
  <2>1. Rests(c)
    BY <1>4 DEF Reset, Quit, ReadFails, Answer, Rests, TypeOK
  <2> QED BY <1>1, <1>2, <1>3, <2>1
<1>5. ASSUME NEW pc \in {"connected", "idle", "data", "silent"},
             connection' = [connection EXCEPT ![c].pc = pc], connection[c].pc # "stored",
             pc = "connected" => connection[c].from = 0,
             pc \in Underway => connection[c].recipients # {} /\ connection[c].from # 0
      PROVE  Stays(c)
  <2>1. connection'[c] = [connection[c] EXCEPT !.pc = pc] /\ connection[c] \in Session
    BY <1>5, SessionTyped DEF TypeOK
  <2>2. /\ connection'[c].pc = pc /\ connection'[c].from = connection[c].from
        /\ connection'[c].recipients = connection[c].recipients
        /\ connection'[c].mailed = connection[c].mailed
    BY <2>1 DEF Session
  <2> QED BY <1>5, <2>2 DEF Stays
<1>6. CASE Accept(c) \/ NewSession(c)
  <2>1. connection[c].from = 0 /\ connection[c].pc # "stored"
    BY <1>6 DEF Accept, NewSession, Speaks, InTransaction
  <2>2. Stays(c)
    BY <1>5, <1>6, <2>1 DEF Accept, NewSession, Underway
  <2> QED BY <1>1, <1>2, <1>3, <2>2
<1>7. CASE FallSilent(c)
  <2>1. connection[c].recipients # {} /\ connection[c].from # 0 /\ connection[c].pc # "stored"
    BY <1>7 DEF FallSilent, InTransaction, Underway
  <2>2. Stays(c)
    BY <1>5, <1>7, <2>1 DEF FallSilent
  <2> QED BY <1>1, <1>2, <1>3, <2>2
<1>8. CASE Data(c)
  <2>1. connection[c].from # 0 /\ connection[c].pc # "stored"
    BY <1>8 DEF Data, Speaks, InTransaction
  <2>2. ASSUME connection[c].recipients = {} PROVE Rests(c)
    BY <1>8, <2>2 DEF Data, Rests, TypeOK
  <2>3. ASSUME connection[c].recipients # {} PROVE Stays(c)
    BY <1>5, <1>8, <2>1, <2>3 DEF Data
  <2> QED BY <1>1, <1>2, <1>3, <2>2, <2>3
<1> QED BY <1>4, <1>6, <1>7, <1>8

LEMMA NextTransactionInv == TypeOK /\ TransactionInv /\ [Next]_vars => TransactionInv'
<1> SUFFICES ASSUME TypeOK, TransactionInv, [Next]_vars PROVE TransactionInv'
  OBVIOUS
<1>1. CASE UNCHANGED <<connection, mails, accepted>>
  <2>1. \A c \in Connections : Stays(c)
    BY <1>1 DEF Stays, TransactionInv, InTransaction
  <2> QED BY <1>1, <2>1, QuietStep
<1>2. ASSUME NEW c \in Connections,
             \/ Accept(c) \/ NewSession(c) \/ Reset(c) \/ Data(c) \/ Quit(c)
             \/ FallSilent(c) \/ ReadFails(c) \/ Answer(c)
      PROVE  TransactionInv'
  <2>1. InTransaction
    BY DEF TransactionInv
  <2> QED BY <1>2, <2>1, SessionsQuiet, QuietStep
<1>3. \/ UNCHANGED <<connection, mails, accepted>>
      \/ \E c \in Connections :
            \/ Accept(c) \/ NewSession(c) \/ Reset(c) \/ Data(c) \/ Quit(c)
            \/ FallSilent(c) \/ ReadFails(c) \/ Answer(c)
      \/ \E c \in Connections : Mail(c) \/ Store(c) \/ \E path \in Paths : RcptAccept(c, path)
  BY DEF Next, Receive, Listen, Bind, RcptReject, RandomMailbox, CreateMailbox, Configure,
         Clear, vars
<1> QED BY <1>1, <1>2, <1>3, MailStep, StoreStep, RcptAcceptStep

LEMMA NextAnsweredStored == TransactionInv /\ AnsweredStored /\ [Next]_vars => AnsweredStored'
<1> SUFFICES ASSUME TransactionInv, AnsweredStored, [Next]_vars PROVE AnsweredStored'
  OBVIOUS
<1>1. mails \subseteq mails'
  BY DEF Next, Receive, Listen, Bind, Accept, NewSession, Mail, Reset, Data, Quit, RcptAccept,
         RcptReject, FallSilent, ReadFails, Store, Answer, RandomMailbox,
         CreateMailbox, Configure, Clear, Unheard, vars
<1>2. UNCHANGED answered \/ \E c \in Connections : Answer(c)
  BY DEF Next, Receive, Listen, Bind, Accept, NewSession, Mail, Reset, Data, Quit, RcptAccept,
         RcptReject, FallSilent, ReadFails, Store, RandomMailbox,
         CreateMailbox, Configure, Clear, Unheard, vars
<1>3. ASSUME NEW c \in Connections, Answer(c) PROVE AnsweredStored'
  <2>1. answered' = answered \union {connection[c].from}
    BY <1>3 DEF Answer
  <2>2. connection[c].from # 0 /\ connection[c].pc = "stored"
    BY <1>3 DEF Answer, TransactionInv, InTransaction, Underway
  <2>3. [from |-> connection[c].from, to |-> connection[c].recipients] \in mails
    BY <2>2 DEF TransactionInv, NotYet
  <2>4. \E mail \in mails' : mail.from = connection[c].from
    BY <1>1, <2>3
  <2> QED BY <1>1, <2>1, <2>4 DEF AnsweredStored
<1> QED BY <1>1, <1>2, <1>3 DEF AnsweredStored

-----------------------------------------------------------------------------
(* What the log tells.                                                     *)

LEMMA QuietLog ==
  ASSUME LogInv, UNCHANGED <<log, next, since>>, mails \subseteq mails',
         \A c \in Connections : connection'[c].from # 0 =>
            /\ connection'[c].from = connection[c].from
            /\ connection'[c].recipients = connection[c].recipients
            /\ connection'[c].pc \in Underway => connection[c].pc \in Underway
  PROVE  LogInv'
<1>1. log' = log /\ next' = next /\ since' = since
  OBVIOUS
<1>2. Oldest' = Oldest /\ Events' = Events
  BY <1>1 DEF Oldest, Events
<1>3. Newest' /\ AfterMail'
  BY <1>1, <1>2 DEF LogInv, Newest, AfterMail
<1>4. SessionTold'
  BY <1>1, <1>2 DEF LogInv, SessionTold
<1>5. StoredTold'
  BY <1>2 DEF LogInv, StoredTold
<1> QED BY <1>3, <1>4, <1>5 DEF LogInv

\* What the log tells of a transaction whose MAIL it still shows is kept.
LEMMA StoryKept ==
  ASSUME TypeOK, Newest, AfterMail, NEW event \in Event, event.id = next + 1,
         Record(event.type, event.from, event.recipients),
         NEW from \in Nat, Oldest' <= from, NEW by \in Nat, NEW until \in Nat, by <= until
  PROVE  /\ \A address : AcceptedIn(Events, from, address, by) =>
                            AcceptedIn(Events', from, address, until)
         /\ \A recipients : Begun(Events, from, recipients, by) =>
                               Begun(Events', from, recipients, until)
<1>1. ASSUME NEW old \in Events, old.from = from
      PROVE  old \in Events' /\ (old.id < by => old.id < until)
  <2>1. Oldest \in Int /\ Oldest' \in Int
    <3>1. next' = next + 1 /\ log' \in Seq(Event) /\ next \in Nat /\ log \in Seq(Event)
      BY RecordEffect DEF TypeOK
    <3> QED BY <3>1, LenProperties DEF Oldest
  <2>2. old \in Event /\ old.from <= old.id /\ (old.id >= Oldest' => old \in Events')
    BY RecordEffect DEF AfterMail
  <2>3. old.id \in Nat /\ old.from \in Nat
    BY <2>2 DEF Event
  <2> QED BY <1>1, <2>1, <2>2, <2>3
<1> QED BY <1>1 DEF AcceptedIn, Begun

\* A step that records an event: what it says of a stored mail must be so, and
\* what a session adds to its recipients, or to where it is, must be in it.
LEMMA LoudLog ==
  ASSUME TypeOK, LogInv, mails \subseteq mails',
         NEW event \in Event, event.id = next + 1, event.from <= next + 1,
         Record(event.type, event.from, event.recipients),
         (event.type = "mail_stored" /\ Oldest <= event.from) =>
            /\ [from |-> event.from, to |-> event.recipients] \in mails'
            /\ Begun(Events, event.from, event.recipients, next + 1)
            /\ \A address \in event.recipients :
                  AcceptedIn(Events, event.from, address, next + 1),
         \A c \in Connections : connection'[c].from # 0 =>
            LET session == connection'[c]
            IN  \/ session.from = next + 1 /\ session.recipients = {} /\ session.pc \notin Underway
                \/ /\ session.from = connection[c].from
                   /\ \A address \in session.recipients :
                         \/ address \in connection[c].recipients
                         \/ /\ event.type = "rcpt_accept" /\ event.from = session.from
                            /\ address \in event.recipients
                   /\ session.pc \in Underway =>
                         \/ /\ connection[c].pc \in Underway
                            /\ session.recipients = connection[c].recipients
                         \/ /\ event.type = "data_start" /\ event.from = session.from
                            /\ event.recipients = session.recipients
  PROVE  LogInv'
<1>1. Newest /\ AfterMail
  BY DEF LogInv
<1>2. /\ next' = next + 1 /\ Newest' /\ event \in Events'
      /\ Oldest <= Oldest' /\ next \in Nat
      /\ \A some \in Events' : some = event \/ some \in Events
      /\ \A old \in Events : old \in Event /\ old.id <= next
  BY <1>1, RecordEffect DEF TypeOK
<1>3. Oldest \in Int /\ Oldest' \in Int
  <2>1. log' \in Seq(Event) /\ log \in Seq(Event)
    BY <1>1, RecordEffect DEF TypeOK
  <2> QED BY <1>2, <2>1, LenProperties DEF Oldest
<1>4. AfterMail'
  <2>1. ASSUME NEW some \in Events' PROVE some.from <= some.id
    BY <1>1, <1>2, <2>1 DEF AfterMail
  <2> QED BY <2>1 DEF AfterMail
<1>5. SessionTold'
  <2> SUFFICES ASSUME NEW c \in Connections, connection'[c].from # 0,
                      Oldest' <= connection'[c].from
               PROVE  /\ \A address \in connection'[c].recipients :
                            AcceptedIn(Events', connection'[c].from, address, next' + 1)
                      /\ connection'[c].pc \in Underway =>
                            Begun(Events', connection'[c].from, connection'[c].recipients, next' + 1)
    BY DEF SessionTold
  <2>1. CASE connection'[c].from = connection[c].from
    <3> DEFINE from == connection[c].from
    <3>1. from \in Nat /\ from # 0 /\ Oldest <= from /\ Oldest' <= from
      <4>1. from \in Nat
        BY <1>2, SessionTyped
      <4>2. from # 0 /\ Oldest' <= from
        BY <2>1
      <4> HIDE DEF from
      <4> QED BY <1>2, <1>3, <4>1, <4>2
    <3>2. /\ \A address \in connection[c].recipients : AcceptedIn(Events, from, address, next + 1)
          /\ connection[c].pc \in Underway =>
                Begun(Events, from, connection[c].recipients, next + 1)
      BY <3>1 DEF LogInv, SessionTold
    <3>3. next + 1 \in Nat /\ next' + 1 \in Nat /\ next + 1 <= next' + 1 /\ event.id < next' + 1
      BY <1>2
    <3> HIDE DEF from
    <3>4. /\ \A address : AcceptedIn(Events, from, address, next + 1) =>
                             AcceptedIn(Events', from, address, next' + 1)
          /\ \A recipients : Begun(Events, from, recipients, next + 1) =>
                                Begun(Events', from, recipients, next' + 1)
      BY <1>1, <3>1, <3>3, StoryKept
    <3>5. \A address : (event.type = "rcpt_accept" /\ event.from = from
                          /\ address \in event.recipients)
                          => AcceptedIn(Events', from, address, next' + 1)
      BY <1>2, <3>3 DEF AcceptedIn
    <3>6. (event.type = "data_start" /\ event.from = from)
             => Begun(Events', from, event.recipients, next' + 1)
      BY <1>2, <3>3 DEF Begun
    <3>7. connection[c].from # next + 1
      BY <1>2, SessionTyped
    <3>8. connection'[c].from = from
      BY <2>1 DEF from
    <3> QED BY <3>2, <3>4, <3>5, <3>6, <3>7, <3>8
  <2>2. CASE connection'[c].from # connection[c].from
    BY <2>2
  <2> QED BY <2>1, <2>2
<1>6. StoredTold'
  <2> SUFFICES ASSUME NEW some \in Events', some.type = "mail_stored", Oldest' <= some.from
               PROVE  /\ [from |-> some.from, to |-> some.recipients] \in mails'
                      /\ Begun(Events', some.from, some.recipients, some.id)
                      /\ \A address \in some.recipients :
                            AcceptedIn(Events', some.from, address, some.id)
    BY DEF StoredTold
  <2>1. some \in Event
    BY <1>2
  <2>2. some.from \in Nat /\ some.id \in Nat /\ Oldest <= some.from
    <3>1. some.from \in Nat /\ some.id \in Nat
      BY <2>1 DEF Event
    <3> QED BY <1>2, <1>3, <3>1
  <2>3. /\ [from |-> some.from, to |-> some.recipients] \in mails'
        /\ Begun(Events, some.from, some.recipients, some.id)
        /\ \A address \in some.recipients : AcceptedIn(Events, some.from, address, some.id)
    <3>1. CASE some = event
      BY <2>2, <3>1
    <3>2. CASE some \in Events
      BY <2>2, <3>2 DEF LogInv, StoredTold
    <3> QED BY <1>2, <3>1, <3>2
  <2>4. /\ \A address : AcceptedIn(Events, some.from, address, some.id) =>
                           AcceptedIn(Events', some.from, address, some.id)
        /\ \A recipients : Begun(Events, some.from, recipients, some.id) =>
                              Begun(Events', some.from, recipients, some.id)
    BY <1>1, <2>2, StoryKept
  <2> QED BY <2>3, <2>4
<1> QED BY <1>2, <1>4, <1>5, <1>6 DEF LogInv

LEMMA PartiesTyped ==
  ASSUME TypeOK
  PROVE  /\ next \in Nat
         /\ \A c \in Connections : /\ connection[c].from \in 0..(next + 1)
                                  /\ connection[c].recipients \in SUBSET Address
<1>1. next \in Nat
  BY DEF TypeOK
<1>2. ASSUME NEW c \in Connections
      PROVE  connection[c].from \in 0..(next + 1) /\ connection[c].recipients \in SUBSET Address
  BY <1>1, SessionTyped
<1> QED BY <1>1, <1>2

\* A step that gives a session another pc leaves the rest of it.
LEMMA OnlyMoves ==
  ASSUME TypeOK, NEW c \in Connections,
         NEW pc \in {"connected", "idle", "data", "silent", "stored"},
         connection' = [connection EXCEPT ![c].pc = pc]
  PROVE  \A d \in Connections :
            /\ connection'[d].from = connection[d].from
            /\ connection'[d].recipients = connection[d].recipients
            /\ connection'[d].pc = IF d = c THEN pc ELSE connection[d].pc
<1>1. connection'[c] = [connection[c] EXCEPT !.pc = pc] /\ connection[c] \in Session
  BY SessionTyped DEF TypeOK
<1>2. \A d \in Connections : d # c => connection'[d] = connection[d]
  BY DEF TypeOK
<1> QED BY <1>1, <1>2 DEF Session

\* A step of a session that records type and does not add to the session.
LEMMA SessionRecords ==
  ASSUME TypeOK, LogInv, UNCHANGED mails,
         NEW type \in {"listen_start", "listen_error", "connect", "helo", "mail_from",
                       "rcpt_accept", "rcpt_reject", "data_start", "data_error"},
         NEW from \in 0..(next + 1), NEW recipients \in SUBSET Address,
         Record(type, from, recipients),
         \A c \in Connections : connection'[c].from # 0 =>
            LET session == connection'[c]
            IN  \/ session.from = next + 1 /\ session.recipients = {} /\ session.pc \notin Underway
                \/ /\ session.from = connection[c].from
                   /\ \A address \in session.recipients :
                         \/ address \in connection[c].recipients
                         \/ type = "rcpt_accept" /\ from = session.from /\ address \in recipients
                   /\ session.pc \in Underway =>
                         \/ /\ connection[c].pc \in Underway
                            /\ session.recipients = connection[c].recipients
                         \/ /\ type = "data_start" /\ from = session.from
                            /\ recipients = session.recipients
  PROVE  LogInv'
<1> DEFINE event == [id |-> next + 1, type |-> type, from |-> from, recipients |-> recipients]
<1>1. next \in Nat
  BY DEF TypeOK
<1>2. /\ event \in Event /\ event.id = next + 1 /\ event.from <= next + 1
      /\ event.type = type /\ event.from = from /\ event.recipients = recipients
  BY <1>1 DEF Event
<1> HIDE DEF event
<1> QED BY <1>2, LoudLog

LEMMA NextLogInv == TypeOK /\ TransactionInv /\ LogInv /\ [Next]_vars => LogInv'
<1> SUFFICES ASSUME TypeOK, TransactionInv, LogInv, [Next]_vars PROVE LogInv'
  OBVIOUS
<1>1. next \in Nat /\ \A c \in Connections :
         connection[c].from \in 0..(next + 1) /\ connection[c].recipients \in SUBSET Address
  BY PartiesTyped
<1>2. CASE Listen
  BY <1>1, <1>2, SessionRecords DEF Listen
<1>3. CASE Bind
  <2>1. UNCHANGED <<connection, mails>>
    BY <1>3 DEF Bind
  <2>2. CASE NothingRecorded
    BY <2>1, <2>2, QuietLog DEF NothingRecorded
  <2>3. CASE Record("listen_error", 0, {})
    BY <1>1, <2>1, <2>3, SessionRecords
  <2> QED BY <1>3, <2>2, <2>3 DEF Bind
<1>4. CASE UNCHANGED <<connection, mails, log, next, since>>
  BY <1>4, QuietLog
<1>5. CASE Clear
  <2>1. log' = << >> /\ since' = 0 /\ next' = next /\ UNCHANGED <<connection, mails>>
    BY <1>5 DEF Clear
  <2>2. Newest' /\ DOMAIN log' = {} /\ Len(log') = 0
    BY <2>1 DEF Newest
  <2>3. Events' = {} /\ Oldest' = next + 1
    BY <1>1, <2>1, <2>2 DEF Events, Range, Oldest
  <2>4. \A c \in Connections : ~(Oldest' <= connection'[c].from)
    <3>1. \A c \in Connections : connection[c].from \in 0..next
      BY SessionTyped
    <3> QED BY <1>1, <2>1, <2>3, <3>1
  <2>5. SessionTold'
    BY <2>4 DEF SessionTold
  <2> QED BY <2>2, <2>3, <2>5 DEF LogInv, AfterMail, StoredTold
<1>6. ASSUME NEW c \in Connections, Accept(c) \/ NewSession(c)
      PROVE  LogInv'
  <2>1. UNCHANGED mails /\ (Record("connect", 0, {}) \/ Record("helo", 0, {}))
    BY <1>6 DEF Accept, NewSession, Unheard
  <2>2. \A d \in Connections :
           /\ connection'[d].from = connection[d].from
           /\ connection'[d].recipients = connection[d].recipients
           /\ connection'[d].pc \in Underway => connection[d].pc \in Underway
    <3>1. \A pc \in {"connected", "idle"} : pc \notin Underway
      BY DEF Underway
    <3> QED BY <1>6, <3>1, OnlyMoves DEF Accept, NewSession
  <2> QED BY <1>1, <2>1, <2>2, SessionRecords
<1>7. ASSUME NEW c \in Connections, Mail(c)
      PROVE  LogInv'
  <2>1. UNCHANGED mails /\ Record("mail_from", next + 1, {}) /\ next + 1 \in 0..(next + 1)
    BY <1>1, <1>7 DEF Mail, Unheard
  <2>2. \A d \in Connections : d # c => connection'[d] = connection[d]
    BY <1>7, Others
  <2>3. /\ connection'[c].from = next + 1 /\ connection'[c].recipients = {}
        /\ connection'[c].pc = "idle"
    BY <1>7 DEF Mail, Speaks, TypeOK
  <2> QED BY <2>1, <2>2, <2>3, SessionRecords DEF Underway
<1>8. ASSUME NEW c \in Connections, NEW path \in Paths, RcptAccept(c, path)
      PROVE  LogInv'
  <2> DEFINE recipients == connection[c].recipients \union {NormalizePath[path]}
  <2>1. NormalizePath[path] \in Address
    BY <1>8, SmtpAssumption DEF RcptAccept, ValidRecipient
  <2>2. /\ UNCHANGED mails /\ Record("rcpt_accept", connection[c].from, recipients)
        /\ recipients \in SUBSET Address
    BY <1>1, <1>8, <2>1 DEF RcptAccept
  <2>3. \A d \in Connections : d # c => connection'[d] = connection[d]
    BY <1>8, Others
  <2>4. /\ connection'[c].from = connection[c].from /\ connection'[c].recipients = recipients
        /\ connection'[c].pc = "idle"
    BY <1>8 DEF RcptAccept, RcptReaches, Speaks, TypeOK
  <2> HIDE DEF recipients
  <2> QED BY <1>1, <2>2, <2>3, <2>4, SessionRecords DEF Underway
<1>9. ASSUME NEW c \in Connections, NEW path \in Paths, RcptReject(c, path)
      PROVE  LogInv'
  <2>1. NormalizePath[path] \in Address \union {Malformed}
    BY SmtpAssumption
  <2>2. {NormalizePath[path]} \ {Malformed} \in SUBSET Address
    BY <2>1
  <2>3. /\ UNCHANGED <<mails, connection>>
        /\ Record("rcpt_reject", connection[c].from, {NormalizePath[path]} \ {Malformed})
    BY <1>9 DEF RcptReject
  <2> QED BY <1>1, <2>2, <2>3, SessionRecords
<1>10. ASSUME NEW c \in Connections, Reset(c) \/ Quit(c) \/ FallSilent(c) \/ Store(c)
       PROVE  LogInv'
  <2>1. UNCHANGED <<log, next, since>> /\ mails \subseteq mails'
    BY <1>10 DEF Reset, Quit, FallSilent, Store, NothingRecorded, Unheard
  <2>2. \A d \in Connections : connection'[d].from # 0 =>
            /\ connection'[d].from = connection[d].from
            /\ connection'[d].recipients = connection[d].recipients
            /\ connection'[d].pc \in Underway => connection[d].pc \in Underway
    <3>1. CASE FallSilent(c) \/ Store(c)
      BY <3>1, OnlyMoves DEF FallSilent, Store, Underway
    <3>2. CASE Reset(c) \/ Quit(c)
      <4>1. connection'[c].from = 0 /\ \A d \in Connections : d # c => connection'[d] = connection[d]
        BY <3>2 DEF Reset, Quit, AtRest, TypeOK
      <4> QED BY <4>1
    <3> QED BY <1>10, <3>1, <3>2
  <2> QED BY <2>1, <2>2, QuietLog
<1>11. ASSUME NEW c \in Connections, Data(c)
       PROVE  LogInv'
  <2>1. /\ UNCHANGED mails /\ connection[c].pc = "idle"
        /\ \A d \in Connections : d # c => connection'[d] = connection[d]
    BY <1>11 DEF Data, Speaks, Unheard, TypeOK
  <2>2. CASE connection[c].recipients = {}
    <3>1. Record("data_error", connection[c].from, {}) /\ connection'[c].from = 0
      BY <1>11, <2>2 DEF Data, AtRest, TypeOK
    <3> QED BY <1>1, <2>1, <3>1, SessionRecords
  <2>3. CASE connection[c].recipients # {}
    <3>1. /\ Record("data_start", connection[c].from, connection[c].recipients)
          /\ connection'[c].from = connection[c].from
          /\ connection'[c].recipients = connection[c].recipients
      BY <1>11, <2>3 DEF Data, TypeOK
    <3> QED BY <1>1, <2>1, <3>1, SessionRecords
  <2> QED BY <2>2, <2>3
<1>12. ASSUME NEW c \in Connections, ReadFails(c)
       PROVE  LogInv'
  <2>1. /\ UNCHANGED mails /\ connection'[c].from = 0
        /\ Record("data_error", connection[c].from, connection[c].recipients)
        /\ \A d \in Connections : d # c => connection'[d] = connection[d]
    BY <1>12 DEF ReadFails, Unheard, AtRest, TypeOK
  <2> QED BY <1>1, <2>1, SessionRecords
<1>13. ASSUME NEW c \in Connections, Answer(c)
       PROVE  LogInv'
  <2> DEFINE event == [id |-> next + 1, type |-> "mail_stored", from |-> connection[c].from,
                       recipients |-> connection[c].recipients]
  <2>1. /\ UNCHANGED mails /\ connection'[c].from = 0 /\ connection[c].pc = "stored"
        /\ Record("mail_stored", connection[c].from, connection[c].recipients)
        /\ \A d \in Connections : d # c => connection'[d] = connection[d]
    BY <1>13 DEF Answer, AtRest, TypeOK
  <2>2. /\ event \in Event /\ event.id = next + 1 /\ event.from <= next + 1
        /\ event.from = connection[c].from /\ event.recipients = connection[c].recipients
        /\ event.type = "mail_stored"
    BY <1>1 DEF Event
  <2> HIDE DEF event
  <2>3. connection[c].from # 0
    BY <2>1 DEF TransactionInv, InTransaction, Underway
  <2>4. [from |-> event.from, to |-> event.recipients] \in mails
    BY <2>1, <2>2, <2>3 DEF TransactionInv, NotYet
  <2>5. Oldest <= event.from =>
           /\ Begun(Events, event.from, event.recipients, next + 1)
           /\ \A address \in event.recipients :
                 AcceptedIn(Events, event.from, address, next + 1)
    BY <2>1, <2>2, <2>3 DEF LogInv, SessionTold, Underway
  <2>6. Record(event.type, event.from, event.recipients)
    BY <2>1, <2>2
  <2> QED BY <2>1, <2>2, <2>4, <2>5, <2>6, LoudLog
<1>14. \/ \E address \in Address : RandomMailbox(address) \/ CreateMailbox(address)
       \/ \E form \in Settings : Configure(form)
       \/ UNCHANGED vars
       => UNCHANGED <<connection, mails, log, next, since>>
  BY DEF RandomMailbox, CreateMailbox, Configure, NothingRecorded, vars
<1> QED BY <1>2, <1>3, <1>4, <1>5, <1>6, <1>7, <1>8, <1>9, <1>10, <1>11, <1>12, <1>13, <1>14
        DEF Next, Receive

-----------------------------------------------------------------------------

LEMMA NextHandedValid == HandedValid /\ [Next]_vars => HandedValid'
<1> SUFFICES ASSUME HandedValid, [Next]_vars PROVE HandedValid'
  OBVIOUS
<1>1. CASE UNCHANGED <<config, handed>>
  BY <1>1 DEF HandedValid, HasDomain, IsReservedLocalPart
<1>2. ASSUME NEW address \in Address, RandomMailbox(address) \/ CreateMailbox(address)
      PROVE  HandedValid'
  <2>1. handed' = address /\ config' = config
    BY <1>2 DEF RandomMailbox, CreateMailbox
  <2>2. HasDomain(address.domain) /\ ~ IsReservedLocalPart(address.local)
    BY <1>2 DEF RandomMailbox, CreateMailbox, ValidMailbox, IsReservedLocalPart
  <2> QED BY <2>1, <2>2 DEF HandedValid, HasDomain, IsReservedLocalPart
<1>3. ASSUME NEW form \in Settings, Configure(form) PROVE HandedValid'
  BY <1>3 DEF Configure, HandedValid
<1>4. \/ UNCHANGED <<config, handed>>
      \/ \E address \in Address : RandomMailbox(address) \/ CreateMailbox(address)
      \/ \E form \in Settings : Configure(form)
  BY DEF Next, Receive, Listen, Bind, Accept, NewSession, Mail, Reset, Data, Quit, RcptAccept,
         RcptReject, FallSilent, ReadFails, Store, Answer, Clear, Unheard, vars
<1> QED BY <1>1, <1>2, <1>3, <1>4

LEMMA InitIInv == Init => IInv
<1> SUFFICES ASSUME Init PROVE IInv
  OBVIOUS
<1>1. \A c \in Connections : connection[c] = AtRest("none")
  BY DEF Init
<1>2. /\ mails = {} /\ accepted = {} /\ answered = {} /\ handed = Nothing
      /\ log = << >> /\ next = 0 /\ since = 0 /\ config = Default /\ server = "new"
  BY DEF Init
<1>3. log \in Seq(Event) /\ DOMAIN log = {} /\ Len(log) = 0 /\ Events = {}
  BY <1>2 DEF Events, Range
<1>4. TypeOK
  <2>1. AtRest("none") \in Session
    BY <1>2, SmtpAssumption DEF AtRest, Session
  <2>2. connection \in [Connections -> Session]
    BY <2>1 DEF Init
  <2>3. \A domain \in config.domains : domain \in {Canonical[d] : d \in DomainNames}
    BY <1>2, SmtpAssumption DEF Config
  <2> QED BY <1>2, <1>3, <2>2, <2>3, SmtpAssumption DEF TypeOK, Session
<1>5. MailInv
  BY <1>1, <1>2 DEF MailInv, TransactionInv, InTransaction, Apart, NotYet, MailsMatch,
                    AnsweredStored, AtRest, Underway
<1>6. LogInv
  BY <1>1, <1>2, <1>3 DEF LogInv, Newest, AfterMail, SessionTold, StoredTold, AtRest
<1> QED BY <1>2, <1>4, <1>5, <1>6 DEF IInv, HandedValid

LEMMA NextIInv == IInv /\ [Next]_vars => IInv'
BY NextTypeOK, NextTransactionInv, NextAnsweredStored, NextLogInv, NextHandedValid
   DEF IInv, MailInv, TransactionInv, LogInv

LEMMA Invariance == Spec => []IInv
BY InitIInv, NextIInv, PTL DEF Spec

-----------------------------------------------------------------------------
(* The theorems.                                                           *)

\* A stored mail is for the recipients of its own transaction, all those RCPT
\* accepted and no other, and a client that has been told its mail was accepted
\* has it stored: for any number of connections and whatever is begun and given
\* up on them.
THEOREM MailsAlwaysMatch == Spec => []MailsMatchTransactions
<1>1. IInv => MailsMatchTransactions
  BY DEF IInv, MailInv, TransactionInv, MailsMatch, AnsweredStored, MailsMatchTransactions
<1> QED BY <1>1, Invariance, PTL

\* The log is the newest events, and tells the whole story of a stored mail as
\* far as it goes back to the mail's MAIL, with any limit.
THEOREM LogAlwaysTellsTheStory == Spec => []LogTellsTheStory
<1>1. ASSUME IInv PROVE LogTellsTheStory
  <2>1. /\ log \in Seq(Event) /\ DOMAIN log = 1..Len(log) /\ Len(log) \in Nat /\ next \in Nat
        /\ Len(log) = since /\ \A i \in DOMAIN log : log[i].id = next - Len(log) + i
    BY <1>1, LenProperties DEF IInv, TypeOK, LogInv, Newest
  <2> SUFFICES ASSUME NEW i \in DOMAIN log, log[i].type = "mail_stored",
                      log[1].id <= log[i].from
               PROVE  /\ \E j \in 1..(i - 1) :
                            /\ log[j].type = "data_start" /\ log[j].from = log[i].from
                            /\ log[j].recipients = log[i].recipients
                      /\ \A address \in log[i].recipients :
                            \E j \in 1..(i - 1) :
                               /\ log[j].type = "rcpt_accept" /\ log[j].from = log[i].from
                               /\ address \in log[j].recipients
                      /\ \E mail \in mails : mail.from = log[i].from /\ mail.to = log[i].recipients
    BY <2>1 DEF LogTellsTheStory
  <2>2. log[i] \in Events /\ Oldest <= log[i].from
    <3>1. 1 \in DOMAIN log
      BY <2>1
    <3>2. log[1].id = Oldest
      BY <2>1, <3>1 DEF Oldest
    <3> QED BY <3>2 DEF Events, Range
  <2>3. /\ [from |-> log[i].from, to |-> log[i].recipients] \in mails
        /\ Begun(Events, log[i].from, log[i].recipients, log[i].id)
        /\ \A address \in log[i].recipients :
              AcceptedIn(Events, log[i].from, address, log[i].id)
    BY <1>1, <2>2 DEF IInv, LogInv, StoredTold
  <2>4. ASSUME NEW before \in Events, before.id < log[i].id
        PROVE  \E j \in 1..(i - 1) : log[j] = before
    <3>1. PICK j \in DOMAIN log : log[j] = before
      BY DEF Events, Range
    <3> QED BY <2>1, <2>4, <3>1
  <2>5. \E j \in 1..(i - 1) : /\ log[j].type = "data_start" /\ log[j].from = log[i].from
                              /\ log[j].recipients = log[i].recipients
    BY <2>3, <2>4 DEF Begun
  <2>6. \A address \in log[i].recipients :
           \E j \in 1..(i - 1) : /\ log[j].type = "rcpt_accept" /\ log[j].from = log[i].from
                                 /\ address \in log[j].recipients
    BY <2>3, <2>4 DEF AcceptedIn
  <2> QED BY <2>3, <2>5, <2>6
<1> QED BY <1>1, Invariance, PTL

\* No session refuses, as a recipient, the address the site handed out last
\* under the configuration in force, for any spellings of it.
THEOREM HandedOutAlwaysReceives == Spec => HandedOutCanReceive
<1>1. ASSUME IInv, [Next]_vars, next' # next, log'[Len(log')].type = "rcpt_reject"
      PROVE  handed \notin log'[Len(log')].recipients
  <2>1. TypeOK /\ Newest /\ HandedValid
    BY <1>1 DEF IInv, LogInv
  <2>2. ASSUME NEW type \in {"listen_start", "listen_error", "connect", "helo", "mail_from",
                             "rcpt_accept", "rcpt_reject", "data_start", "data_error",
                             "mail_stored"},
               NEW from \in 0..(next + 1), NEW recipients \in SUBSET Address,
               Record(type, from, recipients)
        PROVE  type = "rcpt_reject" /\ log'[Len(log')].recipients = recipients
    <3> DEFINE event == [id |-> next + 1, type |-> type, from |-> from, recipients |-> recipients]
    <3>1. next \in Nat
      BY <2>1 DEF TypeOK
    <3>2. /\ event \in Event /\ event.id = next + 1 /\ event.type = type
          /\ event.from = from /\ event.recipients = recipients
      BY <3>1 DEF Event
    <3> HIDE DEF event
    <3>3. log'[Len(log')] = event
      BY <2>1, <2>2, <3>2, RecordEffect
    <3> QED BY <1>1, <3>2, <3>3
  <2>3. next \in Nat /\ \A c \in Connections :
           connection[c].from \in 0..(next + 1) /\ connection[c].recipients \in SUBSET Address
    BY <2>1, PartiesTyped
  <2>4. ~Listen /\ ~Bind
    <3>1. ~Listen
      BY <2>2, <2>3 DEF Listen
    <3>2. ~Bind
      BY <1>1, <2>2, <2>3 DEF Bind, NothingRecorded
    <3> QED BY <3>1, <3>2
  <2>5. ASSUME NEW c \in Connections
        PROVE  ~Accept(c) /\ ~NewSession(c) /\ ~Mail(c) /\ ~Data(c) /\ ~ReadFails(c) /\ ~Answer(c)
    BY <2>2, <2>3 DEF Accept, NewSession, Mail, Data, ReadFails, Answer
  <2>6. ASSUME NEW c \in Connections, NEW path \in Paths
        PROVE  ~RcptAccept(c, path)
    <3>1. ASSUME RcptAccept(c, path)
          PROVE  connection[c].recipients \union {NormalizePath[path]} \in SUBSET Address
      BY <2>3, <3>1, SmtpAssumption DEF RcptAccept, ValidRecipient
    <3> QED BY <2>2, <2>3, <3>1 DEF RcptAccept
  <2>7. PICK c \in Connections, path \in Paths : RcptReject(c, path)
    <3>1. \A d \in Connections : (Reset(d) \/ Quit(d) \/ FallSilent(d) \/ Store(d)) => next' = next
      BY DEF Reset, Quit, FallSilent, Store, NothingRecorded
    <3>2. \A address \in Address : (RandomMailbox(address) \/ CreateMailbox(address)) => next' = next
      BY DEF RandomMailbox, CreateMailbox, NothingRecorded
    <3>3. (Clear \/ UNCHANGED vars \/ \E form \in Settings : Configure(form)) => next' = next
      BY DEF Clear, Configure, NothingRecorded, vars
    <3> QED BY <1>1, <2>4, <2>5, <2>6, <3>1, <3>2, <3>3 DEF Next, Receive
  <2> DEFINE address == NormalizePath[path]
  <2>8. address \in Address \union {Malformed}
    BY SmtpAssumption
  <2>9. log'[Len(log')].recipients = {address} \ {Malformed}
    <3>1. {address} \ {Malformed} \in SUBSET Address
      BY <2>8
    <3> QED BY <2>2, <2>3, <2>7, <3>1 DEF RcptReject
  <2>10. ~ ValidRecipient(address)
    BY <2>7 DEF RcptReject
  <2> HIDE DEF address
  <2>11. SUFFICES ASSUME handed = address, address # Malformed PROVE FALSE
    BY <2>9
  <2>12. handed # Nothing
    BY <2>8, <2>11, SmtpAssumption
  <2> QED BY <2>1, <2>10, <2>11, <2>12 DEF HandedValid, ValidRecipient
<1>2. IInv /\ [Next]_vars => [next' # next /\ log'[Len(log')].type = "rcpt_reject" =>
                                 handed \notin log'[Len(log')].recipients]_vars
  BY <1>1
<1> QED BY <1>2, Invariance, PTL DEF Spec, HandedOutCanReceive

=============================================================================
