----------------------------- MODULE SmtpSession -----------------------------
(***************************************************************************)
(* From the address the site hands out to the mail stored under it: the    *)
(* HTTP handlers that name a mailbox (httpapi/api.go), the SMTP sessions   *)
(* that decide which recipients to take and what to do with the mail       *)
(* (smtpserver/server.go), and the log of what they did, which keeps the   *)
(* newest events for the administrator (smtpdebug/store.go).               *)
(*                                                                         *)
(* The commands of a connection come through the go-smtp library, which    *)
(* keeps an account of its own of the transaction ("mailed" and "taken"    *)
(* below): it answers RCPT before MAIL and DATA before an accepted RCPT    *)
(* itself, takes a second MAIL as it comes, and resets the session when a  *)
(* mail has been answered, on RSET and on a second EHLO.                   *)
(* The administrator changes the domains between any two commands.  What   *)
(* Data does after Store.Add is one step here; Delivery opens it up.       *)
(***************************************************************************)
EXTENDS Integers, Sequences

CONSTANTS
    Connections,
    Locals,         \* local parts, lower case
    Patterned,      \* those localPartPattern matches
    DomainNames,    \* domains as they are written, lower case
    Canonical,      \* NormalizeDomain: takes a trailing dot away
    Settings,       \* what the form sends for mail.domains and mail.reservedLocalParts
    Default,        \* config.Default's
    Nothing,        \* no address
    Paths,          \* what clients write after RCPT TO
    NormalizePath,  \* normalizeRecipient, and the Cut in Rcpt: the address, or Malformed
    Malformed,
    MaxRecipients,  \* of one transaction (100 in server.go:46)
    Limit,          \* of the log (smtpdebug.DefaultLimit is 1000)
    MaxEvents       \* bound: no command comes after so many events

Address == [local : Locals, domain : DomainNames]
Config == [domains : SUBSET DomainNames, reserved : SUBSET Locals]

ASSUME SmtpAssumption ==
    /\ Patterned \subseteq Locals
    /\ Canonical \in [DomainNames -> DomainNames]
    /\ Settings \subseteq Config
    /\ Default \in Config /\ Default.domains # {} /\ Default.reserved # {}
    /\ \A domain \in Default.domains : Canonical[domain] = domain
    /\ Malformed \notin Address /\ Nothing \notin Address
    /\ NormalizePath \in [Paths -> Address \union {Malformed}]
    /\ MaxRecipients \in Nat \ {0} /\ Limit \in Nat \ {0} /\ MaxEvents \in Nat

VARIABLES
    config,     \* the part of the configuration the checks read
    server,     \* where ListenAndServe is
    connection, \* per connection: its state in go-smtp and its session
    mails,      \* the mails in the store
    log,        \* smtpdebug.Store.events
    next,       \* smtpdebug.Store.next: the number of the latest event
    since,      \* history: the events since the latest Clear, counted up to the limit
    accepted,   \* history: the recipients accepted, by transaction
    answered,   \* history: the transactions whose mail was answered with success
    handed      \* history: the latest address handed out under this configuration

vars == <<config, server, connection, mails, log, next, since, accepted, answered, handed>>

-----------------------------------------------------------------------------
(* What the configuration accepts.                                         *)

\* Save, with applyDefaults: an empty list stands for the default one.
Saved(form) ==
    [domains |-> IF form.domains = {} THEN Default.domains
                 ELSE {Canonical[domain] : domain \in form.domains},
     reserved |-> IF form.reserved = {} THEN Default.reserved ELSE form.reserved]

HasDomain(domain) == \E item \in config.domains : Canonical[item] = Canonical[domain]

IsReservedLocalPart(local) == local \in config.reserved

\* Variant: a reserved local part is a mailbox like any other.
ValidMailboxUnreserved(address) ==
    address.local \in Patterned /\ HasDomain(address.domain)

\* validateMailbox of the HTTP handlers.
ValidMailbox(address) ==
    /\ address.local \in Patterned
    /\ HasDomain(address.domain)
    /\ ~ IsReservedLocalPart(address.local)

\* The checks of Rcpt.
ValidRecipient(address) ==
    /\ address # Malformed
    /\ HasDomain(address.domain)
    /\ ~ IsReservedLocalPart(address.local)

-----------------------------------------------------------------------------
(* The log.                                                                *)

\* A transaction goes by the number of the event that recorded its MAIL; the
\* session that is in none has an empty sender, 0.  The recipients of a
\* rejection are the address rejected, if it is one.
Event == [id : Nat,
          type : {"listen_start", "listen_error", "connect", "helo", "mail_from", "rcpt_accept",
                  "rcpt_reject", "data_start", "data_error", "mail_stored"},
          from : Nat, recipients : SUBSET Address]

\* Add lets the oldest events go when there are more than the limit.
Keep(events) ==
    IF Len(events) > Limit THEN SubSeq(events, Len(events) - Limit + 1, Len(events)) ELSE events

\* Store.Add, for the event a handler hands to record.
Record(type, from, recipients) ==
    /\ next' = next + 1
    /\ log' = Keep(Append(log,
         [id |-> next + 1, type |-> type, from |-> from, recipients |-> recipients]))
    /\ since' = IF since = Limit THEN Limit ELSE since + 1

NothingRecorded == UNCHANGED <<log, next, since>>

\* A connection in state pc, in no transaction.
AtRest(pc) == [pc |-> pc, mailed |-> FALSE, taken |-> 0, from |-> 0, recipients |-> {}]

-----------------------------------------------------------------------------

Init ==
    /\ config = Default
    /\ server = "new"
    /\ connection = [c \in Connections |-> AtRest("none")]
    /\ mails = {}
    /\ log = << >> /\ next = 0 /\ since = 0
    /\ accepted = {} /\ answered = {} /\ handed = Nothing

Unheard == UNCHANGED <<config, server, mails, accepted, answered, handed>>

\* ListenAndServe says that it listens, and then binds the port or fails.
Listen ==
    /\ server = "new"
    /\ server' = "binding"
    /\ Record("listen_start", 0, {})
    /\ UNCHANGED <<config, connection, mails, accepted, answered, handed>>

Bind ==
    /\ server = "binding"
    /\ \/ server' = "serving" /\ NothingRecorded
       \/ server' = "failed" /\ Record("listen_error", 0, {})
    /\ UNCHANGED <<config, connection, mails, accepted, answered, handed>>

\* A client has something to say in state pc, and the bound lets it.
Speaks(c, pc) == connection[c].pc = pc /\ next < MaxEvents

\* debugListener.Accept records every connection.
Accept(c) ==
    /\ server = "serving" /\ Speaks(c, "none")
    /\ connection' = [connection EXCEPT ![c].pc = "connected"]
    /\ Record("connect", 0, {})
    /\ Unheard

\* NewSession, at the first HELO or EHLO.
NewSession(c) ==
    /\ Speaks(c, "connected")
    /\ connection' = [connection EXCEPT ![c].pc = "idle"]
    /\ Record("helo", 0, {})
    /\ Unheard

\* Variant: the recipients of a transaction that was not finished stay.
MailKeeping(c) ==
    /\ Speaks(c, "idle")
    /\ connection' = [connection EXCEPT ![c].mailed = TRUE, ![c].from = next + 1]
    /\ Record("mail_from", next + 1, {})
    /\ Unheard

\* Mail: another sender, and no recipient yet.
Mail(c) ==
    /\ Speaks(c, "idle")
    /\ connection' = [connection EXCEPT
         ![c].mailed = TRUE, ![c].from = next + 1, ![c].recipients = {}]
    /\ Record("mail_from", next + 1, {})
    /\ Unheard

\* go-smtp calls Rcpt within a transaction that has room.
RcptReaches(c) == Speaks(c, "idle") /\ connection[c].mailed /\ connection[c].taken < MaxRecipients

\* Rcpt takes the recipient.
RcptAccept(c, path) ==
    LET address == NormalizePath[path]
        recipients == connection[c].recipients \union {address}
    IN  /\ RcptReaches(c)
        /\ ValidRecipient(address)
        /\ connection' = [connection EXCEPT ![c].recipients = recipients, ![c].taken = @ + 1]
        /\ accepted' = accepted \union {<<connection[c].from, address>>}
        /\ Record("rcpt_accept", connection[c].from, recipients)
        /\ UNCHANGED <<config, server, mails, answered, handed>>

\* Rcpt refuses it.
RcptReject(c, path) ==
    LET address == NormalizePath[path]
    IN  /\ RcptReaches(c)
        /\ ~ ValidRecipient(address)
        /\ Record("rcpt_reject", connection[c].from, {address} \ {Malformed})
        /\ UNCHANGED <<config, server, connection, mails, accepted, answered, handed>>

\* go-smtp: RSET and a second EHLO, and what follows an answer to DATA.
Reset(c) ==
    /\ Speaks(c, "idle")
    /\ connection' = [connection EXCEPT ![c] = AtRest("idle")]
    /\ NothingRecorded
    /\ Unheard

\* Variant: only a transfer that cannot begin is recorded.
DataUnrecorded(c) ==
    LET session == connection[c]
    IN  /\ Speaks(c, "idle") /\ session.mailed /\ session.taken > 0
        /\ IF session.recipients = {}
           THEN /\ Record("data_error", session.from, {})
                /\ connection' = [connection EXCEPT ![c] = AtRest("idle")]
           ELSE /\ NothingRecorded
                /\ connection' = [connection EXCEPT ![c].pc = "data"]
        /\ Unheard

\* Data begins.  go-smtp has accepted recipients on its account, and the
\* session may yet have none: those of a transaction before a second MAIL.
Data(c) ==
    LET session == connection[c]
    IN  /\ Speaks(c, "idle") /\ session.mailed /\ session.taken > 0
        /\ IF session.recipients = {}
           THEN /\ Record("data_error", session.from, {})
                /\ connection' = [connection EXCEPT ![c] = AtRest("idle")]
           ELSE /\ Record("data_start", session.from, session.recipients)
                /\ connection' = [connection EXCEPT ![c].pc = "data"]
        /\ Unheard

\* The client stops in the middle of the mail and says nothing more.
FallSilent(c) ==
    /\ connection[c].pc = "data"
    /\ connection' = [connection EXCEPT ![c].pc = "silent"]
    /\ NothingRecorded
    /\ Unheard

\* Variant: no ReadTimeout; only a client that hangs up ends the read.
ReadFailsUntimed(c) ==
    /\ connection[c].pc = "data"
    /\ Record("data_error", connection[c].from, connection[c].recipients)
    /\ connection' = [connection EXCEPT ![c] = AtRest("closed")]
    /\ Unheard

\* The read times out, ten seconds after DATA, or the client hangs up: the
\* part that was read is dropped.
ReadFails(c) ==
    /\ connection[c].pc \in {"data", "silent"}
    /\ Record("data_error", connection[c].from, connection[c].recipients)
    /\ connection' = [connection EXCEPT ![c] = AtRest("closed")]
    /\ Unheard

\* The client leaves, or is thrown out; Logout does nothing.
Quit(c) ==
    /\ connection[c].pc \in {"connected", "idle"}
    /\ connection' = [connection EXCEPT ![c] = AtRest("closed")]
    /\ NothingRecorded
    /\ Unheard

\* The mail has been read to its end: NewMessage and Store.Add.
Store(c) ==
    /\ connection[c].pc = "data"
    /\ mails' = mails \union {[from |-> connection[c].from, to |-> connection[c].recipients]}
    /\ connection' = [connection EXCEPT ![c].pc = "stored"]
    /\ NothingRecorded
    /\ UNCHANGED <<config, server, accepted, answered, handed>>

\* onMail and Publish have returned: the last event, the answer, the reset.
Answer(c) ==
    /\ connection[c].pc = "stored"
    /\ Record("mail_stored", connection[c].from, connection[c].recipients)
    /\ answered' = answered \union {connection[c].from}
    /\ connection' = [connection EXCEPT ![c] = AtRest("idle")]
    /\ UNCHANGED <<config, server, mails, accepted, handed>>

-----------------------------------------------------------------------------
(* The HTTP side.                                                          *)

\* handleRandomMailbox, handleClientRandomMailbox: a local part that is not
\* reserved (they draw until they have one), at the normalised domain of the
\* request, or at a configured one.
RandomMailbox(address) ==
    /\ address.local \in Patterned \ config.reserved
    /\ address.domain \in config.domains \union {Canonical[d] : d \in DomainNames}
    /\ HasDomain(address.domain)
    /\ handed' = address
    /\ NothingRecorded
    /\ UNCHANGED <<config, server, connection, mails, accepted, answered>>

\* handleClientMailboxCreate, for a whole address, which keeps a dot at its
\* end, or for its two parts.
CreateMailbox(address) ==
    /\ ValidMailbox(address)
    /\ handed' = address
    /\ NothingRecorded
    /\ UNCHANGED <<config, server, connection, mails, accepted, answered>>

\* The administrator saves the settings.
Configure(form) ==
    /\ config' = Saved(form)
    /\ handed' = Nothing
    /\ NothingRecorded
    /\ UNCHANGED <<server, connection, mails, accepted, answered>>

\* handleAdminDebugSMTPClear.
Clear ==
    /\ log' = << >>
    /\ since' = 0
    /\ UNCHANGED <<config, server, connection, mails, next, accepted, answered, handed>>

Receive(c) == ReadFails(c) \/ Store(c)

Next ==
    \/ Listen \/ Bind
    \/ \E c \in Connections :
          \/ Accept(c) \/ NewSession(c) \/ Mail(c) \/ Reset(c) \/ Data(c) \/ Quit(c)
          \/ \E path \in Paths : RcptAccept(c, path) \/ RcptReject(c, path)
          \/ FallSilent(c) \/ Receive(c) \/ Answer(c)
    \/ \E address \in Address : RandomMailbox(address) \/ CreateMailbox(address)
    \/ \E form \in Settings : Configure(form)
    \/ Clear

Spec == Init /\ [][Next]_vars

\* A read ends, by its timeout at the latest, and so does what Data does
\* after it (Delivery!DeliveryCompletes).
FairSpec == Spec /\ \A c \in Connections : WF_vars(Receive(c)) /\ WF_vars(Answer(c))

-----------------------------------------------------------------------------
(* Properties.                                                             *)

\* Every variable keeps its type; a configuration in force has domains, in
\* normal form, and reserved local parts.
TypeOK ==
    /\ config \in Config /\ config.domains # {} /\ config.reserved # {}
    /\ \A domain \in config.domains : domain \in {Canonical[d] : d \in DomainNames}
    /\ server \in {"new", "binding", "serving", "failed"}
    /\ connection \in [Connections ->
         [pc : {"none", "connected", "idle", "data", "silent", "stored", "closed"},
          mailed : BOOLEAN, taken : 0..MaxRecipients, from : 0..next,
          recipients : SUBSET Address]]
    /\ mails \subseteq [from : 1..next, to : (SUBSET Address) \ {{}}]
    /\ log \in Seq(Event) /\ next \in Nat /\ since \in 0..Limit
    /\ accepted \subseteq (1..next) \X Address
    /\ answered \subseteq 1..next
    /\ handed \in Address \union {Nothing}

\* Every variable keeps its type, a stored mail is for the recipients of its
\* own transaction, all those RCPT accepted and no other, whatever was begun
\* and given up before it on the same connection and whatever happens to the
\* configuration meanwhile; and a client that has been told its mail was
\* accepted has it stored (server.go:88-151).
MailsMatchTransactions ==
    /\ TypeOK
    /\ \A mail \in mails : mail.to = {address \in Address : <<mail.from, address>> \in accepted}
    /\ \A from \in answered : \E mail \in mails : mail.from = from

\* The log is what was recorded last: no event is missing between the oldest
\* it shows and the newest, and no more are gone than the limit and the last
\* Clear account for (store.go:55-77).  And what the administrator reads of a
\* stored mail hangs together: as far as the log goes back to the MAIL of its
\* transaction, it shows before the mail how each of its recipients was
\* accepted and that Data began with all of them (README.md:21).
LogTellsTheStory ==
    /\ \A i \in DOMAIN log : log[i].id = next - Len(log) + i
    /\ Len(log) = since
    /\ \A i \in DOMAIN log :
        LET stored == log[i]
            before(type) == {j \in 1..(i - 1) : log[j].type = type /\ log[j].from = stored.from}
        IN  (stored.type = "mail_stored" /\ log[1].id <= stored.from) =>
                /\ \E j \in before("data_start") : log[j].recipients = stored.recipients
                /\ \A address \in stored.recipients :
                      \E j \in before("rcpt_accept") : address \in log[j].recipients
                /\ \E mail \in mails : mail.from = stored.from /\ mail.to = stored.recipients

\* An address the site hands out can receive: as long as the configuration
\* stays, no session refuses it as a recipient, however the HTTP handlers and
\* the sessions each normalise and check it (api.go:904-921, server.go:95-114).
HandedOutCanReceive ==
    [][next' # next /\ log'[Len(log')].type = "rcpt_reject" =>
          handed \notin log'[Len(log')].recipients]_vars

\* A client that stops in the middle of a mail does not keep its session for
\* ever: every transfer ends, in a stored mail or in nothing.
TransfersEnd ==
    \A c \in Connections :
        connection[c].pc \in {"data", "silent", "stored"} ~> connection[c].pc \in {"idle", "closed"}

=============================================================================
