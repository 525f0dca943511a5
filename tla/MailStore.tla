------------------------------ MODULE MailStore ------------------------------
(***************************************************************************)
(* The in-memory mail store (internal/mailstore/store.go) with the SMTP    *)
(* sessions that fill it, the janitor goroutine that sweeps it, and the    *)
(* administrator who changes mail.retention underneath the janitor.        *)
(*                                                                         *)
(* Every method of Store runs under its mutex, so a method is one action.  *)
(* What is not atomic is what the callers do around them: a session stamps *)
(* a mail in NewMessage and stores it in Add, and the janitor evaluates    *)
(* `s.Cleanup(time.Now(), retention())` as three steps, in this order: the *)
(* clock, the configuration, the lock.                                     *)
(***************************************************************************)
EXTENDS Integers, Sequences, FiniteSets

CONSTANTS
    Ids,          \* the identities randomID can draw
    Spellings,    \* the ways recipients are written on the wire
    Addresses,    \* the normalised addresses
    Norm,         \* normalizeAddress, as a function of spellings
    Retentions,   \* the durations mail.retention can be configured to
    Hour,         \* the fallback for a retention that is not positive
    MaxTime       \* bound: the clock stops here

ASSUME NormAssumption == Norm \in [Spellings -> Addresses]
ASSUME IdsAssumption == IsFiniteSet(Ids)
ASSUME TimeAssumption ==
    /\ Hour \in Nat \ {0}
    /\ MaxTime \in Nat
    /\ Retentions \subseteq Int /\ Retentions # {}

VARIABLES
    byID,         \* Store.byID: the stored mails
    mailbox,      \* Store.mailbox: per address, the ids of its mails
    inflight,     \* the mails NewMessage has built and Add has not stored yet
    drawn,        \* the ids randomID has drawn so far
    now,          \* the wall clock
    retention,    \* mail.retention of the configuration in force
    janitor,      \* the janitor's program counter and evaluated arguments
    leastRetention \* history: the shortest retention in force since the tick

vars == <<byID, mailbox, inflight, drawn, now, retention, janitor, leastRetention>>

Message == [to : SUBSET Addresses, receivedAt : 0..MaxTime]

Live == DOMAIN byID

-----------------------------------------------------------------------------
(* Operators of the store.                                                 *)

\* normalizeRecipients drops the second and later spellings of an address.
NormalizeRecipients(recipients) == {Norm[r] : r \in recipients}

\* Variant: a retention of zero or less is taken as it is.
EffectiveUnchecked(duration) == duration

\* RetentionDuration, and again the first lines of Cleanup.
Effective(duration) == IF duration <= 0 THEN Hour ELSE duration

\* Variant: only one of the addresses is indexed.
IndexOnce(index, id, to) ==
    LET first == CHOOSE a \in to : TRUE
    IN  [index EXCEPT ![first] = Append(@, id)]

\* Add appends the id to the mailbox of each address the mail is for.
Index(index, id, to) ==
    [a \in Addresses |-> IF a \in to THEN Append(index[a], id) ELSE index[a]]

\* The sequences that list every member of S exactly once.
Orderings(S) ==
    {s \in [1..Cardinality(S) -> S] :
        /\ \A x \in S : \E i \in DOMAIN s : s[i] = x
        /\ \A i, j \in DOMAIN s : s[i] = s[j] => i = j}

\* The mails among messages that are for address a.
AddressedTo(messages, a) == {id \in DOMAIN messages : a \in messages[id].to}

\* rebuildIndexesLocked ranges over byID, and Go leaves the order open.
Reindexed(messages) ==
    {index \in [Addresses -> UNION {Orderings(AddressedTo(messages, a)) : a \in Addresses}] :
        \A a \in Addresses : index[a] \in Orderings(AddressedTo(messages, a))}

\* Variant: a mail exactly at the cutoff goes.
ExpiredAtCutoff(messages, cutoff) == {id \in DOMAIN messages : messages[id].receivedAt <= cutoff}

\* ReceivedAt.Before(cutoff): a mail exactly at the cutoff stays.
Expired(messages, cutoff) == {id \in DOMAIN messages : messages[id].receivedAt < cutoff}

\* ListMailbox: the stored mails the index of a names.
ListMailbox(a) == {id \in Live : \E i \in DOMAIN mailbox[a] : mailbox[a][i] = id}

-----------------------------------------------------------------------------

Init ==
    /\ byID = << >>
    /\ mailbox = [a \in Addresses |-> << >>]
    /\ inflight = << >>
    /\ drawn = {}
    /\ now = 0
    /\ retention \in Retentions
    /\ janitor = [pc |-> "idle", at |-> 0, keep |-> Hour]
    /\ leastRetention = Hour

\* A session has read a mail to its end: NewMessage names and stamps it.
NewMessage(id, recipients) ==
    /\ id \notin drawn
    /\ recipients # {}
    /\ drawn' = drawn \union {id}
    /\ inflight' = [i \in DOMAIN inflight \union {id} |->
                      IF i = id
                      THEN [to |-> NormalizeRecipients(recipients), receivedAt |-> now]
                      ELSE inflight[i]]
    /\ UNCHANGED <<byID, mailbox, now, retention, janitor, leastRetention>>

\* Store.Add.
Add(id) ==
    /\ id \in DOMAIN inflight
    /\ byID' = [i \in Live \union {id} |-> IF i = id THEN inflight[id] ELSE byID[i]]
    /\ mailbox' = Index(mailbox, id, inflight[id].to)
    /\ inflight' = [i \in DOMAIN inflight \ {id} |-> inflight[i]]
    /\ UNCHANGED <<drawn, now, retention, janitor, leastRetention>>

\* The administrator saves another mail.retention.
Configure(duration) ==
    /\ retention' = duration
    /\ leastRetention' =
         IF Effective(duration) < leastRetention THEN Effective(duration) ELSE leastRetention
    /\ UNCHANGED <<byID, mailbox, inflight, drawn, now, janitor>>

\* Variant: the clock is read once, before the loop.
JanitorTickFirstClock ==
    /\ janitor.pc = "idle"
    /\ janitor' = [janitor EXCEPT !.pc = "clock"]
    /\ leastRetention' = Effective(retention)
    /\ UNCHANGED <<byID, mailbox, inflight, drawn, now, retention>>

\* The ticker fires and the janitor evaluates time.Now().
JanitorTick ==
    /\ janitor.pc = "idle"
    /\ janitor' = [janitor EXCEPT !.pc = "clock", !.at = now]
    /\ leastRetention' = Effective(retention)
    /\ UNCHANGED <<byID, mailbox, inflight, drawn, now, retention>>

\* The janitor evaluates retention().
JanitorRetention ==
    /\ janitor.pc = "clock"
    /\ janitor' = [janitor EXCEPT !.pc = "sweep", !.keep = Effective(retention)]
    /\ UNCHANGED <<byID, mailbox, inflight, drawn, now, retention, leastRetention>>

\* Variant: the index is not rebuilt.
CleanupWithoutReindex ==
    /\ janitor.pc = "sweep"
    /\ byID' = [id \in Live \ Expired(byID, janitor.at - janitor.keep) |-> byID[id]]
    /\ janitor' = [janitor EXCEPT !.pc = "idle"]
    /\ UNCHANGED <<mailbox, inflight, drawn, now, retention, leastRetention>>

\* Store.Cleanup: delete what is older than the cutoff; reindex if anything was.
Cleanup ==
    /\ janitor.pc = "sweep"
    /\ LET gone == Expired(byID, janitor.at - janitor.keep)
       IN  /\ byID' = [id \in Live \ gone |-> byID[id]]
           /\ IF gone = {} THEN mailbox' = mailbox ELSE mailbox' \in Reindexed(byID')
    /\ janitor' = [janitor EXCEPT !.pc = "idle"]
    /\ UNCHANGED <<inflight, drawn, now, retention, leastRetention>>

Tick ==
    /\ now < MaxTime
    /\ now' = now + 1
    /\ UNCHANGED <<byID, mailbox, inflight, drawn, retention, janitor, leastRetention>>

Janitor == JanitorTick \/ JanitorRetention \/ Cleanup

Next ==
    \/ \E id \in Ids, recipients \in SUBSET Spellings : NewMessage(id, recipients)
    \/ \E id \in Ids : Add(id)
    \/ \E duration \in Retentions : Configure(duration)
    \/ Janitor
    \/ Tick

Spec == Init /\ [][Next]_vars

\* The ticker keeps ticking and nothing the janitor does can block for ever:
\* no method of the store waits for anything while it holds the mutex.
FairSpec == Spec /\ WF_vars(Janitor)

-----------------------------------------------------------------------------
(* Properties.                                                             *)

\* Every variable keeps its type; a mail is stored or in flight, never both.
TypeOK ==
    /\ drawn \subseteq Ids
    /\ Live \subseteq drawn /\ byID \in [Live -> Message]
    /\ DOMAIN inflight \subseteq drawn \ Live
    /\ inflight \in [DOMAIN inflight -> Message]
    /\ mailbox \in [Addresses -> Seq(Ids)]
    /\ now \in 0..MaxTime
    /\ retention \in Retentions
    /\ janitor \in [pc : {"idle", "clock", "sweep"}, at : 0..now, keep : Nat \ {0}]
    /\ leastRetention \in Nat \ {0}

\* s names every member of S, nothing else, and nothing twice.
Enumerates(s, S) ==
    /\ \A x \in S : \E i \in DOMAIN s : s[i] = x
    /\ \A i \in DOMAIN s : s[i] \in S
    /\ \A i, j \in DOMAIN s : s[i] = s[j] => i = j

\* The two maps of the store agree: the index of an address names exactly the
\* stored mails sent to it, each once, whatever adds and sweeps came before
\* (Add extends the index and Cleanup rebuilds it; store.go:76-79, 150-157).
IndexExact == \A a \in Addresses : Enumerates(mailbox[a], AddressedTo(byID, a))

\* A sweep removes a mail only if it is older than the shortest retention that
\* was in force at some moment since the janitor's tick: reading the clock
\* before the configuration, and both before the lock, can make the janitor
\* late but never early (store.go:143, main.go:46).
NeverEarly ==
    [][\A id \in Live \ DOMAIN byID' : now - byID[id].receivedAt > leastRetention]_vars

\* A mail older than every retention that can be configured is swept, even if
\* its session was slow to store it and the configuration changes meanwhile.
ExpiredRemoved ==
    \A id \in Ids :
        (/\ id \in Live
         /\ \A d \in Retentions : now - byID[id].receivedAt > Effective(d))
            ~> id \notin Live

\* Inbox, as the readers of ListMailbox see it.
Inboxes == INSTANCE Inbox WITH
    listed <- [a \in Addresses |-> ListMailbox(a)],
    delivered <- drawn \ DOMAIN inflight

\* The store implements Inbox: a reader of any mailbox is shown a mail from
\* the Add that stores it to the Cleanup that removes it, in all the mailboxes
\* it is for at once, and never again afterwards (store.go:67-97, 117-135).
ImplementsInbox == Inboxes!Spec

=============================================================================
