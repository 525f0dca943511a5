# A formal model of LeMail

LeMail is a temporary-mail server in one process: an SMTP listener, mails and
extracted codes in memory, an HTTP API with WebSocket push, a JSON file for the
configuration, and a React page. This directory holds TLA+ modules for its
concurrent core, TLC configurations that check them on small instances, and
TLAPS proofs that most of what is checked holds for any instance.

    tlc -workers 2 -config MCMailStore.cfg MCMailStore     # a run
    tlapm MailStoreProofs.tla                              # a proof

`PROJECT.json` lists every run, every definition with the lines it models, the
hazards of the code, and for each property a variant of a definition (they
stand beside it, marked "Variant") that breaks the property.

## 1. Inventory

| Component | State | Operations | Correct when |
|---|---|---|---|
| Mail store (`mailstore`) | `byID`, `mailbox` index | NewMessage, Add, List*, Get, Cleanup, janitor | index and mails agree; nothing is swept early; everything old is |
| Code store (`codeextract`) | `byID`, index | HandleMessage/AddMany, Replace, List*, Cleanup, janitor | agrees with the projects in force and the mails stored |
| Webhooks (`webhook`) | none; a goroutine per code | HandleMessage, post | a post never delays a delivery; rules apply as configured |
| SMTP session (`smtpserver`) | sender, recipients | Mail, Rcpt, Data, Reset | a mail goes to the recipients of its own transaction; store before telling; always ends |
| Hub (`realtime`) | address -> subscriptions, 16-place channels | Subscribe, Publish, Close | never sends on a closed channel, never blocks |
| WebSocket handler (`httpapi`) | one subscription | subscribe, upgrade, loop | no gap between handshake and subscription; order kept |
| Configuration (`config`) | copy in memory, file | Load, Get, Save | memory and file act as one across crashes |
| Admin handlers (`httpapi`) | none of their own | setup, form, create/update/delete, rebuild | what was acknowledged stays; what is saved can be loaded |
| Sessions (`auth`) and guards | token -> kind, expiry | Create, Validate, Delete | only the right live session opens a door, and it does |
| Mailbox page (`App.tsx`) | two lists, address, socket | effects, fetches, frames | shows its own mailbox, completely |
| Visitor's page (`App.tsx`) | public configuration, access, name and domain, stored name, the open mail | unlock, type, select, draw, copy, open, reload | once configured, the gate agrees with the server; the address is on offer; what is said to be copied is |
| Admin page (`App.tsx`) | login, the loaded configuration, form, two editors, dialog, log | menu, loads, save, delete, clear | shows what is saved; changes what was asked for only; a dialog tells the truth and ends |
| Debug log (`smtpdebug`) | 1000 last events, number of the latest | Add, List, Clear | a bounded suffix of what happened, which hangs together |
| Code tester (`App.tsx`, `httpapi`, `ai`) | the panel's fields and results, a request per button | test, suggest, apply | results stand beside the mail they are about; the buttons come back |
| DNS check (`smtpdebug/dns`) | none | queries of the resolver | - |
| Start and shutdown (`main.go`) | the wiring | listeners, janitors | - |

They interact by calls under short mutexes. An SMTP session calls
`store.Add`, then `onMail` (extract and add codes, start webhook goroutines),
then `hub.Publish`. Admin handlers load the configuration, save a changed copy,
and rebuild the code store from the mail store. Two janitors read the clock and
the configuration and sweep. No lock spans two of these calls. That is where
the hard behaviour is: what another goroutine does between two calls, what a
crash leaves behind, and what the browser makes of two unordered sources. The
hazards, line by line, are in `PROJECT.json`.

## 2. Modules

| Module | Models | State <-> code |
|---|---|---|
| `Inbox` | abstract: what readers of mailboxes are promised | - |
| `MailStore` | `mailstore/store.go` and its callers | `byID`, `mailbox`: the two maps; `inflight`: between NewMessage and Add; `janitor`: the evaluation of `s.Cleanup(time.Now(), retention())` in its order |
| `MailStoreProofs` | theorems about `MailStore` | |
| `Delivery` | `session.Data` after reading, both stores, webhooks, admin requests, janitors, sockets | one program counter per goroutine, a step per mutex acquisition |
| `DeliveryProofs` | theorems about `Delivery` | |
| `Realtime` | `realtime/hub.go` and `handleMailboxWebSocket` | `subscribers`, `channel`, `closed`: the hub and its channels; `publish[c].todo`: the range loop under the read lock |
| `RealtimeProofs` | theorems about `Realtime` | |
| `ConfigFile` | abstract: one configuration that outlives the process | - |
| `ConfigAdmin` | `config.Manager`, `saveConfig`, the admin handlers, crashes | `memory`, `disk`, `lock`; `request[r].config`: the handler's copy |
| `ConfigAdminProofs` | theorems about `ConfigAdmin` | |
| `Sessions` | `auth.SessionManager` and the guards, in private mode | `sessions`: the map; `Presents`: the tokens of a request in its cookies, its bearer header and its query parameters, the places `hasSession` tries in this order; Lookup, Judge, Delete: the three steps of Validate |
| `SessionsProofs` | theorems about `Sessions` | |
| `MailboxView` | the mailbox page, with the server as it sees it | `address`, `access`, `ref`, `lists`, `socket`: the React state (the socket's effect opens none without an address and access); `fetch`: requests under way; `stored`, `codes`: the two stores, whose codes sessions add, janitors sweep and a rebuild replaces without a frame; `spoiled`, `silent`: histories |
| `SmtpSession` | `smtpserver/server.go`, `smtpdebug/store.go`, the handlers that name a mailbox | `connection`: sender and recipients of the session with go-smtp's own account of them; `log`, `next`: `Store.events`, `Store.next`; `accepted`, `answered`, `handed`, `since`: histories |
| `SmtpSessionProofs` | theorems about `SmtpSession` | |
| `CodeTester` | `CodeExtractionTester`, `handleAdminCodeProjectTest`, `ai/openai.go` | `panel`: the React state; `asked`: per button, the POST and the handler's place in it |
| `Visitor` | the rest of the visitor's page: `AccessGate`, `MailboxPage`'s form, `MailContent`, and the three public handlers behind them | `shown`, `granted`, `name`, `domain`, `selected`, `mode`, `drawer`: the React state; `storage`, `clipboard`, `secure` (whether there is a clipboard to write to): the browser's; `site`, `session`: the server's; `request`: per slot, an asynchronous function of the page and its request |
| `VisitorProofs` | theorems about `Visitor`, and in its second part about `MailboxView` | |
| `AdminConsole` | the administrator's part of the page, from the login to the delivery log, and what its handlers do to the configuration and the log | `page`, `ready`, `loaded`, `form`, `modal`, `confirm`, `busy`, `events`: the React state (`modal[k]`: draft, editing id and visibility of an editor; `busy`: the three loading flags); `request`: per slot, an asynchronous function and what it goes on to |
| `AdminConsoleProofs` | theorems about `AdminConsole`, and in its second part about `CodeTester` | |

Every `MC*` module instantiates the module it is named after. The names in `MailboxView`
and `CodeTester` say `View` and `Tester` where their neighbours have the same idea
(`ViewInit`, `TesterNext`), as one module of proofs extends both. `Delivery` composes
the stores, the configuration and the hub, with the mail store as a set (which
`MailStore` implements `Inbox` justifies) and the hub's publication to one
recipient as one step (which `Realtime` opens up). `MailboxView` stands on both.
`Visitor` and `AdminConsole` are the two halves of the page's remaining state; they share
the pages and the login, which each sees from its side (`Visitor`'s `Admin` is any of
`AdminConsole`'s `Loaded` and `NotLoaded`), and `Visitor`'s `SelectFirst` is what it sees of
`MailboxView`'s `Show`. `SmtpSession` has the commands before
`Store.Add` in full and what follows it in one step, which is `Delivery`'s subject.

Abstractions. Mails, rules and tokens are identities. What a pattern finds in
a mail is the relation `Hits`; each pattern finds a code of its own, as
`stableID` includes the code. A retention is a number of ticks in `MailStore`
and a set of old mails in `Delivery`, where it does not change. A recipient's
spelling is mapped by `Norm`. A configuration is the six facts the checks of
`saveConfig` tell apart. The settings form of `Delivery` and `ConfigAdmin`
sends the lists as the browser last saw them, as the page does. In `SmtpSession`
a transaction goes by the number of the event that recorded its MAIL. go-smtp is
modelled from how `server.go` uses it: it answers commands that are out of
order itself, counts the recipients it has seen accepted, takes a second MAIL
without a reset, and resets the session after an answer to DATA. BDAT reaches
the same `Data` and is taken with it; a mail beyond 10 MiB is cut by
`io.LimitReader` and stored like any other. In `CodeTester` the texts given to the
API and the mail's source are abstracted to what parses and what is found.

In `AdminConsole` and `Visitor` a click that calls an asynchronous function takes a slot until
the function has ended; between the click and the answer anything may happen. The
server answers a request, or refuses it, or it is lost, or its answer is; a handler that
needs a session is refused at any time, as the session may end at any time (`Sessions`
has the reasons). A load that follows a save, a deletion or a login is the same function
going on, so it keeps the slot. The three requests of a load and their answers are one
step each. The contents of items and settings are model values; `AllMessagesPage` is told
apart from the overview by nothing in `AdminConsole` and is in `Visitor` for its rows. The
two endpoints of a login, setup and login, are one. Whether `navigator.clipboard` is there is
chosen when `Visitor` starts: browsers give it to pages that come over HTTPS or from the
machine itself, and the program serves plain HTTP to whoever reaches its port.

## 3. Runs

| Run | Instance | Shows |
|---|---|---|
| `mailstore` | 2 mails, 2 addresses in 3 spellings, retentions 0 (falls back to the hour) and 1, clock to 4 | `TypeOK`, `IndexExact`, `NeverEarly`, `ImplementsInbox`; `ExpiredRemoved` under fairness |
| `delivery` | 1 mail, 1 project edited and 1 settings form at once, 1 watcher, 1 webhook | `CodesSettle`, `TellingFindsCodes`; `DeliveryCompletes`, `AgedCodesGo` under fairness |
| `delivery_wiped` | the same with the form alone | violation: `PublishedCodesAreThere` |
| `realtime` | 2 sockets on one address, 2 publications, channels of 1 | `TypeOK`, `HubExact`, `NoSendOnClosed`, `HandshakeLosesNothing`, `FifoExactlyOnce`; `PublishCompletes`, `CloseCompletes` under fairness |
| `config` | 6 requests, 1 crash | `FileServable`, `SetUpForGood`, `AckedStaysUnlessOverlapped`, `ImplementsConfigFile` |
| `config_lost` | 2 creations | violation: `SavedRulesStay` |
| `sessions` | 2 tokens, 4 requests | `GuardsHold`, `NoSpuriousRefusal`, `RemovedForCause` |
| `smtp` | 2 connections, 3 spellings of recipients, 2 forms of settings, 2 recipients a transaction, a log of 4, 8 events | `MailsMatchTransactions`, `LogTellsTheStory`, `HandedOutCanReceive`; `TransfersEnd` under fairness |
| `tester` | 2 mails, 1 project, 2 buttons, 3 settings, 2 outputs of an API | `AppliedIsAccepted`, `ShownBelongsHere`; `RequestsEnd` under fairness |
| `view` | 1 mail with 1 code, 2 addresses and none, 2 interchangeable fetches of a list at once, 1 change of address | `OnlyOwnMails`, `NoGap` |
| `console` | 1 kind of items, 2 ids, 2 settings, 1 event, 2 requests at once, 3 clicks that send one | `ShownIsSaved`, `OnlyAskedChanges`, `DialogTellsTruth`; `DialogEnds` under fairness |
| `visitor` | 2 configurations of the site with 2 domains, 2 typed names and a drawn one, 2 requests at once, 3 clicks that send one, 1 change at the server | `GateAgrees`, `DomainIsOffered`, `CopiedWhereSecure`, `TesterForAdminsMails` |

`TypeOK` is an invariant of its own in `mailstore` and `realtime`. In the other modules it
(or `ViewTypeOK`, `TesterTypeOK`) is a conjunct of the invariant that leans on it most, and is proved with it:
`CodesSettle`, `FileServable`, `RemovedForCause`, `MailsMatchTransactions`,
`AppliedIsAccepted`, `NoGap`, `ShownIsSaved`, `DomainIsOffered`.

Why the bounds are enough. The mail store's index is per address and per mail,
and two of each make every order and every shared address. A publication
blocks or overruns a channel of one place as one of sixteen. `CodesSettle`
needs two rebuilds that overlap with each other and with a delivery, which an edited project
and a settings form make; saves that rebuild nothing, as those of webhook rules, are in
`Delivery` and in the proofs but not in the run. One crash
suffices since a restart forgets everything but the file. Each of the two
tokens comes in a right and in a wrong place, the query parameters among both, with several
requests that carry it: all the ways to cross in Validate. On the page, the members of a list do not influence
each other, so one mail and one code are enough; two fetches of one list are what an effect
and `onopen` send, and as nothing tells them apart the run takes them as symmetric. Eight events take a connection through a connect, a HELO, a
MAIL, an accepted RCPT, DATA and the answer after the server's own first event,
or to a second MAIL on top of an unfinished transaction; a log of four holds
exactly one transaction, so the log is full, and drops events, in the middle of
most behaviours. Two recipients fill a transaction. For the tester a second mail
is what a late answer needs. The two editors are alike and share nothing but the
load after a save, so one kind of items stands for both; two ids let an item be created beside
one that is there. Two requests at once are what a race between two functions of the
page needs, and three clicks start a pair and one that meets what the pair left
behind; clicks that only type, open or cancel are not counted. After the last click the
administrator or visitor leaves and what is under way ends. One change at the server is
enough to make the page's copy of the public configuration wrong. The bounds are `MaxTime`, `MaxCrashes`, `MaxVisits`,
`MaxEvents`, `MaxRecipients`, `MaxClicks`, `MaxChanges`, `Limit`, `Slots`, `Capacity` and the finite sets. Deadlock is checked in `mailstore`; the other
instances end when their mails and requests are used up.

Fairness. A janitor's ticker keeps ticking and no method it calls waits for
anything while holding a mutex, so its steps are weakly fair. A handler or
session that has begun goes on, as a goroutine that can run does; in
`Realtime`, a waiting writer keeps new readers out, so weak fairness of Close
and Subscribe is what sync.RWMutex gives. Nothing is assumed of peers:
no browser need read (`Write`, `Frame`), no webhook need answer (`Post`), no
client need connect. In `SmtpSession` a read ends after `ReadTimeout` at the latest,
and `Answer` is what `DeliveryCompletes` shows. In `CodeTester` the handler's steps
and the arrival of its answer are fair, and so is the context's deadline; the
APIs owe no answer. In `AdminConsole` requests end, one way or another (`Serve`), as the
browser gives up on a connection that is gone and every handler returns; no click is fair.

### What the violations say

- `delivery_wiped`: `rebuildCodeMatches` (`api.go:836`) lists the mails and later
  replaces the whole code store. A mail stored and extracted between the two
  loses its codes before it is published, until the next rebuild.
- `config_lost`: two handlers load the same configuration; the second save
  (`api.go:732`) undoes the first, and both answered with success.

A third promise of the program is false on some pages and needs no run to see:
`navigator.clipboard?.writeText` (`App.tsx:636`, `647`, `652`) does nothing on a page
without a clipboard, which is any page the program serves over plain HTTP to another machine
(`README.md:135` has port 3000 without a proxy), and the page says that the address or the
code has been copied. That is `CopiedIsTold` in `Visitor`; TLC refutes it in a few steps when
it stands in `MCVisitor.cfg` in the place of `CopiedWhereSecure`, which is what is left of it.

`CodesSettle`, `TellingFindsCodes`, `AckedStaysUnlessOverlapped`, `CopiedWhereSecure` and `NoGap`
are the other side: they say exactly how far the code is right, by a history variable (`raced`,
`overlapped`, `spoiled`, `silent`) for the overlaps that break it, or by the clipboard being
there. `TellingFindsCodes` speaks of the moments at which no request is under way and no overlap
of two is left unrepaired, and of mails within their retention whose extraction did not race:
whoever is told of another mail, or at another moment, may find no codes. `raced` is cleared by a rebuild that
overlapped with nothing, so `CodesSettle` says too that such a rebuild repairs
whatever went wrong before. One of those overlaps is a session that copied the
projects before a deletion and adds a match of the deleted project after the
deletion's own rebuild.

Histories draw the line in `AdminConsole` and `Visitor` too: `unsure` (two requests overlapped,
or the answer to a change was lost, since the last load that was alone), `sure` and `alone`
on a request, `lapsed`
(the server took back what it had granted), `configured` (the page has its configuration; before, or
if it never comes, it shows no gate on any site, and `GateAgrees` says nothing), `crossed` (two writes to the clipboard
overlapped) and `handed` (the domain came with a drawn address).

More things the models show that no run lists. An answer to a fetch replaces the list
(`App.tsx:557`), also when a frame has added a mail since the server gave it, and the mail,
announced as being in the inbox (`App.tsx:607`), is gone from it until the next refresh;
`NoGap` excepts that. It excepts the codes that a rebuild puts into the store, too: no frame
is sent for them (`api.go:836-843`), and an open page shows them after its next refresh only,
or with the next mail. Settings that are sent from a page that is behind undo whatever changed
since its load (`App.tsx:713`), which `OnlyAskedChanges` excepts. A load that is answered while the settings are being edited puts the
form back to what is saved (`App.tsx:484`). The log is loaded together with the slower DNS
check, and events that are cleared meanwhile come back with the answer (`App.tsx:504`). A late answer to a save closes the
editor, whatever it holds by then (`App.tsx:740-742`, `797-799`), and a second click on save
creates a second item. Access once granted stays granted in the page, whatever the
server thinks (`App.tsx:467`). A name that was emptied is back after a reload, as the storage is only
written with names (`App.tsx:532`). Sessions are removed by
`Validate` and `Delete` only, so an expired one stays in the map until somebody
presents its token. A second MAIL leaves go-smtp's account of the recipients
and the session's apart, and `Data` answers "no valid recipients" although RCPT
were accepted before it. An answer to the tester that comes after another mail
was opened is shown beside that mail; `ShownBelongsHere` excepts exactly those.

## 4. Proofs

Checked by tlapm for every value of the constants that satisfies the modules'
assumptions. These ask that functions have the types their comments give, that the
values for "none" are none of the things they stand beside, and that what the code takes
for granted is there: a finite set of mail identities and a positive `Hour` (MailStore),
a channel of at least one place (Realtime, Delivery), a default configuration whose
domains are spelled as the program spells them (SmtpSession), a site with a first domain
(Visitor). No value of a run's bound is assumed: the proofs hold for any `MaxTime`,
`MaxCrashes`, `MaxClicks`, `MaxChanges`, `MaxEvents` and positive `Limit` and `Slots`.

Each module has an inductive invariant `IInv` (`DeliveryInv` on top of it in
`RealtimeProofs`; `ViewInv` and `TesterInv` for the second parts below), checked with TLC before it was proved. It is the property and what is
needed to carry it over a step. The proof goes by what the steps have in common: first
lemmas that say what a class of steps does, then one lemma per conjunct.

`MailStoreProofs`: `TypeCorrect`, `IndexCorrect`, `NoEarlyRemoval`, `Refinement`.
The invariant is TypeOK, IndexExact and `JanitorPatient`, which says
that the janitor's arguments, once evaluated, are at least as lenient as the
clock and the shortest retention since its tick: without it NeverEarly is not
inductive, because the sweep happens two steps after the clock was read.
IndexExact needs TypeOK's clause that a mail in flight is not stored, or Add
could index it twice. Refinement maps NewMessage, Configure, Tick and the
janitor's reading steps to stutters, Add to Deliver and Cleanup to Expire.

`DeliveryProofs`: `CodesAlwaysSettle`, `TellingAlwaysFindsCodes`. CodesSettle speaks of
moments when nothing is under way; what leads there is that the history `raced` has
everyone who was ever under way beside a request (`RacedAll`). So a request that is not in
it still holds the configuration in force (`BaseCurrent`) and a list of all extracted mails
(`ListedAll`), and a session that is not in it the projects in force (`CopyCurrent`); before
its extraction a mail has no codes unless it raced (`NoneYet`, which needs `ListedPlaced`: a
rebuild lists stored mails only). `Agrees` is the property for every moment at which no
rebuild is still to come. The delicate step is `Finish`, which forgets all races: it may,
because whoever finishes without having raced is alone, has listed everything that
was extracted and nothing else, and extracts with the projects in force. `ToldAfter` (who is
going to be told of a mail is told after its extraction) carries the second theorem, which has
the same exceptions as the first, and one more: the moments between.

`RealtimeProofs`: `TypeCorrect`, `HubCorrect`, `NeverSendsOnClosed`,
`NothingLostInHandshake`, `DeliveredInOrderOnce`. The invariant adds to TypeOK and HubExact
that `closed` is exactly the set of closed handlers and that a publication's `todo` holds
registered subscriptions only; the last is kept by Close because a reader keeps it waiting.
On top of it, a mail is offered by a call that then has nothing more to offer to that
subscription (`OfferedOnce`), whoever was connected is offered it or still in `todo`
(`OfferedToAll`), and what was written, is held and is buffered is, one behind the other,
what was offered and found room (`SentInOrder`). `FifoExactlyOnce` says the order by pairs of
mails (`InOrderOf`), as filters over sequences are not something the provers can reason
about.

`ConfigAdminProofs`: `FileAlwaysServable`, `AlwaysSetUpForGood`,
`AckedStaysUnlessOverlappedAlways`, `ConfigFileImplemented`. The copies in memory and in the
file differ only between the two steps of the request that holds the lock (`LockHeld`,
`CopiesAgree`), where the file has what that request will put into memory (`Written`). That
makes the refinement: writing the file is ConfigFile's Save, swapping the memory a stutter,
a crash a Crash and a start a Restart. What was acknowledged is in both copies and in every
configuration and form that may still be saved (`AckedEverywhere`), as every request that
was under way with it is in `overlapped` (`OverlapsSeen`). All of this is about a file that is
replaced by a rename, see section 5.

`SessionsProofs`: `SessionsRemovedForCause`, `NobodySpuriouslyRefused`, `GuardsAlwaysHold`.
Who is about to remove has judged the token wanting (`DeletesForCause`), a guard validates only
what its own request carries in the three places, for the kinds it opens to (`ChecksWanted`),
what it has found was handed out (`FoundIssued`), and a good token stays among what is yet to be
validated until it is found (`StillToCheck`).

`SmtpSessionProofs`: `MailsAlwaysMatch`, `LogAlwaysTellsTheStory`, `HandedOutAlwaysReceives`.
A session holds what was accepted under its transaction's number (`InTransaction`), no two
sessions have the same number (`Apart`), and none has a mail in the store before its own
Store (`NotYet`), or a later RCPT could be accepted for a mail that is stored already. The
log is told by the numbers of events, since places shift when it drops one: it has the
events from `Oldest` on (`Newest`), an event comes after its MAIL (`AfterMail`), and what a
session or a mail has gone through is there if its MAIL still is (`SessionTold`,
`StoredTold`).

`VisitorProofs`: `GateAlwaysAgrees`, `DomainAlwaysOffered`, `AlwaysCopiedWhereSecure`,
`TesterAlwaysForAdminsMails`. The properties speak of the page after an answer, so the
invariant speaks of answers on their way: what they carry (`Proper`), that one which will
open the gate is right about the server unless the visitor `lapsed` (`Entitled`), so that whom the
page has granted access the server serves (`GrantedServed`), while a page with a public
configuration has granted it (`GateKnown`); and what the one write under way does to the
clipboard, where there is one (`OneWrite`, `Pasted`).

`AdminConsoleProofs`: `DialogAlwaysTellsTruth`, `ShownIsAlwaysSaved`, `ItemsChangeAsAsked`.
At most one request belongs to the dialog (`OneDialog`), as the dialog is busy while one
does. A request that is still `alone` is the only one (`AloneIs`), so its load
is fresh (`LoadIsFresh`), and only the answer to a change or the load behind it stands
between page and server (`Shown`); settings sent from such a page bring the items along
unchanged (`PutFaithful`), which is why such a form changes no item. Of a form from a page that is
behind, or beside another request, `OnlyAskedChanges` says nothing.

The second part of `VisitorProofs` is about `MailboxView`, the rest of the visitor's page:
`PageShowsOnlyOwnMails`, `PageHasNoGap`. Both modules are extended there and neither
speaks of the other; `ViewSpec` alone is what these two theorems assume. An answer is of the mailbox it was asked for (`AnswersOwn`), the socket
is for the page's mailbox and so is what it carries (`SocketOwn`), and thus what a loaded list
shows (`ListsOwn`). `NoGap` speaks of a page with no fetch under way and is not inductive, as
a fetch that comes back may take away what was shown; `Covered` drops that condition and adds
the fetches: a mail or code of the page's mailbox is shown, or on its way over the socket, or a
fetch under way was answered with it or is yet to be answered, or it is a code that a rebuild has
put in since the page last asked (`silent`). The opening of the socket makes
this true, by the fetch it starts. A frame keeps it for the codes, which it replaces, since it
was written with the codes of its own mail (`ComingKept`, by which what is coming goes on
coming until it is there); what is new in a store is announced, or `silent` (`NewComes`).

The second part of `AdminConsoleProofs` is about `CodeTester` in the same way, from
`TesterSpec`: `SuggestionsAreAccepted`, `ResultsBelongHere`. What comes from an API has passed the checks before it is in an answer (`Replies`, by
`SuggestionsAreGood`), so it has in the panel, where it is applied, and in the request that
tests it (`Asks`). A request that is not late is about what the panel shows (`Current`), so its
answer is.

Only model-checked:

- Every liveness property: fairness and ENABLED are beyond the prover.
- The properties of the two violated runs, which are false, as is `CopiedIsTold`.

## 5. Not modelled

- `maybe.WriteFile` on Windows, for which releases are built (`README.md:312`): it has no rename
  there and overwrites the file in place, so that a crash or a full disk may leave it cut short
  and the next start fails. `FileServable`, `SetUpForGood`, `AckedStaysUnlessOverlapped` and
  `ImplementsConfigFile`, with their theorems, hold of the other systems (`config.go:210`).
- MIME parsing, header decoding, regular expressions, HTML stripping: data that
  no property tells apart.
- bcrypt, randomness, TLS, go-smtp's own protocol machine.
- The DNS check and the client API's token: stateless.
- `ExtractCodes` in `ai/openai.go`: nothing calls it.
- In `CodeTester`, the editing of the mail's source in the panel.
- What of the page keeps no state or only how it looks: search and filters, the mobile
  menu, colours, dates and sizes, the DNS summary, the metric cards; `CodeTestResultList`,
  which nothing uses; the single keystrokes in a field, of which the lists joined with
  commas lose one; messages, but for what `CopiedIsTold` says of them.
- Vite's build and development proxy, and React's StrictMode, which runs effects twice
  in development only.
- A drop of one of more than sixteen waiting frames in `MailboxView` (it is in
  `Realtime`).
- What a failed SMTP listener means for the process (`Bind` has the failure, and
  the HTTP side goes on); the order of shutdown.

## 6. Plan

Written so far, most important first: MailStore, Delivery, Realtime, ConfigAdmin, Sessions,
SmtpSession, Visitor and AdminConsole, each with its proofs; MailboxView and CodeTester, with
theirs beside those of the page they are part of. Every invariant and every action property
that a run checks is proved; what is left to TLC is liveness.

What could come next:

1. The editor of the mail's source in `CodeTester`: that an edit is tested with the mail it was
   made on.
2. `Addresses`: the four normalisers as operators against one reference, the
   hub's lower-casing of ASCII included.
3. `MailboxView` against `Realtime`: that the server as the page sees it is what the hub and the
   handler do to one subscription.
