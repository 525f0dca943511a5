------------------------------- MODULE Visitor -------------------------------
(***************************************************************************)
(* The visitor's part of the page (App in web/src/App.tsx), but for the    *)
(* two lists of MailboxView: the gate of a private site, the address of    *)
(* the mailbox, the clipboard, and the mail that is opened.                *)
(*                                                                         *)
(* The public configuration comes when the page is opened and when it is   *)
(* refreshed; until then the page works with a default.  The server goes   *)
(* by its own configuration and by the session's cookie, whatever the page *)
(* believes.  A reload forgets all but the name in the local storage.      *)
(* There is a clipboard to write to in a secure context only: for a page   *)
(* that comes over HTTPS or from the machine itself, and not for one that  *)
(* the program serves over plain HTTP to anybody else.                     *)
(***************************************************************************)
EXTENDS Integers, Sequences, SequencesExt, FiniteSets

CONSTANTS
    Sites,          \* the public configurations there can be: domains and mode
    DefaultDomain,  \* "localhost", the domain of emptyPublicConfig
    Texts, Norm,    \* what is typed as a name, and Norm[t]: trimmed and lower-cased
    RandomNames,    \* what randomLocalPart draws
    Code,           \* a code beside the inbox
    Slots,          \* bound: the requests under way at once
    MaxClicks,      \* bound: the requests started, after which the visitor leaves
    MaxChanges,     \* bound: the changes of the site and of the session
    None

Empty == ""
Names == {Norm[t] : t \in Texts} \union RandomNames \union {Empty}
Domains == (UNION {ToSet(site.domains) : site \in Sites}) \union {DefaultDomain}
Addresses == (Names \ {Empty}) \X Domains

\* emptyPublicConfig.
EmptySite == [domains |-> <<DefaultDomain>>, private |-> FALSE]

ASSUME VisitorAssumption ==
    /\ Sites # {}
    /\ \A site \in Sites : 1 \in DOMAIN site.domains /\ site.private \in BOOLEAN
    /\ Empty \notin RandomNames /\ None \notin Addresses /\ Code \notin Addresses
    /\ None \notin {"config", "unlock", "random", "write", "mailbox", "allMessages"}
    /\ MaxClicks \in Nat /\ MaxChanges \in Nat /\ Slots \in Nat \ {0}

VARIABLES
    site,       \* the server's configuration, as far as it is public
    session,    \* the visitor's access cookie is good
    shown,      \* publicConfig
    granted,    \* accessGranted
    configured, \* history: a configuration has come since the page was opened
    name,       \* localPart
    domain,
    storage,    \* localStorage's lemail.localPart
    clipboard,
    secure,     \* the context of the page is secure: navigator.clipboard is there
    page,       \* activePage
    ready,      \* adminReady (AdminConsole)
    selected,   \* selectedMessage: none, or which list it was picked from
    mode,       \* detailMode
    drawer,     \* detailDrawerVisible
    request,    \* the requests under way, and the writes to the clipboard
    clicks, changes,
    told,       \* history: what the last message said is in the clipboard
    crossed,    \* history: two writes to the clipboard have overlapped
    handed,     \* history: the domain is one a random answer brought
    lapsed      \* history: since the page was opened the site has become private
                \* or the session ended

serverVars == <<site, session, changes, lapsed>>
gateVars == <<shown, granted, configured>>
addressVars == <<name, domain, storage, handed>>
mailVars == <<page, ready, selected, mode, drawer>>
copyVars == <<clipboard, secure, told, crossed>>
vars == <<site, session, changes, lapsed, shown, granted, configured, name, domain, storage, handed,
          page, ready, selected, mode, drawer, clipboard, secure, told, crossed, request, clicks>>

-----------------------------------------------------------------------------

Idle == [pc |-> "idle", kind |-> None, body |-> None, says |-> None]

Active == {i \in 1..Slots : request[i].pc # "idle"}

Put(kind, body, says) == [pc |-> "sent", kind |-> kind, body |-> body, says |-> says]

Writing == {i \in 1..Slots : request[i].kind = "write"}

\* A click that starts a request or a write.
Click(req) ==
    /\ clicks < MaxClicks /\ clicks' = clicks + 1
    /\ \E i \in 1..Slots :
          /\ request[i].pc = "idle" /\ \A j \in 1..(i - 1) : request[j].pc # "idle"
          /\ request' = [request EXCEPT ![i] = req]

\* currentAddress.
AddressOf(n, d) == IF n = Empty THEN None ELSE <<n, d>>
CurrentAddress == AddressOf(name, domain)

\* The effect that follows a change of the name.
Stored(n) == IF n = Empty THEN storage ELSE n

\* The state of a page that is opened, with its first request.
Opened ==
    /\ shown' = EmptySite /\ granted' = FALSE /\ configured' = FALSE
    /\ name' = storage /\ domain' = DefaultDomain /\ handed' = FALSE
    /\ page' = "mailbox" /\ ready' = FALSE
    /\ selected' = None /\ mode' = "mailbox" /\ drawer' = FALSE
    /\ request' = [i \in 1..Slots |-> IF i = 1 THEN Put("config", None, None) ELSE Idle]

Init ==
    /\ site \in Sites /\ session = FALSE /\ changes = 0 /\ lapsed = FALSE
    /\ shown = EmptySite /\ granted = FALSE /\ configured = FALSE
    /\ storage = Empty /\ name = Empty /\ domain = DefaultDomain /\ handed = FALSE
    /\ page = "mailbox" /\ ready = FALSE
    /\ selected = None /\ mode = "mailbox" /\ drawer = FALSE
    /\ secure \in BOOLEAN /\ clipboard = None /\ told = None /\ crossed = FALSE /\ clicks = 0
    /\ request = [i \in 1..Slots |-> IF i = 1 THEN Put("config", None, None) ELSE Idle]

\* AccessGate takes the place of the page.
Gate == shown.private /\ ~granted

\* The visitor is still there, by the bound, and the gate is not.
Here == clicks < MaxClicks /\ ~Gate

On(pages) == Here /\ page \in pages

-----------------------------------------------------------------------------
(* The visitor.                                                            *)

\* AccessGate sends a password.
Unlock ==
    /\ Gate
    /\ Click(Put("unlock", None, None))
    /\ UNCHANGED <<serverVars, gateVars, addressVars, mailVars, copyVars>>

\* The header's button.
Refresh ==
    /\ Here
    /\ Click(Put("config", None, None))
    /\ UNCHANGED <<serverVars, gateVars, addressVars, mailVars, copyVars>>

\* The field of the name, on MailboxPage.
Type(text) ==
    /\ On({"mailbox"}) /\ Norm[text] # name
    /\ name' = Norm[text] /\ storage' = Stored(name')
    /\ UNCHANGED <<serverVars, gateVars, domain, handed, mailVars, copyVars, request, clicks>>

\* The list of domains, on MailboxPage.
Select(d) ==
    /\ On({"mailbox"}) /\ d \in ToSet(shown.domains) /\ d # domain
    /\ domain' = d /\ handed' = FALSE
    /\ UNCHANGED <<serverVars, gateVars, name, storage, mailVars, copyVars, request, clicks>>

\* randomMailbox.
Random ==
    /\ On({"mailbox"})
    /\ Click(Put("random", domain, None))
    /\ UNCHANGED <<serverVars, gateVars, addressVars, mailVars, copyVars>>

\* copyAddress, and copyCode of a code beside the inbox or the tester.
Copy(what) ==
    /\ \/ what = CurrentAddress /\ what # None /\ On({"mailbox"})
       \/ what = Code /\ Here
    /\ Click(Put("write", what, what))
    /\ crossed' = (crossed \/ Writing # {})
    /\ UNCHANGED <<serverVars, gateVars, addressVars, mailVars, clipboard, secure, told>>

\* SideMenu, while no drawer masks it.
Navigate(p) ==
    /\ Here /\ ~drawer /\ p # page /\ (p = "allMessages" => ready)
    /\ page' = p
    /\ UNCHANGED <<serverVars, gateVars, addressVars, ready, selected, mode, drawer, copyVars,
                   request, clicks>>

\* openMessage, with a mail of this list.
OpenMessage(list, as) ==
    /\ ~drawer /\ On({list})
    /\ selected' = list /\ mode' = as /\ drawer' = TRUE
    /\ UNCHANGED <<serverVars, gateVars, addressVars, page, ready, copyVars, request, clicks>>

\* The rows of MailboxPage and, for the administrator, of AllMessagesPage.
OpenFromInbox == OpenMessage("mailbox", "mailbox")
OpenFromAll == ready /\ OpenMessage("allMessages", "admin")

\* MailContent, in the drawer or on the page of its own, has the tester.
TesterShown ==
    /\ selected # None /\ (drawer \/ page = "detail")
    /\ ready /\ mode = "admin"

\* MessageDrawer is closed, or exchanged for MailDetailPage.
CloseDrawer ==
    /\ Here /\ drawer
    /\ drawer' = FALSE
    /\ page' \in {page, "detail"}
    /\ UNCHANGED <<serverVars, gateVars, addressVars, ready, selected, mode, copyVars,
                   request, clicks>>

\* The page is loaded again.
Reload ==
    /\ clicks < MaxClicks /\ clicks' = clicks + 1
    /\ Opened
    /\ lapsed' = FALSE /\ crossed' = (crossed \/ Writing # {})
    /\ UNCHANGED <<site, session, changes, storage, clipboard, secure, told>>

-----------------------------------------------------------------------------
(* The server and the browser.                                             *)

Answer(i, body) ==
    /\ request[i].pc = "sent"
    /\ request' = [request EXCEPT ![i].pc = "handled", ![i].body = body]
    /\ UNCHANGED <<site, changes, lapsed, gateVars, addressVars, mailVars, secure, told, crossed,
                   clicks>>

\* handlePublicConfig, which anybody may ask.
HandleConfig(i) ==
    /\ request[i].kind = "config" /\ Answer(i, site)
    /\ UNCHANGED <<session, clipboard>>

\* handleAccessLogin, with the right password or on a public site.
HandleUnlock(i) ==
    /\ request[i].kind = "unlock" /\ Answer(i, None)
    /\ session' = TRUE
    /\ UNCHANGED clipboard

\* handleRandomMailbox, for a visitor with access and a domain there is.
HandleRandom(i) ==
    /\ request[i].kind = "random" /\ request[i].pc = "sent"
    /\ site.private => session
    /\ request[i].body \in ToSet(site.domains)
    /\ \E n \in RandomNames : Answer(i, <<n, request[i].body>>)
    /\ UNCHANGED <<session, clipboard>>

\* navigator.clipboard?.writeText, which does nothing where there is no
\* clipboard, and goes on as if it had.
Write(i) ==
    /\ request[i].kind = "write" /\ Answer(i, None)
    /\ clipboard' = IF secure THEN request[i].body ELSE clipboard
    /\ UNCHANGED session

\* The configuration is changed, or the session ends.
Change ==
    /\ changes < MaxChanges /\ changes' = changes + 1
    /\ \/ /\ site' \in Sites \ {site}
          /\ lapsed' = (lapsed \/ site'.private) /\ UNCHANGED session
       \/ /\ session /\ session' = FALSE
          /\ lapsed' = TRUE /\ UNCHANGED site
    /\ UNCHANGED <<gateVars, addressVars, mailVars, copyVars, request, clicks>>

\* The administrator's part of the page logs in, or finds itself logged out.
Admin ==
    /\ clicks < MaxClicks
    /\ ready' = ~ready
    /\ UNCHANGED <<serverVars, gateVars, addressVars, page, selected, mode, drawer, copyVars,
                   request, clicks>>

-----------------------------------------------------------------------------
(* Answers.                                                                *)

Done(i, kind) ==
    /\ request[i].kind = kind /\ request[i].pc = "handled"
    /\ request' = [request EXCEPT ![i] = Idle]

\* Variant: the domain stays when the configuration comes.
ConfigKeepingDomain(i) ==
    /\ Done(i, "config")
    /\ shown' = request[i].body
    /\ granted' = (granted \/ ~request[i].body.private) /\ configured' = TRUE
    /\ UNCHANGED <<serverVars, addressVars, mailVars, copyVars, clicks>>

\* Variant: whoever has the configuration has access.
ConfigGranting(i) ==
    /\ Done(i, "config")
    /\ LET new == request[i].body
       IN  /\ shown' = new
           /\ domain' = IF domain \in ToSet(new.domains) THEN domain ELSE new.domains[1]
           /\ granted' = TRUE
    /\ configured' = TRUE /\ handed' = FALSE
    /\ UNCHANGED <<serverVars, name, storage, mailVars, copyVars, clicks>>

\* refreshPublicConfig: a domain that is gone is replaced, and a public site
\* grants access, for as long as the page lives.
ConfigShown(i) ==
    /\ Done(i, "config")
    /\ LET new == request[i].body
       IN  /\ shown' = new
           /\ domain' = IF domain \in ToSet(new.domains) THEN domain ELSE new.domains[1]
           /\ granted' = (granted \/ ~new.private)
    /\ configured' = TRUE /\ handed' = FALSE
    /\ UNCHANGED <<serverVars, name, storage, mailVars, copyVars, clicks>>

\* unlockAccess.
Unlocked(i) ==
    /\ Done(i, "unlock")
    /\ granted' = TRUE
    /\ UNCHANGED <<serverVars, shown, configured, addressVars, mailVars, copyVars, clicks>>

\* Variant: the address of the render that started it is copied.
RandomStale(i) ==
    /\ request[i].kind = "random" /\ request[i].pc = "handled"
    /\ LET address == request[i].body
       IN  /\ name' = address[1] /\ domain' = address[2] /\ storage' = Stored(name')
           /\ request' = [request EXCEPT ![i] = Put("write", CurrentAddress, address)]
    /\ handed' = TRUE /\ crossed' = (crossed \/ Writing # {})
    /\ UNCHANGED <<serverVars, gateVars, mailVars, clipboard, secure, told, clicks>>

\* randomMailbox goes to the mailbox and copies its address.
RandomShown(i) ==
    /\ request[i].kind = "random" /\ request[i].pc = "handled"
    /\ LET address == request[i].body
       IN  /\ name' = address[1] /\ domain' = address[2] /\ storage' = Stored(name')
           /\ request' = [request EXCEPT ![i] = Put("write", address, AddressOf(name', domain'))]
    /\ handed' = TRUE /\ crossed' = (crossed \/ Writing # {})
    /\ UNCHANGED <<serverVars, gateVars, mailVars, clipboard, secure, told, clicks>>

\* The message that it has been copied, whether there was a clipboard or not.
Copied(i) ==
    /\ Done(i, "write")
    /\ told' = request[i].says
    /\ UNCHANGED <<serverVars, gateVars, addressVars, mailVars, clipboard, secure, crossed, clicks>>

\* It is refused or lost; only some of them show an error.
Failed(i) ==
    /\ request[i].pc = "sent"
    /\ request' = [request EXCEPT ![i] = Idle]
    /\ UNCHANGED <<serverVars, gateVars, addressVars, mailVars, copyVars, clicks>>

\* Variant: the newest mail takes the place of the one that is open.
SelectNewest ==
    /\ granted /\ name # Empty
    /\ selected' = "mailbox"
    /\ UNCHANGED <<serverVars, gateVars, addressVars, page, ready, mode, drawer, copyVars,
                   request, clicks>>

\* loadMailboxMessages shows an inbox with a mail (MailboxView), which becomes
\* the selected one if there is none.
SelectFirst ==
    /\ granted /\ name # Empty /\ selected = None
    /\ selected' = "mailbox"
    /\ UNCHANGED <<serverVars, gateVars, addressVars, page, ready, mode, drawer, copyVars,
                   request, clicks>>

Next ==
    \/ Unlock \/ Refresh \/ Random \/ OpenFromInbox \/ OpenFromAll \/ CloseDrawer \/ Reload
    \/ \E text \in Texts : Type(text)
    \/ \E d \in Domains : Select(d)
    \/ \E what \in Addresses \union {Code} : Copy(what)
    \/ \E p \in {"mailbox", "detail", "allMessages"} : Navigate(p)
    \/ \E i \in 1..Slots :
          \/ HandleConfig(i) \/ HandleUnlock(i) \/ HandleRandom(i) \/ Write(i)
          \/ ConfigShown(i) \/ Unlocked(i) \/ RandomShown(i) \/ Copied(i) \/ Failed(i)
    \/ Change \/ Admin \/ SelectFirst

Spec == Init /\ [][Next]_vars

-----------------------------------------------------------------------------
(* Properties.                                                             *)

\* Every variable keeps its type; a name is trimmed and in lower case wherever
\* it comes from, the storage included.
TypeOK ==
    /\ site \in Sites /\ session \in BOOLEAN /\ shown \in Sites \union {EmptySite}
    /\ granted \in BOOLEAN /\ configured \in BOOLEAN /\ secure \in BOOLEAN
    /\ ready \in BOOLEAN /\ drawer \in BOOLEAN
    /\ name \in Names /\ storage \in Names /\ domain \in Domains
    /\ clipboard \in Addresses \union {Code, None} /\ told \in Addresses \union {Code, None}
    /\ page \in {"mailbox", "detail", "allMessages"}
    /\ selected \in {None, "mailbox", "allMessages"} /\ mode \in {"mailbox", "admin"}
    /\ \A i \in 1..Slots :
          /\ request[i].pc \in {"idle", "sent", "handled"}
          /\ request[i].kind \in {None, "config", "unlock", "random", "write"}
    /\ clicks \in 0..MaxClicks /\ changes \in 0..MaxChanges

\* Once the page has its configuration, it stands open, with no gate, only where
\* the server serves: a private site has a session of this visitor, unless it
\* became private or the session ended since the page was opened (App.tsx:461-473,
\* 618-623 and api.go:154-179, 845-855).  Before the configuration has come, or
\* if it never does, the page shows no gate on any site, and nothing is said.
GateAgrees == (configured /\ ~Gate /\ ~lapsed) => (site.private => session)

\* Every variable keeps its type, and the address is at a domain the page
\* offers, whatever order answers come in and whatever is removed meanwhile,
\* unless the server has just drawn it from a configuration the page does not
\* know (App.tsx:466, 634-635, 1187).
DomainIsOffered ==
    /\ TypeOK
    /\ handed \/ domain \in ToSet(shown.domains)

\* What a message said was copied is in the clipboard, unless two writes
\* overlapped, and for a drawn mailbox that is the address the page went to.
\* It is what the messages say (App.tsx:637, 648, 653), and false of a page that
\* comes over plain HTTP.
CopiedIsTold == (told # None /\ Writing = {} /\ ~crossed) => clipboard = told

\* In a secure context, where there is a clipboard to write to, what a message
\* said was copied is there, unless two writes overlapped, and for a drawn
\* mailbox that is the address the page went to (App.tsx:634-637, 647-653).
CopiedWhereSecure == secure => CopiedIsTold

\* The tester, which lets the administrator try a project on a mail, stands
\* beside mails from the administrator's list only (App.tsx:558, 663-671, 922-930).
TesterForAdminsMails == TesterShown => selected = "allMessages"

=============================================================================
