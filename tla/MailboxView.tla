----------------------------- MODULE MailboxView -----------------------------
(***************************************************************************)
(* The mailbox page (web/src/App.tsx): the list of mails and the list of   *)
(* codes it shows, which two sources write to.  Fetches replace a list by  *)
(* the answer of /api/mailbox/{address}/messages or /codes, and the frames *)
(* of the WebSocket add a mail and replace the codes.  Nothing orders the  *)
(* answers, on connections of their own, among each other or against the   *)
(* frames.                                                                 *)
(*                                                                         *)
(* The server is here what the page sees of it: a mail is stored, its      *)
(* codes are added and then it is published (Delivery), a subscription     *)
(* begins before the handshake ends, and its frames come in order          *)
(* (Realtime; fewer than sixteen mails wait).  A rebuild replaces the      *)
(* codes of all mails whenever it likes and tells no page.                 *)
(***************************************************************************)
EXTENDS Integers, Sequences, SequencesExt

CONSTANTS
    Mails,
    Codes,        \* the matches that a project can find in a mail
    From,         \* From[c]: the mail that c is found in
    Mailboxes,
    MailFor,      \* MailFor[m]: the address m is for
    NoAddress,    \* currentAddress while there is no name
    Fetches,      \* bound: the fetches of one list that are under way at once
    MaxVisits     \* bound: how often the visitor goes to another address

Lists == {"messages", "codes"}

ASSUME ViewAssumption ==
    /\ MailFor \in [Mails -> Mailboxes] /\ NoAddress \notin Mailboxes
    /\ From \in [Codes -> Mails] /\ Codes \intersect Mails = {}
    /\ MaxVisits \in Nat

VARIABLES
    stored,       \* the mails in the mail store
    codes,        \* the matches in the code store
    published,    \* the mails the hub has published
    visits,       \* bound: how often the visitor went to another address
    address,      \* currentAddress of the last render
    access,       \* accessGranted
    ref,          \* currentAddressRef.current
    effects,      \* a render's effects have not run yet
    socket,       \* the socket of the effect, with what the server sends on it
    fetch,        \* the fetches of either list
    lists,        \* mailboxMessages and codeMatches
    loaded,       \* history: a fetch for ref has been shown since the effects ran
    spoiled,      \* history: of a page with an open socket, that since it last sent
                  \* a fetch one has failed or an older list replaced a newer one
    silent        \* history: of such a page, the codes a rebuild has put in since

storeVars == <<stored, codes, published>>
pageVars == <<visits, address, access, ref, effects>>
historyVars == <<loaded, spoiled, silent>>
viewVars == <<stored, codes, published, visits, address, access, ref, effects, socket, fetch,
              lists, loaded, spoiled, silent>>

-----------------------------------------------------------------------------

\* What is listed: a mail in one list, a code in the other.
Items == Mails \union Codes
AnyAddress == Mailboxes \union {NoAddress}

\* The mailbox that an item is listed for.
Box(x) == MailFor[IF x \in Codes THEN From[x] ELSE x]

\* The store behind a list, and Store.ListMailbox of it.
Held(l) == IF l = "messages" THEN stored ELSE codes
ListMailbox(l, a) == {x \in Held(l) : Box(x) = a}

Frame == [mail : Mails, codes : SUBSET Codes]

IdleFetch == [pc |-> "idle", mailbox |-> NoAddress, answer |-> {}]

\* A socket for address a whose handshake begins.
Connecting(a) == [pc |-> "connecting", mailbox |-> a, channel |-> << >>, wire |-> << >>]

NoList == [l \in Lists |-> FALSE]

\* refreshMailbox: a fetch of either list is sent, if the bound allows.
SendFetches(a) ==
    /\ \E slot \in [Lists -> Fetches] :
          /\ \A l \in Lists : fetch[l][slot[l]].pc = "idle"
          /\ fetch' = [l \in Lists |-> [fetch[l] EXCEPT
               ![slot[l]] = [pc |-> "sent", mailbox |-> a, answer |-> {}]]]
    /\ spoiled' = NoList /\ silent' = {}

ViewInit ==
    /\ stored = {} /\ codes = {} /\ published = {} /\ silent = {} /\ visits = 0
    /\ address \in AnyAddress /\ ref = address /\ access = FALSE /\ effects = TRUE
    /\ socket = [Connecting(address) EXCEPT !.pc = "closed"]
    /\ fetch = [l \in Lists |-> [i \in Fetches |-> IdleFetch]]
    /\ lists = [l \in Lists |-> {}]
    /\ loaded = NoList /\ spoiled = NoList

-----------------------------------------------------------------------------
(* The server.                                                             *)

\* Store.Add.
Store(m) ==
    /\ m \notin stored \union published
    /\ stored' = stored \union {m}
    /\ UNCHANGED <<codes, published, pageVars, socket, fetch, lists, historyVars>>

\* Processor.HandleMessage adds what it finds before anybody is told.
Extract(m) ==
    /\ m \in stored \ published
    /\ \E found \in SUBSET {c \in Codes : From[c] = m} : codes' = codes \union found
    /\ UNCHANGED <<stored, published, pageVars, socket, fetch, lists, historyVars>>

\* Hub.Publish.
Publish(m) ==
    /\ m \in stored \ published
    /\ published' = published \union {m}
    /\ socket' = IF socket.pc \in {"subscribed", "open"} /\ socket.mailbox = MailFor[m]
                 THEN [socket EXCEPT !.channel = Append(@, m)] ELSE socket
    /\ UNCHANGED <<stored, codes, pageVars, fetch, lists, historyVars>>

\* The janitors remove an old mail and, each at its own tick, its codes.
Sweep(m) ==
    /\ m \in stored \intersect published
    /\ stored' = stored \ {m}
    /\ UNCHANGED <<codes, published, pageVars, socket, fetch, lists, historyVars>>

SweepCodes(m) ==
    /\ m \in published
    /\ codes' = {c \in codes : From[c] # m}
    /\ UNCHANGED <<stored, published, pageVars, socket, fetch, lists, historyVars>>

\* rebuildCodeMatches: whatever it finds, in mails it may have listed a while
\* ago, takes the place of all codes, and no frame is sent.
Rebuild ==
    /\ codes' \in SUBSET {c \in Codes : From[c] \in stored \union published}
    /\ silent' = IF socket.pc = "open" THEN silent \union (codes' \ codes) ELSE {}
    /\ UNCHANGED <<stored, published, pageVars, socket, fetch, lists, loaded, spoiled>>

\* handleMailboxWebSocket subscribes and then answers the handshake.
Subscribe ==
    /\ socket.pc = "connecting"
    /\ socket' = [socket EXCEPT !.pc = "subscribed"]
    /\ UNCHANGED <<storeVars, pageVars, fetch, lists, historyVars>>

\* WriteJSON sends the next mail with the codes of its mailbox at this moment.
WriteJSON ==
    /\ socket.pc \in {"subscribed", "open"} /\ socket.channel # << >>
    /\ socket' = [socket EXCEPT
         !.wire = Append(@, [mail |-> Head(socket.channel),
                             codes |-> ListMailbox("codes", socket.mailbox)]),
         !.channel = Tail(@)]
    /\ UNCHANGED <<storeVars, pageVars, fetch, lists, historyVars>>

\* handleMailboxResource answers a fetch.
AnswerFetch(l, i) ==
    /\ fetch[l][i].pc = "sent"
    /\ fetch' = [fetch EXCEPT ![l][i].pc = "answered",
                              ![l][i].answer = ListMailbox(l, fetch[l][i].mailbox)]
    /\ UNCHANGED <<storeVars, pageVars, socket, lists, historyVars>>

-----------------------------------------------------------------------------
(* The page.                                                               *)

\* The visitor picks another address, or none, and the page renders with it.
Visit(a) ==
    /\ ~effects /\ a # address /\ visits < MaxVisits
    /\ address' = a /\ effects' = TRUE /\ visits' = visits + 1
    /\ UNCHANGED <<storeVars, access, ref, socket, fetch, lists, historyVars>>

\* A public configuration comes, or the visitor unlocks the page (Visitor).
Grant ==
    /\ ~effects /\ ~access
    /\ access' = TRUE /\ effects' = TRUE
    /\ UNCHANGED <<storeVars, visits, address, ref, socket, fetch, lists, historyVars>>

\* The effects of the render: the reference follows and the old socket is
\* closed.  With an address and access a new one is opened and the lists are
\* fetched; without an address they are emptied.
RunEffects ==
    /\ effects /\ effects' = FALSE /\ ref' = address
    /\ IF address # NoAddress /\ access
       THEN /\ SendFetches(address)
            /\ socket' = Connecting(address)
            /\ UNCHANGED lists
       ELSE /\ socket' = [Connecting(address) EXCEPT !.pc = "closed"]
            /\ lists' = IF address = NoAddress THEN [l \in Lists |-> {}] ELSE lists
            /\ spoiled' = NoList /\ silent' = {} /\ UNCHANGED fetch
    /\ loaded' = NoList
    /\ UNCHANGED <<storeVars, visits, address, access>>

\* Variant: the lists are not fetched again once the socket is open.
OpenWithoutRefresh ==
    /\ socket.pc = "subscribed"
    /\ socket' = [socket EXCEPT !.pc = "open"]
    /\ UNCHANGED <<storeVars, pageVars, fetch, lists, historyVars>>

\* socket.onopen.
Open ==
    /\ socket.pc = "subscribed"
    /\ socket' = [socket EXCEPT !.pc = "open"]
    /\ SendFetches(socket.mailbox)
    /\ UNCHANGED <<storeVars, pageVars, lists, loaded>>

\* The connection fails, which is an error and refreshes, or the server closes
\* it, which is none.  Nobody connects again.
Disconnect ==
    /\ socket.pc \in {"connecting", "subscribed", "open"}
    /\ socket' = [socket EXCEPT !.pc = "closed", !.channel = << >>, !.wire = << >>]
    /\ \/ SendFetches(socket.mailbox)
       \/ spoiled' = NoList /\ silent' = {} /\ UNCHANGED fetch
    /\ UNCHANGED <<storeVars, pageVars, lists, loaded>>

\* The refresh button.
RefreshLists ==
    /\ ~effects /\ address # NoAddress
    /\ SendFetches(address)
    /\ UNCHANGED <<storeVars, pageVars, socket, lists, loaded>>

\* The handlers that change a project fetch the codes again.
RefreshCodes ==
    /\ ~effects /\ address # NoAddress
    /\ \E i \in Fetches :
          /\ fetch["codes"][i].pc = "idle"
          /\ fetch' = [fetch EXCEPT
               !["codes"][i] = [pc |-> "sent", mailbox |-> address, answer |-> {}]]
    /\ spoiled' = [spoiled EXCEPT !["codes"] = FALSE] /\ silent' = {}
    /\ UNCHANGED <<storeVars, pageVars, socket, lists, loaded>>

\* A list is replaced, and something of it that is still stored is gone.
Overtakes(l, list) == socket.pc = "open" /\ (lists[l] \intersect ListMailbox(l, ref)) \ list # {}

\* socket.onmessage: the mail is put in front, and the codes are replaced.
OnMessage ==
    /\ socket.pc = "open" /\ socket.wire # << >>
    /\ LET frame == Head(socket.wire)
       IN  /\ lists' = [messages |-> lists["messages"] \union {frame.mail}, codes |-> frame.codes]
           /\ spoiled' = [spoiled EXCEPT !["codes"] = @ \/ Overtakes("codes", frame.codes)]
    /\ socket' = [socket EXCEPT !.wire = Tail(@)]
    /\ UNCHANGED <<storeVars, pageVars, fetch, loaded, silent>>

\* Variant: the answer is shown whatever mailbox it is of.
ShowAny(l, i) ==
    /\ fetch[l][i].pc = "answered"
    /\ lists' = [lists EXCEPT ![l] = fetch[l][i].answer]
    /\ loaded' = [loaded EXCEPT ![l] = @ \/ fetch[l][i].mailbox = ref]
    /\ fetch' = [fetch EXCEPT ![l][i] = IdleFetch]
    /\ UNCHANGED <<storeVars, pageVars, socket, spoiled, silent>>

\* The answer arrives, and is shown if the page is still at its mailbox.
Show(l, i) ==
    /\ fetch[l][i].pc = "answered"
    /\ IF fetch[l][i].mailbox = ref
       THEN /\ lists' = [lists EXCEPT ![l] = fetch[l][i].answer]
            /\ loaded' = [loaded EXCEPT ![l] = TRUE]
            /\ spoiled' = [spoiled EXCEPT ![l] = @ \/ Overtakes(l, fetch[l][i].answer)]
            /\ UNCHANGED silent
       ELSE UNCHANGED <<lists, historyVars>>
    /\ fetch' = [fetch EXCEPT ![l][i] = IdleFetch]
    /\ UNCHANGED <<storeVars, pageVars, socket>>

\* The fetch fails, and an error is all the visitor sees of it.
Fail(l, i) ==
    /\ fetch[l][i].pc # "idle"
    /\ fetch' = [fetch EXCEPT ![l][i] = IdleFetch]
    /\ spoiled' = [spoiled EXCEPT ![l] =
                     @ \/ (socket.pc = "open" /\ fetch[l][i].mailbox = ref)]
    /\ UNCHANGED <<storeVars, pageVars, socket, lists, loaded, silent>>

ViewNext ==
    \/ \E m \in Mails : Store(m) \/ Extract(m) \/ Publish(m) \/ Sweep(m) \/ SweepCodes(m)
    \/ \E l \in Lists, i \in Fetches : AnswerFetch(l, i) \/ Show(l, i) \/ Fail(l, i)
    \/ \E a \in AnyAddress : Visit(a)
    \/ Rebuild \/ Grant \/ RunEffects \/ Subscribe \/ WriteJSON \/ Open \/ Disconnect
    \/ RefreshLists \/ RefreshCodes \/ OnMessage

ViewSpec == ViewInit /\ [][ViewNext]_viewVars

-----------------------------------------------------------------------------
(* Properties.                                                             *)

\* Every variable keeps its type, and a socket that is closed carries nothing.
ViewTypeOK ==
    /\ stored \subseteq Mails /\ published \subseteq Mails
    /\ codes \subseteq Codes /\ silent \subseteq Codes
    /\ visits \in 0..MaxVisits
    /\ address \in AnyAddress /\ ref \in AnyAddress
    /\ access \in BOOLEAN /\ effects \in BOOLEAN
    /\ socket \in [pc : {"closed", "connecting", "subscribed", "open"}, mailbox : AnyAddress,
                   channel : Seq(Mails), wire : Seq(Frame)]
    /\ socket.pc \in {"closed", "connecting"} => socket.channel \o socket.wire = << >>
    /\ fetch \in [Lists -> [Fetches -> [pc : {"idle", "sent", "answered"}, mailbox : AnyAddress,
                                      answer : SUBSET Items]]]
    /\ lists \in [Lists -> SUBSET Items]
    /\ loaded \in [Lists -> BOOLEAN] /\ spoiled \in [Lists -> BOOLEAN]

\* From the first answer for an address on, the page shows no mail and no code
\* of another address there, whatever was under way when the visitor came from
\* it (App.tsx:556, 573, 581-587).
OnlyOwnMails ==
    ~effects => \A l \in Lists : loaded[l] => \A x \in lists[l] : Box(x) = address

\* The mails of which a frame will be written.
Announced == ToSet(socket.channel) \union (stored \ published)

\* What is on its way to a list.
Coming(l) ==
    IF l = "messages"
    THEN Announced \union {f.mail : f \in ToSet(socket.wire)}
    ELSE {c \in Codes : From[c] \in Announced} \union UNION {f.codes : f \in ToSet(socket.wire)}

\* No fetch of the list is under way.
NoFetch(l) == \A i \in Fetches : fetch[l][i].pc = "idle"

\* Every variable keeps its type, and when a page whose socket is open has the
\* answers to all it asked, it has every stored mail and every stored code of
\* its address, or they are on their way: between the first fetch, the
\* subscription and the fetch at the socket's opening there is no gap
\* (App.tsx:594-595, api.go:253).  There are three exceptions, each until the
\* page asks again: a fetch failed, an older list replaced a newer one, and for
\* a code, that a rebuild has put it in, of which nothing tells the page
\* (api.go:836-843).
NoGap ==
    /\ ViewTypeOK
    /\ (socket.pc = "open" /\ ~effects) =>
          \A l \in Lists : (NoFetch(l) /\ ~spoiled[l]) =>
              ListMailbox(l, address) \subseteq lists[l] \union Coming(l) \union silent

=============================================================================
