----------------------------- MODULE VisitorProofs -----------------------------
(***************************************************************************)
(* Proofs about Visitor, for any sites, names and numbers of requests,     *)
(* clicks and changes.                                                     *)
(*                                                                         *)
(* The four properties speak of what answers do to the page, so the        *)
(* invariants behind them speak of the answers on their way: what an       *)
(* answer carries (Proper), what an answer that will open the gate says of *)
(* the server (Entitled), and what a write that is under way has put or    *)
(* will put into the clipboard, where there is one (OneWrite, Pasted).  A  *)
(* page that lets its visitor in is served (GrantedServed), and one that   *)
(* has its configuration knows whether to ask him (GateKnown).             *)
(*                                                                         *)
(* The second part is about the lists of the same page (MailboxView), for  *)
(* any mails, codes, mailboxes, fetches and visits.  That nothing is       *)
(* missed between a fetch and the subscription is carried from step to     *)
(* step by following one mail or code: it is shown, or the socket is going *)
(* to bring it, or a fetch that is under way is, or it is a code a rebuild *)
(* has put in without a word (Covered).                                    *)
(***************************************************************************)
EXTENDS Visitor, MailboxView, TLAPS

\* The requests are records in slots.
Shape ==
    request = [i \in 1..Slots |->
        [pc |-> request[i].pc, kind |-> request[i].kind,
         body |-> request[i].body, says |-> request[i].says]]

\* What a request and its answer carry.
Proper(req) ==
    /\ req.kind = "config" /\ req.pc = "handled" => req.body \in Sites
    /\ req.kind = "random" /\ req.pc = "sent" => req.body \in Domains
    /\ req.kind = "random" /\ req.pc = "handled" => req.body \in RandomNames \X Domains
    /\ req.kind = "write" =>
         /\ req.says \in Addresses \union {Code}
         /\ req.pc \in {"sent", "handled"}
         /\ req.pc = "sent" => req.body = req.says

\* The server serves the visitor, unless the site has become private or the
\* session ended since the page was opened.
Served == ~lapsed => (site.private => session)

\* Whom the page has granted access the server serves.
GrantedServed == granted => Served

\* A page with a configuration of a public site has granted access.
GateKnown == configured /\ ~shown.private => granted

\* An answer that will open the gate is right about that.
Opens(req) ==
    /\ req.pc = "handled"
    /\ req.kind = "unlock" \/ (req.kind = "config" /\ ~req.body.private)

Entitled(req) == Opens(req) => Served

\* The writes to the clipboard come one after the other until two overlap.
OneWrite == ~crossed => \A i, j \in Writing : i = j

\* Where there is a clipboard, what has been written is there, and so is what
\* has been told.
Pasted ==
    ~crossed /\ secure =>
        /\ \A i \in Writing : request[i].pc = "handled" => clipboard = request[i].says
        /\ (told # None /\ \A i \in Writing : request[i].pc = "sent") => clipboard = told

\* The drawer is in the administrator's mode for the administrator's list.
ModeOfList == mode = "admin" => selected = "allMessages"

IInv ==
    /\ TypeOK /\ Shape
    /\ \A i \in 1..Slots : Proper(request[i]) /\ Entitled(request[i])
    /\ GrantedServed /\ GateKnown /\ DomainIsOffered
    /\ OneWrite /\ Pasted /\ ModeOfList

-----------------------------------------------------------------------------
(* The steps, by what they do to the requests.                             *)

\* The steps of the visitor and of the site that touch no request.
Quiet ==
    \/ OpenFromInbox \/ OpenFromAll \/ CloseDrawer \/ Change \/ Admin \/ SelectFirst
    \/ \E text \in Texts : Type(text)
    \/ \E d \in Domains : Select(d)
    \/ \E p \in {"mailbox", "detail", "allMessages"} : Navigate(p)

Asks ==
    \/ Unlock \/ Refresh \/ Random
    \/ \E what \in Addresses \union {Code} : Copy(what)

Answers(i) == HandleConfig(i) \/ HandleUnlock(i) \/ HandleRandom(i) \/ Write(i)

Ends(i) == ConfigShown(i) \/ Unlocked(i) \/ Copied(i) \/ Failed(i)

LEMMA NextCases ==
  ASSUME [Next]_vars
  PROVE  \/ Quiet \/ Asks \/ Reload
         \/ \E i \in 1..Slots : Answers(i) \/ Ends(i) \/ RandomShown(i)
         \/ UNCHANGED vars
  BY DEF Next, Quiet, Asks, Answers, Ends

\* Only the request in slot i moves.
Only(i) == \A j \in (1..Slots) \ {i} : request'[j] = request[j]

\* A record like those in the slots.
IsRequest(req) ==
    req = [pc |-> req.pc, kind |-> req.kind, body |-> req.body, says |-> req.says]

LEMMA Replace ==
  ASSUME Shape, NEW i \in 1..Slots, NEW req, IsRequest(req),
         request' = [request EXCEPT ![i] = req]
  PROVE  Shape' /\ Only(i) /\ request'[i] = req
<1>1. DOMAIN request = 1..Slots
  BY DEF Shape
<1>2. request' = [j \in 1..Slots |-> request'[j]]
  BY <1>1
<1>3. Only(i) /\ request'[i] = req
  BY <1>1 DEF Only
<1>4. \A j \in 1..Slots : IsRequest(request[j])
  BY DEF Shape, IsRequest
<1>5. \A j \in 1..Slots : IsRequest(request'[j])
  BY <1>3, <1>4 DEF Only
<1>6. Shape'
  BY <1>2, <1>5 DEF Shape, IsRequest
<1> QED BY <1>3, <1>6

LEMMA PutIsRequest ==
  /\ IsRequest(Idle)
  /\ \A kind, body, says : IsRequest(Put(kind, body, says))
  BY DEF Idle, Put, IsRequest

\* A click fills a slot that was free.
LEMMA ClickSends ==
  ASSUME Shape, NEW kind, NEW body, NEW says, Click(Put(kind, body, says))
  PROVE  Shape' /\ \E i \in 1..Slots : /\ Only(i) /\ request[i].pc = "idle"
                                       /\ request'[i] = Put(kind, body, says)
<1>1. PICK i \in 1..Slots : /\ request[i].pc = "idle"
                            /\ request' = [request EXCEPT ![i] = Put(kind, body, says)]
  BY DEF Click
<1>2. IsRequest(Put(kind, body, says))
  BY PutIsRequest
<1>3. Shape' /\ Only(i) /\ request'[i] = Put(kind, body, says)
  BY <1>1, <1>2, Replace
<1> QED BY <1>1, <1>3

\* An answer keeps what the request was and what it will say.
LEMMA AnswerMoves ==
  ASSUME Shape, NEW i \in 1..Slots, NEW body, Answer(i, body)
  PROVE  /\ Shape' /\ Only(i) /\ request[i].pc = "sent"
         /\ request'[i].pc = "handled" /\ request'[i].kind = request[i].kind
         /\ request'[i].body = body /\ request'[i].says = request[i].says
<1> DEFINE req == [request[i] EXCEPT !.pc = "handled", !.body = body]
<1>1. PICK PC, KIND, BODY, SAYS :
         request[i] \in [pc : PC, kind : KIND, body : BODY, says : SAYS]
  <2>1. request[i] \in [pc : {request[i].pc}, kind : {request[i].kind},
                       body : {request[i].body}, says : {request[i].says}]
    BY DEF Shape
  <2> QED BY <2>1
<1>2. /\ IsRequest(req) /\ req.pc = "handled" /\ req.kind = request[i].kind
      /\ req.body = body /\ req.says = request[i].says
  <2>1. req \in [pc : PC \union {"handled"}, kind : KIND, body : BODY \union {body}, says : SAYS]
    BY <1>1
  <2>2. /\ req.pc = "handled" /\ req.kind = request[i].kind
        /\ req.body = body /\ req.says = request[i].says
    BY <1>1
  <2> HIDE DEF req
  <2> QED BY <2>1, <2>2 DEF IsRequest
<1>3. request' = [request EXCEPT ![i] = req]
  BY DEF Answer, Shape
<1> HIDE DEF req
<1>4. Shape' /\ Only(i) /\ request'[i] = req
  BY <1>2, <1>3, Replace
<1> QED BY <1>2, <1>4 DEF Answer

\* A request that is done, or has failed, leaves its slot.
LEMMA EndMoves ==
  ASSUME Shape, NEW i \in 1..Slots, Ends(i)
  PROVE  Shape' /\ Only(i) /\ request'[i] = Idle
<1>1. request' = [request EXCEPT ![i] = Idle]
  BY DEF Ends, ConfigShown, Unlocked, Copied, Failed, Done
<1> QED BY <1>1, Replace, PutIsRequest

\* The random address is written to the clipboard.
LEMMA RandomMoves ==
  ASSUME Shape, NEW i \in 1..Slots, Proper(request[i]), RandomShown(i)
  PROVE  /\ Shape' /\ Only(i) /\ request[i].kind = "random"
         /\ request[i].body \in RandomNames \X Domains
         /\ name' = request[i].body[1] /\ domain' = request[i].body[2] /\ storage' = name'
         /\ name' # Empty
         /\ request'[i] = Put("write", request[i].body, request[i].body)
<1>1. /\ request[i].body \in RandomNames \X Domains
      /\ request[i].kind = "random" /\ request[i].pc = "handled"
      /\ name' = request[i].body[1] /\ domain' = request[i].body[2] /\ storage' = Stored(name')
  BY DEF RandomShown, Proper
<1>2. /\ name' # Empty /\ storage' = name' /\ AddressOf(name', domain') = request[i].body
  BY <1>1, VisitorAssumption DEF Stored, AddressOf
<1>3. request' = [request EXCEPT ![i] = Put("write", request[i].body, request[i].body)]
  BY <1>2 DEF RandomShown
<1>4. Shape' /\ Only(i) /\ request'[i] = Put("write", request[i].body, request[i].body)
  BY <1>3, Replace, PutIsRequest
<1> QED BY <1>1, <1>2, <1>4

LEMMA OpenedMoves ==
  ASSUME Opened
  PROVE  /\ Shape'
         /\ \A i \in 1..Slots : request'[i] = Put("config", None, None) \/ request'[i] = Idle
<1>1. request' = [i \in 1..Slots |-> IF i = 1 THEN Put("config", None, None) ELSE Idle]
  BY DEF Opened
<1> QED BY <1>1 DEF Shape, Put, Idle

LEMMA QuietMoves == Quiet \/ UNCHANGED vars => UNCHANGED request
  BY DEF Quiet, OpenFromInbox, OpenFromAll, OpenMessage, CloseDrawer, Change, Admin, SelectFirst,
         Type, Select, Navigate, vars

LEMMA AskMoves ==
  ASSUME Shape, Asks
  PROVE  Shape' /\ \E i \in 1..Slots :
            /\ Only(i) /\ request[i].pc = "idle"
            /\ \/ Unlock /\ request'[i] = Put("unlock", None, None)
               \/ Refresh /\ request'[i] = Put("config", None, None)
               \/ Random /\ request'[i] = Put("random", domain, None)
               \/ \E what \in Addresses \union {Code} :
                     Copy(what) /\ request'[i] = Put("write", what, what)
<1>1. CASE Unlock
  BY <1>1, ClickSends DEF Unlock
<1>2. CASE Refresh
  BY <1>2, ClickSends DEF Refresh
<1>3. CASE Random
  BY <1>3, ClickSends DEF Random
<1>4. ASSUME NEW what \in Addresses \union {Code}, Copy(what)
      PROVE  Shape' /\ \E i \in 1..Slots : /\ Only(i) /\ request[i].pc = "idle"
                                           /\ request'[i] = Put("write", what, what)
  BY <1>4, ClickSends DEF Copy
<1> QED BY <1>1, <1>2, <1>3, <1>4 DEF Asks

\* Proper requests stay proper: the answers bring what belongs in them.
LEMMA NextProper ==
  ASSUME TypeOK, Shape, \A i \in 1..Slots : Proper(request[i]), [Next]_vars
  PROVE  /\ Shape' /\ \A i \in 1..Slots : Proper(request'[i])
         /\ \A i \in 1..Slots : /\ request'[i].pc \in {"idle", "sent", "handled"}
                                /\ request'[i].kind \in {None, "config", "unlock", "random", "write"}
<1> DEFINE Kind(req) == /\ req.pc \in {"idle", "sent", "handled"}
                        /\ req.kind \in {None, "config", "unlock", "random", "write"}
           Good(req) == Proper(req) /\ Kind(req)
<1>1. \A i \in 1..Slots : Good(request[i])
  BY DEF TypeOK
<1>2. ASSUME NEW i \in 1..Slots, Only(i), Good(request'[i])
      PROVE  \A j \in 1..Slots : Good(request'[j])
  BY <1>1, <1>2 DEF Only
<1>3. /\ Good(Idle) /\ Good(Put("config", None, None)) /\ Good(Put("unlock", None, None))
      /\ Good(Put("random", domain, None))
      /\ \A what \in Addresses \union {Code} : Good(Put("write", what, what))
  BY VisitorAssumption DEF Idle, Put, Proper, TypeOK
<1>4. CASE Quiet \/ UNCHANGED vars
  BY <1>1, <1>4, QuietMoves DEF Shape
<1>5. CASE Asks
  <2>1. Shape'
    BY <1>5, AskMoves
  <2>2. PICK i \in 1..Slots : Only(i) /\ Good(request'[i])
    <3> HIDE DEF Good
    <3> QED BY <1>3, <1>5, AskMoves
  <2>3. \A j \in 1..Slots : Good(request'[j])
    BY <1>2, <2>2
  <2> QED BY <2>1, <2>3
<1>6. CASE Reload
  <2>1. Shape' /\ \A i \in 1..Slots : request'[i] = Put("config", None, None) \/ request'[i] = Idle
    BY <1>6, OpenedMoves DEF Reload
  <2>2. \A i \in 1..Slots : Good(request'[i])
    BY <1>3, <2>1
  <2> QED BY <2>1, <2>2
<1>7. ASSUME NEW i \in 1..Slots, Answers(i)
      PROVE  Shape' /\ \A j \in 1..Slots : Good(request'[j])
  <2>1. PICK body : /\ Answer(i, body)
                    /\ request[i].kind = "config" => body \in Sites
                    /\ request[i].kind = "random" => body \in RandomNames \X Domains
    <3>1. CASE HandleConfig(i)
      BY <3>1 DEF HandleConfig, TypeOK
    <3>2. CASE HandleUnlock(i)
      BY <3>2 DEF HandleUnlock
    <3>3. CASE HandleRandom(i)
      BY <1>1, <3>3 DEF HandleRandom, Proper
    <3>4. CASE Write(i)
      BY <3>4 DEF Write
    <3> QED BY <1>7, <3>1, <3>2, <3>3, <3>4 DEF Answers
  <2>2. /\ Shape' /\ Only(i) /\ request[i].pc = "sent"
        /\ request'[i].pc = "handled" /\ request'[i].kind = request[i].kind
        /\ request'[i].body = body /\ request'[i].says = request[i].says
    BY <2>1, AnswerMoves
  <2>3. Good(request'[i])
    BY <1>1, <2>1, <2>2 DEF Proper
  <2> QED BY <1>2, <2>2, <2>3
<1>8. ASSUME NEW i \in 1..Slots, Ends(i)
      PROVE  Shape' /\ \A j \in 1..Slots : Good(request'[j])
  <2>1. Shape' /\ Only(i) /\ request'[i] = Idle
    BY <1>8, EndMoves
  <2> HIDE DEF Good
  <2> QED BY <1>2, <1>3, <2>1
<1>9. ASSUME NEW i \in 1..Slots, RandomShown(i)
      PROVE  Shape' /\ \A j \in 1..Slots : Good(request'[j])
  <2>1. /\ Shape' /\ Only(i) /\ request[i].body \in RandomNames \X Domains
        /\ request'[i] = Put("write", request[i].body, request[i].body)
    BY <1>1, <1>9, RandomMoves
  <2>2. request[i].body \in Addresses
    BY <2>1, VisitorAssumption DEF Addresses, Names
  <2> HIDE DEF Good
  <2> QED BY <1>2, <1>3, <2>1, <2>2
<1> QED BY <1>4, <1>5, <1>6, <1>7, <1>8, <1>9, NextCases

\* What a domain and a name are replaced with.
LEMMA SiteDomains ==
  /\ \A s \in Sites : ToSet(s.domains) \subseteq Domains /\ s.domains[1] \in ToSet(s.domains)
  /\ ToSet(EmptySite.domains) = {DefaultDomain} /\ ToSet(EmptySite.domains) \subseteq Domains
<1>1. \A s \in Sites : ToSet(s.domains) \subseteq Domains /\ s.domains[1] \in ToSet(s.domains)
  BY VisitorAssumption DEF Domains, ToSet
<1>2. ToSet(<<DefaultDomain>>) = {DefaultDomain}
  BY DEF ToSet
<1> QED BY <1>1, <1>2 DEF EmptySite, Domains

\* The page's and the server's variables keep their types.
LEMMA NextTypeOK ==
  ASSUME TypeOK, Shape, \A i \in 1..Slots : Proper(request[i]), [Next]_vars
  PROVE  TypeOK'
<1>1. \A i \in 1..Slots : /\ request'[i].pc \in {"idle", "sent", "handled"}
                          /\ request'[i].kind \in {None, "config", "unlock", "random", "write"}
  BY NextProper
<1>2. clicks' \in 0..MaxClicks /\ changes' \in 0..MaxChanges
  <2>1. clicks' = clicks \/ (clicks < MaxClicks /\ clicks' = clicks + 1)
    BY DEF Next, Unlock, Refresh, Random, OpenFromInbox, OpenFromAll, OpenMessage, CloseDrawer,
           Reload, Type, Select, Copy, Navigate, HandleConfig, HandleUnlock, HandleRandom, Write,
           Answer, ConfigShown, Unlocked, RandomShown, Copied, Failed, Change, Admin, SelectFirst,
           Click, vars
  <2>2. changes' = changes \/ (changes < MaxChanges /\ changes' = changes + 1)
    BY DEF Next, Unlock, Refresh, Random, OpenFromInbox, OpenFromAll, OpenMessage, CloseDrawer,
           Reload, Type, Select, Copy, Navigate, HandleConfig, HandleUnlock, HandleRandom, Write,
           Answer, ConfigShown, Unlocked, RandomShown, Copied, Failed, Change, Admin, SelectFirst,
           serverVars, vars
  <2> QED BY <2>1, <2>2, VisitorAssumption DEF TypeOK
<1>3. CASE Quiet \/ UNCHANGED vars
  <2>1. ASSUME NEW text \in Texts, Type(text) PROVE TypeOK'
    <3>1. Norm[text] \in Names
      BY DEF Names
    <3> QED BY <1>1, <1>2, <2>1, <3>1
            DEF Type, Stored, TypeOK, serverVars, mailVars, gateVars, copyVars
  <2>2. ASSUME NEW d \in Domains, Select(d) PROVE TypeOK'
    BY <1>1, <1>2, <2>2 DEF Select, TypeOK, serverVars, mailVars, gateVars, copyVars
  <2>3. CASE OpenFromInbox \/ OpenFromAll
    BY <1>1, <1>2, <2>3
    DEF OpenFromInbox, OpenFromAll, OpenMessage, TypeOK, serverVars, addressVars, gateVars, copyVars
  <2>4. CASE CloseDrawer
    <3>1. page' \in {"mailbox", "detail", "allMessages"} /\ drawer' \in BOOLEAN
      BY <2>4 DEF CloseDrawer, TypeOK
    <3>2. UNCHANGED <<site, session, shown, granted, configured, secure, ready, name, storage,
                      domain, clipboard, told, selected, mode>>
      BY <2>4 DEF CloseDrawer, serverVars, addressVars, gateVars, copyVars
    <3> QED BY <1>1, <1>2, <3>1, <3>2 DEF TypeOK
  <2>5. CASE Change
    <3>1. session' \in BOOLEAN
      BY <2>5 DEF Change, TypeOK
    <3>2. /\ site' \in Sites
          /\ UNCHANGED <<shown, granted, configured, secure, ready, drawer, name, storage,
                         domain, clipboard, told, page, selected, mode>>
      BY <2>5 DEF Change, TypeOK, addressVars, mailVars, gateVars, copyVars
    <3> QED BY <1>1, <1>2, <3>1, <3>2 DEF TypeOK
  <2>6. CASE Admin \/ SelectFirst
    BY <1>1, <1>2, <2>6, ZenonT(40)
    DEF Admin, SelectFirst, TypeOK, serverVars, addressVars, gateVars, copyVars
  <2>7. ASSUME NEW p \in {"mailbox", "detail", "allMessages"}, Navigate(p) PROVE TypeOK'
    BY <1>1, <1>2, <2>7 DEF Navigate, TypeOK, serverVars, addressVars, gateVars, copyVars
  <2>8. CASE UNCHANGED vars
    BY <2>8 DEF vars, TypeOK
  <2> QED BY <1>3, <2>1, <2>2, <2>3, <2>4, <2>5, <2>6, <2>7, <2>8 DEF Quiet
<1>4. CASE Asks
  <2>1. UNCHANGED <<site, session, shown, granted, configured, secure, ready, drawer, name,
                    storage, domain, clipboard, told, page, selected, mode>>
    BY <1>4
    DEF Asks, Unlock, Refresh, Random, Copy, serverVars, addressVars, mailVars, gateVars, copyVars
  <2> QED BY <1>1, <1>2, <2>1 DEF TypeOK
<1>5. CASE Reload
  <2>1. DefaultDomain \in Domains
    BY DEF Domains
  <2> QED BY <1>1, <1>2, <1>5, <2>1 DEF Reload, Opened, TypeOK
<1>6. ASSUME NEW i \in 1..Slots, Answers(i) PROVE TypeOK'
  <2>1. request[i].kind = "write" /\ request[i].pc = "sent" =>
           request[i].body \in Addresses \union {Code}
    BY DEF Proper
  <2>2. UNCHANGED <<site, shown, granted, configured, secure, ready, drawer, name, storage,
                    domain, told, page, selected, mode>>
    BY <1>6 DEF Answers, HandleConfig, HandleUnlock, HandleRandom, Write, Answer,
                addressVars, mailVars, gateVars
  <2>3. session' \in BOOLEAN
    BY <1>6 DEF Answers, HandleConfig, HandleUnlock, HandleRandom, Write, TypeOK
  <2>4. clipboard' \in Addresses \union {Code, None}
    BY <1>6, <2>1
    DEF Answers, HandleConfig, HandleUnlock, HandleRandom, Write, Answer, TypeOK
  <2> QED BY <1>1, <1>2, <2>2, <2>3, <2>4 DEF TypeOK
<1>7. ASSUME NEW i \in 1..Slots, Ends(i) PROVE TypeOK'
  <2>1. CASE ConfigShown(i)
    <3>1. request[i].body \in Sites
      BY <2>1 DEF ConfigShown, Done, Proper
    <3>2. domain' \in Domains /\ request[i].body.private \in BOOLEAN
      BY <2>1, <3>1, SiteDomains, VisitorAssumption DEF ConfigShown, TypeOK
    <3>3. granted' \in BOOLEAN
      BY <2>1, <3>2 DEF ConfigShown, TypeOK
    <3> QED BY <1>1, <1>2, <2>1, <3>1, <3>2, <3>3
            DEF ConfigShown, TypeOK, serverVars, mailVars, gateVars, copyVars
  <2>2. CASE Unlocked(i)
    BY <1>1, <1>2, <2>2 DEF Unlocked, TypeOK, serverVars, addressVars, mailVars, gateVars, copyVars
  <2>3. CASE Copied(i)
    BY <1>1, <1>2, <2>3
    DEF Copied, Done, Proper, TypeOK, serverVars, addressVars, mailVars, gateVars
  <2>4. CASE Failed(i)
    BY <1>1, <1>2, <2>4 DEF Failed, TypeOK, serverVars, addressVars, mailVars, gateVars, copyVars
  <2> QED BY <1>7, <2>1, <2>2, <2>3, <2>4 DEF Ends
<1>8. ASSUME NEW i \in 1..Slots, RandomShown(i) PROVE TypeOK'
  <2>1. name' \in Names /\ storage' \in Names /\ domain' \in Domains
    BY <1>8, RandomMoves DEF Names
  <2> QED BY <1>1, <1>2, <1>8, <2>1, SMTT(30)
          DEF RandomShown, TypeOK, serverVars, mailVars, gateVars
<1> QED BY <1>3, <1>4, <1>5, <1>6, <1>7, <1>8, NextCases

\* Whom the server serves it serves on, but for a page that is opened anew.
LEMMA NextServed ==
  ASSUME Served, [Next]_vars, ~Reload
  PROVE  Served'
<1>1. CASE Change
  BY <1>1 DEF Change, Served
<1>2. ASSUME NEW i \in 1..Slots, HandleUnlock(i) PROVE Served'
  BY <1>2 DEF HandleUnlock, Served
<1>3. CASE ~Change /\ \A i \in 1..Slots : ~HandleUnlock(i)
  <2>1. UNCHANGED <<site, session, lapsed>>
    BY <1>3
    DEF Next, Unlock, Refresh, Random, OpenFromInbox, OpenFromAll, OpenMessage, CloseDrawer,
        Type, Select, Copy, Navigate, HandleConfig, HandleRandom, Write, Answer, ConfigShown,
        Unlocked, RandomShown, Copied, Failed, Admin, SelectFirst, serverVars, vars
  <2> QED BY <2>1 DEF Served
<1> QED BY <1>1, <1>2, <1>3

LEMMA NextEntitled ==
  ASSUME TypeOK, Shape, \A i \in 1..Slots : Proper(request[i]) /\ Entitled(request[i]), [Next]_vars
  PROVE  \A i \in 1..Slots : Entitled(request[i])'
<1> SUFFICES ASSUME NEW i \in 1..Slots, Opens(request'[i]) PROVE Served'
  BY DEF Entitled, Served, Opens
<1>1. ~Opens(Idle) /\ \A kind, body, says : ~Opens(Put(kind, body, says))
  BY DEF Opens, Idle, Put
<1>2. CASE request'[i] = request[i]
  <2>1. ~Reload
    BY <1>1, OpenedMoves DEF Reload
  <2> QED BY <1>2, <2>1, NextServed DEF Entitled
<1>3. CASE request'[i] # request[i]
  <2>1. Answers(i)
    <3>1. ~Quiet /\ ~UNCHANGED vars
      BY <1>3, QuietMoves
    <3>2. ~Asks
      BY <1>1, <1>3, AskMoves DEF Only
    <3>3. ~Reload
      BY <1>1, OpenedMoves DEF Reload
    <3>4. ASSUME NEW j \in 1..Slots, Ends(j) PROVE FALSE
      BY <1>1, <1>3, <3>4, EndMoves DEF Only
    <3>5. ASSUME NEW j \in 1..Slots, RandomShown(j) PROVE FALSE
      BY <1>1, <1>3, <3>5, RandomMoves DEF Only
    <3>6. ASSUME NEW j \in 1..Slots, Answers(j) PROVE j = i
      <4>1. PICK body : Answer(j, body)
        BY <3>6 DEF Answers, HandleConfig, HandleUnlock, HandleRandom, Write
      <4>2. Only(j)
        BY <4>1, AnswerMoves
      <4> QED BY <1>3, <4>2 DEF Only
    <3> QED BY <3>1, <3>2, <3>3, <3>4, <3>5, <3>6, NextCases
  <2>2. CASE HandleConfig(i)
    <3>1. request'[i].kind = "config" /\ request'[i].body = site /\ site' = site
      BY <2>2, AnswerMoves DEF HandleConfig, Answer
    <3> QED BY <3>1 DEF Opens, Served
  <2>3. CASE HandleUnlock(i)
    BY <2>3 DEF HandleUnlock, Served
  <2>4. CASE HandleRandom(i) \/ Write(i)
    <3>1. request'[i].kind \in {"random", "write"}
      BY <2>4, AnswerMoves DEF HandleRandom, Write
    <3> QED BY <3>1 DEF Opens
  <2> QED BY <2>1, <2>2, <2>3, <2>4 DEF Answers
<1> QED BY <1>2, <1>3

LEMMA NextGrantedServed == IInv /\ [Next]_vars => GrantedServed'
<1> SUFFICES ASSUME IInv, [Next]_vars, granted' PROVE Served'
  BY DEF GrantedServed, Served
<1>1. ~Reload
  BY DEF Reload, Opened
<1>2. Served
  <2>1. CASE granted
    BY <2>1 DEF IInv, GrantedServed
  <2>2. CASE ~granted
    <3>1. PICK i \in 1..Slots : ConfigShown(i) \/ Unlocked(i)
      BY <1>1, <2>2
      DEF Next, Unlock, Refresh, Random, OpenFromInbox, OpenFromAll, OpenMessage, CloseDrawer,
          Type, Select, Copy, Navigate, HandleConfig, HandleUnlock, HandleRandom, Write, Answer,
          RandomShown, Copied, Failed, Change, Admin, SelectFirst, gateVars, vars
    <3>2. Opens(request[i])
      BY <2>2, <3>1 DEF ConfigShown, Unlocked, Done, Opens
    <3> QED BY <3>2 DEF IInv, Entitled
  <2> QED BY <2>1, <2>2
<1> QED BY <1>1, <1>2, NextServed

\* A configuration of a public site grants access as it comes, and access stays.
LEMMA NextGateKnown == IInv /\ [Next]_vars => GateKnown'
<1> SUFFICES ASSUME IInv, [Next]_vars PROVE GateKnown'
  OBVIOUS
<1>1. CASE Reload
  BY <1>1 DEF Reload, Opened, GateKnown
<1>2. ASSUME NEW i \in 1..Slots, ConfigShown(i) PROVE GateKnown'
  BY <1>2 DEF ConfigShown, GateKnown
<1>3. ASSUME NEW i \in 1..Slots, Unlocked(i) PROVE GateKnown'
  BY <1>3 DEF Unlocked, GateKnown
<1>4. CASE ~Reload /\ \A i \in 1..Slots : ~ConfigShown(i) /\ ~Unlocked(i)
  <2>1. UNCHANGED gateVars
    BY <1>4
    DEF Next, Unlock, Refresh, Random, OpenFromInbox, OpenFromAll, OpenMessage, CloseDrawer,
        Type, Select, Copy, Navigate, HandleConfig, HandleUnlock, HandleRandom, Write, Answer,
        RandomShown, Copied, Failed, Change, Admin, SelectFirst, vars, gateVars
  <2> QED BY <2>1 DEF gateVars, GateKnown, IInv
<1> QED BY <1>1, <1>2, <1>3, <1>4

LEMMA NextModeOfList == ModeOfList /\ [Next]_vars => ModeOfList'
<1> SUFFICES ASSUME ModeOfList, [Next]_vars PROVE ModeOfList'
  OBVIOUS
<1>1. CASE OpenFromInbox \/ OpenFromAll
  BY <1>1 DEF OpenFromInbox, OpenFromAll, OpenMessage, ModeOfList
<1>2. CASE Reload
  BY <1>2 DEF Reload, Opened, ModeOfList
<1>3. CASE SelectFirst
  BY <1>3, VisitorAssumption DEF SelectFirst, ModeOfList
<1>4. CASE ~(OpenFromInbox \/ OpenFromAll \/ Reload \/ SelectFirst)
  <2>1. UNCHANGED <<selected, mode>>
    BY <1>4
    DEF Next, Unlock, Refresh, Random, CloseDrawer, Type, Select, Copy, Navigate, HandleConfig,
        HandleUnlock, HandleRandom, Write, Answer, ConfigShown, Unlocked, RandomShown, Copied,
        Failed, Change, Admin, mailVars, vars
  <2> QED BY <2>1 DEF ModeOfList
<1> QED BY <1>1, <1>2, <1>3, <1>4

LEMMA NextDomainIsOffered == IInv /\ [Next]_vars => DomainIsOffered'
<1> SUFFICES ASSUME IInv, [Next]_vars PROVE DomainIsOffered'
  OBVIOUS
<1>1. TypeOK'
  BY NextTypeOK DEF IInv
<1>2. ASSUME NEW d \in Domains, Select(d) PROVE DomainIsOffered'
  BY <1>1, <1>2 DEF Select, DomainIsOffered, gateVars
<1>3. CASE Reload
  BY <1>1, <1>3, SiteDomains DEF Reload, Opened, DomainIsOffered
<1>4. ASSUME NEW i \in 1..Slots, ConfigShown(i) PROVE DomainIsOffered'
  <2>1. request[i].body \in Sites
    BY <1>4 DEF IInv, Proper, ConfigShown, Done
  <2> QED BY <1>1, <1>4, <2>1, SiteDomains DEF ConfigShown, DomainIsOffered
<1>5. ASSUME NEW i \in 1..Slots, RandomShown(i) PROVE DomainIsOffered'
  BY <1>1, <1>5 DEF RandomShown, DomainIsOffered
<1>6. CASE UNCHANGED <<domain, shown, handed>>
  BY <1>1, <1>6 DEF IInv, DomainIsOffered
<1>7. \/ \E d \in Domains : Select(d)
      \/ Reload
      \/ \E i \in 1..Slots : ConfigShown(i) \/ RandomShown(i)
      \/ UNCHANGED <<domain, shown, handed>>
  BY DEF Next, Unlock, Refresh, Random, OpenFromInbox, OpenFromAll, OpenMessage, CloseDrawer,
         Type, Copy, Navigate, HandleConfig, HandleUnlock, HandleRandom, Write, Answer,
         Unlocked, Copied, Failed, Change, Admin, SelectFirst, addressVars, gateVars, vars
<1> QED BY <1>2, <1>3, <1>4, <1>5, <1>6, <1>7

-----------------------------------------------------------------------------
(* The clipboard.                                                          *)

\* A step that neither starts nor ends a write, nor writes.
LEMMA WritesAlone ==
  ASSUME OneWrite, Pasted, UNCHANGED <<clipboard, secure, told, crossed>>,
         \A i \in 1..Slots : request[i].kind = "write" \/ request'[i].kind = "write" =>
             request'[i] = request[i]
  PROVE  OneWrite' /\ Pasted'
<1>1. Writing' = Writing /\ \A i \in Writing : request'[i] = request[i]
  BY DEF Writing
<1> QED BY <1>1 DEF OneWrite, Pasted

\* A write that starts in a slot that was not writing.
LEMMA WriteStarts ==
  ASSUME OneWrite, Pasted, NEW i \in 1..Slots, Only(i), request[i].kind # "write",
         NEW what, request'[i] = Put("write", what, what),
         crossed' = (crossed \/ Writing # {}), UNCHANGED <<clipboard, secure, told>>
  PROVE  OneWrite' /\ Pasted'
<1> SUFFICES ASSUME ~crossed' PROVE OneWrite' /\ Pasted'
  BY DEF OneWrite, Pasted
<1>1. ~crossed /\ Writing = {}
  OBVIOUS
<1>2. request'[i].kind = "write" /\ request'[i].pc = "sent"
  BY DEF Put
<1>3. Writing' = {i}
  BY <1>1, <1>2 DEF Writing, Only
<1>4. secure /\ told # None => clipboard = told
  BY <1>1 DEF Pasted
<1> QED BY <1>2, <1>3, <1>4 DEF OneWrite, Pasted

LEMMA NextClipboard == IInv /\ [Next]_vars => OneWrite' /\ Pasted'
<1> SUFFICES ASSUME IInv, [Next]_vars PROVE OneWrite' /\ Pasted'
  OBVIOUS
<1>1. TypeOK /\ Shape /\ OneWrite /\ Pasted /\ \A i \in 1..Slots : Proper(request[i])
  BY DEF IInv
<1>2. CASE Quiet \/ UNCHANGED vars
  <2>1. UNCHANGED <<clipboard, secure, told, crossed>>
    BY <1>2 DEF Quiet, OpenFromInbox, OpenFromAll, OpenMessage, CloseDrawer, Change, Admin,
                SelectFirst, Type, Select, Navigate, gateVars, copyVars, vars
  <2> QED BY <1>1, <1>2, <2>1, QuietMoves, WritesAlone
<1>3. CASE Asks
  <2>1. PICK i \in 1..Slots :
            /\ Only(i) /\ request[i].pc = "idle"
            /\ \/ Unlock /\ request'[i] = Put("unlock", None, None)
               \/ Refresh /\ request'[i] = Put("config", None, None)
               \/ Random /\ request'[i] = Put("random", domain, None)
               \/ \E what \in Addresses \union {Code} :
                     Copy(what) /\ request'[i] = Put("write", what, what)
    BY <1>1, <1>3, AskMoves
  <2>2. request[i].kind # "write"
    BY <1>1, <2>1 DEF Proper
  <2>3. ASSUME NEW what, Copy(what), request'[i] = Put("write", what, what)
        PROVE  OneWrite' /\ Pasted'
    BY <1>1, <2>1, <2>2, <2>3, WriteStarts DEF Copy
  <2>4. ASSUME Unlock \/ Refresh \/ Random, request'[i].kind # "write" PROVE OneWrite' /\ Pasted'
    <3>1. UNCHANGED <<clipboard, secure, told, crossed>>
      BY <2>4 DEF Unlock, Refresh, Random, gateVars, copyVars
    <3> QED BY <1>1, <2>1, <2>2, <2>4, <3>1, WritesAlone DEF Only
  <2>5. /\ Put("unlock", None, None).kind # "write" /\ Put("config", None, None).kind # "write"
        /\ Put("random", domain, None).kind # "write"
    BY DEF Put
  <2> QED BY <2>1, <2>3, <2>4, <2>5
<1>4. CASE Reload
  <2>1. \A i \in 1..Slots : request'[i].kind # "write"
    BY <1>4, OpenedMoves, VisitorAssumption DEF Reload, Put, Idle
  <2>2. Writing' = {}
    BY <2>1 DEF Writing
  <2>3. ~crossed' => ~crossed /\ Writing = {}
    BY <1>4 DEF Reload
  <2>4. UNCHANGED <<clipboard, secure, told>>
    BY <1>4 DEF Reload
  <2> QED BY <1>1, <2>2, <2>3, <2>4 DEF OneWrite, Pasted
<1>5. ASSUME NEW i \in 1..Slots, Answers(i) PROVE OneWrite' /\ Pasted'
  <2>1. PICK body : Answer(i, body)
    BY <1>5 DEF Answers, HandleConfig, HandleUnlock, HandleRandom, Write
  <2>2. /\ Only(i) /\ request[i].pc = "sent"
        /\ request'[i].pc = "handled" /\ request'[i].kind = request[i].kind
        /\ request'[i].body = body /\ request'[i].says = request[i].says
    BY <1>1, <2>1, AnswerMoves
  <2>3. UNCHANGED <<secure, told, crossed>>
    BY <2>1 DEF Answer
  <2>4. CASE Write(i)
    <3>1. request[i].kind = "write" /\ (secure => clipboard' = request'[i].says)
      BY <1>1, <2>2, <2>4 DEF Write, Proper
    <3>2. Writing' = Writing /\ i \in Writing
      BY <2>2, <3>1 DEF Writing, Only
    <3> QED BY <1>1, <2>2, <2>3, <3>1, <3>2 DEF OneWrite, Pasted
  <2>5. CASE ~Write(i)
    <3>1. request[i].kind # "write" /\ clipboard' = clipboard
      BY <1>5, <2>5 DEF Answers, HandleConfig, HandleUnlock, HandleRandom
    <3> QED BY <1>1, <2>2, <2>3, <3>1, WritesAlone DEF Only
  <2> QED BY <2>4, <2>5
<1>6. ASSUME NEW i \in 1..Slots, Ends(i) PROVE OneWrite' /\ Pasted'
  <2>1. Only(i) /\ request'[i].kind # "write"
    BY <1>1, <1>6, EndMoves, VisitorAssumption DEF Idle
  <2>2. UNCHANGED <<clipboard, secure, crossed>>
    BY <1>6 DEF Ends, ConfigShown, Unlocked, Copied, Failed, gateVars, copyVars
  <2>3. CASE request[i].kind = "write"
    <3> SUFFICES ASSUME ~crossed PROVE OneWrite' /\ Pasted'
      BY <2>2 DEF OneWrite, Pasted
    <3>1. Writing = {i}
      BY <1>1, <2>3 DEF OneWrite, Writing
    <3>2. Writing' = {}
      BY <2>1, <3>1 DEF Writing, Only
    <3>3. secure' /\ told' # None => clipboard' = told'
      <4>1. CASE Copied(i)
        BY <1>1, <2>2, <3>1, <4>1 DEF Copied, Done, Pasted
      <4>2. CASE Failed(i)
        BY <1>1, <3>1, <4>2 DEF Failed, Pasted, gateVars, copyVars
      <4> QED BY <1>6, <2>3, <4>1, <4>2 DEF Ends, ConfigShown, Unlocked, Done
    <3> QED BY <3>2, <3>3 DEF OneWrite, Pasted
  <2>4. CASE request[i].kind # "write"
    <3>1. told' = told
      BY <1>6, <2>4 DEF Ends, ConfigShown, Unlocked, Copied, Failed, Done, gateVars, copyVars
    <3> QED BY <1>1, <2>1, <2>2, <2>4, <3>1, WritesAlone DEF Only
  <2> QED BY <2>3, <2>4
<1>7. ASSUME NEW i \in 1..Slots, RandomShown(i) PROVE OneWrite' /\ Pasted'
  <2>1. /\ Only(i) /\ request[i].kind = "random"
        /\ request'[i] = Put("write", request[i].body, request[i].body)
    BY <1>1, <1>7, RandomMoves
  <2>2. crossed' = (crossed \/ Writing # {}) /\ UNCHANGED <<clipboard, secure, told>>
    BY <1>7 DEF RandomShown
  <2> QED BY <1>1, <2>1, <2>2, WriteStarts
<1> QED BY <1>2, <1>3, <1>4, <1>5, <1>6, <1>7, NextCases

-----------------------------------------------------------------------------
(* The invariant.                                                          *)

LEMMA InitIInv == Init => IInv
<1> SUFFICES ASSUME Init PROVE IInv
  OBVIOUS
<1> USE DEF Init
<1>1. \A i \in 1..Slots : request[i] = Put("config", None, None) \/ request[i] = Idle
  OBVIOUS
<1>2. Shape
  BY DEF Shape, Put, Idle
<1>3. \A i \in 1..Slots : Proper(request[i]) /\ Entitled(request[i])
  BY <1>1, VisitorAssumption DEF Put, Idle, Proper, Entitled, Opens
<1>4. \A i \in 1..Slots : /\ request[i].pc \in {"idle", "sent", "handled"}
                          /\ request[i].kind \in {None, "config", "unlock", "random", "write"}
                          /\ request[i].kind # "write"
  BY <1>1, VisitorAssumption DEF Put, Idle
<1>5. TypeOK
  <2>1. DefaultDomain \in Domains /\ Empty \in Names
    BY DEF Domains, Names
  <2>2. clicks \in 0..MaxClicks /\ changes \in 0..MaxChanges
    BY VisitorAssumption
  <2> QED BY <1>4, <2>1, <2>2 DEF TypeOK
<1>6. DomainIsOffered
  BY <1>5, SiteDomains DEF DomainIsOffered
<1>7. OneWrite /\ Pasted
  BY <1>4 DEF OneWrite, Pasted, Writing
<1> QED BY <1>2, <1>3, <1>5, <1>6, <1>7 DEF IInv, GrantedServed, GateKnown, ModeOfList

LEMMA NextIInv == IInv /\ [Next]_vars => IInv'
<1> SUFFICES ASSUME IInv, [Next]_vars PROVE IInv'
  OBVIOUS
<1>1. TypeOK /\ Shape /\ \A i \in 1..Slots : Proper(request[i]) /\ Entitled(request[i])
  BY DEF IInv
<1>2. Shape' /\ \A i \in 1..Slots : Proper(request'[i])
  BY <1>1, NextProper
<1>3. \A i \in 1..Slots : Entitled(request[i])'
  BY <1>1, NextEntitled
<1>4. TypeOK'
  BY <1>1, NextTypeOK
<1>5. GrantedServed' /\ GateKnown' /\ DomainIsOffered' /\ OneWrite' /\ Pasted' /\ ModeOfList'
  BY NextGrantedServed, NextGateKnown, NextDomainIsOffered, NextClipboard, NextModeOfList DEF IInv
<1> QED BY <1>2, <1>3, <1>4, <1>5 DEF IInv

LEMMA Invariance == Spec => []IInv
  BY InitIInv, NextIInv, PTL DEF Spec

-----------------------------------------------------------------------------
(* The theorems.                                                           *)

\* A page that has its configuration stands open only where the server serves
\* (App.tsx:461-473, 618-623 and api.go:154-179, 845-855), in whatever order
\* configurations, logins and reloads are answered, but for what the server has
\* taken back since.  Of a page without its configuration it says nothing.
THEOREM GateAlwaysAgrees == Spec => []GateAgrees
<1>1. IInv => GateAgrees
  BY DEF IInv, GrantedServed, GateKnown, GateAgrees, Gate, Served
<1> QED BY <1>1, Invariance, PTL

\* The address of the mailbox is at a domain the page offers, or at one that
\* the server has just drawn (App.tsx:466, 634-635, 1187).
THEOREM DomainAlwaysOffered == Spec => []DomainIsOffered
  BY Invariance, PTL DEF IInv

\* In a secure context what the visitor is told was copied is what he will paste
\* (App.tsx:634-637, 647-653), unless two writes to the clipboard have overlapped.
THEOREM AlwaysCopiedWhereSecure == Spec => []CopiedWhereSecure
<1>1. IInv => CopiedWhereSecure
  BY DEF IInv, Pasted, CopiedIsTold, CopiedWhereSecure, Writing
<1> QED BY <1>1, Invariance, PTL

\* The tester stands beside mails of the administrator's list only, whatever is
\* opened, closed and loaded (App.tsx:558, 663-671, 922-930).
THEOREM TesterAlwaysForAdminsMails == Spec => []TesterForAdminsMails
<1>1. IInv => TesterForAdminsMails
  BY DEF IInv, ModeOfList, TesterShown, TesterForAdminsMails
<1> QED BY <1>1, Invariance, PTL

-----------------------------------------------------------------------------
(* The lists of the mailbox page (MailboxView).                            *)

\* An answer is the mailbox that was asked for.
AnswersOwn ==
    \A l \in Lists, i \in Fetches : fetch[l][i].pc = "answered" =>
        \A x \in fetch[l][i].answer : Box(x) = fetch[l][i].mailbox

\* What the socket carries is of the mailbox of the page.
FrameOwn(f) == MailFor[f.mail] = ref /\ \A c \in f.codes : Box(c) = ref

\* The socket is for the mailbox of the page, and so is what it brings.
SocketOwn ==
    /\ socket.mailbox = ref /\ (~effects => ref = address)
    /\ \A m \in ToSet(socket.channel) : MailFor[m] = ref
    /\ \A f \in ToSet(socket.wire) : FrameOwn(f)

\* What is shown is of the page's mailbox once an answer has been shown.
ListsOwn == \A l \in Lists : loaded[l] => \A x \in lists[l] : Box(x) = ref

\* A fetch of list l that is under way brings item x.
Brings(l, x) ==
    \E i \in Fetches :
        /\ fetch[l][i].mailbox = ref
        /\ \/ fetch[l][i].pc = "sent"
           \/ fetch[l][i].pc = "answered" /\ x \in fetch[l][i].answer

\* Item x is in list l, or comes to it, or a rebuild has put it in.
Has(l, x) == x \in lists[l] \/ x \in Coming(l) \/ x \in silent \/ Brings(l, x)

\* NoGap while fetches are under way.
Covered ==
    socket.pc = "open" =>
        \A l \in Lists : ~spoiled[l] => \A x \in ListMailbox(l, ref) : Has(l, x)

ViewInv == ViewTypeOK /\ AnswersOwn /\ SocketOwn /\ ListsOwn /\ Covered

LEMMA BoxOf ==
  /\ \A m \in Mails : Box(m) = MailFor[m] /\ Box(m) \in Mailboxes
  /\ \A c \in Codes : Box(c) = MailFor[From[c]] /\ From[c] \in Mails /\ Box(c) \in Mailboxes
BY ViewAssumption DEF Box

\* What Append and Tail do to the elements of a sequence.
LEMMA Elements ==
  ASSUME NEW S, NEW s \in Seq(S)
  PROVE  /\ ToSet(s) \subseteq S
         /\ \A x \in S : Append(s, x) \in Seq(S) /\ ToSet(Append(s, x)) = ToSet(s) \union {x}
         /\ s # << >> => /\ Head(s) \in S /\ Tail(s) \in Seq(S)
                         /\ ToSet(s) = ToSet(Tail(s)) \union {Head(s)}
<1>1. ToSet(s) \subseteq S
  BY DEF ToSet
<1>2. ASSUME NEW x \in S
      PROVE  Append(s, x) \in Seq(S) /\ ToSet(Append(s, x)) = ToSet(s) \union {x}
  <2>1. /\ Append(s, x) \in Seq(S) /\ Len(Append(s, x)) = Len(s) + 1
        /\ Append(s, x)[Len(s) + 1] = x
        /\ \A i \in 1..Len(s) : Append(s, x)[i] = s[i]
    OBVIOUS
  <2>2. DOMAIN s = 1..Len(s) /\ DOMAIN Append(s, x) = 1..(Len(s) + 1) /\ Len(s) \in Nat
    BY <2>1
  <2>3. 1..(Len(s) + 1) = 1..Len(s) \union {Len(s) + 1}
    BY <2>2
  <2> QED BY <2>1, <2>2, <2>3 DEF ToSet
<1>3. ASSUME s # << >>
      PROVE  /\ Head(s) \in S /\ Tail(s) \in Seq(S)
             /\ ToSet(s) = ToSet(Tail(s)) \union {Head(s)}
  <2>1. /\ Head(s) \in S /\ Tail(s) \in Seq(S) /\ Head(s) = s[1]
        /\ Len(s) \in Nat \ {0} /\ Len(Tail(s)) = Len(s) - 1
        /\ \A i \in 1..(Len(s) - 1) : Tail(s)[i] = s[i + 1]
    BY <1>3
  <2>2. DOMAIN s = 1..Len(s) /\ DOMAIN Tail(s) = 1..(Len(s) - 1)
    BY <2>1
  <2>3. \A i \in 1..Len(s) : i = 1 \/ i - 1 \in 1..(Len(s) - 1)
    BY <2>1
  <2>4. \A i \in 1..(Len(s) - 1) : i + 1 \in 1..Len(s)
    BY <2>1
  <2>5. ASSUME NEW x PROVE x \in ToSet(s) <=> x \in ToSet(Tail(s)) \union {Head(s)}
    <3>1. ASSUME x \in ToSet(s) PROVE x \in ToSet(Tail(s)) \union {Head(s)}
      <4>1. PICK i \in 1..Len(s) : x = s[i]
        BY <2>2, <3>1 DEF ToSet
      <4>2. CASE i = 1
        BY <2>1, <4>1, <4>2
      <4>3. ASSUME i - 1 \in 1..(Len(s) - 1) PROVE x = Tail(s)[i - 1]
        BY <2>1, <4>1, <4>3
      <4> QED BY <2>2, <2>3, <4>2, <4>3 DEF ToSet
    <3>2. ASSUME x \in ToSet(Tail(s)) PROVE x \in ToSet(s)
      <4>1. PICK i \in 1..(Len(s) - 1) : x = Tail(s)[i]
        BY <2>2, <3>2 DEF ToSet
      <4>2. x = s[i + 1]
        BY <2>1, <4>1
      <4> QED BY <2>2, <2>4, <4>2 DEF ToSet
    <3>3. Head(s) \in ToSet(s)
      BY <2>1, <2>2 DEF ToSet
    <3> QED BY <3>1, <3>2, <3>3
  <2> QED BY <2>1, <2>5
<1> QED BY <1>1, <1>2, <1>3

\* The set a fetch is typed by.
Fetch == [pc : {"idle", "sent", "answered"}, mailbox : AnyAddress, answer : SUBSET Items]

\* A refresh sends one fetch of each list, in a slot that was idle.
LEMMA Sends ==
  ASSUME ViewTypeOK, NEW a \in AnyAddress, SendFetches(a)
  PROVE  /\ fetch' \in [Lists -> [Fetches -> Fetch]]
         /\ spoiled' = NoList /\ silent' = {}
         /\ \A l \in Lists : \E i \in Fetches :
              /\ fetch[l][i].pc = "idle"
              /\ fetch'[l][i] = [pc |-> "sent", mailbox |-> a, answer |-> {}]
              /\ \A j \in Fetches \ {i} : fetch'[l][j] = fetch[l][j]
<1> DEFINE new == [pc |-> "sent", mailbox |-> a, answer |-> {}]
<1>1. new \in Fetch
  BY DEF Fetch
<1>2. fetch \in [Lists -> [Fetches -> Fetch]]
  BY DEF ViewTypeOK, Fetch
<1>3. PICK slot \in [Lists -> Fetches] :
        /\ \A l \in Lists : fetch[l][slot[l]].pc = "idle"
        /\ fetch' = [l \in Lists |-> [fetch[l] EXCEPT ![slot[l]] = new]]
  BY DEF SendFetches
<1> HIDE DEF new
<1>4. ASSUME NEW l \in Lists
      PROVE  /\ slot[l] \in Fetches /\ fetch[l][slot[l]].pc = "idle"
             /\ [fetch[l] EXCEPT ![slot[l]] = new] \in [Fetches -> Fetch]
             /\ fetch'[l][slot[l]] = new
             /\ \A j \in Fetches \ {slot[l]} : fetch'[l][j] = fetch[l][j]
  BY <1>1, <1>2, <1>3
<1>5. fetch' \in [Lists -> [Fetches -> Fetch]]
  BY <1>3, <1>4
<1>6. spoiled' = NoList /\ silent' = {}
  BY DEF SendFetches
<1> QED BY <1>4, <1>5, <1>6 DEF new

\* The set of the frames a socket carries, and of the sockets.
Socket == [pc : {"closed", "connecting", "subscribed", "open"}, mailbox : AnyAddress,
           channel : Seq(Mails), wire : Seq(Frame)]

LEMMA SocketFacts ==
  ASSUME ViewTypeOK
  PROVE  /\ socket \in Socket
         /\ socket.pc \in {"closed", "connecting"} => socket.channel = << >> /\ socket.wire = << >>
<1>1. socket \in Socket
  BY DEF ViewTypeOK, Frame, Socket
<1>2. socket.channel \in Seq(Mails) /\ socket.wire \in Seq(Frame)
  BY <1>1 DEF Socket
<1>3. socket.channel \o socket.wire = << >> => socket.channel = << >> /\ socket.wire = << >>
  <2> DEFINE c == socket.channel  w == socket.wire
  <2>1. c \in Seq(Mails \union Frame) /\ w \in Seq(Mails \union Frame)
    BY <1>2
  <2> HIDE DEF c, w
  <2>2. Len(c) \in Nat /\ Len(w) \in Nat /\ Len(c \o w) = Len(c) + Len(w)
    BY <2>1
  <2>3. c \o w = << >> => Len(c) = 0 /\ Len(w) = 0
    BY <2>2
  <2>4. c \o w = << >> => c = << >> /\ w = << >>
    BY <2>1, <2>3
  <2> QED BY <2>4 DEF c, w
<1> QED BY <1>1, <1>3 DEF ViewTypeOK

LEMMA ViewInitType == ASSUME ViewInit PROVE ViewTypeOK
<1>1. socket = [pc |-> "closed", mailbox |-> address, channel |-> << >>, wire |-> << >>]
  BY DEF ViewInit, Connecting
<1>2. socket.channel \o socket.wire = << >>
  BY <1>1
<1>3. socket \in Socket
  <2>1. address \in AnyAddress /\ << >> \in Seq(Mails) /\ << >> \in Seq(Frame)
    BY DEF ViewInit
  <2> QED BY <1>1, <2>1 DEF Socket
<1>4. IdleFetch \in Fetch
  BY DEF IdleFetch, Fetch, AnyAddress
<1>5. fetch \in [Lists -> [Fetches -> Fetch]]
  BY <1>4 DEF ViewInit
<1>6. lists \in [Lists -> SUBSET Items] /\ NoList \in [Lists -> BOOLEAN]
  BY DEF ViewInit, NoList
<1>7. 0 \in 0..MaxVisits
  BY ViewAssumption
<1> QED BY <1>2, <1>3, <1>5, <1>6, <1>7 DEF ViewInit, ViewTypeOK, Frame, Fetch, Socket

\* The type of the socket, of the fetches and of the lists is stated in parts.
LEMMA TypeByParts ==
  ASSUME stored' \subseteq Mails, codes' \subseteq Codes, published' \subseteq Mails,
         silent' \subseteq Codes, visits' \in 0..MaxVisits, address' \in AnyAddress,
         ref' \in AnyAddress, access' \in BOOLEAN, effects' \in BOOLEAN,
         socket' \in Socket,
         socket'.pc \in {"closed", "connecting"} => socket'.channel = << >> /\ socket'.wire = << >>,
         fetch' \in [Lists -> [Fetches -> Fetch]],
         lists' \in [Lists -> SUBSET Items], loaded' \in [Lists -> BOOLEAN],
         spoiled' \in [Lists -> BOOLEAN]
  PROVE  ViewTypeOK'
<1>1. << >> \o << >> = << >>
  OBVIOUS
<1> QED BY <1>1 DEF ViewTypeOK, Frame, Fetch, Socket

LEMMA ListMailboxType ==
  ASSUME ViewTypeOK, NEW a
  PROVE  /\ \A l : ListMailbox(l, a) \subseteq Items /\ \A x \in ListMailbox(l, a) : Box(x) = a
         /\ ListMailbox("codes", a) \subseteq Codes
BY DEF ListMailbox, Held, Items, ViewTypeOK

\* The next frame of the socket.
NextFrame == [mail |-> Head(socket.channel), codes |-> ListMailbox("codes", socket.mailbox)]

\* What happens to one mail on the server.
MailStep(m) == Store(m) \/ Extract(m) \/ Publish(m) \/ Sweep(m) \/ SweepCodes(m)

LEMMA ViewCases ==
  ASSUME [ViewNext]_(viewVars)
  PROVE  \/ \E m \in Mails : MailStep(m)
         \/ \E l \in Lists, i \in Fetches :
               AnswerFetch(l, i) \/ Show(l, i) \/ Fail(l, i)
         \/ \E a \in AnyAddress : Visit(a)
         \/ Rebuild \/ Grant \/ RunEffects \/ Subscribe \/ WriteJSON \/ Open \/ Disconnect
         \/ RefreshLists \/ RefreshCodes \/ OnMessage \/ UNCHANGED viewVars
BY DEF ViewNext, MailStep

\* What a step makes of one fetch of list l.
FetchStep(l, old, new) ==
    \/ new = old \/ new = IdleFetch
    \/ new.pc = "sent"
    \/ /\ old.pc = "sent" /\ new.mailbox = old.mailbox
       /\ new.pc = "answered" /\ new.answer = ListMailbox(l, old.mailbox)

LEMMA FetchMoves ==
  ASSUME ViewTypeOK, [ViewNext]_(viewVars)
  PROVE  /\ fetch' \in [Lists -> [Fetches -> Fetch]]
         /\ \A l \in Lists, i \in Fetches : FetchStep(l, fetch[l][i], fetch'[l][i])
<1> DEFINE Moves == /\ fetch' \in [Lists -> [Fetches -> Fetch]]
                    /\ \A l \in Lists, i \in Fetches : FetchStep(l, fetch[l][i], fetch'[l][i])
<1>1. fetch \in [Lists -> [Fetches -> Fetch]] /\ address \in AnyAddress
  BY DEF ViewTypeOK, Fetch
<1>2. IdleFetch \in Fetch
  BY DEF IdleFetch, Fetch, AnyAddress
<1>3. ASSUME UNCHANGED fetch PROVE Moves
  BY <1>1, <1>3 DEF FetchStep
<1>4. ASSUME NEW l \in Lists, NEW i \in Fetches, NEW new \in Fetch,
             fetch' = [fetch EXCEPT ![l] = [fetch[l] EXCEPT ![i] = new]],
             FetchStep(l, fetch[l][i], new)
      PROVE  Moves
  <2>1. fetch' \in [Lists -> [Fetches -> Fetch]]
    BY <1>1, <1>4
  <2>2. ASSUME NEW k \in Lists, NEW j \in Fetches
        PROVE  FetchStep(k, fetch[k][j], fetch'[k][j])
    <3>1. fetch'[k][j] = IF k = l /\ j = i THEN new ELSE fetch[k][j]
      BY <1>1, <1>4
    <3>2. CASE fetch'[k][j] = fetch[k][j]
      BY <3>2 DEF FetchStep
    <3>3. CASE fetch'[k][j] = new /\ k = l /\ j = i
      BY <1>4, <3>3
    <3> QED BY <3>1, <3>2, <3>3
  <2> QED BY <2>1, <2>2
<1>5. ASSUME NEW a \in AnyAddress, SendFetches(a) PROVE Moves
  <2>1. /\ fetch' \in [Lists -> [Fetches -> Fetch]]
        /\ \A l \in Lists : \E i \in Fetches :
             /\ fetch'[l][i] = [pc |-> "sent", mailbox |-> a, answer |-> {}]
             /\ \A j \in Fetches \ {i} : fetch'[l][j] = fetch[l][j]
    BY <1>5, Sends
  <2>2. \A l \in Lists, j \in Fetches : fetch'[l][j].pc = "sent" \/ fetch'[l][j] = fetch[l][j]
    BY <2>1
  <2>3. \A l \in Lists, j \in Fetches : FetchStep(l, fetch[l][j], fetch'[l][j])
    BY <2>2 DEF FetchStep
  <2> QED BY <2>1, <2>3
<1>6. ASSUME NEW l \in Lists, NEW i \in Fetches, AnswerFetch(l, i) PROVE Moves
  <2> DEFINE old == fetch[l][i]
             new == [old EXCEPT !.pc = "answered", !.answer = ListMailbox(l, old.mailbox)]
  <2>1. old \in Fetch
    BY <1>1
  <2>2. /\ new \in Fetch /\ new.mailbox = old.mailbox
        /\ new.pc = "answered" /\ new.answer = ListMailbox(l, old.mailbox)
    BY <2>1, ListMailboxType DEF Fetch
  <2>3. fetch' = [fetch EXCEPT ![l] = [fetch[l] EXCEPT ![i] = new]] /\ old.pc = "sent"
    BY <1>1, <1>6, <2>1 DEF AnswerFetch
  <2>4. FetchStep(l, old, new)
    BY <2>2, <2>3 DEF FetchStep
  <2> HIDE DEF new
  <2> QED BY <1>4, <2>2, <2>3, <2>4
<1>7. ASSUME NEW l \in Lists, NEW i \in Fetches, Show(l, i) \/ Fail(l, i)
      PROVE  Moves
  <2>1. fetch' = [fetch EXCEPT ![l] = [fetch[l] EXCEPT ![i] = IdleFetch]]
    BY <1>1, <1>7 DEF Show, Fail
  <2>2. FetchStep(l, fetch[l][i], IdleFetch)
    BY DEF FetchStep
  <2> QED BY <1>2, <1>4, <2>1, <2>2
<1>8. socket.mailbox \in AnyAddress
  BY SocketFacts DEF Socket
<1>9. ASSUME RunEffects \/ Open \/ Disconnect \/ RefreshLists PROVE Moves
  <2>1. \/ UNCHANGED fetch
        \/ \E a \in AnyAddress : SendFetches(a)
    BY <1>1, <1>8, <1>9 DEF RunEffects, Open, Disconnect, RefreshLists
  <2> HIDE DEF Moves
  <2> QED BY <1>3, <1>5, <2>1
<1>10. ASSUME NEW m \in Mails, MailStep(m) PROVE Moves
  BY <1>3, <1>10 DEF MailStep, Store, Extract, Publish, Sweep, SweepCodes
<1>11. ASSUME NEW a \in AnyAddress, Visit(a) PROVE Moves
  BY <1>3, <1>11 DEF Visit
<1>12. ASSUME Rebuild \/ Grant \/ Subscribe \/ WriteJSON \/ OnMessage \/ UNCHANGED viewVars
       PROVE Moves
  BY <1>3, <1>12 DEF Rebuild, Grant, Subscribe, WriteJSON, OnMessage, viewVars
<1>13. ASSUME RefreshCodes PROVE Moves
  <2> DEFINE new == [pc |-> "sent", mailbox |-> address, answer |-> {}]
  <2>1. new \in Fetch /\ new.pc = "sent" /\ "codes" \in Lists
    BY <1>1 DEF Fetch, Lists
  <2>2. PICK i \in Fetches : fetch' = [fetch EXCEPT !["codes"][i] = new]
    BY <1>13 DEF RefreshCodes
  <2> HIDE DEF new, Moves
  <2>3. fetch' = [fetch EXCEPT !["codes"] = [fetch["codes"] EXCEPT ![i] = new]]
    BY <1>1, <2>1, <2>2
  <2>4. FetchStep("codes", fetch["codes"][i], new)
    BY <2>1 DEF FetchStep
  <2> QED BY <1>4, <2>1, <2>3, <2>4
<1> QED BY <1>6, <1>7, <1>9, <1>10, <1>11, <1>12, <1>13, ViewCases

\* What a step makes of the socket: what it carries is gone, or as before, or
\* the ends are Append and Tail of what they were.
SocketStep ==
    \/ /\ socket'.pc \in {"closed", "connecting"}
       /\ socket'.channel = << >> /\ socket'.wire = << >>
    \/ UNCHANGED <<socket.channel, socket.wire>>
    \/ /\ socket.pc \in {"subscribed", "open"} /\ UNCHANGED socket.wire
       /\ \E m \in Mails : /\ MailFor[m] = socket.mailbox
                           /\ socket'.channel = Append(socket.channel, m)
    \/ /\ socket.pc \in {"subscribed", "open"} /\ socket.channel # << >>
       /\ socket'.channel = Tail(socket.channel)
       /\ socket'.wire = Append(socket.wire, NextFrame)
       /\ UNCHANGED storeVars
    \/ /\ OnMessage /\ socket.wire # << >>
       /\ socket'.wire = Tail(socket.wire) /\ UNCHANGED socket.channel

LEMMA SocketMoves ==
  ASSUME ViewTypeOK, [ViewNext]_(viewVars)
  PROVE  /\ socket' \in Socket
         /\ socket'.pc \in {"closed", "connecting"} => socket'.channel = << >> /\ socket'.wire = << >>
         /\ SocketStep
         /\ RunEffects \/ UNCHANGED socket.mailbox
<1> DEFINE Kept == /\ socket' \in Socket
                   /\ socket'.pc \in {"closed", "connecting"} =>
                         socket'.channel = << >> /\ socket'.wire = << >>
           Result == Kept /\ SocketStep /\ (RunEffects \/ UNCHANGED socket.mailbox)
<1>1. /\ socket \in Socket /\ socket.channel \in Seq(Mails) /\ socket.wire \in Seq(Frame)
      /\ socket.pc \in {"closed", "connecting"} => socket.channel = << >> /\ socket.wire = << >>
  BY SocketFacts DEF Socket
<1>2. << >> \in Seq(Mails) /\ << >> \in Seq(Frame)
  OBVIOUS
<1>3. ASSUME UNCHANGED socket PROVE Result
  BY <1>1, <1>3 DEF SocketStep
<1>4. ASSUME NEW m \in Mails, Store(m) \/ Extract(m) \/ Sweep(m) \/ SweepCodes(m) PROVE Result
  BY <1>3, <1>4 DEF Store, Extract, Sweep, SweepCodes
<1>5. ASSUME NEW m \in Mails, Publish(m) PROVE Result
  <2>1. CASE UNCHANGED socket
    BY <1>3, <2>1
  <2>2. ASSUME socket.pc \in {"subscribed", "open"}, socket.mailbox = MailFor[m],
               socket' = [socket EXCEPT !.channel = Append(@, m)]
        PROVE  Result
    <3>1. Append(socket.channel, m) \in Seq(Mails)
      BY <1>1, Elements
    <3>2. Kept
      BY <1>1, <2>2, <3>1 DEF Socket
    <3>3. /\ socket'.channel = Append(socket.channel, m) /\ UNCHANGED socket.wire
          /\ UNCHANGED socket.mailbox
      BY <1>1, <2>2 DEF Socket
    <3>4. SocketStep
      BY <2>2, <3>3 DEF SocketStep
    <3> QED BY <3>2, <3>3, <3>4
  <2> QED BY <1>5, <2>1, <2>2 DEF Publish
<1>6. ASSUME NEW l \in Lists, NEW i \in Fetches,
             AnswerFetch(l, i) \/ Show(l, i) \/ Fail(l, i)
      PROVE  Result
  BY <1>3, <1>6 DEF AnswerFetch, Show, Fail
<1>7. ASSUME NEW a \in AnyAddress, Visit(a) PROVE Result
  BY <1>3, <1>7 DEF Visit
<1>8. ASSUME Rebuild \/ Grant \/ RefreshLists \/ RefreshCodes \/ UNCHANGED viewVars
      PROVE  Result
  BY <1>3, <1>8 DEF Rebuild, Grant, RefreshLists, RefreshCodes, viewVars
<1>9. ASSUME RunEffects PROVE Result
  <2>1. PICK pc \in {"connecting", "closed"} : socket' =
           [pc |-> pc, mailbox |-> address, channel |-> << >>, wire |-> << >>]
    BY <1>9 DEF RunEffects, Connecting
  <2>2. address \in AnyAddress
    BY DEF ViewTypeOK
  <2>3. Kept
    BY <1>2, <2>1, <2>2 DEF Socket
  <2> QED BY <1>9, <2>1, <2>3 DEF SocketStep
<1>10. ASSUME Subscribe \/ Open PROVE Result
  <2>1. PICK pc \in {"subscribed", "open"} : socket' = [socket EXCEPT !.pc = pc]
    BY <1>10 DEF Subscribe, Open
  <2>2. Kept /\ UNCHANGED <<socket.channel, socket.wire, socket.mailbox>>
    BY <1>1, <2>1 DEF Socket
  <2> QED BY <2>2 DEF SocketStep
<1>11. ASSUME WriteJSON PROVE Result
  <2>1. NextFrame \in Frame /\ Tail(socket.channel) \in Seq(Mails)
    BY <1>1, <1>11, Elements, ListMailboxType DEF NextFrame, Frame, WriteJSON
  <2>2. Append(socket.wire, NextFrame) \in Seq(Frame)
    BY <1>1, <2>1, Elements
  <2>3. /\ socket' = [socket EXCEPT !.wire = Append(socket.wire, NextFrame),
                                    !.channel = Tail(socket.channel)]
        /\ socket.pc \in {"subscribed", "open"} /\ socket.channel # << >>
        /\ UNCHANGED storeVars
    BY <1>11 DEF WriteJSON, NextFrame
  <2>4. Kept
    BY <1>1, <2>1, <2>2, <2>3 DEF Socket
  <2>5. /\ socket'.channel = Tail(socket.channel) /\ UNCHANGED socket.mailbox
        /\ socket'.wire = Append(socket.wire, NextFrame)
    BY <1>1, <2>3 DEF Socket
  <2> QED BY <2>3, <2>4, <2>5 DEF SocketStep
<1>12. ASSUME Disconnect PROVE Result
  <2>1. socket' = [socket EXCEPT !.pc = "closed", !.channel = << >>, !.wire = << >>]
    BY <1>12 DEF Disconnect
  <2>2. /\ Kept /\ UNCHANGED socket.mailbox
        /\ socket'.pc = "closed" /\ socket'.channel = << >> /\ socket'.wire = << >>
    BY <1>1, <1>2, <2>1 DEF Socket
  <2> QED BY <2>2 DEF SocketStep
<1>13. ASSUME OnMessage PROVE Result
  <2>1. /\ socket' = [socket EXCEPT !.wire = Tail(socket.wire)]
        /\ socket.pc = "open" /\ socket.wire # << >>
    BY <1>13 DEF OnMessage
  <2>2. Tail(socket.wire) \in Seq(Frame)
    BY <1>1, <2>1, Elements
  <2>3. Kept
    BY <1>1, <2>1, <2>2 DEF Socket
  <2>4. /\ socket'.wire = Tail(socket.wire)
        /\ UNCHANGED <<socket.channel, socket.mailbox>>
    BY <1>1, <2>1 DEF Socket
  <2> QED BY <1>13, <2>1, <2>3, <2>4 DEF SocketStep
<1> QED BY <1>4, <1>5, <1>6, <1>7, <1>8, <1>9, <1>10, <1>11, <1>12, <1>13, ViewCases
        DEF MailStep

\* The two lists the page shows, and the marks of their history, keep their
\* types.
ListsTyped ==
    /\ lists \in [Lists -> SUBSET Items] /\ loaded \in [Lists -> BOOLEAN]
    /\ spoiled \in [Lists -> BOOLEAN] /\ silent \subseteq Codes

\* What OnMessage does to the lists, of one list at a time.
LEMMA MessageShows ==
  ASSUME ViewTypeOK, OnMessage
  PROVE  /\ Head(socket.wire) \in Frame /\ Head(socket.wire) \in ToSet(socket.wire)
         /\ lists' \in [Lists -> SUBSET Items]
         /\ lists'["messages"] = lists["messages"] \union {Head(socket.wire).mail}
         /\ lists'["codes"] = Head(socket.wire).codes
         /\ spoiled' = [spoiled EXCEPT !["codes"] =
                @ \/ Overtakes("codes", Head(socket.wire).codes)]
         /\ UNCHANGED <<storeVars, pageVars, fetch, loaded, silent>>
<1>1. Head(socket.wire) \in Frame /\ Head(socket.wire) \in ToSet(socket.wire)
  BY SocketFacts, Elements DEF Socket, OnMessage
<1>2. lists' = [messages |-> lists["messages"] \union {Head(socket.wire).mail},
                codes |-> Head(socket.wire).codes]
  BY DEF OnMessage
<1>3. /\ Head(socket.wire).mail \in Items /\ Head(socket.wire).codes \subseteq Items
      /\ lists["messages"] \subseteq Items
  BY <1>1 DEF Frame, Items, ViewTypeOK, Lists
<1>4. lists' \in [Lists -> SUBSET Items]
  BY <1>2, <1>3 DEF Lists
<1> QED BY <1>1, <1>2, <1>4 DEF OnMessage

LEMMA ListsMove ==
  ASSUME ViewTypeOK, [ViewNext]_(viewVars)
  PROVE  ListsTyped'
<1>1. ListsTyped /\ socket.mailbox \in AnyAddress /\ address \in AnyAddress
  BY SocketFacts DEF ViewTypeOK, ListsTyped, Socket
<1>2. ASSUME UNCHANGED <<lists, historyVars>> PROVE ListsTyped'
  BY <1>1, <1>2 DEF ListsTyped, historyVars
<1>3. NoList \in [Lists -> BOOLEAN]
  BY DEF NoList
<1>4. ASSUME NEW a \in AnyAddress, SendFetches(a) PROVE spoiled' = NoList /\ silent' = {}
  BY <1>4, Sends
<1>5. ASSUME NEW m \in Mails, MailStep(m) PROVE ListsTyped'
  BY <1>2, <1>5 DEF MailStep, Store, Extract, Publish, Sweep, SweepCodes
<1>6. CASE Rebuild
  <2>1. codes' \subseteq Codes
    BY <1>6 DEF Rebuild
  <2>2. silent' \subseteq Codes
    BY <1>1, <1>6, <2>1 DEF Rebuild, ListsTyped
  <2> QED BY <1>1, <1>6, <2>2 DEF Rebuild, ListsTyped
<1>7. ASSUME NEW l \in Lists, NEW i \in Fetches, AnswerFetch(l, i) PROVE ListsTyped'
  BY <1>2, <1>7 DEF AnswerFetch
<1>8. ASSUME NEW l \in Lists, NEW i \in Fetches, Show(l, i) PROVE ListsTyped'
  <2>1. CASE UNCHANGED <<lists, historyVars>>
    BY <1>2, <2>1
  <2>2. ASSUME lists' = [lists EXCEPT ![l] = fetch[l][i].answer],
               loaded' = [loaded EXCEPT ![l] = TRUE],
               spoiled' = [spoiled EXCEPT ![l] = @ \/ Overtakes(l, fetch[l][i].answer)],
               UNCHANGED silent
        PROVE  ListsTyped'
    <3>1. fetch[l][i].answer \subseteq Items
      BY DEF ViewTypeOK
    <3>2. lists' \in [Lists -> SUBSET Items]
      BY <1>1, <2>2, <3>1 DEF ListsTyped
    <3>3. loaded' \in [Lists -> BOOLEAN]
      BY <1>1, <2>2 DEF ListsTyped
    <3>4. spoiled' \in [Lists -> BOOLEAN]
      BY <1>1, <2>2 DEF ListsTyped, Overtakes
    <3> QED BY <1>1, <2>2, <3>2, <3>3, <3>4 DEF ListsTyped
  <2> QED BY <1>8, <2>1, <2>2 DEF Show
<1>9. ASSUME NEW l \in Lists, NEW i \in Fetches, Fail(l, i) PROVE ListsTyped'
  BY <1>1, <1>9 DEF Fail, ListsTyped
<1>10. ASSUME NEW a \in AnyAddress, Visit(a) PROVE ListsTyped'
  BY <1>2, <1>10 DEF Visit
<1>11. CASE RunEffects
  <2>1. lists' \in [Lists -> SUBSET Items]
    BY <1>1, <1>11 DEF RunEffects, ListsTyped
  <2>2. spoiled' = NoList /\ silent' = {} /\ loaded' = NoList
    BY <1>1, <1>4, <1>11 DEF RunEffects
  <2> QED BY <1>3, <2>1, <2>2 DEF ListsTyped
<1>12. CASE Open \/ Disconnect \/ RefreshLists
  <2>1. spoiled' = NoList /\ silent' = {} /\ UNCHANGED <<lists, loaded>>
    BY <1>1, <1>4, <1>12 DEF Open, Disconnect, RefreshLists
  <2> QED BY <1>1, <1>3, <2>1 DEF ListsTyped
<1>13. CASE Grant \/ Subscribe \/ WriteJSON \/ UNCHANGED viewVars
  BY <1>2, <1>13 DEF Grant, Subscribe, WriteJSON, viewVars, historyVars
<1>14. CASE OnMessage
  <2>1. spoiled' \in [Lists -> BOOLEAN]
    BY <1>1, <1>14, MessageShows DEF ListsTyped, Overtakes
  <2> QED BY <1>1, <1>14, <2>1, MessageShows DEF ListsTyped
<1>15. CASE RefreshCodes
  BY <1>1, <1>15 DEF RefreshCodes, ListsTyped
<1> QED BY <1>5, <1>6, <1>7, <1>8, <1>9, <1>10, <1>11, <1>12, <1>13, <1>14, <1>15, ViewCases

LEMMA ViewTypeStep ==
  ASSUME ViewTypeOK, [ViewNext]_(viewVars)
  PROVE  ViewTypeOK'
<1> DEFINE Stores == stored' \subseteq Mails /\ codes' \subseteq Codes /\ published' \subseteq Mails
           Page == /\ visits' \in 0..MaxVisits /\ address' \in AnyAddress /\ ref' \in AnyAddress
                   /\ access' \in BOOLEAN /\ effects' \in BOOLEAN
<1>1. stored \subseteq Mails /\ codes \subseteq Codes /\ published \subseteq Mails
  BY DEF ViewTypeOK
<1>2. /\ visits \in 0..MaxVisits /\ address \in AnyAddress /\ ref \in AnyAddress
      /\ access \in BOOLEAN /\ effects \in BOOLEAN
  BY DEF ViewTypeOK
<1>3. UNCHANGED storeVars => Stores
  BY <1>1 DEF storeVars
<1>4. UNCHANGED pageVars => Page
  BY <1>2 DEF pageVars
<1>5. Stores /\ Page
  <2>1. ASSUME NEW m \in Mails, MailStep(m) PROVE Stores /\ Page
    <3>1. UNCHANGED pageVars
      BY <2>1 DEF MailStep, Store, Extract, Publish, Sweep, SweepCodes
    <3>2. Stores
      BY <1>1, <2>1 DEF MailStep, Store, Extract, Publish, Sweep, SweepCodes
    <3> QED BY <1>4, <3>1, <3>2
  <2>2. CASE Rebuild
    BY <1>1, <1>4, <2>2 DEF Rebuild
  <2>3. ASSUME NEW l \in Lists, NEW i \in Fetches,
               AnswerFetch(l, i) \/ Show(l, i) \/ Fail(l, i)
        PROVE  Stores /\ Page
    BY <1>3, <1>4, <2>3 DEF AnswerFetch, Show, Fail
  <2>4. ASSUME NEW a \in AnyAddress, Visit(a) PROVE Stores /\ Page
    BY <1>2, <1>3, <2>4, ViewAssumption DEF Visit
  <2>5. CASE Grant \/ RunEffects
    BY <1>2, <1>3, <2>5 DEF Grant, RunEffects
  <2>6. CASE \/ Subscribe \/ WriteJSON \/ Open \/ Disconnect \/ RefreshLists
             \/ RefreshCodes \/ OnMessage \/ UNCHANGED viewVars
    <3>1. UNCHANGED <<storeVars, pageVars>>
      BY <2>6 DEF Subscribe, WriteJSON, Open, Disconnect, RefreshLists, RefreshCodes,
                  OnMessage, viewVars, storeVars, pageVars
    <3> QED BY <1>3, <1>4, <3>1
  <2> QED BY <2>1, <2>2, <2>3, <2>4, <2>5, <2>6, ViewCases
<1> QED BY <1>5, SocketMoves, FetchMoves, ListsMove, TypeByParts DEF ListsTyped

\* An answer is written once, by the server, and is of the fetch's mailbox.
LEMMA AnswersOwnStep ==
  ASSUME ViewTypeOK, AnswersOwn, [ViewNext]_(viewVars)
  PROVE  AnswersOwn'
<1>1. ASSUME NEW l \in Lists, NEW i \in Fetches, fetch'[l][i].pc = "answered"
      PROVE  \A x \in fetch'[l][i].answer : Box(x) = fetch'[l][i].mailbox
  <2> DEFINE old == fetch[l][i]  new == fetch'[l][i]
  <2>1. FetchStep(l, old, new)
    BY FetchMoves
  <2>2. old.pc = "answered" => \A x \in old.answer : Box(x) = old.mailbox
    BY DEF AnswersOwn
  <2>3. \A x \in ListMailbox(l, old.mailbox) : Box(x) = old.mailbox
    BY DEF ListMailbox
  <2>4. IdleFetch.pc = "idle"
    BY DEF IdleFetch
  <2> HIDE DEF old
  <2> QED BY <1>1, <2>1, <2>2, <2>3, <2>4 DEF FetchStep
<1> QED BY <1>1 DEF AnswersOwn

\* The mailbox of the page is that of its last effects.
LEMMA PageMoves ==
  ASSUME [ViewNext]_(viewVars)
  PROVE  \/ RunEffects
         \/ UNCHANGED ref /\ (~effects' => ~effects /\ UNCHANGED address)
<1> DEFINE Moves == UNCHANGED ref /\ (~effects' => ~effects /\ UNCHANGED address)
<1>1. ASSUME NEW m \in Mails, MailStep(m) PROVE Moves
  BY <1>1 DEF MailStep, Store, Extract, Publish, Sweep, SweepCodes, pageVars
<1>2. ASSUME NEW l \in Lists, NEW i \in Fetches,
             AnswerFetch(l, i) \/ Show(l, i) \/ Fail(l, i)
      PROVE  Moves
  BY <1>2 DEF AnswerFetch, Show, Fail, pageVars
<1>3. ASSUME NEW a \in AnyAddress, Visit(a) PROVE Moves
  BY <1>3 DEF Visit
<1>4. ASSUME \/ Rebuild \/ Grant \/ Subscribe \/ WriteJSON \/ Open \/ Disconnect
             \/ RefreshLists \/ RefreshCodes \/ OnMessage \/ UNCHANGED viewVars
      PROVE  Moves
  BY <1>4 DEF Rebuild, Grant, Subscribe, WriteJSON, Open, Disconnect, RefreshLists,
       RefreshCodes, OnMessage, viewVars, pageVars
<1> QED BY <1>1, <1>2, <1>3, <1>4, ViewCases

LEMMA SocketOwnStep ==
  ASSUME ViewTypeOK, SocketOwn, [ViewNext]_(viewVars)
  PROVE  SocketOwn'
<1> DEFINE MailOwn(m) == MailFor[m] = ref
<1>1. /\ socket.mailbox = ref /\ (~effects => ref = address)
      /\ \A m \in ToSet(socket.channel) : MailOwn(m)
      /\ \A f \in ToSet(socket.wire) : FrameOwn(f)
  BY DEF SocketOwn
<1>2. /\ socket.channel \in Seq(Mails) /\ socket.wire \in Seq(Frame) /\ SocketStep
  BY SocketFacts, SocketMoves DEF Socket
<1>3. ASSUME RunEffects PROVE SocketOwn'
  <2>1. PICK pc \in {"connecting", "closed"} :
          socket' = [pc |-> pc, mailbox |-> address, channel |-> << >>, wire |-> << >>]
    BY <1>3 DEF RunEffects, Connecting
  <2>2. ref' = address /\ UNCHANGED address
    BY <1>3 DEF RunEffects
  <2>3. socket'.mailbox = ref' /\ socket'.channel = << >> /\ socket'.wire = << >>
    BY <2>1, <2>2
  <2>4. ToSet(socket'.channel) = {} /\ ToSet(socket'.wire) = {}
    BY <2>3 DEF ToSet
  <2> QED BY <2>2, <2>3, <2>4 DEF SocketOwn
<1>4. ASSUME ~RunEffects PROVE SocketOwn'
  <2>1. socket'.mailbox = ref' /\ UNCHANGED ref /\ (~effects' => ref' = address')
    BY <1>1, <1>4, PageMoves, SocketMoves
  <2>2. \A f : FrameOwn(f) => FrameOwn(f)'
    BY <2>1 DEF FrameOwn
  <2>3. \A m \in ToSet(socket'.channel) : MailOwn(m)
    <3>1. CASE UNCHANGED socket.channel
      BY <1>1, <3>1
    <3>2. CASE socket'.channel = << >>
      BY <3>2 DEF ToSet
    <3>3. ASSUME NEW n \in Mails, MailFor[n] = socket.mailbox,
                 socket'.channel = Append(socket.channel, n)
          PROVE  \A m \in ToSet(socket'.channel) : MailOwn(m)
      <4>1. ToSet(socket'.channel) = ToSet(socket.channel) \union {n}
        BY <1>2, <3>3, Elements
      <4> QED BY <1>1, <3>3, <4>1
    <3>4. ASSUME socket.channel # << >>, socket'.channel = Tail(socket.channel)
          PROVE  \A m \in ToSet(socket'.channel) : MailOwn(m)
      <4>1. ToSet(socket'.channel) \subseteq ToSet(socket.channel)
        BY <1>2, <3>4, Elements
      <4> QED BY <1>1, <4>1
    <3> HIDE DEF MailOwn
    <3> QED BY <1>2, <3>1, <3>2, <3>3, <3>4 DEF SocketStep
  <2>4. \A f \in ToSet(socket'.wire) : FrameOwn(f)'
    <3>1. CASE UNCHANGED socket.wire
      BY <1>1, <2>2, <3>1
    <3>2. CASE socket'.wire = << >>
      BY <3>2 DEF ToSet
    <3>3. ASSUME socket.channel # << >>, socket'.wire = Append(socket.wire, NextFrame)
          PROVE  \A f \in ToSet(socket'.wire) : FrameOwn(f)'
      <4>1. Head(socket.channel) \in Mails /\ MailOwn(Head(socket.channel))
        BY <1>1, <1>2, <3>3, Elements
      <4>2. NextFrame \in Frame /\ FrameOwn(NextFrame)
        BY <1>1, <4>1, ListMailboxType DEF NextFrame, Frame, FrameOwn
      <4>3. ToSet(socket'.wire) = ToSet(socket.wire) \union {NextFrame}
        BY <1>2, <3>3, <4>2, Elements
      <4> QED BY <1>1, <2>2, <4>2, <4>3
    <3>4. ASSUME socket.wire # << >>, socket'.wire = Tail(socket.wire)
          PROVE  \A f \in ToSet(socket'.wire) : FrameOwn(f)'
      <4>1. ToSet(socket'.wire) \subseteq ToSet(socket.wire)
        BY <1>2, <3>4, Elements
      <4> QED BY <1>1, <2>2, <4>1
    <3> QED BY <1>2, <3>1, <3>2, <3>3, <3>4 DEF SocketStep
  <2> QED BY <2>1, <2>3, <2>4 DEF SocketOwn
<1> QED BY <1>3, <1>4

\* What replaces a list is of the page's mailbox, or the list has not been
\* loaded for it.
LEMMA ListsOwnStep ==
  ASSUME ViewTypeOK, AnswersOwn, SocketOwn, ListsOwn,
         [ViewNext]_(viewVars)
  PROVE  ListsOwn'
<1>1. ASSUME UNCHANGED <<lists, loaded, ref>> PROVE ListsOwn'
  BY <1>1 DEF ListsOwn
<1>2. ASSUME NEW m \in Mails, MailStep(m) PROVE ListsOwn'
  BY <1>1, <1>2
     DEF MailStep, Store, Extract, Publish, Sweep, SweepCodes, pageVars, historyVars
<1>3. ASSUME NEW l \in Lists, NEW i \in Fetches, AnswerFetch(l, i) \/ Fail(l, i)
      PROVE  ListsOwn'
  BY <1>1, <1>3 DEF AnswerFetch, Fail, pageVars, historyVars
<1>4. ASSUME NEW l \in Lists, NEW i \in Fetches, Show(l, i) PROVE ListsOwn'
  <2>1. CASE UNCHANGED <<lists, historyVars>>
    BY <1>1, <1>4, <2>1 DEF Show, historyVars, pageVars
  <2>2. ASSUME fetch[l][i].mailbox = ref, lists' = [lists EXCEPT ![l] = fetch[l][i].answer],
               loaded' = [loaded EXCEPT ![l] = TRUE], UNCHANGED ref
        PROVE  ListsOwn'
    <3>1. \A x \in fetch[l][i].answer : Box(x) = ref
      BY <1>4, <2>2 DEF AnswersOwn, Show
    <3>2. /\ lists'[l] = fetch[l][i].answer
          /\ \A k \in Lists \ {l} : lists'[k] = lists[k] /\ loaded'[k] = loaded[k]
      BY <2>2 DEF ViewTypeOK
    <3>3. ASSUME NEW k \in Lists, loaded'[k] PROVE \A x \in lists'[k] : Box(x) = ref
      BY <3>1, <3>2, <3>3 DEF ListsOwn
    <3> QED BY <2>2, <3>3 DEF ListsOwn
  <2> QED BY <1>4, <2>1, <2>2 DEF Show, pageVars
<1>5. ASSUME NEW a \in AnyAddress, Visit(a) PROVE ListsOwn'
  BY <1>1, <1>5 DEF Visit, historyVars
<1>6. ASSUME RunEffects PROVE ListsOwn'
  BY <1>6 DEF RunEffects, ListsOwn, NoList
<1>7. ASSUME \/ Rebuild \/ Grant \/ Subscribe \/ WriteJSON \/ Open \/ Disconnect
             \/ RefreshLists \/ RefreshCodes \/ UNCHANGED viewVars
      PROVE  ListsOwn'
  BY <1>1, <1>7 DEF Rebuild, Grant, Subscribe, WriteJSON, Open, Disconnect, RefreshLists,
       RefreshCodes, viewVars, pageVars, historyVars
<1>8. ASSUME OnMessage PROVE ListsOwn'
  <2>1. FrameOwn(Head(socket.wire)) /\ Box(Head(socket.wire).mail) = MailFor[Head(socket.wire).mail]
    BY <1>8, MessageShows, BoxOf DEF SocketOwn, Frame
  <2>2. /\ loaded["messages"] => \A x \in lists'["messages"] : Box(x) = ref
        /\ \A x \in lists'["codes"] : Box(x) = ref
    BY <1>8, <2>1, MessageShows DEF ListsOwn, FrameOwn, Lists
  <2> QED BY <1>8, <2>2, MessageShows DEF ListsOwn, Lists, pageVars
<1> QED BY <1>2, <1>3, <1>4, <1>5, <1>6, <1>7, <1>8, ViewCases

\* A mail of which a frame will be written is not forgotten until it is written.
LEMMA AnnouncedKept ==
  ASSUME ViewTypeOK, SocketOwn, [ViewNext]_(viewVars), socket'.pc = "open",
         NEW m \in Announced, m \in Mails, MailFor[m] = ref
  PROVE  \/ m \in Announced'
         \/ /\ socket'.wire = Append(socket.wire, NextFrame) /\ UNCHANGED storeVars
            /\ m = Head(socket.channel) /\ NextFrame \in Frame
<1>1. /\ socket.channel \in Seq(Mails) /\ socket.wire \in Seq(Frame) /\ SocketStep
  BY SocketFacts, SocketMoves DEF Socket
<1>2. m \in ToSet(socket'.channel) \/ m \in stored' \ published' => m \in Announced'
  BY DEF Announced
<1>3. ASSUME m \in stored \ published PROVE m \in Announced'
  <2>1. CASE Publish(m)
    <3>1. socket' = socket \/ socket' = [socket EXCEPT !.channel = Append(@, m)]
      BY <2>1 DEF Publish
    <3>2. socket.pc = "open" /\ socket.mailbox = MailFor[m]
      BY <3>1, SocketFacts DEF Socket, SocketOwn
    <3>3. socket'.channel = Append(socket.channel, m)
      BY <2>1, <3>2, SocketFacts DEF Publish, Socket
    <3> QED BY <1>1, <1>2, <3>3, Elements
  <2>2. ASSUME NEW n \in Mails, MailStep(n), ~Publish(m) PROVE m \in stored' \ published'
    BY <1>3, <2>2 DEF MailStep, Store, Extract, Publish, Sweep, SweepCodes
  <2>3. ASSUME NEW l \in Lists, NEW i \in Fetches,
               AnswerFetch(l, i) \/ Show(l, i) \/ Fail(l, i)
        PROVE  UNCHANGED <<stored, published>>
    BY <2>3 DEF AnswerFetch, Show, Fail, storeVars
  <2>4. ASSUME NEW a \in AnyAddress, Visit(a) PROVE UNCHANGED <<stored, published>>
    BY <2>4 DEF Visit, storeVars
  <2>5. ASSUME \/ Rebuild \/ Grant \/ RunEffects \/ Subscribe \/ WriteJSON \/ Open
               \/ Disconnect \/ RefreshLists \/ RefreshCodes \/ OnMessage
               \/ UNCHANGED viewVars
        PROVE  UNCHANGED <<stored, published>>
    BY <2>5 DEF Rebuild, Grant, RunEffects, Subscribe, WriteJSON, Open, Disconnect,
         RefreshLists, RefreshCodes, OnMessage, viewVars, storeVars
  <2> QED BY <1>2, <1>3, <2>1, <2>2, <2>3, <2>4, <2>5, ViewCases
<1>4. CASE m \in ToSet(socket.channel)
  <2>1. CASE UNCHANGED socket.channel
    BY <1>2, <1>4, <2>1
  <2>2. ASSUME NEW n \in Mails, socket'.channel = Append(socket.channel, n)
        PROVE  m \in Announced'
    BY <1>1, <1>2, <1>4, <2>2, Elements
  <2>3. ASSUME socket.channel # << >>, socket'.channel = Tail(socket.channel)
        PROVE  m \in Announced' \/ m = Head(socket.channel)
    BY <1>1, <1>2, <1>4, <2>3, Elements
  <2>4. socket.channel # << >> => NextFrame \in Frame
    BY <1>1, Elements, ListMailboxType DEF NextFrame, Frame
  <2> QED BY <1>1, <2>1, <2>2, <2>3, <2>4 DEF SocketStep
<1> QED BY <1>3, <1>4 DEF Announced

\* A frame stays on the wire until the page has it.
LEMMA FramesKept ==
  ASSUME ViewTypeOK, [ViewNext]_(viewVars), socket'.pc = "open",
         NEW f \in ToSet(socket.wire)
  PROVE  f \in ToSet(socket'.wire) \/ (OnMessage /\ f = Head(socket.wire))
<1>1. /\ socket.channel \in Seq(Mails) /\ socket.wire \in Seq(Frame) /\ SocketStep
  BY SocketFacts, SocketMoves DEF Socket
<1>2. CASE UNCHANGED socket.wire
  BY <1>2
<1>3. ASSUME socket.channel # << >>, socket'.wire = Append(socket.wire, NextFrame)
      PROVE  f \in ToSet(socket'.wire)
  <2>1. NextFrame \in Frame
    BY <1>1, <1>3, Elements, ListMailboxType DEF NextFrame, Frame
  <2> QED BY <1>1, <1>3, <2>1, Elements
<1>4. ASSUME socket.wire # << >>, socket'.wire = Tail(socket.wire)
      PROVE  f \in ToSet(socket'.wire) \/ f = Head(socket.wire)
  BY <1>1, <1>4, Elements
<1> QED BY <1>1, <1>2, <1>3, <1>4 DEF SocketStep

\* What comes to a list goes on coming, until a frame has brought it.
LEMMA ComingKept ==
  ASSUME ViewTypeOK, SocketOwn, [ViewNext]_(viewVars), socket'.pc = "open", UNCHANGED ref,
         NEW l \in Lists, NEW x \in ListMailbox(l, ref)', x \in Coming(l)
  PROVE  \/ x \in Coming(l)'
         \/ OnMessage /\ l = "messages" /\ x = Head(socket.wire).mail
         \/ OnMessage /\ l = "codes" /\ x \in Head(socket.wire).codes
<1>1. socket.channel \in Seq(Mails) /\ socket.wire \in Seq(Frame) /\ stored \subseteq Mails
  BY SocketFacts DEF Socket, ViewTypeOK
<1>2. x \in Held(l)' /\ Box(x) = ref
  BY DEF ListMailbox
<1>3. Announced \subseteq Mails
  BY <1>1, Elements DEF Announced
<1>4. ASSUME NextFrame \in Frame, socket'.wire = Append(socket.wire, NextFrame)
      PROVE  NextFrame \in ToSet(socket'.wire)
  BY <1>1, <1>4, Elements
<1>5. CASE l = "messages"
  <2>1. CASE x \in Announced
    <3>1. x \in Mails /\ MailFor[x] = ref
      BY <1>2, <1>3, <2>1, BoxOf
    <3>2. x = Head(socket.channel) => x = NextFrame.mail
      BY DEF NextFrame
    <3> QED BY <1>4, <1>5, <2>1, <3>1, <3>2, AnnouncedKept DEF Coming
  <2>2. ASSUME NEW f \in ToSet(socket.wire), x = f.mail
        PROVE  x \in Coming(l)' \/ (OnMessage /\ x = Head(socket.wire).mail)
    BY <1>5, <2>2, FramesKept DEF Coming
  <2> QED BY <1>5, <2>1, <2>2 DEF Coming
<1>6. CASE l = "codes"
  <2>1. ASSUME x \in Codes, From[x] \in Announced PROVE x \in Coming(l)'
    <3>1. MailFor[From[x]] = ref /\ From[x] \in Mails
      BY <1>2, <2>1, BoxOf
    <3>2. ASSUME UNCHANGED storeVars PROVE x \in NextFrame.codes
      <4>1. x \in codes /\ socket.mailbox = ref
        BY <1>2, <1>6, <3>2 DEF Held, storeVars, SocketOwn
      <4> QED BY <1>2, <4>1 DEF NextFrame, ListMailbox, Held
    <3> QED BY <1>4, <1>6, <2>1, <3>1, <3>2, AnnouncedKept DEF Coming
  <2>2. ASSUME NEW f \in ToSet(socket.wire), x \in f.codes
        PROVE  x \in Coming(l)' \/ (OnMessage /\ x \in Head(socket.wire).codes)
    BY <1>6, <2>2, FramesKept DEF Coming
  <2> QED BY <1>6, <2>1, <2>2 DEF Coming
<1> QED BY <1>5, <1>6 DEF Lists

\* What is new in a store comes to the page, or a rebuild has put it in.
LEMMA NewComes ==
  ASSUME ViewTypeOK, [ViewNext]_(viewVars), socket'.pc = "open",
         NEW l \in Lists, NEW x \in ListMailbox(l, ref)', x \notin Held(l)
  PROVE  x \in Coming(l)' \/ x \in silent'
<1>1. x \in Held(l)'
  BY DEF ListMailbox
<1>2. l = "messages" \/ l = "codes"
  BY DEF Lists
<1>3. ASSUME UNCHANGED <<stored, codes>> PROVE FALSE
  BY <1>1, <1>3 DEF Held
<1>4. ASSUME NEW m \in Mails, MailStep(m) PROVE x \in Coming(l)'
  <2>1. CASE Store(m)
    BY <1>1, <1>2, <2>1 DEF Store, Held, Coming, Announced
  <2>2. CASE Extract(m)
    BY <1>1, <1>2, <2>2 DEF Extract, Held, Coming, Announced
  <2>3. CASE Publish(m) \/ Sweep(m) \/ SweepCodes(m)
    BY <1>1, <2>3 DEF Publish, Sweep, SweepCodes, Held
  <2> QED BY <1>4, <2>1, <2>2, <2>3 DEF MailStep
<1>5. CASE Rebuild
  <2>1. socket.pc = "open" /\ l = "codes" /\ x \in codes' \ codes
    BY <1>1, <1>2, <1>5 DEF Rebuild, Held
  <2> QED BY <1>5, <2>1 DEF Rebuild
<1>6. ASSUME NEW k \in Lists, NEW i \in Fetches,
             AnswerFetch(k, i) \/ Show(k, i) \/ Fail(k, i)
      PROVE  FALSE
  BY <1>3, <1>6 DEF AnswerFetch, Show, Fail, storeVars
<1>7. ASSUME NEW a \in AnyAddress, Visit(a) PROVE FALSE
  BY <1>3, <1>7 DEF Visit, storeVars
<1>8. ASSUME \/ Grant \/ RunEffects \/ Subscribe \/ WriteJSON \/ Open \/ Disconnect
             \/ RefreshLists \/ RefreshCodes \/ OnMessage \/ UNCHANGED viewVars
      PROVE  FALSE
  BY <1>3, <1>8 DEF Grant, RunEffects, Subscribe, WriteJSON, Open, Disconnect,
       RefreshLists, RefreshCodes, OnMessage, viewVars, storeVars
<1> QED BY <1>4, <1>5, <1>6, <1>7, <1>8, ViewCases

\* What a list has it keeps, unless a fetch fails or an older list comes.
LEMMA CoveredStep ==
  ASSUME ViewTypeOK, AnswersOwn, SocketOwn, Covered,
         [ViewNext]_(viewVars)
  PROVE  Covered'
<1> SUFFICES ASSUME socket'.pc = "open", NEW l \in Lists, ~spoiled'[l],
                    NEW x \in ListMailbox(l, ref)'
             PROVE  Has(l, x)'
  BY DEF Covered
<1>1. x \in Held(l)' /\ Box(x) = ref'
  BY DEF ListMailbox
<1>2. ~RunEffects /\ ~Subscribe /\ ~Disconnect
  <2>1. ASSUME RunEffects PROVE FALSE
    BY <2>1 DEF RunEffects, Connecting
  <2>2. ASSUME Subscribe PROVE FALSE
    BY <2>2, SocketFacts DEF Subscribe, Socket
  <2>3. ASSUME Disconnect PROVE FALSE
    BY <2>3, SocketFacts DEF Disconnect, Socket
  <2> QED BY <2>1, <2>2, <2>3
<1>3. UNCHANGED ref
  BY <1>2, PageMoves
<1>4. SUFFICES ASSUME x \in Held(l) PROVE Has(l, x)'
  BY NewComes DEF Has
<1>5. x \in ListMailbox(l, ref)
  BY <1>1, <1>3, <1>4 DEF ListMailbox
<1>6. ASSUME socket.pc = "open", ~spoiled[l] PROVE Has(l, x)
  BY <1>5, <1>6 DEF Covered
<1>7. ASSUME x \in Coming(l), ~OnMessage PROVE x \in Coming(l)'
  BY <1>3, <1>7, ComingKept
<1>8. ASSUME NEW a \in AnyAddress, SendFetches(a), a = ref PROVE Has(l, x)'
  <2>1. PICK i \in Fetches : fetch'[l][i] = [pc |-> "sent", mailbox |-> a, answer |-> {}]
    BY <1>8, Sends
  <2> QED BY <1>3, <1>8, <2>1 DEF Has, Brings
<1>9. CASE Open \/ RefreshLists
  <2>1. /\ socket.mailbox = ref /\ ref \in AnyAddress
        /\ RefreshLists => address = ref
    BY DEF SocketOwn, ViewTypeOK, RefreshLists
  <2> QED BY <1>8, <1>9, <2>1 DEF Open, RefreshLists
<1>10. CASE OnMessage
  <2> DEFINE frame == Head(socket.wire)
  <2>1. /\ socket.pc = "open" /\ UNCHANGED <<stored, codes, fetch, silent>>
    BY <1>10, MessageShows DEF OnMessage, storeVars
  <2>2. Brings(l, x) => Brings(l, x)'
    BY <1>3, <2>1 DEF Brings
  <2>3. CASE l = "messages"
    <3>1. ~spoiled[l] /\ lists'[l] = lists[l] \union {frame.mail}
      BY <1>10, <2>3, MessageShows DEF ViewTypeOK
    <3> HIDE DEF frame
    <3>2. Has(l, x)
      BY <1>6, <2>1, <3>1
    <3>3. CASE x \in Coming(l)
      BY <1>3, <2>3, <3>1, <3>3, ComingKept DEF Has, frame
    <3> QED BY <2>1, <2>2, <3>1, <3>2, <3>3 DEF Has
  <2>4. CASE l = "codes"
    <3>1. lists'[l] = frame.codes /\ ~spoiled[l] /\ ~Overtakes(l, frame.codes)
      BY <1>10, <2>4, MessageShows DEF ViewTypeOK
    <3> HIDE DEF frame
    <3>2. x \in lists[l] => x \in frame.codes
      BY <1>5, <2>1, <3>1 DEF Overtakes
    <3>3. Has(l, x)
      BY <1>6, <2>1, <3>1
    <3>4. CASE x \in Coming(l)
      BY <1>3, <2>4, <3>1, <3>4, ComingKept DEF Has, frame
    <3> QED BY <2>1, <2>2, <3>1, <3>2, <3>3, <3>4 DEF Has
  <2> QED BY <2>3, <2>4 DEF Lists
<1>11. ASSUME UNCHANGED <<lists, spoiled>>, silent \subseteq silent', socket.pc = "open",
              ~OnMessage, Brings(l, x) => Brings(l, x)'
       PROVE  Has(l, x)'
  BY <1>6, <1>7, <1>11 DEF Has
<1>12. ASSUME UNCHANGED <<lists, spoiled, fetch>>, silent \subseteq silent',
              UNCHANGED socket.pc, ~OnMessage
       PROVE  Has(l, x)'
  BY <1>3, <1>11, <1>12 DEF Brings
<1>13. ASSUME ~OnMessage, NEW m \in Mails, MailStep(m) PROVE Has(l, x)'
  <2>1. UNCHANGED <<lists, spoiled, silent, fetch>>
    BY <1>13
       DEF MailStep, Store, Extract, Publish, Sweep, SweepCodes, historyVars
  <2>2. UNCHANGED socket.pc
    BY <1>13, SocketFacts
       DEF MailStep, Store, Extract, Publish, Sweep, SweepCodes, Socket
  <2> QED BY <1>12, <1>13, <2>1, <2>2
<1>14. ASSUME ~OnMessage, Rebuild PROVE Has(l, x)'
  BY <1>12, <1>14 DEF Rebuild
<1>15. ASSUME ~OnMessage, Grant \/ WriteJSON \/ UNCHANGED viewVars PROVE Has(l, x)'
  <2>1. UNCHANGED <<lists, spoiled, silent, fetch>>
    BY <1>15 DEF Grant, WriteJSON, viewVars, historyVars
  <2>2. UNCHANGED socket.pc
    BY <1>15, SocketFacts DEF Grant, WriteJSON, viewVars, Socket
  <2> QED BY <1>12, <1>15, <2>1, <2>2
<1>16. ASSUME ~OnMessage, NEW a \in AnyAddress, Visit(a) PROVE Has(l, x)'
  BY <1>12, <1>16 DEF Visit, historyVars
<1>17. ASSUME ~OnMessage, NEW k \in Lists, NEW i \in Fetches, AnswerFetch(k, i)
       PROVE  Has(l, x)'
  <2>1. /\ UNCHANGED <<stored, codes, socket, lists, spoiled, silent>>
        /\ fetch[k][i].pc = "sent"
    BY <1>17 DEF AnswerFetch, storeVars, historyVars
  <2>2. ASSUME NEW j \in Fetches
        PROVE  \/ fetch'[l][j] = fetch[l][j]
               \/ /\ fetch'[l][j].pc = "answered" /\ fetch'[l][j].mailbox = fetch[l][j].mailbox
                  /\ fetch'[l][j].answer = ListMailbox(l, fetch[l][j].mailbox)
    <3> DEFINE old == fetch[k][i]
               new == [old EXCEPT !.pc = "answered", !.answer = ListMailbox(k, old.mailbox)]
    <3>1. fetch \in [Lists -> [Fetches -> Fetch]] /\ old \in Fetch
      BY DEF ViewTypeOK, Fetch
    <3>2. fetch' = [fetch EXCEPT ![k] = [fetch[k] EXCEPT ![i] = new]]
      BY <1>17, <3>1 DEF AnswerFetch
    <3>3. /\ new.mailbox = old.mailbox
          /\ new.pc = "answered" /\ new.answer = ListMailbox(k, old.mailbox)
      BY <3>1 DEF Fetch
    <3> HIDE DEF new
    <3>4. fetch'[l][j] = IF k = l /\ j = i THEN new ELSE fetch[l][j]
      BY <3>1, <3>2
    <3> QED BY <3>3, <3>4
  <2>3. ASSUME Brings(l, x) PROVE Brings(l, x)'
    <3>1. PICK j \in Fetches :
            /\ fetch[l][j].mailbox = ref
            /\ \/ fetch[l][j].pc = "sent"
               \/ fetch[l][j].pc = "answered" /\ x \in fetch[l][j].answer
      BY <2>3 DEF Brings
    <3>2. CASE fetch'[l][j] = fetch[l][j]
      BY <1>3, <3>1, <3>2 DEF Brings
    <3>3. ASSUME fetch'[l][j].pc = "answered", fetch'[l][j].mailbox = ref,
                 fetch'[l][j].answer = ListMailbox(l, ref)
          PROVE  Brings(l, x)'
      BY <1>3, <1>5, <3>3 DEF Brings
    <3> QED BY <2>2, <3>1, <3>2, <3>3
  <2> QED BY <1>11, <1>17, <2>1, <2>3
<1>18. ASSUME NEW k \in Lists, NEW i \in Fetches, Show(k, i) \/ Fail(k, i)
       PROVE  Has(l, x)'
  <2>1. /\ UNCHANGED <<stored, codes, published, socket, silent>>
        /\ fetch[k][i].pc \in {"sent", "answered"} /\ socket.pc = "open"
    BY <1>18 DEF Show, Fail, storeVars, historyVars, ViewTypeOK
  <2>2. \A j \in Fetches : ~(k = l /\ j = i) => fetch'[l][j] = fetch[l][j]
    BY <1>18 DEF Show, Fail, ViewTypeOK
  <2>3. Coming(l)' = Coming(l)
    BY <2>1 DEF Coming, Announced
  <2>4. CASE k # l \/ fetch[l][i].mailbox # ref
    <3>1. UNCHANGED <<lists[l], spoiled[l]>>
      BY <1>18, <2>4 DEF Show, Fail, ViewTypeOK, historyVars
    <3>2. Brings(l, x) => Brings(l, x)'
      BY <1>3, <2>2, <2>4 DEF Brings
    <3> QED BY <1>6, <2>1, <2>3, <3>1, <3>2 DEF Has
  <2>5. ASSUME k = l, fetch[l][i].mailbox = ref, Show(l, i) PROVE Has(l, x)'
    <3> DEFINE list == fetch[l][i].answer
    <3>1. lists'[l] = list /\ ~spoiled[l] /\ ~Overtakes(l, list)
      BY <2>5 DEF Show, ViewTypeOK
    <3>2. Has(l, x)
      BY <1>6, <2>1, <3>1
    <3>3. x \in lists[l] => x \in list
      BY <1>5, <2>1, <3>1 DEF Overtakes
    <3>4. Brings(l, x) => x \in list \/ Brings(l, x)'
      <4>1. fetch[l][i].pc = "answered"
        BY <2>5 DEF Show
      <4> QED BY <1>3, <2>2, <2>5, <4>1 DEF Brings
    <3> QED BY <2>1, <2>3, <3>1, <3>2, <3>3, <3>4 DEF Has
  <2>6. ASSUME k = l, fetch[l][i].mailbox = ref, Fail(l, i) PROVE FALSE
    BY <2>1, <2>6 DEF Fail, ViewTypeOK
  <2> QED BY <1>18, <2>4, <2>5, <2>6
<1>19. ASSUME ~OnMessage, RefreshCodes PROVE Has(l, x)'
  <2> DEFINE new == [pc |-> "sent", mailbox |-> address, answer |-> {}]
  <2>1. PICK i \in Fetches : fetch' = [fetch EXCEPT !["codes"][i] = new]
    BY <1>19 DEF RefreshCodes
  <2>2. /\ address = ref /\ socket.pc = "open"
        /\ UNCHANGED <<stored, codes, published, socket, lists>>
        /\ spoiled' = [spoiled EXCEPT !["codes"] = FALSE]
    BY <1>19 DEF RefreshCodes, SocketOwn, storeVars
  <2>3. CASE l = "codes"
    <3>1. fetch'[l][i] = new
      BY <2>1, <2>3 DEF ViewTypeOK
    <3> QED BY <1>3, <2>2, <3>1 DEF Has, Brings
  <2>4. CASE l = "messages"
    <3>1. fetch'[l] = fetch[l] /\ spoiled'[l] = spoiled[l] /\ x \notin silent
      BY <1>4, <2>1, <2>2, <2>4, ViewAssumption DEF ViewTypeOK, Held
    <3>2. Has(l, x)
      BY <1>6, <2>2, <3>1
    <3>3. Brings(l, x) => Brings(l, x)'
      BY <1>3, <3>1 DEF Brings
    <3> QED BY <1>7, <1>19, <2>2, <3>1, <3>2, <3>3 DEF Has
  <2> QED BY <2>3, <2>4 DEF Lists
<1> QED BY <1>2, <1>9, <1>10, <1>13, <1>14, <1>15, <1>16, <1>17, <1>18, <1>19, ViewCases

LEMMA ViewInvInit == ASSUME ViewInit PROVE ViewInv
<1>1. /\ socket.mailbox = ref /\ socket.pc = "closed"
      /\ socket.channel = << >> /\ socket.wire = << >>
  BY DEF ViewInit, Connecting
<1>2. ToSet(socket.channel) = {} /\ ToSet(socket.wire) = {}
  BY <1>1 DEF ToSet
<1>3. AnswersOwn
  BY DEF ViewInit, IdleFetch, AnswersOwn
<1>4. ListsOwn
  BY DEF ViewInit, ListsOwn
<1> QED BY <1>1, <1>2, <1>3, <1>4, ViewInitType DEF ViewInit, ViewInv, SocketOwn, Covered

LEMMA ViewInvStep ==
  ASSUME ViewInv, [ViewNext]_(viewVars) PROVE ViewInv'
BY ViewTypeStep, AnswersOwnStep, SocketOwnStep, ListsOwnStep, CoveredStep DEF ViewInv

LEMMA ViewInvInvariant == ViewSpec => []ViewInv
<1>1. ViewInit => ViewInv
  BY ViewInvInit
<1>2. ViewInv /\ [ViewNext]_(viewVars) => ViewInv'
  BY ViewInvStep
<1> QED BY <1>1, <1>2, PTL DEF ViewSpec

\* From the first answer for an address on the page shows no mail and no code of
\* another address, whatever was under way when the visitor came
\* (App.tsx:556, 573, 581-587).
THEOREM PageShowsOnlyOwnMails ==
  ViewSpec => []OnlyOwnMails
<1>1. ViewInv => OnlyOwnMails
  BY DEF ViewInv, SocketOwn, ListsOwn, OnlyOwnMails
<1> QED BY <1>1, ViewInvInvariant, PTL

\* A page whose socket is open and which has the answers to all it asked has
\* every stored mail and every stored code of its address, or they are coming,
\* but for three exceptions that last until it asks again: a fetch failed, an
\* older list came after a newer one, or a rebuild has put the code in, of which
\* no frame tells (App.tsx:594-595, api.go:253, 836-843).
THEOREM PageHasNoGap ==
  ViewSpec => []NoGap
<1>1. ASSUME ViewInv, socket.pc = "open", ~effects, NEW l \in Lists,
             NoFetch(l), ~spoiled[l]
      PROVE  ListMailbox(l, address) \subseteq lists[l] \union Coming(l) \union silent
  <2>1. ref = address /\ \A x : ~Brings(l, x)
    BY <1>1 DEF ViewInv, SocketOwn, NoFetch, Brings
  <2> QED BY <1>1, <2>1 DEF ViewInv, Covered, Has
<1>2. ViewInv => NoGap
  BY <1>1 DEF ViewInv, NoGap
<1> QED BY <1>2, ViewInvInvariant, PTL

=============================================================================
