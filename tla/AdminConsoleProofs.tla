-------------------------- MODULE AdminConsoleProofs --------------------------
(***************************************************************************)
(* Proofs about AdminConsole, for any kinds, items and settings, any       *)
(* number of requests under way at once and any number of clicks.          *)
(*                                                                         *)
(* Requests run side by side and share the page.  What the dialog says is  *)
(* true because at most one request belongs to it (OneDialog): as long as  *)
(* one does the dialog is busy, and neither the page behind it nor its own *)
(* buttons take a click.                                                   *)
(*                                                                         *)
(* What the page shows is what is saved because a request that has been    *)
(* alone all the time is the only one there is (AloneIs): what its load    *)
(* brought is still so (LoadIsFresh), and only the answer of a change, or  *)
(* the load that follows it, stands between the page and the server        *)
(* (Shown).  Settings sent from such a page bring the items along as they  *)
(* are saved (PutFaithful).                                                *)
(*                                                                         *)
(* The second part is about the tester on the same page (CodeTester), for  *)
(* any mails, projects, patterns and outputs of an API.  What an answer    *)
(* carries has passed the checks (Replies), so has what was applied (Asks),*)
(* and a request that is not late is about what the panel shows (Current). *)
(***************************************************************************)
EXTENDS AdminConsole, CodeTester, TLAPS

\* A slot without a request is blank, and a request has what its kind needs.
Fits(req) ==
    /\ IF req.pc = "idle" THEN req = Idle ELSE req.kind # None
    /\ req.then # None => req.kind = "load"
    /\ (req.kind = "load" /\ req.pc = "handled") => req.config \in Config
    /\ req.kind = "put" => req.config \in Config
    /\ req.kind = "save" => /\ req.target \in Ids \union Kinds /\ req.content \in Contents
                            /\ req.opened = req.target
    /\ req.kind = "delete" => req.target \in Ids

Sane == \A i \in 1..Slots : Fits(request[i]) /\ request[i].list \subseteq 1..next

\* An editor saves to what it was opened for.
EditorHonest == \A k \in Kinds : modal[k].opened = modal[k].target

\* The dialog waits for request i.
Awaited(i) == request[i].kind \in {"delete", "clear"} \/ request[i].then = "delete"

OneDialog == \A i, j \in 1..Slots : Awaited(i) /\ Awaited(j) => i = j

\* Who has been alone is.
AloneIs == \A i \in 1..Slots : request[i].alone => Active(request) = {i}

\* Without overlap there is one request at most, and a load among them is alone.
SureIsOne ==
    ~unsure => \A i \in Active(request) :
        /\ Active(request) = {i}
        /\ request[i].kind = "load" => request[i].alone

LoadIsFresh ==
    \A i \in 1..Slots :
        (request[i].kind = "load" /\ request[i].pc = "handled" /\ request[i].alone)
            => request[i].config = config

PutIsSaved ==
    ~unsure => \A i \in 1..Slots :
        (request[i].kind = "put" /\ request[i].pc = "handled") => request[i].config = config

\* Request i is to bring the page up to date.
Updates(i) ==
    \/ request[i].kind = "load"
    \/ request[i].kind \in {"save", "delete", "put"} /\ request[i].pc = "handled"

Shown == (~unsure /\ ready /\ \A i \in 1..Slots : ~Updates(i)) => loaded = config

PutFaithful ==
    \A i \in 1..Slots :
        (request[i].kind = "put" /\ request[i].pc = "sent" /\ request[i].sure /\ request[i].alone)
            => request[i].config.items = config.items

SafeInv == Sane /\ EditorHonest /\ OneDialog /\ DialogTellsTruth

ShowInv == AloneIs /\ SureIsOne /\ LoadIsFresh /\ PutIsSaved /\ Shown /\ PutFaithful

IInv == TypeOK /\ SafeInv /\ ShowInv

-----------------------------------------------------------------------------
(* What Begin does.                                                        *)

Starting(req, single) ==
    [req EXCEPT !.alone = single /\ req.kind \in {"load", "put"}, !.sure = ~unsure /\ req.kind = "put"]

NotAlone(req) == [req EXCEPT !.alone = FALSE]

LEMMA StartingTyped ==
  ASSUME NEW req \in Request, NEW single \in BOOLEAN
  PROVE  /\ Starting(req, single) \in Request
         /\ Starting(req, single).pc = req.pc /\ Starting(req, single).kind = req.kind
         /\ Starting(req, single).then = req.then /\ Starting(req, single).target = req.target
         /\ Starting(req, single).content = req.content
         /\ Starting(req, single).config = req.config /\ Starting(req, single).list = req.list
         /\ Starting(req, single).opened = req.opened
         /\ Starting(req, single).alone = (single /\ req.kind \in {"load", "put"})
         /\ Starting(req, single).sure = (~unsure /\ req.kind = "put")
<1>1. (single /\ req.kind \in {"load", "put"}) \in BOOLEAN /\ (~unsure /\ req.kind = "put") \in BOOLEAN
  OBVIOUS
<1> QED BY <1>1, ZenonT(30) DEF Starting, Request

LEMMA NotAloneTyped ==
  ASSUME NEW req \in Request
  PROVE  /\ NotAlone(req) \in Request
         /\ NotAlone(req).pc = req.pc /\ NotAlone(req).kind = req.kind
         /\ NotAlone(req).then = req.then /\ NotAlone(req).target = req.target
         /\ NotAlone(req).content = req.content /\ NotAlone(req).config = req.config
         /\ NotAlone(req).list = req.list /\ NotAlone(req).opened = req.opened
         /\ NotAlone(req).sure = req.sure /\ NotAlone(req).alone = FALSE
BY DEF NotAlone, Request

LEMMA IdleTyped ==
  /\ Idle \in Request /\ NotAlone(Idle) = Idle
  /\ Idle.pc = "idle" /\ Idle.kind = None /\ Idle.then = None /\ Idle.list = {} /\ Idle.alone = FALSE
<1>1. Idle \in Request
  BY DEF Idle, Request
<1>2. NotAlone(Idle) = Idle
  <2>1. \A req \in Request : req.alone = FALSE => [req EXCEPT !.alone = FALSE] = req
    BY DEF Request
  <2> QED BY <1>1, <2>1 DEF Idle, NotAlone
<1> QED BY <1>1, <1>2 DEF Idle

\* Nothing is sent.
LEMMA BeginNone ==
  ASSUME NEW reqs \in [1..Slots -> Request]
  PROVE  Begin(reqs, << >>) = reqs
<1>1. \A i \in 1..Slots : [reqs[i] EXCEPT !.alone = @ /\ << >> = << >>] = reqs[i]
  <2> SUFFICES ASSUME NEW i \in 1..Slots
               PROVE  [reqs[i] EXCEPT !.alone = reqs[i].alone /\ << >> = << >>] = reqs[i]
    OBVIOUS
  <2>1. reqs[i] \in Request /\ reqs[i].alone \in BOOLEAN
    BY DEF Request
  <2>2. (reqs[i].alone /\ << >> = << >>) = reqs[i].alone
    BY <2>1
  <2> QED BY <2>1, <2>2 DEF Request
<1>2. 1..Len(<< >>) = {}
  OBVIOUS
<1>3. \A i \in 1..Slots : Begin(reqs, << >>)[i] = reqs[i]
  BY <1>1, <1>2 DEF Begin
<1>4. Begin(reqs, << >>) = [i \in 1..Slots |-> Begin(reqs, << >>)[i]]
  BY DEF Begin
<1> QED BY <1>3, <1>4

\* The requests todo get a free slot each, and nothing else happens but that
\* no request is alone any more.
LEMMA BeginSome ==
  ASSUME NEW reqs \in [1..Slots -> Request], NEW todo \in Seq(Request), todo # << >>,
         Places(reqs, todo) # {}
  PROVE  \E new \in SUBSET Free(reqs) :
            /\ \A i \in new : \E k \in 1..Len(todo) :
                  Begin(reqs, todo)[i] = Starting(todo[k], Active(reqs) = {} /\ Len(todo) = 1)
            /\ \A i \in (1..Slots) \ new : Begin(reqs, todo)[i] = NotAlone(reqs[i])
            /\ new # {} /\ (Len(todo) = 1 => \E p \in new : new = {p})
            /\ Begin(reqs, todo) \in [1..Slots -> Request]
<1> DEFINE place == CHOOSE f \in Places(reqs, todo) : TRUE
           single == Active(reqs) = {} /\ Len(todo) = 1
           new == {i \in 1..Slots : \E k \in 1..Len(todo) : place[k] = i}
<1>1. place \in Places(reqs, todo)
  OBVIOUS
<1>2. \A k \in 1..Len(todo) : place[k] \in Free(reqs)
  BY <1>1 DEF Places, Injection
<1>3. Len(todo) \in Nat /\ Len(todo) # 0 /\ \A k \in 1..Len(todo) : todo[k] \in Request
  OBVIOUS
<1> HIDE DEF place
<1>4. new \subseteq Free(reqs) /\ Free(reqs) \subseteq 1..Slots
  BY <1>2 DEF Free
<1>5. new # {}
  <2>1. 1 \in 1..Len(todo)
    BY <1>3
  <2> QED BY <1>2, <1>4, <2>1
<1>6. Len(todo) = 1 => \E p \in new : new = {p}
  <2>1. 1..1 = {1}
    OBVIOUS
  <2>2. ASSUME Len(todo) = 1 PROVE place[1] \in new /\ new = {place[1]}
    BY <1>2, <1>4, <2>1, <2>2
  <2> QED BY <2>2
<1>7. ASSUME NEW i \in new
      PROVE  \E k \in 1..Len(todo) : Begin(reqs, todo)[i] = Starting(todo[k], single)
  <2> DEFINE k == CHOOSE k \in 1..Len(todo) : place[k] = i
  <2>1. k \in 1..Len(todo) /\ place[k] = i
    OBVIOUS
  <2>2. Begin(reqs, todo)[i] = Starting(todo[k], single)
    BY DEF Begin, Starting, place
  <2> QED BY <2>1, <2>2
<1>8. ASSUME NEW i \in (1..Slots) \ new
      PROVE  Begin(reqs, todo)[i] = NotAlone(reqs[i])
  <2>1. Begin(reqs, todo)[i] = [reqs[i] EXCEPT !.alone = reqs[i].alone /\ todo = << >>]
    BY DEF Begin, place
  <2>2. (reqs[i].alone /\ todo = << >>) = FALSE
    OBVIOUS
  <2> QED BY <2>1, <2>2 DEF NotAlone
<1>9. Begin(reqs, todo) \in [1..Slots -> Request]
  <2>1. single \in BOOLEAN
    OBVIOUS
  <2>2. \A k \in 1..Len(todo) : Starting(todo[k], single) \in Request
    BY <1>3, <2>1, StartingTyped
  <2>3. ASSUME NEW i \in 1..Slots PROVE Begin(reqs, todo)[i] \in Request
    <3>1. NotAlone(reqs[i]) \in Request
      BY NotAloneTyped
    <3> HIDE DEF new, single
    <3> QED BY <1>7, <1>8, <2>2, <3>1
  <2>4. Begin(reqs, todo) = [i \in 1..Slots |-> Begin(reqs, todo)[i]]
    BY DEF Begin
  <2> QED BY <2>3, <2>4
<1> HIDE DEF new, single
<1>10. single = (Active(reqs) = {} /\ Len(todo) = 1)
  BY DEF single
<1> QED BY <1>4, <1>5, <1>6, <1>7, <1>8, <1>9, <1>10

-----------------------------------------------------------------------------
(* Steps that send requests, and steps that answer them.                   *)

\* The slots freed are free, and the requests todo are sent from the slots new.
Sending(freed, todo, new) ==
    /\ new # {} /\ \A i \in new : i \in 1..Slots /\ (i \in freed \/ request[i].pc = "idle")
    /\ \A i \in new : \E k \in 1..Len(todo) :
          request'[i] = Starting(todo[k], Active(request) \ freed = {} /\ Len(todo) = 1)
    /\ \A i \in (1..Slots) \ new :
          request'[i] = IF i \in freed THEN Idle ELSE NotAlone(request[i])
    /\ Len(todo) = 1 => \E p \in new : new = {p}
    /\ request' \in [1..Slots -> Request]

LEMMA ClickSends ==
  ASSUME TypeOK, NEW todo \in Seq(Request), todo # << >>, Click(todo)
  PROVE  /\ \E new : Sending({}, todo, new)
         /\ clicks' \in 0..MaxClicks
         /\ unsure' = (unsure \/ Active(request) # {} \/ Len(todo) > 1)
<1>1. request \in [1..Slots -> Request] /\ request' = Begin(request, todo)
  BY DEF TypeOK, Click
<1>2. Places(request, todo) # {}
  BY DEF Click
<1>3. \A i \in Free(request) : i \in 1..Slots /\ request[i].pc = "idle"
  BY DEF Free, Active
<1>4. Active(request) \ {} = Active(request)
  OBVIOUS
<1>5. \E new : Sending({}, todo, new)
  <2>1. PICK new \in SUBSET Free(request) :
            /\ \A j \in new : \E k \in 1..Len(todo) :
                  Begin(request, todo)[j] = Starting(todo[k], Active(request) = {} /\ Len(todo) = 1)
            /\ \A j \in (1..Slots) \ new : Begin(request, todo)[j] = NotAlone(request[j])
            /\ new # {} /\ (Len(todo) = 1 => \E p \in new : new = {p})
            /\ Begin(request, todo) \in [1..Slots -> Request]
    BY <1>1, <1>2, BeginSome
  <2>2. Sending({}, todo, new)
    BY <1>1, <1>3, <1>4, <2>1 DEF Sending
  <2> QED BY <2>2
<1>6. clicks' \in 0..MaxClicks
  BY ConsoleAssumption DEF TypeOK, Click
<1> QED BY <1>5, <1>6 DEF Click

LEMMA FinishSends ==
  ASSUME TypeOK, NEW i \in 1..Slots, NEW q \in Request, Finish(i, <<q>>)
  PROVE  \E new : Sending({i}, <<q>>, new)
<1> DEFINE reqs == [request EXCEPT ![i] = Idle]
<1>1. reqs \in [1..Slots -> Request] /\ request' = Begin(reqs, <<q>>)
  BY IdleTyped DEF TypeOK, Finish
<1>2. reqs[i] = Idle /\ \A j \in 1..Slots : j # i => reqs[j] = request[j]
  BY DEF TypeOK
<1> HIDE DEF reqs
<1>3. Active(reqs) = Active(request) \ {i}
  BY <1>2, IdleTyped DEF Active
<1>4. \A j \in Free(reqs) : j \in 1..Slots /\ (j \in {i} \/ request[j].pc = "idle")
  BY <1>3 DEF Free, Active
<1>5. Places(reqs, <<q>>) # {}
  <2>1. i \in Free(reqs)
    BY <1>3 DEF Free
  <2>2. Len(<<q>>) = 1 /\ 1..1 = {1}
    OBVIOUS
  <2>3. [k \in 1..1 |-> i] \in Places(reqs, <<q>>)
    BY <2>1, <2>2 DEF Places, Injection, IsInjective
  <2> QED BY <2>3
<1>6. <<q>> \in Seq(Request) /\ <<q>> # << >>
  OBVIOUS
<1>7. \A j \in 1..Slots : NotAlone(reqs[j]) = IF j \in {i} THEN Idle ELSE NotAlone(request[j])
  BY <1>2, IdleTyped
<1>8. \E new : Sending({i}, <<q>>, new)
  <2>1. PICK new \in SUBSET Free(reqs) :
            /\ \A j \in new : \E k \in 1..Len(<<q>>) :
                  Begin(reqs, <<q>>)[j] = Starting(<<q>>[k], Active(reqs) = {} /\ Len(<<q>>) = 1)
            /\ \A j \in (1..Slots) \ new : Begin(reqs, <<q>>)[j] = NotAlone(reqs[j])
            /\ new # {} /\ (Len(<<q>>) = 1 => \E p \in new : new = {p})
            /\ Begin(reqs, <<q>>) \in [1..Slots -> Request]
    BY <1>1, <1>5, <1>6, BeginSome
  <2>2. Sending({i}, <<q>>, new)
    BY <1>1, <1>3, <1>4, <1>7, <2>1 DEF Sending
  <2> QED BY <2>2
<1> QED BY <1>8

LEMMA FinishEnds ==
  ASSUME TypeOK, NEW i \in 1..Slots, Finish(i, << >>)
  PROVE  request' = [request EXCEPT ![i] = Idle]
<1>1. [request EXCEPT ![i] = Idle] \in [1..Slots -> Request]
  BY IdleTyped DEF TypeOK
<1> QED BY <1>1, BeginNone DEF Finish

-----------------------------------------------------------------------------
(* The requests that are sent.                                             *)

\* A request as it is sent.
Ready(req) == /\ req \in Request /\ req.pc = "sent" /\ Fits(req) /\ req.list = {}
              /\ req.alone = FALSE

LEMMA SentReady ==
  /\ \A kind \in {"events", "login", "clear"} :
        Ready(Sent(kind)) /\ Sent(kind).kind = kind /\ Sent(kind).then = None
  /\ \A then \in {"refresh", "reload", "save", "delete", "login"} :
        Ready(Load(then)) /\ Load(then).kind = "load" /\ Load(then).then = then
<1>1. ASSUME NEW kind \in {"events", "login", "clear"}
      PROVE  Ready(Sent(kind)) /\ Sent(kind).kind = kind /\ Sent(kind).then = None
  <2>1. /\ Sent(kind).pc = "sent" /\ Sent(kind).kind = kind /\ Sent(kind).then = None
        /\ Sent(kind).list = {} /\ Sent(kind).alone = FALSE /\ kind # None
    BY ConsoleAssumption DEF Sent, Idle
  <2>2. Sent(kind) \in Request
    BY DEF Sent, Idle, Request
  <2> QED BY <2>1, <2>2 DEF Ready, Fits
<1>2. ASSUME NEW then \in {"refresh", "reload", "save", "delete", "login"}
      PROVE  Ready(Load(then)) /\ Load(then).kind = "load" /\ Load(then).then = then
  <2>1. /\ Load(then).pc = "sent" /\ Load(then).kind = "load" /\ Load(then).then = then
        /\ Load(then).list = {} /\ Load(then).alone = FALSE /\ "load" # None
    BY ConsoleAssumption DEF Load, Sent, Idle
  <2>2. Load(then) \in Request
    BY DEF Load, Sent, Idle, Request
  <2> QED BY <2>1, <2>2 DEF Ready, Fits
<1> QED BY <1>1, <1>2

LEMMA PutReady ==
  ASSUME NEW cfg \in Config
  PROVE  LET q == [Sent("put") EXCEPT !.config = cfg]
         IN  Ready(q) /\ q.kind = "put" /\ q.then = None /\ q.config = cfg
<1> DEFINE q == [Sent("put") EXCEPT !.config = cfg]
<1>1. /\ q.pc = "sent" /\ q.kind = "put" /\ q.then = None /\ q.config = cfg
      /\ q.list = {} /\ q.alone = FALSE /\ "put" # None
  BY ConsoleAssumption DEF Sent, Idle
<1>2. q \in Request
  BY DEF Sent, Idle, Request
<1> QED BY <1>1, <1>2 DEF Ready, Fits

LEMMA SaveReady ==
  ASSUME NEW target \in Ids \union Kinds, NEW content \in Contents
  PROVE  LET q == [Sent("save") EXCEPT !.target = target, !.content = content, !.opened = target]
         IN  Ready(q) /\ q.kind = "save" /\ q.then = None
<1> DEFINE q == [Sent("save") EXCEPT !.target = target, !.content = content, !.opened = target]
<1>1. /\ q.pc = "sent" /\ q.kind = "save" /\ q.then = None /\ q.target = target
      /\ q.content = content /\ q.opened = target
      /\ q.list = {} /\ q.alone = FALSE /\ "save" # None
  BY ConsoleAssumption DEF Sent, Idle
<1>2. q \in Request
  BY DEF Sent, Idle, Request
<1> QED BY <1>1, <1>2 DEF Ready, Fits

LEMMA DeleteReady ==
  ASSUME NEW target \in Ids
  PROVE  LET q == [Sent("delete") EXCEPT !.target = target]
         IN  Ready(q) /\ q.kind = "delete" /\ q.then = None /\ q.target = target
<1> DEFINE q == [Sent("delete") EXCEPT !.target = target]
<1>1. /\ q.pc = "sent" /\ q.kind = "delete" /\ q.then = None /\ q.target = target
      /\ q.list = {} /\ q.alone = FALSE /\ "delete" # None
  BY ConsoleAssumption DEF Sent, Idle
<1>2. q \in Request
  BY DEF Sent, Idle, Request
<1> QED BY <1>1, <1>2 DEF Ready, Fits

LEMMA FitsStays ==
  ASSUME NEW req \in Request, Fits(req)
  PROVE  /\ Fits(NotAlone(req))
         /\ req.pc # "idle" => \A single \in BOOLEAN : Fits(Starting(req, single))
<1>1. Fits(NotAlone(req))
  BY NotAloneTyped, IdleTyped DEF Fits
<1>2. ASSUME NEW single \in BOOLEAN, req.pc # "idle" PROVE Fits(Starting(req, single))
  BY <1>2, StartingTyped DEF Fits
<1> QED BY <1>1, <1>2

\* A request is sent as it was written, and the others stay what they are.
LEMMA SendingSane ==
  ASSUME TypeOK, Sane, NEW freed, NEW todo \in Seq(Request), NEW new, Sending(freed, todo, new),
         \A k \in 1..Len(todo) : Ready(todo[k]), next' = next
  PROVE  Sane'
<1>1. (Active(request) \ freed = {} /\ Len(todo) = 1) \in BOOLEAN
  OBVIOUS
<1>2. ASSUME NEW i \in new PROVE Fits(request'[i]) /\ request'[i].list \subseteq 1..next'
  <2>1. PICK k \in 1..Len(todo) :
           request'[i] = Starting(todo[k], Active(request) \ freed = {} /\ Len(todo) = 1)
    BY DEF Sending
  <2>2. todo[k] \in Request /\ Fits(todo[k]) /\ todo[k].pc = "sent" /\ todo[k].list = {}
    BY <2>1 DEF Ready
  <2>3. \A single \in BOOLEAN :
           Fits(Starting(todo[k], single)) /\ Starting(todo[k], single).list = {}
    BY <2>2, FitsStays, StartingTyped
  <2> QED BY <1>1, <2>1, <2>3
<1>3. ASSUME NEW i \in (1..Slots) \ new
      PROVE Fits(request'[i]) /\ request'[i].list \subseteq 1..next'
  <2>1. Fits(Idle) /\ Idle.list = {}
    BY ConsoleAssumption, IdleTyped DEF Fits
  <2>2. request[i] \in Request /\ Fits(request[i]) /\ request[i].list \subseteq 1..next
    BY DEF TypeOK, Sane
  <2>3. request'[i] = IF i \in freed THEN Idle ELSE NotAlone(request[i])
    BY DEF Sending
  <2>4. Fits(NotAlone(request[i])) /\ NotAlone(request[i]).list = request[i].list
    BY <2>2, FitsStays, NotAloneTyped
  <2>5. CASE i \in freed
    BY <2>1, <2>3, <2>5
  <2>6. CASE i \notin freed
    BY <2>2, <2>3, <2>4, <2>6
  <2> QED BY <2>5, <2>6
<1> QED BY <1>2, <1>3 DEF Sane

\* Once a click has sent its requests.
LEMMA ClickTyped ==
  ASSUME TypeOK, NEW todo \in Seq(Request), todo # << >>, Click(todo)
  PROVE  request' \in [1..Slots -> Request] /\ clicks' \in 0..MaxClicks /\ unsure' \in BOOLEAN
<1>1. PICK new : Sending({}, todo, new)
  BY ClickSends
<1>2. unsure' = (unsure \/ Active(request) # {} \/ Len(todo) > 1)
  BY ClickSends
<1>3. unsure' \in BOOLEAN
  BY <1>2
<1> QED BY <1>1, <1>3, ClickSends DEF Sending

-----------------------------------------------------------------------------
(* Every variable keeps its type.                                          *)

LEMMA StartTyped == Init => TypeOK
<1> SUFFICES ASSUME Init PROVE TypeOK
  OBVIOUS
<1>1. config \in Config /\ used \subseteq Ids /\ next \in 0..MaxEvents /\ log \subseteq 1..next
  BY ConsoleAssumption DEF Init
<1>2. modal \in [Kinds -> [visible : BOOLEAN, target : Ids \union Kinds,
                           draft : Contents, opened : Ids \union Kinds]]
  <2>1. \A k \in Kinds : Closed(k) \in [visible : BOOLEAN, target : Ids \union Kinds,
                                        draft : Contents, opened : Ids \union Kinds]
    BY ConsoleAssumption DEF Closed
  <2> QED BY <2>1 DEF Init
<1>3. request \in [1..Slots -> Request]
  <2>1. Load("refresh") \in Request
    BY SentReady DEF Ready
  <2>2. [Load("refresh") EXCEPT !.alone = TRUE] \in Request
    BY <2>1 DEF Request
  <2> QED BY <2>2, IdleTyped DEF Init
<1>4. clicks \in 0..MaxClicks
  BY ConsoleAssumption DEF Init
<1> QED BY <1>1, <1>2, <1>3, <1>4 DEF Init, TypeOK, Pages

\* A click leaves the server and what is shown as they are.
LEMMA ClickStepTyped ==
  ASSUME TypeOK, NEW todo \in Seq(Request), todo # << >>, Click(todo),
         page' \in Pages, busy' \subseteq {"confirm", "admin", "debug"},
         UNCHANGED <<serverVars, ready, viewVars, dialogVars>>
  PROVE  TypeOK'
<1>1. request' \in [1..Slots -> Request] /\ clicks' \in 0..MaxClicks /\ unsure' \in BOOLEAN
  BY ClickTyped
<1>2. Request' = Request
  BY DEF Request, Config, Contents, Items
<1> QED BY <1>1, <1>2 DEF TypeOK, serverVars, viewVars, dialogVars

LEMMA ClicksTyped ==
  ASSUME TypeOK,
         \/ \E p \in Pages : Navigate(p) /\ p = "deliveryDebug"
         \/ Login \/ Refresh \/ Reload \/ ReloadDebug
  PROVE  TypeOK'
<1>1. /\ <<Sent("events")>> \in Seq(Request) /\ <<Sent("login")>> \in Seq(Request)
      /\ <<Load("refresh")>> \in Seq(Request) /\ <<Load("reload")>> \in Seq(Request)
      /\ <<Load("refresh"), Sent("events")>> \in Seq(Request)
  BY SentReady DEF Ready
<1>2. "deliveryDebug" \in Pages
  BY DEF Pages, AdminPages
<1>3. page \in Pages /\ busy \subseteq {"confirm", "admin", "debug"}
  BY DEF TypeOK
<1>4. ASSUME NEW p \in Pages, Navigate(p), p = "deliveryDebug" PROVE TypeOK'
  BY <1>1, <1>2, <1>3, <1>4, ClickStepTyped DEF Navigate
<1>5. ASSUME Login PROVE TypeOK'
  BY <1>1, <1>3, <1>5, ClickStepTyped DEF Login
<1>6. ASSUME Refresh PROVE TypeOK'
  <2>1. CASE page = "deliveryDebug"
    BY <1>1, <1>3, <1>6, <2>1, ClickStepTyped DEF Refresh
  <2>2. CASE page # "deliveryDebug"
    BY <1>1, <1>3, <1>6, <2>2, ClickStepTyped DEF Refresh
  <2> QED BY <2>1, <2>2
<1>7. ASSUME Reload PROVE TypeOK'
  BY <1>1, <1>3, <1>7, ClickStepTyped DEF Reload
<1>8. ASSUME ReloadDebug PROVE TypeOK'
  BY <1>1, <1>3, <1>8, ClickStepTyped DEF ReloadDebug
<1> QED BY <1>4, <1>5, <1>6, <1>7, <1>8

\* What the page sends off is what it shows.
LEMMA PutTyped ==
  ASSUME TypeOK, On({"settings"})
  PROVE  ready /\ [items |-> loaded.items, settings |-> form] \in Config
<1>1. ready
  BY DEF On, LoginScreen, AdminPages
<1>2. loaded \in Config /\ form \in Settings
  BY <1>1 DEF TypeOK
<1> QED BY <1>1, <1>2 DEF Config

LEMMA ConfirmNames ==
  ASSUME TypeOK, confirm # None
  PROVE  confirm = "log" \/ confirm \in Ids
BY DEF TypeOK

LEMMA ChangesTyped ==
  ASSUME TypeOK, EditorHonest, SaveSettings \/ (\E k \in Kinds : Save(k)) \/ Confirm
  PROVE  TypeOK'
<1>1. page \in Pages /\ busy \subseteq {"confirm", "admin", "debug"}
  BY DEF TypeOK
<1>2. ASSUME SaveSettings PROVE TypeOK'
  <2> DEFINE cfg == [items |-> loaded.items, settings |-> form]
             q == [Sent("put") EXCEPT !.config = cfg]
  <2>1. q \in Request
    BY <1>2, PutTyped, PutReady DEF SaveSettings, Ready
  <2>2. Click(<<q>>)
    BY <1>2 DEF SaveSettings
  <2> HIDE DEF q
  <2>3. <<q>> \in Seq(Request) /\ <<q>> # << >>
    BY <2>1
  <2> QED BY <1>1, <1>2, <2>2, <2>3, ClickStepTyped DEF SaveSettings
<1>3. ASSUME NEW k \in Kinds, Save(k) PROVE TypeOK'
  <2> DEFINE q == [Sent("save") EXCEPT !.target = modal[k].target, !.content = modal[k].draft,
                                       !.opened = modal[k].opened]
  <2>1. /\ modal[k].target \in Ids \union Kinds /\ modal[k].draft \in Contents
        /\ modal[k].opened = modal[k].target
    BY DEF TypeOK, EditorHonest
  <2>2. q \in Request
    BY <2>1, SaveReady DEF Ready
  <2>3. Click(<<q>>)
    BY <1>3 DEF Save
  <2> HIDE DEF q
  <2>4. <<q>> \in Seq(Request) /\ <<q>> # << >>
    BY <2>2
  <2> QED BY <1>1, <1>3, <2>3, <2>4, ClickStepTyped DEF Save
<1>4. ASSUME Confirm PROVE TypeOK'
  <2> DEFINE q == IF confirm = "log" THEN Sent("clear")
                  ELSE [Sent("delete") EXCEPT !.target = confirm]
  <2>1. q \in Request
    BY <1>4, ConfirmNames, SentReady, DeleteReady DEF Confirm, Ready
  <2>2. Click(<<q>>)
    BY <1>4 DEF Confirm
  <2> HIDE DEF q
  <2>3. <<q>> \in Seq(Request) /\ <<q>> # << >>
    BY <2>1
  <2> QED BY <1>1, <1>4, <2>2, <2>3, ClickStepTyped DEF Confirm
<1> QED BY <1>2, <1>3, <1>4

\* The clicks that send nothing.
Quiet ==
    \/ \E p \in Pages : Navigate(p) /\ p # "deliveryDebug"
    \/ Back \/ \E x \in Settings : EditSettings(x)
    \/ \E k \in Kinds : OpenModal(k) \/ OpenTemplate(k) \/ Cancel(k)
    \/ \E k \in Kinds, content \in Typed : Type(k, content)
    \/ \E what \in Ids \union {"log"} : Ask(what)
    \/ CancelConfirm \/ Record

LEMMA EditTyped ==
  ASSUME TypeOK, NEW k \in Kinds, NEW editor, Edit(k, editor),
         editor \in [visible : BOOLEAN, target : Ids \union Kinds,
                     draft : Contents, opened : Ids \union Kinds]
  PROVE  TypeOK'
BY DEF TypeOK, Edit, serverVars, viewVars, netVars

LEMMA QuietTyped == TypeOK /\ Quiet => TypeOK'
<1> SUFFICES ASSUME TypeOK, Quiet PROVE TypeOK'
  OBVIOUS
<1> DEFINE Editor == [visible : BOOLEAN, target : Ids \union Kinds,
                      draft : Contents, opened : Ids \union Kinds]
<1>1. ASSUME NEW p \in Pages, Navigate(p), p # "deliveryDebug" PROVE TypeOK'
  BY <1>1 DEF TypeOK, Navigate, serverVars, viewVars, dialogVars, netVars
<1>2. ASSUME Back PROVE TypeOK'
  BY <1>2 DEF TypeOK, Back, Pages, serverVars, viewVars, dialogVars, netVars
<1>3. ASSUME NEW x \in Settings, EditSettings(x) PROVE TypeOK'
  BY <1>3, ConsoleAssumption DEF TypeOK, EditSettings, serverVars, dialogVars, netVars
<1>4. ASSUME NEW k \in Kinds, OpenModal(k) PROVE TypeOK'
  <2>1. Blank[k] \in Contents
    BY ConsoleAssumption
  <2>2. ASSUME Edit(k, [visible |-> TRUE, target |-> k, draft |-> Blank[k], opened |-> k])
        PROVE  TypeOK'
    BY <2>1, <2>2, EditTyped
  <2>3. ASSUME NEW x \in Ids, loaded.items[x] # None,
               Edit(k, [visible |-> TRUE, target |-> x, draft |-> loaded.items[x], opened |-> x])
        PROVE  TypeOK'
    <3>1. ready
      BY <1>4, ConsoleAssumption DEF OpenModal, On, LoginScreen, AdminPages
    <3>2. loaded.items[x] \in Contents
      BY <2>3, <3>1 DEF TypeOK, Config, Items
    <3> QED BY <2>3, <3>2, EditTyped
  <2> QED BY <1>4, <2>2, <2>3 DEF OpenModal
<1>5. ASSUME NEW k \in Kinds, OpenTemplate(k) PROVE TypeOK'
  <2>1. Template \in Contents
    BY DEF Contents
  <2> QED BY <1>5, <2>1, EditTyped DEF OpenTemplate
<1>6. ASSUME NEW k \in Kinds, Cancel(k) PROVE TypeOK'
  <2>1. modal[k] \in Editor
    BY DEF TypeOK
  <2>2. [modal[k] EXCEPT !.visible = FALSE] \in Editor
    BY <2>1
  <2> QED BY <1>6, <2>2, EditTyped DEF Cancel
<1>7. ASSUME NEW k \in Kinds, NEW content \in Typed, Type(k, content) PROVE TypeOK'
  <2>1. [modal[k] EXCEPT !.draft = content] \in Editor
    BY DEF TypeOK, Contents
  <2> QED BY <1>7, <2>1, EditTyped DEF Type
<1>8. ASSUME NEW what \in Ids \union {"log"}, Ask(what) PROVE TypeOK'
  BY <1>8 DEF TypeOK, Ask, serverVars, viewVars, netVars
<1>9. ASSUME CancelConfirm PROVE TypeOK'
  BY <1>9 DEF TypeOK, CancelConfirm, serverVars, viewVars, netVars
<1>10. ASSUME Record PROVE TypeOK'
  <2>1. next' \in 0..MaxEvents /\ log' \subseteq 1..next' /\ events' \subseteq 1..next'
    BY <1>10, ConsoleAssumption DEF TypeOK, Record, viewVars
  <2> QED BY <1>10, <2>1 DEF TypeOK, Record, viewVars, dialogVars, netVars
<1> QED BY <1>1, <1>2, <1>3, <1>4, <1>5, <1>6, <1>7, <1>8, <1>9, <1>10 DEF Quiet

\* The server answers request i, and nothing else happens to the requests.
Answering(i) ==
    \E r \in Request :
        /\ request[i].pc = "sent" /\ request' = [request EXCEPT ![i] = r]
        /\ r.pc = "handled" /\ r.kind = request[i].kind /\ r.then = request[i].then
        /\ r.target = request[i].target /\ r.content = request[i].content
        /\ r.opened = request[i].opened /\ r.alone = request[i].alone
        /\ r.sure = request[i].sure
        /\ r.kind = "load" => r.config = config
        /\ r.kind # "load" => r.config = request[i].config
        /\ r.list \in {request[i].list, log}

LEMMA AnsweringPlain ==
  ASSUME TypeOK, NEW i \in 1..Slots, request[i].pc = "sent", request[i].kind # "load",
         Answer(i, request[i])
  PROVE  Answering(i)
<1> DEFINE r == [request[i] EXCEPT !.pc = "handled"]
<1>1. request[i] \in Request
  BY DEF TypeOK
<1>2. /\ r \in Request /\ r.pc = "handled" /\ r.kind = request[i].kind
      /\ r.then = request[i].then /\ r.target = request[i].target
      /\ r.content = request[i].content /\ r.opened = request[i].opened
      /\ r.alone = request[i].alone /\ r.sure = request[i].sure
      /\ r.config = request[i].config /\ r.list = request[i].list
  BY <1>1 DEF Request
<1>3. request' = [request EXCEPT ![i] = r]
  BY DEF Answer
<1> HIDE DEF r
<1> QED BY <1>2, <1>3 DEF Answering

LEMMA AnsweringLoad ==
  ASSUME TypeOK, NEW i \in 1..Slots, request[i].pc = "sent", request[i].kind = "load",
         Answer(i, [request[i] EXCEPT !.config = config])
  PROVE  Answering(i)
<1> DEFINE r == [[request[i] EXCEPT !.config = config] EXCEPT !.pc = "handled"]
<1>1. request[i] \in Request /\ config \in Config
  BY DEF TypeOK
<1>2. /\ r \in Request /\ r.pc = "handled" /\ r.kind = request[i].kind
      /\ r.then = request[i].then /\ r.target = request[i].target
      /\ r.content = request[i].content /\ r.opened = request[i].opened
      /\ r.alone = request[i].alone /\ r.sure = request[i].sure
      /\ r.config = config /\ r.list = request[i].list
  BY <1>1 DEF Request
<1>3. request' = [request EXCEPT ![i] = r]
  BY DEF Answer
<1> HIDE DEF r
<1> QED BY <1>2, <1>3 DEF Answering

LEMMA AnsweringEvents ==
  ASSUME TypeOK, NEW i \in 1..Slots, request[i].pc = "sent", request[i].kind = "events",
         Answer(i, [request[i] EXCEPT !.list = log])
  PROVE  Answering(i)
<1> DEFINE r == [[request[i] EXCEPT !.list = log] EXCEPT !.pc = "handled"]
<1>1. request[i] \in Request
  BY DEF TypeOK
<1>2. log \in SUBSET (1..MaxEvents)
  BY ConsoleAssumption DEF TypeOK
<1>3. /\ r \in Request /\ r.pc = "handled" /\ r.kind = request[i].kind
      /\ r.then = request[i].then /\ r.target = request[i].target
      /\ r.content = request[i].content /\ r.opened = request[i].opened
      /\ r.alone = request[i].alone /\ r.sure = request[i].sure
      /\ r.config = request[i].config /\ r.list = log
  BY <1>1, <1>2 DEF Request
<1>4. request' = [request EXCEPT ![i] = r]
  BY DEF Answer
<1> HIDE DEF r
<1> QED BY <1>3, <1>4 DEF Answering

LEMMA HandleAnswers ==
  ASSUME TypeOK, NEW i \in 1..Slots, Handle(i)
  PROVE  Answering(i)
<1>1. request[i].pc = "sent"
  BY DEF Handle
<1>2. CASE HandleSave(i) \/ HandleDelete(i) \/ HandlePut(i)
  <2>1. Answer(i, request[i]) /\ request[i].kind # "load"
    BY <1>2 DEF HandleSave, HandleDelete, HandlePut
  <2> QED BY <1>1, <2>1, AnsweringPlain
<1>3. CASE HandleRest(i)
  BY <1>1, <1>3, AnsweringPlain, AnsweringLoad, AnsweringEvents DEF HandleRest
<1> QED BY <1>2, <1>3 DEF Handle

\* A handler changes one item, or puts in a configuration that was sent.
LEMMA ChangedTyped ==
  ASSUME config \in Config, NEW x \in Ids, NEW content \in Contents \union {None},
         Changed(x, content)
  PROVE  /\ config' \in Config /\ config'.items[x] = content
         /\ \A y \in Ids \ {x} : config'.items[y] = config.items[y]
<1>1. config.items \in [Ids -> Contents \union {None}]
  BY DEF Config, Items
<1>2. [config.items EXCEPT ![x] = content] \in Items
  BY <1>1 DEF Items
<1>3. config' = [config EXCEPT !.items = [config.items EXCEPT ![x] = content]]
  BY DEF Changed
<1>4. config' \in Config /\ config'.items = [config.items EXCEPT ![x] = content]
  BY <1>2, <1>3 DEF Config
<1> QED BY <1>1, <1>4

\* A save goes to what the editor had been opened for.
LEMMA SaveChanges ==
  ASSUME TypeOK, Sane, NEW i \in 1..Slots, HandleSave(i)
  PROVE  /\ config' \in Config /\ used' \subseteq Ids /\ UNCHANGED log
         /\ \E x \in Ids :
               /\ config'.items[x] = request[i].content
               /\ \A y \in Ids \ {x} : config'.items[y] = config.items[y]
               /\ \/ request[i].opened = x
                  \/ request[i].opened = KindOf[x] /\ x \notin used
<1> DEFINE req == request[i]
<1>1. /\ req.target \in Ids \union Kinds /\ req.content \in Contents /\ req.opened = req.target
      /\ req.kind = "save"
  BY DEF Sane, Fits, HandleSave
<1>2. config \in Config /\ used \subseteq Ids
  BY DEF TypeOK
<1>3. ASSUME req.target \in Kinds
      PROVE  \E x \in Ids \ used : KindOf[x] = req.target /\ Changed(x, req.content)
                                   /\ used' = used \union {x}
  <2> DEFINE x == CHOOSE x \in Ids \ used : KindOf[x] = req.target
  <2>1. \E y \in Ids \ used : KindOf[y] = req.target
    BY <1>3 DEF HandleSave
  <2>2. x \in Ids \ used /\ KindOf[x] = req.target
    BY <2>1
  <2>3. Changed(x, req.content) /\ used' = used \union {x}
    BY <1>3 DEF HandleSave
  <2> HIDE DEF x
  <2> QED BY <2>2, <2>3
<1>4. CASE req.target \in Kinds
  <2>1. PICK x \in Ids \ used : KindOf[x] = req.target /\ Changed(x, req.content)
                                /\ used' = used \union {x}
    BY <1>3, <1>4
  <2>2. /\ config' \in Config /\ config'.items[x] = req.content
        /\ \A y \in Ids \ {x} : config'.items[y] = config.items[y]
    BY <1>1, <1>2, <2>1, ChangedTyped
  <2> QED BY <1>1, <1>2, <2>1, <2>2 DEF HandleSave
<1>5. CASE req.target \notin Kinds
  <2>1. req.target \in Ids /\ Changed(req.target, req.content) /\ UNCHANGED used
    BY <1>1, <1>5 DEF HandleSave
  <2>2. /\ config' \in Config /\ config'.items[req.target] = req.content
        /\ \A y \in Ids \ {req.target} : config'.items[y] = config.items[y]
    BY <1>1, <1>2, <2>1, ChangedTyped
  <2> QED BY <1>1, <1>2, <2>1, <2>2 DEF HandleSave
<1> QED BY <1>4, <1>5

\* A deletion takes its target.
LEMMA DeleteChanges ==
  ASSUME TypeOK, Sane, NEW i \in 1..Slots, HandleDelete(i)
  PROVE  /\ config' \in Config /\ used' \subseteq Ids /\ UNCHANGED log
         /\ request[i].target \in Ids /\ config'.items[request[i].target] = None
         /\ \A y \in Ids \ {request[i].target} : config'.items[y] = config.items[y]
<1>1. request[i].target \in Ids
  BY DEF Sane, Fits, HandleDelete
<1>2. config \in Config /\ used \subseteq Ids
  BY DEF TypeOK
<1>3. Changed(request[i].target, None) /\ UNCHANGED <<used, log>>
  BY DEF HandleDelete
<1> QED BY <1>1, <1>2, <1>3, ChangedTyped

LEMMA HandleTyped ==
  ASSUME TypeOK, Sane, NEW i \in 1..Slots, Handle(i)
  PROVE  TypeOK'
<1>1. config' \in Config /\ used' \subseteq Ids /\ log' \subseteq log
  <2>1. CASE HandleSave(i)
    BY <2>1, SaveChanges
  <2>2. CASE HandleDelete(i)
    BY <2>2, DeleteChanges
  <2>3. CASE HandlePut(i)
    BY <2>3 DEF HandlePut, Sane, Fits, TypeOK
  <2>4. CASE HandleRest(i)
    BY <2>4 DEF HandleRest, TypeOK
  <2> QED BY <2>1, <2>2, <2>3, <2>4 DEF Handle
<1>2. request' \in [1..Slots -> Request]
  BY HandleAnswers DEF Answering, TypeOK
<1>3. UNCHANGED <<next, page, ready, viewVars, dialogVars, busy, clicks, unsure>>
  BY DEF Handle, HandleSave, HandleDelete, HandlePut, HandleRest, Answer
<1> QED BY <1>1, <1>2, <1>3 DEF TypeOK, viewVars, dialogVars

\* Where a request goes on with another one.
LEMMA GoesOnTyped ==
  ASSUME TypeOK, NEW i \in 1..Slots, NEW q, Ready(q), Finish(i, <<q>>)
  PROVE  request' \in [1..Slots -> Request]
<1>1. PICK new : Sending({i}, <<q>>, new)
  BY FinishSends DEF Ready
<1> QED BY <1>1 DEF Sending

LEMMA EndsTyped ==
  ASSUME TypeOK, NEW i \in 1..Slots, Finish(i, << >>)
  PROVE  request' \in [1..Slots -> Request]
BY FinishEnds, IdleTyped DEF TypeOK

LEMMA ArriveTyped ==
  ASSUME TypeOK, Sane, NEW i \in 1..Slots, Arrive(i)
  PROVE  TypeOK'
<1>1. \A k \in Kinds : Closed(k) \in [visible : BOOLEAN, target : Ids \union Kinds,
                                      draft : Contents, opened : Ids \union Kinds]
  BY ConsoleAssumption DEF Closed
<1>2. ASSUME Saved(i) PROVE TypeOK'
  <2> DEFINE target == request[i].target
             k == IF target \in Kinds THEN target ELSE KindOf[target]
  <2>1. k \in Kinds
    BY <1>2, ConsoleAssumption DEF Sane, Fits, Saved
  <2>2. modal' = [modal EXCEPT ![k] = Closed(k)]
    BY <1>2 DEF Saved
  <2> HIDE DEF k
  <2>3. modal' \in [Kinds -> [visible : BOOLEAN, target : Ids \union Kinds,
                              draft : Contents, opened : Ids \union Kinds]]
    BY <1>1, <2>1, <2>2 DEF TypeOK
  <2>4. Finish(i, <<Load("save")>>)
    BY <1>2 DEF Saved, Finish
  <2>5. request' \in [1..Slots -> Request]
    BY <2>4, GoesOnTyped, SentReady
  <2>6. unsure' \in BOOLEAN /\ busy' \subseteq {"confirm", "admin", "debug"}
    BY <1>2 DEF Saved, TypeOK
  <2> QED BY <1>2, <2>3, <2>5, <2>6 DEF Saved, TypeOK, serverVars, viewVars
<1>3. ASSUME GoOn(i) PROVE TypeOK'
  <2>1. request[i].kind \in {"save", "delete", "login"} /\ Finish(i, <<Load(request[i].kind)>>)
    BY <1>3 DEF GoOn
  <2>2. request' \in [1..Slots -> Request]
    BY <2>1, GoesOnTyped, SentReady
  <2>3. unsure' \in BOOLEAN /\ busy' \subseteq {"confirm", "admin", "debug"}
    BY <1>3 DEF GoOn, TypeOK
  <2> QED BY <1>3, <2>2, <2>3 DEF GoOn, TypeOK, Finish, serverVars, viewVars, dialogVars
<1>4. ASSUME Loaded(i) PROVE TypeOK'
  <2>1. Finish(i, <<Sent("events")>>) \/ Finish(i, << >>)
    BY <1>4 DEF Loaded
  <2>2. request' \in [1..Slots -> Request]
    BY <2>1, GoesOnTyped, EndsTyped, SentReady
  <2>3. loaded' \in Config /\ form' \in Settings
    BY <1>4 DEF Loaded, Sane, Fits, DraftFrom, Config
  <2>4. loaded' # None /\ form' # None
    BY <2>3, ConsoleAssumption
  <2>5. unsure' \in BOOLEAN
    BY <1>4 DEF Loaded, TypeOK
  <2>6. busy' \subseteq {"confirm", "admin", "debug"} /\ page' \in Pages
    BY <1>4 DEF Loaded, Unbusy, TypeOK, Pages, AdminPages
  <2>7. confirm' \in Ids \union {"log", None} /\ ready' = TRUE
    BY <1>4 DEF Loaded, TypeOK
  <2>8. UNCHANGED <<serverVars, clicks, events, modal>>
    BY <1>4, <2>1 DEF Loaded, Finish
  <2> QED BY <2>2, <2>3, <2>4, <2>5, <2>6, <2>7, <2>8 DEF TypeOK, serverVars
<1>5. ASSUME SettingsSaved(i) PROVE TypeOK'
  <2>1. request' \in [1..Slots -> Request]
    BY <1>5, EndsTyped DEF SettingsSaved
  <2>2. loaded' \in Config /\ form' \in Settings
    BY <1>5 DEF SettingsSaved, Sane, Fits, DraftFrom, Config
  <2>3. loaded' # None /\ form' # None
    BY <2>2, ConsoleAssumption
  <2> QED BY <1>5, <2>1, <2>2, <2>3 DEF SettingsSaved, TypeOK, Finish, serverVars, dialogVars
<1>6. ASSUME Cleared(i) PROVE TypeOK'
  <2>1. request' \in [1..Slots -> Request]
    BY <1>6, EndsTyped DEF Cleared
  <2> QED BY <1>6, <2>1 DEF Cleared, TypeOK, Finish, serverVars
<1>7. ASSUME EventsLoaded(i) PROVE TypeOK'
  <2>1. request' \in [1..Slots -> Request]
    BY <1>7, EndsTyped DEF EventsLoaded
  <2>2. events' \subseteq 1..next
    BY <1>7 DEF EventsLoaded, Sane
  <2> QED BY <1>7, <2>1, <2>2 DEF EventsLoaded, TypeOK, Finish, serverVars, dialogVars
<1> QED BY <1>2, <1>3, <1>4, <1>5, <1>6, <1>7 DEF Arrive

LEMMA ErrorTyped ==
  ASSUME TypeOK, NEW i \in 1..Slots, NotLoaded(i) \/ Failed(i)
  PROVE  TypeOK'
<1>1. Finish(i, << >>)
  BY DEF NotLoaded, Failed
<1>2. request' \in [1..Slots -> Request]
  BY <1>1, EndsTyped
<1>3. ASSUME NotLoaded(i) PROVE TypeOK'
  <2>1. /\ page' \in Pages /\ busy' \subseteq {"confirm", "admin", "debug"}
        /\ confirm' \in Ids \union {"log", None} /\ ready' = FALSE
    BY <1>3 DEF NotLoaded, Unbusy, TypeOK, Pages, AdminPages
  <2> QED BY <1>1, <1>2, <1>3, <2>1 DEF NotLoaded, TypeOK, Finish, serverVars, viewVars
<1>4. ASSUME Failed(i) PROVE TypeOK'
  <2>1. unsure' \in BOOLEAN
    BY <1>4 DEF Failed, TypeOK
  <2>2. busy' \subseteq {"confirm", "admin", "debug"}
    BY <1>4 DEF Failed, TypeOK
  <2> QED BY <1>1, <1>2, <1>4, <2>1, <2>2 DEF Failed, TypeOK, Finish, serverVars, viewVars, dialogVars
<1> QED BY <1>3, <1>4

\* The clicks that send requests.
Clicks ==
    \/ \E p \in Pages : Navigate(p) /\ p = "deliveryDebug"
    \/ Login \/ Refresh \/ Reload \/ ReloadDebug
    \/ SaveSettings \/ (\E k \in Kinds : Save(k)) \/ Confirm

\* What can happen.
LEMMA StepKinds ==
  ASSUME [Next]_vars
  PROVE  \/ Quiet \/ Clicks \/ UNCHANGED vars
         \/ \E i \in 1..Slots : Handle(i) \/ Arrive(i) \/ NotLoaded(i) \/ Failed(i)
BY DEF Next, Quiet, Clicks

LEMMA TypeStep == TypeOK /\ Sane /\ EditorHonest /\ [Next]_vars => TypeOK'
<1> SUFFICES ASSUME TypeOK, Sane, EditorHonest, [Next]_vars PROVE TypeOK'
  OBVIOUS
<1>1. CASE Quiet
  BY <1>1, QuietTyped
<1>2. CASE Clicks
  BY <1>2, ClicksTyped, ChangesTyped DEF Clicks
<1>3. CASE UNCHANGED vars
  BY <1>3 DEF TypeOK, vars
<1>4. ASSUME NEW i \in 1..Slots, Handle(i) \/ Arrive(i) \/ NotLoaded(i) \/ Failed(i)
      PROVE  TypeOK'
  BY <1>4, HandleTyped, ArriveTyped, ErrorTyped
<1> QED BY <1>1, <1>2, <1>3, <1>4, StepKinds

-----------------------------------------------------------------------------
(* Where a step sends requests, ends one, or answers one.                  *)

\* What a click, or the answer of request i, that sends the requests todo, does
\* to the slots.
Told(freed, todo, new) ==
    /\ \A j \in new : j \in 1..Slots /\ (j \in freed \/ request[j].pc = "idle")
    /\ \A j \in new : \E k \in 1..Len(todo) :
         /\ request'[j].pc = todo[k].pc /\ request'[j].kind = todo[k].kind
         /\ request'[j].then = todo[k].then /\ request'[j].target = todo[k].target
         /\ request'[j].config = todo[k].config
         /\ request'[j].alone => Active(request) \ freed = {} /\ Len(todo) = 1
         /\ (todo[k].kind = "load" /\ Active(request) \ freed = {} /\ Len(todo) = 1)
               => request'[j].alone
         /\ request'[j].sure => ~unsure
    /\ \A j \in (1..Slots) \ new :
         /\ request'[j].alone = FALSE
         /\ j \in freed => request'[j] = Idle
         /\ j \notin freed => /\ request'[j].pc = request[j].pc
                              /\ request'[j].kind = request[j].kind
                              /\ request'[j].then = request[j].then
                              /\ request'[j].target = request[j].target
                              /\ request'[j].config = request[j].config
    /\ Len(todo) = 1 => \E p \in new : new = {p}

LEMMA SendingTells ==
  ASSUME TypeOK, NEW freed, NEW todo \in Seq(Request), NEW new, Sending(freed, todo, new)
  PROVE  Told(freed, todo, new)
<1> DEFINE single == Active(request) \ freed = {} /\ Len(todo) = 1
<1>1. single \in BOOLEAN
  OBVIOUS
<1>2. ASSUME NEW j \in new
      PROVE  \E k \in 1..Len(todo) :
              /\ request'[j].pc = todo[k].pc /\ request'[j].kind = todo[k].kind
              /\ request'[j].then = todo[k].then /\ request'[j].target = todo[k].target
              /\ request'[j].config = todo[k].config
              /\ request'[j].alone => single
              /\ (todo[k].kind = "load" /\ single) => request'[j].alone
              /\ request'[j].sure => ~unsure
  <2>1. PICK k \in 1..Len(todo) : request'[j] = Starting(todo[k], single)
    BY DEF Sending
  <2> HIDE DEF single
  <2>2. todo[k] \in Request
    BY <2>1
  <2>3. \A b \in BOOLEAN :
          /\ Starting(todo[k], b).pc = todo[k].pc /\ Starting(todo[k], b).kind = todo[k].kind
          /\ Starting(todo[k], b).then = todo[k].then
          /\ Starting(todo[k], b).target = todo[k].target
          /\ Starting(todo[k], b).config = todo[k].config
          /\ Starting(todo[k], b).alone = (b /\ todo[k].kind \in {"load", "put"})
          /\ Starting(todo[k], b).sure = (~unsure /\ todo[k].kind = "put")
    BY <2>2, StartingTyped
  <2> QED BY <1>1, <2>1, <2>3
<1>3. ASSUME NEW j \in (1..Slots) \ new
      PROVE   /\ request'[j].alone = FALSE
              /\ j \in freed => request'[j] = Idle
              /\ j \notin freed => /\ request'[j].pc = request[j].pc
                                   /\ request'[j].kind = request[j].kind
                                   /\ request'[j].then = request[j].then
                                   /\ request'[j].target = request[j].target
                                   /\ request'[j].config = request[j].config
  <2>1. request'[j] = IF j \in freed THEN Idle ELSE NotAlone(request[j])
    BY DEF Sending
  <2>2. request[j] \in Request
    BY DEF TypeOK
  <2>3. CASE j \in freed
    BY <2>1, <2>3, IdleTyped
  <2>4. CASE j \notin freed
    BY <2>1, <2>2, <2>4, NotAloneTyped
  <2> QED BY <2>3, <2>4
<1>4. \A j \in new : j \in 1..Slots /\ (j \in freed \/ request[j].pc = "idle")
  BY DEF Sending
<1>5. Len(todo) = 1 => \E p \in new : new = {p}
  BY DEF Sending
<1> QED BY <1>2, <1>3, <1>4, <1>5 DEF Told

\* The same where it sends one.
LEMMA SendingOneTells ==
  ASSUME TypeOK, NEW freed, NEW q \in Request, NEW new, Sending(freed, <<q>>, new)
  PROVE  \E p \in new :
           /\ new = {p} /\ p \in 1..Slots /\ (p \in freed \/ request[p].pc = "idle")
           /\ request'[p].pc = q.pc /\ request'[p].kind = q.kind
           /\ request'[p].then = q.then /\ request'[p].target = q.target
           /\ \A j \in (1..Slots) \ {p} :
                 /\ j \in freed => request'[j] = Idle
                 /\ j \notin freed => /\ request'[j].pc = request[j].pc
                                      /\ request'[j].kind = request[j].kind
                                      /\ request'[j].then = request[j].then
<1> DEFINE todo == <<q>>
<1>1. todo \in Seq(Request) /\ Len(todo) = 1 /\ \A k \in 1..Len(todo) : todo[k] = q
  OBVIOUS
<1>2. Told(freed, todo, new)
  BY <1>1, SendingTells
<1> HIDE DEF todo
<1>3. PICK p \in new : new = {p}
  BY <1>1, <1>2 DEF Told
<1>4. \E k \in 1..Len(todo) :
         /\ request'[p].pc = todo[k].pc /\ request'[p].kind = todo[k].kind
         /\ request'[p].then = todo[k].then /\ request'[p].target = todo[k].target
  BY <1>2 DEF Told
<1> QED BY <1>1, <1>2, <1>3, <1>4 DEF Told

-----------------------------------------------------------------------------
(* The dialog tells the truth.                                             *)

\* No request the dialog waits for comes up, and unless none is left the dialog
\* stays as it is.
LEMMA DialogStays ==
  ASSUME Sane, OneDialog, DialogTellsTruth, NEW freed,
         \A j \in 1..Slots : Awaited(j)' => /\ Awaited(j) /\ j \notin freed
                                            /\ request'[j].kind = request[j].kind
                                            /\ request'[j].then = request[j].then
                                            /\ request'[j].target = request[j].target,
         \/ confirm' = confirm /\ ("confirm" \in busy => "confirm" \in busy')
         \/ \A j \in 1..Slots : j \notin freed => ~Awaited(j)
  PROVE  OneDialog' /\ DialogTellsTruth'
<1>1. OneDialog'
  BY DEF OneDialog
<1>2. ASSUME NEW j \in 1..Slots, Awaited(j)'
      PROVE  /\ j \in Active(request) /\ request'[j].kind = request[j].kind
             /\ request'[j].then = request[j].then /\ request'[j].target = request[j].target
             /\ confirm' = confirm /\ ("confirm" \in busy => "confirm" \in busy')
  <2>1. Awaited(j)
    BY <1>2
  <2>2. request[j].pc # "idle"
    BY <2>1, IdleTyped, ConsoleAssumption DEF Sane, Fits, Awaited
  <2> QED BY <1>2, <2>1, <2>2 DEF Active
<1>3. DialogTellsTruth'
  <2> SUFFICES ASSUME NEW j \in Active(request)'
               PROVE  LET req == request'[j]
                      IN  /\ req.kind = "delete" => "confirm" \in busy' /\ confirm' = req.target
                          /\ req.kind = "clear" => "confirm" \in busy' /\ confirm' = "log"
                          /\ req.then = "delete" => "confirm" \in busy' /\ confirm' # None
    BY DEF DialogTellsTruth
  <2>1. j \in 1..Slots
    BY DEF Active
  <2>2. CASE Awaited(j)'
    BY <1>2, <2>1, <2>2 DEF DialogTellsTruth
  <2>3. CASE ~Awaited(j)'
    BY <2>3 DEF Awaited
  <2> QED BY <2>2, <2>3
<1> QED BY <1>1, <1>3

\* A request the dialog waits for is the only one.
LEMMA DialogSends ==
  ASSUME TypeOK, NEW freed, NEW q \in Request, NEW new, Sending(freed, <<q>>, new),
         \A j \in 1..Slots : j \notin freed => ~Awaited(j),
         q.kind = "delete" => "confirm" \in busy' /\ confirm' = q.target,
         q.kind = "clear" => "confirm" \in busy' /\ confirm' = "log",
         q.then = "delete" => "confirm" \in busy' /\ confirm' # None
  PROVE  OneDialog' /\ DialogTellsTruth'
<1>1. PICK p \in new :
           /\ new = {p} /\ p \in 1..Slots /\ (p \in freed \/ request[p].pc = "idle")
           /\ request'[p].pc = q.pc /\ request'[p].kind = q.kind
           /\ request'[p].then = q.then /\ request'[p].target = q.target
           /\ \A j \in (1..Slots) \ {p} :
                 /\ j \in freed => request'[j] = Idle
                 /\ j \notin freed => /\ request'[j].pc = request[j].pc
                                      /\ request'[j].kind = request[j].kind
                                      /\ request'[j].then = request[j].then
  BY SendingOneTells
<1>5. ASSUME NEW j \in 1..Slots, Awaited(j)' PROVE j = p
  BY <1>1, <1>5, IdleTyped, ConsoleAssumption DEF Awaited
<1>6. OneDialog'
  BY <1>5 DEF OneDialog
<1>7. DialogTellsTruth'
  <2> SUFFICES ASSUME NEW j \in Active(request)'
               PROVE  LET req == request'[j]
                      IN  /\ req.kind = "delete" => "confirm" \in busy' /\ confirm' = req.target
                          /\ req.kind = "clear" => "confirm" \in busy' /\ confirm' = "log"
                          /\ req.then = "delete" => "confirm" \in busy' /\ confirm' # None
    BY DEF DialogTellsTruth
  <2>1. j \in 1..Slots
    BY DEF Active
  <2>2. CASE Awaited(j)'
    BY <1>1, <1>5, <2>1, <2>2
  <2>3. CASE ~Awaited(j)'
    BY <2>3 DEF Awaited
  <2> QED BY <2>2, <2>3
<1> QED BY <1>6, <1>7

LEMMA AwaitedBusy ==
  ASSUME Sane, DialogTellsTruth, NEW i \in 1..Slots, Awaited(i)
  PROVE  "confirm" \in busy /\ confirm # None /\ request[i].pc # "idle"
<1>1. i \in Active(request)
  BY IdleTyped, ConsoleAssumption DEF Sane, Fits, Awaited, Active
<1>2. request[i].kind = "delete" => request[i].target \in Ids
  BY DEF Sane, Fits
<1> QED BY <1>1, <1>2, ConsoleAssumption DEF DialogTellsTruth, Awaited, Active

LEMMA EditHonest ==
  ASSUME TypeOK, EditorHonest, NEW k \in Kinds, NEW editor, editor.opened = editor.target,
         modal' = [modal EXCEPT ![k] = editor]
  PROVE  EditorHonest'
BY DEF TypeOK, EditorHonest

LEMMA QuietHonest == TypeOK /\ EditorHonest /\ Quiet => EditorHonest'
<1> SUFFICES ASSUME TypeOK, EditorHonest, Quiet PROVE EditorHonest'
  OBVIOUS
<1>1. ASSUME NEW k \in Kinds, OpenModal(k) PROVE EditorHonest'
  BY <1>1, EditHonest DEF OpenModal, Edit
<1>2. ASSUME NEW k \in Kinds, OpenTemplate(k) PROVE EditorHonest'
  BY <1>2, EditHonest DEF OpenTemplate, Edit
<1>3. ASSUME NEW k \in Kinds, Cancel(k) \/ \E content \in Typed : Type(k, content)
      PROVE  EditorHonest'
  <2>1. PICK editor : Edit(k, editor) /\ editor.opened = editor.target
    <3>1. modal[k].opened = modal[k].target
      BY DEF EditorHonest
    <3>2. CASE Cancel(k)
      <4>1. Edit(k, [modal[k] EXCEPT !.visible = FALSE])
        BY <3>2 DEF Cancel
      <4>2. [modal[k] EXCEPT !.visible = FALSE].opened = [modal[k] EXCEPT !.visible = FALSE].target
        BY <3>1 DEF TypeOK
      <4> QED BY <4>1, <4>2
    <3>3. ASSUME NEW content \in Typed, Type(k, content)
          PROVE  \E editor : Edit(k, editor) /\ editor.opened = editor.target
      <4>1. Edit(k, [modal[k] EXCEPT !.draft = content])
        BY <3>3 DEF Type
      <4>2. [modal[k] EXCEPT !.draft = content].opened = [modal[k] EXCEPT !.draft = content].target
        BY <3>1 DEF TypeOK
      <4> QED BY <4>1, <4>2
    <3> QED BY <1>3, <3>2, <3>3
  <2> QED BY <2>1, EditHonest DEF Edit
<1>4. ASSUME modal' = modal PROVE EditorHonest'
  BY <1>4 DEF EditorHonest
<1>5. \/ modal' = modal
      \/ \E k \in Kinds : OpenModal(k) \/ OpenTemplate(k) \/ Cancel(k)
      \/ \E k \in Kinds, content \in Typed : Type(k, content)
  BY DEF Quiet, Navigate, Back, EditSettings, Ask, CancelConfirm, Record, dialogVars
<1> QED BY <1>1, <1>2, <1>3, <1>4, <1>5

LEMMA QuietSafe == TypeOK /\ SafeInv /\ Quiet => SafeInv'
<1> SUFFICES ASSUME TypeOK, SafeInv, Quiet PROVE SafeInv'
  OBVIOUS
<1>1. UNCHANGED <<request, busy>>
  BY DEF Quiet, Navigate, Back, EditSettings, OpenModal, OpenTemplate, Edit, Type, Cancel, Ask,
         CancelConfirm, Record, netVars
<1>2. next \in Nat /\ (next' = next \/ next' = next + 1)
  <2>1. next' = next \/ next' = next + 1
    BY DEF Quiet, Navigate, Back, EditSettings, OpenModal, OpenTemplate, Edit,
           Type, Cancel, Ask, CancelConfirm, Record, serverVars
  <2>2. next \in Nat
    BY ConsoleAssumption DEF TypeOK
  <2> QED BY <2>1, <2>2
<1>3. Sane'
  <2>1. 1..next \subseteq 1..next'
    BY <1>2
  <2>2. \A i \in 1..Slots : Fits(request[i]) /\ request[i].list \subseteq 1..next
    BY DEF SafeInv, Sane
  <2>3. \A i \in 1..Slots : Fits(request[i]) /\ request[i].list \subseteq 1..next'
    BY <2>1, <2>2
  <2> QED BY <1>1, <2>3 DEF Sane, Fits
<1>4. EditorHonest'
  BY QuietHonest DEF SafeInv
<1>5. confirm' = confirm \/ \A j \in 1..Slots : ~Awaited(j)
  <2>1. CASE confirm = None \/ "confirm" \notin busy
    BY <2>1, AwaitedBusy DEF SafeInv
  <2>2. CASE confirm # None /\ "confirm" \in busy
    BY <2>2 DEF Quiet, Navigate, Back, EditSettings, OpenModal, OpenTemplate, Edit, Type, Cancel,
         Ask, On, Masked, CancelConfirm, Record, dialogVars
  <2> QED BY <2>1, <2>2
<1>6. \A j \in 1..Slots : Awaited(j)' => Awaited(j)
  BY <1>1 DEF Awaited
<1>7. OneDialog' /\ DialogTellsTruth'
  <2> DEFINE freed == {}
  <2>1. \A j \in 1..Slots : Awaited(j)' => /\ Awaited(j) /\ j \notin freed
                                           /\ request'[j].kind = request[j].kind
                                           /\ request'[j].then = request[j].then
                                           /\ request'[j].target = request[j].target
    BY <1>1, <1>6
  <2>2. \/ confirm' = confirm /\ ("confirm" \in busy => "confirm" \in busy')
        \/ \A j \in 1..Slots : j \notin freed => ~Awaited(j)
    BY <1>1, <1>5
  <2> HIDE DEF freed
  <2> QED BY <2>1, <2>2, DialogStays DEF SafeInv
<1> QED BY <1>3, <1>4, <1>7 DEF SafeInv

\* Requests are sent that the dialog does not wait for.
LEMMA SendsSafe ==
  ASSUME TypeOK, SafeInv, NEW freed, NEW todo \in Seq(Request), NEW new,
         Sending(freed, todo, new),
         \A k \in 1..Len(todo) : /\ Ready(todo[k]) /\ todo[k].kind \notin {"delete", "clear"}
                                 /\ todo[k].then # "delete",
         next' = next, EditorHonest',
         \/ confirm' = confirm /\ ("confirm" \in busy => "confirm" \in busy')
         \/ \A j \in 1..Slots : j \notin freed => ~Awaited(j)
  PROVE  SafeInv'
<1>1. Sane'
  BY SendingSane DEF SafeInv
<1>2. Told(freed, todo, new)
  BY SendingTells
<1>3. ASSUME NEW j \in 1..Slots, Awaited(j)'
      PROVE  /\ Awaited(j) /\ j \notin freed
             /\ request'[j].kind = request[j].kind /\ request'[j].then = request[j].then
             /\ request'[j].target = request[j].target
  <2>1. j \notin new
    <3> SUFFICES ASSUME j \in new PROVE FALSE
      OBVIOUS
    <3>1. PICK k \in 1..Len(todo) :
             request'[j].kind = todo[k].kind /\ request'[j].then = todo[k].then
      BY <1>2 DEF Told
    <3> QED BY <1>3, <3>1 DEF Awaited
  <2>2. j \notin freed
    BY <1>2, <1>3, <2>1, IdleTyped, ConsoleAssumption DEF Told, Awaited
  <2> QED BY <1>2, <1>3, <2>1, <2>2 DEF Told, Awaited
<1>4. OneDialog' /\ DialogTellsTruth'
  BY <1>3, DialogStays DEF SafeInv
<1> QED BY <1>1, <1>4 DEF SafeInv

\* A request ends, and the dialog with it if it was waiting for that.
LEMMA EndsSafe ==
  ASSUME TypeOK, SafeInv, NEW i \in 1..Slots, Finish(i, << >>), EditorHonest',
         \/ confirm' = confirm /\ ("confirm" \in busy => "confirm" \in busy')
         \/ Awaited(i)
  PROVE  SafeInv'
<1>1. request' = [request EXCEPT ![i] = Idle]
  BY FinishEnds
<1>2. \A j \in 1..Slots : request'[j] = IF j = i THEN Idle ELSE request[j]
  BY <1>1 DEF TypeOK
<1>3. next' = next
  BY DEF Finish, serverVars
<1>4. Sane'
  <2>1. Fits(Idle) /\ Idle.list = {}
    BY ConsoleAssumption, IdleTyped DEF Fits
  <2> QED BY <1>2, <1>3, <2>1 DEF SafeInv, Sane
<1>5. \A j \in 1..Slots : Awaited(j)' => /\ Awaited(j) /\ j \notin {i}
                                         /\ request'[j].kind = request[j].kind
                                         /\ request'[j].then = request[j].then
                                         /\ request'[j].target = request[j].target
  BY <1>2, IdleTyped, ConsoleAssumption DEF Awaited
<1>6. Awaited(i) => \A j \in 1..Slots : j \notin {i} => ~Awaited(j)
  BY DEF SafeInv, OneDialog
<1>7. OneDialog' /\ DialogTellsTruth'
  BY <1>5, <1>6, DialogStays DEF SafeInv
<1> QED BY <1>4, <1>7 DEF SafeInv

LEMMA HandleSafe ==
  ASSUME TypeOK, SafeInv, NEW i \in 1..Slots, Handle(i)
  PROVE  SafeInv'
<1>1. PICK r \in Request :
        /\ request[i].pc = "sent" /\ request' = [request EXCEPT ![i] = r]
        /\ r.pc = "handled" /\ r.kind = request[i].kind /\ r.then = request[i].then
        /\ r.target = request[i].target /\ r.content = request[i].content
        /\ r.opened = request[i].opened
        /\ r.kind = "load" => r.config = config
        /\ r.kind # "load" => r.config = request[i].config
        /\ r.list \in {request[i].list, log}
  BY HandleAnswers DEF Answering
<1>2. \A j \in 1..Slots : request'[j] = IF j = i THEN r ELSE request[j]
  BY <1>1 DEF TypeOK
<1>3. UNCHANGED <<next, modal, confirm, busy>>
  BY DEF Handle, HandleSave, HandleDelete, HandlePut, HandleRest, Answer, dialogVars
<1>4. Sane'
  <2>1. Fits(request[i]) /\ request[i].list \subseteq 1..next /\ log \subseteq 1..next
    BY DEF SafeInv, Sane, TypeOK
  <2>2. Fits(r)
    BY <1>1, <2>1 DEF Fits, TypeOK
  <2>3. r.list \subseteq 1..next
    BY <1>1, <2>1
  <2> QED BY <1>2, <1>3, <2>2, <2>3 DEF SafeInv, Sane
<1>5. EditorHonest'
  BY <1>3 DEF SafeInv, EditorHonest
<1>6. OneDialog' /\ DialogTellsTruth'
  <2> DEFINE freed == {}
  <2>1. \A j \in 1..Slots : Awaited(j)' => /\ Awaited(j) /\ j \notin freed
                                           /\ request'[j].kind = request[j].kind
                                           /\ request'[j].then = request[j].then
                                           /\ request'[j].target = request[j].target
    BY <1>1, <1>2 DEF Awaited
  <2> HIDE DEF freed
  <2> QED BY <1>3, <2>1, DialogStays DEF SafeInv
<1> QED BY <1>4, <1>5, <1>6 DEF SafeInv

\* A request that the dialog does not wait for.
Plain(q) == Ready(q) /\ q.kind \notin {"delete", "clear"} /\ q.then # "delete"

PlainAll(todo) ==
    todo \in Seq(Request) /\ todo # << >> /\ \A k \in 1..Len(todo) : Plain(todo[k])

LEMMA PlainOne ==
  ASSUME NEW q, Plain(q)
  PROVE  PlainAll(<<q>>)
BY DEF Plain, PlainAll, Ready

LEMMA PlainTwo ==
  ASSUME NEW p, NEW q, Plain(p), Plain(q)
  PROVE  PlainAll(<<p, q>>)
<1>1. <<p, q>> \in Seq(Request) /\ <<p, q>> # << >> /\ Len(<<p, q>>) = 2
  BY DEF Plain, Ready
<1>2. \A k \in 1..2 : k = 1 \/ k = 2
  OBVIOUS
<1>3. <<p, q>>[1] = p /\ <<p, q>>[2] = q
  OBVIOUS
<1>4. \A k \in 1..Len(<<p, q>>) : Plain(<<p, q>>[k])
  BY <1>1, <1>2, <1>3
<1> QED BY <1>1, <1>4 DEF PlainAll

LEMMA PlainSent ==
  /\ Plain(Sent("events")) /\ Plain(Sent("login"))
  /\ \A then \in {"refresh", "reload", "save", "login"} : Plain(Load(then))
<1>1. \A kind \in {"events", "login"} : Plain(Sent(kind))
  BY SentReady, ConsoleAssumption DEF Plain
<1>2. \A then \in {"refresh", "reload", "save", "login"} : Plain(Load(then))
  BY SentReady DEF Plain
<1> QED BY <1>1, <1>2

LEMMA PlainClickSafe ==
  ASSUME TypeOK, SafeInv, NEW todo, PlainAll(todo), Click(todo),
         UNCHANGED <<next, modal, confirm>>, busy \subseteq busy'
  PROVE  SafeInv'
<1> DEFINE freed == {}
<1>1. todo \in Seq(Request) /\ todo # << >>
  BY DEF PlainAll
<1>2. PICK new : Sending(freed, todo, new)
  BY <1>1, ClickSends
<1>3. EditorHonest'
  BY DEF SafeInv, EditorHonest
<1> HIDE DEF freed
<1> QED BY <1>1, <1>2, <1>3, SendsSafe DEF PlainAll, Plain

LEMMA ClicksSafe == TypeOK /\ SafeInv /\ Clicks => SafeInv'
<1> SUFFICES ASSUME TypeOK, SafeInv, Clicks PROVE SafeInv'
  OBVIOUS
<1>1. ASSUME NEW p \in Pages, Navigate(p), p = "deliveryDebug" PROVE SafeInv'
  <2>1. Click(<<Sent("events")>>) /\ UNCHANGED <<next, modal, confirm>> /\ busy \subseteq busy'
    BY <1>1 DEF Navigate, serverVars, dialogVars
  <2> QED BY <2>1, PlainSent, PlainOne, PlainClickSafe
<1>2. ASSUME Login PROVE SafeInv'
  <2>1. Click(<<Sent("login")>>) /\ UNCHANGED <<next, modal, confirm>> /\ busy \subseteq busy'
    BY <1>2 DEF Login, serverVars, dialogVars
  <2> QED BY <2>1, PlainSent, PlainOne, PlainClickSafe
<1>3. ASSUME Refresh PROVE SafeInv'
  <2>1. Click(<<Load("refresh"), Sent("events")>>) \/ Click(<<Load("refresh")>>)
    BY <1>3 DEF Refresh
  <2>2. UNCHANGED <<next, modal, confirm>> /\ busy \subseteq busy'
    BY <1>3 DEF Refresh, serverVars, dialogVars
  <2>3. PlainAll(<<Load("refresh"), Sent("events")>>) /\ PlainAll(<<Load("refresh")>>)
    BY PlainSent, PlainOne, PlainTwo
  <2> QED BY <2>1, <2>2, <2>3, PlainClickSafe
<1>4. ASSUME Reload PROVE SafeInv'
  <2>1. Click(<<Load("reload")>>) /\ UNCHANGED <<next, modal, confirm>> /\ busy \subseteq busy'
    BY <1>4 DEF Reload, serverVars, dialogVars
  <2> QED BY <2>1, PlainSent, PlainOne, PlainClickSafe
<1>5. ASSUME ReloadDebug PROVE SafeInv'
  <2>1. Click(<<Sent("events")>>) /\ UNCHANGED <<next, modal, confirm>> /\ busy \subseteq busy'
    BY <1>5 DEF ReloadDebug, serverVars, dialogVars
  <2> QED BY <2>1, PlainSent, PlainOne, PlainClickSafe
<1>6. ASSUME SaveSettings PROVE SafeInv'
  <2> DEFINE q == [Sent("put") EXCEPT !.config = [items |-> loaded.items, settings |-> form]]
  <2>1. Plain(q)
    <3>1. [items |-> loaded.items, settings |-> form] \in Config
      BY <1>6, PutTyped DEF SaveSettings
    <3>2. Ready(q) /\ q.kind = "put" /\ q.then = None
      BY <3>1, PutReady
    <3> HIDE DEF q
    <3> QED BY <3>2, ConsoleAssumption DEF Plain
  <2>2. Click(<<q>>) /\ UNCHANGED <<next, modal, confirm>> /\ busy \subseteq busy'
    BY <1>6 DEF SaveSettings, serverVars, dialogVars
  <2> HIDE DEF q
  <2> QED BY <2>1, <2>2, PlainOne, PlainClickSafe
<1>7. ASSUME NEW k \in Kinds, Save(k) PROVE SafeInv'
  <2> DEFINE q == [Sent("save") EXCEPT !.target = modal[k].target, !.content = modal[k].draft,
                                       !.opened = modal[k].opened]
  <2>1. /\ modal[k].target \in Ids \union Kinds /\ modal[k].draft \in Contents
        /\ modal[k].opened = modal[k].target
    BY DEF TypeOK, SafeInv, EditorHonest
  <2>2. Plain(q)
    <3>1. Ready(q) /\ q.kind = "save" /\ q.then = None
      BY <2>1, SaveReady, ZenonT(40)
    <3> HIDE DEF q
    <3> QED BY <3>1, ConsoleAssumption DEF Plain
  <2>3. Click(<<q>>) /\ UNCHANGED <<next, modal, confirm>> /\ busy \subseteq busy'
    BY <1>7 DEF Save, serverVars, dialogVars
  <2> HIDE DEF q
  <2> QED BY <2>2, <2>3, PlainOne, PlainClickSafe
<1>8. ASSUME Confirm PROVE SafeInv'
  <2> DEFINE q == IF confirm = "log" THEN Sent("clear")
                  ELSE [Sent("delete") EXCEPT !.target = confirm]
             freed == {}
  <2>1. Ready(q) /\ q.then = None
    BY <1>8, ConfirmNames, SentReady, DeleteReady DEF Confirm
  <2>2. (q.kind = "delete" => confirm = q.target) /\ (q.kind = "clear" => confirm = "log")
    BY <1>8, ConfirmNames, SentReady, DeleteReady DEF Confirm
  <2>3. Click(<<q>>)
    BY <1>8 DEF Confirm
  <2>4. UNCHANGED <<next, modal, confirm>> /\ "confirm" \in busy' /\ "confirm" \notin busy
    BY <1>8 DEF Confirm, serverVars, dialogVars
  <2> HIDE DEF q
  <2>5. q \in Request /\ <<q>> \in Seq(Request) /\ <<q>> # << >>
    BY <2>1 DEF Ready
  <2>6. PICK new : Sending(freed, <<q>>, new)
    BY <2>3, <2>5, ClickSends
  <2> HIDE DEF freed
  <2>7. \A j \in 1..Slots : ~Awaited(j)
    BY <2>4, AwaitedBusy DEF SafeInv
  <2>8. OneDialog' /\ DialogTellsTruth'
    BY <2>1, <2>2, <2>4, <2>5, <2>6, <2>7, ConsoleAssumption, DialogSends
  <2>9. Sane'
    <3>1. \A k \in 1..Len(<<q>>) : Ready(<<q>>[k])
      BY <2>1
    <3> QED BY <2>4, <2>5, <2>6, <3>1, SendingSane DEF SafeInv
  <2>10. EditorHonest'
    BY <2>4 DEF SafeInv, EditorHonest
  <2> QED BY <2>8, <2>9, <2>10 DEF SafeInv
<1> QED BY <1>1, <1>2, <1>3, <1>4, <1>5, <1>6, <1>7, <1>8 DEF Clicks

LEMMA ArriveSafe ==
  ASSUME TypeOK, SafeInv, NEW i \in 1..Slots, Arrive(i)
  PROVE  SafeInv'
<1> DEFINE freed == {i}
<1>1. ASSUME NEW q, Finish(i, <<q>>), Plain(q), EditorHonest',
             confirm' = confirm \/ Awaited(i), "confirm" \in busy => "confirm" \in busy' \/ Awaited(i)
      PROVE  SafeInv'
  <2>1. PlainAll(<<q>>) /\ q \in Request
    BY <1>1, PlainOne DEF Plain, Ready
  <2>2. PICK new : Sending(freed, <<q>>, new)
    BY <1>1, <2>1, FinishSends
  <2>3. Awaited(i) => \A j \in 1..Slots : j \notin freed => ~Awaited(j)
    BY DEF SafeInv, OneDialog
  <2>4. next' = next
    BY <1>1 DEF Finish, serverVars
  <2> HIDE DEF freed
  <2> QED BY <1>1, <2>1, <2>2, <2>3, <2>4, SendsSafe DEF PlainAll, Plain
<1>2. ASSUME modal' = modal PROVE EditorHonest'
  BY <1>2 DEF SafeInv, EditorHonest
<1>3. ASSUME Saved(i) PROVE SafeInv'
  <2>1. EditorHonest'
    <3>1. PICK k : modal' = [modal EXCEPT ![k] = Closed(k)]
      BY <1>3 DEF Saved
    <3> QED BY <3>1 DEF SafeInv, EditorHonest, TypeOK, Closed
  <2>2. Finish(i, <<Load("save")>>) /\ confirm' = confirm /\ busy \subseteq busy'
    BY <1>3 DEF Saved, Finish
  <2> QED BY <1>1, <2>1, <2>2, PlainSent
<1>4. ASSUME GoOn(i) PROVE SafeInv'
  <2>1. /\ Finish(i, <<Load(request[i].kind)>>) /\ UNCHANGED <<modal, confirm>>
        /\ busy \subseteq busy'
    BY <1>4 DEF GoOn, dialogVars
  <2>2. CASE request[i].kind = "login"
    BY <1>1, <1>2, <2>1, <2>2, PlainSent
  <2>3. CASE request[i].kind = "delete"
    <3> DEFINE q == Load("delete")
    <3>1. Ready(q) /\ q.kind = "load" /\ q.then = "delete"
      BY SentReady
    <3>2. Finish(i, <<q>>)
      BY <2>1, <2>3
    <3> HIDE DEF q
    <3>3. q \in Request /\ <<q>> \in Seq(Request)
      BY <3>1 DEF Ready
    <3>4. PICK new : Sending(freed, <<q>>, new)
      BY <3>2, <3>3, FinishSends
    <3>5. Awaited(i) /\ \A j \in 1..Slots : j \notin freed => ~Awaited(j)
      BY <2>3 DEF SafeInv, OneDialog, Awaited
    <3>6. "confirm" \in busy' /\ confirm' # None
      BY <2>1, <3>5, AwaitedBusy DEF SafeInv
    <3> HIDE DEF freed
    <3>7. OneDialog' /\ DialogTellsTruth'
      BY <3>1, <3>3, <3>4, <3>5, <3>6, DialogSends
    <3>8. Sane'
      <4>1. \A k \in 1..Len(<<q>>) : Ready(<<q>>[k])
        BY <3>1
      <4>2. next' = next
        BY <3>2 DEF Finish, serverVars
      <4> QED BY <3>3, <3>4, <4>1, <4>2, SendingSane DEF SafeInv
    <3> QED BY <1>2, <2>1, <3>7, <3>8 DEF SafeInv
  <2> QED BY <1>4, <2>2, <2>3 DEF GoOn
<1>5. ASSUME Loaded(i) PROVE SafeInv'
  <2>1. request[i].then = "delete" => Awaited(i)
    BY DEF Awaited
  <2>2. EditorHonest'
    BY <1>2, <1>5 DEF Loaded
  <2>3. confirm' = confirm \/ Awaited(i)
    BY <1>5, <2>1 DEF Loaded
  <2>4. "confirm" \in busy => "confirm" \in busy' \/ Awaited(i)
    BY <1>5, <2>1 DEF Loaded, Unbusy
  <2>5. Finish(i, <<Sent("events")>>) \/ Finish(i, << >>)
    BY <1>5 DEF Loaded
  <2> QED BY <1>1, <2>2, <2>3, <2>4, <2>5, PlainSent, EndsSafe
<1>6. ASSUME SettingsSaved(i) PROVE SafeInv'
  BY <1>2, <1>6, EndsSafe DEF SettingsSaved, dialogVars
<1>7. ASSUME Cleared(i) PROVE SafeInv'
  <2>1. Awaited(i)
    BY <1>7 DEF Cleared, Awaited
  <2> QED BY <1>2, <1>7, <2>1, EndsSafe DEF Cleared
<1>8. ASSUME EventsLoaded(i) PROVE SafeInv'
  BY <1>2, <1>8, EndsSafe DEF EventsLoaded, dialogVars
<1> QED BY <1>3, <1>4, <1>5, <1>6, <1>7, <1>8 DEF Arrive

LEMMA ErrorSafe ==
  ASSUME TypeOK, SafeInv, NEW i \in 1..Slots, NotLoaded(i) \/ Failed(i)
  PROVE  SafeInv'
<1>1. ASSUME NotLoaded(i) PROVE SafeInv'
  <2>1. confirm' = confirm \/ Awaited(i)
    BY <1>1 DEF NotLoaded, Awaited
  <2>2. "confirm" \in busy => "confirm" \in busy' \/ Awaited(i)
    BY <1>1 DEF NotLoaded, Unbusy, Awaited
  <2>3. Finish(i, << >>) /\ modal' = modal
    BY <1>1 DEF NotLoaded
  <2>4. EditorHonest'
    BY <2>3 DEF SafeInv, EditorHonest
  <2> QED BY <2>1, <2>2, <2>3, <2>4, EndsSafe
<1>2. ASSUME Failed(i) PROVE SafeInv'
  <2>1. confirm' = confirm /\ modal' = modal /\ Finish(i, << >>)
    BY <1>2 DEF Failed, dialogVars
  <2>2. "confirm" \in busy => "confirm" \in busy' \/ Awaited(i)
    BY <1>2 DEF Failed, Awaited
  <2>3. EditorHonest'
    BY <2>1 DEF SafeInv, EditorHonest
  <2> QED BY <2>1, <2>2, <2>3, EndsSafe
<1> QED BY <1>1, <1>2

LEMMA SafeStep == TypeOK /\ SafeInv /\ [Next]_vars => SafeInv'
<1> SUFFICES ASSUME TypeOK, SafeInv, [Next]_vars PROVE SafeInv'
  OBVIOUS
<1>1. CASE Quiet
  BY <1>1, QuietSafe
<1>2. CASE Clicks
  BY <1>2, ClicksSafe
<1>3. CASE UNCHANGED vars
  BY <1>3 DEF SafeInv, Sane, Fits, EditorHonest, OneDialog, Awaited, DialogTellsTruth, Active, vars
<1>4. ASSUME NEW i \in 1..Slots, Handle(i) \/ Arrive(i) \/ NotLoaded(i) \/ Failed(i)
      PROVE  SafeInv'
  BY <1>4, HandleSafe, ArriveSafe, ErrorSafe
<1> QED BY <1>1, <1>2, <1>3, <1>4, StepKinds

-----------------------------------------------------------------------------
(* The page shows what is saved.                                           *)

\* What ShowInv says of the requests alone.
NetInv == AloneIs /\ SureIsOne /\ LoadIsFresh /\ PutIsSaved /\ PutFaithful

\* Requests are sent.  One that is not by itself makes the page unsure, and
\* settings that count as sent from a sure page bring the items as they are.
LEMMA SendsShow ==
  ASSUME TypeOK, NEW freed, NEW todo \in Seq(Request), NEW new,
         Sending(freed, todo, new), \A k \in 1..Len(todo) : Ready(todo[k]),
         ~unsure' => Active(request) \ freed = {} /\ Len(todo) = 1,
         \A k \in 1..Len(todo) :
            (todo[k].kind = "put" /\ ~unsure /\ Active(request) \ freed = {} /\ Len(todo) = 1)
               => todo[k].config.items = config'.items
  PROVE  NetInv'
<1>1. Told(freed, todo, new)
  BY SendingTells
<1>2. \A j \in new : request'[j].pc = "sent"
  BY <1>1 DEF Told, Ready
<1>3. ASSUME Active(request) \ freed = {}, NEW j \in (1..Slots) \ new
      PROVE  request'[j].pc = "idle"
  <2>1. CASE j \in freed
    BY <1>1, <2>1, IdleTyped DEF Told
  <2>2. CASE j \notin freed
    BY <1>1, <1>3, <2>2 DEF Told, Active
  <2> QED BY <2>1, <2>2
<1>4. ASSUME Active(request) \ freed = {}, Len(todo) = 1, NEW j \in new
      PROVE  Active(request') = {j}
  <2>1. new = {j}
    BY <1>1, <1>4 DEF Told
  <2>2. j \in 1..Slots /\ request'[j].pc # "idle"
    BY <1>1, <1>2 DEF Told
  <2>3. \A m \in 1..Slots : m # j => request'[m].pc = "idle"
    BY <1>3, <1>4, <2>1
  <2> QED BY <2>2, <2>3 DEF Active
<1>5. ASSUME NEW j \in 1..Slots, request'[j].alone
      PROVE  j \in new /\ Active(request) \ freed = {} /\ Len(todo) = 1
  BY <1>1, <1>5 DEF Told
<1>6. AloneIs'
  BY <1>4, <1>5 DEF AloneIs
<1>7. ASSUME ~unsure', NEW j \in Active(request')
      PROVE  /\ Active(request') = {j} /\ request'[j].pc = "sent"
             /\ request'[j].kind = "load" => request'[j].alone
  <2>1. Active(request) \ freed = {} /\ Len(todo) = 1
    BY <1>7
  <2>2. j \in new
    BY <1>3, <2>1 DEF Active
  <2>3. request'[j].kind = "load" => request'[j].alone
    BY <1>1, <2>1, <2>2 DEF Told
  <2> QED BY <1>2, <1>4, <2>1, <2>2, <2>3
<1>8. SureIsOne'
  BY <1>7 DEF SureIsOne
<1>9. LoadIsFresh'
  BY <1>2, <1>5 DEF LoadIsFresh
<1>10. PutIsSaved'
  <2> SUFFICES ASSUME ~unsure', NEW j \in 1..Slots,
                      request'[j].kind = "put", request'[j].pc = "handled"
               PROVE  FALSE
    BY DEF PutIsSaved
  <2>1. j \in Active(request')
    BY DEF Active
  <2> QED BY <1>7, <2>1
<1>11. PutFaithful'
  <2> SUFFICES ASSUME NEW j \in 1..Slots, request'[j].kind = "put", request'[j].pc = "sent",
                      request'[j].sure, request'[j].alone
               PROVE  request'[j].config.items = config'.items
    BY DEF PutFaithful
  <2>1. j \in new /\ Active(request) \ freed = {} /\ Len(todo) = 1
    BY <1>5
  <2>2. PICK k \in 1..Len(todo) : /\ request'[j].kind = todo[k].kind
                                  /\ request'[j].config = todo[k].config
                                  /\ request'[j].sure => ~unsure
    BY <1>1, <2>1 DEF Told
  <2> QED BY <2>1, <2>2
<1> QED BY <1>6, <1>8, <1>9, <1>10, <1>11 DEF NetInv

\* A request ends.
LEMMA EndsShow ==
  ASSUME TypeOK, AloneIs, NEW i \in Active(request), Finish(i, << >>),
         ~unsure' => Active(request) = {i}
  PROVE  NetInv' /\ (~unsure' => Active(request') = {})
<1>1. i \in 1..Slots
  BY DEF Active
<1>2. request' = [request EXCEPT ![i] = Idle]
  BY <1>1, FinishEnds
<1>3. \A j \in 1..Slots : request'[j] = IF j = i THEN Idle ELSE request[j]
  BY <1>2 DEF TypeOK
<1>4. \A j \in 1..Slots : ~request'[j].alone
  BY <1>3, IdleTyped DEF AloneIs
<1>5. ~unsure' => Active(request') = {}
  BY <1>3, IdleTyped DEF Active
<1>6. AloneIs' /\ LoadIsFresh' /\ PutFaithful'
  BY <1>4 DEF AloneIs, LoadIsFresh, PutFaithful
<1>7. SureIsOne'
  BY <1>5 DEF SureIsOne
<1>8. PutIsSaved'
  BY <1>5 DEF PutIsSaved, Active
<1> QED BY <1>5, <1>6, <1>7, <1>8 DEF NetInv

\* The server answers.
LEMMA HandleShow ==
  ASSUME TypeOK, Sane, ShowInv, NEW i \in 1..Slots, Handle(i)
  PROVE  ShowInv'
<1>1. PICK r \in Request :
        /\ request[i].pc = "sent" /\ request' = [request EXCEPT ![i] = r]
        /\ r.pc = "handled" /\ r.kind = request[i].kind /\ r.alone = request[i].alone
        /\ r.kind = "load" => r.config = config
        /\ r.kind # "load" => r.config = request[i].config
  BY HandleAnswers DEF Answering
<1>2. \A j \in 1..Slots : request'[j] = IF j = i THEN r ELSE request[j]
  BY <1>1 DEF TypeOK
<1>3. UNCHANGED <<ready, loaded, unsure>>
  BY DEF Handle, HandleSave, HandleDelete, HandlePut, HandleRest, Answer, viewVars
<1>4. Active(request') = Active(request) /\ i \in Active(request)
  BY <1>1, <1>2 DEF Active
<1>5. AloneIs'
  BY <1>1, <1>2, <1>4 DEF ShowInv, AloneIs
<1>6. SureIsOne'
  BY <1>1, <1>2, <1>3, <1>4 DEF ShowInv, SureIsOne, Active
<1>7. ASSUME NEW j \in 1..Slots, request'[j].alone PROVE j = i
  BY <1>1, <1>2, <1>4, <1>7 DEF ShowInv, AloneIs
<1>8. request[i].kind = "load" => config' = config
  BY DEF Handle, HandleSave, HandleDelete, HandlePut, HandleRest
<1>9. LoadIsFresh'
  BY <1>1, <1>2, <1>7, <1>8 DEF LoadIsFresh
<1>10. request[i].kind = "put" => config' = request[i].config
  BY DEF Handle, HandleSave, HandleDelete, HandlePut, HandleRest
<1>11. request[i].kind = "put" => request[i].kind # "load"
  OBVIOUS
<1>12. PutIsSaved'
  <2> SUFFICES ASSUME ~unsure', NEW j \in 1..Slots,
                      request'[j].kind = "put", request'[j].pc = "handled"
               PROVE  request'[j].config = config'
    BY DEF PutIsSaved
  <2>1. j \in Active(request)
    BY <1>4 DEF Active
  <2>2. j = i
    BY <1>3, <1>4, <2>1 DEF ShowInv, SureIsOne
  <2> QED BY <1>1, <1>2, <1>10, <1>11, <2>2
<1>13. PutFaithful'
  BY <1>1, <1>2, <1>7 DEF PutFaithful
<1>14. Shown'
  <2>1. \A j \in 1..Slots : Updates(j) => Updates(j)'
    BY <1>1, <1>2 DEF Updates
  <2>2. CASE request[i].kind \in {"save", "delete", "put"}
    <3>1. Updates(i)'
      BY <1>1, <1>2, <2>2 DEF Updates
    <3> QED BY <3>1 DEF Shown
  <2>3. CASE request[i].kind \notin {"save", "delete", "put"}
    <3>1. config' = config
      BY <2>3 DEF Handle, HandleSave, HandleDelete, HandlePut, HandleRest
    <3> QED BY <1>3, <2>1, <3>1 DEF ShowInv, Shown
  <2> QED BY <2>2, <2>3
<1> QED BY <1>5, <1>6, <1>9, <1>12, <1>13, <1>14 DEF ShowInv

LEMMA QuietShow == ShowInv /\ (Quiet \/ UNCHANGED vars) => ShowInv'
<1> SUFFICES ASSUME ShowInv, Quiet \/ UNCHANGED vars PROVE ShowInv'
  OBVIOUS
<1>1. UNCHANGED <<request, config, unsure, loaded, ready>>
  BY DEF Quiet, Navigate, Back, EditSettings, OpenModal, OpenTemplate, Edit, Type, Cancel, Ask,
         CancelConfirm, Record, netVars, serverVars, viewVars, vars
<1> QED BY <1>1 DEF ShowInv, AloneIs, SureIsOne, LoadIsFresh, PutIsSaved, Shown, PutFaithful,
                    Updates, Active

LEMMA ClickShow ==
  ASSUME TypeOK, Sane, ShowInv, NEW todo \in Seq(Request), todo # << >>, Click(todo),
         \A k \in 1..Len(todo) : Ready(todo[k]), UNCHANGED <<config, ready, loaded>>,
         \A k \in 1..Len(todo) :
            (todo[k].kind = "put" /\ ~unsure /\ Active(request) = {})
               => todo[k].config.items = config.items
  PROVE  ShowInv'
<1> DEFINE freed == {}
<1>1. PICK new : Sending(freed, todo, new)
  BY ClickSends
<1>2. unsure' = (unsure \/ Active(request) # {} \/ Len(todo) > 1)
  BY ClickSends
<1>3. Active(request) \ freed = Active(request)
  OBVIOUS
<1> HIDE DEF freed
<1>4. Len(todo) \in Nat /\ Len(todo) # 0
  OBVIOUS
<1>5. ~unsure' => ~unsure /\ Active(request) = {} /\ Len(todo) = 1
  <2>1. ~unsure' => ~unsure /\ Active(request) = {} /\ ~(Len(todo) > 1)
    BY <1>2
  <2>2. \A n \in Nat : n # 0 /\ ~(n > 1) => n = 1
    OBVIOUS
  <2> QED BY <1>4, <2>1, <2>2
<1>6. NetInv'
  BY <1>1, <1>3, <1>5, SendsShow
<1>7. Shown'
  <2> SUFFICES ASSUME ~unsure', ready' PROVE loaded' = config'
    BY DEF Shown
  <2>1. ~unsure /\ Active(request) = {}
    BY <1>5
  <2>2. \A j \in 1..Slots : request[j] = Idle
    BY <2>1 DEF Active, Sane, Fits
  <2>3. \A j \in 1..Slots : ~Updates(j)
    BY <2>2, IdleTyped, ConsoleAssumption DEF Updates
  <2> QED BY <2>1, <2>3 DEF ShowInv, Shown
<1> QED BY <1>6, <1>7 DEF ShowInv, NetInv

LEMMA PlainClickShow ==
  ASSUME TypeOK, Sane, ShowInv, NEW todo, PlainAll(todo), Click(todo),
         \A k \in 1..Len(todo) : todo[k].kind # "put", UNCHANGED <<config, ready, loaded>>
  PROVE  ShowInv'
BY ClickShow DEF PlainAll, Plain

LEMMA OneClickShow ==
  ASSUME TypeOK, Sane, ShowInv, NEW q, Ready(q), Click(<<q>>),
         UNCHANGED <<config, ready, loaded>>,
         (q.kind = "put" /\ ~unsure /\ Active(request) = {}) => q.config.items = config.items
  PROVE  ShowInv'
<1> DEFINE todo == <<q>>
<1>1. /\ todo \in Seq(Request) /\ todo # << >> /\ Click(todo)
      /\ \A k \in 1..Len(todo) : todo[k] = q
  BY DEF Ready
<1> HIDE DEF todo
<1> QED BY <1>1, ClickShow

LEMMA ClicksShow == TypeOK /\ SafeInv /\ ShowInv /\ Clicks => ShowInv'
<1> SUFFICES ASSUME TypeOK, SafeInv, ShowInv, Clicks PROVE ShowInv'
  OBVIOUS
<1>1. Sane /\ UNCHANGED <<config, ready, loaded>>
  BY DEF SafeInv, Clicks, Navigate, Login, Refresh, Reload, ReloadDebug, SaveSettings, Save,
         Confirm, serverVars, viewVars
<1>2. /\ \A kind \in {"events", "login", "clear"} : Ready(Sent(kind)) /\ Sent(kind).kind # "put"
      /\ \A then \in {"refresh", "reload"} : Ready(Load(then)) /\ Load(then).kind # "put"
  BY SentReady
<1>3. ASSUME NEW p \in Pages, Navigate(p), p = "deliveryDebug" PROVE ShowInv'
  BY <1>1, <1>2, <1>3, OneClickShow DEF Navigate
<1>4. ASSUME Login PROVE ShowInv'
  BY <1>1, <1>2, <1>4, OneClickShow DEF Login
<1>5. ASSUME Refresh PROVE ShowInv'
  <2>1. CASE Click(<<Load("refresh")>>)
    BY <1>1, <1>2, <2>1, OneClickShow
  <2>2. CASE Click(<<Load("refresh"), Sent("events")>>)
    <3> DEFINE todo == <<Load("refresh"), Sent("events")>>
    <3>1. PlainAll(todo) /\ Click(todo)
      BY <2>2, PlainSent, PlainTwo
    <3>2. \A k \in 1..Len(todo) : todo[k].kind # "put"
      <4>1. Len(todo) = 2 /\ todo[1] = Load("refresh") /\ todo[2] = Sent("events")
        OBVIOUS
      <4>2. \A k \in 1..2 : k = 1 \/ k = 2
        OBVIOUS
      <4> HIDE DEF todo
      <4> QED BY <1>2, <4>1, <4>2
    <3> HIDE DEF todo
    <3> QED BY <1>1, <3>1, <3>2, PlainClickShow
  <2> QED BY <1>5, <2>1, <2>2 DEF Refresh
<1>6. ASSUME Reload PROVE ShowInv'
  BY <1>1, <1>2, <1>6, OneClickShow DEF Reload
<1>7. ASSUME ReloadDebug PROVE ShowInv'
  BY <1>1, <1>2, <1>7, OneClickShow DEF ReloadDebug
<1>8. ASSUME SaveSettings PROVE ShowInv'
  <2> DEFINE cfg == [items |-> loaded.items, settings |-> form]
             q == [Sent("put") EXCEPT !.config = cfg]
  <2>1. ready /\ cfg \in Config /\ cfg.items = loaded.items
    BY <1>8, PutTyped DEF SaveSettings
  <2>2. Click(<<q>>)
    BY <1>8 DEF SaveSettings
  <2> HIDE DEF cfg
  <2>3. Ready(q) /\ q.config = cfg
    BY <2>1, PutReady
  <2> HIDE DEF q
  <2>4. (~unsure /\ Active(request) = {}) => loaded = config
    <3> SUFFICES ASSUME ~unsure, Active(request) = {} PROVE loaded = config
      OBVIOUS
    <3>1. \A j \in 1..Slots : request[j] = Idle
      BY <1>1 DEF Active, Sane, Fits
    <3>2. \A j \in 1..Slots : ~Updates(j)
      BY <3>1, IdleTyped, ConsoleAssumption DEF Updates
    <3> QED BY <2>1, <3>2 DEF ShowInv, Shown
  <2> QED BY <1>1, <2>1, <2>2, <2>3, <2>4, OneClickShow
<1>9. ASSUME NEW k \in Kinds, Save(k) PROVE ShowInv'
  <2> DEFINE q == [Sent("save") EXCEPT !.target = modal[k].target, !.content = modal[k].draft,
                                       !.opened = modal[k].opened]
  <2>1. /\ modal[k].target \in Ids \union Kinds /\ modal[k].draft \in Contents
        /\ modal[k].opened = modal[k].target
    BY DEF TypeOK, SafeInv, EditorHonest
  <2>2. Ready(q) /\ q.kind = "save"
    BY <2>1, SaveReady
  <2>3. Click(<<q>>)
    BY <1>9 DEF Save
  <2> HIDE DEF q
  <2> QED BY <1>1, <2>2, <2>3, OneClickShow
<1>10. ASSUME Confirm PROVE ShowInv'
  <2> DEFINE q == IF confirm = "log" THEN Sent("clear")
                  ELSE [Sent("delete") EXCEPT !.target = confirm]
  <2>1. Ready(q) /\ q.kind # "put"
    BY <1>10, ConfirmNames, SentReady, DeleteReady DEF Confirm
  <2>2. Click(<<q>>)
    BY <1>10 DEF Confirm
  <2> HIDE DEF q
  <2> QED BY <1>1, <2>1, <2>2, OneClickShow
<1> QED BY <1>3, <1>4, <1>5, <1>6, <1>7, <1>8, <1>9, <1>10 DEF Clicks

\* An answer that the page goes on from.
LEMMA GoesOnShow ==
  ASSUME TypeOK, ShowInv, NEW i \in 1..Slots, NEW q, Ready(q), q.kind # "put",
         Finish(i, <<q>>), ~unsure' => Active(request) \subseteq {i}
  PROVE  NetInv' /\ (q.kind = "load" => \E p \in 1..Slots : Updates(p)')
<1> DEFINE freed == {i}
           todo == <<q>>
<1>1. q \in Request
  BY DEF Ready
<1>2. /\ todo \in Seq(Request) /\ Len(todo) = 1 /\ \A k \in 1..Len(todo) : todo[k] = q
  BY <1>1
<1>3. \E new : Sending(freed, todo, new)
  BY <1>1, FinishSends
<1>4. ~unsure' => Active(request) \ freed = {}
  OBVIOUS
<1>5. PICK p \in 1..Slots : request'[p].kind = q.kind
  BY <1>1, <1>3, SendingOneTells
<1> HIDE DEF freed, todo
<1>6. NetInv'
  BY <1>2, <1>3, <1>4, SendsShow
<1> QED BY <1>5, <1>6 DEF Updates

LEMMA ArriveShow ==
  ASSUME TypeOK, SafeInv, ShowInv, NEW i \in 1..Slots, Arrive(i)
  PROVE  ShowInv'
<1>1. Sane
  BY DEF SafeInv
<1>2. i \in Active(request)
  BY DEF Arrive, Saved, GoOn, Loaded, SettingsSaved, Cleared, EventsLoaded, Active
<1>3. ~unsure => Active(request) = {i} /\ (request[i].kind = "load" => request[i].alone)
  BY <1>2 DEF ShowInv, SureIsOne
<1>4. AloneIs
  BY DEF ShowInv
<1>5. ASSUME Saved(i) \/ GoOn(i) PROVE ShowInv'
  <2>1. PICK then \in {"save", "delete", "login"} : Finish(i, <<Load(then)>>)
    BY <1>5 DEF Saved, GoOn, Finish
  <2>2. unsure' = (unsure \/ Active(request) # {i})
    BY <1>5 DEF Saved, GoOn
  <2>3. Ready(Load(then)) /\ Load(then).kind = "load"
    BY SentReady
  <2>4. "load" # "put"
    OBVIOUS
  <2>5. ~unsure' => Active(request) \subseteq {i}
    BY <2>2
  <2>6. NetInv' /\ \E p \in 1..Slots : Updates(p)'
    BY <2>1, <2>3, <2>4, <2>5, GoesOnShow
  <2> QED BY <2>6 DEF ShowInv, NetInv, Shown
<1>6. ASSUME Loaded(i) PROVE ShowInv'
  <2>1. unsure' = IF request[i].alone THEN FALSE ELSE unsure
    BY <1>6 DEF Loaded
  <2>2. request[i].kind = "load" /\ request[i].pc = "handled" /\ loaded' = request[i].config
    BY <1>6 DEF Loaded
  <2>3. ~unsure' => request[i].alone /\ Active(request) = {i}
    BY <1>3, <1>4, <2>1, <2>2 DEF AloneIs
  <2>4. Finish(i, <<Sent("events")>>) \/ Finish(i, << >>)
    BY <1>6 DEF Loaded
  <2>5. config' = config
    BY <2>4 DEF Finish, serverVars
  <2>6. Shown'
    BY <2>2, <2>3, <2>5 DEF ShowInv, LoadIsFresh, Shown
  <2>7. Ready(Sent("events")) /\ Sent("events").kind = "events"
    BY SentReady
  <2>8. "events" # "put"
    OBVIOUS
  <2>9. ~unsure' => Active(request) \subseteq {i}
    BY <2>3
  <2>10. NetInv'
    BY <1>2, <1>4, <2>3, <2>4, <2>7, <2>8, <2>9, GoesOnShow, EndsShow
  <2> QED BY <2>6, <2>10 DEF ShowInv, NetInv
<1>7. ASSUME SettingsSaved(i) PROVE ShowInv'
  <2>1. Finish(i, << >>) /\ unsure' = unsure /\ config' = config
    BY <1>7 DEF SettingsSaved, Finish, serverVars
  <2>2. NetInv'
    BY <1>2, <1>3, <1>4, <2>1, EndsShow
  <2>3. Shown'
    BY <1>7, <2>1 DEF SettingsSaved, ShowInv, PutIsSaved, Shown
  <2> QED BY <2>2, <2>3 DEF ShowInv, NetInv
<1>8. ASSUME Cleared(i) \/ EventsLoaded(i) PROVE ShowInv'
  <2>1. Finish(i, << >>) /\ UNCHANGED <<config, unsure, loaded, ready>>
    BY <1>8 DEF Cleared, EventsLoaded, Finish, serverVars
  <2>2. NetInv'
    BY <1>2, <1>3, <1>4, <2>1, EndsShow
  <2>3. ~Updates(i)
    BY <1>8 DEF Cleared, EventsLoaded, Updates
  <2>4. ASSUME ~unsure, NEW j \in 1..Slots PROVE ~Updates(j)
    <3>1. j # i => request[j] = Idle
      BY <1>1, <1>3, <2>4 DEF Active, Sane, Fits
    <3> QED BY <2>3, <3>1, IdleTyped, ConsoleAssumption DEF Updates
  <2>5. Shown'
    BY <2>1, <2>4 DEF ShowInv, Shown
  <2> QED BY <2>2, <2>5 DEF ShowInv, NetInv
<1> QED BY <1>5, <1>6, <1>7, <1>8 DEF Arrive

LEMMA ErrorShow ==
  ASSUME TypeOK, SafeInv, ShowInv, NEW i \in 1..Slots, NotLoaded(i) \/ Failed(i)
  PROVE  ShowInv'
<1>1. Sane /\ AloneIs
  BY DEF SafeInv, ShowInv
<1>2. i \in Active(request)
  BY <1>1, IdleTyped, ConsoleAssumption DEF NotLoaded, Failed, Sane, Fits, Active
<1>3. ~unsure => Active(request) = {i}
  BY <1>2 DEF ShowInv, SureIsOne
<1>4. Finish(i, << >>) /\ (~unsure' => ~unsure)
  <2>1. CASE NotLoaded(i)
    BY <2>1 DEF NotLoaded
  <2>2. CASE Failed(i)
    <3>1. Finish(i, << >>)
      BY <2>2 DEF Failed
    <3>2. unsure' = (unsure \/ request[i].pc = "handled")
      BY <2>2 DEF Failed
    <3> QED BY <3>1, <3>2
  <2> QED BY <2>1, <2>2
<1>5. NetInv'
  BY <1>1, <1>2, <1>3, <1>4, EndsShow
<1>6. CASE NotLoaded(i)
  <2>1. ~ready'
    BY <1>6 DEF NotLoaded
  <2> QED BY <1>5, <2>1 DEF ShowInv, NetInv, Shown
<1>7. CASE Failed(i)
  <2>1. UNCHANGED <<config, loaded, ready>> /\ (~unsure' => request[i].pc # "handled")
    BY <1>4, <1>7 DEF Failed, Finish, serverVars, viewVars
  <2>2. request[i].kind # "load"
    BY <1>7 DEF Failed
  <2>3. ASSUME ~unsure', NEW j \in 1..Slots PROVE ~Updates(j)
    <3>1. j # i => request[j] = Idle
      BY <1>1, <1>3, <1>4, <2>3 DEF Active, Sane, Fits
    <3>2. ~Updates(i)
      BY <2>1, <2>2, <2>3 DEF Updates
    <3> QED BY <3>1, <3>2, IdleTyped, ConsoleAssumption DEF Updates
  <2>4. Shown'
    BY <1>4, <2>1, <2>3 DEF ShowInv, Shown
  <2> QED BY <1>5, <2>4 DEF ShowInv, NetInv
<1> QED BY <1>6, <1>7

-----------------------------------------------------------------------------
(* The theorems.                                                           *)

LEMMA StartHolds == Init => IInv
<1> SUFFICES ASSUME Init PROVE IInv
  OBVIOUS
<1> DEFINE first == [Load("refresh") EXCEPT !.alone = TRUE]
<1>1. TypeOK
  BY StartTyped
<1>2. 1 \in 1..Slots
  BY ConsoleAssumption
<1>3. \A i \in 1..Slots : request[i] = IF i = 1 THEN first ELSE Idle
  BY DEF Init
<1>4. /\ first.pc = "sent" /\ first.kind = "load" /\ first.then = "refresh" /\ first.list = {}
      /\ first.alone = TRUE
  BY DEF Load, Sent, Idle
<1> HIDE DEF first
<1>5. Fits(first) /\ Fits(Idle)
  BY <1>4, IdleTyped, ConsoleAssumption DEF Fits
<1>6. Sane
  BY <1>3, <1>4, <1>5, IdleTyped DEF Sane
<1>7. EditorHonest
  BY DEF Init, EditorHonest, Closed
<1>8. \A i \in 1..Slots : ~Awaited(i)
  BY <1>3, <1>4, IdleTyped, ConsoleAssumption DEF Awaited
<1>9. OneDialog /\ DialogTellsTruth
  BY <1>8 DEF OneDialog, DialogTellsTruth, Awaited, Active
<1>10. Active(request) = {1}
  BY <1>2, <1>3, <1>4, IdleTyped DEF Active
<1>11. AloneIs /\ SureIsOne
  BY <1>2, <1>3, <1>4, <1>10, IdleTyped DEF AloneIs, SureIsOne
<1>12. \A i \in 1..Slots : request[i].pc # "handled" /\ request[i].kind # "put"
  BY <1>3, <1>4, IdleTyped, ConsoleAssumption
<1>13. LoadIsFresh /\ PutIsSaved /\ PutFaithful
  BY <1>12 DEF LoadIsFresh, PutIsSaved, PutFaithful
<1>14. Shown
  BY DEF Init, Shown
<1> QED BY <1>1, <1>6, <1>7, <1>9, <1>11, <1>13, <1>14 DEF IInv, SafeInv, ShowInv

LEMMA StepHolds == IInv /\ [Next]_vars => IInv'
<1> SUFFICES ASSUME IInv, [Next]_vars PROVE IInv'
  OBVIOUS
<1>1. TypeOK /\ SafeInv /\ ShowInv /\ Sane /\ EditorHonest
  BY DEF IInv, SafeInv
<1>2. TypeOK'
  BY <1>1, TypeStep
<1>3. SafeInv'
  BY <1>1, SafeStep
<1>4. ShowInv'
  <2>1. CASE Quiet \/ UNCHANGED vars
    BY <1>1, <2>1, QuietShow
  <2>2. CASE Clicks
    BY <1>1, <2>2, ClicksShow
  <2>3. ASSUME NEW i \in 1..Slots, Handle(i) \/ Arrive(i) \/ NotLoaded(i) \/ Failed(i)
        PROVE  ShowInv'
    BY <1>1, <2>3, HandleShow, ArriveShow, ErrorShow
  <2> QED BY <2>1, <2>2, <2>3, StepKinds
<1> QED BY <1>2, <1>3, <1>4 DEF IInv

LEMMA Invariance == Spec => []IInv
<1> QED BY StartHolds, StepHolds, PTL DEF Spec

\* While something is being removed, the dialog that asked is there and says
\* what, whatever requests run beside it and whatever they come to.
THEOREM DialogAlwaysTellsTruth == Spec => []DialogTellsTruth
<1>1. IInv => DialogTellsTruth
  BY DEF IInv, SafeInv
<1> QED BY <1>1, Invariance, PTL

\* Whenever nothing is under way, no requests have overlapped and no answer was
\* lost since the last load that was alone, the page shows what is saved.
THEOREM ShownIsAlwaysSaved == Spec => []ShownIsSaved
<1>1. IInv => ShownIsSaved
  <2> SUFFICES ASSUME IInv, Active(request) = {}, ready, ~unsure PROVE loaded = config
    BY DEF IInv, ShownIsSaved
  <2>1. \A j \in 1..Slots : request[j] = Idle
    BY DEF Active, Sane, Fits, IInv, SafeInv
  <2>2. \A j \in 1..Slots : ~Updates(j)
    BY <2>1, IdleTyped, ConsoleAssumption DEF Updates
  <2> QED BY <2>2 DEF IInv, ShowInv, Shown
<1> QED BY <1>1, Invariance, PTL

\* What changes an item is a save of the editor to what it was opened for, a
\* deletion of what the dialog names, or settings that were sent from a page
\* that may have been behind or beside another request: of those nothing is
\* said, and they may undo any change.  Settings sent alone from a page that
\* shows what is saved change no item (App.tsx:686-748, 777-806).
THEOREM ItemsChangeAsAsked == Spec => OnlyAskedChanges
<1> DEFINE Asked(x) ==
      \E i \in 1..Slots :
         /\ Handling(i)
         /\ LET req == request[i]
            IN  \/ /\ req.kind = "save" /\ config'.items[x] = req.content
                   /\ req.opened = x \/ (req.opened = KindOf[x] /\ x \notin used)
                \/ req.kind = "delete" /\ confirm = x /\ config'.items[x] = None
                \/ req.kind = "put" /\ ~(req.sure /\ req.alone)
<1>1. ASSUME IInv, Next, NEW x \in Ids, config'.items[x] # config.items[x] PROVE Asked(x)
  <2>1. TypeOK /\ Sane /\ DialogTellsTruth /\ PutFaithful
    BY <1>1 DEF IInv, SafeInv, ShowInv
  <2>2. PICK i \in 1..Slots : Handle(i)
    <3>1. config' # config
      BY <1>1
    <3> QED BY <1>1, <3>1 DEF Next, Navigate, Back, Login, Refresh, Reload, ReloadDebug,
              SaveSettings, EditSettings, OpenModal, OpenTemplate, Cancel, Save, Type, Edit, Ask,
              CancelConfirm, Confirm, Record, Arrive, Saved, GoOn, Loaded, SettingsSaved, Cleared,
              EventsLoaded, NotLoaded, Failed, Finish, serverVars
  <2>3. Handling(i) /\ request[i].pc = "sent"
    <3>1. Answering(i)
      BY <2>1, <2>2, HandleAnswers
    <3> QED BY <2>1, <3>1 DEF Answering, Handling, TypeOK
  <2>4. CASE HandleSave(i)
    <3>1. PICK y \in Ids :
               /\ config'.items[y] = request[i].content
               /\ \A z \in Ids \ {y} : config'.items[z] = config.items[z]
               /\ \/ request[i].opened = y
                  \/ request[i].opened = KindOf[y] /\ y \notin used
      BY <2>1, <2>4, SaveChanges
    <3>2. y = x
      BY <1>1, <3>1
    <3>3. request[i].kind = "save"
      BY <2>4 DEF HandleSave
    <3> QED BY <2>3, <3>1, <3>2, <3>3
  <2>5. CASE HandleDelete(i)
    <3>1. /\ config'.items[request[i].target] = None
          /\ \A y \in Ids \ {request[i].target} : config'.items[y] = config.items[y]
      BY <2>1, <2>5, DeleteChanges
    <3>2. request[i].target = x
      BY <1>1, <3>1
    <3>3. request[i].kind = "delete"
      BY <2>5 DEF HandleDelete
    <3>4. confirm = x
      BY <2>1, <2>3, <3>2, <3>3 DEF DialogTellsTruth, Active
    <3> QED BY <2>3, <3>1, <3>2, <3>3, <3>4
  <2>6. CASE HandlePut(i)
    <3>1. request[i].kind = "put" /\ config' = request[i].config
      BY <2>6 DEF HandlePut
    <3>2. ~(request[i].sure /\ request[i].alone)
      BY <1>1, <2>1, <2>3, <3>1 DEF PutFaithful
    <3> QED BY <2>3, <3>1, <3>2
  <2>7. ~HandleRest(i)
    BY <1>1 DEF HandleRest
  <2> QED BY <2>2, <2>4, <2>5, <2>6, <2>7 DEF Handle
<1>2. IInv /\ [Next]_vars => [\A x \in Ids : config'.items[x] # config.items[x] => Asked(x)]_vars
  BY <1>1
<1> QED BY <1>2, Invariance, PTL DEF Spec, OnlyAskedChanges

-----------------------------------------------------------------------------
(* The tester of code projects (CodeTester).                               *)

\* What passes ValidateProject, and what a reply carries.
Good == [pattern : Compiling, source : KnownSources]
Replies == [kind : {"failed", "refused", "error", "matches", "suggestions"},
            found : BOOLEAN, items : SUBSET Good]

\* The panel and a request, with all they hold.
Panel == [message : Messages, project : Projects, pattern : Patterns,
          source : KnownSources, applied : BOOLEAN,
          matches : Result \union {Nothing}, suggestions : Result \union {Nothing}]
Asked == [pc : {"idle", "sent", "settings", "responses", "chat", "answered"},
          message : Messages \union {Nothing}, project : Projects \union {Nothing},
          pattern : Patterns \union {Nothing}, source : KnownSources \union {Nothing},
          applied : BOOLEAN, late : BOOLEAN, mode : Modes, reply : Replies]

TesterType ==
    /\ stored \subseteq Messages /\ openai \in AISettings
    /\ panel \in Panel /\ asked \in [Buttons -> Asked]

\* What a request asks for: of a mail and a project, and if a suggestion has
\* been applied, of a pattern that compiles and a source there is.
Asks(b, req) ==
    /\ req.pc # "idle" => req.message \in Messages /\ req.project \in Projects
    /\ req.pc \in {"settings", "responses", "chat"} => b = "suggest"
    /\ req.applied => req.pattern \in Compiling /\ req.source \in KnownSources
    /\ req.applied => req.reply # Refused

\* It is about what the panel shows, unless it is late.
Current(req) ==
    req.pc # "idle" /\ ~req.late =>
        req.message = panel.message /\ req.project = panel.project

TesterInv ==
    /\ TesterType
    /\ panel.applied => panel.pattern \in Compiling
    /\ \A b \in Buttons : Asks(b, asked[b]) /\ Current(asked[b])
    /\ ShownBelongsHere

\* The replies there are.
LEMMA RepliesAre ==
  /\ NoAnswer \in Replies /\ Refused \in Replies /\ AIError \in Replies
  /\ \A found \in BOOLEAN : Matches(found) \in Replies
  /\ \A items \in SUBSET Good : Suggestions(items) \in Replies
  /\ NoAnswer # Refused /\ AIError # Refused
  /\ \A found \in BOOLEAN : Matches(found) # Refused
  /\ \A items \in SUBSET Good : Suggestions(items) # Refused
<1> USE DEF Replies, NoAnswer, Refused, AIError, Matches,
            Suggestions
<1>1. NoAnswer \in Replies /\ Refused \in Replies /\ AIError \in Replies
  OBVIOUS
<1>2. \A found \in BOOLEAN : Matches(found) \in Replies
  OBVIOUS
<1>3. \A items \in SUBSET Good : Suggestions(items) \in Replies
  OBVIOUS
<1>4. Refused.kind = "refused" /\ NoAnswer.kind = "failed" /\ AIError.kind = "error"
  OBVIOUS
<1>5. \A found : Matches(found).kind = "matches"
  OBVIOUS
<1>6. \A items : Suggestions(items).kind = "suggestions"
  OBVIOUS
<1>7. /\ NoAnswer # Refused /\ AIError # Refused
      /\ \A found : Matches(found) # Refused
      /\ \A items : Suggestions(items) # Refused
  BY <1>4, <1>5, <1>6
<1> QED BY <1>1, <1>2, <1>3, <1>7

\* What is suggested after the checks can be tested.
LEMMA SuggestionsAreGood ==
  ASSUME NEW text PROVE NormalizeRegexSuggestions(text) \subseteq Good
BY DEF NormalizeRegexSuggestions, Good, KnownSources

LEMMA IdleIs ==
  /\ Unasked \in Asked /\ Unasked.pc = "idle" /\ ~Unasked.applied
  /\ \A b : Asks(b, Unasked)
  /\ Current(Unasked)
<1>1. Unasked \in Asked
  BY RepliesAre DEF Unasked, Asked, Modes
<1>2. Unasked.pc = "idle" /\ ~Unasked.applied
  BY DEF Unasked
<1> QED BY <1>1, <1>2 DEF Asks, Current

LEMMA TesterInvInit == ASSUME TesterInit PROVE TesterInv
<1>1. PICK m \in Messages, p \in Projects :
        panel = [message |-> m, project |-> p, pattern |-> PatternOf[p], source |-> "all",
                 applied |-> FALSE, matches |-> Nothing, suggestions |-> Nothing]
  BY DEF TesterInit
<1>2. PatternOf[p] \in Patterns /\ "all" \in KnownSources
  BY TesterAssumption DEF KnownSources
<1>3. panel \in Panel /\ ~panel.applied
  BY <1>1, <1>2 DEF Panel
<1>4. asked \in [Buttons -> Asked] /\ \A b \in Buttons : asked[b] = Unasked
  BY IdleIs DEF TesterInit
<1>5. ShownBelongsHere
  BY <1>1 DEF ShownBelongsHere
<1>6. stored \subseteq Messages /\ openai \in AISettings
  BY DEF TesterInit
<1> QED BY <1>3, <1>4, <1>5, <1>6, IdleIs DEF TesterInv, TesterType

\* A step of one request that leaves the panel alone.
LEMMA OneAsked ==
  ASSUME TesterInv, NEW b \in Buttons, NEW new \in Asked,
         asked' = [asked EXCEPT ![b] = new], UNCHANGED <<stored, openai, panel>>,
         Asks(b, new), Current(new)
  PROVE  TesterInv'
<1>1. /\ asked' \in [Buttons -> Asked]
      /\ \A c \in Buttons : asked'[c] = IF c = b THEN new ELSE asked[c]
  BY DEF TesterInv, TesterType
<1>2. ASSUME NEW c \in Buttons PROVE Asks(c, asked'[c]) /\ Current(asked[c])'
  <2>1. Asks(c, asked[c]) /\ Current(asked[c])
    BY DEF TesterInv
  <2>2. CASE c = b
    BY <1>1, <2>2 DEF Current
  <2>3. CASE c # b
    BY <1>1, <2>1, <2>3 DEF Current
  <2> QED BY <2>2, <2>3
<1>3. ShownBelongsHere'
  BY DEF TesterInv, ShownBelongsHere
<1>4. TesterType' /\ (panel'.applied => panel'.pattern \in Compiling)
  BY <1>1 DEF TesterInv, TesterType
<1> QED BY <1>2, <1>3, <1>4 DEF TesterInv

\* The handler goes on with a request it has let through.
LEMMA GoesOn ==
  ASSUME TesterInv, NEW b \in Buttons, asked[b].pc # "idle", UNCHANGED <<stored, openai, panel>>,
         NEW pc \in {"sent", "settings", "responses", "chat", "answered"}, NEW mode \in Modes,
         NEW reply \in Replies, pc # "answered" => b = "suggest",
         asked[b].applied => reply # Refused,
         asked' = [asked EXCEPT ![b] = [asked[b] EXCEPT !.pc = pc, !.mode = mode, !.reply = reply]]
  PROVE  TesterInv'
<1> DEFINE old == asked[b]
           new == [old EXCEPT !.pc = pc, !.mode = mode, !.reply = reply]
<1>1. old \in Asked /\ Asks(b, old) /\ Current(old)
  BY DEF TesterInv, TesterType
<1>2. /\ new \in Asked /\ new.pc = pc /\ new.reply = reply /\ new.message = old.message
      /\ new.project = old.project /\ new.pattern = old.pattern /\ new.source = old.source
      /\ new.applied = old.applied /\ new.late = old.late
  BY <1>1 DEF Asked
<1>3. Asks(b, new) /\ Current(new)
  <2> HIDE DEF new
  <2> QED BY <1>1, <1>2 DEF Asks, Current
<1> HIDE DEF new
<1> QED BY <1>2, <1>3, OneAsked DEF new

\* It answers.
LEMMA AnswerKeeps ==
  ASSUME TesterInv, NEW b \in Buttons, asked[b].pc # "idle", UNCHANGED <<stored, openai, panel>>,
         NEW reply \in Replies, asked[b].applied => reply # Refused, Reply(b, reply)
  PROVE  TesterInv'
<1> DEFINE old == asked[b]
<1>1. old \in Asked
  BY DEF TesterInv, TesterType
<1>2. [old EXCEPT !.pc = "answered", !.reply = reply]
        = [old EXCEPT !.pc = "answered", !.mode = old.mode, !.reply = reply]
  BY <1>1 DEF Asked
<1>3. asked' = [asked EXCEPT ![b] = [old EXCEPT !.pc = "answered", !.reply = reply]]
  BY <1>1 DEF Reply, TesterInv, TesterType
<1>4. asked' = [asked EXCEPT ![b] =
                   [old EXCEPT !.pc = "answered", !.mode = old.mode, !.reply = reply]]
  BY <1>2, <1>3
<1>5. old.mode \in Modes
  BY <1>1 DEF Asked
<1> QED BY <1>4, <1>5, GoesOn

LEMMA HandlerKeeps ==
  ASSUME TesterInv, NEW b \in Buttons, HandleTest(b)
  PROVE  TesterInv'
<1>1. /\ asked[b].pc = "sent" /\ UNCHANGED <<stored, openai, panel>>
      /\ asked[b] \in Asked /\ Asks(b, asked[b])
  BY DEF HandleTest, OnlyAsked, TesterInv, TesterType
<1>2. ASSUME Reply(b, NoAnswer) PROVE TesterInv'
  BY <1>1, <1>2, AnswerKeeps, RepliesAre
<1>3. ASSUME ~ValidateProject(asked[b]), Reply(b, Refused) PROVE TesterInv'
  <2>1. ~asked[b].applied
    BY <1>1, <1>3 DEF Asks, ValidateProject
  <2> QED BY <1>1, <1>3, <2>1, AnswerKeeps, RepliesAre
<1>4. ASSUME NEW found \in BOOLEAN, Reply(b, Matches(found)) PROVE TesterInv'
  BY <1>1, <1>4, AnswerKeeps, RepliesAre
<1>5. ASSUME b = "suggest", asked' = [asked EXCEPT ![b].pc = "settings"] PROVE TesterInv'
  <2> DEFINE old == asked[b]
  <2>1. [old EXCEPT !.pc = "settings"]
          = [old EXCEPT !.pc = "settings", !.mode = old.mode, !.reply = old.reply]
    BY <1>1 DEF Asked
  <2>2. asked' = [asked EXCEPT ![b] = [old EXCEPT !.pc = "settings"]]
    BY <1>5
  <2>3. old.mode \in Modes /\ old.reply \in Replies
    BY <1>1 DEF Asked
  <2>4. old.applied => old.reply # Refused
    BY <1>1 DEF Asks
  <2>5. asked' = [asked EXCEPT ![b] =
                     [old EXCEPT !.pc = "settings", !.mode = old.mode, !.reply = old.reply]]
    BY <2>1, <2>2
  <2>6. \A pc : pc # "answered" => b = "suggest"
    BY <1>5
  <2> QED BY <1>1, <2>3, <2>4, <2>5, <2>6, GoesOn
<1>6. b = "test" \/ b = "suggest"
  BY DEF Buttons
<1> DEFINE found == <<asked[b].pattern, asked[b].message>> \in Finds
<1>7. found \in BOOLEAN
  OBVIOUS
<1>8. \/ Reply(b, NoAnswer)
      \/ ~ValidateProject(asked[b]) /\ Reply(b, Refused)
      \/ Reply(b, Matches(found))
      \/ b = "suggest" /\ asked' = [asked EXCEPT ![b].pc = "settings"]
  BY <1>6 DEF HandleTest
<1> HIDE DEF found
<1> QED BY <1>2, <1>3, <1>4, <1>5, <1>7, <1>8

\* What the request for suggestions does with the APIs.
APIStep ==
    \/ SuggestRegex \/ APIFails \/ FallBack \/ Deadline
    \/ \E text \in Texts : APISuggests(text)

LEMMA APIKeeps ==
  ASSUME TesterInv, APIStep
  PROVE  TesterInv'
<1> DEFINE old == asked["suggest"]
<1>1. "suggest" \in Buttons /\ old \in Asked /\ Asks("suggest", old)
  BY DEF TesterInv, TesterType, Buttons
<1>2. /\ old.mode \in Modes /\ old.reply \in Replies
      /\ old.applied => old.reply # Refused
  BY <1>1 DEF Asked, Asks
<1>3. old.pc # "idle" /\ UNCHANGED <<stored, openai, panel>>
  BY DEF APIStep, SuggestRegex, APIFails, FallBack, Deadline,
         APISuggests, OnlyAsked
<1>4. ASSUME Reply("suggest", AIError) PROVE TesterInv'
  BY <1>1, <1>3, <1>4, AnswerKeeps, RepliesAre
<1>5. ASSUME NEW text, APISuggests(text) PROVE TesterInv'
  <2>1. NormalizeRegexSuggestions(text) \in SUBSET Good
    BY SuggestionsAreGood
  <2> QED BY <1>1, <1>3, <1>5, <2>1, AnswerKeeps, RepliesAre DEF APISuggests
<1>6. ASSUME NEW pc \in {"responses", "chat"}, NEW mode \in Modes,
             asked' = [asked EXCEPT !["suggest"] = [old EXCEPT !.pc = pc, !.mode = mode]]
      PROVE  TesterInv'
  <2>1. [old EXCEPT !.pc = pc, !.mode = mode]
          = [old EXCEPT !.pc = pc, !.mode = mode, !.reply = old.reply]
    BY <1>1 DEF Asked
  <2>2. asked' = [asked EXCEPT !["suggest"] =
                     [old EXCEPT !.pc = pc, !.mode = mode, !.reply = old.reply]]
    BY <1>6, <2>1
  <2> QED BY <1>1, <1>2, <1>3, <2>2, GoesOn
<1>7. ASSUME SuggestRegex PROVE TesterInv'
  <2>1. CASE Reply("suggest", AIError)
    BY <1>4, <2>1
  <2>2. ASSUME NEW pc \in {"responses", "chat"},
               asked' = [asked EXCEPT !["suggest"].pc = pc, !["suggest"].mode = openai.mode]
        PROVE  TesterInv'
    <3>1. openai.mode \in Modes
      BY TesterAssumption DEF TesterInv, TesterType
    <3>2. asked' = [asked EXCEPT !["suggest"] = [old EXCEPT !.pc = pc, !.mode = openai.mode]]
      BY <1>1, <2>2 DEF TesterInv, TesterType
    <3> QED BY <1>6, <3>1, <3>2
  <2> QED BY <1>7, <2>1, <2>2 DEF SuggestRegex
<1>8. ASSUME FallBack PROVE TesterInv'
  <2>1. [old EXCEPT !.pc = "chat"] = [old EXCEPT !.pc = "chat", !.mode = old.mode]
    BY <1>1 DEF Asked
  <2>2. asked' = [asked EXCEPT !["suggest"] = [old EXCEPT !.pc = "chat"]]
    BY <1>8 DEF FallBack
  <2> QED BY <1>2, <1>6, <2>1, <2>2
<1> QED BY <1>4, <1>5, <1>7, <1>8 DEF APIStep, APIFails, Deadline

\* The administrator goes elsewhere: nothing is shown, and every request that
\* is under way is late.
LEMMA ShowKeeps ==
  ASSUME TesterInv, NEW m \in Messages, NEW p \in Projects,
         Show(m, p)
  PROVE  TesterInv'
<1>1. panel' = [message |-> m, project |-> p, pattern |-> PatternOf[p], source |-> "all",
                applied |-> FALSE, matches |-> Nothing, suggestions |-> Nothing]
  BY DEF Show
<1>2. PatternOf[p] \in Patterns /\ "all" \in KnownSources
  BY TesterAssumption DEF KnownSources
<1>3. panel' \in Panel /\ ~panel'.applied
  BY <1>1, <1>2 DEF Panel
<1>4. ShownBelongsHere'
  BY <1>1 DEF ShownBelongsHere
<1>5. /\ UNCHANGED <<stored, openai>>
      /\ asked' = [b \in Buttons |-> [asked[b] EXCEPT !.late = @ \/ asked[b].pc # "idle"]]
  BY DEF Show, Server
<1>6. ASSUME NEW b \in Buttons
      PROVE  asked'[b] \in Asked /\ Asks(b, asked'[b]) /\ Current(asked[b])'
  <2> DEFINE old == asked[b]
             late == old.late \/ old.pc # "idle"
             new == [old EXCEPT !.late = late]
  <2>1. old \in Asked /\ Asks(b, old) /\ asked'[b] = new
    BY <1>5 DEF TesterInv, TesterType
  <2>2. late \in BOOLEAN
    OBVIOUS
  <2>3. late \/ old.pc = "idle"
    OBVIOUS
  <2> HIDE DEF late
  <2>4. /\ new \in Asked /\ new.pc = old.pc /\ new.late = late /\ new.message = old.message
        /\ new.project = old.project /\ new.pattern = old.pattern /\ new.source = old.source
        /\ new.applied = old.applied /\ new.reply = old.reply
    BY <2>1, <2>2 DEF Asked
  <2> HIDE DEF new
  <2>5. Asks(b, new)
    BY <2>1, <2>4 DEF Asks
  <2>6. new.pc = "idle" \/ new.late
    BY <2>3, <2>4
  <2> QED BY <2>1, <2>4, <2>5, <2>6 DEF Current
<1>7. asked' \in [Buttons -> Asked]
  BY <1>5, <1>6
<1>8. stored' \subseteq Messages /\ openai' \in AISettings
  BY <1>5 DEF TesterInv, TesterType
<1> QED BY <1>3, <1>4, <1>6, <1>7, <1>8 DEF TesterInv, TesterType

\* The panel of the same mail and project with other results.
LEMMA SamePanel ==
  ASSUME TesterInv, panel' \in Panel, panel'.applied => panel'.pattern \in Compiling,
         UNCHANGED <<stored, openai>>, UNCHANGED panel.message, UNCHANGED panel.project,
         \A results \in {panel'.matches, panel'.suggestions} \ {Nothing} :
            \/ results \in {panel.matches, panel.suggestions}
            \/ results.about \in {<<panel.message, panel.project>>, Nothing},
         asked' \in [Buttons -> Asked],
         \A b \in Buttons : asked'[b] = asked[b] \/ asked'[b] = Unasked
  PROVE  TesterInv'
<1>1. ASSUME NEW b \in Buttons PROVE Asks(b, asked'[b]) /\ Current(asked[b])'
  <2>1. Asks(b, asked[b]) /\ Current(asked[b])
    BY DEF TesterInv
  <2>2. CASE asked'[b] = asked[b]
    BY <2>1, <2>2 DEF Current
  <2>3. CASE asked'[b] = Unasked
    BY <2>3, IdleIs DEF Current
  <2> QED BY <2>2, <2>3
<1>2. ShownBelongsHere'
  BY DEF TesterInv, ShownBelongsHere
<1>3. TesterType'
  BY DEF TesterInv, TesterType
<1> QED BY <1>1, <1>2, <1>3 DEF TesterInv

LEMMA PanelKeeps ==
  ASSUME TesterInv,
         \/ \E pattern \in Patterns : EditPattern(pattern)
         \/ \E item \in Suggestion : ApplySuggestion(item)
  PROVE  TesterInv'
<1>1. panel \in Panel /\ asked \in [Buttons -> Asked]
  BY DEF TesterInv, TesterType
<1>2. UNCHANGED <<stored, openai, asked>>
  BY DEF EditPattern, ApplySuggestion, Server
<1>3. ASSUME NEW pattern \in Patterns, EditPattern(pattern) PROVE TesterInv'
  <2>1. panel' = [panel EXCEPT !.pattern = pattern, !.applied = FALSE]
    BY <1>3 DEF EditPattern
  <2>2. /\ panel' \in Panel /\ ~panel'.applied
        /\ panel'.message = panel.message /\ panel'.project = panel.project
        /\ panel'.matches = panel.matches /\ panel'.suggestions = panel.suggestions
    BY <1>1, <2>1 DEF Panel
  <2> QED BY <1>1, <1>2, <2>2, SamePanel
<1>4. ASSUME NEW item, ApplySuggestion(item) PROVE TesterInv'
  <2>1. /\ panel.suggestions # Nothing /\ item \in panel.suggestions.items
        /\ panel' = [panel EXCEPT !.pattern = item.pattern, !.source = item.source,
                                  !.applied = TRUE, !.matches = Nothing]
    BY <1>4 DEF ApplySuggestion
  <2>2. panel.suggestions \in Result
    BY <1>1, <2>1 DEF Panel
  <2>3. item \in Good
    BY <2>1, <2>2 DEF Result, Good
  <2>4. item.pattern \in Compiling /\ item.pattern \in Patterns /\ item.source \in KnownSources
    BY <2>3, TesterAssumption DEF Good
  <2>5. /\ panel' \in Panel /\ panel'.pattern \in Compiling
        /\ panel'.message = panel.message /\ panel'.project = panel.project
        /\ panel'.matches = Nothing /\ panel'.suggestions = panel.suggestions
    BY <1>1, <2>1, <2>4 DEF Panel
  <2> QED BY <1>1, <1>2, <2>5, SamePanel
<1> QED BY <1>3, <1>4

LEMMA ArriveKeeps ==
  ASSUME TesterInv, NEW b \in Buttons, Receive(b)
  PROVE  TesterInv'
<1> DEFINE req == asked[b]
           results == ResultsOf(req)
<1>1. panel \in Panel /\ asked \in [Buttons -> Asked] /\ req \in Asked
  BY DEF TesterInv, TesterType
<1>2. Asks(b, req) /\ Current(req) /\ req.pc = "answered"
  BY DEF TesterInv, Receive
<1>3. req.message \in Messages /\ req.project \in Projects
  BY <1>2 DEF Asks
<1>4. req.reply.found \in BOOLEAN /\ req.reply.items \subseteq Good
  BY <1>1 DEF Asked, Replies
<1>5. /\ results.about = IF req.late THEN Nothing ELSE <<req.message, req.project>>
      /\ results.found = req.reply.found /\ results.items = req.reply.items
      /\ results = [about |-> results.about, found |-> results.found, items |-> results.items]
  BY DEF ResultsOf
<1>6. results.about \in (Messages \X Projects) \union {Nothing}
  BY <1>3, <1>5
<1>7. results \in Result
  <2> DEFINE about == results.about  found == results.found  items == results.items
  <2>1. found \in BOOLEAN /\ items \in SUBSET [pattern : Compiling, source : KnownSources]
    BY <1>4, <1>5 DEF Good
  <2>2. results = [about |-> about, found |-> found, items |-> items]
    BY <1>5
  <2>3. about \in (Messages \X Projects) \union {Nothing}
    BY <1>6
  <2> HIDE DEF about, found, items, results
  <2> QED BY <2>1, <2>2, <2>3 DEF Result
<1>8. results.about \in {<<panel.message, panel.project>>, Nothing}
  <2>1. CASE req.late
    BY <1>5, <2>1
  <2>2. CASE ~req.late
    BY <1>2, <1>5, <2>2 DEF Current
  <2> QED BY <2>1, <2>2
<1> HIDE DEF results
<1>9. /\ \/ panel' = [panel EXCEPT !.matches = results]
         \/ panel' = [panel EXCEPT !.suggestions = results]
         \/ panel' = panel
      /\ UNCHANGED <<stored, openai>>
      /\ asked' = [asked EXCEPT ![b] = Unasked]
  BY DEF Receive, Server, results
<1>10. /\ panel' \in Panel /\ panel'.message = panel.message /\ panel'.project = panel.project
       /\ panel'.applied = panel.applied /\ panel'.pattern = panel.pattern
       /\ panel'.matches \in {panel.matches, results}
       /\ panel'.suggestions \in {panel.suggestions, results}
  BY <1>1, <1>7, <1>9 DEF Panel
<1>11. /\ asked' \in [Buttons -> Asked]
       /\ \A c \in Buttons : asked'[c] = asked[c] \/ asked'[c] = Unasked
  BY <1>1, <1>9, IdleIs
<1>12. panel'.applied => panel'.pattern \in Compiling
  BY <1>10 DEF TesterInv
<1>13. \A r \in {panel'.matches, panel'.suggestions} \ {Nothing} :
          \/ r \in {panel.matches, panel.suggestions}
          \/ r.about \in {<<panel.message, panel.project>>, Nothing}
  BY <1>8, <1>10
<1> QED BY <1>9, <1>10, <1>11, <1>12, <1>13, SamePanel

\* The button sends what the panel holds, and what has been applied compiles.
LEMMA SendKeeps ==
  ASSUME TesterInv, NEW b \in Buttons, Send(b)
  PROVE  TesterInv'
<1> DEFINE new == [Unasked EXCEPT !.pc = "sent", !.message = panel.message,
                     !.project = panel.project, !.pattern = panel.pattern,
                     !.source = panel.source, !.applied = panel.applied]
<1>1. panel \in Panel /\ asked[b] \in Asked /\ (panel.applied => panel.pattern \in Compiling)
  BY DEF TesterInv, TesterType
<1>2. /\ panel.message \in Messages /\ panel.project \in Projects /\ panel.pattern \in Patterns
      /\ panel.source \in KnownSources /\ panel.applied \in BOOLEAN
  BY <1>1 DEF Panel
<1>3. /\ new \in Asked /\ new.pc = "sent" /\ new.message = panel.message
      /\ new.project = panel.project /\ new.pattern = panel.pattern /\ new.source = panel.source
      /\ new.applied = panel.applied /\ new.reply = NoAnswer
  <2>1. Unasked \in Asked /\ Unasked.reply = NoAnswer
    BY IdleIs DEF Unasked
  <2> QED BY <1>2, <2>1 DEF Asked
<1>4. asked' = [asked EXCEPT ![b] = new] /\ UNCHANGED <<stored, openai, panel>>
  BY DEF Send, Server
<1> HIDE DEF new
<1>5. Asks(b, new) /\ Current(new)
  BY <1>1, <1>2, <1>3, RepliesAre DEF Asks, Current
<1> QED BY <1>3, <1>4, <1>5, OneAsked

LEMMA TesterInvStep ==
  ASSUME TesterInv, [TesterNext]_(testerVars)
  PROVE  TesterInv'
<1>1. ASSUME UNCHANGED <<panel, asked>>, stored' \subseteq stored, openai' \in AISettings
      PROVE  TesterInv'
  <2>1. TesterType' /\ ShownBelongsHere'
    BY <1>1 DEF TesterInv, TesterType, ShownBelongsHere
  <2>2. \A b \in Buttons : Asks(b, asked'[b]) /\ Current(asked[b])'
    BY <1>1 DEF TesterInv, Current
  <2> QED BY <1>1, <2>1, <2>2 DEF TesterInv
<1>2. openai \in AISettings
  BY DEF TesterInv, TesterType
<1>3. ASSUME NEW m \in Messages, Sweep(m) PROVE TesterInv'
  BY <1>1, <1>2, <1>3 DEF Sweep
<1>4. ASSUME NEW settings \in AISettings, Configure(settings) PROVE TesterInv'
  BY <1>1, <1>4 DEF Configure
<1>5. ASSUME UNCHANGED testerVars PROVE TesterInv'
  BY <1>1, <1>2, <1>5 DEF testerVars
<1>6. ASSUME NEW b \in Buttons, Send(b) \/ HandleTest(b) \/ Receive(b)
      PROVE  TesterInv'
  BY <1>6, SendKeeps, HandlerKeeps, ArriveKeeps
<1>7. CASE APIStep
  BY <1>7, APIKeeps
<1> QED BY <1>3, <1>4, <1>5, <1>6, <1>7, ShowKeeps, PanelKeeps DEF TesterNext, APIStep

LEMMA TesterInvInvariant == TesterSpec => []TesterInv
<1>1. TesterInit => TesterInv
  BY TesterInvInit
<1>2. TesterInv /\ [TesterNext]_(testerVars) => TesterInv'
  BY TesterInvStep
<1> QED BY <1>1, <1>2, PTL DEF TesterSpec

\* A suggestion that was applied can be tested: the server does not refuse
\* what it has let through itself (openai.go:496-536, extractor.go:151-172).
THEOREM SuggestionsAreAccepted ==
  TesterSpec => []AppliedIsAccepted
<1>1. TesterInv => TesterTypeOK
  BY DEF TesterInv, TesterType, Panel, Asked, Asks, TesterTypeOK
<1>2. TesterInv => \A b \in Buttons : asked[b].applied => asked[b].reply # Refused
  BY DEF TesterInv, Asks
<1>3. TesterInv => AppliedIsAccepted
  BY <1>1, <1>2 DEF AppliedIsAccepted
<1> QED BY <1>3, TesterInvInvariant, PTL

\* The panel shows results of the mail and the project it shows, but for those
\* that were under way when one of the two was changed (App.tsx:1360-1366).
THEOREM ResultsBelongHere ==
  TesterSpec => []ShownBelongsHere
<1>1. TesterInv => ShownBelongsHere
  BY DEF TesterInv
<1> QED BY <1>1, TesterInvInvariant, PTL

=============================================================================
