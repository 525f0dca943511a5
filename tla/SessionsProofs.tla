---------------------------- MODULE SessionsProofs ----------------------------
(***************************************************************************)
(* Proofs about Sessions, for any tokens, requests and places.             *)
(*                                                                         *)
(* None of the three properties is inductive.  A removal is for cause      *)
(* because a request that is about to remove has judged the token wanting  *)
(* (DeletesForCause); a guard opens for a token of the right kind that its *)
(* own request carries because it validates no others (ChecksWanted), and  *)
(* for one that was handed out because it was found (FoundIssued); and it  *)
(* opens to whoever has a right to it because a good token stays among     *)
(* what it has yet to validate (StillToCheck) until it is found in the     *)
(* map, where it is unless it was removed for cause.                       *)
(***************************************************************************)
EXTENDS Sessions, SequenceTheorems, TLAPS

\* A guard at work has something to validate, and one that has refused has not;
\* the sessions that were live when a request arrived had been handed out.
TodoExact ==
    \A r \in Requests :
        /\ request[r].pc \in {"lookup", "judge", "delete"} => request[r].todo # << >>
        /\ request[r].pc = "refused" => request[r].todo = << >>
        /\ request[r].live \subseteq issued

\* What is about to be removed has expired or was presented for the other kind.
DeletesForCause ==
    \A r \in Requests : request[r].pc = "delete" =>
        Head(request[r].todo).token \in expired \union crossed

\* r's guard validates for a kind it opens to, and what comes in one of the
\* places where it looks for that kind.
Due(r, check) ==
    /\ Guard[r] = "admin" => check.kind = "admin"
    /\ check.token \in {Presents[r].cookie[check.kind], Presents[r].bearer,
                        Presents[r].query[check.kind]}

ChecksWanted ==
    \A r \in Requests : \A check \in Range(request[r].todo) : Due(r, check)

\* A token that was found in the map had been handed out.
FoundIssued ==
    \A r \in Requests : request[r].pc \in {"judge", "delete"} =>
        Head(request[r].todo).token \in issued

Wanted(t) == [token |-> t, kind |-> KindOf[t]]

\* A good token is validated for its own kind before the guard refuses.
StillToCheck ==
    \A r \in Requests : request[r].pc \in {"lookup", "judge", "delete", "refused"} =>
        \A t \in request[r].live \ (expired \union crossed) :
            Opens(r, t) => Wanted(t) \in Range(request[r].todo)

IInv ==
    /\ RemovedForCause
    /\ TodoExact
    /\ DeletesForCause
    /\ ChecksWanted
    /\ FoundIssued
    /\ StillToCheck

-----------------------------------------------------------------------------
(* Sequences of checks.                                                    *)

Checking == [token : Tokens, kind : Kinds]

Request == [pc : {"new", "lookup", "judge", "delete", "granted", "refused"},
            todo : Seq(Checking), live : SUBSET Tokens, token : Tokens \union {NoToken}]

\* What is left of a sequence behind its head.
LEMMA TailElements ==
  ASSUME NEW S, NEW s \in Seq(S), s # << >>
  PROVE  /\ Head(s) \in S /\ Head(s) \in Range(s) /\ Tail(s) \in Seq(S)
         /\ Len(s) = 1 <=> Tail(s) = << >>
         /\ Range(s) = {Head(s)} \union Range(Tail(s))
<1>1. /\ Head(s) \in S /\ Tail(s) \in Seq(S) /\ Len(Tail(s)) = Len(s) - 1
      /\ \A i \in 1 .. Len(Tail(s)) : Tail(s)[i] = s[i + 1]
  BY HeadTailProperties
<1>2. DOMAIN s = 1 .. Len(s) /\ DOMAIN Tail(s) = 1 .. Len(s) - 1 /\ Len(s) \in Nat \ {0}
  BY <1>1, LenProperties, EmptySeq
<1>3. Head(s) = s[1]
  OBVIOUS
<1>4. ASSUME NEW i \in DOMAIN Tail(s) PROVE \E j \in DOMAIN s : Tail(s)[i] = s[j]
  BY <1>1, <1>2
<1>5. ASSUME NEW j \in DOMAIN s
      PROVE  s[j] = Head(s) \/ \E i \in DOMAIN Tail(s) : Tail(s)[i] = s[j]
  <2>1. CASE j = 1
    BY <1>3, <2>1
  <2>2. CASE j # 1
    <3>1. j - 1 \in DOMAIN Tail(s) /\ Tail(s)[j - 1] = s[j]
      BY <1>1, <1>2, <2>2
    <3> QED BY <3>1
  <2> QED BY <2>1, <2>2
<1>6. Len(s) = 1 <=> Tail(s) = << >>
  <2>1. CASE Tail(s) = << >>
    BY <1>1, <1>2, <2>1
  <2>2. CASE Tail(s) # << >>
    <3>1. Len(Tail(s)) # 0
      BY <1>1, <2>2, EmptySeq
    <3> QED BY <1>1, <2>2, <3>1
  <2> QED BY <2>1, <2>2
<1>7. Head(s) \in Range(s)
  BY <1>2, <1>3 DEF Range
<1>8. Range(s) = {Head(s)} \union Range(Tail(s))
  BY <1>4, <1>5, <1>7 DEF Range
<1> QED BY <1>1, <1>6, <1>7, <1>8

\* The places where hasSession looks for a session of a kind.
Places(r, kind) == {Presents[r].cookie[kind], Presents[r].bearer, Presents[r].query[kind]}

LEMMA ValidationElements ==
  ASSUME NEW token \in Tokens \union {NoToken}, NEW kind \in Kinds
  PROVE  /\ Validation(token, kind) \in Seq(Checking)
         /\ Range(Validation(token, kind)) =
                IF token = NoToken THEN {} ELSE {[token |-> token, kind |-> kind]}
<1>1. CASE token = NoToken
  BY <1>1 DEF Validation, Range
<1>2. CASE token # NoToken
  <2>1. [token |-> token, kind |-> kind] \in Checking
    BY <1>2 DEF Checking
  <2>2. /\ Validation(token, kind) \in Seq(Checking) /\ DOMAIN Validation(token, kind) = {1}
        /\ Validation(token, kind)[1] = [token |-> token, kind |-> kind]
    BY <1>2, <2>1 DEF Validation
  <2> QED BY <1>2, <2>2 DEF Range
<1> QED BY <1>1, <1>2

\* hasSession validates exactly what comes in its three places.
LEMMA PresentedElements ==
  ASSUME NEW r \in Requests, NEW kind \in Kinds
  PROVE  /\ Presented(r, kind) \in Seq(Checking)
         /\ Range(Presented(r, kind)) =
                {[token |-> t, kind |-> kind] : t \in Places(r, kind) \ {NoToken}}
<1> DEFINE cookie == Presents[r].cookie[kind]
           bearer == Presents[r].bearer
           query  == Presents[r].query[kind]
<1>1. Places(r, kind) = {cookie, bearer, query} /\ Places(r, kind) \subseteq Tokens \union {NoToken}
  BY SessionAssumption DEF Places, Kinds
<1>2. Presented(r, kind) =
         Validation(cookie, kind) \o Validation(bearer, kind) \o Validation(query, kind)
  BY DEF Presented
<1> HIDE DEF cookie, bearer, query
<1> DEFINE p == Validation(cookie, kind)
           q == Validation(bearer, kind)
           s == Validation(query, kind)
           Of(token) == IF token = NoToken THEN {} ELSE {[token |-> token, kind |-> kind]}
<1>3. /\ p \in Seq(Checking) /\ Range(p) = Of(cookie)
      /\ q \in Seq(Checking) /\ Range(q) = Of(bearer)
      /\ s \in Seq(Checking) /\ Range(s) = Of(query)
  BY <1>1, ValidationElements
<1>4. Presented(r, kind) = (p \o q) \o s
  BY <1>2
<1> HIDE DEF p, q, s, Of
<1>5. p \o q \in Seq(Checking) /\ Range(p \o q) = Of(cookie) \union Of(bearer)
  <2>1. p \o q \in Seq(Checking)
    BY <1>3, ConcatProperties
  <2>2. Range(p \o q) = Range(p) \union Range(q)
    BY <1>3, RangeConcatenation
  <2> QED BY <1>3, <2>1, <2>2
<1>6. /\ (p \o q) \o s \in Seq(Checking)
      /\ Range((p \o q) \o s) = Of(cookie) \union Of(bearer) \union Of(query)
  <2>1. ASSUME NEW head \in Seq(Checking)
        PROVE  head \o s \in Seq(Checking) /\ Range(head \o s) = Range(head) \union Range(s)
    BY <1>3, ConcatProperties, RangeConcatenation
  <2>2. (p \o q) \o s \in Seq(Checking) /\ Range((p \o q) \o s) = Range(p \o q) \union Range(s)
    BY <1>5, <2>1, Zenon
  <2> QED BY <1>3, <1>5, <2>1, <2>2
<1>7. Of(cookie) \union Of(bearer) \union Of(query) =
         {[token |-> t, kind |-> kind] : t \in {cookie, bearer, query} \ {NoToken}}
  BY DEF Of
<1> QED BY <1>1, <1>4, <1>6, <1>7

\* A guard validates what it should, and every token it opens to for that
\* token's own kind.
LEMMA ChecksElements ==
  ASSUME NEW r \in Requests
  PROVE  /\ Checks(r) \in Seq(Checking)
         /\ \A check \in Range(Checks(r)) : Due(r, check)
         /\ \A t \in Tokens : Opens(r, t) => Wanted(t) \in Range(Checks(r))
<1>1. /\ "access" \in Kinds /\ "admin" \in Kinds /\ Guard[r] \in Kinds
      /\ \A t \in Tokens : KindOf[t] \in Kinds /\ t # NoToken
  BY SessionAssumption DEF Kinds
<1>2. ASSUME NEW t \in Tokens, Opens(r, t) PROVE Wanted(t) \in Range(Presented(r, KindOf[t]))
  BY <1>1, <1>2, PresentedElements DEF Opens, Wanted, Places
<1>3. ASSUME NEW kind \in Kinds, Guard[r] = "admin" => kind = "admin",
             NEW check \in Range(Presented(r, kind))
      PROVE  Due(r, check)
  <2>1. PICK t \in Places(r, kind) : check = [token |-> t, kind |-> kind]
    BY <1>3, PresentedElements
  <2> QED BY <1>3, <2>1 DEF Due, Places
<1>4. CASE Guard[r] = "admin"
  <2>1. Checks(r) = Presented(r, "admin")
    BY <1>4 DEF Checks
  <2>2. \A t \in Tokens : Opens(r, t) => KindOf[t] = "admin"
    BY <1>4 DEF Opens
  <2>3. \A t \in Tokens : Opens(r, t) => Wanted(t) \in Range(Checks(r))
    BY <1>2, <2>1, <2>2
  <2>4. \A check \in Range(Checks(r)) : Due(r, check)
    BY <1>1, <1>3, <2>1
  <2> QED BY <1>1, <2>1, <2>3, <2>4, PresentedElements
<1>5. CASE Guard[r] = "access"
  <2> DEFINE p == Presented(r, "access")
             q == Presented(r, "admin")
  <2>1. Checks(r) = p \o q
    BY <1>5 DEF Checks
  <2>2. p \in Seq(Checking) /\ q \in Seq(Checking)
    BY <1>1, PresentedElements
  <2>3. ASSUME NEW t \in Tokens, Opens(r, t)
        PROVE  Wanted(t) \in Range(p) \union Range(q)
    BY <1>1, <1>2, <2>3 DEF Kinds
  <2>4. \A check \in Range(p) \union Range(q) : Due(r, check)
    BY <1>1, <1>3, <1>5
  <2> HIDE DEF p, q
  <2>5. p \o q \in Seq(Checking)
    BY <2>2, ConcatProperties
  <2>6. Range(p \o q) = Range(p) \union Range(q)
    BY <2>2, RangeConcatenation
  <2> QED BY <2>1, <2>3, <2>4, <2>5, <2>6
<1> QED BY <1>1, <1>4, <1>5 DEF Kinds

-----------------------------------------------------------------------------
(* The invariant.                                                          *)

LEMMA InitIInv == Init => IInv
<1> SUFFICES ASSUME Init PROVE IInv
  OBVIOUS
<1> USE DEF Init
<1>1. TypeOK
  BY DEF TypeOK
<1>2. \A r \in Requests : request[r].pc = "new" /\ request[r].todo = << >> /\ request[r].live = {}
  OBVIOUS
<1>3. TodoExact /\ DeletesForCause /\ StillToCheck
  BY <1>2 DEF TodoExact, DeletesForCause, StillToCheck
<1>4. ChecksWanted /\ FoundIssued
  BY <1>2 DEF ChecksWanted, FoundIssued, Range
<1> QED BY <1>1, <1>3, <1>4 DEF IInv, RemovedForCause

\* The record a request has become after a check that failed.
LEMMA FailedRequest ==
  ASSUME NEW req \in Request, req.todo # << >>
  PROVE  /\ Failed(req) \in Request
         /\ Failed(req).todo = Tail(req.todo)
         /\ Failed(req).live = req.live
         /\ Failed(req).pc = IF Tail(req.todo) = << >> THEN "refused" ELSE "lookup"
<1>1. Tail(req.todo) \in Seq(Checking) /\ (Len(req.todo) = 1 <=> Tail(req.todo) = << >>)
  BY TailElements DEF Request
<1> QED BY <1>1 DEF Failed, Request

\* What each step of a guard does to the request it works for.
LEMMA StepOfRequest ==
  ASSUME TypeOK, TodoExact, NEW r \in Requests
  PROVE  /\ Lookup(r) => \/ /\ Head(request[r].todo).token \in sessions
                            /\ request' = [request EXCEPT ![r] = [@ EXCEPT !.pc = "judge"]]
                         \/ /\ Head(request[r].todo).token \notin sessions
                            /\ request' = [request EXCEPT ![r] = Failed(@)]
         /\ \A q \in Requests : request[q] \in Request
         /\ request[r].pc \in {"lookup", "judge", "delete"} =>
                /\ request[r].todo # << >>
                /\ Head(request[r].todo) \in Checking
                /\ Failed(request[r]) \in Request
<1>1. \A q \in Requests : request[q] \in Request
  BY DEF TypeOK, Request, Checking
<1>2. request[r].pc \in {"lookup", "judge", "delete"} =>
         /\ request[r].todo # << >>
         /\ Head(request[r].todo) \in Checking
         /\ Failed(request[r]) \in Request
  BY <1>1, TailElements, FailedRequest DEF TodoExact, Request
<1> QED BY <1>1, <1>2 DEF Lookup

LEMMA NextTypeOK == TypeOK /\ TodoExact /\ [Next]_vars => TypeOK'
<1> SUFFICES ASSUME TypeOK, TodoExact, [Next]_vars PROVE TypeOK'
  OBVIOUS
<1> DEFINE Typed(req) == req \in [Requests -> Request]
<1>1. TypeOK <=> /\ sessions \subseteq issued /\ issued \subseteq Tokens /\ expired \subseteq issued
                 /\ Typed(request) /\ crossed \subseteq Tokens
  BY DEF TypeOK, Request, Checking
<1>2. TypeOK' <=> /\ sessions' \subseteq issued' /\ issued' \subseteq Tokens /\ expired' \subseteq issued'
                  /\ Typed(request') /\ crossed' \subseteq Tokens
  BY DEF TypeOK, Request, Checking
<1>3. ASSUME NEW t \in Tokens, Create(t) \/ Expire(t) PROVE TypeOK'
  BY <1>1, <1>2, <1>3 DEF Create, Expire
<1>4. ASSUME NEW r \in Requests, NEW req \in Request, request' = [request EXCEPT ![r] = req]
      PROVE  Typed(request')
  BY <1>1, <1>4
<1>5. ASSUME NEW r \in Requests, Begin(r) PROVE TypeOK'
  <2> DEFINE req == [pc |-> IF Checks(r) = << >> THEN "refused" ELSE "lookup",
                     todo |-> Checks(r), live |-> sessions \ expired, token |-> NoToken]
  <2>1. req \in Request
    BY <1>1, ChecksElements DEF Request
  <2>2. request' = [request EXCEPT ![r] = req]
    BY <1>5 DEF Begin
  <2> HIDE DEF req
  <2> QED BY <1>1, <1>2, <1>4, <1>5, <2>1, <2>2 DEF Begin
<1>6. ASSUME NEW r \in Requests, Lookup(r) PROVE TypeOK'
  <2>1. request[r] \in Request /\ Failed(request[r]) \in Request
    BY <1>6, StepOfRequest DEF Lookup
  <2>2. [request[r] EXCEPT !.pc = "judge"] \in Request
    BY <2>1 DEF Request
  <2>3. Typed(request')
    BY <1>4, <1>6, <2>1, <2>2, StepOfRequest
  <2> QED BY <1>1, <1>2, <1>6, <2>3 DEF Lookup
<1>7. ASSUME NEW r \in Requests, Judge(r) PROVE TypeOK'
  <2>1. request[r] \in Request /\ Head(request[r].todo) \in Checking
    BY <1>7, StepOfRequest DEF Judge
  <2>2. Head(request[r].todo).token \in Tokens
    BY <2>1 DEF Checking
  <2>3. ASSUME NEW pc \in {"granted", "delete"}, NEW token \in Tokens \union {NoToken}
        PROVE  [request[r] EXCEPT !.pc = pc, !.token = token] \in Request
    BY <2>1 DEF Request
  <2>4. Typed(request')
    <3>1. PICK pc \in {"granted", "delete"}, token \in Tokens \union {NoToken} :
             request' = [request EXCEPT ![r].pc = pc, ![r].token = token]
      BY <1>7, <2>2 DEF Judge
    <3>2. request' = [request EXCEPT ![r] = [request[r] EXCEPT !.pc = pc, !.token = token]]
      BY <1>1, <3>1
    <3> QED BY <1>4, <2>3, <3>2
  <2>5. crossed' \subseteq Tokens
    BY <1>1, <1>7, <2>2 DEF Judge
  <2> QED BY <1>1, <1>2, <1>7, <2>4, <2>5 DEF Judge
<1>8. ASSUME NEW r \in Requests, Delete(r) PROVE TypeOK'
  <2>1. request[r] \in Request /\ Failed(request[r]) \in Request
    BY <1>8, StepOfRequest DEF Delete
  <2>2. Typed(request')
    BY <1>4, <1>8, <2>1 DEF Delete
  <2> QED BY <1>1, <1>2, <1>8, <2>2 DEF Delete
<1>9. CASE UNCHANGED vars
  BY <1>9 DEF vars, TypeOK
<1> QED BY <1>3, <1>5, <1>6, <1>7, <1>8, <1>9 DEF Next, Check

\* A check fails: r goes on to the next one, or refuses when there is none.
Passes(r) ==
    /\ request'[r].todo = Tail(request[r].todo)
    /\ request'[r].live = request[r].live
    /\ request'[r].pc = IF Tail(request[r].todo) = << >> THEN "refused" ELSE "lookup"

\* What a request has yet to validate, and who was live when it came, stay.
Stays(r) ==
    /\ request[r].todo # << >>
    /\ request'[r].todo = request[r].todo
    /\ request'[r].live = request[r].live

\* The steps of a guard, by what they do to its own request and to the others.
LEMMA GuardSteps ==
  ASSUME TypeOK, TodoExact, NEW r \in Requests
  PROVE  /\ Begin(r) => /\ request'[r].todo = Checks(r)
                        /\ request'[r].live = sessions \ expired
                        /\ request'[r].pc = IF Checks(r) = << >> THEN "refused" ELSE "lookup"
         /\ Lookup(r) => \/ /\ Stays(r) /\ request'[r].pc = "judge"
                            /\ Head(request[r].todo).token \in sessions
                         \/ Passes(r) /\ Head(request[r].todo).token \notin sessions
         /\ Judge(r) => /\ Stays(r)
                        /\ \/ request'[r].pc = "granted"
                           \/ /\ request'[r].pc = "delete"
                              /\ Head(request[r].todo).token \in expired' \union crossed'
         /\ Delete(r) => Passes(r)
         /\ Lookup(r) \/ Judge(r) \/ Delete(r) =>
                request[r].todo # << >> /\ Head(request[r].todo) \in Checking
         /\ Begin(r) \/ Check(r) => \A q \in Requests \ {r} : request'[q] = request[q]
<1>1. request \in [Requests -> Request]
  BY DEF TypeOK, Request, Checking
<1>2. Lookup(r) \/ Judge(r) \/ Delete(r) =>
         request[r].todo # << >> /\ Head(request[r].todo) \in Checking
  BY StepOfRequest DEF Lookup, Judge, Delete
<1>3. ASSUME request[r].todo # << >>, request' = [request EXCEPT ![r] = Failed(@)] PROVE Passes(r)
  BY <1>1, <1>3, FailedRequest DEF Passes
<1>4. Begin(r) => /\ request'[r].todo = Checks(r)
                  /\ request'[r].live = sessions \ expired
                  /\ request'[r].pc = IF Checks(r) = << >> THEN "refused" ELSE "lookup"
  BY <1>1 DEF Begin
<1>5. ASSUME Lookup(r)
      PROVE  \/ /\ Stays(r) /\ request'[r].pc = "judge"
                /\ Head(request[r].todo).token \in sessions
             \/ Passes(r) /\ Head(request[r].todo).token \notin sessions
  <2>1. CASE /\ Head(request[r].todo).token \in sessions
             /\ request' = [request EXCEPT ![r] = [@ EXCEPT !.pc = "judge"]]
    BY <1>1, <1>2, <1>5, <2>1 DEF Stays, Request
  <2>2. CASE /\ Head(request[r].todo).token \notin sessions
             /\ request' = [request EXCEPT ![r] = Failed(@)]
    BY <1>2, <1>3, <1>5, <2>2
  <2> QED BY <1>5, <2>1, <2>2, StepOfRequest
<1>6. Judge(r) => /\ Stays(r)
                  /\ \/ request'[r].pc = "granted"
                     \/ /\ request'[r].pc = "delete"
                        /\ Head(request[r].todo).token \in expired' \union crossed'
  <2> SUFFICES ASSUME Judge(r)
               PROVE  /\ Stays(r)
                      /\ \/ request'[r].pc = "granted"
                         \/ /\ request'[r].pc = "delete"
                            /\ Head(request[r].todo).token \in expired' \union crossed'
    OBVIOUS
  <2>1. PICK pc, token : request' = [request EXCEPT ![r].pc = pc, ![r].token = token]
    BY DEF Judge
  <2>2. Stays(r)
    BY <1>1, <1>2, <2>1 DEF Stays, Request
  <2>3. request'[r].pc = IF /\ KindOf[Head(request[r].todo).token] = Head(request[r].todo).kind
                            /\ Head(request[r].todo).token \notin expired
                         THEN "granted" ELSE "delete"
    BY <1>1 DEF Judge, Request
  <2>4. /\ expired' = expired
        /\ KindOf[Head(request[r].todo).token] # Head(request[r].todo).kind =>
              Head(request[r].todo).token \in crossed'
    BY DEF Judge
  <2> QED BY <2>2, <2>3, <2>4
<1>7. Delete(r) => Passes(r)
  BY <1>2, <1>3 DEF Delete
<1>8. Begin(r) \/ Check(r) => \A q \in Requests \ {r} : request'[q] = request[q]
  BY <1>1 DEF Check, Begin, Lookup, Judge, Delete
<1> QED BY <1>2, <1>4, <1>5, <1>6, <1>7, <1>8

\* Tokens are handed out, expire and are crossed for good.
LEMMA NextGrows == TypeOK /\ [Next]_vars =>
    issued \subseteq issued' /\ expired \subseteq expired' /\ crossed \subseteq crossed'
  BY DEF Next, vars, Check, Create, Expire, Begin, Lookup, Judge, Delete

\* A step is one of a guard, or none of the requests moves.
LEMMA NextRequest == [Next]_vars =>
    (\E r \in Requests : Begin(r) \/ Lookup(r) \/ Judge(r) \/ Delete(r)) \/ UNCHANGED request
  BY DEF Next, vars, Check, Create, Expire

LEMMA NextTodoExact == TypeOK /\ TodoExact /\ [Next]_vars => TodoExact'
<1> SUFFICES ASSUME TypeOK, TodoExact, [Next]_vars PROVE TodoExact'
  OBVIOUS
<1>1. issued \subseteq issued' /\ sessions \subseteq issued
  BY NextGrows DEF TypeOK
<1>2. ASSUME NEW r \in Requests, Begin(r) \/ Lookup(r) \/ Judge(r) \/ Delete(r) PROVE TodoExact'
  <2>1. /\ request'[r].pc \in {"lookup", "judge", "delete"} => request'[r].todo # << >>
        /\ request'[r].pc = "refused" => request'[r].todo = << >>
        /\ request'[r].live \subseteq issued
    BY <1>1, <1>2, GuardSteps DEF Passes, Stays, TodoExact
  <2>2. \A q \in Requests \ {r} : request'[q] = request[q]
    BY <1>2, GuardSteps DEF Check
  <2> QED BY <1>1, <2>1, <2>2 DEF TodoExact
<1>3. CASE UNCHANGED request
  BY <1>1, <1>3 DEF TodoExact
<1> QED BY <1>2, <1>3, NextRequest

LEMMA NextDeletesForCause == TypeOK /\ TodoExact /\ DeletesForCause /\ [Next]_vars => DeletesForCause'
<1> SUFFICES ASSUME TypeOK, TodoExact, DeletesForCause, [Next]_vars PROVE DeletesForCause'
  OBVIOUS
<1>1. expired \subseteq expired' /\ crossed \subseteq crossed'
  BY NextGrows
<1>2. ASSUME NEW r \in Requests, Begin(r) \/ Lookup(r) \/ Judge(r) \/ Delete(r) PROVE DeletesForCause'
  <2>1. request'[r].pc = "delete" => Head(request'[r].todo).token \in expired' \union crossed'
    BY <1>2, GuardSteps DEF Passes, Stays
  <2>2. \A q \in Requests \ {r} : request'[q] = request[q]
    BY <1>2, GuardSteps DEF Check
  <2> QED BY <1>1, <2>1, <2>2 DEF DeletesForCause
<1>3. CASE UNCHANGED request
  BY <1>1, <1>3 DEF DeletesForCause
<1> QED BY <1>2, <1>3, NextRequest

LEMMA NextChecksWanted == TypeOK /\ TodoExact /\ ChecksWanted /\ [Next]_vars => ChecksWanted'
<1> SUFFICES ASSUME TypeOK, TodoExact, ChecksWanted, [Next]_vars PROVE ChecksWanted'
  OBVIOUS
<1>1. ASSUME NEW r \in Requests, Begin(r) \/ Lookup(r) \/ Judge(r) \/ Delete(r) PROVE ChecksWanted'
  <2>1. request'[r].todo = Checks(r) \/ Range(request'[r].todo) \subseteq Range(request[r].todo)
    <3>1. request[r].todo # << >> =>
             Range(Tail(request[r].todo)) \subseteq Range(request[r].todo)
      BY TailElements DEF TypeOK
    <3> QED BY <1>1, <3>1, GuardSteps DEF Passes, Stays
  <2>2. \A check \in Range(request'[r].todo) : Due(r, check)
    BY <2>1, ChecksElements DEF ChecksWanted
  <2>3. \A q \in Requests \ {r} : request'[q] = request[q]
    BY <1>1, GuardSteps DEF Check
  <2> QED BY <2>2, <2>3 DEF ChecksWanted
<1>2. CASE UNCHANGED request
  BY <1>2 DEF ChecksWanted
<1> QED BY <1>1, <1>2, NextRequest

LEMMA NextFoundIssued == TypeOK /\ TodoExact /\ FoundIssued /\ [Next]_vars => FoundIssued'
<1> SUFFICES ASSUME TypeOK, TodoExact, FoundIssued, [Next]_vars PROVE FoundIssued'
  OBVIOUS
<1>1. issued \subseteq issued' /\ sessions \subseteq issued
  BY NextGrows DEF TypeOK
<1>2. ASSUME NEW r \in Requests, Begin(r) \/ Lookup(r) \/ Judge(r) \/ Delete(r) PROVE FoundIssued'
  <2>1. request'[r].pc \in {"judge", "delete"} => Head(request'[r].todo).token \in issued'
    <3>1. CASE Begin(r) \/ Lookup(r) \/ Delete(r)
      BY <1>1, <3>1, GuardSteps DEF Passes, Stays
    <3>2. CASE Judge(r)
      <4>1. request[r].pc = "judge"
        BY <3>2 DEF Judge
      <4> QED BY <1>1, <3>2, <4>1, GuardSteps DEF Stays, FoundIssued
    <3> QED BY <1>2, <3>1, <3>2
  <2>2. \A q \in Requests \ {r} : request'[q] = request[q]
    BY <1>2, GuardSteps DEF Check
  <2> QED BY <1>1, <2>1, <2>2 DEF FoundIssued
<1>3. CASE UNCHANGED request
  BY <1>1, <1>3 DEF FoundIssued
<1> QED BY <1>2, <1>3, NextRequest

\* A good token was handed out, so it is in the map unless it was removed, and
\* then for cause: a lookup that fails passes over another token.
LEMMA NextStillToCheck == IInv /\ [Next]_vars => StillToCheck'
<1> SUFFICES ASSUME IInv, [Next]_vars PROVE StillToCheck'
  OBVIOUS
<1> USE DEF IInv, RemovedForCause
<1>1. expired \subseteq expired' /\ crossed \subseteq crossed'
  BY NextGrows
<1>2. ASSUME NEW r \in Requests, Begin(r) \/ Lookup(r) \/ Judge(r) \/ Delete(r) PROVE StillToCheck'
  <2> SUFFICES ASSUME request'[r].pc \in {"lookup", "judge", "delete", "refused"},
                      NEW t \in request'[r].live \ (expired' \union crossed'), Opens(r, t)
               PROVE  Wanted(t) \in Range(request'[r].todo)
    <3>1. \A q \in Requests \ {r} : request'[q] = request[q]
      BY <1>2, GuardSteps DEF Check
    <3> QED BY <1>1, <3>1 DEF StillToCheck
  <2>1. CASE Begin(r)
    <3>1. t \in Tokens
      BY <2>1, GuardSteps, ZenonT(40) DEF TypeOK
    <3> QED BY <2>1, <3>1, GuardSteps, ChecksElements
  <2>2. CASE ~Begin(r)
    <3>1. request'[r].live = request[r].live /\ request[r].pc \in {"lookup", "judge", "delete"}
      BY <1>2, <2>2, GuardSteps DEF Passes, Stays, Lookup, Judge, Delete
    <3>2. Wanted(t) \in Range(request[r].todo)
      BY <1>1, <3>1 DEF StillToCheck
    <3>3. CASE Stays(r)
      BY <3>2, <3>3 DEF Stays
    <3>4. CASE Passes(r) /\ Head(request[r].todo) # Wanted(t)
      <4>1. request[r].todo \in Seq(Checking) /\ request[r].todo # << >>
        BY <1>2, <2>2, GuardSteps DEF TypeOK, Checking
      <4>2. Range(request[r].todo) = {Head(request[r].todo)} \union Range(Tail(request[r].todo))
        BY <4>1, TailElements
      <4> QED BY <3>2, <3>4, <4>2 DEF Passes
    <3>5. CASE Passes(r) /\ Head(request[r].todo) = Wanted(t)
      <4>1. t \in sessions
        BY <1>1, <3>1 DEF TodoExact
      <4>2. CASE Lookup(r)
        <5>1. Head(request[r].todo).token = t
          BY <3>5 DEF Wanted
        <5>2. Stays(r)
          BY <4>1, <4>2, <5>1, GuardSteps
        <5> QED BY <3>2, <5>2 DEF Stays
      <4>3. CASE Delete(r)
        BY <1>1, <3>5, <4>3 DEF Delete, DeletesForCause, Wanted
      <4>4. CASE Judge(r)
        BY <3>2, <4>4, GuardSteps DEF Stays
      <4> QED BY <1>2, <2>2, <4>2, <4>3, <4>4
    <3> QED BY <1>2, <2>2, <3>3, <3>4, <3>5, GuardSteps
  <2> QED BY <2>1, <2>2
<1>3. CASE UNCHANGED request
  BY <1>1, <1>3 DEF StillToCheck
<1> QED BY <1>2, <1>3, NextRequest

LEMMA NextRemovedForCause == IInv /\ [Next]_vars => RemovedForCause'
<1> SUFFICES ASSUME IInv, [Next]_vars PROVE RemovedForCause'
  OBVIOUS
<1>1. TypeOK' /\ expired \subseteq expired' /\ crossed \subseteq crossed'
  BY NextTypeOK, NextGrows DEF IInv, RemovedForCause
<1>2. issued \ sessions \subseteq expired \union crossed
  BY DEF IInv, RemovedForCause
<1>3. ASSUME NEW t \in Tokens, Create(t) PROVE issued' \ sessions' \subseteq issued \ sessions
  BY <1>3 DEF Create
<1>4. ASSUME NEW r \in Requests, Delete(r)
      PROVE  issued' \ sessions' \subseteq expired \union crossed
  BY <1>2, <1>4 DEF Delete, IInv, DeletesForCause
<1>5. \/ \E t \in Tokens : Create(t)
      \/ \E r \in Requests : Delete(r)
      \/ UNCHANGED <<sessions, issued>>
  BY DEF Next, vars, Check, Expire, Begin, Lookup, Judge
<1> QED BY <1>1, <1>2, <1>3, <1>4, <1>5 DEF RemovedForCause

LEMMA NextIInv == IInv /\ [Next]_vars => IInv'
  BY NextRemovedForCause, NextTodoExact, NextDeletesForCause, NextChecksWanted, NextFoundIssued,
     NextStillToCheck
  DEF IInv, RemovedForCause

LEMMA Invariance == Spec => []IInv
  BY InitIInv, NextIInv, PTL DEF Spec

-----------------------------------------------------------------------------
(* The theorems.                                                           *)

\* A session leaves the map of the session manager (auth.go:60-80) only when it
\* has expired or its token was presented for the other kind of session,
\* however many requests validate it at once.
THEOREM SessionsRemovedForCause == Spec => []RemovedForCause
  BY Invariance, PTL DEF IInv

\* Whoever carries a live session that the guard (api.go:845-893) asks for, in
\* a cookie, as a bearer token or as a query parameter, is let in, unless it
\* expires meanwhile or is presented for the other kind: nothing that other
\* requests find or remove in between gets him refused.
THEOREM NobodySpuriouslyRefused == Spec => []NoSpuriousRefusal
<1>1. IInv => NoSpuriousRefusal
  <2> SUFFICES ASSUME IInv, NEW r \in Requests, request[r].pc = "refused",
                      NEW t \in request[r].live \ (expired \union crossed), Opens(r, t)
               PROVE  FALSE
    BY DEF NoSpuriousRefusal
  <2>1. Wanted(t) \in Range(request[r].todo)
    BY DEF IInv, StillToCheck
  <2>2. request[r].todo = << >>
    BY DEF IInv, TodoExact
  <2> QED BY <2>1, <2>2 DEF Range
<1> QED BY <1>1, Invariance, PTL

\* A guard (api.go:845-893) opens only for a token that a login handed out and
\* that the request carries where a session of its kind is looked for, an admin
\* handler's only for an administrator's; the session had not expired when it
\* was judged, and was still in the map unless another request had presented
\* its token for the other kind since it was found.
THEOREM GuardsAlwaysHold == Spec => GuardsHold
<1> DEFINE Guarded(r) ==
      (request[r].pc # "granted" /\ request'[r].pc = "granted") =>
          /\ Opens(r, request'[r].token)
          /\ request'[r].token \in issued \ expired
          /\ request'[r].token \in sessions \union crossed
<1>1. ASSUME IInv, Next, NEW r \in Requests PROVE Guarded(r)
  <2> SUFFICES ASSUME request[r].pc # "granted", request'[r].pc = "granted"
               PROVE  /\ Opens(r, request'[r].token)
                      /\ request'[r].token \in issued \ expired
                      /\ request'[r].token \in sessions \union crossed
    OBVIOUS
  <2> DEFINE check == Head(request[r].todo)
  <2>1. RemovedForCause /\ TypeOK /\ TodoExact /\ ChecksWanted /\ FoundIssued
    BY <1>1 DEF IInv, RemovedForCause
  <2>2. Judge(r)
    <3>1. PICK q \in Requests : Begin(q) \/ Lookup(q) \/ Judge(q) \/ Delete(q)
      BY <1>1, NextRequest
    <3>2. q = r
      BY <2>1, <3>1, GuardSteps DEF Check
    <3> QED BY <2>1, <3>1, <3>2, GuardSteps DEF Passes
  <2>3. request[r].todo \in Seq(Checking) /\ request[r].todo # << >>
    BY <2>1, <2>2, GuardSteps DEF TypeOK, Checking
  <2>4. check \in Range(request[r].todo)
    BY <2>3, TailElements
  <2>5. /\ request'[r].token = check.token /\ KindOf[check.token] = check.kind
        /\ check.token \notin expired
    BY <2>1, <2>2 DEF Judge, TypeOK
  <2>6. Due(r, check)
    BY <2>1, <2>4 DEF ChecksWanted
  <2>7. Opens(r, check.token)
    BY <2>5, <2>6, SessionAssumption DEF Opens, Due, Kinds
  <2>8. check.token \in issued
    BY <2>1, <2>2 DEF FoundIssued, Judge
  <2>9. check.token \in sessions \union crossed
    BY <2>1, <2>5, <2>8 DEF RemovedForCause
  <2> QED BY <2>5, <2>7, <2>8, <2>9
<1>2. IInv /\ [Next]_vars => [\A r \in Requests : Guarded(r)]_vars
  BY <1>1
<1> QED BY <1>2, Invariance, PTL DEF Spec, GuardsHold

=============================================================================
