------------------------------ MODULE Sessions ------------------------------
(***************************************************************************)
(* The session manager (internal/auth/auth.go) and the guards of the HTTP  *)
(* handlers that ask it (requireAccess, requireAdmin, hasSession in        *)
(* httpapi/api.go), on a site in private mode.                             *)
(*                                                                         *)
(* A request carries up to five tokens: a cookie of either kind, a bearer  *)
(* token, and a query parameter named after either cookie.  The guard      *)
(* validates them one after the other, each for the kind of session it     *)
(* needs.  Validate looks a token up under the read lock, judges what it   *)
(* found after it has let go of the lock, and removes a session it found   *)
(* wanting under the write lock: the three steps of several requests       *)
(* interleave.                                                             *)
(***************************************************************************)
EXTENDS Integers, Sequences, FiniteSets

CONSTANTS
    Tokens,     \* the tokens the logins hand out
    KindOf,     \* KindOf[t]: the kind of the login that hands out t
    NoToken,    \* nothing is presented there
    Requests,
    Guard,      \* Guard[r]: "access" for a mailbox handler, "admin" for an admin one
    Presents    \* Presents[r]: the tokens r carries, by the place it carries them in

Kinds == {"access", "admin"}

ASSUME SessionAssumption ==
    /\ KindOf \in [Tokens -> Kinds]
    /\ NoToken \notin Tokens
    /\ Guard \in [Requests -> Kinds]
    /\ LET Carried == Tokens \union {NoToken}
       IN  Presents \in [Requests ->
             [cookie : [Kinds -> Carried], bearer : Carried, query : [Kinds -> Carried]]]

VARIABLES
    sessions,   \* the tokens in SessionManager.sessions
    issued,     \* the tokens handed out so far
    expired,    \* the sessions past their ExpiresAt
    request,    \* per request: where its guard is and what it has yet to validate
    crossed     \* history: the tokens presented for the other kind of session

vars == <<sessions, issued, expired, request, crossed>>

-----------------------------------------------------------------------------

\* The one check of a token that is presented, none of a place left empty.
Validation(token, kind) ==
    IF token = NoToken THEN << >> ELSE <<[token |-> token, kind |-> kind]>>

\* hasSession: the cookie of the kind, the bearer token, then the query
\* parameter named after the cookie.
Presented(r, kind) ==
    Validation(Presents[r].cookie[kind], kind)
        \o Validation(Presents[r].bearer, kind)
        \o Validation(Presents[r].query[kind], kind)

\* Variant: a mailbox handler does not take an administrator's session.
ChecksWithoutAdmin(r) == Presented(r, Guard[r])

\* requireAdmin, or requireAccess: a mailbox is open to administrators too.
Checks(r) ==
    IF Guard[r] = "admin" THEN Presented(r, "admin")
    ELSE Presented(r, "access") \o Presented(r, "admin")

Init ==
    /\ sessions = {} /\ issued = {} /\ expired = {} /\ crossed = {}
    /\ request = [r \in Requests |-> [pc |-> "new", todo |-> << >>, live |-> {}, token |-> NoToken]]

\* Create, for a visitor who knows the access password or an administrator.
Create(t) ==
    /\ t \notin issued
    /\ issued' = issued \union {t}
    /\ sessions' = sessions \union {t}
    /\ UNCHANGED <<expired, request, crossed>>

Expire(t) ==
    /\ t \in issued \ expired
    /\ expired' = expired \union {t}
    /\ UNCHANGED <<sessions, issued, request, crossed>>

\* The request arrives at its guard with its tokens.
Begin(r) ==
    /\ request[r].pc = "new"
    /\ request' = [request EXCEPT ![r] =
         [pc |-> IF Checks(r) = << >> THEN "refused" ELSE "lookup",
          todo |-> Checks(r), live |-> sessions \ expired, token |-> NoToken]]
    /\ UNCHANGED <<sessions, issued, expired, crossed>>

\* The rest of the checks, after one that failed.
Failed(req) ==
    [req EXCEPT !.todo = Tail(@), !.pc = IF Len(req.todo) = 1 THEN "refused" ELSE "lookup"]

\* Validate looks the token up.
Lookup(r) ==
    /\ request[r].pc = "lookup"
    /\ request' = [request EXCEPT ![r] =
         IF Head(@.todo).token \in sessions THEN [@ EXCEPT !.pc = "judge"] ELSE Failed(@)]
    /\ UNCHANGED <<sessions, issued, expired, crossed>>

\* Variant: the session is judged by its kind alone.
JudgeForever(r) ==
    /\ request[r].pc = "judge"
    /\ LET check == Head(request[r].todo)
           kept == KindOf[check.token] = check.kind
       IN  /\ request' = [request EXCEPT
                ![r].pc = IF kept THEN "granted" ELSE "delete",
                ![r].token = IF kept THEN check.token ELSE NoToken]
           /\ crossed' = crossed \union IF KindOf[check.token] = check.kind THEN {} ELSE {check.token}
    /\ UNCHANGED <<sessions, issued, expired>>

\* Validate judges what it found, by its kind and the time.
Judge(r) ==
    /\ request[r].pc = "judge"
    /\ LET check == Head(request[r].todo)
           kept == KindOf[check.token] = check.kind /\ check.token \notin expired
       IN  /\ request' = [request EXCEPT
                ![r].pc = IF kept THEN "granted" ELSE "delete",
                ![r].token = IF kept THEN check.token ELSE NoToken]
           /\ crossed' = crossed \union IF KindOf[check.token] = check.kind THEN {} ELSE {check.token}
    /\ UNCHANGED <<sessions, issued, expired>>

\* Variant: the sessions of other requests that failed go too.
DeleteAll(r) ==
    /\ request[r].pc = "delete"
    /\ sessions' = {}
    /\ request' = [request EXCEPT ![r] = Failed(@)]
    /\ UNCHANGED <<issued, expired, crossed>>

\* Validate removes a session of the wrong kind, or one that has expired.
Delete(r) ==
    /\ request[r].pc = "delete"
    /\ sessions' = sessions \ {Head(request[r].todo).token}
    /\ request' = [request EXCEPT ![r] = Failed(@)]
    /\ UNCHANGED <<issued, expired, crossed>>

Check(r) == Lookup(r) \/ Judge(r) \/ Delete(r)

Next ==
    \/ \E t \in Tokens : Create(t) \/ Expire(t)
    \/ \E r \in Requests : Begin(r) \/ Check(r)

Spec == Init /\ [][Next]_vars

-----------------------------------------------------------------------------
(* Properties.                                                             *)

\* Every variable keeps its type.
TypeOK ==
    /\ sessions \subseteq issued /\ issued \subseteq Tokens /\ expired \subseteq issued
    /\ request \in [Requests ->
         [pc : {"new", "lookup", "judge", "delete", "granted", "refused"},
          todo : Seq([token : Tokens, kind : Kinds]), live : SUBSET Tokens,
          token : Tokens \union {NoToken}]]
    /\ crossed \subseteq Tokens

\* The token t comes in one of the three places where r's guard looks for a
\* session of t's own kind, which is a kind the guard opens to.
Opens(r, t) ==
    /\ t \in {Presents[r].cookie[KindOf[t]], Presents[r].bearer, Presents[r].query[KindOf[t]]}
    /\ Guard[r] = "access" \/ KindOf[t] = "admin"

\* A guard opens (api.go:845-893, auth.go:60) only for a token that a login
\* handed out, that this very request carries where its kind is looked for, and
\* an admin handler's only for an administrator's; whatever other requests
\* validate and remove between its lookup and its judgement, that session is
\* not expired when it is judged, and still in the map unless one of them
\* presented it for the other kind.
GuardsHold ==
    [][\A r \in Requests :
          (request[r].pc # "granted" /\ request'[r].pc = "granted") =>
              /\ Opens(r, request'[r].token)
              /\ request'[r].token \in issued \ expired
              /\ request'[r].token \in sessions \union crossed]_vars

\* Nobody with a live session of the right kind is turned away, in whichever of
\* the three places it comes, unless it has expired meanwhile or was presented,
\* by this request or another one, where the other kind of session is wanted:
\* what other requests find and remove between the steps of this one does not
\* matter.
NoSpuriousRefusal ==
    \A r \in Requests : request[r].pc = "refused" =>
        \A t \in request[r].live \ (expired \union crossed) : ~Opens(r, t)

\* Every variable keeps its type, and a session is removed for cause only: it
\* has expired, or its token was presented for the other kind.
RemovedForCause == TypeOK /\ issued \ sessions \subseteq expired \union crossed

=============================================================================
