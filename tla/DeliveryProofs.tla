---------------------------- MODULE DeliveryProofs ----------------------------
(***************************************************************************)
(* Proofs about Delivery, for any number of mails, mailboxes, projects,    *)
(* rules, admin requests and connections.                                  *)
(*                                                                         *)
(* The history raced has every session and every request that is under way *)
(* beside a request (RacedAll).  So a request that is not in it has seen   *)
(* no other: what it loaded is still the configuration (BaseCurrent), and  *)
(* the mails it listed are still all that have been extracted (ListedAll); *)
(* and a session that is not in it extracts with the projects in force     *)
(* (CopyCurrent).  Before a session has added its codes there are none,    *)
(* unless a rebuild raced with it (NoneYet).  From these follows that the  *)
(* code store agrees with the configuration (Agrees) whenever no rebuild   *)
(* is still to come, and a rebuild that raced with nothing restores it.    *)
(***************************************************************************)
EXTENDS Delivery, TLAPS

CodesOf(m) == {x \in codes : x.message = m}

\* The mail is in the mail store, unless it is swept.
Placed(m) == delivery[m].pc \notin {"new", "built"}

RacedAll == Overlapping \subseteq raced

StoredPlaced ==
    \A m \in Messages :
        /\ m \in stored => Placed(m)
        /\ Placed(m) /\ m \notin aged => m \in stored

ListedPlaced == \A r \in Requests : \A m \in request[r].listed : Placed(m)

BaseCurrent ==
    \A r \in Requests \ raced :
        request[r].pc \in {"save", "list", "replace"} => request[r].base = cfg

ListedAll ==
    \A r \in Requests \ raced :
        request[r].pc = "replace" =>
            \A m \in Messages \ aged : Extracted(m) => m \in request[r].listed

CopyCurrent ==
    \A m \in Messages \ raced :
        delivery[m].pc = "extract" => delivery[m].projects = cfg.projects

NoneYet == \A m \in Messages \ raced : Extracted(m) \/ CodesOf(m) = {}

\* No rebuild is still to come.
Rebuilt == \A r \in Requests : request[r].pc \notin {"read", "list", "replace"}

Agrees ==
    (raced \intersect Requests = {} /\ Rebuilt) =>
        \A m \in Messages \ (raced \union aged) :
            Extracted(m) => CodesOf(m) = ExtractMatches(cfg.projects, m)

\* The mails a connection has been given and has not passed on.
Given(w) == {watcher[w].channel[k] : k \in 1..Len(watcher[w].channel)}
                \union ({watcher[w].holding} \ {NoMessage})

\* Whoever is going to be told of a mail is told after its extraction.
ToldAfter ==
    /\ \A p \in posts : Extracted(p.message)
    /\ \A w \in Watchers : \A m \in Given(w) : Extracted(m)

IInv == /\ TypeOK /\ RacedAll /\ StoredPlaced /\ ListedPlaced /\ BaseCurrent /\ ListedAll
        /\ CopyCurrent /\ NoneYet /\ Agrees /\ ToldAfter

-----------------------------------------------------------------------------
(* Every variable keeps its type.                                          *)

LEMMA Extracts ==
  ASSUME NEW projects, NEW m
  PROVE  /\ ExtractMatches(projects, m) \subseteq Match
         /\ \A x \in ExtractMatches(projects, m) : x.message = m
BY DEF ExtractMatches

Stage == [pc : {"new", "built", "stored", "extract", "dispatch", "publish", "done"},
          projects : Lists(Projects), todo : SUBSET Mailboxes]

Asking == [pc : {"new", "save", "read", "list", "replace", "done", "rejected"},
           base : Config, listed : SUBSET Messages]

Watching == [pc : {"new", "open", "closed"}, channel : Seq(Messages),
             holding : Messages \union {NoMessage}]

\* What a step of the session of m does.
DeliverMoves(m) ==
    \E d \in Stage :
        /\ delivery' = [delivery EXCEPT ![m] = d]
        /\ \/ /\ delivery[m].pc = "new" /\ d.pc = "built"
              /\ UNCHANGED <<stored, codes, posts, watcher>>
           \/ /\ delivery[m].pc = "built" /\ d.pc = "stored" /\ stored' = stored \union {m}
              /\ UNCHANGED <<codes, posts, watcher>>
           \/ /\ delivery[m].pc = "stored" /\ d.pc = "extract" /\ d.projects = cfg.projects
              /\ UNCHANGED <<stored, codes, posts, watcher>>
           \/ /\ delivery[m].pc = "extract" /\ d.pc = "dispatch"
              /\ codes' = codes \union ExtractMatches(delivery[m].projects, m)
              /\ UNCHANGED <<stored, posts, watcher>>
           \/ /\ delivery[m].pc = "dispatch" /\ d.pc = "publish"
              /\ posts' = posts \union Payloads(cfg.webhooks, m)
              /\ UNCHANGED <<stored, codes, watcher>>
           \/ /\ delivery[m].pc = "publish" /\ d.pc \in {"publish", "done"}
              /\ watcher' \in [Watchers -> Watching]
              /\ \A w \in Watchers :
                    \/ watcher'[w] = watcher[w]
                    \/ /\ Len(watcher[w].channel) < Capacity
                       /\ watcher'[w] = [watcher[w] EXCEPT !.channel = Append(watcher[w].channel, m)]
              /\ UNCHANGED <<stored, codes, posts>>

LEMMA DeliverDoes ==
  ASSUME TypeOK, NEW m \in Messages, Deliver(m)
  PROVE  DeliverMoves(m) /\ UNCHANGED <<cfg, aged, request, mailJanitor, codeJanitor>>
<1>1. delivery \in [Messages -> Stage] /\ cfg.projects \in Lists(Projects)
      /\ InitialConfig.projects \in Lists(Projects) /\ To[m] \in SUBSET Mailboxes
  BY DeliveryAssumption DEF TypeOK, Stage, Config
<1>2. ASSUME NEW d \in Stage, delivery' = [delivery EXCEPT ![m] = d],
             \/ /\ delivery[m].pc = "new" /\ d.pc = "built"
                /\ UNCHANGED <<stored, codes, posts, watcher>>
             \/ /\ delivery[m].pc = "built" /\ d.pc = "stored" /\ stored' = stored \union {m}
                /\ UNCHANGED <<codes, posts, watcher>>
             \/ /\ delivery[m].pc = "stored" /\ d.pc = "extract" /\ d.projects = cfg.projects
                /\ UNCHANGED <<stored, codes, posts, watcher>>
             \/ /\ delivery[m].pc = "extract" /\ d.pc = "dispatch"
                /\ codes' = codes \union ExtractMatches(delivery[m].projects, m)
                /\ UNCHANGED <<stored, posts, watcher>>
             \/ /\ delivery[m].pc = "dispatch" /\ d.pc = "publish"
                /\ posts' = posts \union Payloads(cfg.webhooks, m)
                /\ UNCHANGED <<stored, codes, watcher>>
      PROVE  DeliverMoves(m)
  BY <1>2 DEF DeliverMoves
<1>3. ASSUME NewMessage(m) PROVE DeliverMoves(m)
  <2> DEFINE d == [delivery[m] EXCEPT !.pc = "built"]
  <2>1. d \in Stage /\ d.pc = "built"
    BY <1>1 DEF Stage
  <2>2. delivery' = [delivery EXCEPT ![m] = d]
    BY <1>3 DEF NewMessage
  <2> HIDE DEF d
  <2> QED BY <1>2, <1>3, <2>1, <2>2 DEF NewMessage
<1>4. ASSUME Add(m) PROVE DeliverMoves(m)
  <2> DEFINE d == [delivery[m] EXCEPT !.pc = "stored"]
  <2>1. d \in Stage /\ d.pc = "stored"
    BY <1>1 DEF Stage
  <2>2. delivery' = [delivery EXCEPT ![m] = d]
    BY <1>4 DEF Add
  <2> HIDE DEF d
  <2> QED BY <1>2, <1>4, <2>1, <2>2 DEF Add
<1>5. ASSUME ReadProjects(m) PROVE DeliverMoves(m)
  <2> DEFINE d == [[delivery[m] EXCEPT !.pc = "extract"] EXCEPT !.projects = cfg.projects]
  <2>1. d \in Stage /\ d.pc = "extract" /\ d.projects = cfg.projects
    BY <1>1 DEF Stage
  <2>2. delivery' = [delivery EXCEPT ![m] = d]
    BY <1>1, <1>5 DEF ReadProjects
  <2> HIDE DEF d
  <2> QED BY <1>2, <1>5, <2>1, <2>2 DEF ReadProjects
<1>6. ASSUME AddMatches(m) PROVE DeliverMoves(m)
  <2> DEFINE d == [[delivery[m] EXCEPT !.pc = "dispatch"] EXCEPT !.projects = InitialConfig.projects]
  <2>1. d \in Stage /\ d.pc = "dispatch"
    BY <1>1 DEF Stage
  <2>2. delivery' = [delivery EXCEPT ![m] = d]
    BY <1>1, <1>6 DEF AddMatches
  <2> HIDE DEF d
  <2> QED BY <1>2, <1>6, <2>1, <2>2 DEF AddMatches
<1>7. ASSUME Dispatch(m) PROVE DeliverMoves(m)
  <2> DEFINE d == [[delivery[m] EXCEPT !.pc = "publish"] EXCEPT !.todo = To[m]]
  <2>1. d \in Stage /\ d.pc = "publish"
    BY <1>1 DEF Stage
  <2>2. delivery' = [delivery EXCEPT ![m] = d]
    BY <1>1, <1>7 DEF Dispatch
  <2> HIDE DEF d
  <2> QED BY <1>2, <1>7, <2>1, <2>2 DEF Dispatch
<1>8. ASSUME Publish(m) PROVE DeliverMoves(m)
  <2>1. PICK a \in delivery[m].todo :
        /\ watcher' = [w \in Watchers |->
             IF /\ watcher[w].pc = "open" /\ Watched[w] = a
                /\ Len(watcher[w].channel) < Capacity
             THEN [watcher[w] EXCEPT !.channel = Append(@, m)] ELSE watcher[w]]
        /\ delivery' = [delivery EXCEPT ![m].todo = @ \ {a},
                                        ![m].pc = IF delivery[m].todo = {a} THEN "done" ELSE @]
    BY <1>8 DEF Publish
  <2> DEFINE d == [[delivery[m] EXCEPT !.todo = delivery[m].todo \ {a}] EXCEPT
                      !.pc = IF delivery[m].todo = {a} THEN "done" ELSE delivery[m].pc]
  <2>2. delivery[m].pc = "publish" /\ UNCHANGED <<stored, codes, posts>>
    BY <1>8 DEF Publish
  <2>3. d \in Stage /\ d.pc \in {"publish", "done"}
    BY <1>1, <2>2 DEF Stage
  <2>4. delivery' = [delivery EXCEPT ![m] = d]
    BY <1>1, <2>1 DEF Stage
  <2>5. \A w \in Watchers :
           \/ watcher'[w] = watcher[w]
           \/ /\ Len(watcher[w].channel) < Capacity
              /\ watcher'[w] = [watcher[w] EXCEPT !.channel = Append(watcher[w].channel, m)]
    BY <2>1
  <2>6. watcher' \in [Watchers -> Watching]
    <3>1. watcher \in [Watchers -> Watching]
      BY DEF TypeOK, Watching
    <3>2. \A w \in Watchers :
             /\ watcher[w] \in Watching
             /\ [watcher[w] EXCEPT !.channel = Append(watcher[w].channel, m)] \in Watching
      <4>1. ASSUME NEW w \in Watchers
            PROVE  /\ watcher[w] \in Watching
                   /\ Append(watcher[w].channel, m) \in Seq(Messages)
        BY <3>1 DEF Watching
      <4> QED BY <4>1 DEF Watching
    <3> QED BY <2>1, <3>2
  <2> HIDE DEF d
  <2> QED BY <2>2, <2>3, <2>4, <2>5, <2>6 DEF DeliverMoves
<1>9. UNCHANGED <<cfg, aged, request, mailJanitor, codeJanitor>>
  BY DEF Deliver, NewMessage, Add, ReadProjects, AddMatches, Dispatch, Publish
<1> QED BY <1>3, <1>4, <1>5, <1>6, <1>7, <1>8, <1>9 DEF Deliver

\* A change keeps the form of the configuration, and one that rebuilds nothing
\* leaves the projects alone.
LEMMA ChangedTyped ==
  ASSUME NEW change \in Changes, NEW base \in Config
  PROVE  /\ Changed(change, base) \in Config
         /\ ~Rebuilds(change) => Changed(change, base).projects = base.projects
<1>1. base.projects \in Lists(Projects) /\ base.webhooks \in Lists(Hooks)
  BY DEF Config
<1>2. CASE change.kind = "config"
  <2>1. change \in [kind : {"config"}, projects : Lists(Projects), webhooks : Lists(Hooks)]
    BY <1>2 DEF Changes, Edits
  <2>2. Changed(change, base) = [projects |-> change.projects, webhooks |-> change.webhooks]
    BY <1>2 DEF Changed
  <2> QED BY <1>2, <2>1, <2>2 DEF Config, Rebuilds
<1>3. ASSUME change.kind # "config"
      PROVE  \E p \in Patterns \union {NoPattern} :
                Changed(change, base) = [base EXCEPT ![change.part][change.id] = p]
  <2>1. change \in Edits("projects", Projects) \/ change \in Edits("webhooks", Hooks)
    BY <1>3 DEF Changes
  <2>2. change.kind \in {"create", "update", "delete"} /\ change.pattern \in Patterns
    BY <2>1 DEF Edits
  <2>3. CASE change.kind \in {"create", "update"}
    BY <2>2, <2>3 DEF Changed
  <2>4. CASE change.kind = "delete"
    BY <2>4 DEF Changed
  <2> QED BY <2>2, <2>3, <2>4
<1>4. CASE change.kind # "config"
  <2>1. PICK p \in Patterns \union {NoPattern} :
           Changed(change, base) = [base EXCEPT ![change.part][change.id] = p]
    BY <1>3, <1>4
  <2>2. CASE change \in Edits("projects", Projects)
    <3>1. change.part = "projects" /\ change.id \in Projects
      BY <2>2 DEF Edits
    <3>2. [base.projects EXCEPT ![change.id] = p] \in Lists(Projects)
      BY <1>1, <3>1 DEF Lists
    <3>3. Changed(change, base) = [base EXCEPT !.projects = [base.projects EXCEPT ![change.id] = p]]
      BY <2>1, <3>1
    <3> QED BY <3>1, <3>2, <3>3 DEF Config, Rebuilds
  <2>3. CASE change \in Edits("webhooks", Hooks)
    <3>1. change.part = "webhooks" /\ change.id \in Hooks
      BY <2>3 DEF Edits
    <3>2. [base.webhooks EXCEPT ![change.id] = p] \in Lists(Hooks)
      BY <1>1, <3>1 DEF Lists
    <3>3. Changed(change, base) = [base EXCEPT !.webhooks = [base.webhooks EXCEPT ![change.id] = p]]
      BY <2>1, <3>1
    <3> QED BY <3>1, <3>2, <3>3 DEF Config
  <2> QED BY <1>4, <2>2, <2>3 DEF Changes
<1> QED BY <1>2, <1>4

\* What a step of request r does, but for the one that replaces the codes.
RequestMoves(r) ==
    \E q \in Asking :
        /\ request' = [request EXCEPT ![r] = q]
        /\ \/ /\ request[r].pc = "new" /\ q.pc \in {"save", "rejected"} /\ q.base = cfg
              /\ q.listed = request[r].listed /\ UNCHANGED cfg
           \/ /\ request[r].pc = "save" /\ q.pc \in {"read", "done", "rejected"}
              /\ q.listed = request[r].listed /\ cfg' \in Config
              /\ q.pc = "done" => cfg'.projects = request[r].base.projects
              /\ q.pc = "rejected" => UNCHANGED cfg
           \/ /\ request[r].pc = "read" /\ q.pc = "list" /\ q.base = cfg
              /\ q.listed = request[r].listed /\ UNCHANGED cfg
           \/ /\ request[r].pc = "list" /\ q.pc = "replace" /\ q.base = request[r].base
              /\ q.listed = stored /\ UNCHANGED cfg

LEMMA RequestDoes ==
  ASSUME TypeOK, NEW r \in Requests, Load(r) \/ Handle(r)
  PROVE  /\ RequestMoves(r)
         /\ UNCHANGED <<stored, aged, codes, delivery, mailJanitor, codeJanitor, posts, watcher>>
<1>1. /\ request \in [Requests -> Asking] /\ cfg \in Config /\ InitialConfig \in Config
      /\ stored \subseteq Messages /\ request[r] \in Asking /\ Change[r] \in Changes
  BY DeliveryAssumption DEF TypeOK, Asking
<1>2. ASSUME Load(r) PROVE RequestMoves(r)
  <2> DEFINE q == [[request[r] EXCEPT !.pc = IF Applicable(Change[r], cfg) THEN "save" ELSE "rejected"]
                      EXCEPT !.base = cfg]
  <2>1. /\ q \in Asking /\ q.pc \in {"save", "rejected"} /\ q.base = cfg
        /\ q.listed = request[r].listed
    BY <1>1 DEF Asking
  <2>2. request' = [request EXCEPT ![r] = q]
    BY <1>1, <1>2 DEF Load
  <2> HIDE DEF q
  <2>3. request[r].pc = "new" /\ UNCHANGED cfg
    BY <1>2 DEF Load
  <2> QED BY <2>1, <2>2, <2>3 DEF RequestMoves
<1>3. ASSUME Save(r) PROVE RequestMoves(r)
  <2>1. request[r].pc = "save"
    BY <1>3 DEF Save
  <2>2. CASE /\ cfg' = Changed(Change[r], request[r].base)
             /\ request' = [request EXCEPT ![r].pc = IF Rebuilds(Change[r]) THEN "read" ELSE "done",
                                           ![r].base = InitialConfig]
    <3> DEFINE q == [[request[r] EXCEPT !.pc = IF Rebuilds(Change[r]) THEN "read" ELSE "done"]
                        EXCEPT !.base = InitialConfig]
    <3>1. /\ q \in Asking /\ q.pc = (IF Rebuilds(Change[r]) THEN "read" ELSE "done")
          /\ q.listed = request[r].listed
      BY <1>1 DEF Asking
    <3>2. request' = [request EXCEPT ![r] = q]
      BY <1>1, <2>2
    <3> HIDE DEF q
    <3>3. request[r].base \in Config
      BY <1>1 DEF Asking
    <3>4. cfg' \in Config /\ (q.pc = "done" => cfg'.projects = request[r].base.projects)
      BY <1>1, <2>2, <3>1, <3>3, ChangedTyped
    <3> QED BY <2>1, <3>1, <3>2, <3>4 DEF RequestMoves
  <2>3. CASE /\ request' = [request EXCEPT ![r].pc = "rejected", ![r].base = InitialConfig]
             /\ UNCHANGED cfg
    <3> DEFINE q == [[request[r] EXCEPT !.pc = "rejected"] EXCEPT !.base = InitialConfig]
    <3>1. q \in Asking /\ q.pc = "rejected" /\ q.listed = request[r].listed
      BY <1>1 DEF Asking
    <3>2. request' = [request EXCEPT ![r] = q]
      BY <1>1, <2>3
    <3> HIDE DEF q
    <3> QED BY <1>1, <2>1, <2>3, <3>1, <3>2 DEF RequestMoves
  <2> QED BY <1>3, <2>2, <2>3 DEF Save
<1>4. ASSUME RebuildRead(r) PROVE RequestMoves(r)
  <2> DEFINE q == [[request[r] EXCEPT !.pc = "list"] EXCEPT !.base = cfg]
  <2>1. q \in Asking /\ q.pc = "list" /\ q.base = cfg /\ q.listed = request[r].listed
    BY <1>1 DEF Asking
  <2>2. request' = [request EXCEPT ![r] = q]
    BY <1>1, <1>4 DEF RebuildRead
  <2> HIDE DEF q
  <2>3. request[r].pc = "read" /\ UNCHANGED cfg
    BY <1>4 DEF RebuildRead
  <2> QED BY <2>1, <2>2, <2>3 DEF RequestMoves
<1>5. ASSUME RebuildList(r) PROVE RequestMoves(r)
  <2> DEFINE q == [[request[r] EXCEPT !.pc = "replace"] EXCEPT !.listed = stored]
  <2>1. q \in Asking /\ q.pc = "replace" /\ q.base = request[r].base /\ q.listed = stored
    BY <1>1 DEF Asking
  <2>2. request' = [request EXCEPT ![r] = q]
    BY <1>1, <1>5 DEF RebuildList
  <2> HIDE DEF q
  <2>3. request[r].pc = "list" /\ UNCHANGED cfg
    BY <1>5 DEF RebuildList
  <2> QED BY <2>1, <2>2, <2>3 DEF RequestMoves
<1>6. UNCHANGED <<stored, aged, codes, delivery, mailJanitor, codeJanitor, posts, watcher>>
  BY DEF Load, Handle, Save, RebuildRead, RebuildList
<1> QED BY <1>2, <1>3, <1>4, <1>5, <1>6 DEF Handle

\* What the step of request r that replaces the codes does.
FinishMoves(r) ==
    \E q \in Asking :
        /\ request' = [request EXCEPT ![r] = q] /\ request[r].pc = "replace"
        /\ q.pc = "done" /\ q.listed = {}
        /\ codes' = UNION {ExtractMatches(request[r].base.projects, m) : m \in request[r].listed}
        /\ raced' = IF r \in raced THEN raced ELSE {}

LEMMA FinishDoes ==
  ASSUME TypeOK, NEW r \in Requests, Finish(r)
  PROVE  /\ FinishMoves(r)
         /\ UNCHANGED <<cfg, stored, aged, delivery, mailJanitor, codeJanitor, posts, watcher>>
<1> DEFINE q == [[[request[r] EXCEPT !.pc = "done"] EXCEPT !.base = InitialConfig]
                    EXCEPT !.listed = {}]
<1>1. request \in [Requests -> Asking] /\ InitialConfig \in Config
  BY DeliveryAssumption DEF TypeOK, Asking
<1>2. q \in Asking /\ q.pc = "done" /\ q.listed = {}
  BY <1>1 DEF Asking
<1>3. request' = [request EXCEPT ![r] = q]
  BY <1>1 DEF Finish, RebuildReplace
<1> HIDE DEF q
<1> QED BY <1>2, <1>3 DEF FinishMoves, Finish, RebuildReplace

\* Time, the janitors and those who are told of mails.
Others ==
    \/ \E m \in Messages : Age(m)
    \/ MailJanitor \/ CodeJanitor
    \/ \E p \in posts : Post(p)
    \/ \E w \in Watchers : Subscribe(w) \/ Take(w) \/ Frame(w) \/ Close(w)

LEMMA OthersDo ==
  ASSUME TypeOK, Others
  PROVE  /\ UNCHANGED <<cfg, delivery, request>>
         /\ aged \subseteq aged' /\ aged' \subseteq Messages
         /\ stored' \subseteq stored /\ stored \ stored' \subseteq aged
         /\ codes' \subseteq codes /\ \A x \in codes \ codes' : x.message \in aged
         /\ posts' \subseteq posts
         /\ mailJanitor' \in [pc : {"idle", "sweep"}, old : SUBSET aged']
         /\ codeJanitor' \in [pc : {"idle", "sweep"}, old : SUBSET aged']
<1>1. mailJanitor.old \subseteq aged /\ codeJanitor.old \subseteq aged /\ aged \subseteq Messages
  BY DEF TypeOK
<1>2. \A b : aged \subseteq b => /\ mailJanitor \in [pc : {"idle", "sweep"}, old : SUBSET b]
                                 /\ codeJanitor \in [pc : {"idle", "sweep"}, old : SUBSET b]
  BY DEF TypeOK
<1>3. CASE \E m \in Messages : Age(m)
  <2>1. /\ UNCHANGED <<cfg, stored, codes, delivery, request, mailJanitor, codeJanitor, posts>>
        /\ aged \subseteq aged' /\ aged' \subseteq Messages
    BY <1>1, <1>3 DEF Age
  <2> QED BY <1>2, <2>1
<1>4. CASE MailJanitor
  <2>1. UNCHANGED <<cfg, aged, codes, delivery, request, codeJanitor, posts>>
    BY <1>4 DEF MailJanitor
  <2>2. stored' = stored \/ stored' = stored \ mailJanitor.old
    BY <1>4 DEF MailJanitor
  <2>3. mailJanitor' \in [pc : {"idle", "sweep"}, old : SUBSET aged']
    BY <1>4, <2>1 DEF MailJanitor
  <2> QED BY <1>1, <1>2, <2>1, <2>2, <2>3
<1>5. CASE CodeJanitor
  <2>1. UNCHANGED <<cfg, aged, stored, delivery, request, mailJanitor, posts>>
    BY <1>5 DEF CodeJanitor
  <2>2. codes' = codes \/ codes' = {x \in codes : x.message \notin codeJanitor.old}
    BY <1>5 DEF CodeJanitor
  <2>3. codeJanitor' \in [pc : {"idle", "sweep"}, old : SUBSET aged']
    BY <1>5, <2>1 DEF CodeJanitor
  <2> QED BY <1>1, <1>2, <2>1, <2>2, <2>3
<1>6. CASE \/ \E p \in posts : Post(p)
           \/ \E w \in Watchers : Subscribe(w) \/ Take(w) \/ Frame(w) \/ Close(w)
  <2>1. UNCHANGED <<cfg, aged, stored, codes, delivery, request, mailJanitor, codeJanitor>>
    BY <1>6 DEF Post, Subscribe, Take, Frame, Close
  <2>2. posts' \subseteq posts
    BY <1>6 DEF Post, Subscribe, Take, Frame, Close
  <2> QED BY <1>1, <1>2, <2>1, <2>2
<1> QED BY <1>3, <1>4, <1>5, <1>6 DEF Others

\* A connection is given a mail by the publication of it only.
LEMMA OthersGive ==
  ASSUME TypeOK, Others
  PROVE  /\ watcher' \in [Watchers -> Watching]
         /\ \A w \in Watchers : Len(watcher'[w].channel) <= Capacity /\ Given(w)' \subseteq Given(w)
<1>1. watcher \in [Watchers -> Watching] /\ \A w \in Watchers : Len(watcher[w].channel) <= Capacity
  BY DEF TypeOK, Watching
<1>2. CASE watcher' = watcher
  BY <1>1, <1>2 DEF Given
<1>3. ASSUME NEW w \in Watchers, NEW v \in Watching, watcher' = [watcher EXCEPT ![w] = v],
             Len(v.channel) <= Capacity,
             \A k \in 1..Len(v.channel) : v.channel[k] \in Given(w),
             v.holding \in Given(w) \union {NoMessage}
      PROVE  /\ watcher' \in [Watchers -> Watching]
             /\ \A u \in Watchers : Len(watcher'[u].channel) <= Capacity /\ Given(u)' \subseteq Given(u)
  <2>1. watcher' \in [Watchers -> Watching]
    BY <1>1, <1>3
  <2>2. \A u \in Watchers : watcher'[u] = IF u = w THEN v ELSE watcher[u]
    BY <1>1, <1>3
  <2>3. ASSUME NEW u \in Watchers
        PROVE  Len(watcher'[u].channel) <= Capacity /\ Given(u)' \subseteq Given(u)
    <3>1. CASE u = w
      <4>1. Given(w)' = {v.channel[k] : k \in 1..Len(v.channel)} \union ({v.holding} \ {NoMessage})
        BY <2>2 DEF Given
      <4> QED BY <1>3, <2>2, <3>1, <4>1
    <3>2. CASE u # w
      BY <1>1, <2>2, <3>2 DEF Given
    <3> QED BY <3>1, <3>2
  <2> QED BY <2>1, <2>3
<1>4. ASSUME NEW w \in Watchers
      PROVE  /\ watcher[w] \in Watching /\ Len(watcher[w].channel) <= Capacity
             /\ \A k \in 1..Len(watcher[w].channel) : watcher[w].channel[k] \in Given(w)
             /\ watcher[w].holding \in Given(w) \union {NoMessage}
  BY <1>1 DEF Given
<1>5. ASSUME NEW w \in Watchers, Subscribe(w)
      PROVE  /\ watcher' \in [Watchers -> Watching]
             /\ \A u \in Watchers : Len(watcher'[u].channel) <= Capacity /\ Given(u)' \subseteq Given(u)
  <2> DEFINE v == [watcher[w] EXCEPT !.pc = "open"]
  <2>1. v \in Watching /\ v.channel = watcher[w].channel /\ v.holding = watcher[w].holding
    BY <1>4 DEF Watching
  <2>2. watcher' = [watcher EXCEPT ![w] = v]
    BY <1>5 DEF Subscribe
  <2> HIDE DEF v
  <2> QED BY <1>3, <1>4, <2>1, <2>2
<1>6. ASSUME NEW w \in Watchers, Take(w)
      PROVE  /\ watcher' \in [Watchers -> Watching]
             /\ \A u \in Watchers : Len(watcher'[u].channel) <= Capacity /\ Given(u)' \subseteq Given(u)
  <2> DEFINE c == watcher[w].channel
             v == [[watcher[w] EXCEPT !.holding = Head(c)] EXCEPT !.channel = Tail(c)]
  <2>1. c \in Seq(Messages) /\ c # << >>
    BY <1>4, <1>6 DEF Take, Watching
  <2>2. /\ Head(c) = c[1] /\ 1 \in 1..Len(c) /\ Head(c) \in Messages /\ Tail(c) \in Seq(Messages)
        /\ Len(Tail(c)) = Len(c) - 1 /\ Len(c) \in Nat
        /\ \A k \in 1..Len(Tail(c)) : Tail(c)[k] = c[k + 1] /\ k + 1 \in 1..Len(c)
    BY <2>1
  <2>3. v \in Watching /\ v.channel = Tail(c) /\ v.holding = Head(c)
    BY <1>4, <2>2 DEF Watching
  <2>4. watcher' = [watcher EXCEPT ![w] = v]
    BY <1>1, <1>6 DEF Take
  <2>5. Len(Tail(c)) <= Capacity
    BY <1>4, <2>2, DeliveryAssumption
  <2>6. Head(c) \in Given(w) /\ \A k \in 1..Len(Tail(c)) : Tail(c)[k] \in Given(w)
    BY <1>4, <2>2
  <2> HIDE DEF v, c
  <2> QED BY <1>3, <2>3, <2>4, <2>5, <2>6
<1>7. ASSUME NEW w \in Watchers, Frame(w)
      PROVE  /\ watcher' \in [Watchers -> Watching]
             /\ \A u \in Watchers : Len(watcher'[u].channel) <= Capacity /\ Given(u)' \subseteq Given(u)
  <2> DEFINE v == [watcher[w] EXCEPT !.holding = NoMessage]
  <2>1. v \in Watching /\ v.channel = watcher[w].channel /\ v.holding = NoMessage
    BY <1>4 DEF Watching
  <2>2. watcher' = [watcher EXCEPT ![w] = v]
    BY <1>7 DEF Frame
  <2> HIDE DEF v
  <2> QED BY <1>3, <1>4, <2>1, <2>2
<1>8. ASSUME NEW w \in Watchers, Close(w)
      PROVE  /\ watcher' \in [Watchers -> Watching]
             /\ \A u \in Watchers : Len(watcher'[u].channel) <= Capacity /\ Given(u)' \subseteq Given(u)
  <2> DEFINE v == [pc |-> "closed", channel |-> << >>, holding |-> NoMessage]
  <2>1. v \in Watching /\ v.channel = << >> /\ v.holding = NoMessage
    BY DEF Watching
  <2>2. watcher' = [watcher EXCEPT ![w] = v]
    BY <1>8 DEF Close
  <2>3. Len(<< >>) <= Capacity /\ 1..Len(<< >>) = {}
    BY DeliveryAssumption
  <2> HIDE DEF v
  <2> QED BY <1>3, <2>1, <2>2, <2>3
<1>9. \/ watcher' = watcher
      \/ \E w \in Watchers : Subscribe(w) \/ Take(w) \/ Frame(w) \/ Close(w)
  BY DEF Others, Age, MailJanitor, CodeJanitor, Post
<1> QED BY <1>2, <1>5, <1>6, <1>7, <1>8, <1>9

\* A publication gives a connection its own mail.
LEMMA DeliverGives ==
  ASSUME TypeOK, NEW m \in Messages, DeliverMoves(m)
  PROVE  /\ watcher' \in [Watchers -> Watching]
         /\ \A w \in Watchers :
               /\ Len(watcher'[w].channel) <= Capacity
               /\ \/ Given(w)' \subseteq Given(w)
                  \/ delivery[m].pc = "publish" /\ Given(w)' \subseteq Given(w) \union {m}
<1>1. watcher \in [Watchers -> Watching] /\ \A w \in Watchers : Len(watcher[w].channel) <= Capacity
  BY DEF TypeOK, Watching
<1>2. \/ watcher' = watcher
      \/ /\ delivery[m].pc = "publish" /\ watcher' \in [Watchers -> Watching]
         /\ \A w \in Watchers :
               \/ watcher'[w] = watcher[w]
               \/ /\ Len(watcher[w].channel) < Capacity
                  /\ watcher'[w] = [watcher[w] EXCEPT !.channel = Append(watcher[w].channel, m)]
  BY DEF DeliverMoves
<1>3. ASSUME NEW w \in Watchers, watcher'[w] = watcher[w]
      PROVE  Len(watcher'[w].channel) <= Capacity /\ Given(w)' \subseteq Given(w)
  BY <1>1, <1>3 DEF Given
<1>4. ASSUME NEW w \in Watchers, Len(watcher[w].channel) < Capacity,
             watcher'[w] = [watcher[w] EXCEPT !.channel = Append(watcher[w].channel, m)]
      PROVE  Len(watcher'[w].channel) <= Capacity /\ Given(w)' \subseteq Given(w) \union {m}
  <2> DEFINE c == watcher[w].channel
  <2>1. c \in Seq(Messages) /\ watcher[w] \in Watching
    BY <1>1 DEF Watching
  <2>2. /\ watcher'[w].channel = Append(c, m) /\ watcher'[w].holding = watcher[w].holding
    BY <1>4, <2>1 DEF Watching
  <2>3. /\ Len(Append(c, m)) = Len(c) + 1 /\ Len(c) \in Nat
        /\ \A k \in 1..Len(Append(c, m)) : k \in 1..Len(c) \/ Append(c, m)[k] = m
        /\ \A k \in 1..Len(c) : Append(c, m)[k] = c[k]
    BY <2>1
  <2>4. Len(Append(c, m)) <= Capacity
    BY <1>4, <2>3, DeliveryAssumption
  <2> HIDE DEF c
  <2>5. Given(w)' = {Append(c, m)[k] : k \in 1..Len(Append(c, m))} \union ({watcher[w].holding} \ {NoMessage})
    BY <2>2 DEF Given
  <2>6. Given(w) = {c[k] : k \in 1..Len(c)} \union ({watcher[w].holding} \ {NoMessage})
    BY DEF Given, c
  <2> QED BY <2>2, <2>3, <2>4, <2>5, <2>6
<1> QED BY <1>1, <1>2, <1>3, <1>4

\* The four kinds of steps.
DeliverStep(m) ==
    DeliverMoves(m) /\ UNCHANGED <<cfg, aged, request, mailJanitor, codeJanitor>> /\ Observe

RequestStep(r) ==
    /\ RequestMoves(r) /\ Observe
    /\ UNCHANGED <<stored, aged, codes, delivery, mailJanitor, codeJanitor, posts, watcher>>

FinishStep(r) ==
    /\ FinishMoves(r)
    /\ UNCHANGED <<cfg, stored, aged, delivery, mailJanitor, codeJanitor, posts, watcher>>

LEMMA NextDoes ==
  ASSUME TypeOK, Next
  PROVE  \/ \E m \in Messages : DeliverStep(m)
         \/ \E r \in Requests : RequestStep(r)
         \/ \E r \in Requests : FinishStep(r)
         \/ Others /\ Observe
<1>1. ASSUME NEW m \in Messages, Deliver(m), Observe PROVE DeliverStep(m)
  BY <1>1, DeliverDoes DEF DeliverStep
<1>2. ASSUME NEW r \in Requests, Load(r) \/ Handle(r), Observe PROVE RequestStep(r)
  BY <1>2, RequestDoes DEF RequestStep
<1>3. ASSUME NEW r \in Requests, Finish(r) PROVE FinishStep(r)
  BY <1>3, FinishDoes DEF FinishStep
<1> QED BY <1>1, <1>2, <1>3 DEF Next, Step, Others

LEMMA TypeStep ==
  ASSUME TypeOK, Next
  PROVE  TypeOK'
<1>1. /\ cfg \in Config /\ stored \subseteq Messages /\ aged \subseteq Messages
      /\ codes \subseteq Match /\ raced \subseteq Messages \union Requests
      /\ delivery \in [Messages -> Stage] /\ request \in [Requests -> Asking]
      /\ mailJanitor \in [pc : {"idle", "sweep"}, old : SUBSET aged]
      /\ codeJanitor \in [pc : {"idle", "sweep"}, old : SUBSET aged]
      /\ posts \subseteq [rule : Hooks, pattern : Patterns, message : Messages, mailbox : Mailboxes]
      /\ watcher \in [Watchers -> Watching] /\ \A w \in Watchers : Len(watcher[w].channel) <= Capacity
  BY DEF TypeOK, Stage, Asking, Watching
<1> DEFINE Typed ==
      /\ cfg' \in Config /\ stored' \subseteq Messages /\ aged' \subseteq Messages
      /\ codes' \subseteq Match /\ raced' \subseteq Messages \union Requests
      /\ delivery' \in [Messages -> Stage] /\ request' \in [Requests -> Asking]
      /\ mailJanitor' \in [pc : {"idle", "sweep"}, old : SUBSET aged']
      /\ codeJanitor' \in [pc : {"idle", "sweep"}, old : SUBSET aged']
      /\ posts' \subseteq [rule : Hooks, pattern : Patterns, message : Messages, mailbox : Mailboxes]
      /\ watcher' \in [Watchers -> Watching] /\ \A w \in Watchers : Len(watcher'[w].channel) <= Capacity
<1>2. Observe => raced' \subseteq Messages \union Requests
  BY <1>1 DEF Observe, Overlapping
<1>3. ASSUME NEW m \in Messages, DeliverStep(m) PROVE Typed
  <2>1. DeliverMoves(m) /\ UNCHANGED <<cfg, aged, request, mailJanitor, codeJanitor>> /\ Observe
    BY <1>3 DEF DeliverStep
  <2>2. watcher' \in [Watchers -> Watching] /\ \A w \in Watchers : Len(watcher'[w].channel) <= Capacity
    BY <2>1, DeliverGives
  <2>3. delivery' \in [Messages -> Stage]
    BY <1>1, <2>1 DEF DeliverMoves
  <2>4. stored' \subseteq Messages /\ codes' \subseteq Match
    BY <1>1, <2>1, Extracts DEF DeliverMoves
  <2>5. posts' \subseteq [rule : Hooks, pattern : Patterns, message : Messages, mailbox : Mailboxes]
    <3>1. posts' = posts \/ posts' = posts \union Payloads(cfg.webhooks, m)
      BY <2>1 DEF DeliverMoves
    <3> QED BY <1>1, <3>1 DEF Payloads
  <2> QED BY <1>1, <1>2, <2>1, <2>2, <2>3, <2>4, <2>5
<1>4. ASSUME NEW r \in Requests, RequestStep(r) PROVE Typed
  <2>1. RequestMoves(r) /\ Observe
        /\ UNCHANGED <<stored, aged, codes, delivery, mailJanitor, codeJanitor, posts, watcher>>
    BY <1>4 DEF RequestStep
  <2>2. cfg' \in Config /\ request' \in [Requests -> Asking]
    BY <1>1, <2>1 DEF RequestMoves
  <2> QED BY <1>1, <1>2, <2>1, <2>2
<1>5. ASSUME NEW r \in Requests, FinishStep(r) PROVE Typed
  <2>1. FinishMoves(r)
        /\ UNCHANGED <<cfg, stored, aged, delivery, mailJanitor, codeJanitor, posts, watcher>>
    BY <1>5 DEF FinishStep
  <2>2. codes' \subseteq Match /\ request' \in [Requests -> Asking] /\ raced' \subseteq raced
    BY <1>1, <2>1, Extracts DEF FinishMoves
  <2> QED BY <1>1, <2>1, <2>2
<1>6. ASSUME Others, Observe PROVE Typed
  BY <1>1, <1>2, <1>6, OthersDo, OthersGive
<1>7. Typed
  BY <1>3, <1>4, <1>5, <1>6, NextDoes
<1> QED BY <1>7 DEF TypeOK, Stage, Asking, Watching

-----------------------------------------------------------------------------
(* What overlaps.                                                          *)

\* A session and a request, or two requests, that are under way are in raced.
LEMMA OverlapIn ==
  ASSUME RacedAll
  PROVE  /\ \A m \in Messages, r \in Requests :
               Extracting(m) /\ Busy(r) => m \in raced /\ r \in raced
         /\ \A q \in Requests, r \in Requests :
               q # r /\ Busy(q) /\ Busy(r) => q \in raced /\ r \in raced
BY DEF RacedAll, Overlapping

\* A mail goes on, and nobody forgets an overlap but by a rebuild.
LEMMA Onward ==
  ASSUME TypeOK, Next
  PROVE  /\ aged \subseteq aged'
         /\ \A m \in Messages : /\ Placed(m) => Placed(m)'
                                /\ Extracted(m) => Extracted(m)'
<1>1. delivery \in [Messages -> Stage]
  BY DEF TypeOK, Stage
<1>2. ASSUME NEW m \in Messages, DeliverStep(m)
      PROVE  /\ aged' = aged
             /\ \A n \in Messages : /\ Placed(n) => Placed(n)'
                                    /\ Extracted(n) => Extracted(n)'
  BY <1>1, <1>2 DEF DeliverStep, DeliverMoves, Placed, Extracted
<1>3. (\E r \in Requests : RequestStep(r) \/ FinishStep(r)) => UNCHANGED <<aged, delivery>>
  BY DEF RequestStep, FinishStep
<1>4. Others => aged \subseteq aged' /\ UNCHANGED delivery
  BY OthersDo
<1> QED BY <1>2, <1>3, <1>4, NextDoes DEF Placed, Extracted

LEMMA RacedStep ==
  ASSUME TypeOK, RacedAll, Next
  PROVE  RacedAll'
<1>1. Observe => RacedAll'
  BY DEF Observe, RacedAll
<1>2. ASSUME NEW r \in Requests, FinishStep(r) PROVE RacedAll'
  <2>1. PICK q \in Asking :
           /\ request' = [request EXCEPT ![r] = q] /\ request[r].pc = "replace"
           /\ q.pc = "done" /\ raced' = IF r \in raced THEN raced ELSE {}
    BY <1>2 DEF FinishStep, FinishMoves
  <2>2. delivery' = delivery /\ request \in [Requests -> Asking]
    BY <1>2 DEF FinishStep, TypeOK, Asking
  <2>3. /\ \A s \in Requests : Busy(s)' => Busy(s) /\ s # r
        /\ \A m \in Messages : Extracting(m)' => Extracting(m)
    BY <2>1, <2>2 DEF Busy, Extracting
  <2>4. CASE r \in raced
    BY <2>1, <2>3, <2>4 DEF RacedAll, Overlapping
  <2>5. CASE r \notin raced
    <3>1. Busy(r)
      BY <2>1 DEF Busy
    <3>2. \A s \in Requests : ~Busy(s)'
      BY <2>3, <2>5, <3>1, OverlapIn
    <3> QED BY <3>2 DEF RacedAll, Overlapping
  <2> QED BY <2>4, <2>5
<1> QED BY <1>1, <1>2, NextDoes DEF DeliverStep, RequestStep

LEMMA StoredPlacedStep ==
  ASSUME TypeOK, StoredPlaced, Next
  PROVE  StoredPlaced'
<1>1. delivery \in [Messages -> Stage]
  BY DEF TypeOK, Stage
<1>2. ASSUME NEW m \in Messages, DeliverStep(m) PROVE StoredPlaced'
  BY <1>1, <1>2 DEF DeliverStep, DeliverMoves, Placed, StoredPlaced
<1>3. (\E r \in Requests : RequestStep(r) \/ FinishStep(r)) => UNCHANGED <<aged, stored, delivery>>
  BY DEF RequestStep, FinishStep
<1>4. Others => /\ aged \subseteq aged' /\ UNCHANGED delivery
                /\ stored' \subseteq stored /\ stored \ stored' \subseteq aged
  BY OthersDo
<1> QED BY <1>2, <1>3, <1>4, NextDoes DEF Placed, StoredPlaced

LEMMA ListedPlacedStep ==
  ASSUME TypeOK, StoredPlaced, ListedPlaced, Next
  PROVE  ListedPlaced'
<1>1. request \in [Requests -> Asking] /\ stored \subseteq Messages
  BY DEF TypeOK, Asking
<1>2. \A r \in Requests : \A m \in request[r].listed : Placed(m)'
  BY <1>1, Onward DEF ListedPlaced, Asking
<1>3. UNCHANGED request => ListedPlaced'
  BY <1>2 DEF ListedPlaced
<1>4. ASSUME NEW r \in Requests, NEW q \in Asking, request' = [request EXCEPT ![r] = q],
             q.listed \in {{}, stored, request[r].listed}
      PROVE  ListedPlaced'
  <2>1. \A m \in stored : Placed(m)'
    BY <1>1, Onward DEF StoredPlaced
  <2> QED BY <1>1, <1>2, <1>4, <2>1 DEF ListedPlaced
<1>5. ASSUME NEW r \in Requests, RequestStep(r) \/ FinishStep(r) PROVE ListedPlaced'
  BY <1>4, <1>5 DEF RequestStep, RequestMoves, FinishStep, FinishMoves
<1> QED BY <1>3, <1>5, NextDoes, OthersDo DEF DeliverStep

-----------------------------------------------------------------------------
(* A request that raced with nothing.                                      *)

LEMMA BaseStep ==
  ASSUME TypeOK, RacedAll, BaseCurrent, Next
  PROVE  BaseCurrent'
<1>1. request \in [Requests -> Asking]
  BY DEF TypeOK, Asking
<1>2. Observe => raced \subseteq raced'
  BY DEF Observe
<1>3. ASSUME UNCHANGED <<cfg, request>>, Observe PROVE BaseCurrent'
  BY <1>2, <1>3 DEF BaseCurrent
<1>4. ASSUME NEW r \in Requests, RequestStep(r) PROVE BaseCurrent'
  <2>1. PICK q \in Asking :
           /\ request' = [request EXCEPT ![r] = q]
           /\ \/ q.pc \in {"save", "list"} /\ q.base = cfg /\ UNCHANGED cfg
              \/ q.pc \notin {"save", "list", "replace"} /\ (Busy(r) \/ UNCHANGED cfg)
              \/ /\ request[r].pc = "list" /\ q.base = request[r].base /\ UNCHANGED cfg
    BY <1>4 DEF RequestStep, RequestMoves, Busy
  <2>2. raced \subseteq raced'
    BY <1>2, <1>4 DEF RequestStep
  <2>3. ASSUME NEW s \in Requests \ raced', request'[s].pc \in {"save", "list", "replace"}
        PROVE  request'[s].base = cfg'
    <3>1. CASE s = r
      BY <1>1, <2>1, <2>2, <2>3, <3>1 DEF BaseCurrent
    <3>2. CASE s # r
      <4>1. request'[s] = request[s] /\ Busy(s) /\ s \notin raced
        BY <1>1, <2>1, <2>2, <2>3, <3>2 DEF Busy
      <4>2. ~Busy(r)
        BY <3>2, <4>1, OverlapIn
      <4>3. UNCHANGED cfg
        BY <2>1, <4>2 DEF Busy
      <4> QED BY <2>3, <4>1, <4>3 DEF BaseCurrent
    <3> QED BY <3>1, <3>2
  <2> QED BY <2>3 DEF BaseCurrent
<1>5. ASSUME NEW r \in Requests, FinishStep(r) PROVE BaseCurrent'
  <2>1. PICK q \in Asking :
           /\ request' = [request EXCEPT ![r] = q] /\ request[r].pc = "replace"
           /\ q.pc = "done" /\ raced' = IF r \in raced THEN raced ELSE {}
    BY <1>5 DEF FinishStep, FinishMoves
  <2>2. cfg' = cfg
    BY <1>5 DEF FinishStep
  <2>3. ASSUME NEW s \in Requests \ raced', request'[s].pc \in {"save", "list", "replace"}
        PROVE  request'[s].base = cfg'
    <3>1. s # r /\ request'[s] = request[s] /\ Busy(s) /\ Busy(r)
      BY <1>1, <2>1, <2>3 DEF Busy
    <3>2. r \in raced /\ raced' = raced
      BY <2>1, <3>1, OverlapIn
    <3> QED BY <2>2, <2>3, <3>1, <3>2 DEF BaseCurrent
  <2> QED BY <2>3 DEF BaseCurrent
<1> QED BY <1>3, <1>4, <1>5, NextDoes, OthersDo DEF DeliverStep

LEMMA ListedAllStep ==
  ASSUME TypeOK, RacedAll, StoredPlaced, ListedAll, Next
  PROVE  ListedAll'
<1>1. request \in [Requests -> Asking] /\ delivery \in [Messages -> Stage] /\ aged \subseteq aged'
  BY Onward DEF TypeOK, Asking, Stage
<1>2. Observe => raced \subseteq raced'
  BY DEF Observe
<1>3. ASSUME NEW m \in Messages, DeliverStep(m) PROVE ListedAll'
  <2>1. raced \subseteq raced' /\ request' = request
    BY <1>2, <1>3 DEF DeliverStep
  <2>2. \A n \in Messages : Extracted(n)' => Extracted(n) \/ Extracting(n)
    BY <1>1, <1>3 DEF DeliverStep, DeliverMoves, Extracted, Extracting
  <2>3. ASSUME NEW s \in Requests \ raced', request'[s].pc = "replace",
               NEW n \in Messages \ aged', Extracted(n)'
        PROVE  n \in request'[s].listed
    <3>1. s \notin raced /\ Busy(s) /\ n \notin aged
      BY <1>1, <2>1, <2>3 DEF Busy
    <3>2. Extracted(n)
      BY <2>2, <2>3, <3>1, OverlapIn
    <3> QED BY <2>1, <2>3, <3>1, <3>2 DEF ListedAll
  <2> QED BY <2>3 DEF ListedAll
<1>4. ASSUME NEW r \in Requests, RequestStep(r) PROVE ListedAll'
  <2>1. PICK q \in Asking :
           /\ request' = [request EXCEPT ![r] = q]
           /\ q.pc = "replace" => q.listed = stored
    BY <1>4 DEF RequestStep, RequestMoves
  <2>2. raced \subseteq raced' /\ UNCHANGED <<aged, delivery>>
    BY <1>2, <1>4 DEF RequestStep
  <2>3. \A n \in Messages \ aged : Extracted(n) => n \in stored
    BY <1>1 DEF StoredPlaced, Placed, Extracted
  <2> QED BY <1>1, <2>1, <2>2, <2>3 DEF ListedAll, Extracted
<1>5. ASSUME NEW r \in Requests, FinishStep(r) PROVE ListedAll'
  <2>1. PICK q \in Asking :
           /\ request' = [request EXCEPT ![r] = q] /\ request[r].pc = "replace"
           /\ q.pc = "done" /\ raced' = IF r \in raced THEN raced ELSE {}
    BY <1>5 DEF FinishStep, FinishMoves
  <2>2. UNCHANGED <<aged, delivery>>
    BY <1>5 DEF FinishStep
  <2>3. ASSUME NEW s \in Requests \ raced', request'[s].pc = "replace"
        PROVE  request'[s] = request[s] /\ s \notin raced
    <3>1. s # r /\ request'[s] = request[s] /\ Busy(s) /\ Busy(r)
      BY <1>1, <2>1, <2>3 DEF Busy
    <3> QED BY <2>1, <2>3, <3>1, OverlapIn
  <2> QED BY <2>2, <2>3 DEF ListedAll, Extracted
<1>6. ASSUME Others, Observe PROVE ListedAll'
  <2>1. UNCHANGED <<request, delivery>> /\ raced \subseteq raced'
    BY <1>2, <1>6, OthersDo
  <2> QED BY <1>1, <2>1 DEF ListedAll, Extracted
<1> QED BY <1>3, <1>4, <1>5, <1>6, NextDoes

-----------------------------------------------------------------------------
(* A session that raced with nothing.                                      *)

\* The configuration changes under no session that is not in raced.
LEMMA CopyStep ==
  ASSUME TypeOK, RacedAll, CopyCurrent, Next
  PROVE  CopyCurrent'
<1>1. delivery \in [Messages -> Stage]
  BY DEF TypeOK, Stage
<1>2. Observe => raced \subseteq raced'
  BY DEF Observe
<1>3. ASSUME NEW m \in Messages, DeliverStep(m) PROVE CopyCurrent'
  <2>1. raced \subseteq raced' /\ cfg' = cfg
    BY <1>2, <1>3 DEF DeliverStep
  <2>2. PICK d \in Stage : /\ delivery' = [delivery EXCEPT ![m] = d]
                           /\ d.pc = "extract" => d.projects = cfg.projects
    BY <1>3 DEF DeliverStep, DeliverMoves
  <2> QED BY <1>1, <2>1, <2>2 DEF CopyCurrent
<1>4. ASSUME NEW r \in Requests, RequestStep(r) PROVE CopyCurrent'
  <2>1. raced \subseteq raced' /\ delivery' = delivery
    BY <1>2, <1>4 DEF RequestStep
  <2>2. Busy(r) \/ UNCHANGED cfg
    BY <1>4 DEF RequestStep, RequestMoves, Busy
  <2>3. ASSUME NEW m \in Messages \ raced', delivery'[m].pc = "extract"
        PROVE  delivery'[m].projects = cfg'.projects
    <3>1. m \notin raced /\ Extracting(m)
      BY <2>1, <2>3 DEF Extracting
    <3>2. UNCHANGED cfg
      BY <2>2, <3>1, OverlapIn
    <3> QED BY <2>1, <2>3, <3>1, <3>2 DEF CopyCurrent
  <2> QED BY <2>3 DEF CopyCurrent
<1>5. ASSUME NEW r \in Requests, FinishStep(r) PROVE CopyCurrent'
  <2>1. Busy(r) /\ raced' = IF r \in raced THEN raced ELSE {}
    BY <1>5 DEF FinishStep, FinishMoves, Busy
  <2>2. UNCHANGED <<cfg, delivery>>
    BY <1>5 DEF FinishStep
  <2>3. ASSUME NEW m \in Messages \ raced', delivery[m].pc = "extract"
        PROVE  m \notin raced
    <3>1. r \in raced
      BY <2>1, <2>3, OverlapIn DEF Extracting
    <3> QED BY <2>1, <2>3, <3>1
  <2> QED BY <2>2, <2>3 DEF CopyCurrent
<1>6. ASSUME Others, Observe PROVE CopyCurrent'
  <2>1. UNCHANGED <<cfg, delivery>> /\ raced \subseteq raced'
    BY <1>2, <1>6, OthersDo
  <2> QED BY <2>1 DEF CopyCurrent
<1> QED BY <1>3, <1>4, <1>5, <1>6, NextDoes

\* What adding the codes of one mail does to those of another: nothing.
LEMMA AddedToOne ==
  ASSUME NEW m, NEW n, NEW projects, codes' = codes \union ExtractMatches(projects, m)
  PROVE  /\ n # m => CodesOf(n)' = CodesOf(n)
         /\ CodesOf(m) = {} => CodesOf(m)' = ExtractMatches(projects, m)
BY Extracts DEF CodesOf

\* A rebuild leaves the codes of the mails it listed.
LEMMA RebuiltFrom ==
  ASSUME NEW m, NEW listed, NEW projects,
         codes' = UNION {ExtractMatches(projects, n) : n \in listed}
  PROVE  CodesOf(m)' = IF m \in listed THEN ExtractMatches(projects, m) ELSE {}
BY Extracts DEF CodesOf

LEMMA NoneYetStep ==
  ASSUME TypeOK, RacedAll, ListedPlaced, NoneYet, Next
  PROVE  NoneYet'
<1>1. delivery \in [Messages -> Stage] /\ request \in [Requests -> Asking]
  BY DEF TypeOK, Stage, Asking
<1>2. Observe => raced \subseteq raced'
  BY DEF Observe
<1>3. ASSUME NEW m \in Messages, DeliverStep(m) PROVE NoneYet'
  <2>1. raced \subseteq raced'
    BY <1>2, <1>3 DEF DeliverStep
  <2>2. CASE codes' = codes
    BY <2>1, <2>2, Onward DEF NoneYet, CodesOf
  <2>3. CASE codes' = codes \union ExtractMatches(delivery[m].projects, m) /\ Extracted(m)'
    BY <2>1, <2>3, Onward, AddedToOne DEF NoneYet
  <2>4. \/ codes' = codes
        \/ codes' = codes \union ExtractMatches(delivery[m].projects, m) /\ Extracted(m)'
    BY <1>1, <1>3 DEF DeliverStep, DeliverMoves, Extracted
  <2> QED BY <2>2, <2>3, <2>4
<1>4. ASSUME NEW r \in Requests, RequestStep(r) PROVE NoneYet'
  <2>1. UNCHANGED <<delivery, codes>> /\ raced \subseteq raced'
    BY <1>2, <1>4 DEF RequestStep
  <2> QED BY <2>1 DEF NoneYet, CodesOf, Extracted
<1>5. ASSUME NEW r \in Requests, FinishStep(r) PROVE NoneYet'
  <2>1. /\ Busy(r) /\ raced' = IF r \in raced THEN raced ELSE {}
        /\ codes' = UNION {ExtractMatches(request[r].base.projects, m) : m \in request[r].listed}
    BY <1>5 DEF FinishStep, FinishMoves, Busy
  <2>2. delivery' = delivery
    BY <1>5 DEF FinishStep
  <2>3. ASSUME NEW m \in Messages \ raced', ~Extracted(m)
        PROVE  m \notin request[r].listed
    <3>1. SUFFICES ASSUME m \in request[r].listed PROVE FALSE
      OBVIOUS
    <3>2. Extracting(m)
      BY <1>1, <2>3, <3>1 DEF ListedPlaced, Placed, Extracted, Extracting, Stage
    <3>3. m \in raced /\ r \in raced
      BY <2>1, <3>2, OverlapIn
    <3> QED BY <2>1, <2>3, <3>3
  <2> QED BY <2>1, <2>2, <2>3, RebuiltFrom, SMTT(30) DEF NoneYet, Extracted
<1>6. ASSUME Others, Observe PROVE NoneYet'
  <2>1. UNCHANGED delivery /\ codes' \subseteq codes /\ raced \subseteq raced'
    BY <1>2, <1>6, OthersDo
  <2> QED BY <2>1 DEF NoneYet, CodesOf, Extracted
<1> QED BY <1>3, <1>4, <1>5, <1>6, NextDoes

-----------------------------------------------------------------------------
(* The code store and those who are told.                                  *)

LEMMA AgreesStep ==
  ASSUME TypeOK, RacedAll, BaseCurrent, ListedAll, CopyCurrent, NoneYet, Agrees, Next
  PROVE  Agrees'
<1>1. delivery \in [Messages -> Stage] /\ request \in [Requests -> Asking] /\ aged \subseteq aged'
  BY Onward DEF TypeOK, Stage, Asking
<1>2. Observe => raced \subseteq raced'
  BY DEF Observe
<1> SUFFICES ASSUME raced' \intersect Requests = {}, Rebuilt',
                    NEW m \in Messages \ (raced' \union aged'), Extracted(m)'
             PROVE  CodesOf(m)' = ExtractMatches(cfg'.projects, m)
  BY DEF Agrees
<1>3. ASSUME NEW n \in Messages, DeliverStep(n)
      PROVE  CodesOf(m)' = ExtractMatches(cfg'.projects, m)
  <2>1. /\ raced \intersect Requests = {} /\ Rebuilt /\ m \in Messages \ (raced \union aged)
        /\ cfg' = cfg
    BY <1>1, <1>2, <1>3 DEF DeliverStep, Rebuilt
  <2>2. PICK d \in Stage :
           /\ delivery' = [delivery EXCEPT ![n] = d]
           /\ \/ codes' = codes /\ ~(delivery[n].pc = "extract" /\ d.pc = "dispatch")
                 /\ (d.pc \in {"dispatch", "publish", "done"} => Extracted(n))
              \/ /\ delivery[n].pc = "extract" /\ d.pc = "dispatch"
                 /\ codes' = codes \union ExtractMatches(delivery[n].projects, n)
    BY <1>3 DEF DeliverStep, DeliverMoves, Extracted
  <2>3. CASE codes' = codes /\ (d.pc \in {"dispatch", "publish", "done"} => Extracted(n))
    <3>1. Extracted(m)
      BY <1>1, <2>2, <2>3 DEF Extracted
    <3> QED BY <2>1, <2>3, <3>1 DEF Agrees, CodesOf
  <2>4. CASE /\ delivery[n].pc = "extract"
             /\ codes' = codes \union ExtractMatches(delivery[n].projects, n)
    <3>1. CASE m = n
      <4>1. CodesOf(m) = {} /\ delivery[m].projects = cfg.projects
        BY <2>1, <2>4, <3>1 DEF NoneYet, CopyCurrent, Extracted
      <4> QED BY <2>1, <2>4, <3>1, <4>1, AddedToOne
    <3>2. CASE m # n
      <4>1. Extracted(m)
        BY <1>1, <2>2, <3>2 DEF Extracted
      <4>2. CodesOf(m)' = CodesOf(m)
        BY <2>4, <3>2, AddedToOne
      <4> QED BY <2>1, <4>1, <4>2 DEF Agrees
    <3> QED BY <3>1, <3>2
  <2> QED BY <2>2, <2>3, <2>4
<1>4. ASSUME NEW r \in Requests, RequestStep(r)
      PROVE  CodesOf(m)' = ExtractMatches(cfg'.projects, m)
  <2>1. /\ raced \intersect Requests = {} /\ m \in Messages \ (raced \union aged)
        /\ UNCHANGED <<codes, delivery>>
    BY <1>1, <1>2, <1>4 DEF RequestStep
  <2>2. PICK q \in Asking :
           /\ request' = [request EXCEPT ![r] = q]
           /\ \/ request[r].pc = "new" /\ UNCHANGED cfg
              \/ q.pc \in {"read", "list", "replace"}
              \/ /\ request[r].pc = "save"
                 /\ cfg'.projects = request[r].base.projects \/ UNCHANGED cfg
    BY <1>4 DEF RequestStep, RequestMoves
  <2>3. request[r].pc \in {"new", "save"} /\ cfg'.projects = cfg.projects
    <3>1. q.pc \notin {"read", "list", "replace"}
      BY <1>1, <2>2 DEF Rebuilt
    <3>2. request[r].pc = "save" => request[r].base = cfg
      BY <2>1 DEF BaseCurrent
    <3> QED BY <2>2, <3>1, <3>2
  <2>4. Rebuilt
    BY <1>1, <2>2, <2>3 DEF Rebuilt
  <2>5. Extracted(m) /\ CodesOf(m)' = CodesOf(m)
    BY <2>1 DEF Extracted, CodesOf
  <2> QED BY <2>1, <2>3, <2>4, <2>5 DEF Agrees
<1>5. ASSUME NEW r \in Requests, FinishStep(r)
      PROVE  CodesOf(m)' = ExtractMatches(cfg'.projects, m)
  <2>1. /\ request[r].pc = "replace" /\ raced' = IF r \in raced THEN raced ELSE {}
        /\ codes' = UNION {ExtractMatches(request[r].base.projects, n) : n \in request[r].listed}
    BY <1>5 DEF FinishStep, FinishMoves
  <2>2. UNCHANGED <<cfg, aged, delivery>>
    BY <1>5 DEF FinishStep
  <2>3. r \notin raced
    BY <2>1
  <2>4. request[r].base = cfg
    BY <2>1, <2>3 DEF BaseCurrent
  <2>5. m \in request[r].listed
    BY <2>1, <2>2, <2>3 DEF ListedAll, Extracted
  <2> QED BY <2>1, <2>2, <2>4, <2>5, RebuiltFrom
<1>6. ASSUME Others, Observe PROVE CodesOf(m)' = ExtractMatches(cfg'.projects, m)
  <2>1. /\ raced \intersect Requests = {} /\ m \in Messages \ (raced \union aged)
        /\ UNCHANGED <<cfg, delivery, request>>
        /\ codes' \subseteq codes /\ \A x \in codes \ codes' : x.message \in aged
    BY <1>1, <1>2, <1>6, OthersDo
  <2>2. Rebuilt /\ Extracted(m) /\ CodesOf(m)' = CodesOf(m)
    BY <2>1 DEF Rebuilt, Extracted, CodesOf
  <2> QED BY <2>1, <2>2 DEF Agrees
<1> QED BY <1>3, <1>4, <1>5, <1>6, NextDoes

LEMMA ToldAfterStep ==
  ASSUME TypeOK, ToldAfter, Next
  PROVE  ToldAfter'
<1>1. /\ \A p \in posts : p.message \in Messages
      /\ \A w \in Watchers : Given(w) \subseteq Messages
      /\ delivery \in [Messages -> Stage]
  BY DEF TypeOK, Given, Stage
<1>2. /\ \A p \in posts : Extracted(p.message)'
      /\ \A w \in Watchers : \A m \in Given(w) : Extracted(m)'
  BY <1>1, Onward DEF ToldAfter
<1>3. ASSUME posts' \subseteq posts, \A w \in Watchers : Given(w)' \subseteq Given(w)
      PROVE  ToldAfter'
  BY <1>2, <1>3 DEF ToldAfter
<1>4. ASSUME UNCHANGED <<posts, watcher>> PROVE ToldAfter'
  BY <1>3, <1>4 DEF Given
<1>5. ASSUME NEW m \in Messages, DeliverStep(m) PROVE ToldAfter'
  <2>1. DeliverMoves(m)
    BY <1>5 DEF DeliverStep
  <2>2. \A p \in posts' : Extracted(p.message)'
    <3>1. \/ posts' = posts
          \/ posts' = posts \union Payloads(cfg.webhooks, m) /\ Extracted(m)'
      BY <1>1, <2>1 DEF DeliverMoves, Extracted
    <3>2. \A p \in Payloads(cfg.webhooks, m) : p.message = m
      BY DEF Payloads
    <3> QED BY <1>2, <3>1, <3>2
  <2>3. ASSUME NEW w \in Watchers, NEW n \in Given(w)' PROVE Extracted(n)'
    <3>1. n \in Given(w) \/ (delivery[m].pc = "publish" /\ n = m)
      BY <2>1, DeliverGives
    <3>2. delivery[m].pc = "publish" => Extracted(m)'
      BY Onward DEF Extracted
    <3> QED BY <1>2, <3>1, <3>2
  <2> QED BY <2>2, <2>3 DEF ToldAfter
<1>6. ASSUME Others PROVE ToldAfter'
  BY <1>3, <1>6, OthersDo, OthersGive
<1> QED BY <1>4, <1>5, <1>6, NextDoes DEF RequestStep, FinishStep

-----------------------------------------------------------------------------
(* The invariant.                                                          *)

LEMMA InitIInv == Init => IInv
<1> SUFFICES ASSUME Init PROVE IInv
  OBVIOUS
<1>1. InitialConfig \in Config /\ InitialConfig.projects \in Lists(Projects)
  BY DeliveryAssumption DEF Config
<1>2. /\ \A m \in Messages : delivery[m].pc = "new"
      /\ \A r \in Requests : request[r].pc = "new" /\ request[r].listed = {}
      /\ \A w \in Watchers : watcher[w].channel = << >> /\ watcher[w].holding = NoMessage
      /\ stored = {} /\ aged = {} /\ codes = {} /\ posts = {} /\ raced = {}
  BY DEF Init
<1>3. TypeOK
  <2>1. delivery \in [Messages -> Stage] /\ request \in [Requests -> Asking]
    BY <1>1 DEF Init, Stage, Asking
  <2>2. watcher \in [Watchers -> Watching]
    BY DEF Init, Watching
  <2>3. \A w \in Watchers : Len(watcher[w].channel) <= Capacity
    BY <1>2, DeliveryAssumption
  <2>4. /\ mailJanitor \in [pc : {"idle", "sweep"}, old : SUBSET aged]
        /\ codeJanitor \in [pc : {"idle", "sweep"}, old : SUBSET aged]
    BY DEF Init
  <2>5. cfg \in Config
    BY <1>1 DEF Init
  <2> QED BY <1>2, <2>1, <2>2, <2>3, <2>4, <2>5 DEF TypeOK, Stage, Asking, Watching
<1>4. \A w \in Watchers : Given(w) = {}
  BY <1>2 DEF Given
<1>5. RacedAll
  BY <1>2 DEF RacedAll, Overlapping, Busy
<1>6. StoredPlaced /\ ListedPlaced /\ BaseCurrent /\ ListedAll
  BY <1>2 DEF StoredPlaced, ListedPlaced, BaseCurrent, ListedAll, Placed
<1>7. CopyCurrent /\ NoneYet /\ Agrees /\ ToldAfter
  BY <1>2, <1>4 DEF CopyCurrent, NoneYet, Agrees, ToldAfter, Extracted, CodesOf
<1> QED BY <1>3, <1>5, <1>6, <1>7 DEF IInv

LEMMA NextIInv == IInv /\ [Next]_vars => IInv'
<1> SUFFICES ASSUME IInv, [Next]_vars PROVE IInv'
  OBVIOUS
<1>1. CASE Next
  BY <1>1, TypeStep, RacedStep, StoredPlacedStep, ListedPlacedStep, BaseStep, ListedAllStep,
     CopyStep, NoneYetStep, AgreesStep, ToldAfterStep DEF IInv
<1>2. CASE UNCHANGED vars
  <2>1. TypeOK' /\ RacedAll' /\ StoredPlaced' /\ ListedPlaced'
    BY <1>2 DEF IInv, vars, TypeOK, RacedAll, Overlapping, Extracting, Busy, StoredPlaced,
                ListedPlaced, Placed
  <2>2. BaseCurrent' /\ ListedAll' /\ CopyCurrent' /\ NoneYet'
    BY <1>2 DEF IInv, vars, BaseCurrent, ListedAll, CopyCurrent, NoneYet, Extracted, CodesOf
  <2>3. Agrees' /\ ToldAfter'
    BY <1>2 DEF IInv, vars, Agrees, Rebuilt, ToldAfter, Given, Extracted, CodesOf
  <2> QED BY <2>1, <2>2, <2>3 DEF IInv
<1> QED BY <1>1, <1>2

THEOREM Invariance == Spec => []IInv
BY InitIInv, NextIInv, PTL DEF Spec

\* Every variable keeps its type, and between configuration changes the code
\* store holds, for every mail whose extraction overlapped with no change, what
\* the projects in force extract from it (extractor.go:51, api.go:836).
THEOREM CodesAlwaysSettle == Spec => []CodesSettle
<1>1. IInv => CodesSettle
  <2> SUFFICES ASSUME IInv PROVE CodesSettle
    OBVIOUS
  <2>1. Settled => raced \intersect Requests = {} /\ Rebuilt
    BY DEF Settled, Busy, Rebuilt
  <2> QED BY <2>1 DEF IInv, CodesSettle, Agrees, CodesOf
<1> QED BY <1>1, Invariance, PTL

\* Whoever is told of a mail, by a frame or by a webhook, finds the mail and its
\* codes in the stores (main.go:50-53, server.go:129-135), if at that moment no
\* request is under way and no overlap of two is left unrepaired, the mail is
\* within its retention, and its extraction overlapped with no request or has
\* been repaired by a rebuild that overlapped with nothing.
THEOREM TellingAlwaysFindsCodes == Spec => TellingFindsCodes
<1> DEFINE Finds ==
      \A m \in Messages \ (aged \union raced), a \in Mailboxes :
          Told(m, a) /\ Settled =>
              m \in stored /\ {x \in ExtractMatches(cfg.projects, m) : x.mailbox = a} \subseteq ListMailbox(a)
<1>1. IInv => Finds
  <2> SUFFICES ASSUME IInv, NEW m \in Messages \ (aged \union raced), NEW a \in Mailboxes,
                      Told(m, a), Settled
               PROVE  /\ m \in stored
                      /\ {x \in ExtractMatches(cfg.projects, m) : x.mailbox = a} \subseteq ListMailbox(a)
    OBVIOUS
  <2>1. Extracted(m)
    <3>1. CASE \E p \in posts : p.message = m
      BY <3>1 DEF IInv, ToldAfter
    <3>2. CASE \E w \in Watchers : watcher[w].holding = m
      <4>1. m # NoMessage
        BY DeliveryAssumption
      <4> QED BY <3>2, <4>1 DEF IInv, ToldAfter, Given
    <3> QED BY <3>1, <3>2 DEF Told
  <2>2. m \in stored
    BY <2>1 DEF IInv, StoredPlaced, Placed, Extracted
  <2>3. raced \intersect Requests = {} /\ Rebuilt
    BY DEF Settled, Busy, Rebuilt
  <2>4. CodesOf(m) = ExtractMatches(cfg.projects, m)
    BY <2>1, <2>3 DEF IInv, Agrees
  <2> QED BY <2>2, <2>4 DEF CodesOf, ListMailbox
<1>2. [](IInv) => [][Finds]_vars
  BY <1>1, PTL
<1> QED BY <1>2, Invariance, PTL DEF TellingFindsCodes

=============================================================================
