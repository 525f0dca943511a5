------------------------------ MODULE Delivery ------------------------------
(***************************************************************************)
(* What happens to a mail after NewMessage, and what happens to it when    *)
(* the administrator changes the configuration at the same moment.         *)
(*                                                                         *)
(* Five kinds of goroutines share the configuration, the mail store, the   *)
(* code store and the hub, each protected by its own mutex and none by a   *)
(* common one:                                                             *)
(*   - an SMTP session runs session.Data: store, extract the codes,        *)
(*     dispatch the webhooks, publish (smtpserver/server.go, main.go);     *)
(*   - an admin request loads the configuration, saves a changed one and,  *)
(*     unless it is about webhooks, rebuilds the code store (httpapi);     *)
(*   - two janitors sweep the mail store and the code store;               *)
(*   - a WebSocket handler sends a frame per published mail, with the      *)
(*     codes of its mailbox at that moment;                                *)
(*   - a webhook goroutine posts one code to one rule's URL.               *)
(* A step of this module is what one of them does between two acquisitions *)
(* of a mutex.  The mail store is a set here (MailStore shows what the set *)
(* stands for) and "aged" are the mails older than the retention; the hub  *)
(* publishes in one step (Realtime opens it up).                           *)
(***************************************************************************)
EXTENDS Integers, Sequences, FiniteSets

CONSTANTS
    Messages, Mailboxes,
    To,            \* To[m]: the mailboxes message m is for
    Patterns,      \* what a code project or a webhook rule can look for
    NoPattern,     \* there is no project, or no rule, of that id
    Hits,          \* the <<pattern, message, mailbox>> that yield a code
    Projects,      \* the ids of code projects
    Hooks,         \* the ids of webhook rules
    InitialConfig, \* the configuration the program was started with
    Requests,      \* the admin requests
    Change,        \* Change[r]: what request r asks for
    Watchers,      \* the WebSocket connections
    Watched,       \* Watched[w]: the mailbox w is subscribed to
    NoMessage,     \* the connection holds no message
    Capacity       \* of a subscription's channel (16 in hub.go:25)

Lists(ids) == [ids -> Patterns \union {NoPattern}]
Config == [projects : Lists(Projects), webhooks : Lists(Hooks)]

\* What a request can ask for: the settings form, or one project or rule.
Edits(part, ids) ==
    [kind : {"create", "update", "delete"}, part : {part}, id : ids, pattern : Patterns]
Changes ==
    [kind : {"config"}, projects : Lists(Projects), webhooks : Lists(Hooks)]
        \union Edits("projects", Projects) \union Edits("webhooks", Hooks)

ASSUME DeliveryAssumption ==
    /\ To \in [Messages -> (SUBSET Mailboxes) \ {{}}]
    /\ Hits \subseteq Patterns \X Messages \X Mailboxes
    /\ InitialConfig \in Config
    /\ NoPattern \notin Patterns /\ NoMessage \notin Messages
    /\ Change \in [Requests -> Changes]
    /\ Watched \in [Watchers -> Mailboxes]
    /\ Capacity \in Nat \ {0}

VARIABLES
    cfg,         \* Manager.cfg
    stored,      \* the messages in the mail store
    aged,        \* the messages older than the retention
    codes,       \* the matches in the code store
    delivery,    \* per message, where its session is in Data
    request,     \* per admin request, where its handler is
    mailJanitor, codeJanitor,
    posts,       \* the goroutines started for webhooks and not finished
    watcher,     \* per WebSocket connection, its channel and its handler
    raced        \* history: deliveries and requests that overlapped

vars == <<cfg, stored, aged, codes, delivery, request, mailJanitor, codeJanitor,
          posts, watcher, raced>>

-----------------------------------------------------------------------------
(* Extraction and configuration changes.                                   *)

Match == [project : Projects, pattern : Patterns, message : Messages, mailbox : Mailboxes]

\* codeextract.ExtractMatches for one message: a match for every project that
\* finds a code and every mailbox of the message the project is for.
ExtractMatches(projects, m) ==
    {x \in Match : /\ x.message = m
                   /\ x.mailbox \in To[m]
                   /\ projects[x.project] = x.pattern
                   /\ <<x.pattern, m, x.mailbox>> \in Hits}

\* The posts Dispatcher.HandleMessage starts: one per rule and mailbox.
Payloads(webhooks, m) ==
    {p \in [rule : Hooks, pattern : Patterns, message : Messages, mailbox : Mailboxes] :
        /\ p.message = m
        /\ p.mailbox \in To[m]
        /\ webhooks[p.rule] = p.pattern
        /\ <<p.pattern, m, p.mailbox>> \in Hits}

\* Store.ListMailbox of the code store.
ListMailbox(a) == {x \in codes : x.mailbox = a}

\* Create wants an id that is free; update and delete one that exists.
Applicable(change, base) ==
    CASE change.kind = "create" -> base[change.part][change.id] = NoPattern
      [] change.kind \in {"update", "delete"} -> base[change.part][change.id] # NoPattern
      [] OTHER -> TRUE

\* The configuration the handler saves, from the one it loaded.  The settings
\* form ("config") sends both lists whole, as the browser last saw them.
Changed(change, base) ==
    CASE change.kind \in {"create", "update"} ->
            [base EXCEPT ![change.part][change.id] = change.pattern]
      [] change.kind = "delete" -> [base EXCEPT ![change.part][change.id] = NoPattern]
      [] OTHER -> [projects |-> change.projects, webhooks |-> change.webhooks]

\* Only the handlers of the settings form and of the projects rebuild.
Rebuilds(change) == change.kind = "config" \/ change.part = "projects"

-----------------------------------------------------------------------------

Init ==
    /\ cfg = InitialConfig
    /\ stored = {} /\ aged = {} /\ codes = {}
    /\ delivery = [m \in Messages |->
                     [pc |-> "new", projects |-> InitialConfig.projects, todo |-> {}]]
    /\ request = [r \in Requests |-> [pc |-> "new", base |-> InitialConfig, listed |-> {}]]
    /\ mailJanitor = [pc |-> "idle", old |-> {}]
    /\ codeJanitor = [pc |-> "idle", old |-> {}]
    /\ posts = {}
    /\ watcher = [w \in Watchers |-> [pc |-> "new", channel |-> << >>, holding |-> NoMessage]]
    /\ raced = {}

-----------------------------------------------------------------------------
(* An SMTP session in Data, after its mail has been read.                  *)

\* NewMessage stamps the mail; from here on it ages.
NewMessage(m) ==
    /\ delivery[m].pc = "new"
    /\ delivery' = [delivery EXCEPT ![m].pc = "built"]
    /\ UNCHANGED <<cfg, stored, aged, codes, request, mailJanitor, codeJanitor, posts, watcher>>

Add(m) ==
    /\ delivery[m].pc = "built"
    /\ stored' = stored \union {m}
    /\ delivery' = [delivery EXCEPT ![m].pc = "stored"]
    /\ UNCHANGED <<cfg, aged, codes, request, mailJanitor, codeJanitor, posts, watcher>>

\* Processor.HandleMessage takes a copy of the configuration ...
ReadProjects(m) ==
    /\ delivery[m].pc = "stored"
    /\ delivery' = [delivery EXCEPT ![m].pc = "extract", ![m].projects = cfg.projects]
    /\ UNCHANGED <<cfg, stored, aged, codes, request, mailJanitor, codeJanitor, posts, watcher>>

\* ... and adds what the projects in that copy extract.
AddMatches(m) ==
    /\ delivery[m].pc = "extract"
    /\ codes' = codes \union ExtractMatches(delivery[m].projects, m)
    /\ delivery' = [delivery EXCEPT ![m].pc = "dispatch", ![m].projects = InitialConfig.projects]
    /\ UNCHANGED <<cfg, stored, aged, request, mailJanitor, codeJanitor, posts, watcher>>

\* Dispatcher.HandleMessage copies the configuration and starts the goroutines.
Dispatch(m) ==
    /\ delivery[m].pc = "dispatch"
    /\ posts' = posts \union Payloads(cfg.webhooks, m)
    /\ delivery' = [delivery EXCEPT ![m].pc = "publish", ![m].todo = To[m]]
    /\ UNCHANGED <<cfg, stored, aged, codes, request, mailJanitor, codeJanitor, watcher>>

\* Variant: the session waits for its webhooks to be answered.
PublishAfterPosts(m) ==
    /\ delivery[m].pc = "publish" /\ \A p \in posts : p.message # m
    /\ \E a \in delivery[m].todo :
        /\ watcher' = [w \in Watchers |->
             IF /\ watcher[w].pc = "open" /\ Watched[w] = a
                /\ Len(watcher[w].channel) < Capacity
             THEN [watcher[w] EXCEPT !.channel = Append(@, m)] ELSE watcher[w]]
        /\ delivery' = [delivery EXCEPT ![m].todo = @ \ {a},
                                        ![m].pc = IF delivery[m].todo = {a} THEN "done" ELSE @]
    /\ UNCHANGED <<cfg, stored, aged, codes, request, mailJanitor, codeJanitor, posts>>

\* Hub.Publish for one recipient; a subscription whose channel is full misses it.
Publish(m) ==
    /\ delivery[m].pc = "publish"
    /\ \E a \in delivery[m].todo :
        /\ watcher' = [w \in Watchers |->
             IF /\ watcher[w].pc = "open" /\ Watched[w] = a
                /\ Len(watcher[w].channel) < Capacity
             THEN [watcher[w] EXCEPT !.channel = Append(@, m)] ELSE watcher[w]]
        /\ delivery' = [delivery EXCEPT ![m].todo = @ \ {a},
                                        ![m].pc = IF delivery[m].todo = {a} THEN "done" ELSE @]
    /\ UNCHANGED <<cfg, stored, aged, codes, request, mailJanitor, codeJanitor, posts>>

\* Variant: the webhooks and the hub hear of the mail before its codes are added.
DeliverNotifyFirst(m) ==
    \/ NewMessage(m) \/ Add(m) \/ ReadProjects(m)
    \/ /\ delivery[m].pc = "extract"
       /\ posts' = posts \union Payloads(cfg.webhooks, m)
       /\ delivery' = [delivery EXCEPT ![m].pc = "publish", ![m].todo = To[m]]
       /\ UNCHANGED <<cfg, stored, aged, codes, request, mailJanitor, codeJanitor, watcher>>
    \/ Publish(m)
    \/ /\ delivery[m].pc = "done"
       /\ codes' = codes \union ExtractMatches(delivery[m].projects, m)
       /\ UNCHANGED <<cfg, stored, aged, delivery, request, mailJanitor, codeJanitor,
                      posts, watcher>>

Deliver(m) ==
    \/ NewMessage(m) \/ Add(m) \/ ReadProjects(m) \/ AddMatches(m)
    \/ Dispatch(m) \/ Publish(m)

-----------------------------------------------------------------------------
(* An admin request.                                                       *)

\* The handler decodes its input and loads the configuration.
Load(r) ==
    /\ request[r].pc = "new"
    /\ request' = [request EXCEPT ![r].pc = IF Applicable(Change[r], cfg) THEN "save" ELSE "rejected",
                                  ![r].base = cfg]
    /\ UNCHANGED <<cfg, stored, aged, codes, delivery, mailJanitor, codeJanitor, posts, watcher>>

\* saveConfig: the loaded configuration with the change in it replaces the
\* one in force, or the file cannot be written and nothing changes.
Save(r) ==
    /\ request[r].pc = "save"
    /\ \/ /\ cfg' = Changed(Change[r], request[r].base)
          /\ request' = [request EXCEPT ![r].pc = IF Rebuilds(Change[r]) THEN "read" ELSE "done",
                                        ![r].base = InitialConfig]
       \/ /\ request' = [request EXCEPT ![r].pc = "rejected", ![r].base = InitialConfig]
          /\ UNCHANGED cfg
    /\ UNCHANGED <<stored, aged, codes, delivery, mailJanitor, codeJanitor, posts, watcher>>

\* rebuildCodeMatches takes a copy of the configuration, ...
RebuildRead(r) ==
    /\ request[r].pc = "read"
    /\ request' = [request EXCEPT ![r].pc = "list", ![r].base = cfg]
    /\ UNCHANGED <<cfg, stored, aged, codes, delivery, mailJanitor, codeJanitor, posts, watcher>>

\* ... a copy of the mail store, ...
RebuildList(r) ==
    /\ request[r].pc = "list"
    /\ request' = [request EXCEPT ![r].pc = "replace", ![r].listed = stored]
    /\ UNCHANGED <<cfg, stored, aged, codes, delivery, mailJanitor, codeJanitor, posts, watcher>>

\* Variant: the matches are merged into the code store, not put in place of it.
RebuildMerge(r) ==
    /\ request[r].pc = "replace"
    /\ codes' = codes \union
         UNION {ExtractMatches(request[r].base.projects, m) : m \in request[r].listed}
    /\ request' = [request EXCEPT ![r].pc = "done", ![r].base = InitialConfig, ![r].listed = {}]
    /\ UNCHANGED <<cfg, stored, aged, delivery, mailJanitor, codeJanitor, posts, watcher>>

\* ... and puts what the one extracts from the other in place of all matches.
RebuildReplace(r) ==
    /\ request[r].pc = "replace"
    /\ codes' = UNION {ExtractMatches(request[r].base.projects, m) : m \in request[r].listed}
    /\ request' = [request EXCEPT ![r].pc = "done", ![r].base = InitialConfig, ![r].listed = {}]
    /\ UNCHANGED <<cfg, stored, aged, delivery, mailJanitor, codeJanitor, posts, watcher>>

Handle(r) == Save(r) \/ RebuildRead(r) \/ RebuildList(r)

-----------------------------------------------------------------------------
(* Time and the janitors.  Both sweep what was old at their tick.          *)

\* The mail gets older than the retention, which is the same throughout
\* (MailStore has it changed).
Age(m) ==
    /\ delivery[m].pc # "new" /\ m \notin aged
    /\ aged' = aged \union {m}
    /\ UNCHANGED <<cfg, stored, codes, delivery, request, mailJanitor, codeJanitor, posts, watcher>>

MailJanitor ==
    \/ /\ mailJanitor.pc = "idle"
       /\ mailJanitor' = [pc |-> "sweep", old |-> aged]
       /\ UNCHANGED <<cfg, stored, aged, codes, delivery, request, codeJanitor, posts, watcher>>
    \/ /\ mailJanitor.pc = "sweep"
       /\ stored' = stored \ mailJanitor.old
       /\ mailJanitor' = [pc |-> "idle", old |-> {}]
       /\ UNCHANGED <<cfg, aged, codes, delivery, request, codeJanitor, posts, watcher>>

\* Variant: the sweep goes by what the mail store has let go of.
CodeJanitorByMail ==
    \/ /\ codeJanitor.pc = "idle"
       /\ codeJanitor' = [pc |-> "sweep", old |-> aged \intersect stored]
       /\ UNCHANGED <<cfg, stored, aged, codes, delivery, request, mailJanitor, posts, watcher>>
    \/ /\ codeJanitor.pc = "sweep"
       /\ codes' = {x \in codes : x.message \notin codeJanitor.old}
       /\ codeJanitor' = [pc |-> "idle", old |-> {}]
       /\ UNCHANGED <<cfg, stored, aged, delivery, request, mailJanitor, posts, watcher>>

\* A match carries its mail's ReceivedAt and ages with it.
CodeJanitor ==
    \/ /\ codeJanitor.pc = "idle"
       /\ codeJanitor' = [pc |-> "sweep", old |-> aged]
       /\ UNCHANGED <<cfg, stored, aged, codes, delivery, request, mailJanitor, posts, watcher>>
    \/ /\ codeJanitor.pc = "sweep"
       /\ codes' = {x \in codes : x.message \notin codeJanitor.old}
       /\ codeJanitor' = [pc |-> "idle", old |-> {}]
       /\ UNCHANGED <<cfg, stored, aged, delivery, request, mailJanitor, posts, watcher>>

-----------------------------------------------------------------------------
(* Those who are told of a mail.                                           *)

\* A webhook goroutine makes its request; it may fail and is not retried.
Post(p) ==
    /\ p \in posts
    /\ posts' = posts \ {p}
    /\ UNCHANGED <<cfg, stored, aged, codes, delivery, request, mailJanitor, codeJanitor, watcher>>

Subscribe(w) ==
    /\ watcher[w].pc = "new"
    /\ watcher' = [watcher EXCEPT ![w].pc = "open"]
    /\ UNCHANGED <<cfg, stored, aged, codes, delivery, request, mailJanitor, codeJanitor, posts>>

\* The handler takes the next message out of its channel ...
Take(w) ==
    /\ watcher[w].pc = "open" /\ watcher[w].holding = NoMessage /\ watcher[w].channel # << >>
    /\ watcher' = [watcher EXCEPT ![w].holding = Head(watcher[w].channel),
                                  ![w].channel = Tail(@)]
    /\ UNCHANGED <<cfg, stored, aged, codes, delivery, request, mailJanitor, codeJanitor, posts>>

\* ... and sends a frame with it and with the codes its mailbox has by now.
Frame(w) ==
    /\ watcher[w].pc = "open" /\ watcher[w].holding # NoMessage
    /\ watcher' = [watcher EXCEPT ![w].holding = NoMessage]
    /\ UNCHANGED <<cfg, stored, aged, codes, delivery, request, mailJanitor, codeJanitor, posts>>

\* The browser is gone, or a write to it failed.
Close(w) ==
    /\ watcher[w].pc = "open"
    /\ watcher' = [watcher EXCEPT ![w] = [pc |-> "closed", channel |-> << >>, holding |-> NoMessage]]
    /\ UNCHANGED <<cfg, stored, aged, codes, delivery, request, mailJanitor, codeJanitor, posts>>

-----------------------------------------------------------------------------
(* The history of overlaps, and the whole program.                         *)

\* The mail is visible to a rebuild and its codes are not there yet.
Extracting(m) == delivery[m].pc \in {"stored", "extract"}

\* The request works on a configuration, or on matches, it loaded earlier.
Busy(r) == request[r].pc \in {"save", "read", "list", "replace"}

Overlapping ==
    {m \in Messages : Extracting(m) /\ \E r \in Requests : Busy(r)} \union
    {r \in Requests : /\ Busy(r)
                      /\ \/ \E q \in Requests \ {r} : Busy(q)
                         \/ \E m \in Messages : Extracting(m)}

Step ==
    \/ \E m \in Messages : Deliver(m) \/ Age(m)
    \/ \E r \in Requests : Load(r) \/ Handle(r)
    \/ MailJanitor \/ CodeJanitor
    \/ \E p \in posts : Post(p)
    \/ \E w \in Watchers : Subscribe(w) \/ Take(w) \/ Frame(w) \/ Close(w)

\* A rebuild that overlapped with nothing leaves nothing of earlier overlaps.
Finish(r) ==
    /\ RebuildReplace(r)
    /\ raced' = IF r \in raced THEN raced ELSE {}

Observe == raced' = raced \union Overlapping'

Next ==
    \/ Step /\ Observe
    \/ \E r \in Requests : Finish(r)

Spec == Init /\ [][Next]_vars

\* Sessions and handlers run on, and the tickers tick.  Nothing is assumed of
\* the peers: a watcher may never read and a webhook may never answer.
FairSpec ==
    /\ Spec
    /\ \A m \in Messages : WF_vars(delivery[m].pc # "new" /\ Deliver(m) /\ Observe)
    /\ \A r \in Requests : WF_vars(Handle(r) /\ Observe) /\ WF_vars(Finish(r))
    /\ WF_vars(MailJanitor /\ Observe)
    /\ WF_vars(CodeJanitor /\ Observe)

-----------------------------------------------------------------------------
(* Properties.                                                             *)

\* Every variable keeps its type, and a janitor sweeps old mails only.
TypeOK ==
    /\ cfg \in Config
    /\ stored \subseteq Messages /\ aged \subseteq Messages
    /\ codes \subseteq Match
    /\ delivery \in [Messages -> [pc : {"new", "built", "stored", "extract", "dispatch",
                                        "publish", "done"},
                                  projects : Lists(Projects), todo : SUBSET Mailboxes]]
    /\ request \in [Requests -> [pc : {"new", "save", "read", "list", "replace", "done", "rejected"},
                                 base : Config, listed : SUBSET Messages]]
    /\ mailJanitor \in [pc : {"idle", "sweep"}, old : SUBSET aged]
    /\ codeJanitor \in [pc : {"idle", "sweep"}, old : SUBSET aged]
    /\ posts \subseteq [rule : Hooks, pattern : Patterns, message : Messages, mailbox : Mailboxes]
    /\ watcher \in [Watchers -> [pc : {"new", "open", "closed"}, channel : Seq(Messages),
                                 holding : Messages \union {NoMessage}]]
    /\ \A w \in Watchers : Len(watcher[w].channel) <= Capacity
    /\ raced \subseteq Messages \union Requests

Extracted(m) == delivery[m].pc \in {"dispatch", "publish", "done"}

\* No request is under way and none that overlapped is still unrepaired.
Settled == raced \intersect Requests = {} /\ \A r \in Requests : ~Busy(r)

\* Every variable keeps its type, and between configuration changes the code
\* store holds, for every mail whose extraction overlapped with no change,
\* exactly what the projects in force extract from it: however many changes and
\* rebuilds there were, as long as no two of them overlapped, or a later one
\* overlapped with nothing.  What the overlaps can do is in the properties
\* below (codeextract/extractor.go:51, httpapi/api.go:836).
CodesSettle ==
    /\ TypeOK
    /\ Settled => \A m \in Messages \ (raced \union aged) :
                     Extracted(m) => {x \in codes : x.message = m} = ExtractMatches(cfg.projects, m)

\* Somebody is told of m in this step, for mailbox a.
Told(m, a) ==
    \/ \E p \in posts \ posts' : p.message = m /\ p.mailbox = a
    \/ \E w \in Watchers : /\ watcher[w].holding = m /\ Watched[w] = a
                           /\ watcher'[w].pc = "open" /\ watcher'[w].holding = NoMessage

\* Whoever is told of a mail, by a frame or by a webhook, finds the mail and
\* its codes: both stores were filled before anybody was told (main.go:50-53,
\* server.go:129-135).  That is so of a mail within its retention whose
\* extraction overlapped with no request, or with none since a rebuild that
\* overlapped with nothing, and at moments when no request is under way and no
\* overlap of two is left unrepaired; of other mails and moments it is not, as
\* PublishedCodesAreThere shows.
TellingFindsCodes ==
    [][\A m \in Messages \ (aged \union raced), a \in Mailboxes :
          Told(m, a) /\ Settled =>
              m \in stored /\ {x \in ExtractMatches(cfg.projects, m) : x.mailbox = a} \subseteq ListMailbox(a)]_vars

\* An SMTP session comes to its end although no webhook answers and no browser
\* reads: the client is not kept waiting for its 250.
DeliveryCompletes ==
    \A m \in Messages : delivery[m].pc # "new" ~> delivery[m].pc = "done"

\* The codes of a mail past its retention go for good, even those a slow
\* session or a rebuild that listed the mail earlier puts back after a sweep.
AgedCodesGo ==
    \A m \in Messages : m \in aged ~> [](\A x \in codes : x.message # m)

\* What the extraction test says of every mail that is published: its codes are
\* there by then.  The configuration is the same throughout.
PublishedCodesAreThere ==
    [][\A m \in Messages \ aged, a \in Mailboxes :
          Told(m, a) /\ cfg = InitialConfig =>
              {x \in ExtractMatches(cfg.projects, m) : x.mailbox = a} \subseteq ListMailbox(a)]_vars

=============================================================================
