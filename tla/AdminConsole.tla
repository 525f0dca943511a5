---------------------------- MODULE AdminConsole -----------------------------
(***************************************************************************)
(* The administrator's part of the page (App in web/src/App.tsx): login,   *)
(* the settings form, the editors of webhook rules and code projects, the  *)
(* confirmation dialog and the delivery log.                               *)
(*                                                                         *)
(* Each click runs an asynchronous function that ends where its answer     *)
(* arrives; a save, a deletion and a login go on with a load of all the    *)
(* page shows, in the same request slot here.  Nothing but a mask or a     *)
(* "loading" button keeps two of them apart, and the React state they      *)
(* write to is shared.  One administrator uses one tab; what several do    *)
(* to each other is ConfigAdmin's subject.                                 *)
(***************************************************************************)
EXTENDS Integers, Sequences, Functions

CONSTANTS
    Kinds,          \* of items: a subset of {"rule", "project"}
    Ids, KindOf,    \* the ids items can get, and KindOf[x]: the kind x is of
    Blank,          \* Blank[k]: emptyRule and emptyCodeProject
    Template,       \* chatGPTCodeProject
    Typed,          \* what the administrator types into an editor
    Valid,          \* the contents that ValidateRule or ValidateProject accepts
    Settings,       \* what the settings form can say
    InitialConfig,  \* what is saved when the page is opened
    Slots,          \* bound: the requests under way at once
    MaxClicks,      \* bound: the requests started, after which the administrator leaves
    MaxEvents,      \* bound: the events of the delivery log
    None

Contents == {Blank[k] : k \in Kinds} \union {Template} \union Typed \union Valid
Items == [Ids -> Contents \union {None}]
Config == [items : Items, settings : Settings]

\* isAdminPage: the overview, which stands for the list of all mails with its
\* equal button too, and the page that lists a kind.
PageOf == [rule |-> "webhooks", project |-> "codeProjects"]
AdminPages == {"adminOverview", "settings", "deliveryDebug"} \union {PageOf[k] : k \in Kinds}
Pages == AdminPages \union {"mailbox", "adminLogin"}

ASSUME ConsoleAssumption ==
    /\ Kinds \subseteq {"rule", "project"} /\ KindOf \in [Ids -> Kinds]
    /\ Ids \intersect Kinds = {} /\ "log" \notin Ids
    /\ Template \in Valid
    /\ Blank \in [Kinds -> Contents] /\ InitialConfig \in Config
    /\ None \notin Contents \union Settings \union Config \union Ids \union Kinds
    /\ None \notin {"load", "login", "put", "save", "delete", "clear", "events",
                   "refresh", "reload", "log"}
    /\ Settings # {} /\ MaxClicks \in Nat /\ MaxEvents \in Nat
    /\ Slots \in Nat \ {0}

VARIABLES
    config,     \* the server's configuration
    used,       \* the ids it has given to items
    log,        \* the events in the delivery log
    next,       \* the number of the latest
    page,       \* activePage
    ready,      \* adminReady
    loaded,     \* adminConfig
    form,       \* configDraft
    modal,      \* per kind the editor: its visibility, what it edits, the draft;
                \* and, as a history, what it has been opened for
    confirm,    \* confirmAction: the item or the "log" that is to go
    busy,       \* which of confirmLoading, adminLoading and debugLoading are set
    events,     \* smtpEvents
    request,    \* per slot, the request under way
    clicks,
    unsure      \* history: requests have overlapped, or an answer was lost, since
                \* the last load that was alone

serverVars == <<config, used, log, next>>
viewVars == <<loaded, form, events>>
dialogVars == <<modal, confirm>>
netVars == <<request, clicks, unsure>>
vars == <<config, used, log, next, page, ready, loaded, form, modal, confirm, busy,
          events, request, clicks, unsure>>

-----------------------------------------------------------------------------
(* Requests.                                                               *)

\* target: the item that is saved or deleted, or the kind of one to create.
\* then: what a load goes on for.  opened: what the editor had been opened for.
\* alone: no other has been under way since.  sure: ~unsure then.
Idle == [pc |-> "idle", kind |-> None, then |-> None, target |-> None, content |-> None,
         config |-> None, list |-> {}, opened |-> None, alone |-> FALSE, sure |-> FALSE]

Sent(kind) == [Idle EXCEPT !.pc = "sent", !.kind = kind]
Load(then) == [Sent("load") EXCEPT !.then = then]

Active(reqs) == {i \in 1..Slots : reqs[i].pc # "idle"}

Free(reqs) == (1..Slots) \ Active(reqs)

\* The ways to give the requests todo a free slot each.
Places(reqs, todo) == Injection(1..Len(todo), Free(reqs))

\* The requests todo are sent.
Begin(reqs, todo) ==
    LET place == CHOOSE f \in Places(reqs, todo) : TRUE
        single == Active(reqs) = {} /\ Len(todo) = 1
        Starting(req) == [req EXCEPT !.alone = single /\ req.kind \in {"load", "put"},
                                     !.sure = ~unsure /\ req.kind = "put"]
    IN  [i \in 1..Slots |->
            IF \E k \in 1..Len(todo) : place[k] = i
            THEN Starting(todo[CHOOSE k \in 1..Len(todo) : place[k] = i])
            ELSE [reqs[i] EXCEPT !.alone = @ /\ todo = << >>]]

\* A click that sends the requests todo.
Click(todo) ==
    /\ clicks + Len(todo) <= MaxClicks
    /\ Places(request, todo) # {}
    /\ clicks' = clicks + Len(todo)
    /\ request' = Begin(request, todo)
    /\ unsure' = (unsure \/ Active(request) # {} \/ Len(todo) > 1)

-----------------------------------------------------------------------------

\* configDraftFrom: the form shows what is saved.
DraftFrom(cfg) == cfg.settings

Closed(k) == [visible |-> FALSE, target |-> k, draft |-> Blank[k], opened |-> k]

\* The page has been opened and its first load sent, which is silent.
Init ==
    /\ config = InitialConfig
    /\ used = {x \in Ids : InitialConfig.items[x] # None}
    /\ log = {} /\ next = 0
    /\ page = "mailbox" /\ ready = FALSE
    /\ loaded = None /\ form = None
    /\ modal = [k \in Kinds |-> Closed(k)]
    /\ confirm = None /\ busy = {}
    /\ events = {} /\ clicks = 0 /\ unsure = FALSE
    /\ request = [i \in 1..Slots |-> IF i = 1 THEN [Load("refresh") EXCEPT !.alone = TRUE] ELSE Idle]

\* The login screen takes the place of the whole page, dialogs included; they
\* keep their state.
LoginScreen == ~ready /\ page \in AdminPages \union {"adminLogin"}

\* Dialogs mask the page.
Masked == confirm # None \/ \E k \in Kinds : modal[k].visible

\* The administrator is still there, by the bound.
Here == clicks < MaxClicks

On(pages) == Here /\ ~LoginScreen /\ ~Masked /\ page \in pages

-----------------------------------------------------------------------------
(* Clicks.                                                                 *)

\* SideMenu; the page of the log loads it as it opens.
Navigate(p) ==
    /\ On(Pages) /\ p # page
    /\ p \in {"mailbox"} \union (IF ready THEN AdminPages ELSE {"adminLogin"})
    /\ page' = p
    /\ IF p = "deliveryDebug"
       THEN Click(<<Sent("events")>>) /\ busy' = busy \union {"debug"}
       ELSE UNCHANGED <<netVars, busy>>
    /\ UNCHANGED <<serverVars, ready, viewVars, dialogVars>>

\* AdminLoginScreen's way back.
Back ==
    /\ Here /\ LoginScreen
    /\ page' = "mailbox"
    /\ UNCHANGED <<serverVars, ready, viewVars, dialogVars, busy, netVars>>

\* adminAuth.
Login ==
    /\ LoginScreen
    /\ Click(<<Sent("login")>>)
    /\ UNCHANGED <<serverVars, page, ready, viewVars, dialogVars, busy>>

\* The header's button, which shows that an announced load is under way and
\* then takes no click.
Refresh ==
    /\ On(Pages) /\ ready /\ "admin" \notin busy
    /\ IF page = "deliveryDebug"
       THEN Click(<<Load("refresh"), Sent("events")>>) /\ busy' = busy \union {"debug"}
       ELSE Click(<<Load("refresh")>>) /\ UNCHANGED busy
    /\ UNCHANGED <<serverVars, page, ready, viewVars, dialogVars>>

\* The buttons of the overview and of the list of all mails, which always do.
Reload ==
    /\ On({"adminOverview"})
    /\ Click(<<Load("reload")>>)
    /\ busy' = busy \union {"admin"}
    /\ UNCHANGED <<serverVars, page, ready, viewVars, dialogVars>>

\* loadDeliveryDebug.
ReloadDebug ==
    /\ On({"deliveryDebug"}) /\ "debug" \notin busy
    /\ Click(<<Sent("events")>>)
    /\ busy' = busy \union {"debug"}
    /\ UNCHANGED <<serverVars, page, ready, viewVars, dialogVars>>

\* SettingsPage.
EditSettings(s) ==
    /\ On({"settings"}) /\ s # form
    /\ form' = s
    /\ UNCHANGED <<serverVars, page, ready, loaded, events, dialogVars, busy, netVars>>

\* saveConfig: the form, with the items as they were loaded.
SaveSettings ==
    /\ On({"settings"})
    /\ Click(<<[Sent("put") EXCEPT !.config = [items |-> loaded.items, settings |-> form]]>>)
    /\ UNCHANGED <<serverVars, page, ready, viewVars, dialogVars, busy>>

\* The editor of kind k shows this, and was opened for that.
Edit(k, editor) ==
    /\ modal' = [modal EXCEPT ![k] = editor]
    /\ UNCHANGED <<serverVars, page, ready, viewVars, confirm, busy, netVars>>

\* openRuleModal and openProjectModal, for a new item or for one of the table.
OpenModal(k) ==
    /\ On({PageOf[k]})
    /\ \/ Edit(k, [visible |-> TRUE, target |-> k, draft |-> Blank[k], opened |-> k])
       \/ \E x \in Ids :
             /\ KindOf[x] = k /\ loaded.items[x] # None
             /\ Edit(k, [visible |-> TRUE, target |-> x, draft |-> loaded.items[x], opened |-> x])

\* Variant: what the editor was last opened for is not forgotten.
OpenTemplateKeeping(k) ==
    /\ k = "project" /\ On({PageOf[k]})
    /\ Edit(k, [modal[k] EXCEPT !.visible = TRUE, !.draft = Template, !.opened = k])

\* openChatGPTProjectModal.
OpenTemplate(k) ==
    /\ k = "project" /\ On({PageOf[k]})
    /\ Edit(k, [visible |-> TRUE, target |-> k, draft |-> Template, opened |-> k])

Open(k) == Here /\ ~LoginScreen /\ modal[k].visible

\* The fields of WebhookModal and CodeProjectModal.
Type(k, content) ==
    /\ Open(k) /\ content # modal[k].draft
    /\ Edit(k, [modal[k] EXCEPT !.draft = content])

\* Cancel hides the editor and leaves the rest as it is.
Cancel(k) ==
    /\ Open(k)
    /\ Edit(k, [modal[k] EXCEPT !.visible = FALSE])

\* saveRule and saveProject, as often as the button is clicked.
Save(k) ==
    /\ Open(k)
    /\ Click(<<[Sent("save") EXCEPT !.target = modal[k].target, !.content = modal[k].draft,
                                    !.opened = modal[k].opened]>>)
    /\ UNCHANGED <<serverVars, page, ready, viewVars, dialogVars, busy>>

\* deleteRule, deleteProject and clearDeliveryDebug ask first.
Ask(what) ==
    /\ \/ what = "log" /\ On({"deliveryDebug"}) /\ events # {}
       \/ what \in Ids /\ On({PageOf[KindOf[what]]}) /\ loaded.items[what] # None
    /\ confirm' = what
    /\ UNCHANGED <<serverVars, page, ready, viewVars, modal, busy, netVars>>

\* Variant: the dialog can be cancelled at any time.
CancelAnyConfirm ==
    /\ Here /\ ~LoginScreen /\ confirm # None
    /\ confirm' = None
    /\ UNCHANGED <<serverVars, page, ready, viewVars, modal, busy, netVars>>

CancelConfirm ==
    /\ Here /\ ~LoginScreen /\ confirm # None /\ "confirm" \notin busy
    /\ confirm' = None
    /\ UNCHANGED <<serverVars, page, ready, viewVars, modal, busy, netVars>>

\* runConfirmAction, from a button that takes no click while it is loading.
Confirm ==
    /\ Here /\ ~LoginScreen /\ confirm # None /\ "confirm" \notin busy
    /\ Click(<<IF confirm = "log" THEN Sent("clear")
               ELSE [Sent("delete") EXCEPT !.target = confirm]>>)
    /\ busy' = busy \union {"confirm"}
    /\ UNCHANGED <<serverVars, page, ready, viewVars, dialogVars>>

-----------------------------------------------------------------------------
(* The server.                                                             *)

Answer(i, req) ==
    /\ request' = [request EXCEPT ![i] = [req EXCEPT !.pc = "handled"]]
    /\ UNCHANGED <<page, ready, viewVars, dialogVars, busy, clicks, unsure>>

Changed(x, content) == config' = [config EXCEPT !.items[x] = content]

\* The create and update handlers.
HandleSave(i) ==
    LET req == request[i]
    IN  /\ req.kind = "save" /\ req.content \in Valid
        /\ IF req.target \in Kinds
           THEN /\ \E x \in Ids \ used : KindOf[x] = req.target
                /\ LET x == CHOOSE x \in Ids \ used : KindOf[x] = req.target
                   IN  Changed(x, req.content) /\ used' = used \union {x}
           ELSE /\ config.items[req.target] # None
                /\ Changed(req.target, req.content) /\ UNCHANGED used
        /\ UNCHANGED log
        /\ Answer(i, req)

\* The delete handlers.
HandleDelete(i) ==
    LET req == request[i]
    IN  /\ req.kind = "delete" /\ config.items[req.target] # None
        /\ Changed(req.target, None)
        /\ UNCHANGED <<used, log>>
        /\ Answer(i, req)

\* handleAdminConfigUpdate takes the items with the settings.
HandlePut(i) ==
    LET req == request[i]
    IN  /\ req.kind = "put"
        /\ config' = req.config
        /\ UNCHANGED <<used, log>>
        /\ Answer(i, req)

\* handleAdminLogin, the handlers that read, and the one that clears the log.
HandleRest(i) ==
    LET req == request[i]
    IN  /\ \/ req.kind = "login" /\ Answer(i, req) /\ UNCHANGED log
           \/ req.kind = "load" /\ Answer(i, [req EXCEPT !.config = config]) /\ UNCHANGED log
           \/ req.kind = "events" /\ Answer(i, [req EXCEPT !.list = log]) /\ UNCHANGED log
           \/ req.kind = "clear" /\ Answer(i, req) /\ log' = {}
        /\ UNCHANGED <<config, used>>

\* A handler is reached with a session that is valid.
Handle(i) ==
    /\ request[i].pc = "sent"
    /\ HandleSave(i) \/ HandleDelete(i) \/ HandlePut(i) \/ HandleRest(i)
    /\ UNCHANGED next

\* An SMTP session records an event.
Record ==
    /\ next < MaxEvents
    /\ next' = next + 1 /\ log' = log \union {next'}
    /\ UNCHANGED <<config, used, page, ready, viewVars, dialogVars, busy, netVars>>

-----------------------------------------------------------------------------
(* Answers.                                                                *)

\* The slot is free, or goes on with the requests todo; effects come with it.
Finish(i, todo) ==
    /\ request' = Begin([request EXCEPT ![i] = Idle], todo)
    /\ UNCHANGED <<serverVars, clicks>>

\* Variant: the editor is all that follows a save.
SavedWithoutLoad(i) ==
    /\ request[i].kind = "save" /\ request[i].pc = "handled"
    /\ LET target == request[i].target
           k == IF target \in Kinds THEN target ELSE KindOf[target]
       IN  /\ modal' = [modal EXCEPT ![k] = Closed(k)]
           /\ request' = [request EXCEPT ![i] = Idle]
    /\ UNCHANGED <<serverVars, clicks, page, ready, viewVars, confirm, busy, unsure>>

\* A save has been answered: the editor closes, whatever it holds by now.
Saved(i) ==
    /\ request[i].kind = "save" /\ request[i].pc = "handled"
    /\ LET target == request[i].target
           k == IF target \in Kinds THEN target ELSE KindOf[target]
       IN  /\ modal' = [modal EXCEPT ![k] = Closed(k)]
           /\ request' = Begin([request EXCEPT ![i] = Idle], <<Load("save")>>)
    /\ busy' = busy \union {"admin"}
    /\ unsure' = (unsure \/ Active(request) # {i})
    /\ UNCHANGED <<serverVars, clicks, page, ready, viewVars, confirm>>

\* A deletion or a login has been answered.
GoOn(i) ==
    /\ request[i].kind \in {"delete", "login"} /\ request[i].pc = "handled"
    /\ Finish(i, <<Load(request[i].kind)>>)
    /\ busy' = busy \union {"admin"}
    /\ unsure' = (unsure \/ Active(request) # {i})
    /\ UNCHANGED <<page, ready, viewVars, dialogVars>>

\* The dialog that waited for a load is closed with it.
Unbusy(req) ==
    busy \ ((IF req.then # "refresh" THEN {"admin"} ELSE {}) \union
            (IF req.then = "delete" THEN {"confirm"} ELSE {}))

\* loadAdminData has been answered: everything is shown, and from the login
\* the page goes to the overview; the page of the log loads it.
Loaded(i) ==
    LET req == request[i]
        to == IF req.then = "login" \/ page = "adminLogin" THEN "adminOverview" ELSE page
        debug == ~ready /\ to = "deliveryDebug"
    IN  /\ req.kind = "load" /\ req.pc = "handled"
        /\ loaded' = req.config /\ form' = DraftFrom(req.config) /\ ready' = TRUE
        /\ page' = to
        /\ confirm' = IF req.then = "delete" THEN None ELSE confirm
        /\ busy' = Unbusy(req) \union (IF debug THEN {"debug"} ELSE {})
        /\ unsure' = IF req.alone THEN FALSE ELSE unsure
        /\ Finish(i, IF debug THEN <<Sent("events")>> ELSE << >>)
        /\ UNCHANGED <<events, modal>>

\* A load has failed: the login screen.
NotLoaded(i) ==
    LET req == request[i]
    IN  /\ req.kind = "load" /\ req.pc = "sent"
        /\ ready' = FALSE
        /\ page' = IF req.then = "login" THEN "adminOverview" ELSE page
        /\ confirm' = IF req.then = "delete" THEN None ELSE confirm
        /\ busy' = Unbusy(req)
        /\ Finish(i, << >>)
        /\ UNCHANGED <<viewVars, modal, unsure>>

\* The settings have been saved.
SettingsSaved(i) ==
    /\ request[i].kind = "put" /\ request[i].pc = "handled"
    /\ loaded' = request[i].config /\ form' = DraftFrom(request[i].config)
    /\ Finish(i, << >>)
    /\ UNCHANGED <<page, ready, events, dialogVars, busy, unsure>>

\* The log has been cleared.
Cleared(i) ==
    /\ request[i].kind = "clear" /\ request[i].pc = "handled"
    /\ events' = {} /\ confirm' = None /\ busy' = busy \ {"confirm"}
    /\ Finish(i, << >>)
    /\ UNCHANGED <<page, ready, loaded, form, modal, unsure>>

\* The log and the slower DNS check have been answered.
EventsLoaded(i) ==
    /\ request[i].kind = "events" /\ request[i].pc = "handled"
    /\ events' = request[i].list /\ busy' = busy \ {"debug"}
    /\ Finish(i, << >>)
    /\ UNCHANGED <<page, ready, loaded, form, dialogVars, unsure>>

\* Variant: after an error the dialog goes on loading.
FailedBusy(i) ==
    /\ request[i].kind \notin {None, "load"}
    /\ request[i].pc = "handled" => request[i].kind \in {"put", "save", "delete", "clear"}
    /\ busy' = busy \ (IF request[i].kind = "events" THEN {"debug"} ELSE {})
    /\ unsure' = (unsure \/ request[i].pc = "handled")
    /\ Finish(i, << >>)
    /\ UNCHANGED <<page, ready, viewVars, dialogVars>>

\* Anything else has been refused, by its handler or because the session has
\* ended or the password is wrong, or has not reached the server, or its answer
\* is lost: an error message, and the buttons are free.
Failed(i) ==
    /\ request[i].kind \notin {None, "load"}
    /\ request[i].pc = "handled" => request[i].kind \in {"put", "save", "delete", "clear"}
    /\ busy' = busy \ (IF request[i].kind \in {"delete", "clear"} THEN {"confirm"}
                       ELSE IF request[i].kind = "events" THEN {"debug"} ELSE {})
    /\ unsure' = (unsure \/ request[i].pc = "handled")
    /\ Finish(i, << >>)
    /\ UNCHANGED <<page, ready, viewVars, dialogVars>>

Arrive(i) ==
    Saved(i) \/ GoOn(i) \/ Loaded(i) \/ SettingsSaved(i) \/ Cleared(i) \/ EventsLoaded(i)

-----------------------------------------------------------------------------

Next ==
    \/ \E p \in Pages : Navigate(p)
    \/ Back \/ Login \/ Refresh \/ Reload \/ ReloadDebug \/ SaveSettings
    \/ \E s \in Settings : EditSettings(s)
    \/ \E k \in Kinds : OpenModal(k) \/ OpenTemplate(k) \/ Cancel(k) \/ Save(k)
    \/ \E k \in Kinds, content \in Typed : Type(k, content)
    \/ \E what \in Ids \union {"log"} : Ask(what)
    \/ CancelConfirm \/ Confirm \/ Record
    \/ \E i \in 1..Slots : Handle(i) \/ Arrive(i) \/ NotLoaded(i) \/ Failed(i)

Spec == Init /\ [][Next]_vars

\* A request is answered or fails, and its answer is acted on.
Serve == \E i \in 1..Slots : Handle(i) \/ Arrive(i) \/ NotLoaded(i) \/ Failed(i)

FairSpec ==
    /\ Spec
    /\ WF_vars(Serve)

-----------------------------------------------------------------------------
(* Properties.                                                             *)

Request ==
    [pc : {"idle", "sent", "handled"},
     kind : {None, "load", "login", "put", "save", "delete", "clear", "events"},
     then : {None, "refresh", "reload", "save", "delete", "login"},
     target : Ids \union Kinds \union {None}, content : Contents \union {None},
     config : Config \union {None}, list : SUBSET (1..MaxEvents),
     opened : Ids \union Kinds \union {None},
     alone : BOOLEAN, sure : BOOLEAN]

\* Every variable keeps its type, and the pages of the administrator are shown
\* with something to show: the settings page has its form, and the tables
\* theirs.
TypeOK ==
    /\ config \in Config /\ used \subseteq Ids
    /\ next \in 0..MaxEvents /\ log \subseteq 1..next
    /\ page \in Pages /\ ready \in BOOLEAN
    /\ loaded \in Config \union {None} /\ form \in Settings \union {None}
    /\ ready => loaded # None /\ form # None
    /\ modal \in [Kinds -> [visible : BOOLEAN, target : Ids \union Kinds,
                            draft : Contents, opened : Ids \union Kinds]]
    /\ confirm \in Ids \union {"log", None} /\ busy \subseteq {"confirm", "admin", "debug"}
    /\ events \subseteq 1..next
    /\ request \in [1..Slots -> Request] /\ clicks \in 0..MaxClicks /\ unsure \in BOOLEAN

\* Every variable keeps its type, and a page that waits for nothing shows what
\* is saved, so long as no two of its requests overlapped, and no answer was
\* lost, since its last load that was alone: each change is followed by the
\* page (App.tsx:716-718, 740-743, 770-771).
ShownIsSaved ==
    /\ TypeOK
    /\ (Active(request) = {} /\ ready /\ ~unsure) => loaded = config

\* The server begins to answer request i.
Handling(i) == request[i].pc = "sent" /\ request'[i].pc = "handled"

\* An item changes only as the administrator asked: the editor saves it to the
\* item it was opened for, whatever it was hidden from before, or to a new one;
\* a deletion takes the one the dialog names; and the settings, which bring all
\* items along, undo none of that when they are sent, with nothing else under way,
\* from a page that shows what is saved.  Settings from any other page are
\* excepted: they may undo whatever changed since its load (App.tsx:686-748,
\* 777-806).
OnlyAskedChanges ==
    [][\A x \in Ids : config'.items[x] # config.items[x] =>
          \E i \in 1..Slots :
             /\ Handling(i)
             /\ LET req == request[i]
                IN  \/ /\ req.kind = "save" /\ config'.items[x] = req.content
                       /\ req.opened = x \/ (req.opened = KindOf[x] /\ x \notin used)
                    \/ req.kind = "delete" /\ confirm = x /\ config'.items[x] = None
                    \/ req.kind = "put" /\ ~(req.sure /\ req.alone)]_vars

\* While something is being removed the dialog that asked is there and says
\* what (App.tsx:750-761, 1013-1023).
DialogTellsTruth ==
    \A i \in Active(request) :
        LET req == request[i]
        IN  /\ req.kind = "delete" => "confirm" \in busy /\ confirm = req.target
            /\ req.kind = "clear" => "confirm" \in busy /\ confirm = "log"
            /\ req.then = "delete" => "confirm" \in busy /\ confirm # None

\* The dialog, which masks the page and cannot be cancelled while it loads, does
\* not load for ever, whatever fails (App.tsx:754-760, 1020-1022).
DialogEnds == "confirm" \in busy ~> "confirm" \notin busy

=============================================================================
