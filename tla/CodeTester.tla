----------------------------- MODULE CodeTester ------------------------------
(***************************************************************************)
(* The tester of code projects: the panel beside a mail where an           *)
(* administrator tries patterns (CodeExtractionTester in web/src/App.tsx), *)
(* the handler behind it (handleAdminCodeProjectTest in httpapi/api.go),   *)
(* and the request for suggestions to an OpenAI API (ai/openai.go).        *)
(*                                                                         *)
(* The panel has two buttons, "test" and "suggest".  Each is disabled      *)
(* while its own request is under way; the rest of the page is not, so the *)
(* administrator goes on to another mail or project while the handler      *)
(* waits for an API.  In automatic mode the handler asks the Responses API *)
(* and, if that is not there, the Chat Completions API, both within one    *)
(* timeout.  Either API may answer anything or nothing.                    *)
(***************************************************************************)
EXTENDS Integers, Sequences

CONSTANTS
    Messages,
    Projects,       \* those the panel can select, the built-in template included
    PatternOf,      \* PatternOf[p]: the saved pattern of project p
    Patterns,       \* what can be in the pattern field
    Compiling,      \* those that compile
    Finds,          \* the <<pattern, message>> that yield a code
    Sources,        \* the words an API can give for a source
    Texts,          \* what the output of an API can parse to: suggestions
    AISettings,     \* what the openai part of the configuration can be set to
    Nothing

Buttons == {"test", "suggest"}
KnownSources == {"text", "html", "raw", "all"}
Suggestion == [pattern : Patterns, source : Sources]
Modes == {"auto", "responses", "chat"}

ASSUME TesterAssumption ==
    /\ Compiling \subseteq Patterns /\ KnownSources \subseteq Sources
    /\ PatternOf \in [Projects -> Compiling]
    /\ Finds \subseteq Patterns \X Messages
    /\ Texts \subseteq Seq(Suggestion)
    /\ AISettings # {} /\ AISettings \subseteq [enabled : BOOLEAN, key : BOOLEAN, mode : Modes]

VARIABLES
    stored,     \* the mails the server still has
    openai,     \* the openai part of the configuration
    panel,      \* what the panel shows
    asked       \* per button, the request it has started

testerVars == <<stored, openai, panel, asked>>

-----------------------------------------------------------------------------
(* What the server computes.                                               *)

\* codeextract.ValidateProject; the project's other fields are as saved.
ValidateProject(project) == project.pattern \in Compiling /\ project.source \in KnownSources

\* Variant: what the API suggests is taken as it comes.
NormalizeNothing(text) == {text[i] : i \in DOMAIN text}

\* normalizeRegexSuggestions: those that compile, the first of each pattern,
\* with a source there is.
NormalizeRegexSuggestions(text) ==
    {[pattern |-> text[i].pattern,
      source |-> IF text[i].source \in KnownSources THEN text[i].source ELSE "all"] :
        i \in {i \in DOMAIN text : /\ text[i].pattern \in Compiling
                                   /\ \A j \in 1..(i - 1) : text[j].pattern # text[i].pattern}}

\* The handler's answer, by what it carries.
NoAnswer == [kind |-> "failed", found |-> FALSE, items |-> {}]
Refused == [kind |-> "refused", found |-> FALSE, items |-> {}]
AIError == [kind |-> "error", found |-> FALSE, items |-> {}]
Matches(found) == [kind |-> "matches", found |-> found, items |-> {}]
Suggestions(items) == [kind |-> "suggestions", found |-> FALSE, items |-> items]

-----------------------------------------------------------------------------
(* The panel.                                                              *)

\* What is shown of an answer, and which mail and project it is about; late
\* ones, which may be about any, are not told apart further.
ResultsOf(req) ==
    [about |-> IF req.late THEN Nothing ELSE <<req.message, req.project>>,
     found |-> req.reply.found, items |-> req.reply.items]

Unasked == [pc |-> "idle", message |-> Nothing, project |-> Nothing, pattern |-> Nothing,
            source |-> Nothing, applied |-> FALSE, late |-> FALSE, mode |-> "auto",
            reply |-> NoAnswer]

TesterInit ==
    /\ stored = Messages
    /\ openai \in AISettings
    /\ \E m \in Messages, p \in Projects :
          panel = [message |-> m, project |-> p, pattern |-> PatternOf[p], source |-> "all",
                   applied |-> FALSE, matches |-> Nothing, suggestions |-> Nothing]
    /\ asked = [b \in Buttons |-> Unasked]

Server == UNCHANGED <<stored, openai>>

\* Variant: the results stay when another mail or project is chosen.
ShowKeeping(m, p) ==
    /\ <<m, p>> # <<panel.message, panel.project>>
    /\ panel' = [panel EXCEPT !.message = m, !.project = p, !.pattern = PatternOf[p],
                              !.source = "all", !.applied = FALSE]
    /\ asked' = [b \in Buttons |-> [asked[b] EXCEPT !.late = @ \/ asked[b].pc # "idle"]]
    /\ Server

\* Another mail is opened or another project selected: the effect puts the
\* project's pattern back and clears what the panel showed.  A request that
\* is under way goes on, and is late from now on.
Show(m, p) ==
    /\ <<m, p>> # <<panel.message, panel.project>>
    /\ panel' = [message |-> m, project |-> p, pattern |-> PatternOf[p], source |-> "all",
                 applied |-> FALSE, matches |-> Nothing, suggestions |-> Nothing]
    /\ asked' = [b \in Buttons |-> [asked[b] EXCEPT !.late = @ \/ asked[b].pc # "idle"]]
    /\ Server

\* The administrator types a pattern.
EditPattern(pattern) ==
    /\ panel' = [panel EXCEPT !.pattern = pattern, !.applied = FALSE]
    /\ UNCHANGED asked /\ Server

\* applySuggestion.
ApplySuggestion(item) ==
    /\ panel.suggestions # Nothing /\ item \in panel.suggestions.items
    /\ panel' = [panel EXCEPT !.pattern = item.pattern, !.source = item.source,
                              !.applied = TRUE, !.matches = Nothing]
    /\ UNCHANGED asked /\ Server

\* runTest: the button sends what the panel holds at that moment.
Send(b) ==
    /\ asked[b].pc = "idle"
    /\ asked' = [asked EXCEPT ![b] =
         [Unasked EXCEPT !.pc = "sent", !.message = panel.message, !.project = panel.project,
                      !.pattern = panel.pattern, !.source = panel.source,
                      !.applied = panel.applied]]
    /\ UNCHANGED panel /\ Server

\* The answer comes, or the connection fails: the button is free again.
Receive(b) ==
    /\ asked[b].pc = "answered"
    /\ asked' = [asked EXCEPT ![b] = Unasked]
    /\ LET req == asked[b]
       IN  panel' = CASE req.reply.kind = "matches" -> [panel EXCEPT !.matches = ResultsOf(req)]
                      [] req.reply.kind \in {"suggestions", "error"} ->
                            [panel EXCEPT !.suggestions = ResultsOf(req)]
                      [] OTHER -> panel
    /\ Server

-----------------------------------------------------------------------------
(* The handler.                                                            *)

Reply(b, reply) ==
    asked' = [asked EXCEPT ![b].pc = "answered", ![b].reply = reply]

OnlyAsked == UNCHANGED <<stored, openai, panel>>

\* The handler gets the mail, checks the project and extracts.
HandleTest(b) ==
    /\ asked[b].pc = "sent"
    /\ LET req == asked[b]
       IN  IF req.message \notin stored THEN Reply(b, NoAnswer)
           ELSE IF ~ ValidateProject(req) THEN Reply(b, Refused)
           ELSE IF b = "test" THEN Reply(b, Matches(<<req.pattern, req.message>> \in Finds))
           ELSE asked' = [asked EXCEPT ![b].pc = "settings"]
    /\ OnlyAsked

\* SuggestRegex: with the configuration of now, which API to ask first.
SuggestRegex ==
    LET b == "suggest"
    IN  /\ asked[b].pc = "settings"
        /\ IF openai.enabled /\ openai.key
           THEN asked' = [asked EXCEPT
                  ![b].pc = IF openai.mode = "chat" THEN "chat" ELSE "responses",
                  ![b].mode = openai.mode]
           ELSE Reply(b, AIError)
        /\ OnlyAsked

\* The API that was asked gives output that parses.
APISuggests(text) ==
    LET b == "suggest"
    IN  /\ asked[b].pc \in {"responses", "chat"}
        /\ Reply(b, Suggestions(NormalizeRegexSuggestions(text)))
        /\ OnlyAsked

\* It refuses, cannot be reached, or gives output that is empty or does not parse.
APIFails ==
    LET b == "suggest"
    IN  /\ asked[b].pc \in {"responses", "chat"}
        /\ Reply(b, AIError)
        /\ OnlyAsked

\* In automatic mode the Responses API refuses in a way that says it is not
\* there, and the Chat Completions API is asked.
FallBack ==
    LET b == "suggest"
    IN  /\ asked[b].pc = "responses" /\ asked[b].mode = "auto"
        /\ asked' = [asked EXCEPT ![b].pc = "chat"]
        /\ OnlyAsked

\* Variant: the second API is asked outside the timeout.
DeadlineOfFirst ==
    LET b == "suggest"
    IN  /\ asked[b].pc = "responses"
        /\ Reply(b, AIError)
        /\ OnlyAsked

\* The timeout around both APIs: an error that does not lead to the second.
Deadline ==
    LET b == "suggest"
    IN  /\ asked[b].pc \in {"responses", "chat"}
        /\ Reply(b, AIError)
        /\ OnlyAsked

-----------------------------------------------------------------------------
(* What else happens at the server.                                        *)

\* The janitor sweeps a mail.
Sweep(m) ==
    /\ m \in stored
    /\ stored' = stored \ {m}
    /\ UNCHANGED <<openai, panel, asked>>

\* The settings are saved.
Configure(settings) ==
    /\ openai' = settings
    /\ UNCHANGED <<stored, panel, asked>>

TesterNext ==
    \/ \E m \in Messages, p \in Projects : Show(m, p)
    \/ \E pattern \in Patterns : EditPattern(pattern)
    \/ \E item \in Suggestion : ApplySuggestion(item)
    \/ \E b \in Buttons : Send(b) \/ HandleTest(b) \/ Receive(b)
    \/ SuggestRegex \/ APIFails \/ FallBack \/ Deadline
    \/ \E text \in Texts : APISuggests(text)
    \/ \E m \in Messages : Sweep(m)
    \/ \E settings \in AISettings : Configure(settings)

TesterSpec == TesterInit /\ [][TesterNext]_testerVars

\* The handler runs and its answer travels; an API owes no answer.
TesterFairSpec ==
    /\ TesterSpec
    /\ \A b \in Buttons : WF_testerVars(HandleTest(b)) /\ WF_testerVars(Receive(b))
    /\ WF_testerVars(SuggestRegex) /\ WF_testerVars(Deadline)

-----------------------------------------------------------------------------
(* Properties.                                                             *)

Result == [about : (Messages \X Projects) \union {Nothing}, found : BOOLEAN,
           items : SUBSET [pattern : Compiling, source : KnownSources]]

\* Every variable keeps its type; what the panel lists as suggestions are
\* patterns that compile, of sources there are.
TesterTypeOK ==
    /\ stored \subseteq Messages
    /\ openai \in AISettings
    /\ panel.message \in Messages /\ panel.project \in Projects
    /\ panel.pattern \in Patterns /\ panel.source \in KnownSources /\ panel.applied \in BOOLEAN
    /\ panel.matches # Nothing => panel.matches \in Result
    /\ panel.suggestions # Nothing => panel.suggestions \in Result
    /\ \A b \in Buttons :
          /\ asked[b].pc \in {"idle", "sent", "settings", "responses", "chat", "answered"}
          /\ asked[b].pc \in {"settings", "responses", "chat"} => b = "suggest"

\* Every variable keeps its type, and a suggestion that was applied can be
\* tested: the server does not refuse, as a pattern that does not compile or a
\* source there is not, what it has let through itself (openai.go:496-536,
\* extractor.go:151-172).
AppliedIsAccepted ==
    /\ TesterTypeOK
    /\ \A b \in Buttons : asked[b].applied => asked[b].reply # Refused

\* The panel shows results of the mail and the project it shows, and of no
\* other, but for those that were under way when one of the two was changed
\* (App.tsx:1360-1366).
ShownBelongsHere ==
    \A shown \in {panel.matches, panel.suggestions} \ {Nothing} :
        shown.about \in {<<panel.message, panel.project>>, Nothing}

\* Both buttons come back: no request is under way for ever, whatever the
\* APIs do or fail to do (openai.go:126, 140-157).
RequestsEnd == \A b \in Buttons : asked[b].pc # "idle" ~> asked[b].pc = "idle"

=============================================================================
