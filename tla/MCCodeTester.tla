---------------------------- MODULE MCCodeTester -----------------------------
(* Instances of CodeTester for TLC: two mails and a project; an API that      *)
(* suggests a good pattern twice, and one that does not compile.             *)
EXTENDS CodeTester

MCPatterns == {"digits", "broken"}
MCCompiling == {"digits"}
MCPatternOf == [p \in Projects |-> "digits"]
MCFinds == {<<"digits", m>> : m \in Messages}
MCSources == KnownSources \union {"PDF"}
From(pattern, source) == [pattern |-> pattern, source |-> source]
MCTexts == {<<From("digits", "PDF"), From("broken", "all"), From("digits", "html")>>, << >>}
MCSettings ==
    {[enabled |-> TRUE, key |-> TRUE, mode |-> "auto"],
     [enabled |-> TRUE, key |-> TRUE, mode |-> "chat"],
     [enabled |-> FALSE, key |-> TRUE, mode |-> "auto"]}

=============================================================================
