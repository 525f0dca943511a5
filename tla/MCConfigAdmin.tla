---------------------------- MODULE MCConfigAdmin ----------------------------
(* Instances of ConfigAdmin for TLC. *)
EXTENDS ConfigAdmin

Setup(password) == [kind |-> "setup", password |-> password]
Create(rule) == [kind |-> "create", rule |-> rule]
Delete(rule) == [kind |-> "delete", rule |-> rule]
Form(private, api, token) ==
    [kind |-> "form", private |-> private, password |-> FALSE, api |-> api, token |-> token]

MCRules == {"a", "b"}

\* Two people set the program up at once, one with an access password and one
\* without; a form makes the site private, counting on that password, and opens
\* the API, another one takes the API's token away; a rule comes and goes.
ManyRequests == {"setup1", "setup2", "create", "delete", "open", "close"}
ManyChange ==
    [r \in ManyRequests |->
        CASE r = "setup1" -> Setup(TRUE)
          [] r = "setup2" -> Setup(FALSE)
          [] r = "create" -> Create("a")
          [] r = "delete" -> Delete("a")
          [] r = "open" -> Form(TRUE, TRUE, "set")
          [] r = "close" -> Form(FALSE, TRUE, "clear")]

\* Two rules are created at once.
TwoRequests == {"setup1", "create1", "create2"}
TwoChange ==
    [r \in TwoRequests |->
        CASE r = "setup1" -> Setup(FALSE)
          [] r = "create1" -> Create("a")
          [] r = "create2" -> Create("b")]

=============================================================================
