---------------------------- MODULE MCSmtpSession ----------------------------
(* Instances of SmtpSession for TLC: two domains, with and without their     *)
(* final dots, of which the site has one at a time; two local parts, of      *)
(* which one is reserved at a time.                                          *)
EXTENDS SmtpSession

MCLocals == {"user", "admin"}
MCDomainNames == {"site", "site.", "other", "other."}
MCCanonical == [d \in MCDomainNames |->
    CASE d = "site." -> "site" [] d = "other." -> "other" [] OTHER -> d]
MCDefault == [domains |-> {"site"}, reserved |-> {"admin"}]
MCSettings == {[domains |-> {}, reserved |-> {}], [domains |-> {"other."}, reserved |-> {"user"}]}
MCPaths == {"User@Site", "user@site.", "admin@site"}
At(local, domain) == [local |-> local, domain |-> domain]
MCNormalizePath ==
    [path \in MCPaths |->
        CASE path = "User@Site" -> At("user", "site")
          [] path = "user@site." -> At("user", "site.")
          [] path = "admin@site" -> At("admin", "site")]

=============================================================================
