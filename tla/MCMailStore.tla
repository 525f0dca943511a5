----------------------------- MODULE MCMailStore -----------------------------
(* Instances of MailStore for TLC: two addresses, one of them with two       *)
(* spellings, and a configuration that switches between the fallback hour    *)
(* and a retention shorter than it.                                          *)
EXTENDS MailStore

CONSTANTS m1, m2

MCAddresses == {"x", "y"}
MCSpellings == {"x", "X", "y"}
MCNorm == [r \in MCSpellings |-> IF r = "X" THEN "x" ELSE r]
MCRetentions == {0, 1}

=============================================================================
