---------------------------- MODULE MCMailboxView ----------------------------
(* An instance of MailboxView for TLC: a visitor goes from one address to the *)
(* other, or to none, while a mail with a code arrives, expires and is        *)
(* fetched and announced, and rebuilds take its code away and put it back.    *)
EXTENDS MailboxView, TLC

CONSTANTS m1, c1

MCMailboxes == {"x", "y"}
MCMailFor == [m \in Mails |-> "x"]
Symmetry == Permutations(Fetches)
MCFrom == [c \in Codes |-> m1]

=============================================================================
