----------------------------- MODULE MCRealtime -----------------------------
(* An instance of Realtime for TLC: channels of one place instead of         *)
(* sixteen, and enough mails to overrun them.                                *)
EXTENDS Realtime

CONSTANTS c1, c2

MCAddresses == {"x", "y"}
MCSubs == {"s", "t"}
\* Two connections to one address.
SameAddress == [s \in MCSubs |-> "x"]
AllToX == [c \in Calls |-> "x"]

=============================================================================
