-------------------------------- MODULE Inbox --------------------------------
(***************************************************************************)
(* What the mail store of LeMail promises to the people who read it.       *)
(*                                                                         *)
(* Every address has an inbox.  A mail turns up, once in its life and at   *)
(* the same moment, in the inboxes of all the addresses it was sent to,    *)
(* and leaves all of them at the same moment.  A mail that has left never  *)
(* returns.  How a mail is indexed, aged and swept is the business of      *)
(* MailStore, which implements this specification.                         *)
(***************************************************************************)

CONSTANTS
    Ids,        \* the identities of mails
    Addresses   \* the normalised addresses

VARIABLES
    listed,     \* listed[a]: the mails a reader of a's inbox is shown
    delivered   \* the mails that ever turned up

inboxVars == <<listed, delivered>>

-----------------------------------------------------------------------------

Init ==
    /\ listed = [a \in Addresses |-> {}]
    /\ delivered = {}

\* The mail id arrives for the addresses to, in all of their inboxes at once.
Deliver(id, to) ==
    /\ id \notin delivered
    /\ delivered' = delivered \union {id}
    /\ listed' = [a \in Addresses |->
                    IF a \in to THEN listed[a] \union {id} ELSE listed[a]]

\* The mails gone expire, and no inbox shows them any longer.
Expire(gone) ==
    /\ listed' = [a \in Addresses |-> listed[a] \ gone]
    /\ UNCHANGED delivered

Next ==
    \/ \E id \in Ids, to \in SUBSET Addresses : Deliver(id, to)
    \/ \E gone \in SUBSET Ids : Expire(gone)

Spec == Init /\ [][Next]_inboxVars

=============================================================================
