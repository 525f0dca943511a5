------------------------------ MODULE MCVisitor ------------------------------
(* An instance of Visitor for TLC: a site with one domain is opened to the     *)
(* public with another domain, or made private again.                         *)
EXTENDS Visitor

MCSites ==
    {[domains |-> <<"d">>, private |-> TRUE], [domains |-> <<"e", "d">>, private |-> FALSE]}
MCTexts == {"A", ""}
MCNorm == [t \in MCTexts |-> IF t = "A" THEN "a" ELSE ""]

=============================================================================
