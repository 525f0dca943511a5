--------------------------- MODULE MCAdminConsole ----------------------------
(* An instance of AdminConsole for TLC: one kind of items, of which one is     *)
(* there when the page is opened.                                              *)
EXTENDS AdminConsole

MCKinds == {"project"}
MCIds == {"p1", "p2"}
MCKindOf == [x \in MCIds |-> "project"]
MCBlank == [k \in MCKinds |-> "blank"]
MCInitialConfig ==
    [items |-> [x \in MCIds |-> IF x = "p1" THEN "old" ELSE None], settings |-> "s"]

=============================================================================
