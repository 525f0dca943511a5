----------------------------- MODULE MCSessions -----------------------------
(* Instances of Sessions for TLC: a visitor's token and an administrator's,  *)
(* and requests that carry them in the right and the wrong places.           *)
EXTENDS Sessions

MCTokens == {"visitor", "root"}
MCKindOf == [t \in MCTokens |-> IF t = "visitor" THEN "access" ELSE "admin"]
MCRequests == {"page", "client", "socket", "settings"}
MCGuard == [r \in MCRequests |-> IF r = "settings" THEN "admin" ELSE "access"]

ByKind(access, admin) == [kind \in Kinds |-> IF kind = "access" THEN access ELSE admin]
Nowhere == ByKind(NoToken, NoToken)

MCPresents ==
    [r \in MCRequests |->
        CASE r = "page" -> [cookie |-> ByKind("visitor", "root"), bearer |-> NoToken, query |-> Nowhere]
          [] r = "client" -> [cookie |-> Nowhere, bearer |-> "root", query |-> Nowhere]
          [] r = "socket" -> [cookie |-> Nowhere, bearer |-> NoToken, query |-> ByKind("visitor", NoToken)]
          [] r = "settings" -> [cookie |-> ByKind(NoToken, "root"), bearer |-> NoToken,
                                query |-> ByKind("root", "visitor")]]

=============================================================================
