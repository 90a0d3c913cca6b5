----------------------------- MODULE MCManagedList -----------------------------
(* A small instance of ManagedList.  "doc" opens, and so does the /proc file, *)
(* "protect", which may have one of two inodes with the same number.          *)
EXTENDS ManagedList

MCPath == {"", "doc", "protect", "protect anew"}
            \cup {"refresh", "clear", "disable", "enable"}
MCLookup == [q \in MCPath |-> IF q = "doc" THEN "i1"
                              ELSE IF q = "protect" THEN "i2"
                              ELSE IF q = "protect anew" THEN "i3" ELSE NULL]
MCInoOf == [i \in {"i1", "i2", "i3"} |-> IF i = "i1" THEN 1 ELSE 2]
MCNameOf == [i \in ProtectFiles |-> IF i = "i2" THEN "protect" ELSE "protect anew"]

TheFile(path, type) == [path |-> path, type |-> type]
\* One of them locks the managers out.
MCFiles == { TheFile("doc", "r"), TheFile("protect", "w") }

\* Nothing is said of what follows a clash; TypeOK of ProtectList, which holds
\* of it too, is checked there.
Unclashed == ~clashed
=============================================================================
