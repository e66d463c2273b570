----------------------------- MODULE MCStoreUpgrade -----------------------------
(* Small instances of StoreUpgrade: the databases a process may find.         *)
EXTENDS StoreUpgrade

CONSTANTS p1, p2, p3

\* No file; an empty one; a schema that lacks a table; this one; a newer one.
AnyDatabase ==
    {Absent, Empty, Current,
     [version |-> 1, tables |-> Tables \ {2}],
     [version |-> Latest + 1, tables |-> Tables]}

=============================================================================
