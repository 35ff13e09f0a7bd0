------------------------------- MODULE Listing -------------------------------
(***************************************************************************)
(* The paged listings of ControlPlane::readOnly: rows of a kind with an id *)
(* beyond the cursor, the first limit of them in the order of their ids,   *)
(* and a look at one more to see whether there is a next page.  An id is a *)
(* number.  A page is the set of its ids, and its order is theirs.         *)
(***************************************************************************)
EXTENDS Naturals, FiniteSets, FiniteSetsExt

\* ORDER BY id LIMIT limit
First(ids, limit) == {i \in ids : Cardinality({j \in ids : j < i}) < limit}

PageUpTo(rows, after, limit) ==
    LET found == {i \in rows : i > after}
        items == First(found, limit)
    IN [items |-> items, more |-> items # found, next |-> IF items = {} THEN after ELSE Max(items) + 1]
\* SELECT ... WHERE id > after ORDER BY id LIMIT limit + 1, the last row dropped
\* if it was found.  next_cursor is the last row kept.
Page(rows, after, limit) ==
    LET found == {i \in rows : i > after}
        items == First(found, limit)
    IN [items |-> items, more |-> items # found, next |-> IF items = {} THEN after ELSE Max(items)]
=============================================================================
