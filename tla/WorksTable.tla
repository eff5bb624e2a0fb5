----------------------------- MODULE WorksTable -----------------------------
(***************************************************************************)
(* What the table works promises to the jobs that refer to its rows: a     *)
(* work has at most one row, whose id it keeps for good and shares with no *)
(* other, and a row is about something: it never becomes an empty shell.   *)
(***************************************************************************)
CONSTANTS Works, RowIds, NoRow, Contents

VARIABLE table   \* [Works -> [id, content] or NoRow]

Init == table = [w \in Works |-> NoRow]

Taken == {table[w].id : w \in {v \in Works : table[v] # NoRow}}

Insert(w) ==
  /\ table[w] = NoRow
  /\ \E id \in RowIds \ Taken, content \in Contents : table' = [table EXCEPT ![w] = [id |-> id, content |-> content]]

Renew(w) ==
  /\ table[w] # NoRow
  /\ \E content \in Contents : table' = [table EXCEPT ![w].content = content]

Next == \E w \in Works : Insert(w) \/ Renew(w)

Spec == Init /\ [][Next]_table
=============================================================================
