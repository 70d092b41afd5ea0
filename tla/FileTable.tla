------------------------------ MODULE FileTable ------------------------------
(***************************************************************************)
(* What the callers of the file system rely on: a table of open files, each *)
(* with its name and position.  A descriptor that is given out was not in   *)
(* use, a read moves the position of its own file and no other, and a call  *)
(* that fails changes nothing.                                              *)
(***************************************************************************)
EXTENDS Integers

CONSTANTS Archive, Fds

VARIABLE table     \* open descriptor -> [name, position]

TableInit == table = [fd \in {} |-> 0]

Open ==
  \E fd \in Fds \ DOMAIN table, name \in DOMAIN Archive :
    table' = [x \in DOMAIN table \cup {fd} |->
                IF x = fd THEN [name |-> name, position |-> 0] ELSE table[x]]

Read ==
  \E fd \in DOMAIN table :
    \E n \in 1 .. (Archive[table[fd].name] - table[fd].position) :
      table' = [table EXCEPT ![fd].position = @ + n]

Close ==
  \E fd \in DOMAIN table : table' = [x \in DOMAIN table \ {fd} |-> table[x]]

Next == Open \/ Read \/ Close

Spec == TableInit /\ [][Next]_table
=============================================================================
