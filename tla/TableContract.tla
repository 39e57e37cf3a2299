---------------------------- MODULE TableContract ----------------------------
(***************************************************************************)
(* What a destination promises its readers of a table that runs refresh    *)
(* and append to: it changes by whole runs only.  It may be out of sight   *)
(* while it is replaced, and is then what it was or what replaces it.      *)
(***************************************************************************)
CONSTANT Writers  \* the runs

VARIABLES
  table,  \* the runs whose rows the table holds
  shown   \* readers find it

vars == <<table, shown>>

Init == table \in SUBSET (Writers \cup {0}) /\ shown \in BOOLEAN

\* An empty table is created where there is none.
Create == ~shown /\ table' = {} /\ shown' = TRUE

Refresh == \E w \in Writers : table' = {w} /\ shown' = TRUE

Append ==
  /\ shown
  /\ \E w \in Writers \ table : table' = table \cup {w}
  /\ UNCHANGED shown

Hide == shown /\ shown' = FALSE /\ UNCHANGED table
Show == ~shown /\ shown' = TRUE /\ UNCHANGED table

Next == Create \/ Refresh \/ Append \/ Hide \/ Show

Spec == Init /\ [][Next]_vars
=============================================================================
