------------------------------ MODULE Allocator ------------------------------
(***************************************************************************)
(* What a pool of fixed-size heap cells promises to the kernel that uses   *)
(* it.  The cells that can be had are in a row: the cell given back last   *)
(* is handed out first, and a cell that is handed out is in nobody else's  *)
(* reach until it is given back.  A client that holds nothing may start    *)
(* over at a fixed cell: the cells in front of that one are lost, the row  *)
(* behind it is as it was.                                                 *)
(***************************************************************************)
EXTENDS Naturals

CONSTANTS
  Cells,                \* the usable heap cells
  FirstCell             \* where a client starts over

VARIABLES
  held,                 \* cells in the hands of the client
  available,            \* cells in the row
  behind                \* behind[c]: cells of the row handed out after c

vars == <<held, available, behind>>

Init ==
  /\ held = {}
  /\ available = Cells
  /\ behind = [c \in Cells |-> {d \in Cells : d > c}]

Front(c) == c \in available /\ behind[c] = available \ {c}
Shorten(row) == available' = row /\ behind' = [d \in row |-> behind[d]]

(* malloc hands out the cell in front. *)
Acquire ==
  \E c \in available : /\ Front(c)
                       /\ held' = held \cup {c}
                       /\ Shorten(available \ {c})

(* free puts a held cell in front of all others. *)
Release ==
  \E c \in held : /\ held' = held \ {c}
                  /\ available' = available \cup {c}
                  /\ behind' = [d \in available \cup {c} |->
                                  IF d = c THEN available ELSE behind[d]]

StartOver ==
  /\ held = {} /\ FirstCell \in available
  /\ UNCHANGED held
  /\ Shorten({FirstCell} \cup behind[FirstCell])

Next == Acquire \/ Release \/ StartOver

Spec == Init /\ [][Next]_vars

==============================================================================
