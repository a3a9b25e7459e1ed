--------------------------- MODULE SequentialMemory ---------------------------
(***************************************************************************)
(* What a kernel's C++ code means by an array behind an ap_bus port: a     *)
(* store takes effect at once, a load returns the last value stored.       *)
(***************************************************************************)
CONSTANTS Addresses, Data

VARIABLES
  mem,                  \* the array
  result                \* value of the last load

Init == mem \in [Addresses -> Data] /\ result \in Data

Store(a, d) == mem' = [mem EXCEPT ![a] = d] /\ UNCHANGED result
Load(a) == result' = mem[a] /\ UNCHANGED mem

Next == \E a \in Addresses : Load(a) \/ \E d \in Data : Store(a, d)

Spec == Init /\ [][Next]_<<mem, result>>

==============================================================================
