----------------------------- MODULE SortedStream -----------------------------
(***************************************************************************)
(* What the merger promises of its output (README: "outputs a single       *)
(* sorted stream"): it takes in all its inputs and then emits them one by  *)
(* one, always a smallest one of those that are left.                      *)
(***************************************************************************)
EXTENDS Integers, Sequences, Bags

VARIABLES
  remaining,            \* bag of the keys not emitted yet
  emitted               \* the output stream

Init == emitted = <<>> /\ IsABag(remaining)

Emit ==
  \E k \in BagToSet(remaining) :
    /\ \A j \in BagToSet(remaining) : k <= j
    /\ emitted' = Append(emitted, k)
    /\ remaining' = remaining (-) SetToBag({k})

Spec == Init /\ [][Emit]_<<remaining, emitted>>

==============================================================================
