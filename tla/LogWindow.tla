------------------------------ MODULE LogWindow ------------------------------
(***************************************************************************)
(* What a log buffer promises: the last Capacity lines, oldest first.      *)
(***************************************************************************)
EXTENDS Naturals, Sequences

CONSTANTS
  Line,      \* what cloudflared may print
  Capacity   \* how many lines are kept

VARIABLE window

Init == window = <<>>

Add(l) ==
  window' = IF Len(window) < Capacity
            THEN Append(window, l)
            ELSE Append(Tail(window), l)

Next == \E l \in Line : Add(l)

Spec == Init /\ [][Next]_window
=============================================================================
