------------------------------- MODULE LogRing -------------------------------
(***************************************************************************)
(* supervisor.LogRing: a slice that grows to its capacity and is then      *)
(* overwritten from start on.  Every operation holds the ring's mutex.     *)
(* Clear, which only tests call, is left out.                              *)
(***************************************************************************)
EXTENDS Naturals, Sequences

CONSTANTS
  Line,      \* what cloudflared may print
  Capacity   \* capacity of the ring, 500 unless it is given a positive one

VARIABLES
  entries,   \* the slice; its first element has index 1 here
  start      \* index in the code's count, from 0, of the oldest line

Init == entries = <<>> /\ start = 0

\* Mutant of Add: the oldest line is replaced, but the next is not the oldest.
AddInPlace(l) ==
  \/ /\ Len(entries) < Capacity
     /\ entries' = Append(entries, l)
     /\ UNCHANGED start
  \/ /\ Len(entries) >= Capacity
     /\ entries' = [entries EXCEPT ![start + 1] = l]
     /\ UNCHANGED start

Add(l) ==
  \/ /\ Len(entries) < Capacity
     /\ entries' = Append(entries, l)
     /\ UNCHANGED start
  \/ /\ Len(entries) >= Capacity
     /\ entries' = [entries EXCEPT ![start + 1] = l]
     /\ start' = (start + 1) % Capacity

\* The snapshot Entries copies in two pieces.
Entries ==
  IF Len(entries) < Capacity
  THEN entries
  ELSE SubSeq(entries, start + 1, Capacity) \o SubSeq(entries, 1, start)

RingType ==
  /\ entries \in Seq(Line)
  /\ Len(entries) <= Capacity
  /\ start \in 0..(Capacity - 1)
  /\ Len(entries) < Capacity => start = 0
=============================================================================
