----------------------------- MODULE HistoryWords -----------------------------
(* What the history can be searched for, and how many pages of it there are. *)
EXTENDS Naturals

CONSTANTS
  Words,    \* what the user may search for
  MaxPage   \* pages of the list: a bound

ASSUME HistorySearchAssumption == MaxPage \in Nat \ {0} /\ "" \notin Words
=============================================================================
