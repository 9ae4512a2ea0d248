--------------------------- MODULE ScanLifecycle ----------------------------
(***************************************************************************)
(* What the scan pipeline promises its users, without queue, workers or    *)
(* requests: pending -> processing -> completed | failed, back to pending  *)
(* only when an operator requeues the scan (a new generation), and no      *)
(* generation stays unsettled for ever.                                    *)
(***************************************************************************)
EXTENDS Naturals

CONSTANT Scans

VARIABLE life   \* status and generation (number of requeues) of each scan

InLife(s, statuses) == life[s].status \in statuses

Move(s, status) == life' = [life EXCEPT ![s].status = status]

Init == life = [s \in Scans |-> [status |-> "none", generation |-> 0]]

Submit(s) == InLife(s, {"none"}) /\ Move(s, "pending")

Start(s) == InLife(s, {"pending"}) /\ Move(s, "processing")

Settle(s) ==
  /\ InLife(s, {"processing"})
  /\ Move(s, "completed") \/ Move(s, "failed")

Requeue(s) ==
  /\ InLife(s, {"processing", "completed", "failed"})
  /\ life' = [life EXCEPT ![s] = [status |-> "pending", generation |-> @.generation + 1]]

\* The owner deletes the account; what was counted for the scan goes with it.
Remove(s) ==
  /\ InLife(s, {"pending", "processing", "completed", "failed"})
  /\ life' = [life EXCEPT ![s] = [status |-> "deleted", generation |-> 0]]

Next ==
  \E s \in Scans : Submit(s) \/ Start(s) \/ Settle(s) \/ Requeue(s) \/ Remove(s)

\* What never happens; Spec adds what must.
Safety == Init /\ [][Next]_life

Spec ==
  /\ Safety
  /\ \A s \in Scans : WF_life(Start(s)) /\ WF_life(Settle(s))

=============================================================================
