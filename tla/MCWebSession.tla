----------------------------- MODULE MCWebSession -----------------------------
EXTENDS WebSession, TLC

CONSTANTS u1, u2

Symmetry == Permutations(Slots)

\* A user with an account and a plan, and the invited one: without an account, or with one of
\* an earlier release.
MCInit ==
  /\ Init
  /\ acct[u1] \in {NoAccount, Account("there", TRUE, FALSE, FALSE)}
  /\ acct[u2] = Account("there", FALSE, TRUE, FALSE)
MCSpec == MCInit /\ [][Next]_vars
=============================================================================
