------------------------- MODULE MCPaperSettlement -------------------------
(* Instances of PaperSettlement for TLC. *)
EXTENDS PaperSettlement, TLC

CONSTANTS acct, acct2, sym, p1, p2, k1, k2, m1, m2

OneSymbol == [p \in Proposals |-> sym]
TwoThenOne == [p \in Proposals |-> IF p = p1 THEN 2 ELSE 1]
AtHundred == [p \in Proposals |-> 100]
ExpireLast == [p \in Proposals |-> MaxClock]

\* Either both accounts trade on one day at which nothing hits its limit, or the
\* second one rests while the first is traded, at a depth of two, and settled on
\* two days.
Unlimited == feed[sym] # NoSnapshot => feed[sym].regime = "trading"
Deep == feed[sym] # NoSnapshot => feed[sym].depth = 2
Resting(a) == /\ OnAccount(a) = {} /\ account[a].status = "ACTIVE"
              /\ \A row \in snapshots : row.account # a
OneSceneAtATime == (clock = 0 /\ Unlimited) \/ (Deep /\ Resting(acct2))

KeySymmetry == Permutations(Keys)

Visit == IF acct2 \in Accounts THEN <<acct, acct2>> ELSE <<acct>>
=============================================================================
