---------------------------- MODULE MCPaperBook ----------------------------
(* Instances of PaperBook for TLC. *)
EXTENDS PaperBook, TLC

CONSTANTS acct, sym, p1, p2, k1, k2, m1, m2

OneSymbol == [p \in Proposals |-> sym]

\* The first proposal can be filled in parts, the second in one.
ThreeThenOne == [p \in Proposals |-> IF p = p1 THEN 3 ELSE 1]

AtHundred == [p \in Proposals |-> 100]
ExpireLast == [p \in Proposals |-> MaxClock]
\* The second proposal expires before the clock ends.
SecondExpires == [p \in Proposals |-> IF p = p1 THEN MaxClock ELSE 0]

MonitorSymmetry == Permutations(Monitors)
=============================================================================
