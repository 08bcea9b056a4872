--------------------------- MODULE MCBookSessions ---------------------------
(* Instance of BookSessions for TLC. *)
EXTENDS BookSessions, TLC

CONSTANTS acct, sym, p1, p2

OneSymbol == [p \in Proposals |-> sym]
TwoThenOne == [p \in Proposals |-> IF p = p1 THEN 2 ELSE 1]
AtHundred == [p \in Proposals |-> 100]
\* The second proposal outlives the clock.
FirstExpires == [p \in Proposals |-> IF p = p1 THEN MaxClock ELSE MaxClock + 1]

\* No further than the first row that was overwritten, and no session that
\* writes nothing.  Only the first proposal is reviewed, rejected or cancelled,
\* a snapshot arrives when there is an order, the second when the first has been
\* decided on, only the first suspends, and a monitor claims one order at a time.
Within ==
    /\ ~stale
    /\ \A x \in Unfinished :
         /\ session[x].new # session[x].read
         /\ session[x].proposal = p2 => session[x].new.proposal \in {"PROPOSED", "ACCEPTED"}
    /\ \A m \in Monitors : Cardinality(batch[m]) <= 1
    /\ feed[sym].id = 1 => \E k \in Keys : Placed(k)
    /\ feed[sym].id = 2 => feed[sym].regime = "trading" /\ \E k \in Keys : decided[k] # {}

\* The key of a session that touches no order makes no difference to it.
Interchangeable == Permutations(Monitors) \cup Permutations(Requests) \cup Permutations(Keys)
=============================================================================
