---------------------------- MODULE OrderPromise ----------------------------
(***************************************************************************)
(* What the paper-trading book promises about orders, whatever account,    *)
(* proposal, monitor or market state is behind them: an order is placed    *)
(* once, each market event is answered with at most one trade, trades fit  *)
(* in the room the order still has, the room never grows again, and an     *)
(* order that is filled or stopped never trades afterwards.                *)
(***************************************************************************)
EXTENDS Integers

CONSTANTS
    Orders,     \* order ids
    Events,     \* market events
    Sizes       \* lots an order may be placed for

VARIABLES
    phase,      \* absent, open, filled or stopped
    room,       \* lots that may still be bought
    answered,   \* events the order has been matched against
    trades      \* what was bought

vars == <<phase, room, answered, trades>>

Init ==
    /\ phase = [o \in Orders |-> "absent"]
    /\ room = [o \in Orders |-> 0]
    /\ answered = [o \in Orders |-> {}]
    /\ trades = {}

Place(o, lots) ==
    /\ phase[o] = "absent"
    /\ phase' = [phase EXCEPT ![o] = "open"]
    /\ room' = [room EXCEPT ![o] = lots]
    /\ UNCHANGED <<answered, trades>>

\* A trade may also give up some of the room it does not use.
Trade(o, event, lots, rest) ==
    /\ phase[o] = "open"
    /\ event \notin answered[o]
    /\ lots >= 1 /\ lots + rest <= room[o]
    /\ trades' = trades \cup {[key |-> o, event |-> event, lots |-> lots]}
    /\ answered' = [answered EXCEPT ![o] = @ \cup {event}]
    /\ room' = [room EXCEPT ![o] = rest]
    /\ phase' = [phase EXCEPT ![o] = IF rest = 0 THEN "filled" ELSE "open"]

\* An event that is answered without a trade, for now or for good.
Decline(o, event, rest, verdict) ==
    /\ phase[o] = "open"
    /\ rest >= 1 /\ rest <= room[o]
    /\ verdict \in {"open", "stopped"}
    /\ answered' = [answered EXCEPT ![o] = @ \cup {event}]
    /\ room' = [room EXCEPT ![o] = rest]
    /\ phase' = [phase EXCEPT ![o] = verdict]
    /\ UNCHANGED trades

Withdraw(o) ==
    /\ phase[o] = "open"
    /\ phase' = [phase EXCEPT ![o] = "stopped"]
    /\ UNCHANGED <<room, answered, trades>>

Next ==
    \E o \in Orders :
      \/ \E lots \in Sizes : Place(o, lots)
      \/ \E event \in Events :
           \/ \E lots, rest \in 0..room[o] : Trade(o, event, lots, rest)
           \/ \E rest \in 0..room[o], verdict \in {"open", "stopped"} :
                Decline(o, event, rest, verdict)
      \/ Withdraw(o)

Spec == Init /\ [][Next]_vars
=============================================================================
