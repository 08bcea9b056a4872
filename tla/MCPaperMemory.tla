--------------------------- MODULE MCPaperMemory ---------------------------
(***************************************************************************)
(* PaperMemory for TLC: one account of 1000 yuan, two symbols at about 10   *)
(* yuan, lots of 10 shares, the default rates.                              *)
(***************************************************************************)
EXTENDS PaperMemory, TLC

CONSTANTS k1, k2, e1, e2

MCRules == [lot |-> 10, tick |-> 1, limit |-> 1000]
MCFees == [buy |-> 3, sell |-> 3, minimum |-> 500, tax |-> 10, transfer |-> 0,
           otherBuy |-> 0, otherSell |-> 0]
MCSlippage == [buy |-> 5, sell |-> 5, participation |-> 1000]
MCPolicy == [risk |-> 50, symbol |-> 5000, portfolio |-> 6000,
             reduced |-> 3000, industry |-> 2500, daily |-> 50, losses |-> 3,
             reduceAt |-> 800, offAt |-> 1200, lot |-> 10]

MCProposals == <<[symbol |-> 1, quantity |-> 20, reference |-> 1000, expires |-> 1],
                 [symbol |-> 2, quantity |-> 20, reference |-> 1000, expires |-> 2]>>

OpenAt(price, volume) ==
    [open |-> price, high |-> price + 20, low |-> price - 10,
     close |-> price, volume |-> volume, suspended |-> FALSE]
MCBars == {OpenAt(1080, 200), OpenAt(1000, 100),
           [OpenAt(1000, 200) EXCEPT !.suspended = TRUE]}

Symmetry == Permutations(Keys) \cup Permutations(Events)
=============================================================================
