---------------------------- MODULE MCBacktest ----------------------------
(***************************************************************************)
(* Backtest for TLC: a symbol at about 10 yuan, one at about 0.20 yuan, of  *)
(* which an order is for 1500 shares, and a third that the first is renamed *)
(* to, four days, lots of 10 shares.                                        *)
(***************************************************************************)
EXTENDS Backtest

MCRules == [lot |-> 10, tick |-> 1, limit |-> 1000]
MCFees == [buy |-> 3, sell |-> 3, minimum |-> 500, tax |-> 10, transfer |-> 0,
           otherBuy |-> 0, otherSell |-> 0]
MCSlippage == [buy |-> 5, sell |-> 5, participation |-> 1000]
MCPolicy == [risk |-> 100, symbol |-> 3000, portfolio |-> 6000,
             reduced |-> 3000, industry |-> 2500, daily |-> 200, losses |-> 3,
             reduceAt |-> 800, offAt |-> 1200, lot |-> 10]

At(price, volume) ==
    [volume |-> volume, open |-> price, high |-> price + 20,
     low |-> price - 10, close |-> price, suspended |-> FALSE]
Cheap(price, volume) ==
    [volume |-> volume, open |-> price, high |-> price + 1,
     low |-> price - 1, close |-> price, suspended |-> FALSE]
Suspended(bar) == [bar EXCEPT !.suspended = TRUE]
Bars(one, two) == <<one, two, one>>
MCBarSets == {Bars(At(1000, 300), Cheap(20, 20000)),
              Bars(At(1060, 300), Cheap(21, 20000)),
              Bars(At(930, 300), Cheap(20, 5000)),
              Bars(At(1000, 300), Suspended(Cheap(20, 20000)))}
MCSignalSets == {<<"BUY_CONFIRM", "BUY_CONFIRM">>, <<"HOLD", "BUY_WATCH">>,
                 <<"HOLD", "HOLD">>}

Blank == [symbol |-> 1, id |-> 1, type |-> "SPLIT", record |-> 2, ex |-> 3,
          payment |-> 0, tradable |-> 0, cash |-> 0, num |-> 1, den |-> 1,
          to |-> 0]
Dividend == [Blank EXCEPT !.type = "CASH_DIVIDEND", !.record = 3, !.cash = 50]
Bonus == [Blank EXCEPT !.type = "STOCK_DIVIDEND", !.num = 3, !.den = 10]
MCActionLists == {
    <<>>,
    <<Dividend, [Dividend EXCEPT !.id = 2, !.symbol = 2, !.record = 2,
                                 !.payment = 2]>>,
    <<[Dividend EXCEPT !.payment = 5], [Bonus EXCEPT !.id = 2, !.tradable = 5]>>,
    <<[Blank EXCEPT !.num = 2],
      [Blank EXCEPT !.id = 2, !.symbol = 2, !.type = "RIGHTS_ISSUE"]>>,
    <<[Bonus EXCEPT !.type = "CAPITALIZATION", !.tradable = 6],
      [Blank EXCEPT !.id = 2, !.type = "REVERSE_SPLIT", !.num = 2, !.ex = 5]>>,
    <<[Blank EXCEPT !.symbol = 2, !.num = 2],
      [Blank EXCEPT !.id = 2, !.type = "REVERSE_SPLIT", !.num = 50]>>,
    <<[Blank EXCEPT !.type = "DELISTING"]>>,
    <<[Blank EXCEPT !.type = "SYMBOL_CHANGE", !.to = 3],
      [Blank EXCEPT !.id = 2, !.symbol = 3, !.num = 2, !.ex = 5]>>}

\* Two bonus issues of one symbol whose shares become tradable a day apart.
MCTwoBonuses == {
    <<[Bonus EXCEPT !.tradable = 5],
      [Bonus EXCEPT !.id = 2, !.type = "CAPITALIZATION", !.tradable = 6]>>}

\* These lists are like those of one source of market data.
ASSUME ActionsAssumption ==
    ExDatesTraded /\ NewSymbolsAfresh /\ NewSymbolsUntraded /\ ActionIdsUnique
=============================================================================
