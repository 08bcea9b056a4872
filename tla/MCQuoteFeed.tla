---------------------------- MODULE MCQuoteFeed ----------------------------
(***************************************************************************)
(* QuoteFeed for TLC: a live and a recorded provider of one symbol, over    *)
(* three instants of which the last is the next day's.                       *)
(***************************************************************************)
EXTENDS QuoteFeed

MCDayOf == <<1, 1, 2>>
MCPriority == [live |-> 2, recorded |-> 1]
Raw(time, price, fault) ==
    [symbol |-> "s1", time |-> time, price |-> price, fault |-> fault]
MCBatches == {
    <<>>, <<Raw(1, 101, "none")>>,
    <<Raw(2, 100, "none"), Raw(1, 90, "none")>>,
    <<Raw(3, 100, "none"), Raw(3, 100, "nan")>>,
    <<Raw(3, 100, "schema")>>}
=============================================================================
