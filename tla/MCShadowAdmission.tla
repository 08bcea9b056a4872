------------------------- MODULE MCShadowAdmission -------------------------
(***************************************************************************)
(* ShadowAdmission for TLC: one live provider of one symbol over the        *)
(* morning, afternoon and evening of a trading day.                         *)
(***************************************************************************)
EXTENDS ShadowAdmission

MCDayOf == <<1, 1, 1>>
MCHalf == <<"AM", "PM", "CLOSED">>
MCLongDayOf == <<1, 1, 1, 1>>
MCLongHalf == <<"AM", "AM", "PM", "CLOSED">>
MCPriority == [live |-> 1]
Raw(time, fault) ==
    [symbol |-> "s1", time |-> time, price |-> 100, fault |-> fault]
MCBatches == {<<Raw(1, "none")>>, <<Raw(3, "none"), Raw(3, "nan")>>,
              <<Raw(1, "schema")>>}
=============================================================================
