------------------------------ MODULE MCDelivery ------------------------------
(* Two deals, the second of which MT5 may show first, and two zones.         *)
EXTENDS Delivery
MCTimes == <<1, 2>>
MCZones == {1, 2}
Found(z, t, i) == [current |-> z, touched |-> t, invalid |-> i]
MCFindings == {Found(1, FALSE, FALSE), Found(2, FALSE, FALSE), Found(2, FALSE, TRUE)}
===============================================================================
