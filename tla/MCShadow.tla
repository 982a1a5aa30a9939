------------------------------- MODULE MCShadow -------------------------------
(* Small instances of Shadow for TLC.                                        *)
EXTENDS Shadow

Context(valid, h4, m5, refused) ==
  [valid |-> valid, volatility |-> "normal", h4 |-> h4, h1 |-> h4, m15 |-> h4, m5 |-> m5, refused |-> refused]
MCContexts == {Context(TRUE, "BUY", "BUY", FALSE), Context(TRUE, "SELL", "BUY", FALSE)}
MCMarket == <<"quiet", "target", "quiet">>
===============================================================================
