--------------------------- MODULE MCForwardShadow ----------------------------
(* Small instances of ForwardShadow for TLC.                                 *)
EXTENDS ForwardShadow, TLC

CONSTANTS x, y, breakout

Candle(zone, trade, momentum) == [zone |-> zone, trade |-> trade, momentum |-> momentum]
MCBars ==
  {Candle("confirm", "OPEN", None), Candle("break", "SL", None),
   Candle("touch", "TP", None), Candle("away", "AMBIGUOUS", breakout)}
Symmetry == Permutations({x, y})
==============================================================================
