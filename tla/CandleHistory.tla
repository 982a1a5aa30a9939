----------------------------- MODULE CandleHistory -----------------------------
(* The closed M5 candles and what all of them say: of a zone, of a breakout, *)
(* and of the trade of a signal.  The strategies of ForwardShadow look at    *)
(* them through a window and a memory; SignalLog looks at them as they are.  *)
(*                                                                           *)
(* Candles are numbered by time, and a candle is its class relative to the   *)
(* zones (which share one price band), to the open trades and to the last    *)
(* swing.  A zone is numbered by its creation: the candles after z may touch *)
(* it.                                                                       *)
EXTENDS Naturals, Sequences, FiniteSets

CONSTANTS
  Bars,        \* [zone, trade, momentum]: the classes of candles
  Zones,       \* M15 pairs that form a zone
  None,
  Age,         \* zone_max_age_minutes, in candles (72)
  MaxTouches,  \* zone_max_touches
  Horizon,     \* shadow_outcome_horizon_bars
  MaxCandle    \* bound: candles that close

VARIABLE bar   \* candles: the closed M5 candles

Candles == 1..MaxCandle
closed == Len(bar)

(* A signal is of a strategy and of a candle, with its virtual trade.        *)
Keys == {"zone", "momentum"} \X Candles
NoSignal == [setup |-> None, tick |-> None, trade |-> "OPEN"]

Inside(c) == bar[c].zone \in {"touch", "confirm"}
Touches(those) == Cardinality({c \in those : Inside(c) /\ (c - 1 \in those => ~Inside(c - 1))})
Broken(those) == \E c \in those : bar[c].zone = "break"
FirstConfirmation(those) == {c \in those : /\ bar[c].zone = "confirm"
                                           /\ \A d \in those : bar[d].zone = "confirm" => c <= d}

(* MomentumBreakoutV1.evaluate: the swing, with its level and direction, that*)
(* a candle breaks out of; the same one may be broken again.                 *)
Breakout(c) == bar[c].momentum

(* The complete history of a zone, whatever a process remembers.             *)
History(z, t) == {c \in 1..t : c > z}
Alive(z, t) == z <= t /\ t <= z + Age /\ ~Broken(History(z, t)) /\ Touches(History(z, t)) <= MaxTouches

(* The complete history up to c says that z may be traded at c, for the      *)
(* first time.                                                               *)
Due(z, c) == Alive(z, c) /\ FirstConfirmation(History(z, c)) = {c}

(* All the candles, also the later ones, settle a trade of candle a in s.    *)
Settled(a, s) ==
  s # "OPEN" =>
    /\ a + Horizon <= closed \/ s # "EXPIRED"
    /\ \/ /\ s = "EXPIRED"
         /\ \A c \in (a + 1)..(a + Horizon) : bar[c].trade = "OPEN"
      \/ \E c \in (a + 1)..closed :
           /\ c <= a + Horizon /\ bar[c].trade = s
           /\ \A d \in (a + 1)..(c - 1) : bar[d].trade = "OPEN"
==============================================================================
