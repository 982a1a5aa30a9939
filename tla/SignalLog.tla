------------------------------- MODULE SignalLog -------------------------------
(* What forward validation promises ("Forward-only Pair Zone validation",    *)
(* services/forward_shadow.py, and "restart-safe idempotency",               *)
(* ForwardShadowWorker), whatever the number of processes, restarts, lost    *)
(* memories and repeated evaluations: a log that a single reader with all    *)
(* candles in view could have written.  The session starts once and looks    *)
(* forward only; a signal is recorded once, when the history up to its candle*)
(* says that it is due, and once per setup; it is handed to execution only   *)
(* when recorded; its trade is settled once, as all candles say.             *)
EXTENDS CandleHistory

CONSTANT Ticks

VARIABLES
  begun,   \* the session has started
  since,   \* only candles after this one may be traded
  signal,  \* signal[k]: the row recorded for key k
  handed   \* the signals given to execution

vars == <<bar, begun, since, signal, handed>>

Recorded(k) == signal[k].setup # None

Init ==
  /\ bar = <<>>
  /\ begun \in BOOLEAN /\ since = 0
  /\ signal = [k \in Keys |-> NoSignal]
  /\ handed = {}

CandleCloses ==
  /\ \E b \in Bars : bar' = Append(bar, b)
  /\ UNCHANGED <<begun, since, signal, handed>>

Begin ==
  /\ ~begun
  /\ begun' = TRUE /\ since' = closed + 1
  /\ UNCHANGED <<bar, signal, handed>>

(* The setups that the candles up to k's give reason to record under k.      *)
Offered(k) ==
  IF k[1] = "zone" THEN {z \in Zones : Due(z, k[2])} ELSE {Breakout(k[2])} \ {None}

Record(k) ==
  /\ begun /\ since < k[2] /\ k[2] <= closed
  /\ ~Recorded(k)
  /\ \E setup \in Offered(k), tick \in Ticks :
       /\ \A l \in Keys : signal[l].setup # setup
       /\ signal' = [signal EXCEPT ![k] = [setup |-> setup, tick |-> tick, trade |-> "OPEN"]]
  /\ handed' \in {handed, handed \cup {k}}
  /\ UNCHANGED <<bar, begun, since>>

Hand(k) ==
  /\ Recorded(k)
  /\ handed' = handed \cup {k}
  /\ UNCHANGED <<bar, begun, since, signal>>

(* Any of the open trades are settled together.                              *)
Settle ==
  /\ DOMAIN signal' = Keys
  /\ \A k \in Keys :
       \/ signal'[k] = signal[k]
       \/ /\ Recorded(k) /\ signal[k].trade = "OPEN"
          /\ Settled(k[2], signal'[k].trade)
          /\ signal'[k] = [signal[k] EXCEPT !.trade = signal'[k].trade]
  /\ UNCHANGED <<bar, begun, since, handed>>

Next ==
  \/ CandleCloses \/ Begin \/ Settle
  \/ \E k \in Keys : Record(k) \/ Hand(k)

Spec == Init /\ [][Next]_vars
==============================================================================
