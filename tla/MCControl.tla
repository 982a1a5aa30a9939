------------------------------ MODULE MCControl ------------------------------
(* Two web operations and Telegram updates that meet them: a lifecycle       *)
(* command against another, a switch behind one, an update that is refused.  *)
EXTENDS Control
Script(w, t) == [web |-> w, telegram |-> t]
MCScripts ==
  {Script(<<"start", "restart">>, <<"stop">>),
   Script(<<"start", "demo_on">>, <<"demo_off", "demo_off">>),
   Script(<<"demo_off">>, <<"foreign", "restart">>)}
===============================================================================
