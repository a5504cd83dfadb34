-------------------------- MODULE MCBrokerSession --------------------------
(* Two commands and a session end.  One command may find a stale login, so *)
(* that three brokers are what can be asked for; the other one may die.    *)
EXTENDS BrokerSession
CONSTANTS c1, c2, e1

MCClients == {c1, c2}
MCEnders == {e1}
MCRestarters == {c1}
MCCrashers == {c2}
============================================================================
