--------------------------- MODULE MC_DbusClient ---------------------------
(***************************************************************************)
(* Small instances of one bus handle.  One bus and no rules leave room for *)
(* four promises, enough for a connect(), a call on each of two            *)
(* connections (so that a serial is used twice) and one more; two buses    *)
(* and a rule show what a reconnect and a second connect() may mix up.     *)
(***************************************************************************)
EXTENDS DbusClient

CONSTANTS session, system, rule1

OneBus   == {session}
TwoBuses == {session, system}
NoRules  == {}
OneRule  == {rule1}
=============================================================================
