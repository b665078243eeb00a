------------------------------ MODULE MCAlerts ------------------------------
(* Small instances of Alerts: vacancy 1 suits p and q, vacancy 2 suits p.   *)
EXTENDS Alerts

CONSTANTS p, q, o1, o2

Suits == {<<1, p>>, <<1, q>>, <<2, p>>}
Lacks == {<<2, q>>}
=============================================================================
