------------------------------- MODULE MCLtm -------------------------------
(* Instances of Ltm for TLC: two nodes, up to two applications on each, one  *)
(* listening port and one or two ports to connect from.                      *)
EXTENDS LtmSesion

CONSTANTS n1, n2, a1, a2, b1

NodoDeMC == [a \in Apps |-> IF a \in {a1, a2} THEN n1 ELSE n2]

\* two calls each; one for a2; two for a1
DosCadaUna == [a \in Apps |-> 2]
DosMenosA2 == [a \in Apps |-> IF a = a2 THEN 1 ELSE 2]
DosDeA1 == [a \in Apps |-> IF a = a1 THEN 2 ELSE 1]

Dir(ips, puertos) == [ip : ips, puerto : puertos]

\* n1 connects to port 1 of n2
DestinosMC == Dir({n2}, {1})
\* and a destination that comprobar_parametros refuses
DestinosInvalidos == DestinosMC \cup Dir({n2}, {0})
\* every node connects to port 1 of every node
DestinosTodos == Dir({n1, n2}, {1})
\* a port of the system's choice
OrigenesMC == Dir({IPNula}, {0})
EscuchasMC == Dir({IPNula}, {1})
\* port 1 and a port beyond 32767 as int16_t holds it
EscuchasAltas == Dir({IPNula}, {1, -25536})
\* from anybody
RemotasMC == Dir({IPNula}, {0})
\* from anybody, from any port of n1, from port 2 of n1
RemotasTres == RemotasMC \cup Dir({n1}, {0, 2})
=============================================================================
