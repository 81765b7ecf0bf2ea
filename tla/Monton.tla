------------------------------- MODULE Monton -------------------------------
(***************************************************************************)
(* What the shared heap promises to the lists that live in it: regions that *)
(* do not overlap, kept until they are given back, and a refusal only when  *)
(* no gap between them is large enough. Module Pool implements it.          *)
(***************************************************************************)
EXTENDS Naturals

CONSTANTS
  INICIO,   \* first address of the area (blocks_)
  FIN,      \* one past the last
  H,        \* what each region needs in front of it: sizeof (block)
  Tams      \* bound: sizes that are asked for

VARIABLES
  vivos,    \* regions handed out and not yet given back
  pedido,   \* size being asked for, 0 if none
  resp      \* answer to the last request, 0 for a null pointer

vars == <<vivos, pedido, resp>>

Huecos == INICIO .. FIN
Disjunto(desde, hasta, r) == hasta <= r.dir - H \/ r.dir + r.tam <= desde
\* The addresses from "desde" to "hasta", the latter excluded, are in no region.
Libre(desde, hasta) ==
  INICIO <= desde /\ hasta <= FIN /\ \A r \in vivos : Disjunto(desde, hasta, r)

Init == vivos = {} /\ pedido = 0 /\ resp = 0

Pide == pedido = 0 /\ pedido' \in Tams /\ UNCHANGED <<vivos, resp>>

\* A region may be larger than what was asked for, by less than two headers.
Concede ==
  /\ pedido # 0 /\ pedido' = 0
  /\ \E desde \in Huecos, tam \in pedido .. pedido + 2 * H - 1 :
       /\ Libre(desde, desde + H + tam)
       /\ vivos' = vivos \cup {[dir |-> desde + H, tam |-> tam]}
       /\ resp' = desde + H

Niega ==
  /\ pedido # 0 /\ pedido' = 0
  /\ \A desde \in Huecos : ~Libre(desde, desde + H + pedido)
  /\ resp' = 0 /\ UNCHANGED vivos

Devuelve ==
  /\ pedido = 0
  /\ \E r \in vivos : vivos' = vivos \ {r}
  /\ UNCHANGED <<pedido, resp>>

Next == Pide \/ Concede \/ Niega \/ Devuelve
Spec == Init /\ [][Next]_vars
=============================================================================
