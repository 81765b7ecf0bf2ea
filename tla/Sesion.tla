------------------------------- MODULE Sesion -------------------------------
(***************************************************************************)
(* What the transport promises about sessions, whatever the TPDUs, buffers  *)
(* and barriers by which it keeps the promise: an end that asks is joined   *)
(* to one end that listened for it, and to no other.                        *)
(***************************************************************************)
CONSTANTS
  Extremos,          \* ends: the cells of all the nodes
  Direcciones,       \* transport addresses
  Vale(_, _)         \* does a listener's filter let an address in?

VARIABLE fin         \* [Extremos -> what the end is doing]

Libre == [est |-> "libre"]
Peticiones == [est : {"pide"}, de : Direcciones, a : Direcciones]
Oyentes == [est : {"escucha"}, en : Direcciones, filtro : Direcciones]
Unido(e) == [est |-> "unido", con |-> e]

Init == fin = [e \in Extremos |-> Libre]

Cambia(e, x) == fin' = [fin EXCEPT ![e] = x]

\* An application asks, from an address of its own, for the listener at another.
Pide(e) ==
  fin[e] = Libre /\ fin'[e] \in Peticiones /\ Cambia(e, fin'[e])

Escucha(e) ==
  fin[e] = Libre /\ fin'[e] \in Oyentes /\ Cambia(e, fin'[e])

\* A listener is given a request for its address that its filter lets in and
\* that no other end has been given.
Acepta(e, f) ==
  /\ fin[e].est = "escucha" /\ fin[f].est = "pide"
  /\ fin[f].a = fin[e].en /\ Vale(fin[e].filtro, fin[f].de)
  /\ \A g \in Extremos : fin[g] # Unido(f)
  /\ Cambia(e, Unido(f))

\* The one that asked learns which end took its request.
Confirma(f, e) ==
  /\ fin[f].est = "pide" /\ fin[e] = Unido(f)
  /\ Cambia(f, Unido(e))

\* A step changes one end.
Next ==
  \E e \in Extremos :
    /\ fin'[e] # fin[e]
    /\ \/ Pide(e) \/ Escucha(e)
       \/ \E f \in Extremos : Acepta(e, f) \/ Confirma(e, f)

Spec == Init /\ [][Next]_fin
=============================================================================
