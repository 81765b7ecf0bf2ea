------------------------------ MODULE LtmSesion -----------------------------
(***************************************************************************)
(* The sessions that the cells of module Ltm stand for.                     *)
(***************************************************************************)
EXTENDS LtmProp

FinDe(c) ==
  CASE c.estado_cx = CLOSED -> [est |-> "libre"]
    [] c.estado_cx = CONNECT ->
         [est |-> "pide", de |-> TsapLocal(c), a |-> TsapRemoto(c)]
    [] c.estado_cx = LISTEN ->
         [est |-> "escucha", en |-> TsapLocal(c), filtro |-> TsapRemoto(c)]
    [] c.estado_cx = ESTABLISHED ->
         [est |-> "unido", con |-> <<c.ip_destino, c.id_destino>>]

\* A listener asks for one remote TSAP, for any port of one address, or for none.
Filtra(filtro, tsap) ==
  \/ filtro = TsapNulo
  \/ filtro.ip = tsap.ip /\ filtro.puerto \in {0, tsap.puerto}

Sesiones == INSTANCE Sesion WITH
  Extremos <- Nodos \X Celdas,
  Direcciones <- Tsap,
  Vale <- Filtra,
  fin <- [e \in Nodos \X Celdas |-> FinDe(CXs[e[1]][e[2]])]

\* The cells, TPDUs and look-ups of the two nodes keep the promise of Sesion:
\* each step of a primitive or of a daemon is one of a session, or leaves them.
ImplementaSesion == Sesiones!Spec
=============================================================================
