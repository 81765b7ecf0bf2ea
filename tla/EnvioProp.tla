------------------------------ MODULE EnvioProp -----------------------------
(***************************************************************************)
(* What the loop of module Envio has to satisfy.                            *)
(***************************************************************************)
EXTENDS Envio

\* The values of the variables: no int passes its width.
TypeOK ==
  /\ pc \in {"fuera", "bucle", "fin"}
  /\ longitud \in Nat /\ tamanho \in Nat /\ numero_sends \in Nat
  /\ datos_a_transmitir \in Nat /\ puntero_datos \in Nat
  /\ datos_enviados \in Nat /\ datos_enviados <= MAX_INT
  /\ enviados \in Nat

\* What memcpy is about to copy fits in the field datos of the TPDU and lies in
\* the data of the caller, for every fragment of every length.
CopiaDentro ==
  pc = "bucle" /\ numero_sends > 0 =>
    tamanho <= MAX_DATOS /\ puntero_datos + tamanho <= longitud

\* At the end every byte has been sent and counted, in as few fragments as can
\* be: all of them full but the last, and one even for no data.
EnvioCompleto ==
  pc = "fin" =>
    /\ puntero_datos = longitud /\ datos_enviados = longitud /\ datos_a_transmitir = 0
    /\ longitud <= enviados * MAX_DATOS
    /\ enviados = 1 \/ (enviados - 1) * MAX_DATOS < longitud

=============================================================================
