-------------------------------- MODULE Envio -------------------------------
(***************************************************************************)
(* How t_send cuts the data of a call into fragments (INTERFAZ.cc): the     *)
(* locals of the primitive, from its entry to its return. Module Ltm has    *)
(* the same loop with its semaphore, its buffers and its sleeps, which      *)
(* leave these locals as they are, and counts fragments without a size.     *)
(***************************************************************************)
EXTENDS Integers

CONSTANTS
  MAX_DATOS,    \* bytes that the field datos of a TPDU holds (1024)
  MAX_INT,      \* the largest int (2^31 - 1)
  Longitudes    \* bound: lengths that t_send is called with

ASSUME SuposicionEnvio ==
  /\ MAX_DATOS \in Nat \ {0} /\ MAX_INT \in Nat
  \* beyond MAX_INT, datos_enviados overflows: undefined
  /\ \A l \in Longitudes : l \in Nat /\ l <= MAX_INT

VARIABLES
  pc,                   \* "fuera", "bucle" or "fin"
  longitud,             \* argument of the call
  tamanho,              \* size of the next fragment
  numero_sends,         \* fragments left
  datos_a_transmitir,   \* bytes left
  puntero_datos,        \* first byte of the next fragment, from the start
  datos_enviados,       \* bytes sent: the result
  enviados              \* fragments sent, for the properties

vars == <<pc, longitud, tamanho, numero_sends, datos_a_transmitir, puntero_datos,
          datos_enviados, enviados>>

Init ==
  /\ pc = "fuera" /\ longitud = 0 /\ tamanho = MAX_DATOS /\ numero_sends = 0
  /\ datos_a_transmitir = 0 /\ puntero_datos = 0 /\ datos_enviados = 0 /\ enviados = 0

\* Variant: one fragment more when the division is exact.
NumeroDeSendsDeMas(l) == l \div MAX_DATOS + 1

NumeroDeSends(l) ==
  IF l <= MAX_DATOS THEN 1
  ELSE l \div MAX_DATOS + (IF l % MAX_DATOS > 0 THEN 1 ELSE 0)

Entra ==
  /\ pc = "fuera" /\ pc' = "bucle"
  /\ longitud' \in Longitudes
  /\ numero_sends' = NumeroDeSends(longitud')
  /\ tamanho' = IF longitud' <= MAX_DATOS THEN longitud' ELSE MAX_DATOS
  /\ datos_a_transmitir' = longitud'
  /\ UNCHANGED <<puntero_datos, datos_enviados, enviados>>

\* Variant: the size of the last fragment is not set.
UltimoEntero == MAX_DATOS

\* The size of the fragment that follows: what is left, if it is the last.
Siguiente ==
  IF numero_sends' = 1 THEN datos_a_transmitir' ELSE tamanho

\* One fragment: copied into a buffer, sent, and counted.
Trozo ==
  /\ pc = "bucle" /\ numero_sends > 0
  /\ puntero_datos' = puntero_datos + tamanho
  /\ numero_sends' = numero_sends - 1
  /\ datos_a_transmitir' = datos_a_transmitir - tamanho
  /\ datos_enviados' = datos_enviados + tamanho
  /\ enviados' = enviados + 1
  /\ tamanho' = Siguiente
  /\ UNCHANGED <<pc, longitud>>

Vuelve ==
  /\ pc = "bucle" /\ numero_sends = 0
  /\ pc' = "fin"
  /\ UNCHANGED <<longitud, tamanho, numero_sends, datos_a_transmitir, puntero_datos,
                 datos_enviados, enviados>>

Next == Entra \/ Trozo \/ Vuelve
Spec == Init /\ [][Next]_vars
=============================================================================
