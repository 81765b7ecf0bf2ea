----------------------------- MODULE EnvioProof -----------------------------
(***************************************************************************)
(* Proofs about the loop of module Envio, for every size of a TPDU and      *)
(* every length that an int can count.                                      *)
(***************************************************************************)
EXTENDS EnvioProp, TLAPS

-----------------------------------------------------------------------------
(* Arithmetic.                                                              *)

LEMMA MasUno ==
  ASSUME NEW n \in Int, NEW M \in Int
  PROVE  (n + 1) * M = n * M + M /\ (n - 1) * M = n * M - M
OBVIOUS

LEMMA Crece ==
  ASSUME NEW k \in Nat, NEW M \in Nat
  PROVE  k * M \in Nat
OBVIOUS

LEMMA Division ==
  ASSUME NEW l \in Nat, NEW M \in Nat \ {0}
  PROVE  /\ l \div M \in Nat /\ l % M \in 0 .. M - 1
         /\ l = M * (l \div M) + (l % M)
BY Z3

\* As many fragments as the data fills, the last one perhaps in part.
Justos(n, l) == l <= n * MAX_DATOS /\ (n = 1 \/ (n - 1) * MAX_DATOS < l)

LEMMA NumeroJusto ==
  ASSUME NEW l \in Nat
  PROVE  /\ NumeroDeSends(l) \in Nat \ {0} /\ Justos(NumeroDeSends(l), l)
         /\ NumeroDeSends(l) = 1 <=> l <= MAX_DATOS
<1> USE SuposicionEnvio
<1> DEFINE q == l \div MAX_DATOS
           r == l % MAX_DATOS
<1>1. q \in Nat /\ r \in 0 .. MAX_DATOS - 1 /\ l = MAX_DATOS * q + r
  BY Division
<1>2. NumeroDeSends(l) = IF l <= MAX_DATOS THEN 1 ELSE q + (IF r > 0 THEN 1 ELSE 0)
  BY DEF NumeroDeSends
<1> HIDE DEF q, r
<1>3. CASE l <= MAX_DATOS
  BY <1>2, <1>3 DEF Justos
<1>4. CASE ~(l <= MAX_DATOS)
  <2>1. MAX_DATOS * q = q * MAX_DATOS /\ q * MAX_DATOS \in Nat
    BY <1>1
  <2>2. q # 0
    BY <1>1, <1>4
  <2>3. (q + 1) * MAX_DATOS = q * MAX_DATOS + MAX_DATOS
        /\ (q - 1) * MAX_DATOS = q * MAX_DATOS - MAX_DATOS
    BY <1>1, MasUno
  <2>4. CASE r > 0
    <3>1. NumeroDeSends(l) = q + 1
      BY <1>2, <1>4, <2>4
    <3>2. l <= (q + 1) * MAX_DATOS /\ q * MAX_DATOS < l
      BY <1>1, <2>1, <2>3, <2>4
    <3>3. (q + 1) - 1 = q /\ q + 1 \in Nat \ {0} /\ q + 1 # 1
      BY <1>1, <2>2
    <3> QED BY <1>4, <3>1, <3>2, <3>3 DEF Justos
  <2>5. CASE r = 0
    <3>1. NumeroDeSends(l) = q
      BY <1>1, <1>2, <1>4, <2>5
    <3>2. l = q * MAX_DATOS
      BY <1>1, <2>1, <2>5
    <3>3. q # 1
      BY <1>4, <3>2
    <3>4. (q - 1) * MAX_DATOS < l
      BY <1>1, <2>1, <2>3, <3>2
    <3> QED BY <1>1, <1>4, <2>2, <3>1, <3>2, <3>3, <3>4 DEF Justos
  <2> QED BY <1>1, <2>4, <2>5
<1> QED BY <1>3, <1>4

-----------------------------------------------------------------------------
(* The inductive invariant: of the fragments that the call needs, enviados   *)
(* have gone and numero_sends are left; while one is left, the bytes sent    *)
(* fill those gone, and tamanho is the size of the next.                     *)

Total == enviados + numero_sends

EnBucle ==
  /\ Justos(Total, longitud) /\ Total # 0
  /\ numero_sends = 0 => datos_a_transmitir = 0
  /\ numero_sends # 0 => puntero_datos = enviados * MAX_DATOS
  /\ numero_sends = 1 => tamanho = datos_a_transmitir
  /\ numero_sends > 1 => tamanho = MAX_DATOS

IInv ==
  /\ pc \in {"fuera", "bucle", "fin"}
  /\ longitud \in Nat /\ longitud <= MAX_INT /\ tamanho \in Nat
  /\ numero_sends \in Nat /\ enviados \in Nat
  /\ puntero_datos \in Nat /\ datos_a_transmitir \in Nat
  /\ datos_enviados = puntero_datos
  /\ puntero_datos + datos_a_transmitir = longitud
  /\ pc = "fuera" => puntero_datos = 0 /\ enviados = 0
  /\ pc # "fuera" => EnBucle
  /\ pc = "fin" => numero_sends = 0

LEMMA InvariantesDeIInv == IInv => TypeOK /\ CopiaDentro /\ EnvioCompleto
<1> SUFFICES ASSUME IInv PROVE TypeOK /\ CopiaDentro /\ EnvioCompleto
  OBVIOUS
<1> USE SuposicionEnvio
<1>1. TypeOK
  BY DEF IInv, TypeOK
<1>2. CopiaDentro
  <2> SUFFICES ASSUME pc = "bucle", numero_sends > 0
               PROVE  tamanho <= MAX_DATOS /\ puntero_datos + tamanho <= longitud
    BY DEF CopiaDentro
  <2> DEFINE P == enviados * MAX_DATOS
  <2>1. /\ puntero_datos = P /\ Justos(enviados + numero_sends, longitud)
        /\ numero_sends \in Nat /\ enviados \in Nat /\ P \in Nat /\ longitud \in Nat
        /\ puntero_datos + datos_a_transmitir = longitud /\ datos_a_transmitir \in Nat
    BY Crece DEF IInv, EnBucle, Total
  <2>2. CASE numero_sends = 1
    <3>1. tamanho = datos_a_transmitir
      BY <2>2 DEF IInv, EnBucle
    <3>2. (enviados + 1) * MAX_DATOS = P + MAX_DATOS
      BY <2>1, MasUno
    <3>3. longitud <= P + MAX_DATOS
      BY <2>1, <2>2, <3>2 DEF Justos
    <3> QED BY <2>1, <3>1, <3>3
  <2>3. CASE numero_sends > 1
    <3>1. tamanho = MAX_DATOS
      BY <2>3 DEF IInv, EnBucle
    <3> DEFINE k == numero_sends - 2
    <3>2. k \in Nat /\ enviados + numero_sends - 1 = (enviados + k) + 1 /\ enviados + numero_sends # 1
      BY <2>1, <2>3
    <3>3. ((enviados + k) + 1) * MAX_DATOS = P + k * MAX_DATOS + MAX_DATOS
      BY <2>1, <3>2
    <3>4. k * MAX_DATOS \in Nat
      BY <3>2, Crece
    <3>5. P + k * MAX_DATOS + MAX_DATOS < longitud
      <4>1. (enviados + numero_sends - 1) * MAX_DATOS < longitud
        BY <2>1, <3>2 DEF Justos
      <4> HIDE DEF k, P
      <4> QED BY <3>2, <3>3, <4>1
    <3> HIDE DEF k, P
    <3> QED BY <2>1, <3>1, <3>4, <3>5
  <2> QED BY <2>1, <2>2, <2>3
<1>3. EnvioCompleto
  <2> SUFFICES ASSUME pc = "fin"
               PROVE  /\ puntero_datos = longitud /\ datos_enviados = longitud
                      /\ datos_a_transmitir = 0 /\ Justos(enviados, longitud)
    BY DEF EnvioCompleto, Justos
  <2>1. numero_sends = 0 /\ datos_a_transmitir = 0 /\ enviados \in Nat
        /\ Justos(enviados + numero_sends, longitud)
    BY DEF IInv, EnBucle, Total
  <2>2. enviados + numero_sends = enviados
    BY <2>1
  <2>3. Justos(enviados, longitud)
    BY <2>1, <2>2
  <2> QED BY <2>1, <2>3 DEF IInv
<1> QED BY <1>1, <1>2, <1>3

LEMMA InicioIInv == Init => IInv
BY SuposicionEnvio DEF Init, IInv

LEMMA EntraPaso == IInv /\ Entra => IInv'
<1> SUFFICES ASSUME IInv, Entra PROVE IInv'
  OBVIOUS
<1> USE SuposicionEnvio
<1> DEFINE lon == longitud'
<1>1. lon \in Nat /\ lon <= MAX_INT
  BY DEF Entra
<1>2. /\ numero_sends' = NumeroDeSends(lon) /\ numero_sends' \in Nat \ {0}
      /\ Justos(numero_sends', lon) /\ (numero_sends' = 1 <=> lon <= MAX_DATOS)
  BY <1>1, NumeroJusto DEF Entra
<1>3. /\ pc' = "bucle" /\ tamanho' = (IF lon <= MAX_DATOS THEN lon ELSE MAX_DATOS)
      /\ datos_a_transmitir' = lon
      /\ puntero_datos' = 0 /\ datos_enviados' = 0 /\ enviados' = 0
  BY DEF Entra, IInv
<1>4. Total' = numero_sends' /\ 0 * MAX_DATOS = 0
  BY <1>2, <1>3 DEF Total
<1>5. EnBucle'
  BY <1>2, <1>3, <1>4 DEF EnBucle, Justos
<1>6. tamanho' \in Nat
  <2>1. MAX_DATOS \in Nat
    OBVIOUS
  <2> HIDE DEF lon
  <2> QED BY <1>1, <1>3, <2>1
<1>7. numero_sends' \in Nat
  BY <1>2
<1>8. puntero_datos' + datos_a_transmitir' = lon
  <2>1. puntero_datos' = 0 /\ datos_a_transmitir' = lon
    BY <1>3
  <2>2. lon \in Nat
    BY <1>1
  <2> HIDE DEF lon
  <2> QED BY <2>1, <2>2
<1> QED BY <1>1, <1>3, <1>5, <1>6, <1>7, <1>8 DEF IInv

LEMMA TrozoPaso == IInv /\ Trozo => IInv'
<1> SUFFICES ASSUME IInv, Trozo PROVE IInv'
  OBVIOUS
<1> USE SuposicionEnvio
<1>1. tamanho <= MAX_DATOS /\ puntero_datos + tamanho <= longitud
  BY InvariantesDeIInv DEF CopiaDentro, Trozo
<1>2. /\ puntero_datos' = puntero_datos + tamanho /\ datos_enviados' = datos_enviados + tamanho
      /\ datos_a_transmitir' = datos_a_transmitir - tamanho
      /\ numero_sends' = numero_sends - 1 /\ enviados' = enviados + 1
      /\ tamanho' = (IF numero_sends' = 1 THEN datos_a_transmitir' ELSE tamanho)
      /\ pc = "bucle" /\ pc' = pc /\ longitud' = longitud /\ numero_sends > 0
  BY DEF Trozo, Siguiente
<1>3. /\ longitud \in Nat /\ longitud <= MAX_INT /\ tamanho \in Nat
      /\ numero_sends \in Nat /\ enviados \in Nat
      /\ puntero_datos \in Nat /\ datos_a_transmitir \in Nat
      /\ datos_enviados = puntero_datos /\ puntero_datos + datos_a_transmitir = longitud
  BY DEF IInv
<1>4. EnBucle
  BY <1>2 DEF IInv
<1>5. /\ puntero_datos' \in Nat /\ datos_enviados' = puntero_datos'
      /\ datos_a_transmitir' \in Nat /\ puntero_datos' + datos_a_transmitir' = longitud
      /\ numero_sends' \in Nat /\ enviados' \in Nat /\ tamanho' \in Nat
  BY <1>1, <1>2, <1>3
<1>6. Total' = Total
  BY <1>2, <1>3 DEF Total
<1>7. Justos(Total', longitud') /\ Total' # 0
  BY <1>2, <1>4, <1>6 DEF EnBucle
<1>8. numero_sends' = 0 => datos_a_transmitir' = 0
  BY <1>2, <1>3, <1>4 DEF EnBucle
<1>9. ASSUME numero_sends' # 0 PROVE puntero_datos' = enviados' * MAX_DATOS
  <2>1. numero_sends > 1
    BY <1>2, <1>3, <1>9
  <2>2. puntero_datos = enviados * MAX_DATOS /\ tamanho = MAX_DATOS
    BY <1>2, <1>4, <2>1 DEF EnBucle
  <2>3. (enviados + 1) * MAX_DATOS = enviados * MAX_DATOS + MAX_DATOS
    BY <1>3, MasUno
  <2> QED BY <1>2, <2>2, <2>3
<1>10. (numero_sends' = 1 => tamanho' = datos_a_transmitir')
       /\ (numero_sends' > 1 => tamanho' = MAX_DATOS)
  BY <1>2, <1>3, <1>4 DEF EnBucle
<1>11. EnBucle'
  BY <1>7, <1>8, <1>9, <1>10 DEF EnBucle, Justos
<1> QED BY <1>2, <1>3, <1>5, <1>11 DEF IInv

LEMMA PasoIInv == IInv /\ [Next]_vars => IInv'
<1> SUFFICES ASSUME IInv, [Next]_vars PROVE IInv'
  OBVIOUS
<1>1. CASE Entra
  BY <1>1, EntraPaso
<1>2. CASE Trozo
  BY <1>2, TrozoPaso
<1>3. CASE Vuelve
  BY <1>3 DEF Vuelve, IInv, EnBucle, Total, Justos
<1>4. CASE UNCHANGED vars
  BY <1>4 DEF vars, IInv, EnBucle, Total, Justos
<1> QED BY <1>1, <1>2, <1>3, <1>4 DEF Next

LEMMA InvarianteEnvio == Spec => []IInv
BY InicioIInv, PasoIInv, PTL DEF Spec

\* No local of t_send passes its type.
THEOREM TiposEnvio == Spec => []TypeOK
BY InvarianteEnvio, InvariantesDeIInv, PTL

\* For every length that an int counts, t_send copies only bytes of its caller and
\* never more than a TPDU holds.
THEOREM CopiaSegura == Spec => []CopiaDentro
BY InvarianteEnvio, InvariantesDeIInv, PTL

\* When t_send returns it has sent each byte once, in as few fragments as can be.
THEOREM EnvioEntero == Spec => []EnvioCompleto
BY InvarianteEnvio, InvariantesDeIInv, PTL
=============================================================================
