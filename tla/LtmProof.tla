------------------------------ MODULE LtmProof ------------------------------
(***************************************************************************)
(* Proofs about the transport of module Ltm, for every value of its         *)
(* constants: lemmas about the look-ups, the buffers and the bag of         *)
(* datagrams first, then the type invariant, then the semaphore of t_send   *)
(* and the local ports, which rest on it.                                   *)
(***************************************************************************)
EXTENDS LtmProp, FiniteSetTheorems, SequenceTheorems, TLAPS

-----------------------------------------------------------------------------
(* Lemmas about the operators.                                              *)

\* A non-empty set of cells has a lowest one.
LEMMA MinDeCeldas ==
  ASSUME NEW S \in SUBSET Celdas, S # {}
  PROVE  Min(S) \in S /\ \A i \in S : Min(S) <= i
<1> DEFINE Hasta(x) == 0 .. x
           T == {Hasta(x) : x \in S}
           Orden == StrictSubsetOrdering(Celdas)
<1>1. S \subseteq Nat /\ \A x \in S : Hasta(x) \in SUBSET Celdas
  BY SuposicionCotas DEF Celdas
<1>2. T \subseteq FiniteSubsetsOf(Celdas) /\ T # {}
  <2>1. \A x \in S : IsFiniteSet(Hasta(x))
    BY <1>1, FS_Interval
  <2> HIDE DEF Hasta
  <2> QED
    BY <1>1, <2>1 DEF FiniteSubsetsOf
<1>3. IsWellFoundedOn(Orden, FiniteSubsetsOf(Celdas))
  BY FS_StrictSubsetOrderingWellFounded
<1>4. \E U \in T : \A V \in T : ~ (<<V, U>> \in Orden)
  <2> HIDE DEF T, Orden
  <2> QED BY <1>2, <1>3, WFMin
<1>5. PICK x \in S : \A y \in S : ~ (<<Hasta(y), Hasta(x)>> \in Orden)
  BY <1>4
<1>6. ASSUME NEW y \in S, y < x PROVE FALSE
  <2>1. Hasta(y) \subseteq Hasta(x) /\ x \in Hasta(x) /\ x \notin Hasta(y)
    BY <1>1, <1>6
  <2>2. <<Hasta(y), Hasta(x)>> \in Orden
    BY <1>1, <2>1 DEF StrictSubsetOrdering
  <2> QED
    BY <1>5, <2>2
<1>7. \A y \in S : x <= y
  BY <1>1, <1>6
<1> QED
  BY <1>7 DEF Min

\* The look-ups return cells.
LEMMA CeldaLibreEsCelda ==
  ASSUME NEW cxs
  PROVE  /\ buscar_celda_libre(cxs) \in Celdas
         /\ Libres(cxs) # {} => buscar_celda_libre(cxs) \in Libres(cxs)
<1>1. Libres(cxs) \in SUBSET Celdas
  BY DEF Libres
<1>2. 0 \in Celdas
  BY SuposicionCotas DEF Celdas
<1> QED
  BY <1>1, <1>2, MinDeCeldas DEF buscar_celda_libre

LEMMA AsignaCandidata ==
  ASSUME NEW cxs, NEW t, asign_conexion_CR(cxs, t) # EXNOTSAP
  PROVE  asign_conexion_CR(cxs, t) \in Candidatas(cxs, t)
<1>1. Candidatas(cxs, t) \in SUBSET Celdas
  BY DEF Candidatas
<1> QED
  BY <1>1, MinDeCeldas DEF asign_conexion_CR

\* The conversion to uint16_t.
LEMMA AUint16Tipo == \A p \in Int : AUint16(p) \in Uint16
  BY DEF AUint16, Uint16

LEMMA TsapEntero ==
  /\ \A p \in Int16 : p \in Int
  /\ \A p \in Uint16 : p \in Int
  BY DEF Int16, Uint16

\* A header is well typed when its TSAPs and identifiers are.
LEMMA CrearPktTipo ==
  ASSUME NEW tipo \in {CR, CC, DATOS}, NEW destino, NEW origen,
         destino.ip \in IPs, origen.ip \in IPs,
         destino.puerto \in Int, origen.puerto \in Int,
         NEW i \in Celdas \cup {EXNOTSAP}, NEW j \in Celdas,
         NEW aceptada \in {EXOK, 1, EXNOTSAP},
         i = EXNOTSAP => tipo = CC /\ aceptada = EXNOTSAP
  PROVE  TpduOK(crear_pkt(tipo, destino, origen, i, j, aceptada))
  BY AUint16Tipo DEF TpduOK, crear_pkt, Tpdu

\* What the bag of datagrams holds.
LEMMA AnadeBolsa ==
  ASSUME NEW bolsa, BolsaOK(bolsa), NEW m \in Paquete, TpduOK(m.tpdu)
  PROVE  BolsaOK(ConPaquete(bolsa, m))
  BY DEF BolsaOK, ConPaquete, (+), SetToBag

LEMMA QuitaBolsa ==
  ASSUME NEW bolsa, BolsaOK(bolsa), NEW m
  PROVE  BolsaOK(SinPaquete(bolsa, m))
  BY DEF BolsaOK, SinPaquete, (-), SetToBag

LEMMA EnviaBolsa ==
  ASSUME NEW bolsa, BolsaOK(bolsa), NEW n \in Nodos, NEW ip \in IPs, NEW t,
         TpduOK(t), NEW s, Envia(bolsa, n, ip, t, s)
  PROVE  BolsaOK(red')
<1> DEFINE m == [de |-> n, a |-> IF ip = IPNula THEN n ELSE ip,
                 tpdu |-> IF s = "basura" THEN TpduBasura ELSE t]
<1>1. 0 \in Celdas
  BY SuposicionCotas DEF Celdas
<1>2. TpduOK(TpduBasura)
  <2>1. TpduBasura \in Tpdu
    BY <1>1 DEF TpduBasura, Tpdu, Uint16, IPs, EXOK
  <2>2. TpduBasura.id_local # EXNOTSAP
    BY DEF TpduBasura, EXNOTSAP
  <2> QED
    BY <2>1, <2>2 DEF TpduOK
<1>3. m \in Paquete /\ TpduOK(m.tpdu)
  BY <1>2 DEF Paquete, TpduOK, IPs
<1>4. BolsaOK(ConPaquete(bolsa, m))
  BY <1>3, AnadeBolsa
<1>5. red' = ConPaquete(bolsa, m) \/ red' = bolsa
  BY DEF Envia
<1> QED
  BY <1>4, <1>5

\* The buffers that a process takes and gives back.
LEMMA ListaDeLibres ==
  ASSUME buffers_libres \in [Nodos -> Lista], NEW n \in Nodos, NEW p \in Procs
  PROVE  /\ LibresCon(n, p) \in Lista
         /\ LibresCon(n, p) # <<>>
         /\ Head(LibresCon(n, p)) \in Procs \cup {Nadie}
         /\ Tail(LibresCon(n, p)) \in Lista
<1>1. <<p>> \in Lista /\ <<p>> # <<>>
  BY DEF Lista
<1>2. LibresCon(n, p) \in Lista /\ LibresCon(n, p) # <<>>
  BY <1>1 DEF LibresCon
<1> QED
  BY <1>2, HeadTailProperties DEF Lista

\* A list after an operation, broken or not.
LEMMA OperadaTipo ==
  ASSUME NEW rota, NEW l, rota \/ l \in Lista
  PROVE  Operada(rota, l) \in Lista
<1>1. ListaRota \in Lista
  BY DEF ListaRota, Lista
<1> QED
  BY <1>1 DEF Operada

LEMMA ColaDeTX ==
  ASSUME NEW tx \in Lista, tx # <<>>
  PROVE  SinUltimo(tx) \in Lista /\ UltimoDe(tx) \in Lista
<1> DEFINE S == Procs \cup {Nadie}
<1>0. tx \in Seq(S)
  BY DEF Lista
<1> HIDE DEF S
<1>1. Len(tx) \in Nat /\ Len(tx) >= 1 /\ tx[Len(tx)] \in S
  BY <1>0, LenProperties, EmptySeq, ElementOfSeq
<1>2. SubSeq(tx, 1, Len(tx) - 1) \in Seq(S) /\ <<tx[Len(tx)]>> \in Seq(S)
  BY <1>0, <1>1, SubSeqProperties
<1> QED
  BY <1>2 DEF SinUltimo, UltimoDe, Lista, S


-----------------------------------------------------------------------------
(* What each step writes has its type.                                      *)

LEMMA TiposDeProceso ==
  /\ \A a \in Apps : a \in Procs /\ Nodo(a) = NodoDe[a] /\ NodoDe[a] \in Nodos
  /\ \A n \in Nodos : n \in Procs /\ Nodo(n) = n
  /\ \A p \in Procs : Nodo(p) \in Nodos
  BY SuposicionProcesos DEF Procs, Nodo

LEMMA CeroEsCelda == 0 \in Celdas
  BY SuposicionCotas DEF Celdas

LEMMA CeldaConnectTipo ==
  ASSUME NEW c \in Conexion, NEW a \in Apps, marco[a] \in Marco, NEW tx \in Lista
  PROVE  CeldaConnect(c, a, tx) \in Conexion
<1>1. /\ AUint16(marco[a].orig.puerto) \in Uint16
      /\ AUint16(marco[a].dest.puerto) \in Uint16
      /\ marco[a].orig.ip \in IPs /\ marco[a].dest.ip \in IPs
  BY AUint16Tipo, TsapEntero DEF Marco, Tsap
<1> QED
  BY <1>1 DEF CeldaConnect, Conexion

LEMMA CeldaListenTipo ==
  ASSUME NEW c \in Conexion, NEW a \in Apps, marco[a] \in Marco
  PROVE  CeldaListen(c, a) \in Conexion
<1>1. /\ AUint16(marco[a].orig.puerto) \in Uint16
      /\ AUint16(marco[a].dest.puerto) \in Uint16
      /\ marco[a].orig.ip \in IPs /\ marco[a].dest.ip \in IPs
  BY AUint16Tipo, TsapEntero DEF Marco, Tsap
<1> QED
  BY <1>1 DEF CeldaListen, Conexion

LEMMA CeldaRechazadaTipo ==
  ASSUME NEW c \in Conexion, NEW t \in Tpdu, t.conexion_aceptada < 0
  PROVE  CeldaRechazada(c, t) \in Conexion
<1>1. t.conexion_aceptada \in {EXOK, EXNOTSAP}
  BY DEF Tpdu, EXOK, EXNOTSAP
<1> QED
  BY <1>1 DEF CeldaRechazada, Conexion

\* A confirmation that is not a refusal carries the identifier of a cell.
LEMMA CeldaConfirmadaTipo ==
  ASSUME NEW c \in Conexion, NEW t, TpduOK(t), ~ (t.conexion_aceptada < 0),
         NEW rota, rota \/ c.TX # <<>>
  PROVE  CeldaConfirmada(c, t, rota) \in Conexion
<1>1. t.id_local \in Celdas
  BY DEF TpduOK, Tpdu, EXNOTSAP
<1>2. Operada(rota, SinUltimo(c.TX)) \in Lista
  BY ColaDeTX, OperadaTipo DEF Conexion
<1> QED
  BY <1>1, <1>2 DEF CeldaConfirmada, Conexion

LEMMA CeldaAceptadaTipo ==
  ASSUME NEW c \in Conexion, NEW m \in Paquete, TpduOK(m.tpdu), m.tpdu.tipo = CR
  PROVE  CeldaAceptada(c, m) \in Conexion
<1>1. m.tpdu.id_local \in Celdas /\ m.tpdu.puerto_orig \in Uint16 /\ m.de \in IPs
  BY DEF TpduOK, Tpdu, Paquete, IPs, CR, CC
<1> QED
  BY <1>1 DEF CeldaAceptada, Conexion

LEMMA MeteEnTXTipo ==
  ASSUME buffers_libres \in [Nodos -> Lista], NEW n \in Nodos, NEW p \in Procs,
         NEW tx \in Lista, NEW rota
  PROVE  MeteEnTX(tx, n, p, rota) \in Lista
<1>1. Append(tx, Head(LibresCon(n, p))) \in Lista
  BY ListaDeLibres, AppendProperties DEF Lista
<1> QED
  BY <1>1, OperadaTipo DEF MeteEnTX

LEMMA TomaBufferTipo ==
  ASSUME TypeOK, NEW n \in Nodos, NEW p \in Procs, NEW rota, TomaBuffer(n, p, rota)
  PROVE  buffers_libres' \in [Nodos -> Lista] /\ heap' \in [Nodos -> Nat]
<1>1. Operada(rota, Tail(LibresCon(n, p))) \in Lista
  BY ListaDeLibres, OperadaTipo DEF TypeOK
<1> QED
  BY <1>1 DEF TypeOK, TomaBuffer, HeapCon

\* The end of a critical section that has sent: on, or dead with the semaphore closed.
LEMMA AbreYSaltaTipo ==
  ASSUME TypeOK, NEW p \in Procs, NEW l \in PCsApp \cup PCsDemonio, AbreYSalta(p, l)
  PROVE  /\ pc' \in [Procs -> PCsApp \cup PCsDemonio]
         /\ SEMAFORO' \in [Nodos -> Procs \cup {Nadie}]
<1>1. "muerta" \in PCsApp /\ Nodo(p) \in Nodos
  BY TiposDeProceso DEF PCsApp
<1> QED
  BY <1>1 DEF TypeOK, AbreYSalta, Salta, Cierra

LEMMA AbreYSaltaCasos ==
  ASSUME NEW p, NEW l, AbreYSalta(p, l)
  PROVE  \/ pc' = [pc EXCEPT ![p] = l] /\ SEMAFORO' = SEMAFORO
         \/ /\ p \in Mueren
            /\ pc' = [pc EXCEPT ![p] = "muerta"]
            /\ SEMAFORO' = [SEMAFORO EXCEPT ![Nodo(p)] = p]
BY DEF AbreYSalta, Salta, Cierra

\* The return of a primitive, and the entry.
LEMMA VuelveTipo ==
  ASSUME TypeOK, NEW a \in Apps, NEW r \in Errores \cup Nat, Vuelve(a, r),
         r >= 0 /\ marco[a].prim # "send" => r \in Celdas
  PROVE  /\ pc' \in [Procs -> PCsApp \cup PCsDemonio]
         /\ celda' \in [Procs -> Celdas]
         /\ marco' \in [Apps -> Marco]
         /\ id' \in [Apps -> Celdas \cup {-1}]
         /\ ret' \in [Apps -> Errores \cup Nat]
<1>1. MarcoNulo \in Marco
  BY DEF MarcoNulo, Marco, TsapNulo, Tsap, IPs, Int16
<1> QED
  BY <1>1, CeroEsCelda, TiposDeProceso DEF TypeOK, Vuelve, Salta, PCsApp

LEMMA EntraTipo ==
  ASSUME TypeOK, NEW a \in Apps, NEW l \in {"connect", "listen", "send"},
         NEW m \in Marco, Entra(a, l, m)
  PROVE  /\ pc' \in [Procs -> PCsApp \cup PCsDemonio]
         /\ marco' \in [Apps -> Marco]
         /\ ret' \in [Apps -> Errores \cup Nat]
         /\ llamadas' \in [Apps -> Nat]
<1>1. l \in PCsApp /\ EXOK \in Nat
  BY DEF PCsApp, EXOK
<1> QED
  BY <1>1, TiposDeProceso DEF TypeOK, Entra, Salta

-----------------------------------------------------------------------------
(* Type correctness, one lemma per group of actions.                        *)

LEMMA IniTipos == Init => TypeOK
<1> SUFFICES ASSUME Init PROVE TypeOK
  OBVIOUS
<1>1. CeldaInicial \in Conexion
  BY CeroEsCelda, EmptySeq
  DEF CeldaInicial, Conexion, EXOK, IPs, Uint16, Lista
<1>2. CXs \in [Nodos -> [Celdas -> Conexion]]
  BY <1>1 DEF Init
<1>3. marco \in [Apps -> Marco]
  BY DEF Init, MarcoNulo, Marco, TsapNulo, Tsap, IPs, Int16
<1>4. BolsaOK(red)
  BY DEF Init, BolsaOK, EmptyBag, SetToBag
<1>5. pc \in [Procs -> PCsApp \cup PCsDemonio]
  BY DEF Init, PCsApp, PCsDemonio
<1>6. /\ num_CXs \in [Nodos -> Int] /\ CXs_libres \in [Nodos -> Nat]
      /\ buffers_libres \in [Nodos -> Lista] /\ heap \in [Nodos -> Nat]
      /\ rotas \in [Nodos -> BOOLEAN]
      /\ SEMAFORO \in [Nodos -> Procs \cup {Nadie}]
      /\ barC \in [Nodos -> [Celdas -> Procs \cup {Nadie}]]
  BY SuposicionCotas, EmptySeq DEF Init, Lista
<1>7. /\ celda \in [Procs -> Celdas] /\ id \in [Apps -> Celdas \cup {-1}]
      /\ ret \in [Apps -> Errores \cup Nat] /\ llamadas \in [Apps -> Nat]
      /\ copias \in Nat
  BY CeroEsCelda DEF Init, EXOK
<1> QED
  BY <1>2, <1>3, <1>4, <1>5, <1>6, <1>7 DEF TypeOK

\* The TSAPs of the calls, completed by comprobar_parametros.
LEMMA OrigenTipo ==
  ASSUME NEW n \in Nodos, NEW o \in Tsap
  PROVE  /\ ConIPLocal(n, o) \in Tsap
         /\ \A p \in Int16 : [ConIPLocal(n, o) EXCEPT !.puerto = p] \in Tsap
  BY DEF ConIPLocal, Tsap, IPs

\* A port of the system's choice is one that rand() yields.
LEMMA PuertoLibreRango ==
  ASSUME NEW cxs
  PROVE  \A q \in buscar_puerto_libre(cxs) : q \in Nat /\ q <= 32767
<1>1. \A q \in buscar_puerto_libre(cxs) : q \in PuertosLibres
  BY Zenon DEF buscar_puerto_libre
<1> QED
  BY <1>1, SuposicionPuertos

\* An int16_t holds every natural up to 32767.
LEMMA NatEnInt16 == \A q \in Nat : q <= 32767 => q \in Int16
<1> DEFINE lo == -32768
           hi == 32767
<1>1. lo \in Int /\ hi \in Int /\ lo <= 0
  OBVIOUS
<1>2. Int16 = lo .. hi
  BY DEF Int16
<1> HIDE DEF lo, hi
<1>3. \A q \in Nat : q <= hi => q \in Int16
  BY <1>1, <1>2
<1> QED
  BY <1>3 DEF hi

LEMMA IniciaConnectTipos ==
  ASSUME TypeOK, NEW a \in Apps, IniciaConnect(a)
  PROVE  TypeOK'
<1>1. PICK d \in Destinos, o \in Origenes :
        \E p \in IF o.puerto # 0 THEN {o.puerto}
                 ELSE buscar_puerto_libre(CXs[NodoDe[a]]) :
          Entra(a, "connect",
                [prim |-> "connect", dest |-> d, resta |-> 0, hechos |-> 0,
                 orig |-> [ConIPLocal(NodoDe[a], o) EXCEPT !.puerto = p]])
  BY DEF IniciaConnect
<1>2. PICK p \in IF o.puerto # 0 THEN {o.puerto}
                 ELSE buscar_puerto_libre(CXs[NodoDe[a]]) :
        Entra(a, "connect",
              [prim |-> "connect", dest |-> d, resta |-> 0, hechos |-> 0,
               orig |-> [ConIPLocal(NodoDe[a], o) EXCEPT !.puerto = p]])
  BY <1>1
<1>3. d \in Tsap /\ o \in Tsap
  BY SuposicionEntradas
<1>4. p \in Int16
  <2>1. o.puerto \in Int16
    BY <1>3 DEF Tsap
  <2>2. \A q \in buscar_puerto_libre(CXs[NodoDe[a]]) : q \in Int16
    <3> TAKE q \in buscar_puerto_libre(CXs[NodoDe[a]])
    <3>1. q \in Nat /\ q <= 32767
      BY PuertoLibreRango
    <3> QED
      BY <3>1, NatEnInt16
  <2> QED
    BY <2>1, <2>2
<1> DEFINE m == [prim |-> "connect", dest |-> d, resta |-> 0, hechos |-> 0,
                 orig |-> [ConIPLocal(NodoDe[a], o) EXCEPT !.puerto = p]]
<1>5. m.orig \in Tsap
  BY <1>3, <1>4, OrigenTipo, TiposDeProceso
<1>6. m \in Marco
  BY <1>3, <1>5 DEF Marco
<1>7. Entra(a, "connect", m)
  BY <1>2
<1> HIDE DEF m
<1>8. /\ pc' \in [Procs -> PCsApp \cup PCsDemonio]
      /\ marco' \in [Apps -> Marco]
      /\ ret' \in [Apps -> Errores \cup Nat]
      /\ llamadas' \in [Apps -> Nat]
  BY <1>6, <1>7, EntraTipo
<1>9. UNCHANGED <<tabla, listas, SEMAFORO, barC, celda, id, copias, red>>
  BY DEF IniciaConnect
<1> QED
  BY <1>8, <1>9 DEF TypeOK, tabla, listas

LEMMA IniciaListenTipos ==
  ASSUME TypeOK, NEW a \in Apps, IniciaListen(a)
  PROVE  TypeOK'
<1>1. PICK e \in Escuchas, r \in Remotas :
        Entra(a, "listen",
              [prim |-> "listen", orig |-> ConIPLocal(NodoDe[a], e), dest |-> r,
               resta |-> 0, hechos |-> 0])
  BY DEF IniciaListen
<1>2. ConIPLocal(NodoDe[a], e) \in Tsap /\ r \in Tsap
  BY SuposicionEntradas, OrigenTipo, TiposDeProceso
<1>3. [prim |-> "listen", orig |-> ConIPLocal(NodoDe[a], e), dest |-> r,
       resta |-> 0, hechos |-> 0] \in Marco
  BY <1>2 DEF Marco
<1> QED
  BY <1>1, <1>3, EntraTipo DEF TypeOK, IniciaListen, tabla, listas

LEMMA IniciaSendTipos ==
  ASSUME TypeOK, NEW a \in Apps, IniciaSend(a)
  PROVE  TypeOK'
<1>1. PICK i \in Celdas, k \in 1 .. MAX_TROZOS :
        /\ Entra(a, "send", [prim |-> "send", orig |-> TsapNulo, dest |-> TsapNulo,
                             resta |-> k, hechos |-> 0])
        /\ celda' = [celda EXCEPT ![a] = i]
  BY DEF IniciaSend
<1>2. [prim |-> "send", orig |-> TsapNulo, dest |-> TsapNulo,
       resta |-> k, hechos |-> 0] \in Marco
  BY SuposicionSalidas DEF Marco, TsapNulo, Tsap, IPs, Int16
<1> QED
  BY <1>1, <1>2, EntraTipo DEF TypeOK, IniciaSend, tabla, listas

\* The calls that are refused.
LEMMA ErroresNegativos == \A e \in Errores : ~ (e >= 0)
  BY DEF Errores, EXBADTID, EXCDUP, EXNOTSAP, EXINVA, EXMAXC

LEMMA RechazosTipos ==
  ASSUME TypeOK, NEW a \in Apps,
         \/ ConnectRechaza(a) \/ ListenRechaza(a) \/ SendRechaza(a) \/ SendFuera(a)
         \/ LlamadaInvalida(a)
  PROVE  TypeOK'
<1>1. PICK e \in Errores : Vuelve(a, e)
  BY DEF ConnectRechaza, ListenRechaza, SendRechaza, SendFuera, LlamadaInvalida,
         ErrorConnect, ErrorListen, Errores
<1>2. llamadas' \in [Apps -> Nat]
  BY DEF TypeOK, ConnectRechaza, ListenRechaza, SendRechaza, SendFuera, LlamadaInvalida
<1>3. UNCHANGED <<tabla, listas, SEMAFORO, barC, copias, red>>
  BY DEF ConnectRechaza, ListenRechaza, SendRechaza, SendFuera, LlamadaInvalida
<1> QED
  BY <1>1, <1>2, <1>3, ErroresNegativos, VuelveTipo DEF TypeOK, tabla, listas

LEMMA ConnectTipos ==
  ASSUME TypeOK, NEW a \in Apps, ConnectReserva(a)
  PROVE  TypeOK'
<1> DEFINE n == NodoDe[a]
           i == buscar_celda_libre(CXs[n])
           t == crear_pkt(CR, marco[a].dest, marco[a].orig, i, 0, EXOK)
           tx == MeteEnTX(CXs[n][i].TX, n, a, RotaAlQuitar(n))
<1>1. n \in Nodos /\ a \in Procs /\ i \in Celdas /\ marco[a] \in Marco
  BY TiposDeProceso, CeldaLibreEsCelda DEF TypeOK
<1>2. /\ marco[a].orig.ip \in IPs /\ marco[a].dest.ip \in IPs
      /\ marco[a].orig.puerto \in Int /\ marco[a].dest.puerto \in Int
  BY <1>1, TsapEntero DEF Marco, Tsap
<1>3. TpduOK(t)
  <2>1. i # EXNOTSAP
    BY <1>1 DEF Celdas, EXNOTSAP
  <2> HIDE DEF i
  <2> QED
    BY <1>1, <1>2, <2>1, CeroEsCelda, CrearPktTipo
<1>4. BolsaOK(red')
  <2>1. PICK s : Envia(red, n, marco[a].dest.ip, t, s)
    BY DEF ConnectReserva
  <2> HIDE DEF n, t
  <2> QED
    BY <1>1, <1>2, <1>3, <2>1, EnviaBolsa DEF TypeOK
<1>5. CeldaConnect(CXs[n][i], a, tx) \in Conexion
  <2>1. CXs[n][i] \in Conexion /\ CXs[n][i].TX \in Lista
    BY <1>1 DEF TypeOK, Conexion
  <2>2. tx \in Lista
    BY <1>1, <2>1, MeteEnTXTipo DEF TypeOK
  <2> HIDE DEF n, i, tx
  <2> QED
    BY <1>1, <2>1, <2>2, CeldaConnectTipo
<1>6. CXs' \in [Nodos -> [Celdas -> Conexion]]
  <2>1. CXs' = [CXs EXCEPT ![n][i] = CeldaConnect(CXs[n][i], a, tx)]
    BY DEF ConnectReserva
  <2> HIDE DEF n, i, tx
  <2> QED
    BY <1>1, <1>5, <2>1 DEF TypeOK
<1>7. buffers_libres' \in [Nodos -> Lista] /\ heap' \in [Nodos -> Nat]
  BY <1>1, TomaBufferTipo DEF ConnectReserva
<1>8. CXs_libres' \in [Nodos -> Nat] /\ rotas' \in [Nodos -> BOOLEAN]
  BY <1>1 DEF TypeOK, ConnectReserva, QuitaCXLibre, RotaAlQuitar
<1>9. /\ num_CXs' \in [Nodos -> Int]
      /\ celda' \in [Procs -> Celdas]
      /\ pc' \in [Procs -> PCsApp \cup PCsDemonio]
      /\ SEMAFORO' \in [Nodos -> Procs \cup {Nadie}]
  <2>1. "barrera" \in PCsApp \cup PCsDemonio /\ AbreYSalta(a, "barrera")
    BY DEF ConnectReserva, PCsApp
  <2> QED
    BY <1>1, <2>1, AbreYSaltaTipo DEF TypeOK, ConnectReserva
<1>10. UNCHANGED <<barC, marco, id, ret, llamadas, copias>>
  BY DEF ConnectReserva, resultados
<1> QED
  BY <1>4, <1>6, <1>7, <1>8, <1>9, <1>10 DEF TypeOK

\* A process that dies with the semaphore closed.
LEMMA MuereTipos ==
  ASSUME TypeOK, NEW p \in Procs, MuereConSemaforo(p), BolsaOK(red')
  PROVE  TypeOK'
<1>1. "muerta" \in PCsApp /\ Nodo(p) \in Nodos
  BY TiposDeProceso DEF PCsApp
<1> QED
  BY <1>1 DEF TypeOK, MuereConSemaforo, Cierra, Salta, tabla, listas, resultados

LEMMA LeeTipos ==
  ASSUME TypeOK, NEW a \in Apps, ConnectLee(a) \/ ListenLee(a)
  PROVE  TypeOK'
<1> DEFINE n == NodoDe[a]
           c == CXs[n][celda[a]]
<1>1. n \in Nodos /\ a \in Procs /\ celda[a] \in Celdas /\ c \in Conexion
  BY TiposDeProceso DEF TypeOK
<1>2. c.resultado_peticion \in {EXOK, EXNOTSAP} /\ celda[a] \in Nat
  BY <1>1 DEF Conexion, Celdas
<1>3. EXOK \in Celdas /\ EXOK \in Nat /\ EXNOTSAP \in Errores /\ ~ (EXNOTSAP >= 0)
  BY CeroEsCelda DEF EXOK, EXNOTSAP, Errores
<1>4. \E r \in {EXOK, EXNOTSAP, celda[a]} : Vuelve(a, r)
  BY <1>2 DEF ConnectLee, ListenLee
<1>5. PICK r \in Errores \cup Nat : Vuelve(a, r) /\ (r >= 0 => r \in Celdas)
  BY <1>1, <1>2, <1>3, <1>4
<1>6. num_CXs' \in [Nodos -> Int]
  BY <1>1 DEF TypeOK, ConnectLee, ListenLee, tabla
<1>7. UNCHANGED <<CXs, CXs_libres, listas, SEMAFORO, barC, llamadas, copias, red>>
  BY DEF ConnectLee, ListenLee, tabla
<1> HIDE DEF n, c
<1>8. /\ pc' \in [Procs -> PCsApp \cup PCsDemonio]
      /\ celda' \in [Procs -> Celdas]
      /\ marco' \in [Apps -> Marco]
      /\ id' \in [Apps -> Celdas \cup {-1}]
      /\ ret' \in [Apps -> Errores \cup Nat]
  BY <1>5, VuelveTipo
<1> QED
  BY <1>6, <1>7, <1>8 DEF TypeOK, listas

LEMMA ListenTipos ==
  ASSUME TypeOK, NEW a \in Apps, ListenReserva(a)
  PROVE  TypeOK'
<1> DEFINE n == NodoDe[a]
           i == buscar_celda_libre(CXs[n])
<1>1. n \in Nodos /\ a \in Procs /\ i \in Celdas /\ marco[a] \in Marco
  BY TiposDeProceso, CeldaLibreEsCelda DEF TypeOK
<1>2. CeldaListen(CXs[n][i], a) \in Conexion
  BY <1>1, CeldaListenTipo DEF TypeOK
<1>3. CXs' \in [Nodos -> [Celdas -> Conexion]]
  <2>1. CXs' = [CXs EXCEPT ![n][i] = CeldaListen(CXs[n][i], a)]
    BY DEF ListenReserva
  <2> HIDE DEF n, i
  <2> QED
    BY <1>1, <1>2, <2>1 DEF TypeOK
<1>4. /\ num_CXs' \in [Nodos -> Int]
      /\ celda' \in [Procs -> Celdas]
      /\ pc' \in [Procs -> PCsApp \cup PCsDemonio]
  BY <1>1 DEF TypeOK, ListenReserva, Salta, PCsApp
<1>5. UNCHANGED <<CXs_libres, listas, SEMAFORO, barC, marco, resultados, red>>
  BY DEF ListenReserva
<1> QED
  BY <1>3, <1>4, <1>5 DEF TypeOK, listas, resultados

\* The TSAPs of a connection are TSAPs: a port fits in an int16_t again.
LEMMA TsapDeCelda ==
  ASSUME NEW c \in Conexion
  PROVE  TsapLocal(c) \in Tsap /\ TsapRemoto(c) \in Tsap
<1>1. /\ c.ip_local \in IPs /\ c.ip_destino \in IPs
      /\ c.puerto_origen \in Uint16 /\ c.puerto_destino \in Uint16
  BY DEF Conexion
<1>2. \A p \in Uint16 : AInt16(p) \in Int16
  <2> DEFINE lo == -32768
             hi == 32767
  <2>1. Int16 = lo .. hi /\ lo \in Int /\ hi \in Int
    BY DEF Int16
  <2>2. \A p \in Uint16 : AInt16(p) \in Int /\ lo <= AInt16(p) /\ AInt16(p) <= hi
    BY DEF AInt16, Uint16
  <2> HIDE DEF lo, hi
  <2> QED
    BY <2>1, <2>2
<1> QED
  BY <1>1, <1>2 DEF TsapLocal, TsapRemoto, Tsap

LEMMA SemaforoEnvioTipos ==
  ASSUME TypeOK, NEW a \in Apps,
         SendEntra(a) \/ SendDuerme(a) \/ SendReanuda(a)
  PROVE  TypeOK'
<1>1. /\ a \in Procs /\ Nodo(a) \in Nodos
      /\ "enviando" \in PCsApp /\ "barrera" \in PCsApp
  BY TiposDeProceso DEF PCsApp
<1>2. /\ SEMAFORO' \in [Nodos -> Procs \cup {Nadie}]
      /\ pc' \in [Procs -> PCsApp \cup PCsDemonio]
  BY <1>1 DEF TypeOK, SendEntra, SendDuerme, SendReanuda, Cierra, Abre, Salta
<1>3. UNCHANGED <<tabla, listas, barC, celda, resultados, red>>
  BY DEF SendEntra, SendDuerme, SendReanuda
<1>4. marco' \in [Apps -> Marco]
  <2>1. CASE SendEntra(a)
    <3> DEFINE c == CXs[NodoDe[a]][celda[a]]
    <3>1. c \in Conexion
      BY <1>1, TiposDeProceso DEF TypeOK
    <3>2. TsapLocal(c) \in Tsap /\ TsapRemoto(c) \in Tsap
      BY <3>1, TsapDeCelda
    <3>3. marco' = [marco EXCEPT ![a] = [@ EXCEPT !.orig = TsapLocal(c),
                                                  !.dest = TsapRemoto(c)]]
      BY <2>1 DEF SendEntra
    <3> HIDE DEF c
    <3> QED
      BY <3>2, <3>3 DEF TypeOK, Marco
  <2>2. CASE UNCHANGED marco
    BY <2>2 DEF TypeOK
  <2> QED
    BY <2>1, <2>2 DEF SendDuerme, SendReanuda
<1> QED
  BY <1>2, <1>3, <1>4 DEF TypeOK, tabla, listas, resultados

LEMMA SendTrozoTipos ==
  ASSUME TypeOK, NEW a \in Apps, SendTrozo(a)
  PROVE  TypeOK'
<1> DEFINE n == NodoDe[a]
           i == celda[a]
           c == CXs[n][i]
           m == marco[a]
<1>1. n \in Nodos /\ a \in Procs /\ i \in Celdas /\ c \in Conexion
  BY TiposDeProceso DEF TypeOK
<1>2. /\ m.dest.ip \in IPs /\ m.orig.ip \in IPs /\ c.id_destino \in Celdas
      /\ m.dest.puerto \in Int /\ m.orig.puerto \in Int
      /\ c.TX \in Lista
  <2>1. m \in Marco
    BY DEF TypeOK
  <2> HIDE DEF m
  <2> QED
    BY <1>1, <2>1, TsapEntero DEF Conexion, Marco, Tsap
<1>3. TpduOK(TpduDatos(m, c, i))
  <2>1. i # EXNOTSAP
    BY <1>1 DEF Celdas, EXNOTSAP
  <2> HIDE DEF n, i, c, m
  <2> QED
    BY <1>1, <1>2, <2>1, CrearPktTipo DEF TpduDatos
<1>4. BolsaOK(red')
  <2>1. PICK s : Envia(red, n, m.dest.ip, TpduDatos(m, c, i), s)
    BY DEF SendTrozo
  <2> HIDE DEF n, i, c, m
  <2> QED
    BY <1>1, <1>2, <1>3, <2>1, EnviaBolsa DEF TypeOK
<1>5. CXs' \in [Nodos -> [Celdas -> Conexion]]
  <2> DEFINE tx == MeteEnTX(c.TX, n, a, rotas[n])
  <2>1. tx \in Lista
    BY <1>1, <1>2, MeteEnTXTipo DEF TypeOK
  <2>2. CXs' = [CXs EXCEPT ![n][i].TX = tx]
    BY DEF SendTrozo
  <2> HIDE DEF n, i, tx
  <2>3. [c EXCEPT !.TX = tx] \in Conexion
    BY <1>1, <2>1 DEF Conexion
  <2>4. CXs' = [CXs EXCEPT ![n][i] = [c EXCEPT !.TX = tx]]
    BY <1>1, <2>2 DEF TypeOK
  <2> QED
    BY <1>1, <2>3, <2>4 DEF TypeOK
<1>6. buffers_libres' \in [Nodos -> Lista] /\ heap' \in [Nodos -> Nat]
  BY <1>1, TomaBufferTipo DEF SendTrozo
<1>7. marco' \in [Apps -> Marco]
  <2>1. /\ marco[a] \in Marco /\ marco[a].resta \in Nat /\ marco[a].resta > 0
        /\ marco[a].hechos \in Nat
    BY DEF TypeOK, SendTrozo, Marco
  <2>2. [marco[a] EXCEPT !.resta = @ - 1, !.hechos = @ + 1] \in Marco
    <3>1. marco[a].resta - 1 \in Nat /\ marco[a].hechos + 1 \in Nat
      BY <2>1
    <3> QED
      BY <2>1, <3>1 DEF Marco
  <2>3. marco' = [marco EXCEPT ![a] =
                    [marco[a] EXCEPT !.resta = @ - 1, !.hechos = @ + 1]]
    BY DEF SendTrozo, TypeOK
  <2> QED
    BY <2>2, <2>3 DEF TypeOK
<1>8. UNCHANGED <<num_CXs, CXs_libres, rotas, SEMAFORO, barC, pc, celda, resultados>>
  BY DEF SendTrozo
<1> QED
  BY <1>4, <1>5, <1>6, <1>7, <1>8 DEF TypeOK, resultados

LEMMA SendTerminaTipos ==
  ASSUME TypeOK, NEW a \in Apps, SendTermina(a), marco[a].prim = "send"
  PROVE  TypeOK'
<1>1. marco[a].hechos \in Nat /\ Nodo(a) \in Nodos
  BY TiposDeProceso DEF TypeOK, Marco
<1>2. /\ pc' \in [Procs -> PCsApp \cup PCsDemonio]
      /\ celda' \in [Procs -> Celdas]
      /\ marco' \in [Apps -> Marco]
      /\ id' \in [Apps -> Celdas \cup {-1}]
      /\ ret' \in [Apps -> Errores \cup Nat]
  BY <1>1, VuelveTipo DEF SendTermina
<1>3. SEMAFORO' \in [Nodos -> Procs \cup {Nadie}]
  BY <1>1 DEF TypeOK, SendTermina, Abre
<1>4. UNCHANGED <<tabla, listas, barC, llamadas, copias, red>>
  BY DEF SendTermina
<1> QED
  BY <1>2, <1>3, <1>4 DEF TypeOK, tabla, listas

LEMMA BarreraTipos ==
  ASSUME TypeOK, NEW p \in Procs, LlegaBarrera(p)
  PROVE  TypeOK'
<1> DEFINE q == barC[Nodo(p)][celda[p]]
<1>1. Nodo(p) \in Nodos /\ celda[p] \in Celdas /\ q \in Procs \cup {Nadie}
  BY TiposDeProceso DEF TypeOK
<1>2. \A r : TrasBarrera(r) \in PCsApp \cup PCsDemonio
  BY DEF TrasBarrera, PCsApp, PCsDemonio
<1>3. UNCHANGED <<tabla, listas, SEMAFORO, celda, marco, resultados, red>>
  BY DEF LlegaBarrera
<1>4. CASE q = Nadie
  <2>1. /\ pc' = [pc EXCEPT ![p] = "dormida"]
        /\ barC' = [barC EXCEPT ![Nodo(p)][celda[p]] = p]
    BY <1>4 DEF LlegaBarrera, Salta
  <2>2. "dormida" \in PCsApp
    BY DEF PCsApp
  <2> HIDE DEF q
  <2> QED
    BY <1>1, <1>3, <2>1, <2>2 DEF TypeOK, tabla, listas, resultados
<1>5. CASE q # Nadie
  <2> DEFINE f == [pc EXCEPT ![p] = TrasBarrera(p)]
  <2>1. /\ pc' = [f EXCEPT ![q] = IF @ = "dormida" THEN TrasBarrera(q) ELSE @]
        /\ barC' = [barC EXCEPT ![Nodo(p)][celda[p]] = Nadie]
    BY <1>5 DEF LlegaBarrera
  <2>2. f \in [Procs -> PCsApp \cup PCsDemonio]
    BY <1>2 DEF TypeOK
  <2> HIDE DEF q, f
  <2> QED
    BY <1>1, <1>2, <1>3, <1>5, <2>1, <2>2 DEF TypeOK, tabla, listas, resultados
<1> QED
  BY <1>4, <1>5

\* The daemon takes a datagram that is well typed.
LEMMA DemonioCCTipos ==
  ASSUME TypeOK, NEW n \in Nodos, DemonioCC(n)
  PROVE  TypeOK'
<1>1. PICK m \in DOMAIN red :
        LET t == m.tpdu
            i == t.id_destino
            c == CXs[n][i]
            rota == RotaAlConfirmar(n, c)
        IN  /\ Recibe(n, m)
            /\ IF t.conexion_aceptada < 0
               THEN /\ CXs' = [CXs EXCEPT ![n][i] = CeldaRechazada(@, t)]
                    /\ UNCHANGED <<buffers_libres, rotas>>
               ELSE /\ CXs' = [CXs EXCEPT ![n][i] = CeldaConfirmada(@, t, rota)]
                    /\ buffers_libres' =
                         [buffers_libres EXCEPT ![n] = Operada(rota, @ \o UltimoDe(c.TX))]
                    /\ rotas' = [rotas EXCEPT ![n] = rota]
            /\ celda' = [celda EXCEPT ![n] = BarreraCC(t)]
  BY DEF DemonioCC
<1> DEFINE t == m.tpdu
           i == t.id_destino
           c == CXs[n][i]
           rota == RotaAlConfirmar(n, c)
<1>2. TpduOK(t) /\ t \in Tpdu /\ i \in Celdas /\ n \in Procs
  BY TiposDeProceso DEF TypeOK, BolsaOK, TpduOK, Tpdu
<1>3. c \in Conexion /\ c.TX \in Lista
  BY <1>2 DEF TypeOK, Conexion
<1>4. /\ CXs' \in [Nodos -> [Celdas -> Conexion]]
      /\ buffers_libres' \in [Nodos -> Lista]
      /\ rotas' \in [Nodos -> BOOLEAN]
  <2>1. CASE t.conexion_aceptada < 0
    <3>1. CeldaRechazada(c, t) \in Conexion
      BY <1>2, <1>3, <2>1, CeldaRechazadaTipo
    <3>2. /\ CXs' = [CXs EXCEPT ![n][i] = CeldaRechazada(c, t)]
          /\ UNCHANGED <<buffers_libres, rotas>>
      BY <1>1, <2>1
    <3> HIDE DEF i, c
    <3> QED
      BY <1>2, <3>1, <3>2 DEF TypeOK
  <2>2. CASE ~ (t.conexion_aceptada < 0)
    <3>0. rota \in BOOLEAN /\ (rota \/ c.TX # <<>>)
      BY <1>3 DEF RotaAlConfirmar, TypeOK
    <3>3. /\ CXs' = [CXs EXCEPT ![n][i] = CeldaConfirmada(c, t, rota)]
          /\ buffers_libres' = [buffers_libres EXCEPT ![n] =
                                  Operada(rota, buffers_libres[n] \o UltimoDe(c.TX))]
          /\ rotas' = [rotas EXCEPT ![n] = rota]
      BY <1>1, <2>2
    <3> HIDE DEF i, c, rota
    <3>1. CeldaConfirmada(c, t, rota) \in Conexion
      BY <1>2, <1>3, <2>2, <3>0, CeldaConfirmadaTipo
    <3>2. Operada(rota, buffers_libres[n] \o UltimoDe(c.TX)) \in Lista
      <4>1. c.TX # <<>> => buffers_libres[n] \o UltimoDe(c.TX) \in Lista
        BY <1>3, ColaDeTX, ConcatProperties DEF TypeOK, Lista
      <4> QED
        BY <3>0, <4>1, OperadaTipo
    <3> QED
      BY <1>2, <3>0, <3>1, <3>2, <3>3 DEF TypeOK
  <2> QED
    BY <2>1, <2>2
<1>5. BolsaOK(red')
  BY <1>1, QuitaBolsa DEF TypeOK, Recibe
<1>6. celda' \in [Procs -> Celdas]
  BY <1>1, <1>2 DEF TypeOK, BarreraCC
<1>7. pc' \in [Procs -> PCsApp \cup PCsDemonio]
  BY <1>2 DEF TypeOK, DemonioCC, Salta, PCsApp
<1>8. UNCHANGED <<num_CXs, CXs_libres, heap, SEMAFORO, barC, marco, resultados>>
  BY DEF DemonioCC
<1> QED
  BY <1>4, <1>5, <1>6, <1>7, <1>8 DEF TypeOK, resultados

\* The answer to a connection request.
LEMMA ContestaTipos ==
  ASSUME TypeOK, NEW n \in Nodos, NEW m \in DOMAIN red, m.tpdu.tipo = CR,
         NEW origen \in IPs, NEW r \in Celdas \cup {EXNOTSAP},
         NEW aceptada \in {1, EXNOTSAP}, r = EXNOTSAP => aceptada = EXNOTSAP,
         RecibeYContesta(n, m, origen, r, aceptada)
  PROVE  /\ BolsaOK(red')
         /\ buffers_libres' \in [Nodos -> Lista]
         /\ heap' \in [Nodos -> Nat]
<1>1. m \in Paquete /\ TpduOK(m.tpdu) /\ n \in Procs
  BY TiposDeProceso DEF TypeOK, BolsaOK
<1>2. /\ m.tpdu.puerto_orig \in Int /\ m.tpdu.puerto_dest \in Int
      /\ m.tpdu.id_local \in Celdas /\ m.de \in IPs
  BY <1>1, TsapEntero DEF TpduOK, Tpdu, Paquete, IPs, CR, CC
<1>3. TpduOK(TpduCC(m, origen, r, aceptada))
  BY <1>2, CrearPktTipo DEF TpduCC
<1>4. PICK s : Envia(SinPaquete(red, m), n, m.de, TpduCC(m, origen, r, aceptada), s)
  BY DEF RecibeYContesta
<1>5. BolsaOK(red')
  BY <1>2, <1>3, <1>4, QuitaBolsa, EnviaBolsa DEF TypeOK
<1>6. LibresCon(n, n) \in Lista
  BY <1>1, ListaDeLibres DEF TypeOK
<1> QED
  BY <1>5, <1>6 DEF TypeOK, RecibeYContesta, HeapCon

LEMMA DemonioCRTipos ==
  ASSUME TypeOK, NEW n \in Nodos, DemonioCR(n)
  PROVE  TypeOK'
<1>1. PICK m \in DOMAIN red :
        LET i == asign_conexion_CR(CXs[n], m.tpdu)
        IN  /\ m.tpdu.tipo = CR
            /\ i # EXNOTSAP
            /\ RecibeYContesta(n, m, CXs[n][i].ip_local, i, 1)
            /\ CXs' = [CXs EXCEPT ![n][i] = CeldaAceptada(@, m)]
            /\ celda' = [celda EXCEPT ![n] = i]
  BY DEF DemonioCR
<1> DEFINE i == asign_conexion_CR(CXs[n], m.tpdu)
<1>2. i \in Celdas
  BY <1>1, AsignaCandidata DEF Candidatas
<1>3. m \in Paquete /\ TpduOK(m.tpdu) /\ n \in Procs
  BY TiposDeProceso DEF TypeOK, BolsaOK
<1>4. /\ m.tpdu.tipo = CR /\ i # EXNOTSAP
      /\ RecibeYContesta(n, m, CXs[n][i].ip_local, i, 1)
      /\ CXs' = [CXs EXCEPT ![n][i] = CeldaAceptada(CXs[n][i], m)]
      /\ celda' = [celda EXCEPT ![n] = i]
  BY <1>1
<1> HIDE DEF i
<1>5. CXs[n][i] \in Conexion /\ CXs[n][i].ip_local \in IPs
  BY <1>2 DEF TypeOK, Conexion
<1>6. CeldaAceptada(CXs[n][i], m) \in Conexion
  BY <1>3, <1>4, <1>5, CeldaAceptadaTipo
<1>7. /\ BolsaOK(red')
      /\ buffers_libres' \in [Nodos -> Lista]
      /\ heap' \in [Nodos -> Nat]
  BY <1>2, <1>4, <1>5, ContestaTipos
<1>8. CXs' \in [Nodos -> [Celdas -> Conexion]] /\ celda' \in [Procs -> Celdas]
  BY <1>2, <1>3, <1>4, <1>6 DEF TypeOK
<1>9. /\ pc' \in [Procs -> PCsApp \cup PCsDemonio]
      /\ SEMAFORO' \in [Nodos -> Procs \cup {Nadie}]
  <2>1. "barrera" \in PCsApp \cup PCsDemonio /\ AbreYSalta(n, "barrera")
    BY DEF DemonioCR, PCsApp
  <2> QED
    BY <1>3, <2>1, AbreYSaltaTipo
<1>10. UNCHANGED <<num_CXs, CXs_libres, rotas, barC, marco, resultados>>
  BY DEF DemonioCR
<1> QED
  BY <1>7, <1>8, <1>9, <1>10 DEF TypeOK, resultados

LEMMA DemonioCRSinTsapTipos ==
  ASSUME TypeOK, NEW n \in Nodos, DemonioCRSinTsap(n)
  PROVE  TypeOK'
<1>1. PICK m \in DOMAIN red :
        /\ m.tpdu.tipo = CR
        /\ RecibeYContesta(n, m, IPNula, EXNOTSAP, EXNOTSAP)
  BY DEF DemonioCRSinTsap
<1>2. IPNula \in IPs
  BY DEF IPs
<1>3. /\ BolsaOK(red')
      /\ buffers_libres' \in [Nodos -> Lista]
      /\ heap' \in [Nodos -> Nat]
  BY <1>1, <1>2, ContestaTipos
<1>4. /\ pc' \in [Procs -> PCsApp \cup PCsDemonio]
      /\ SEMAFORO' \in [Nodos -> Procs \cup {Nadie}]
  <2>1. "colgada" \in PCsApp \cup PCsDemonio /\ AbreYSalta(n, "colgada")
    BY DEF DemonioCRSinTsap, PCsDemonio
  <2> QED
    BY TiposDeProceso, <2>1, AbreYSaltaTipo
<1>5. UNCHANGED <<tabla, rotas, barC, celda, marco, resultados>>
  BY DEF DemonioCRSinTsap
<1> QED
  BY <1>3, <1>4, <1>5 DEF TypeOK, tabla, resultados

LEMMA DemonioOtroTipos ==
  ASSUME TypeOK, NEW n \in Nodos, DemonioOtro(n)
  PROVE  TypeOK'
<1>1. n \in Procs /\ Nodo(n) = n
  BY TiposDeProceso
<1>2. BolsaOK(red')
  BY QuitaBolsa DEF TypeOK, DemonioOtro, Recibe
<1> QED
  BY <1>1, <1>2 DEF TypeOK, DemonioOtro, Cierra, tabla, listas, resultados

\* The environment.
LEMMA RedDuplicaTipos ==
  ASSUME TypeOK, RedDuplica
  PROVE  TypeOK'
<1>1. BolsaOK(red')
  <2>1. PICK m \in DOMAIN red : red' = ConPaquete(red, m)
    BY DEF RedDuplica
  <2>2. m \in Paquete /\ TpduOK(m.tpdu)
    BY DEF TypeOK, BolsaOK
  <2> QED
    BY <2>1, <2>2, AnadeBolsa DEF TypeOK
<1> QED
  BY <1>1 DEF TypeOK, RedDuplica, tabla, listas

LEMMA MatanTipos ==
  ASSUME TypeOK, NEW p \in Procs, Matan(p)
  PROVE  TypeOK'
<1>1. Nodo(p) \in Nodos
  BY TiposDeProceso
<1>2. SEMAFORO' \in [Nodos -> Procs \cup {Nadie}]
  BY <1>1 DEF TypeOK, Matan, Cierra
<1>3. pc' \in [Procs -> PCsApp \cup PCsDemonio]
  BY DEF TypeOK, Matan, Salta, PCsApp
<1> QED
  BY <1>2, <1>3 DEF TypeOK, Matan, tabla, listas, resultados

-----------------------------------------------------------------------------
(* The type invariant.  It is not inductive alone: the result of t_send is  *)
(* a count of fragments, which would be taken for an identifier if the      *)
(* frame of another primitive could reach SendTermina.                      *)

\* A call inside the body of t_send has the frame of t_send, and one that is
\* about to listen or to connect that of t_listen or of t_connect.
MarcoDe(a) == /\ pc[a] \in {"send", "enviando"} => marco[a].prim = "send"
              /\ pc[a] = "listen" => marco[a].prim = "listen"
              /\ pc[a] = "connect" => marco[a].prim = "connect"
MarcoPropio == \A a \in Apps : MarcoDe(a)

TiposInv == TypeOK /\ MarcoPropio

\* On entering its loop t_send writes the TSAPs of its own frame only.
LEMMA MarcoDeSend ==
  ASSUME TypeOK, NEW a \in Apps, SendEntra(a)
  PROVE  \A q \in Apps : /\ marco'[q].prim = marco[q].prim
                         /\ q # a => marco'[q] = marco[q]
<1> DEFINE o == TsapLocal(CXs[NodoDe[a]][celda[a]])
           d == TsapRemoto(CXs[NodoDe[a]][celda[a]])
<1>1. marco' = [marco EXCEPT ![a] = [@ EXCEPT !.orig = o, !.dest = d]]
  BY DEF SendEntra
<1> HIDE DEF o, d
<1> QED
  BY <1>1 DEF TypeOK, Marco

LEMMA MarcoPropioPaso ==
  ASSUME TiposInv, [Next]_vars
  PROVE  MarcoPropio'
<1> SUFFICES ASSUME NEW b \in Apps PROVE MarcoDe(b)'
  BY DEF MarcoPropio
<1> USE DEF TiposInv, TypeOK, MarcoPropio, MarcoDe
<1>0. b \in Procs /\ b \notin Nodos
  BY TiposDeProceso, SuposicionProcesos
<1>1. ASSUME NEW a \in Apps, Llama(a) PROVE MarcoDe(b)'
  <2>1. CASE IniciaConnect(a)
    BY <1>0, <2>1 DEF IniciaConnect, Entra, Salta
  <2>2. CASE IniciaListen(a)
    BY <1>0, <2>2 DEF IniciaListen, Entra, Salta
  <2>3. CASE IniciaSend(a)
    BY <1>0, <2>3 DEF IniciaSend, Entra, Salta
  <2>4. CASE LlamadaInvalida(a) \/ SendFuera(a)
    BY <1>0, <2>4 DEF LlamadaInvalida, SendFuera, Vuelve, Salta
  <2>5. CASE SendFueraMuere(a)
    BY <1>0, <2>5 DEF SendFueraMuere, MuereConSemaforo, Salta
  <2> QED
    BY <1>1, <2>1, <2>2, <2>3, <2>4, <2>5 DEF Llama
<1>2. ASSUME NEW p \in Procs, LlegaBarrera(p) PROVE MarcoDe(b)'
  <2> DEFINE L == {"connect", "send", "enviando", "listen"}
  <2>1. \A r : TrasBarrera(r) \notin L
    BY DEF TrasBarrera
  <2>2. pc'[b] \in L => pc'[b] = pc[b]
    <3> DEFINE q == barC[Nodo(p)][celda[p]]
               f == [pc EXCEPT ![p] = TrasBarrera(p)]
    <3>1. CASE q = Nadie
      BY <1>0, <1>2, <2>1, <3>1 DEF LlegaBarrera, Salta
    <3>2. CASE q # Nadie
      <4>1. pc' = [f EXCEPT ![q] = IF @ = "dormida" THEN TrasBarrera(q) ELSE @]
        BY <1>2, <3>2 DEF LlegaBarrera
      <4>2. DOMAIN f = Procs /\ (f[b] \in L => f[b] = pc[b])
        BY <1>0, <2>1
      <4> HIDE DEF f, q
      <4> QED
        BY <1>0, <2>1, <4>1, <4>2
    <3> QED
      BY <3>1, <3>2
  <2> QED
    BY <1>2, <2>2 DEF LlegaBarrera
<1>3. ASSUME NEW a \in Apps, PasoApp(a), ~ LlegaBarrera(a)
      PROVE  MarcoDe(b)'
  <2>1. CASE ConnectRechaza(a) \/ ListenRechaza(a) \/ SendRechaza(a)
             \/ ConnectLee(a) \/ ListenLee(a) \/ SendTermina(a)
    BY <1>0, <2>1 DEF ConnectRechaza, ListenRechaza, SendRechaza, ConnectLee,
                      ListenLee, SendTermina, Vuelve, Salta
  <2>2. CASE ConnectReserva(a) \/ ListenReserva(a) \/ SendDuerme(a)
    BY <1>0, <2>2 DEF ConnectReserva, ListenReserva, SendDuerme, AbreYSalta, Salta
  <2>3. CASE ConnectMuere(a) \/ SendMuere(a)
    BY <1>0, <2>3 DEF ConnectMuere, SendMuere, MuereConSemaforo, Salta
  <2>4. CASE SendEntra(a)
    <3>1. marco'[b].prim = marco[b].prim
      BY <1>0, <1>3, <2>4, MarcoDeSend
    <3>2. pc[a] = "send" /\ pc' = [pc EXCEPT ![a] = "enviando"]
      BY <2>4 DEF SendEntra, Salta
    <3> QED
      BY <1>0, <3>1, <3>2
  <2>5. CASE SendTrozo(a)
    BY <1>0, <2>5 DEF SendTrozo
  <2>6. CASE SendReanuda(a)
    BY <1>0, <2>6 DEF SendReanuda, Salta
  <2> QED
    BY <1>3, <2>1, <2>2, <2>3, <2>4, <2>5, <2>6 DEF PasoApp
<1>4. ASSUME NEW n \in Nodos, PasoDemonio(n), ~ LlegaBarrera(n)
      PROVE  MarcoDe(b)'
  <2>1. n \in Procs
    BY TiposDeProceso
  <2> QED
    BY <1>0, <1>4, <2>1
    DEF PasoDemonio, DemonioCC, DemonioCR, DemonioCRSinTsap, DemonioMuere,
        DemonioOtro, MuereConSemaforo, AbreYSalta, Salta
<1>5. CASE RedDuplica
  BY <1>5 DEF RedDuplica
<1>6. ASSUME NEW p \in Procs, Matan(p) PROVE MarcoDe(b)'
  BY <1>0, <1>6 DEF Matan, Salta
<1>7. CASE UNCHANGED vars
  BY <1>7 DEF vars
<1> QED
  BY <1>1, <1>2, <1>3, <1>4, <1>5, <1>6, <1>7, TiposDeProceso DEF Next

LEMMA TiposPaso ==
  ASSUME TiposInv, [Next]_vars
  PROVE  TypeOK'
<1> USE DEF TiposInv
<1>1. ASSUME NEW a \in Apps, Llama(a) PROVE TypeOK'
  <2>1. CASE SendFueraMuere(a)
    BY <2>1, TiposDeProceso, MuereTipos DEF SendFueraMuere, TypeOK
  <2> QED
    BY <1>1, <2>1, IniciaConnectTipos, IniciaListenTipos, IniciaSendTipos, RechazosTipos
    DEF Llama
<1>2. ASSUME NEW a \in Apps, PasoApp(a) PROVE TypeOK'
  <2>1. a \in Procs
    BY TiposDeProceso
  <2>2. CASE ConnectMuere(a) \/ SendMuere(a)
    BY <2>1, <2>2, MuereTipos DEF ConnectMuere, SendMuere, TypeOK
  <2>3. CASE SendTermina(a)
    BY <2>3, SendTerminaTipos DEF SendTermina, MarcoPropio, MarcoDe
  <2> QED
    BY <1>2, <2>1, <2>2, <2>3, RechazosTipos, ConnectTipos, LeeTipos, ListenTipos,
       SemaforoEnvioTipos, SendTrozoTipos, BarreraTipos DEF PasoApp
<1>3. ASSUME NEW n \in Nodos, PasoDemonio(n) PROVE TypeOK'
  <2>1. n \in Procs
    BY TiposDeProceso
  <2>2. CASE DemonioMuere(n)
    <3>1. BolsaOK(red') /\ MuereConSemaforo(n)
      BY <2>2, QuitaBolsa DEF DemonioMuere, Recibe, TypeOK
    <3> QED
      BY <2>1, <3>1, MuereTipos
  <2> QED
    BY <1>3, <2>1, <2>2, DemonioCCTipos, DemonioCRTipos, DemonioCRSinTsapTipos,
       DemonioOtroTipos, BarreraTipos DEF PasoDemonio
<1>4. CASE UNCHANGED vars
  BY <1>4 DEF vars, tabla, listas, resultados, TypeOK
<1> QED
  BY <1>1, <1>2, <1>3, <1>4, RedDuplicaTipos, MatanTipos DEF Next

\* TiposInv holds at the start and is kept by every step.
LEMMA TiposInicio == Init => TiposInv
  BY IniTipos, TiposDeProceso DEF Init, TiposInv, MarcoPropio, MarcoDe

LEMMA TiposInvPaso == TiposInv /\ [Next]_vars => TiposInv'
  BY TiposPaso, MarcoPropioPaso DEF TiposInv

\* Every variable keeps its type; in particular every identifier that travels
\* in a datagram or is kept in a connection is an index of the table.
THEOREM Tipos == Spec => []TypeOK
<1>1. TiposInv => TypeOK
  BY DEF TiposInv
<1> QED
  BY <1>1, TiposInicio, TiposInvPaso, PTL DEF Spec

-----------------------------------------------------------------------------
(* The semaphore of t_send.  SemaforoDeQuienEnvia is inductive with the     *)
(* types: whoever closes a semaphore finds it open, so no other application *)
(* of the node is inside t_send's loop.                                     *)

SemaforoDe(b) ==
  /\ pc[b] = "enviando" => SEMAFORO[NodoDe[b]] = b
  /\ \A n \in Nodos : SEMAFORO[n] = b => /\ n = NodoDe[b]
                                         /\ pc[b] \in {"enviando", "muerta"}

\* A step that leaves the semaphores alone, and moves no process into the loop
\* of t_send nor out of it, keeps the invariant.
LEMMA SemaforoAparte ==
  ASSUME NEW b \in Apps, SemaforoDe(b), UNCHANGED SEMAFORO,
         \/ pc'[b] = pc[b]
         \/ pc[b] \notin {"enviando", "muerta"} /\ pc'[b] # "enviando"
  PROVE  SemaforoDe(b)'
BY DEF SemaforoDe

\* So does a process that finds the semaphore open and goes on, or dies, with it.
LEMMA SemaforoCerrado ==
  ASSUME TypeOK, NEW b \in Apps, SemaforoDe(b), NEW p \in Procs,
         Abierto(Nodo(p)), Cierra(p), NEW l \in {"enviando", "muerta"},
         pc' = [pc EXCEPT ![p] = l]
  PROVE  SemaforoDe(b)'
<1>1. b \in Procs /\ NodoDe[b] \in Nodos /\ Nodo(b) = NodoDe[b] /\ Nodo(p) \in Nodos
      /\ b # Nadie
  BY TiposDeProceso, SuposicionProcesos DEF Nodo
<1>2. SEMAFORO' = [SEMAFORO EXCEPT ![Nodo(p)] = p] /\ SEMAFORO[Nodo(p)] = Nadie
  BY DEF Cierra, Abierto
<1>3. CASE b = p
  BY <1>1, <1>2, <1>3 DEF SemaforoDe, TypeOK
<1>4. CASE b # p
  BY <1>1, <1>2, <1>4 DEF SemaforoDe, TypeOK
<1> QED
  BY <1>3, <1>4

\* Or that has sent and goes on, or dies before it opens.
LEMMA SemaforoTrasEnviar ==
  ASSUME TypeOK, NEW b \in Apps, SemaforoDe(b), NEW p \in Procs,
         Abierto(Nodo(p)), pc[p] \notin {"enviando", "muerta"}, NEW l, l # "enviando",
         AbreYSalta(p, l)
  PROVE  SemaforoDe(b)'
<1>1. CASE pc' = [pc EXCEPT ![p] = l] /\ SEMAFORO' = SEMAFORO
  <2>1. \/ pc'[b] = pc[b]
        \/ pc[b] \notin {"enviando", "muerta"} /\ pc'[b] # "enviando"
    BY <1>1, TiposDeProceso DEF TypeOK
  <2> QED
    BY <1>1, <2>1, SemaforoAparte
<1>2. CASE pc' = [pc EXCEPT ![p] = "muerta"] /\ SEMAFORO' = [SEMAFORO EXCEPT ![Nodo(p)] = p]
  BY <1>2, SemaforoCerrado DEF Cierra
<1> QED
  BY <1>1, <1>2, AbreYSaltaCasos

\* And an application that leaves the loop opening the semaphore.
LEMMA SemaforoAbierto ==
  ASSUME TypeOK, NEW b \in Apps, SemaforoDe(b), NEW a \in Apps,
         SemaforoDe(a), pc[a] = "enviando", Abre(a),
         NEW l \in {"fuera", "barrera"}, pc' = [pc EXCEPT ![a] = l]
  PROVE  SemaforoDe(b)'
<1>1. /\ a \in Procs /\ b \in Procs /\ NodoDe[b] \in Nodos /\ NodoDe[a] \in Nodos
      /\ Nodo(a) = NodoDe[a] /\ b # Nadie
  BY TiposDeProceso, SuposicionProcesos DEF Nodo
<1>2. SEMAFORO' = [SEMAFORO EXCEPT ![NodoDe[a]] = Nadie] /\ SEMAFORO[NodoDe[a]] = a
  BY <1>1 DEF Abre, SemaforoDe
<1> QED
  BY <1>1, <1>2 DEF SemaforoDe, TypeOK

LEMMA SemaforoBarrera ==
  ASSUME TypeOK, NEW b \in Apps, SemaforoDe(b), NEW p \in Procs, LlegaBarrera(p)
  PROVE  SemaforoDe(b)'
<1> DEFINE q == barC[Nodo(p)][celda[p]]
           f == [pc EXCEPT ![p] = TrasBarrera(p)]
<1>1. \A r : TrasBarrera(r) \in {"lee", "espera"}
  BY DEF TrasBarrera
<1>2. b \in Procs /\ pc \in [Procs -> PCsApp \cup PCsDemonio] /\ pc[p] = "barrera"
  BY TiposDeProceso DEF TypeOK, LlegaBarrera
<1>3. CASE q = Nadie
  BY <1>2, <1>3, SemaforoAparte DEF LlegaBarrera, Salta
<1>4. CASE q # Nadie
  <2>1. pc' = [f EXCEPT ![q] = IF @ = "dormida" THEN TrasBarrera(q) ELSE @]
    BY <1>4 DEF LlegaBarrera
  <2>2. /\ DOMAIN f = Procs
        /\ f[b] = pc[b] \/ (pc[b] = "barrera" /\ f[b] \in {"lee", "espera"})
    BY <1>1, <1>2
  <2> HIDE DEF f, q
  <2>3. \/ pc'[b] = pc[b]
        \/ pc[b] \notin {"enviando", "muerta"} /\ pc'[b] # "enviando"
    BY <1>1, <1>2, <2>1, <2>2
  <2> QED
    BY <2>3, SemaforoAparte DEF LlegaBarrera
<1> QED
  BY <1>3, <1>4

LEMMA SemaforoPaso ==
  ASSUME TypeOK, SemaforoDeQuienEnvia, [Next]_vars
  PROVE  SemaforoDeQuienEnvia'
<1> SUFFICES ASSUME NEW b \in Apps PROVE SemaforoDe(b)'
  BY DEF SemaforoDeQuienEnvia, SemaforoDe
<1>0. /\ b \in Procs /\ b \notin Nodos /\ pc \in [Procs -> PCsApp \cup PCsDemonio]
      /\ SemaforoDe(b)
  BY TiposDeProceso, SuposicionProcesos DEF TypeOK, SemaforoDeQuienEnvia, SemaforoDe
<1>1. ASSUME NEW a \in Apps, Llama(a) PROVE SemaforoDe(b)'
  <2>0. CASE SendFueraMuere(a)
    BY <1>0, <2>0, TiposDeProceso, SemaforoCerrado
    DEF SendFueraMuere, FueraDeTabla, MuereConSemaforo, Salta
  <2>1. CASE ~SendFueraMuere(a)
    <3>1. a \in Procs /\ pc[a] = "fuera" /\ UNCHANGED SEMAFORO
      BY <1>1, <2>1, TiposDeProceso
      DEF Llama, IniciaConnect, IniciaListen, IniciaSend, SendFuera, FueraDeTabla,
          LlamadaInvalida, Entra
    <3>2. \E l \in {"connect", "listen", "send", "fuera"} : pc' = [pc EXCEPT ![a] = l]
      BY <1>1, <2>1 DEF Llama, IniciaConnect, IniciaListen, IniciaSend, SendFuera,
                        LlamadaInvalida, Entra, Vuelve, Salta
    <3> QED
      BY <1>0, <3>1, <3>2, SemaforoAparte
  <2> QED
    BY <2>0, <2>1
<1>2. ASSUME NEW a \in Apps, PasoApp(a) PROVE SemaforoDe(b)'
  <2>0. a \in Procs /\ Nodo(a) = NodoDe[a] /\ SemaforoDe(a)
    BY TiposDeProceso DEF SemaforoDeQuienEnvia, SemaforoDe, Nodo
  <2>1. CASE ConnectRechaza(a) \/ ListenRechaza(a) \/ SendRechaza(a)
             \/ ConnectLee(a) \/ ListenLee(a)
    <3>1. /\ pc[a] \in {"connect", "listen", "send", "lee"}
          /\ UNCHANGED SEMAFORO /\ pc' = [pc EXCEPT ![a] = "fuera"]
      BY <2>1 DEF ConnectRechaza, ListenRechaza, SendRechaza, ConnectLee, ListenLee,
                  Vuelve, Salta
    <3> QED
      BY <1>0, <2>0, <3>1, SemaforoAparte
  <2>2. CASE ConnectReserva(a) \/ ListenReserva(a)
    <3>1. CASE ConnectReserva(a)
      BY <1>0, <2>0, <3>1, SemaforoTrasEnviar DEF ConnectReserva
    <3>2. CASE ListenReserva(a)
      BY <1>0, <2>0, <3>2, SemaforoAparte DEF ListenReserva, Salta
    <3> QED
      BY <2>2, <3>1, <3>2
  <2>3. CASE ConnectMuere(a)
    BY <1>0, <2>0, <2>3, SemaforoCerrado
    DEF ConnectMuere, MuereConSemaforo, Salta
  <2>4. CASE SendMuere(a)
    <3>1. SEMAFORO[NodoDe[a]] = a /\ SEMAFORO' = [SEMAFORO EXCEPT ![NodoDe[a]] = a]
      BY <2>0, <2>4 DEF SendMuere, MuereConSemaforo, Cierra, SemaforoDe
    <3>2. pc[a] = "enviando" /\ pc' = [pc EXCEPT ![a] = "muerta"]
      BY <2>4 DEF SendMuere, MuereConSemaforo, Salta
    <3> QED
      BY <1>0, <2>0, <3>1, <3>2 DEF SemaforoDe, TypeOK
  <2>5. CASE SendEntra(a) \/ SendReanuda(a)
    BY <1>0, <2>0, <2>5, SemaforoCerrado DEF SendEntra, SendReanuda, Salta
  <2>6. CASE SendTrozo(a)
    BY <1>0, <2>6, SemaforoAparte DEF SendTrozo
  <2>7. CASE SendDuerme(a)
    BY <1>0, <2>0, <2>7, SemaforoAbierto DEF SendDuerme, Salta
  <2>8. CASE SendTermina(a)
    BY <1>0, <2>0, <2>8, SemaforoAbierto DEF SendTermina, Vuelve, Salta
  <2>9. CASE LlegaBarrera(a)
    BY <1>0, <2>0, <2>9, SemaforoBarrera
  <2> QED
    BY <1>2, <2>1, <2>2, <2>3, <2>4, <2>5, <2>6, <2>7, <2>8, <2>9 DEF PasoApp
<1>3. ASSUME NEW n \in Nodos, PasoDemonio(n) PROVE SemaforoDe(b)'
  <2>0. n \in Procs /\ Nodo(n) = n /\ n # b
    BY <1>0, TiposDeProceso, SuposicionProcesos DEF Nodo
  <2>1. CASE DemonioCC(n) \/ DemonioCR(n) \/ DemonioCRSinTsap(n)
    <3>1. CASE DemonioCC(n)
      BY <1>0, <2>0, <3>1, SemaforoAparte DEF DemonioCC, Salta
    <3>2. CASE DemonioCR(n) \/ DemonioCRSinTsap(n)
      <4>1. /\ pc[n] = "espera" /\ Abierto(n)
            /\ AbreYSalta(n, "barrera") \/ AbreYSalta(n, "colgada")
        BY <3>2 DEF DemonioCR, DemonioCRSinTsap, RecibeYContesta
      <4> QED
        BY <1>0, <2>0, <4>1, SemaforoTrasEnviar
    <3> QED
      BY <2>1, <3>1, <3>2
  <2>2. CASE DemonioMuere(n)
    <3>1. Abierto(n) /\ Cierra(n) /\ pc' = [pc EXCEPT ![n] = "muerta"]
      BY <2>2 DEF DemonioMuere, Recibe, MuereConSemaforo, Salta
    <3> QED
      BY <1>0, <2>0, <3>1, SemaforoCerrado
  <2>3. CASE DemonioOtro(n)
    <3>1. SEMAFORO' = [SEMAFORO EXCEPT ![n] = n] /\ UNCHANGED pc /\ SEMAFORO[n] = Nadie
      BY <2>0, <2>3 DEF DemonioOtro, Recibe, Cierra, Abierto
    <3>2. b # Nadie
      BY SuposicionProcesos
    <3> QED
      BY <1>0, <2>0, <3>1, <3>2 DEF SemaforoDe, TypeOK
  <2>4. CASE LlegaBarrera(n)
    BY <1>0, <2>0, <2>4, SemaforoBarrera
  <2> QED
    BY <1>3, <2>1, <2>2, <2>3, <2>4 DEF PasoDemonio
<1>4. CASE RedDuplica
  BY <1>0, <1>4, SemaforoAparte DEF RedDuplica
<1>5. ASSUME NEW p \in Procs, Matan(p) PROVE SemaforoDe(b)'
  <2>1. CASE UNCHANGED SEMAFORO
    BY <1>0, <1>5, <2>1 DEF Matan, Salta, SemaforoDe
  <2>2. CASE Abierto(Nodo(p)) /\ Cierra(p)
    BY <1>0, <1>5, <2>2, SemaforoCerrado DEF Matan, Salta
  <2> QED
    BY <1>5, <2>1, <2>2 DEF Matan
<1>6. CASE UNCHANGED vars
  BY <1>0, <1>6, SemaforoAparte DEF vars
<1> QED
  BY <1>1, <1>2, <1>3, <1>4, <1>5, <1>6 DEF Next

\* An application in the loop of t_send has the semaphore of its node, and no
\* living application has a semaphore anywhere else.
THEOREM SemaforoSeguro == Spec => []SemaforoDeQuienEnvia
<1>1. Init => SemaforoDeQuienEnvia
  <2> SUFFICES ASSUME Init, NEW a \in Apps PROVE SemaforoDe(a)
    BY DEF SemaforoDeQuienEnvia, SemaforoDe
  <2>1. a \in Procs /\ a # Nadie
    BY TiposDeProceso, SuposicionProcesos
  <2> QED
    BY <2>1 DEF Init, SemaforoDe
<1>2. TypeOK /\ SemaforoDeQuienEnvia /\ [Next]_vars => SemaforoDeQuienEnvia'
  BY SemaforoPaso
<1> QED
  BY <1>1, <1>2, Tipos, PTL DEF Spec

-----------------------------------------------------------------------------
(* Local ports.  PuertosUnicos needs that a port is the same number in a     *)
(* t_direccion and in a cell: the ports of the calls are at most 32767.      *)

Bajo(p) == p \in Nat /\ p <= 32767
PuertosBajos == \A t \in Origenes \cup Escuchas : Bajo(t.puerto)

\* The local port of a call is a port of the caller's, or one of the system's;
\* t_send has it from the cell.
MarcoBajo(m) == m.prim # "send" => Bajo(m.orig.puerto)
MarcosBajos == \A a \in Apps : MarcoBajo(marco[a])

LEMMA MarcosBajosPaso ==
  ASSUME PuertosBajos, TypeOK, MarcoPropio, MarcosBajos, [Next]_vars
  PROVE  MarcosBajos'
<1> SUFFICES ASSUME NEW b \in Apps PROVE MarcoBajo(marco'[b])
  BY DEF MarcosBajos
<1> USE DEF MarcoBajo
<1>0. marco \in [Apps -> Marco] /\ MarcoBajo(marco[b])
  BY DEF TypeOK, MarcosBajos
<1>1. MarcoBajo(MarcoNulo)
  BY DEF MarcoNulo, TsapNulo, Bajo
<1>2. ASSUME NEW a \in Apps, Llama(a) PROVE MarcoBajo(marco'[b])
  <2>1. CASE IniciaConnect(a)
    <3>1. PICK d \in Destinos, o \in Origenes :
            \E p \in IF o.puerto # 0 THEN {o.puerto}
                     ELSE buscar_puerto_libre(CXs[NodoDe[a]]) :
              Entra(a, "connect",
                  [prim |-> "connect", dest |-> d, resta |-> 0, hechos |-> 0,
                   orig |-> [ConIPLocal(NodoDe[a], o) EXCEPT !.puerto = p]])
      BY <2>1 DEF IniciaConnect
    <3>2. PICK p \in IF o.puerto # 0 THEN {o.puerto}
                     ELSE buscar_puerto_libre(CXs[NodoDe[a]]) :
              marco' = [marco EXCEPT ![a] =
                  [prim |-> "connect", dest |-> d, resta |-> 0, hechos |-> 0,
                   orig |-> [ConIPLocal(NodoDe[a], o) EXCEPT !.puerto = p]]]
      BY <3>1 DEF Entra
    <3>3. Bajo(p)
      <4>1. CASE o.puerto # 0
        BY <3>2, <4>1 DEF PuertosBajos
      <4>2. CASE o.puerto = 0
        <5>1. p \in buscar_puerto_libre(CXs[NodoDe[a]])
          BY <3>2, <4>2
        <5>2. p \in Nat /\ p <= 32767
          BY <5>1, PuertoLibreRango
        <5> QED
          BY <5>2 DEF Bajo
      <4> QED
        BY <4>1, <4>2
    <3>4. ConIPLocal(NodoDe[a], o) \in [ip : IPs, puerto : Int16]
      BY SuposicionEntradas, TiposDeProceso DEF ConIPLocal, Tsap, IPs
    <3>5. [ConIPLocal(NodoDe[a], o) EXCEPT !.puerto = p].puerto = p
      BY <3>4
    <3> QED
      BY <1>0, <3>2, <3>3, <3>5
  <2>2. CASE IniciaListen(a)
    <3>1. PICK e \in Escuchas, r \in Remotas :
            marco' = [marco EXCEPT ![a] =
                [prim |-> "listen", orig |-> ConIPLocal(NodoDe[a], e), dest |-> r,
                 resta |-> 0, hechos |-> 0]]
      BY <2>2 DEF IniciaListen, Entra
    <3>2. ConIPLocal(NodoDe[a], e).puerto = e.puerto
      BY SuposicionEntradas DEF ConIPLocal, Tsap
    <3> QED
      BY <1>0, <3>1, <3>2 DEF PuertosBajos
  <2>3. CASE IniciaSend(a)
    BY <1>0, <1>1, <2>3 DEF IniciaSend, Entra
  <2>4. CASE LlamadaInvalida(a) \/ SendFuera(a) \/ SendFueraMuere(a)
    BY <1>0, <1>1, <2>4 DEF LlamadaInvalida, SendFuera, SendFueraMuere, MuereConSemaforo, Vuelve
  <2> QED
    BY <1>2, <2>1, <2>2, <2>3, <2>4 DEF Llama
<1>3. ASSUME NEW a \in Apps, PasoApp(a) PROVE MarcoBajo(marco'[b])
  <2>1. CASE ConnectRechaza(a) \/ ListenRechaza(a) \/ SendRechaza(a)
             \/ ConnectLee(a) \/ ListenLee(a) \/ SendTermina(a)
    BY <1>0, <1>1, <2>1 DEF ConnectRechaza, ListenRechaza, SendRechaza, ConnectLee,
                            ListenLee, SendTermina, Vuelve
  <2>2. CASE SendTrozo(a)
    <3> DEFINE f == [marco EXCEPT ![a].resta = @ - 1]
    <3>1. marco' = [f EXCEPT ![a].hechos = @ + 1]
      BY <2>2 DEF SendTrozo
    <3>2. f \in [Apps -> [prim : {"connect", "listen", "send"}, orig : Tsap,
                          dest : Tsap, resta : Int, hechos : Nat]]
      BY <1>0 DEF Marco
    <3>3. f[b].orig = marco[b].orig /\ f[b].prim = marco[b].prim
      BY <1>0 DEF Marco
    <3> HIDE DEF f
    <3>4. marco'[b].orig = f[b].orig /\ marco'[b].prim = f[b].prim
      BY <3>1, <3>2
    <3> QED
      BY <1>0, <3>3, <3>4
  <2>3. CASE ConnectReserva(a) \/ ConnectMuere(a) \/ ListenReserva(a)
             \/ SendMuere(a) \/ SendDuerme(a) \/ SendReanuda(a) \/ LlegaBarrera(a)
    BY <1>0, <2>3 DEF ConnectReserva, ConnectMuere, ListenReserva, SendMuere,
                      SendDuerme, SendReanuda, LlegaBarrera, MuereConSemaforo
  <2>4. CASE SendEntra(a)
    <3>1. marco[a].prim = "send"
      BY <2>4 DEF SendEntra, MarcoPropio, MarcoDe
    <3>2. /\ marco'[b].prim = marco[b].prim
          /\ b # a => marco'[b] = marco[b]
      BY <1>3, <2>4, MarcoDeSend
    <3> QED
      BY <1>0, <3>1, <3>2
  <2> QED
    BY <1>3, <2>1, <2>2, <2>3, <2>4 DEF PasoApp
<1>4. ASSUME NEW n \in Nodos, PasoDemonio(n) PROVE MarcoBajo(marco'[b])
  BY <1>0, <1>4 DEF PasoDemonio, DemonioCC, DemonioCR, DemonioCRSinTsap, DemonioMuere,
                    DemonioOtro, LlegaBarrera, MuereConSemaforo
<1>5. CASE RedDuplica \/ (\E p \in Procs : Matan(p)) \/ UNCHANGED vars
  BY <1>0, <1>5 DEF RedDuplica, Matan, vars
<1> QED
  BY <1>2, <1>3, <1>4, <1>5 DEF Next

\* A step that keeps the local port of every cell keeps the invariant,
LEMMA PuertosIguales ==
  ASSUME PuertosUnicos,
         \A n \in Nodos, i \in Celdas : CXs'[n][i].puerto_origen = CXs[n][i].puerto_origen
  PROVE  PuertosUnicos'
BY DEF PuertosUnicos

\* so does one that writes a cell without changing its port,
LEMMA PuertoIgual ==
  ASSUME TypeOK, PuertosUnicos, NEW n \in Nodos, NEW i \in Celdas, NEW c,
         CXs' = [CXs EXCEPT ![n][i] = c], c.puerto_origen = CXs[n][i].puerto_origen
  PROVE  PuertosUnicos'
<1>1. \A k \in Nodos, j \in Celdas : CXs'[k][j].puerto_origen = CXs[k][j].puerto_origen
  BY DEF TypeOK
<1> QED
  BY <1>1, PuertosIguales

\* and one that gives a cell a port that no cell of the node has.
LEMMA PuertoNuevo ==
  ASSUME TypeOK, PuertosUnicos, NEW n \in Nodos, NEW i \in Celdas, NEW c,
         CXs' = [CXs EXCEPT ![n][i] = c],
         \A j \in Celdas : CXs[n][j].puerto_origen # c.puerto_origen
  PROVE  PuertosUnicos'
BY DEF TypeOK, PuertosUnicos

\* The port of a call and the port of the cell it takes are the same number.
LEMMA PuertoBajo == \A p : Bajo(p) => AUint16(p) = p
<1>1. \A p \in Nat : p <= 32767 => p % 65536 = p
  OBVIOUS
<1> QED
  BY <1>1 DEF AUint16, Bajo

LEMMA PuertosPaso ==
  ASSUME TypeOK, MarcoPropio, MarcosBajos, PuertosUnicos, [Next]_vars
  PROVE  PuertosUnicos'
<1>1. ASSUME NEW a \in Apps, Llama(a) PROVE PuertosUnicos'
  BY <1>1, PuertosIguales
  DEF Llama, IniciaConnect, IniciaListen, IniciaSend, SendFuera, SendFueraMuere,
      MuereConSemaforo, LlamadaInvalida, tabla
<1>2. ASSUME NEW a \in Apps, PasoApp(a) PROVE PuertosUnicos'
  <2> DEFINE n == NodoDe[a]
             i == buscar_celda_libre(CXs[n])
  <2>0. n \in Nodos /\ i \in Celdas /\ a \in Procs /\ CXs[n][i] \in Conexion
    BY TiposDeProceso, CeldaLibreEsCelda DEF TypeOK
  <2>1. CASE ConnectReserva(a)
    <3> DEFINE c == CeldaConnect(CXs[n][i], a, MeteEnTX(CXs[n][i].TX, n, a, RotaAlQuitar(n)))
    <3>1. ~ buscar_connect_repetido(CXs[n], marco[a].orig, marco[a].dest)
      BY <2>1 DEF ConnectReserva, ErrorConnect, EXCDUP, EXOK, EXMAXC
    <3>2. \A j \in Celdas : CXs[n][j].puerto_origen # marco[a].orig.puerto
      BY <3>1 DEF buscar_connect_repetido, MismoPuerto
    <3>3. c.puerto_origen = marco[a].orig.puerto
      <4>1. Bajo(marco[a].orig.puerto)
        BY <2>1 DEF ConnectReserva, MarcoPropio, MarcoDe, MarcosBajos, MarcoBajo
      <4> QED
        BY <2>0, <4>1, PuertoBajo DEF CeldaConnect, Conexion
    <3>4. CXs' = [CXs EXCEPT ![n][i] = c]
      BY <2>1 DEF ConnectReserva
    <3>5. \A j \in Celdas : CXs[n][j].puerto_origen # c.puerto_origen
      BY <3>2, <3>3
    <3> HIDE DEF c, i, n
    <3> QED
      BY <2>0, <3>4, <3>5, PuertoNuevo
  <2>2. CASE ListenReserva(a)
    <3> DEFINE c == CeldaListen(CXs[n][i], a)
    <3>1. ~ buscar_listen_repetido(CXs[n], marco[a].orig)
      BY <2>2 DEF ListenReserva, ErrorListen, EXCDUP, EXOK, EXMAXC
    <3>2. \A j \in Celdas : CXs[n][j].puerto_origen # marco[a].orig.puerto
      BY <3>1 DEF buscar_listen_repetido, MismoPuerto
    <3>3. c.puerto_origen = marco[a].orig.puerto
      <4>1. Bajo(marco[a].orig.puerto)
        BY <2>2 DEF ListenReserva, MarcoPropio, MarcoDe, MarcosBajos, MarcoBajo
      <4> QED
        BY <2>0, <4>1, PuertoBajo DEF CeldaListen, Conexion
    <3>4. CXs' = [CXs EXCEPT ![n][i] = c]
      BY <2>2 DEF ListenReserva
    <3>5. \A j \in Celdas : CXs[n][j].puerto_origen # c.puerto_origen
      BY <3>2, <3>3
    <3> HIDE DEF c, i, n
    <3> QED
      BY <2>0, <3>4, <3>5, PuertoNuevo
  <2>3. CASE SendTrozo(a)
    <3> DEFINE j == celda[a]
               tx == MeteEnTX(CXs[n][j].TX, n, a, rotas[n])
    <3>1. j \in Celdas /\ CXs[n][j] \in Conexion
      BY <2>0 DEF TypeOK
    <3>2. CXs' = [CXs EXCEPT ![n][j].TX = tx]
      BY <2>3 DEF SendTrozo
    <3> HIDE DEF j, n, tx
    <3>3. \A k \in Nodos, l \in Celdas :
            CXs'[k][l].puerto_origen = CXs[k][l].puerto_origen
      BY <2>0, <3>1, <3>2 DEF TypeOK, Conexion
    <3> QED
      BY <3>3, PuertosIguales
  <2>4. CASE UNCHANGED CXs
    BY <2>4, PuertosIguales
  <2> QED
    BY <1>2, <2>1, <2>2, <2>3, <2>4
    DEF PasoApp, ConnectRechaza, ConnectMuere, ConnectLee, ListenRechaza, ListenLee,
        SendRechaza, SendEntra, SendMuere, SendDuerme, SendReanuda, SendTermina,
        LlegaBarrera, MuereConSemaforo, tabla
<1>3. ASSUME NEW n \in Nodos, PasoDemonio(n) PROVE PuertosUnicos'
  <2>1. CASE DemonioCC(n)
    <3>1. PICK m \in DOMAIN red :
            LET t == m.tpdu
                i == t.id_destino
                rota == RotaAlConfirmar(n, CXs[n][i])
            IN  \/ CXs' = [CXs EXCEPT ![n][i] = CeldaRechazada(@, t)]
                \/ CXs' = [CXs EXCEPT ![n][i] = CeldaConfirmada(@, t, rota)]
      BY <2>1 DEF DemonioCC
    <3> DEFINE t == m.tpdu
               i == t.id_destino
               rota == RotaAlConfirmar(n, CXs[n][i])
    <3>2. i \in Celdas
      BY DEF TypeOK, BolsaOK, TpduOK, Tpdu
    <3>3. CXs[n][i] \in Conexion
      BY <3>2 DEF TypeOK
    <3>4. \E c : /\ CXs' = [CXs EXCEPT ![n][i] = c]
                 /\ c.puerto_origen = CXs[n][i].puerto_origen
      <4>1. CeldaRechazada(CXs[n][i], t).puerto_origen = CXs[n][i].puerto_origen
        BY <3>3 DEF CeldaRechazada, Conexion
      <4>2. CeldaConfirmada(CXs[n][i], t, rota).puerto_origen = CXs[n][i].puerto_origen
        BY <3>3 DEF CeldaConfirmada, Conexion
      <4> QED
        BY <3>1, <4>1, <4>2
    <3> HIDE DEF i
    <3> QED
      BY <3>2, <3>4, PuertoIgual
  <2>2. CASE DemonioCR(n)
    <3>1. PICK m \in DOMAIN red :
            LET i == asign_conexion_CR(CXs[n], m.tpdu)
            IN  i # EXNOTSAP /\ CXs' = [CXs EXCEPT ![n][i] = CeldaAceptada(@, m)]
      BY <2>2 DEF DemonioCR
    <3> DEFINE i == asign_conexion_CR(CXs[n], m.tpdu)
    <3>2. i \in Celdas
      BY <3>1, AsignaCandidata DEF Candidatas
    <3>3. CXs[n][i] \in Conexion
      BY <3>2 DEF TypeOK
    <3>4. CeldaAceptada(CXs[n][i], m).puerto_origen = CXs[n][i].puerto_origen
      BY <3>3 DEF CeldaAceptada, Conexion
    <3>5. CXs' = [CXs EXCEPT ![n][i] = CeldaAceptada(CXs[n][i], m)]
      BY <3>1
    <3> HIDE DEF i
    <3> QED
      BY <3>2, <3>4, <3>5, PuertoIgual
  <2>3. CASE UNCHANGED CXs
    BY <2>3, PuertosIguales
  <2> QED
    BY <1>3, <2>1, <2>2, <2>3
    DEF PasoDemonio, DemonioCRSinTsap, DemonioMuere, DemonioOtro, LlegaBarrera,
        MuereConSemaforo, tabla
<1>4. CASE RedDuplica \/ (\E p \in Procs : Matan(p)) \/ UNCHANGED vars
  BY <1>4, PuertosIguales DEF RedDuplica, Matan, vars, tabla
<1> QED
  BY <1>1, <1>2, <1>3, <1>4 DEF Next

\* When the calls name ports up to 32767, no two cells of a node have the same
\* local port, whatever is chosen before the semaphore is closed.
THEOREM PuertosSeguros ==
  ASSUME PuertosBajos
  PROVE  Spec => []PuertosUnicos
<1> DEFINE Inv == TiposInv /\ MarcosBajos /\ PuertosUnicos
<1>1. Init => Inv
  BY TiposInicio
  DEF Init, MarcosBajos, MarcoBajo, Bajo, MarcoNulo, TsapNulo, PuertosUnicos, CeldaInicial
<1>2. Inv /\ [Next]_vars => Inv'
  BY TiposInvPaso, MarcosBajosPaso, PuertosPaso DEF TiposInv
<1>3. Inv => PuertosUnicos
  OBVIOUS
<1> QED
  BY <1>1, <1>2, <1>3, PTL DEF Spec

=============================================================================
