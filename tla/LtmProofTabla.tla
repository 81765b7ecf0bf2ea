--------------------------- MODULE LtmProofTabla ----------------------------
(***************************************************************************)
(* The connection table and the datagrams in transit, for every value of    *)
(* the constants: what each step does to a cell, to a CR or a CC in transit  *)
(* and to a call, and the invariant that the sessions rest on.              *)
(*                                                                         *)
(* The cells of one node only make sense next to the datagrams in transit   *)
(* and the cells of the others.  The invariant that is inductive says what  *)
(* a CR and a CC in transit, however old and however often duplicated, say  *)
(* of the two cells they name.                                              *)
(***************************************************************************)
EXTENDS LtmProofCuenta

\* A daemon that finds no listener dies at CXs[EXNOTSAP] (the segment has
\* nothing mapped below it) before its refusal leaves.
RechazoMata == "cuelga" \notin SalidasIndice

\* A free cell is one that was never used: nothing gives a cell back.
LibreVacia ==
  \A n \in Nodos, i \in Celdas : ~ EnUso(n, i) => CXs[n][i] = CeldaInicial

\* An occupied cell has a local port.
ConPuerto ==
  \A n \in Nodos, i \in Celdas : EnUso(n, i) => CXs[n][i].puerto_origen # 0

Establecida(n, i) == CXs[n][i].estado_cx = ESTABLISHED

\* The loop of t_send, and its waits, are those of an established cell.
EnvioVivo(a) ==
  (\/ pc[a] = "enviando"
   \/ marco[a].prim = "send" /\ pc[a] \in {"barrera", "dormida", "lee"})
  => Establecida(NodoDe[a], celda[a])
EnviosVivos == \A a \in Apps : EnvioVivo(a)

\* A call that is about to reserve a cell has passed comprobar_parametros.
MarcoListo(a) ==
  /\ pc[a] \in {"connect", "listen"} => marco[a].orig.puerto # 0
  /\ pc[a] = "connect" => DestinoValido(marco[a].dest)
MarcosListos == \A a \in Apps : MarcoListo(a)

\* No refusal is in transit.
SinRechazos == \A m \in DOMAIN red : m.tpdu.conexion_aceptada # EXNOTSAP

\* A CR in transit speaks for a cell that asked for what it says, whether it
\* has been answered since or not.
PeticionViva(m) ==
  LET c == CXs[m.de][m.tpdu.id_local]
  IN  /\ c.estado_cx \in {CONNECT, ESTABLISHED}
      /\ c.ip_local = m.tpdu.ip_local /\ c.puerto_origen = m.tpdu.puerto_orig
      /\ c.ip_destino = m.a /\ c.puerto_destino = m.tpdu.puerto_dest
      /\ m.tpdu.ip_destino = m.a
PeticionesVivas == \A m \in DOMAIN red : m.tpdu.tipo = CR => PeticionViva(m)

\* A CC in transit is for a cell that asked.
RespuestaViva(m) ==
  CXs[m.a][m.tpdu.id_destino].estado_cx \in {CONNECT, ESTABLISHED}
RespuestasVivas == \A m \in DOMAIN red : m.tpdu.tipo = CC => RespuestaViva(m)

\* The table, whoever may be killed and whatever may be lost or duplicated.
TablaInv ==
  /\ CuentaInv /\ LibreVacia /\ ConPuerto /\ MarcosListos /\ EnviosVivos
  /\ SinRechazos /\ PeticionesVivas /\ RespuestasVivas

-----------------------------------------------------------------------------
(* What any step does to the cells and to the requests in transit.          *)

\* The two cells differ in their buffers at most.
MismaSalvoTX(c, d) ==
  /\ d.ap_pid = c.ap_pid /\ d.celda_ocupada = c.celda_ocupada
  /\ d.estado_cx = c.estado_cx /\ d.resultado_peticion = c.resultado_peticion
  /\ d.ip_local = c.ip_local /\ d.puerto_origen = c.puerto_origen
  /\ d.ip_destino = c.ip_destino /\ d.puerto_destino = c.puerto_destino
  /\ d.id_destino = c.id_destino

\* No buffer leaves a cell, and only those of established cells may grow.
SoloBuffers ==
  \A n \in Nodos, i \in Celdas :
    /\ MismaSalvoTX(CXs[n][i], CXs'[n][i])
    /\ ~ Establecida(n, i) => CXs'[n][i] = CXs[n][i]

\* Datagrams that are not new, or that nobody takes for a CR or a CC.
Inerte(m) == m.tpdu.tipo \notin {CR, CC} /\ m.tpdu.conexion_aceptada # EXNOTSAP
SinPeticionNueva == \A m \in DOMAIN red' : m \in DOMAIN red \/ Inerte(m)

LEMMA BasuraInerte == ASSUME NEW m, m.tpdu = TpduBasura PROVE Inerte(m)
BY DEF Inerte, TpduBasura, CR, CC, EXNOTSAP

\* Where a TPDU goes.
A(n, ip) == IF ip = IPNula THEN n ELSE ip

\* Sending adds one datagram at most.
LEMMA EnviaUno ==
  ASSUME NEW bolsa, NEW n, NEW ip, NEW t, NEW s, Envia(bolsa, n, ip, t, s)
  PROVE  \A m \in DOMAIN red' :
           \/ m \in DOMAIN bolsa
           \/ m = [de |-> n, a |-> A(n, ip), tpdu |-> t]
           \/ Inerte(m)
<1> DEFINE x == [de |-> n, a |-> A(n, ip), tpdu |-> IF s = "basura" THEN TpduBasura ELSE t]
<1>1. red' = ConPaquete(bolsa, x) \/ red' = bolsa
  BY DEF Envia, A
<1>2. x = [de |-> n, a |-> A(n, ip), tpdu |-> t] \/ Inerte(x)
  BY BasuraInerte
<1> HIDE DEF x
<1>3. DOMAIN ConPaquete(bolsa, x) = DOMAIN bolsa \cup {x}
  BY DEF ConPaquete, (+), SetToBag
<1> QED
  BY <1>1, <1>2, <1>3

LEMMA QuitaUno ==
  ASSUME NEW bolsa, NEW m
  PROVE  DOMAIN SinPaquete(bolsa, m) \subseteq DOMAIN bolsa
BY DEF SinPaquete, (-), SetToBag

LEMMA MismasCeldas == ASSUME UNCHANGED CXs PROVE SoloBuffers
BY DEF SoloBuffers, MismaSalvoTX

LEMMA SendTrozoQuieto ==
  ASSUME TiposInv, EnviosVivos, NEW a \in Apps, SendTrozo(a)
  PROVE  SoloBuffers /\ SinPeticionNueva
<1> DEFINE n == NodoDe[a]
           i == celda[a]
           tx == MeteEnTX(CXs[n][i].TX, n, a, rotas[n])
<1>1. n \in Nodos /\ i \in Celdas /\ a \in Procs
  BY TiposDeProceso DEF TiposInv, TypeOK
<1>2. CXs' = [CXs EXCEPT ![n][i].TX = tx]
  BY DEF SendTrozo
<1>3. Establecida(n, i)
  BY DEF SendTrozo, EnviosVivos, EnvioVivo
<1>4. \E ip, c, s : Envia(red, n, ip, TpduDatos(marco[a], c, i), s)
  BY DEF SendTrozo
<1> HIDE DEF n, i, tx
<1>5. SoloBuffers
  BY <1>1, <1>2, <1>3 DEF SoloBuffers, MismaSalvoTX, Establecida, TiposInv, TypeOK, Conexion
<1>6. \A x, c : Inerte([de |-> n, a |-> x, tpdu |-> TpduDatos(marco[a], c, i)])
  BY DEF Inerte, TpduDatos, crear_pkt, DATOS, CR, CC, EXOK, EXNOTSAP
<1>7. SinPeticionNueva
  BY <1>4, <1>6, EnviaUno DEF SinPeticionNueva
<1> QED
  BY <1>5, <1>7

\* Every other step leaves them alone, or is one of these four.
LEMMA PasosDeLaTabla ==
  ASSUME RechazoMata, TiposInv, EnviosVivos, [Next]_vars
  PROVE  \/ /\ SoloBuffers /\ SinPeticionNueva
            /\ UNCHANGED CXs \/ \E a \in Apps : SendTrozo(a)
         \/ \E a \in Apps : ConnectReserva(a) \/ ListenReserva(a)
         \/ \E n \in Nodos : DemonioCC(n) \/ DemonioCR(n)
<1> DEFINE P == /\ SoloBuffers /\ SinPeticionNueva
                /\ UNCHANGED CXs \/ \E a \in Apps : SendTrozo(a)
<1>1. UNCHANGED CXs /\ DOMAIN red' \subseteq DOMAIN red => P
  BY MismasCeldas DEF SinPeticionNueva
<1>2. ASSUME NEW a \in Apps, Llama(a) PROVE P
  <2>1. UNCHANGED <<CXs, red>>
    BY <1>2 DEF Llama, IniciaConnect, IniciaListen, IniciaSend, SendFuera, SendFueraMuere,
                MuereConSemaforo, LlamadaInvalida, tabla
  <2> QED
    BY <1>1, <2>1
<1>3. ASSUME NEW a \in Apps, PasoApp(a), ~ ConnectReserva(a), ~ ListenReserva(a)
      PROVE  P
  <2>1. CASE SendTrozo(a)
    BY <2>1, SendTrozoQuieto
  <2>2. CASE UNCHANGED <<CXs, red>>
    BY <1>1, <2>2
  <2> QED
    BY <1>3, <2>1, <2>2
    DEF PasoApp, ConnectRechaza, ConnectMuere, ConnectLee, ListenRechaza, ListenLee,
        SendRechaza, SendEntra, SendMuere, SendDuerme, SendReanuda, SendTermina,
        LlegaBarrera, MuereConSemaforo, tabla
<1>4. ASSUME NEW n \in Nodos, PasoDemonio(n), ~ DemonioCC(n), ~ DemonioCR(n) PROVE P
  <2>1. DemonioMuere(n) \/ DemonioOtro(n) \/ LlegaBarrera(n)
    BY <1>4 DEF PasoDemonio, DemonioCRSinTsap, RechazoMata
  <2>2. UNCHANGED CXs
    BY <2>1 DEF DemonioMuere, DemonioOtro, LlegaBarrera, MuereConSemaforo, tabla
  <2>3. red' = red \/ \E m : red' = SinPaquete(red, m)
    BY <2>1 DEF DemonioMuere, DemonioOtro, LlegaBarrera, Recibe
  <2> QED
    BY <1>1, <2>2, <2>3, QuitaUno
<1>5. CASE RedDuplica
  <2>1. PICK m \in DOMAIN red : red' = ConPaquete(red, m)
    BY <1>5 DEF RedDuplica
  <2>2. DOMAIN red' \subseteq DOMAIN red
    BY <2>1 DEF ConPaquete, (+), SetToBag
  <2> QED
    BY <1>1, <1>5, <2>2 DEF RedDuplica, tabla
<1>6. CASE (\E p \in Procs : Matan(p)) \/ UNCHANGED vars
  BY <1>1, <1>6 DEF Matan, vars, tabla
<1> QED
  BY <1>2, <1>3, <1>4, <1>5, <1>6 DEF Next

\* Cell i of node n is the only one that a step writes.
SoloCelda(n, i) ==
  \A k \in Nodos, j \in Celdas : k # n \/ j # i => CXs'[k][j] = CXs[k][j]

LEMMA UnaSola ==
  ASSUME TypeOK, NEW n \in Nodos, NEW i \in Celdas, NEW c,
         CXs' = [CXs EXCEPT ![n][i] = c]
  PROVE  SoloCelda(n, i) /\ CXs'[n][i] = c
BY DEF TypeOK, SoloCelda

\* num_CXs below its maximum means a free cell.
LEMMA HayLibre ==
  ASSUME CuentaInv, NEW n \in Nodos, num_CXs[n] # NUM_MAX_CXs
  PROVE  Libres(CXs[n]) # {}
<1>1. Cardinality(Ocupadas(CXs[n])) <= num_CXs[n] /\ num_CXs[n] <= NUM_MAX_CXs
  BY OcupadasContadas DEF OcupacionContada
<1>2. num_CXs[n] \in Int /\ NUM_MAX_CXs \in Nat \ {0}
  BY SuposicionCotas DEF CuentaInv, TiposInv, TypeOK
<1>3. IsFiniteSet(Celdas) /\ Cardinality(Celdas) = NUM_MAX_CXs
  BY <1>2, FS_Interval DEF Celdas
<1>4. Ocupadas(CXs[n]) # Celdas
  <2>1. Cardinality(Ocupadas(CXs[n])) \in Nat
    BY <1>3, FS_Subset, FS_CardinalityType DEF Ocupadas
  <2> QED
    BY <1>1, <1>2, <1>3, <2>1
<1> QED
  BY <1>4 DEF Libres, Ocupadas

\* The cell that a call reserves, and what it writes there.
Reservada(c, a) ==
  /\ c.ap_pid = a /\ c.celda_ocupada = 1
  /\ c.ip_local = marco[a].orig.ip /\ c.ip_destino = marco[a].dest.ip
  /\ c.puerto_origen = AUint16(marco[a].orig.puerto)
  /\ c.puerto_destino = AUint16(marco[a].dest.puerto)
Reserva(a, i) ==
  /\ pc[a] \in {"connect", "listen"}
  /\ i \in Celdas /\ ~ EnUso(NodoDe[a], i)
  /\ SoloCelda(NodoDe[a], i) /\ Reservada(CXs'[NodoDe[a]][i], a)
  /\ celda' = [celda EXCEPT ![a] = i]
  /\ \E l \in {"barrera", "muerta"} : pc' = [pc EXCEPT ![a] = l]
  /\ UNCHANGED <<marco, id, barC>>

LEMMA ConnectHace ==
  ASSUME CuentaInv, LibreVacia, MarcosListos, NEW a \in Apps, ConnectReserva(a)
  PROVE  \E i \in Celdas :
           /\ Reserva(a, i)
           /\ CXs'[NodoDe[a]][i].estado_cx = CONNECT
           /\ CXs'[NodoDe[a]][i].TX # <<>> /\ Len(CXs'[NodoDe[a]][i].TX) = 1
           /\ \A m \in DOMAIN red' :
                m \in DOMAIN red \/ Inerte(m)
                \/ /\ m.tpdu.tipo = CR /\ m.tpdu.conexion_aceptada # EXNOTSAP
                   /\ m.de = NodoDe[a] /\ m.tpdu.id_local = i /\ PeticionViva(m)'
<1> DEFINE n == NodoDe[a]
           i == buscar_celda_libre(CXs[n])
           o == marco[a].orig
           d == marco[a].dest
           t == crear_pkt(CR, d, o, i, 0, EXOK)
           tx == MeteEnTX(CXs[n][i].TX, n, a, RotaAlQuitar(n))
           c == CeldaConnect(CXs[n][i], a, tx)
<1>0. TypeOK /\ n \in Nodos /\ a \in Procs
  BY TiposDeProceso DEF CuentaInv, TiposInv
<1>1. pc[a] = "connect" /\ ErrorConnect(n, o, d) = EXOK
  BY DEF ConnectReserva
<1>2. i \in Celdas /\ ~ EnUso(n, i) /\ CXs[n][i] = CeldaInicial
  <2>1. num_CXs[n] # NUM_MAX_CXs
    BY <1>1 DEF ErrorConnect, EXMAXC, EXOK
  <2>2. i \in Libres(CXs[n])
    BY <1>0, <2>1, HayLibre, CeldaLibreEsCelda
  <2> QED
    BY <1>0, <2>2 DEF Libres, EnUso, LibreVacia
<1>3. CXs' = [CXs EXCEPT ![n][i] = c]
  BY DEF ConnectReserva
<1>4. \E x : tx = <<x>>
  BY <1>2 DEF MeteEnTX, Operada, ListaRota, CeldaInicial
<1>5. Reservada(c, a) /\ c.estado_cx = CONNECT /\ c.TX = tx
  <2> HIDE DEF tx, i, n
  <2> QED
    BY <1>2 DEF CeldaConnect, Reservada, CeldaInicial
<1>6. d.ip # IPNula /\ d.ip \in Nodos
  <2>1. marco[a] \in Marco /\ DestinoValido(d)
    BY <1>0, <1>1 DEF TypeOK, MarcosListos, MarcoListo
  <2> QED
    BY <2>1 DEF DestinoValido, Marco, Tsap, IPs
<1>7. SoloCelda(n, i) /\ CXs'[n][i] = c
  <2> HIDE DEF c, i, n
  <2> QED
    BY <1>0, <1>2, <1>3, UnaSola
<1>8. \A m \in DOMAIN red' :
        m \in DOMAIN red \/ Inerte(m) \/ m = [de |-> n, a |-> d.ip, tpdu |-> t]
  <2>1. PICK s : Envia(red, n, d.ip, t, s)
    BY DEF ConnectReserva
  <2> HIDE DEF n, t, d
  <2> QED
    BY <1>6, <2>1, EnviaUno DEF A
<1>9. ASSUME NEW m, m = [de |-> n, a |-> d.ip, tpdu |-> t]
      PROVE  /\ m.tpdu.tipo = CR /\ m.tpdu.conexion_aceptada # EXNOTSAP
             /\ m.de = n /\ m.tpdu.id_local = i /\ PeticionViva(m)'
  <2>1. /\ m.de = n /\ m.a = d.ip /\ m.tpdu = t
        /\ t.tipo = CR /\ t.id_local = i /\ t.conexion_aceptada = EXOK
        /\ t.ip_local = o.ip /\ t.ip_destino = d.ip
        /\ t.puerto_orig = AUint16(o.puerto) /\ t.puerto_dest = AUint16(d.puerto)
    BY <1>9 DEF crear_pkt
  <2> HIDE DEF t, c, i, n
  <2> QED
    BY <1>5, <1>7, <2>1 DEF PeticionViva, Reservada, EXOK, EXNOTSAP
<1>10. Reserva(a, i)
  <2>1. /\ celda' = [celda EXCEPT ![a] = i]
        /\ \E l \in {"barrera", "muerta"} : pc' = [pc EXCEPT ![a] = l]
        /\ UNCHANGED <<marco, id, barC>>
    BY AbreYSaltaCasos DEF ConnectReserva, resultados
  <2> HIDE DEF c, i
  <2> QED
    BY <1>1, <1>2, <1>5, <1>7, <2>1 DEF Reserva
<1> HIDE DEF i, n, c, t, o, d
<1>11. CXs'[n][i].TX # <<>> /\ Len(CXs'[n][i].TX) = 1
  <2>1. PICK x : CXs'[n][i].TX = <<x>>
    BY <1>4, <1>5, <1>7
  <2> QED
    BY <2>1
<1> QED
  BY <1>2, <1>5, <1>7, <1>8, <1>9, <1>10, <1>11 DEF n

LEMMA ListenHace ==
  ASSUME CuentaInv, LibreVacia, NEW a \in Apps, ListenReserva(a)
  PROVE  \E i \in Celdas :
           /\ Reserva(a, i)
           /\ CXs'[NodoDe[a]][i].estado_cx = LISTEN /\ CXs'[NodoDe[a]][i].TX = <<>>
           /\ UNCHANGED red
<1> DEFINE n == NodoDe[a]
           i == buscar_celda_libre(CXs[n])
           c == CeldaListen(CXs[n][i], a)
<1>0. TypeOK /\ n \in Nodos
  BY TiposDeProceso DEF CuentaInv, TiposInv
<1>1. i \in Celdas /\ ~ EnUso(n, i) /\ CXs[n][i] = CeldaInicial
  <2>1. num_CXs[n] # NUM_MAX_CXs
    BY DEF ListenReserva, ErrorListen, EXMAXC, EXOK
  <2>2. i \in Libres(CXs[n])
    BY <1>0, <2>1, HayLibre, CeldaLibreEsCelda
  <2> QED
    BY <1>0, <2>2 DEF Libres, EnUso, LibreVacia
<1>2. Reservada(c, a) /\ c.estado_cx = LISTEN /\ c.TX = <<>>
  BY <1>1 DEF CeldaListen, Reservada, CeldaInicial
<1>3. SoloCelda(n, i) /\ CXs'[n][i] = c
  <2>1. CXs' = [CXs EXCEPT ![n][i] = c]
    BY DEF ListenReserva
  <2> HIDE DEF c, i, n
  <2> QED
    BY <1>0, <1>1, <2>1, UnaSola
<1>4. Reserva(a, i)
  <2>1. /\ celda' = [celda EXCEPT ![a] = i] /\ pc' = [pc EXCEPT ![a] = "barrera"]
        /\ pc[a] = "listen" /\ UNCHANGED <<marco, id, barC>>
    BY DEF ListenReserva, Salta, resultados
  <2> HIDE DEF c, i
  <2> QED
    BY <1>1, <1>2, <1>3, <2>1 DEF Reserva
<1>5. UNCHANGED red
  BY DEF ListenReserva
<1> QED
  BY <1>1, <1>2, <1>3, <1>4, <1>5

\* The daemon writes one cell and goes to its barrier.
Atiende(n, i) ==
  /\ i \in Celdas /\ SoloCelda(n, i)
  /\ pc[n] = "espera"
  /\ \E l \in {"barrera", "muerta"} : pc' = [pc EXCEPT ![n] = l]
  /\ celda' = [celda EXCEPT ![n] = i]
  /\ UNCHANGED <<marco, id, barC>>

\* A CR: the cell of a listener takes the TSAP and the identifier of the other
\* end, and the CC goes to whoever sent it.
Acepta(c, d, m) ==
  /\ d.ap_pid = c.ap_pid /\ d.celda_ocupada = c.celda_ocupada
  /\ d.estado_cx = ESTABLISHED /\ d.resultado_peticion = EXOK
  /\ d.ip_local = c.ip_local /\ d.puerto_origen = c.puerto_origen
  /\ d.ip_destino = m.de /\ d.puerto_destino = m.tpdu.puerto_orig
  /\ d.id_destino = m.tpdu.id_local /\ d.TX = c.TX
Contestacion(k, n, i, m) ==
  /\ k.tpdu.tipo = CC /\ k.tpdu.conexion_aceptada # EXNOTSAP
  /\ k.de = n /\ k.a = m.de
  /\ k.tpdu.id_local = i /\ k.tpdu.id_destino = m.tpdu.id_local

LEMMA DemonioCRHace ==
  ASSUME TypeOK, NEW n \in Nodos, DemonioCR(n)
  PROVE  \E m \in DOMAIN red, i \in Celdas :
           /\ Atiende(n, i) /\ m.tpdu.tipo = CR /\ m.a = n
           /\ i \in Candidatas(CXs[n], m.tpdu)
           /\ Acepta(CXs[n][i], CXs'[n][i], m)
           /\ \A k \in DOMAIN red' : \/ k \in DOMAIN SinPaquete(red, m) \/ Inerte(k)
                                    \/ Contestacion(k, n, i, m)
           /\ \E s : Envia(SinPaquete(red, m), n, m.de,
                          TpduCC(m, CXs[n][i].ip_local, i, 1), s)
<1>1. PICK m \in DOMAIN red :
        LET i == asign_conexion_CR(CXs[n], m.tpdu)
        IN  /\ m.tpdu.tipo = CR
            /\ i # EXNOTSAP
            /\ RecibeYContesta(n, m, CXs[n][i].ip_local, i, 1)
            /\ CXs' = [CXs EXCEPT ![n][i] = CeldaAceptada(@, m)]
            /\ celda' = [celda EXCEPT ![n] = i]
  BY DEF DemonioCR
<1> DEFINE i == asign_conexion_CR(CXs[n], m.tpdu)
<1>2. i \in Candidatas(CXs[n], m.tpdu)
  BY <1>1, AsignaCandidata
<1>3. i \in Celdas
  BY <1>2 DEF Candidatas
<1>4. /\ m.tpdu.tipo = CR
      /\ RecibeYContesta(n, m, CXs[n][i].ip_local, i, 1)
      /\ CXs' = [CXs EXCEPT ![n][i] = CeldaAceptada(CXs[n][i], m)]
      /\ celda' = [celda EXCEPT ![n] = i]
  BY <1>1
<1> HIDE DEF i
<1>5. CXs[n][i] \in Conexion /\ m \in Paquete
  BY <1>3 DEF TypeOK, BolsaOK
<1>6. Acepta(CXs[n][i], CeldaAceptada(CXs[n][i], m), m)
  BY <1>5 DEF Acepta, CeldaAceptada, Conexion
<1>7. SoloCelda(n, i) /\ CXs'[n][i] = CeldaAceptada(CXs[n][i], m)
  BY <1>3, <1>4, UnaSola
<1>8. Atiende(n, i) /\ m.a = n
  <2>1. /\ \E l \in {"barrera", "muerta"} : pc' = [pc EXCEPT ![n] = l]
        /\ UNCHANGED <<marco, id, barC>>
    BY AbreYSaltaCasos DEF DemonioCR, resultados
  <2> QED
    BY <1>3, <1>4, <1>7, <2>1 DEF Atiende, RecibeYContesta
<1> DEFINE t == TpduCC(m, CXs[n][i].ip_local, i, 1)
<1>9. \A k \in DOMAIN red' :
        \/ k \in DOMAIN SinPaquete(red, m) \/ Inerte(k)
        \/ k = [de |-> n, a |-> m.de, tpdu |-> t]
  <2>1. PICK s : Envia(SinPaquete(red, m), n, m.de, t, s)
    BY <1>4 DEF RecibeYContesta
  <2>2. m.de # IPNula
    BY <1>5, SuposicionProcesos DEF Paquete
  <2> HIDE DEF t
  <2> QED
    BY <2>1, <2>2, EnviaUno DEF A
<1>10. ASSUME NEW k, k = [de |-> n, a |-> m.de, tpdu |-> t]
       PROVE  Contestacion(k, n, i, m)
  <2>1. /\ t.tipo = CC /\ t.conexion_aceptada = 1
        /\ t.id_local = i /\ t.id_destino = m.tpdu.id_local
    BY DEF TpduCC, crear_pkt
  <2> HIDE DEF t
  <2> QED
    BY <1>10, <2>1 DEF Contestacion, EXNOTSAP
<1>11. \E s : Envia(SinPaquete(red, m), n, m.de, t, s)
  BY <1>4 DEF RecibeYContesta
<1> QED
  BY <1>2, <1>3, <1>4, <1>6, <1>7, <1>8, <1>9, <1>10, <1>11

\* A CC, when no refusal is in transit: the cell that asked is established.
Confirma(c, d, m) ==
  /\ d.ap_pid = c.ap_pid /\ d.celda_ocupada = c.celda_ocupada
  /\ d.estado_cx = ESTABLISHED /\ d.resultado_peticion = EXOK
  /\ d.ip_local = c.ip_local /\ d.puerto_origen = c.puerto_origen
  /\ d.ip_destino = c.ip_destino /\ d.puerto_destino = c.puerto_destino
  /\ d.id_destino = m.tpdu.id_local

LEMMA DemonioCCHace ==
  ASSUME TypeOK, SinRechazos, NEW n \in Nodos, DemonioCC(n)
  PROVE  \E m \in DOMAIN red :
           LET i == m.tpdu.id_destino
           IN  /\ Atiende(n, i) /\ m.tpdu.tipo = CC /\ m.a = n
               /\ Confirma(CXs[n][i], CXs'[n][i], m)
               /\ red' = SinPaquete(red, m)
               /\ rotas' = [rotas EXCEPT ![n] = RotaAlConfirmar(n, CXs[n][i])]
               /\ rotas'[n] \/ CXs'[n][i].TX = SinUltimo(CXs[n][i].TX)
<1>1. PICK m \in DOMAIN red :
        LET t == m.tpdu
            i == t.id_destino
            c == CXs[n][i]
            rota == RotaAlConfirmar(n, c)
        IN  /\ t.tipo = CC /\ Recibe(n, m)
            /\ IF t.conexion_aceptada < 0
               THEN /\ CXs' = [CXs EXCEPT ![n][i] = CeldaRechazada(@, t)]
                    /\ UNCHANGED <<buffers_libres, rotas>>
               ELSE /\ CXs' = [CXs EXCEPT ![n][i] = CeldaConfirmada(@, t, rota)]
                    /\ buffers_libres' =
                         [buffers_libres EXCEPT ![n] = Operada(rota, @ \o UltimoDe(c.TX))]
                    /\ rotas' = [rotas EXCEPT ![n] = rota]
            /\ celda' = [celda EXCEPT ![n] = BarreraCC(t)]
            /\ Salta(n, "barrera")
            /\ UNCHANGED <<num_CXs, CXs_libres, heap, SEMAFORO, barC, marco, resultados>>
  BY DEF DemonioCC
<1> DEFINE i == m.tpdu.id_destino
           rota == RotaAlConfirmar(n, CXs[n][i])
           d == CeldaConfirmada(CXs[n][i], m.tpdu, rota)
<1>2. m \in Paquete /\ m.tpdu \in Tpdu
  BY DEF TypeOK, BolsaOK, TpduOK
<1>3. i \in Celdas /\ ~ (m.tpdu.conexion_aceptada < 0)
  BY <1>2 DEF Tpdu, SinRechazos, EXOK
<1>4. /\ m.tpdu.tipo = CC /\ Recibe(n, m)
      /\ CXs' = [CXs EXCEPT ![n][i] = d]
      /\ celda' = [celda EXCEPT ![n] = i] /\ pc' = [pc EXCEPT ![n] = "barrera"]
      /\ rotas' = [rotas EXCEPT ![n] = rota]
      /\ UNCHANGED <<marco, id, barC>>
  BY <1>1, <1>3 DEF BarreraCC, Salta, resultados
<1>5. CXs[n][i] \in Conexion
  BY <1>3 DEF TypeOK
<1>6. Confirma(CXs[n][i], d, m) /\ (rota \/ d.TX = SinUltimo(CXs[n][i].TX))
  <2> HIDE DEF rota, i
  <2> QED
    BY <1>5 DEF Confirma, CeldaConfirmada, Operada, Conexion
<1> HIDE DEF i, rota, d
<1>7. SoloCelda(n, i) /\ CXs'[n][i] = d
  BY <1>3, <1>4, UnaSola
<1>8. Atiende(n, i) /\ m.a = n /\ red' = SinPaquete(red, m)
  BY <1>3, <1>4, <1>7 DEF Atiende, Recibe
<1>9. rotas'[n] = rota
  BY <1>4 DEF TypeOK
<1> QED
  BY <1>4, <1>6, <1>7, <1>8, <1>9 DEF i, rota

\* Only two steps work on the end of a TX and on the list of free indices.
LEMMA PasosQueRompen ==
  ASSUME [Next]_vars, ~ UNCHANGED rotas
  PROVE  (\E a \in Apps : ConnectReserva(a)) \/ (\E n \in Nodos : DemonioCC(n))
<1>1. ASSUME NEW a \in Apps, Llama(a) PROVE UNCHANGED rotas
  BY <1>1 DEF Llama, IniciaConnect, IniciaListen, IniciaSend, SendFuera, SendFueraMuere,
              MuereConSemaforo, LlamadaInvalida, listas
<1>2. ASSUME NEW a \in Apps, PasoApp(a), ~ ConnectReserva(a) PROVE UNCHANGED rotas
  BY <1>2
  DEF PasoApp, ConnectRechaza, ConnectMuere, ConnectLee, ListenRechaza, ListenReserva,
      ListenLee, SendRechaza, SendEntra, SendTrozo, SendMuere, SendDuerme, SendReanuda,
      SendTermina, LlegaBarrera, MuereConSemaforo, listas
<1>3. ASSUME NEW n \in Nodos, PasoDemonio(n), ~ DemonioCC(n) PROVE UNCHANGED rotas
  BY <1>3 DEF PasoDemonio, DemonioCR, DemonioCRSinTsap, DemonioMuere, DemonioOtro,
              LlegaBarrera, MuereConSemaforo, listas
<1>4. CASE RedDuplica \/ (\E p \in Procs : Matan(p)) \/ UNCHANGED vars
  BY <1>4 DEF RedDuplica, Matan, vars, listas
<1> QED
  BY <1>1, <1>2, <1>3, <1>4 DEF Next

\* Lists that are broken stay so.
LEMMA RotasCrecen ==
  ASSUME TypeOK, [Next]_vars, NEW k \in Nodos, rotas[k]
  PROVE  rotas'[k]
<1>1. ASSUME NEW a \in Apps, ConnectReserva(a) PROVE rotas'[k]
  BY <1>1 DEF ConnectReserva, QuitaCXLibre, RotaAlQuitar, TypeOK
<1>2. ASSUME NEW n \in Nodos, DemonioCC(n) PROVE rotas'[k]
  <2>1. UNCHANGED rotas \/ \E c : rotas' = [rotas EXCEPT ![n] = RotaAlConfirmar(n, c)]
    BY <1>2 DEF DemonioCC
  <2> QED
    BY <2>1 DEF RotaAlConfirmar, TypeOK
<1> QED
  BY <1>1, <1>2, PasosQueRompen

-----------------------------------------------------------------------------
(* What any step does to a call.                                            *)

\* The call goes on with the same primitive, cell and identifier.
Fija(b) ==
  celda'[b] = celda[b] /\ marco'[b].prim = marco[b].prim /\ id'[b] = id[b]

SigueIgual(b) ==
  /\ Fija(b) /\ pc'[b] \in {pc[b], "muerta"}
  /\ pc'[b] \in {"connect", "listen"} => marco'[b] = marco[b]
PorLaBarrera(b) ==
  /\ \E p \in Procs : LlegaBarrera(p)
  /\ Fija(b) /\ pc[b] \in {"barrera", "dormida"} /\ pc'[b] \in {"dormida", "lee"}
EntraEnviando(b) ==
  /\ Fija(b) /\ pc[b] = "send" /\ pc'[b] = "enviando"
  /\ Establecida(NodoDe[b], celda[b])
Enviando(b) ==
  /\ Fija(b) /\ marco[b].prim = "send"
  /\ pc[b] \in {"enviando", "lee"} /\ pc'[b] \in {"enviando", "barrera"}
Empieza(b) ==
  /\ pc[b] = "fuera" /\ id'[b] = id[b]
  /\ \/ /\ pc'[b] = "connect" /\ marco'[b].prim = "connect"
        /\ DestinoValido(marco'[b].dest) /\ marco'[b].orig.puerto # 0
     \/ pc'[b] = "listen" /\ marco'[b].prim = "listen" /\ marco'[b].orig.puerto # 0
     \/ /\ pc'[b] = "send" /\ marco'[b].prim = "send"
        /\ IdsAjenas \/ (celda'[b] = id[b] /\ id[b] # -1)
Termina(b) ==
  /\ pc[b] \notin {"barrera", "dormida", "muerta"}
  /\ pc'[b] = "fuera" /\ marco'[b] = MarcoNulo
  /\ \/ id'[b] = id[b]
     \/ pc[b] = "lee" /\ marco[b].prim # "send" /\ id'[b] = celda[b]
     \/ /\ pc[b] = "lee" /\ marco[b].prim # "send"
        /\ ~ Establecida(NodoDe[b], celda[b])
PasoDeLlamada(b) ==
  \/ SigueIgual(b) \/ PorLaBarrera(b) \/ EntraEnviando(b) \/ Enviando(b)
  \/ Empieza(b) \/ Termina(b)
  \/ \E i \in Celdas : Reserva(b, i)

LEMMA BarreraMueve ==
  ASSUME TypeOK, NEW p \in Procs, LlegaBarrera(p), NEW b \in Apps
  PROVE  /\ Fija(b) /\ marco' = marco
         /\ pc'[b] = pc[b] \/ PorLaBarrera(b)
<1> DEFINE q == barC[Nodo(p)][celda[p]]
           f == [pc EXCEPT ![p] = TrasBarrera(p)]
<1>1. b \in Procs /\ TrasBarrera(b) = "lee" /\ (p = b => TrasBarrera(p) = "lee")
  BY TiposDeProceso DEF TrasBarrera
<1>2. pc \in [Procs -> PCsApp \cup PCsDemonio] /\ pc[p] = "barrera"
  BY DEF TypeOK, LlegaBarrera
<1>3. Fija(b) /\ marco' = marco
  BY DEF LlegaBarrera, Fija, resultados
<1>4. CASE q = Nadie
  BY <1>1, <1>2, <1>3, <1>4 DEF LlegaBarrera, Salta, PorLaBarrera
<1>5. CASE q # Nadie
  <2>1. pc' = [f EXCEPT ![q] = IF @ = "dormida" THEN TrasBarrera(q) ELSE @]
    BY <1>5 DEF LlegaBarrera
  <2>2. DOMAIN f = Procs /\ (f[b] = pc[b] \/ (pc[b] = "barrera" /\ f[b] = "lee"))
    BY <1>1, <1>2
  <2> HIDE DEF f, q
  <2>3. pc'[b] = pc[b] \/ (pc[b] \in {"barrera", "dormida"} /\ pc'[b] = "lee")
    BY <1>1, <2>1, <2>2
  <2> QED
    BY <1>3, <2>3 DEF PorLaBarrera
<1> QED
  BY <1>4, <1>5

LEMMA LlamaMueve ==
  ASSUME TypeOK, NEW b \in Apps, Llama(b)
  PROVE  Empieza(b) \/ Termina(b) \/ SigueIgual(b)
<1>0. b \in Procs /\ pc \in [Procs -> PCsApp \cup PCsDemonio] /\ marco \in [Apps -> Marco]
      /\ celda \in [Procs -> Celdas] /\ id \in [Apps -> Celdas \cup {-1}]
  BY TiposDeProceso DEF TypeOK
<1>1. CASE IniciaConnect(b)
  <2>1. PICK d \in Destinos, o \in Origenes :
          \E p \in IF o.puerto # 0 THEN {o.puerto}
                   ELSE buscar_puerto_libre(CXs[NodoDe[b]]) :
            /\ DestinoValido(d)
            /\ Entra(b, "connect",
                 [prim |-> "connect", dest |-> d, resta |-> 0, hechos |-> 0,
                  orig |-> [ConIPLocal(NodoDe[b], o) EXCEPT !.puerto = p]])
    BY <1>1 DEF IniciaConnect
  <2>2. PICK p \in IF o.puerto # 0 THEN {o.puerto}
                   ELSE buscar_puerto_libre(CXs[NodoDe[b]]) :
          /\ DestinoValido(d)
          /\ Entra(b, "connect",
                 [prim |-> "connect", dest |-> d, resta |-> 0, hechos |-> 0,
                  orig |-> [ConIPLocal(NodoDe[b], o) EXCEPT !.puerto = p]])
    BY <2>1
  <2>3. p # 0
    <3>1. \A x \in buscar_puerto_libre(CXs[NodoDe[b]]) : x \in PuertosLibres
      BY DEF buscar_puerto_libre
    <3> QED
      BY <2>2, <3>1, SuposicionPuertos
  <2>4. [ConIPLocal(NodoDe[b], o) EXCEPT !.puerto = p].puerto = p
    <3>1. ConIPLocal(NodoDe[b], o) \in Tsap
      BY SuposicionEntradas, OrigenTipo, TiposDeProceso
    <3> HIDE DEF Int16
    <3> QED
      BY <3>1 DEF Tsap
  <2> DEFINE r == [ConIPLocal(NodoDe[b], o) EXCEPT !.puerto = p]
  <2>5. /\ pc[b] = "fuera" /\ pc' = [pc EXCEPT ![b] = "connect"]
        /\ marco' = [marco EXCEPT ![b] = [prim |-> "connect", dest |-> d, resta |-> 0,
                                          hechos |-> 0, orig |-> r]]
    BY <2>2 DEF Entra, Salta
  <2> HIDE DEF r
  <2>6. /\ marco'[b].prim = "connect" /\ marco'[b].dest = d /\ marco'[b].orig = r
        /\ pc'[b] = "connect" /\ UNCHANGED id
    BY <1>0, <1>1, <2>5 DEF IniciaConnect
  <2> QED
    BY <2>2, <2>3, <2>4, <2>5, <2>6 DEF Empieza, r
<1>2. CASE IniciaListen(b)
  <2>1. PICK e \in Escuchas, r \in Remotas :
          /\ EscuchaValida(e)
          /\ Entra(b, "listen",
                [prim |-> "listen", orig |-> ConIPLocal(NodoDe[b], e), dest |-> r,
                 resta |-> 0, hechos |-> 0])
    BY <1>2 DEF IniciaListen
  <2>2. ConIPLocal(NodoDe[b], e).puerto = e.puerto
    BY SuposicionEntradas DEF ConIPLocal, Tsap
  <2>3. marco'[b].prim = "listen" /\ marco'[b].orig = ConIPLocal(NodoDe[b], e)
    BY <1>0, <2>1 DEF Entra
  <2> QED
    BY <1>0, <1>2, <2>1, <2>2, <2>3 DEF Empieza, EscuchaValida, Entra, Salta, IniciaListen
<1>3. CASE IniciaSend(b)
  <2>1. PICK i \in Celdas, k \in 1 .. MAX_TROZOS :
          /\ IdsAjenas \/ i = id[b]
          /\ Entra(b, "send", [prim |-> "send", orig |-> TsapNulo, dest |-> TsapNulo,
                               resta |-> k, hechos |-> 0])
          /\ celda' = [celda EXCEPT ![b] = i]
    BY <1>3 DEF IniciaSend
  <2>2. marco'[b].prim = "send" /\ i # -1 /\ celda'[b] = i
    BY <1>0, <2>1 DEF Entra, Celdas
  <2>3. pc[b] = "fuera" /\ pc'[b] = "send" /\ id'[b] = id[b]
    BY <1>0, <1>3, <2>1 DEF Entra, Salta, IniciaSend
  <2>4. CASE IdsAjenas
    BY <2>2, <2>3, <2>4, Zenon DEF Empieza
  <2>5. CASE i = id[b]
    BY <2>2, <2>3, <2>5, Zenon DEF Empieza
  <2> QED
    BY <2>1, <2>4, <2>5
<1>4. CASE LlamadaInvalida(b)
  <2>1. ~ (EXINVA >= 0)
    BY DEF EXINVA
  <2> QED
    BY <1>0, <1>4, <2>1 DEF LlamadaInvalida, Vuelve, Salta, Termina
<1>5. CASE SendFuera(b)
  <2>1. ~ (EXBADTID >= 0)
    BY DEF EXBADTID
  <2> QED
    BY <1>0, <1>5, <2>1 DEF SendFuera, FueraDeTabla, Vuelve, Salta, Termina
<1>6. CASE SendFueraMuere(b)
  BY <1>0, <1>6
  DEF SendFueraMuere, MuereConSemaforo, Salta, resultados, SigueIgual, Fija
<1> QED
  BY <1>1, <1>2, <1>3, <1>4, <1>5, <1>6 DEF Llama

LEMMA AppMueve ==
  ASSUME CuentaInv, LibreVacia, MarcosListos, EnviosVivos,
         NEW b \in Apps, PasoApp(b)
  PROVE  PasoDeLlamada(b)
<1>0. /\ TypeOK /\ b \in Procs /\ pc \in [Procs -> PCsApp \cup PCsDemonio]
      /\ marco \in [Apps -> Marco] /\ celda \in [Procs -> Celdas]
      /\ id \in [Apps -> Celdas \cup {-1}] /\ MarcoDe(b)
  BY TiposDeProceso DEF CuentaInv, TiposInv, TypeOK, MarcoPropio
<1>1. CASE ConnectReserva(b) \/ ListenReserva(b)
  BY <1>1, ConnectHace, ListenHace DEF PasoDeLlamada
<1>2. CASE ConnectRechaza(b) \/ ListenRechaza(b) \/ SendRechaza(b)
  <2>1. PICK e \in Errores :
          Vuelve(b, e) /\ pc[b] \in {"connect", "listen", "send"}
    BY <1>2 DEF ConnectRechaza, ListenRechaza, SendRechaza, ErrorConnect, ErrorListen, Errores
  <2>2. ~ (e >= 0)
    BY ErroresNegativos
  <2> QED
    BY <1>0, <2>1, <2>2 DEF Vuelve, Salta, Termina, PasoDeLlamada
<1>3. CASE SendTermina(b)
  <2>1. /\ marco[b].prim = "send" /\ pc[b] = "enviando"
        /\ Vuelve(b, marco[b].hechos)
    BY <1>0, <1>3 DEF SendTermina, MarcoDe
  <2> QED
    BY <1>0, <2>1 DEF Vuelve, Salta, Termina, PasoDeLlamada
<1>4. CASE ConnectLee(b)
  <2> DEFINE c == CXs[NodoDe[b]][celda[b]]
  <2>1. pc[b] = "lee" /\ marco[b].prim # "send"
    BY <1>4 DEF ConnectLee
  <2>2. \/ c.estado_cx = CLOSED /\ Vuelve(b, c.resultado_peticion)
        \/ Vuelve(b, celda[b])
    BY <1>4 DEF ConnectLee, FalloConnect
  <2>3. CASE Vuelve(b, celda[b])
    <3>1. id'[b] = id[b] \/ id'[b] = celda[b]
      BY <1>0, <2>3 DEF Vuelve
    <3> QED
      BY <1>0, <2>1, <2>3, <3>1 DEF Vuelve, Salta, Termina, PasoDeLlamada
  <2>4. CASE c.estado_cx = CLOSED /\ Vuelve(b, c.resultado_peticion)
    <3>1. ~ Establecida(NodoDe[b], celda[b])
      BY <2>4 DEF Establecida, CLOSED, ESTABLISHED
    <3> HIDE DEF c
    <3> QED
      BY <1>0, <2>1, <2>4, <3>1 DEF Vuelve, Salta, Termina, PasoDeLlamada
  <2> QED
    BY <2>2, <2>3, <2>4
<1>5. CASE ListenLee(b)
  <2> DEFINE c == CXs[NodoDe[b]][celda[b]]
  <2>1. pc[b] = "lee" /\ marco[b].prim # "send"
    BY <1>5 DEF ListenLee
  <2>2. \/ c.estado_cx = LISTEN /\ Vuelve(b, c.resultado_peticion)
        \/ Vuelve(b, celda[b])
    BY <1>5 DEF ListenLee
  <2>3. CASE Vuelve(b, celda[b])
    <3>1. id'[b] = id[b] \/ id'[b] = celda[b]
      BY <1>0, <2>3 DEF Vuelve
    <3> QED
      BY <1>0, <2>1, <2>3, <3>1 DEF Vuelve, Salta, Termina, PasoDeLlamada
  <2>4. CASE c.estado_cx = LISTEN /\ Vuelve(b, c.resultado_peticion)
    <3>1. ~ Establecida(NodoDe[b], celda[b])
      BY <2>4 DEF Establecida, LISTEN, ESTABLISHED
    <3> HIDE DEF c
    <3> QED
      BY <1>0, <2>1, <2>4, <3>1 DEF Vuelve, Salta, Termina, PasoDeLlamada
  <2> QED
    BY <2>2, <2>3, <2>4
<1>6. CASE SendEntra(b)
  <2>1. marco'[b].prim = marco[b].prim
    BY <1>0, <1>6, MarcoDeSend
  <2> QED
    BY <1>0, <1>6, <2>1
    DEF SendEntra, Salta, resultados, EntraEnviando, Fija, Establecida, PasoDeLlamada
<1>7. CASE SendTrozo(b) \/ SendDuerme(b) \/ SendReanuda(b)
  <2>1. marco'[b].prim = marco[b].prim
    BY <1>0, <1>7 DEF SendTrozo, SendDuerme, SendReanuda, Marco
  <2>2. /\ marco[b].prim = "send" /\ pc[b] \in {"enviando", "lee"}
        /\ pc'[b] \in {"enviando", "barrera"} /\ UNCHANGED <<celda, id>>
    BY <1>0, <1>7 DEF SendTrozo, SendDuerme, SendReanuda, MarcoDe, Salta, resultados
  <2> QED
    BY <2>1, <2>2 DEF Enviando, Fija, PasoDeLlamada
<1>8. CASE ConnectMuere(b) \/ SendMuere(b)
  BY <1>0, <1>8
  DEF ConnectMuere, SendMuere, MuereConSemaforo, Salta, resultados, SigueIgual, Fija,
      PasoDeLlamada
<1>9. CASE LlegaBarrera(b)
  BY <1>0, <1>9, BarreraMueve DEF SigueIgual, PasoDeLlamada
<1> QED
  BY <1>1, <1>2, <1>3, <1>4, <1>5, <1>6, <1>7, <1>8, <1>9 DEF PasoApp

\* A step that is not b's own, nor an arrival at a barrier.
LEMMA OtroMueve ==
  ASSUME TypeOK, NEW b \in Apps,
         \/ \E a \in Apps \ {b} : Llama(a) \/ (PasoApp(a) /\ ~ LlegaBarrera(a))
         \/ \E n \in Nodos : PasoDemonio(n) /\ ~ LlegaBarrera(n)
         \/ RedDuplica
         \/ \E p \in Procs : Matan(p)
         \/ UNCHANGED vars
  PROVE  SigueIgual(b)
<1>0. b \in Procs /\ b \notin Nodos /\ pc \in [Procs -> PCsApp \cup PCsDemonio]
      /\ marco \in [Apps -> Marco] /\ celda \in [Procs -> Celdas]
      /\ id \in [Apps -> Celdas \cup {-1}]
  BY TiposDeProceso, SuposicionProcesos DEF TypeOK
<1> USE DEF SigueIgual, Fija
<1>1. ASSUME NEW a \in Apps \ {b}, Llama(a) PROVE SigueIgual(b)
  <2>1. /\ \E l : pc' = [pc EXCEPT ![a] = l]
        /\ UNCHANGED marco \/ \E m : marco' = [marco EXCEPT ![a] = m]
        /\ UNCHANGED celda \/ \E i : celda' = [celda EXCEPT ![a] = i]
        /\ UNCHANGED id \/ \E i : id' = [id EXCEPT ![a] = i]
    BY <1>1 DEF Llama, IniciaConnect, IniciaListen, IniciaSend, SendFuera, SendFueraMuere,
                MuereConSemaforo, LlamadaInvalida, Entra, Vuelve, Salta, resultados
  <2> QED
    BY <1>0, <2>1
<1>2. ASSUME NEW a \in Apps \ {b}, PasoApp(a), ~ LlegaBarrera(a) PROVE SigueIgual(b)
  <2>1. CASE SendEntra(a)
    <3>1. marco'[b] = marco[b]
      BY <1>0, <2>1, MarcoDeSend
    <3> QED
      BY <1>0, <2>1, <3>1 DEF SendEntra, Salta, resultados
  <2>2. CASE SendTrozo(a)
    BY <1>0, <2>2 DEF SendTrozo, resultados
  <2>3. CASE \/ ConnectReserva(a) \/ ListenReserva(a)
             \/ ConnectMuere(a) \/ SendMuere(a) \/ SendDuerme(a) \/ SendReanuda(a)
    BY <1>0, <2>3 DEF ConnectReserva, ListenReserva, ConnectMuere, SendMuere,
                      SendDuerme, SendReanuda, MuereConSemaforo, AbreYSalta, Salta,
                      resultados
  <2>4. CASE \/ ConnectRechaza(a) \/ ListenRechaza(a) \/ SendRechaza(a)
             \/ ConnectLee(a) \/ ListenLee(a) \/ SendTermina(a)
    <3>1. \E r : Vuelve(a, r)
      BY <2>4 DEF ConnectRechaza, ListenRechaza, SendRechaza, ConnectLee, ListenLee,
                  SendTermina
    <3> QED
      BY <1>0, <3>1 DEF Vuelve, Salta
  <2> QED
    BY <1>2, <2>1, <2>2, <2>3, <2>4 DEF PasoApp
<1>3. ASSUME NEW n \in Nodos, PasoDemonio(n), ~ LlegaBarrera(n) PROVE SigueIgual(b)
  <2>1. /\ UNCHANGED pc \/ \E l : pc' = [pc EXCEPT ![n] = l]
        /\ UNCHANGED celda \/ \E i : celda' = [celda EXCEPT ![n] = i]
        /\ UNCHANGED <<marco, id>>
    BY <1>3 DEF PasoDemonio, DemonioCC, DemonioCR, DemonioCRSinTsap, DemonioMuere,
                DemonioOtro, MuereConSemaforo, AbreYSalta, Salta, resultados
  <2> QED
    BY <1>0, <2>1
<1>4. CASE RedDuplica \/ UNCHANGED vars
  BY <1>0, <1>4 DEF RedDuplica, vars, resultados
<1>5. CASE \E p \in Procs : Matan(p)
  BY <1>0, <1>5 DEF Matan, Salta, resultados
<1> QED
  BY <1>1, <1>2, <1>3, <1>4, <1>5

LEMMA PasosDeLlamada ==
  ASSUME CuentaInv, LibreVacia, MarcosListos, EnviosVivos, [Next]_vars, NEW b \in Apps
  PROVE  PasoDeLlamada(b)
<1>0. TypeOK
  BY DEF CuentaInv, TiposInv
<1>1. CASE Llama(b) \/ PasoApp(b)
  BY <1>0, <1>1, LlamaMueve, AppMueve DEF PasoDeLlamada
<1>2. CASE \E p \in Procs : LlegaBarrera(p)
  BY <1>0, <1>2, BarreraMueve DEF SigueIgual, PasoDeLlamada
<1>3. CASE ~ Llama(b) /\ ~ PasoApp(b) /\ \A p \in Procs : ~ LlegaBarrera(p)
  BY <1>0, <1>3, TiposDeProceso, OtroMueve DEF Next, PasoDeLlamada
<1> QED
  BY <1>1, <1>2, <1>3

-----------------------------------------------------------------------------
(* The invariant of the table.                                              *)

\* A cell in use keeps its owner and its local TSAP; one that has asked keeps
\* the remote TSAP too, and once established stays so.
Evoluciona(n, i) ==
  LET c == CXs[n][i]
      d == CXs'[n][i]
  IN  /\ EnUso(n, i) => /\ d.ap_pid = c.ap_pid /\ EnUso(n, i)'
                        /\ d.ip_local = c.ip_local /\ d.puerto_origen = c.puerto_origen
      /\ c.estado_cx \in {CONNECT, ESTABLISHED}
           => /\ d.ip_destino = c.ip_destino /\ d.puerto_destino = c.puerto_destino
              /\ d.estado_cx \in {c.estado_cx, ESTABLISHED}

LEMMA Estados ==
  /\ CLOSED # LISTEN /\ CLOSED # CONNECT /\ CLOSED # ESTABLISHED
  /\ LISTEN # CONNECT /\ LISTEN # ESTABLISHED /\ CONNECT # ESTABLISHED
BY DEF CLOSED, LISTEN, CONNECT, ESTABLISHED

\* Whatever is not closed is in use.
LEMMA AbiertaEnUso ==
  ASSUME LibreVacia, NEW n \in Nodos, NEW i \in Celdas, CXs[n][i].estado_cx # CLOSED
  PROVE  EnUso(n, i)
BY DEF LibreVacia, CeldaInicial

\* What a daemon serves is a datagram between cells.
LEMMA PaqueteTipo ==
  ASSUME TypeOK, NEW m \in DOMAIN red
  PROVE  /\ m.de \in Nodos /\ m.a \in Nodos /\ m.tpdu.id_destino \in Celdas
         /\ m.tpdu.tipo = CR => m.tpdu.id_local \in Celdas
BY DEF TypeOK, BolsaOK, Paquete, TpduOK, Tpdu, CR, CC

LEMMA CeldaEvoluciona ==
  ASSUME RechazoMata, TablaInv, [Next]_vars, NEW k \in Nodos, NEW j \in Celdas
  PROVE  Evoluciona(k, j)
<1>0. TypeOK /\ TiposInv
  BY DEF TablaInv, CuentaInv, TiposInv
<1> USE DEF Evoluciona
<1>1. CASE SoloBuffers
  BY <1>1 DEF SoloBuffers, MismaSalvoTX, EnUso
<1>2. ASSUME NEW a \in Apps, ConnectReserva(a) \/ ListenReserva(a) PROVE Evoluciona(k, j)
  <2>1. PICK i \in Celdas : Reserva(a, i)
    BY <1>2, ConnectHace, ListenHace DEF TablaInv
  <2>2. CASE k = NodoDe[a] /\ j = i
    <3>1. ~ EnUso(k, j) /\ CXs[k][j].estado_cx = CLOSED
      BY <2>1, <2>2, TiposDeProceso DEF Reserva, TablaInv, LibreVacia, CeldaInicial
    <3> QED
      BY <3>1, Estados
  <2>3. CASE k # NodoDe[a] \/ j # i
    BY <2>1, <2>3 DEF Reserva, SoloCelda, EnUso
  <2> QED
    BY <2>2, <2>3
<1>3. ASSUME NEW n \in Nodos, DemonioCR(n) PROVE Evoluciona(k, j)
  <2>1. PICK m \in DOMAIN red, i \in Celdas :
          /\ Atiende(n, i) /\ i \in Candidatas(CXs[n], m.tpdu)
          /\ Acepta(CXs[n][i], CXs'[n][i], m)
    BY <1>0, <1>3, DemonioCRHace
  <2>2. CXs[n][i].estado_cx = LISTEN
    BY <2>1 DEF Candidatas
  <2> QED
    BY <2>1, <2>2, Estados DEF Atiende, SoloCelda, Acepta, EnUso
<1>4. ASSUME NEW n \in Nodos, DemonioCC(n) PROVE Evoluciona(k, j)
  <2>1. PICK m \in DOMAIN red :
          /\ Atiende(n, m.tpdu.id_destino)
          /\ Confirma(CXs[n][m.tpdu.id_destino], CXs'[n][m.tpdu.id_destino], m)
    BY <1>0, <1>4, DemonioCCHace DEF TablaInv
  <2> QED
    BY <2>1 DEF Atiende, SoloCelda, Confirma, EnUso
<1> QED
  BY <1>0, <1>1, <1>2, <1>3, <1>4, PasosDeLaTabla DEF TablaInv

LEMMA EstablecidaSigue ==
  ASSUME RechazoMata, TablaInv, [Next]_vars, NEW n \in Nodos, NEW i \in Celdas,
         Establecida(n, i)
  PROVE  Establecida(n, i)'
BY CeldaEvoluciona DEF Evoluciona, Establecida

\* Ports that are not zero stay so in a uint16_t.
LEMMA PuertoNoNulo == \A p \in Int16 : p # 0 => AUint16(p) # 0
<1> DEFINE lo == -32768
           hi == 32767
<1>1. lo \in Int /\ hi \in Int /\ -65536 < lo /\ hi < 65536
  OBVIOUS
<1>2. Int16 = lo .. hi
  BY DEF Int16
<1> HIDE DEF lo, hi
<1>3. \A p \in Int16 : p \in Int /\ -65536 < p /\ p < 65536
  BY <1>1, <1>2
<1>4. \A p \in Int : -65536 < p /\ p < 65536 /\ p # 0 => p % 65536 # 0
  OBVIOUS
<1> QED
  BY <1>3, <1>4 DEF AUint16

LEMMA LibreVaciaPaso ==
  ASSUME RechazoMata, TablaInv, [Next]_vars
  PROVE  LibreVacia' /\ ConPuerto'
<1>0. TypeOK /\ TiposInv /\ LibreVacia /\ ConPuerto
  BY DEF TablaInv, CuentaInv, TiposInv
<1> SUFFICES ASSUME NEW k \in Nodos, NEW j \in Celdas
             PROVE  /\ ~ EnUso(k, j)' => CXs'[k][j] = CeldaInicial
                    /\ EnUso(k, j)' => CXs'[k][j].puerto_origen # 0
  BY DEF LibreVacia, ConPuerto
<1>1. CASE EnUso(k, j)
  BY <1>0, <1>1, CeldaEvoluciona DEF Evoluciona, ConPuerto
<1>2. CASE ~ EnUso(k, j) /\ CXs'[k][j] = CXs[k][j]
  BY <1>0, <1>2 DEF EnUso, LibreVacia
<1>3. CASE ~ EnUso(k, j) /\ CXs'[k][j] # CXs[k][j]
  <2>1. CXs[k][j].estado_cx = CLOSED
    BY <1>3, <1>0 DEF LibreVacia, CeldaInicial
  <2>2. ~ SoloBuffers
    BY <1>3, <2>1, Estados DEF SoloBuffers, Establecida
  <2>3. ASSUME NEW a \in Apps, ConnectReserva(a) \/ ListenReserva(a)
        PROVE  /\ ~ EnUso(k, j)' => CXs'[k][j] = CeldaInicial
               /\ EnUso(k, j)' => CXs'[k][j].puerto_origen # 0
    <3>1. PICK i \in Celdas : Reserva(a, i)
      BY <2>3, ConnectHace, ListenHace DEF TablaInv
    <3>2. k = NodoDe[a] /\ j = i
      BY <1>3, <3>1 DEF Reserva, SoloCelda
    <3>3. marco[a].orig.puerto \in Int16 /\ marco[a].orig.puerto # 0
      <4>1. marco[a] \in Marco /\ pc[a] \in {"connect", "listen"}
        BY <1>0, <2>3 DEF TypeOK, ConnectReserva, ListenReserva
      <4> QED
        BY <4>1 DEF TablaInv, MarcosListos, MarcoListo, Marco, Tsap
    <3> QED
      BY <3>1, <3>2, <3>3, PuertoNoNulo DEF Reserva, Reservada, EnUso
  <2>4. ASSUME NEW n \in Nodos, DemonioCR(n) PROVE FALSE
    <3>1. PICK m \in DOMAIN red, i \in Celdas :
            /\ Atiende(n, i) /\ i \in Candidatas(CXs[n], m.tpdu)
      BY <1>0, <2>4, DemonioCRHace
    <3> QED
      BY <1>3, <2>1, <3>1, Estados DEF Atiende, SoloCelda, Candidatas
  <2>5. ASSUME NEW n \in Nodos, DemonioCC(n) PROVE FALSE
    <3>1. PICK m \in DOMAIN red : /\ Atiende(n, m.tpdu.id_destino)
                                  /\ m.tpdu.tipo = CC /\ m.a = n
      BY <1>0, <2>5, DemonioCCHace DEF TablaInv
    <3> QED
      BY <1>3, <2>1, <3>1, Estados
      DEF Atiende, SoloCelda, TablaInv, RespuestasVivas, RespuestaViva
  <2> QED
    BY <1>0, <2>2, <2>3, <2>4, <2>5, PasosDeLaTabla DEF TablaInv
<1> QED
  BY <1>1, <1>2, <1>3

LEMMA PeticionSigue ==
  ASSUME RechazoMata, TablaInv, [Next]_vars, NEW m \in DOMAIN red
  PROVE  /\ m.tpdu.tipo = CR => PeticionViva(m)'
         /\ m.tpdu.tipo = CC => RespuestaViva(m)'
<1>1. TypeOK /\ LibreVacia
  BY DEF TablaInv, CuentaInv, TiposInv
<1>2. ASSUME m.tpdu.tipo = CR PROVE PeticionViva(m)'
  <2>1. PeticionViva(m) /\ m.de \in Nodos /\ m.tpdu.id_local \in Celdas
    BY <1>1, <1>2, PaqueteTipo DEF TablaInv, PeticionesVivas
  <2>2. EnUso(m.de, m.tpdu.id_local)
    BY <1>1, <2>1, AbiertaEnUso, Estados DEF PeticionViva
  <2> QED
    BY <2>1, <2>2, CeldaEvoluciona DEF PeticionViva, Evoluciona
<1>3. ASSUME m.tpdu.tipo = CC PROVE RespuestaViva(m)'
  <2>1. RespuestaViva(m) /\ m.a \in Nodos /\ m.tpdu.id_destino \in Celdas
    BY <1>1, <1>3, PaqueteTipo DEF TablaInv, RespuestasVivas
  <2> QED
    BY <2>1, CeldaEvoluciona DEF RespuestaViva, Evoluciona
<1> QED
  BY <1>2, <1>3

\* A datagram that is not new keeps its promise, a new CR makes the promise of
\* the call that sends it, and a new CC that of the CR it answers.
LEMMA RedPaso ==
  ASSUME RechazoMata, TablaInv, [Next]_vars
  PROVE  SinRechazos' /\ PeticionesVivas' /\ RespuestasVivas'
<1>0. TypeOK /\ TiposInv /\ SinRechazos
  BY DEF TablaInv, CuentaInv, TiposInv
<1> DEFINE Bien(k) == /\ k.tpdu.conexion_aceptada # EXNOTSAP
                      /\ k.tpdu.tipo = CR => PeticionViva(k)'
                      /\ k.tpdu.tipo = CC => RespuestaViva(k)'
<1> SUFFICES ASSUME NEW k \in DOMAIN red' PROVE Bien(k)
  BY DEF SinRechazos, PeticionesVivas, RespuestasVivas
<1>1. CASE k \in DOMAIN red \/ Inerte(k)
  BY <1>0, <1>1, PeticionSigue DEF SinRechazos, Inerte
<1>2. CASE SinPeticionNueva
  BY <1>1, <1>2 DEF SinPeticionNueva
<1>3. ASSUME NEW a \in Apps, ConnectReserva(a) \/ ListenReserva(a) PROVE Bien(k)
  <2>1. CASE ConnectReserva(a)
    <3>1. PICK i \in Celdas :
            \A m \in DOMAIN red' :
                m \in DOMAIN red \/ Inerte(m)
                \/ /\ m.tpdu.tipo = CR /\ m.tpdu.conexion_aceptada # EXNOTSAP
                   /\ m.de = NodoDe[a] /\ m.tpdu.id_local = i /\ PeticionViva(m)'
      BY <2>1, ConnectHace DEF TablaInv
    <3>2. CR # CC
      BY DEF CR, CC
    <3> QED
      BY <1>1, <3>1, <3>2
  <2>2. CASE ListenReserva(a)
    BY <1>1, <2>2, ListenHace DEF TablaInv
  <2> QED
    BY <1>3, <2>1, <2>2
<1>4. ASSUME NEW n \in Nodos, DemonioCR(n) PROVE Bien(k)
  <2>1. PICK m \in DOMAIN red, i \in Celdas :
          /\ m.tpdu.tipo = CR
          /\ \A x \in DOMAIN red' : \/ x \in DOMAIN SinPaquete(red, m) \/ Inerte(x)
                                   \/ Contestacion(x, n, i, m)
    BY <1>0, <1>4, DemonioCRHace
  <2>2. CASE Contestacion(k, n, i, m)
    <3>1. k.tpdu.tipo = CC /\ k.tpdu.conexion_aceptada # EXNOTSAP
          /\ k.a = m.de /\ k.tpdu.id_destino = m.tpdu.id_local
      BY <2>2 DEF Contestacion
    <3>2. PeticionViva(m)'
      BY <2>1, PeticionSigue
    <3>3. CR # CC
      BY DEF CR, CC
    <3> QED
      BY <3>1, <3>2, <3>3 DEF PeticionViva, RespuestaViva
  <2> QED
    BY <1>1, <2>1, <2>2, QuitaUno
<1>5. ASSUME NEW n \in Nodos, DemonioCC(n) PROVE Bien(k)
  BY <1>0, <1>1, <1>5, DemonioCCHace, QuitaUno
<1> QED
  BY <1>0, <1>2, <1>3, <1>4, <1>5, PasosDeLaTabla DEF TablaInv

LEMMA LlamadaPaso ==
  ASSUME RechazoMata, TablaInv, [Next]_vars
  PROVE  MarcosListos' /\ EnviosVivos'
<1> SUFFICES ASSUME NEW b \in Apps PROVE MarcoListo(b)' /\ EnvioVivo(b)'
  BY DEF MarcosListos, EnviosVivos
<1>0. /\ TypeOK /\ b \in Procs /\ NodoDe[b] \in Nodos /\ celda[b] \in Celdas
      /\ MarcoListo(b) /\ EnvioVivo(b) /\ MarcoDe(b)
  BY TiposDeProceso
  DEF TablaInv, CuentaInv, TiposInv, TypeOK, MarcosListos, EnviosVivos, MarcoPropio
<1>1. Establecida(NodoDe[b], celda[b]) => Establecida(NodoDe[b], celda[b])'
                                          \/ celda'[b] # celda[b]
  BY <1>0, EstablecidaSigue DEF Establecida
<1>2. PasoDeLlamada(b)
  BY PasosDeLlamada DEF TablaInv
<1>3. CASE SigueIgual(b) \/ PorLaBarrera(b) \/ EntraEnviando(b) \/ Enviando(b)
  <2>1. MarcoListo(b)'
    BY <1>0, <1>3 DEF SigueIgual, PorLaBarrera, EntraEnviando, Enviando, MarcoListo
  <2>2. EnvioVivo(b)'
    BY <1>0, <1>1, <1>3
    DEF SigueIgual, PorLaBarrera, EntraEnviando, Enviando, Fija, EnvioVivo
  <2> QED
    BY <2>1, <2>2
<1>4. CASE Empieza(b) \/ Termina(b)
  BY <1>4 DEF Empieza, Termina, MarcoListo, EnvioVivo
<1>5. CASE \E i \in Celdas : Reserva(b, i)
  <2>1. pc[b] \in {"connect", "listen"}
    BY <1>5 DEF Reserva
  <2> QED
    BY <1>0, <1>5, <2>1 DEF Reserva, MarcoListo, EnvioVivo, MarcoDe, TypeOK
<1> QED
  BY <1>2, <1>3, <1>4, <1>5 DEF PasoDeLlamada

LEMMA TablaInicio == Init => TablaInv
<1> SUFFICES ASSUME Init PROVE TablaInv
  OBVIOUS
<1>1. CuentaInv
  BY CuentaInicio
<1>2. DOMAIN red = {}
  BY DEF Init, EmptyBag, SetToBag
<1>3. LibreVacia /\ ConPuerto
  BY DEF Init, LibreVacia, ConPuerto, EnUso, CeldaInicial
<1>4. MarcosListos /\ EnviosVivos
  BY TiposDeProceso
  DEF Init, MarcosListos, MarcoListo, EnviosVivos, EnvioVivo
<1> QED
  BY <1>1, <1>2, <1>3, <1>4 DEF TablaInv, SinRechazos, PeticionesVivas, RespuestasVivas

LEMMA TablaPaso == RechazoMata /\ TablaInv /\ [Next]_vars => TablaInv'
<1> SUFFICES ASSUME RechazoMata, TablaInv, [Next]_vars PROVE TablaInv'
  OBVIOUS
<1>1. CuentaInv'
  BY CuentaInvPaso DEF TablaInv
<1> QED
  BY <1>1, LibreVaciaPaso, LlamadaPaso, RedPaso DEF TablaInv

LEMMA TablaSiempre == ASSUME RechazoMata PROVE Spec => []TablaInv
BY TablaInicio, TablaPaso, PTL DEF Spec

-----------------------------------------------------------------------------
(* The limit on TX.                                                         *)

LEMMA TXAcotadaPaso ==
  ASSUME RechazoMata, NUM_BUF_PKTS # 0, TablaInv, TXAcotada, [Next]_vars
  PROVE  TXAcotada'
<1>0. TypeOK /\ TiposInv /\ SinRechazos
  BY DEF TablaInv, CuentaInv, TiposInv
<1> SUFFICES ASSUME NEW k \in Nodos, NEW j \in Celdas, ~ rotas'[k]
             PROVE  Len(CXs'[k][j].TX) <= NUM_BUF_PKTS
  BY DEF TXAcotada
<1>1. /\ ~ rotas[k] /\ Len(CXs[k][j].TX) <= NUM_BUF_PKTS /\ NUM_BUF_PKTS \in Nat
      /\ CXs[k][j].TX \in Seq(Procs \cup {Nadie}) /\ Len(CXs[k][j].TX) \in Nat
  <2>1. CXs[k][j] \in Conexion /\ ~ rotas[k]
    BY <1>0, RotasCrecen DEF TypeOK
  <2> QED
    BY <2>1, SuposicionCotas DEF TXAcotada, Conexion, Lista
<1>2. CASE CXs'[k][j].TX = CXs[k][j].TX
  BY <1>1, <1>2
<1>3. ASSUME NEW a \in Apps, SendTrozo(a) PROVE Len(CXs'[k][j].TX) <= NUM_BUF_PKTS
  <2> DEFINE n == NodoDe[a]
             i == celda[a]
             x == Head(LibresCon(n, a))
             tx == MeteEnTX(CXs[n][i].TX, n, a, rotas[n])
  <2>1. CXs' = [CXs EXCEPT ![n][i].TX = tx] /\ (rotas[n] \/ HayHueco(CXs[n][i]))
    BY <1>3 DEF SendTrozo
  <2>2. CASE k = n /\ j = i
    <3>0. tx = Append(CXs[n][i].TX, x) /\ HayHueco(CXs[n][i])
      BY <1>1, <2>1, <2>2 DEF MeteEnTX, Operada
    <3>1. CXs'[k][j].TX = Append(CXs[k][j].TX, x)
      <4> HIDE DEF n, i, x, tx
      <4> QED
        BY <1>0, <2>1, <2>2, <3>0 DEF TypeOK, Conexion
    <3> HIDE DEF x, tx
    <3>2. Len(CXs'[k][j].TX) = Len(CXs[k][j].TX) + 1
      BY <1>1, <3>1
    <3>3. Len(CXs[k][j].TX) < NUM_BUF_PKTS
      BY <2>2, <3>0 DEF HayHueco
    <3> QED
      BY <1>1, <3>2, <3>3
  <2>3. CASE ~ (k = n /\ j = i)
    <3> HIDE DEF n, i, x, tx
    <3>1. CXs'[k][j] = CXs[k][j]
      BY <1>0, <2>1, <2>3 DEF TypeOK
    <3> QED
      BY <1>2, <3>1
  <2> QED
    BY <2>2, <2>3
<1>4. ASSUME NEW a \in Apps, ConnectReserva(a) PROVE Len(CXs'[k][j].TX) <= NUM_BUF_PKTS
  <2>1. PICK i \in Celdas : Reserva(a, i) /\ Len(CXs'[NodoDe[a]][i].TX) = 1
    BY <1>4, ConnectHace DEF TablaInv
  <2>2. CASE k = NodoDe[a] /\ j = i
    <3>1. Len(CXs'[k][j].TX) = 1
      BY <2>1, <2>2
    <3>2. 1 <= NUM_BUF_PKTS
      BY SuposicionCotas
    <3> QED
      BY <3>1, <3>2
  <2>3. CASE ~ (k = NodoDe[a] /\ j = i)
    BY <1>2, <2>1, <2>3 DEF Reserva, SoloCelda
  <2> QED
    BY <2>2, <2>3
<1>5. ASSUME NEW a \in Apps, ListenReserva(a) PROVE Len(CXs'[k][j].TX) <= NUM_BUF_PKTS
  <2>1. PICK i \in Celdas : Reserva(a, i) /\ CXs'[NodoDe[a]][i].TX = <<>>
    BY <1>5, ListenHace DEF TablaInv
  <2>2. CASE k = NodoDe[a] /\ j = i
    <3>1. CXs'[k][j].TX = <<>>
      BY <2>1, <2>2
    <3>2. Len(CXs'[k][j].TX) = 0
      BY <3>1
    <3> QED
      BY <1>1, <3>2
  <2>3. CASE ~ (k = NodoDe[a] /\ j = i)
    BY <1>2, <2>1, <2>3 DEF Reserva, SoloCelda
  <2> QED
    BY <2>2, <2>3
<1>6. ASSUME NEW n \in Nodos, DemonioCR(n) PROVE CXs'[k][j].TX = CXs[k][j].TX
  <2>1. PICK m \in DOMAIN red, i \in Celdas :
          Atiende(n, i) /\ Acepta(CXs[n][i], CXs'[n][i], m)
    BY <1>0, <1>6, DemonioCRHace
  <2> QED
    BY <2>1 DEF Atiende, SoloCelda, Acepta
<1>7. ASSUME NEW n \in Nodos, DemonioCC(n) PROVE Len(CXs'[k][j].TX) <= NUM_BUF_PKTS
  <2>1. PICK m \in DOMAIN red :
          /\ Atiende(n, m.tpdu.id_destino)
          /\ \/ rotas'[n]
             \/ CXs'[n][m.tpdu.id_destino].TX = SinUltimo(CXs[n][m.tpdu.id_destino].TX)
    BY <1>0, <1>7, DemonioCCHace
  <2>2. CXs'[k][j].TX \in {CXs[k][j].TX, SinUltimo(CXs[k][j].TX)}
    BY <2>1 DEF Atiende, SoloCelda
  <2>3. Len(SinUltimo(CXs[k][j].TX)) <= Len(CXs[k][j].TX)
        /\ Len(SinUltimo(CXs[k][j].TX)) \in Nat
    <3> DEFINE tx == CXs[k][j].TX
    <3>1. tx \in Seq(Procs \cup {Nadie})
      BY <1>1
    <3> HIDE DEF tx
    <3>2. Len(SinUltimo(tx)) <= Len(tx) /\ Len(SinUltimo(tx)) \in Nat
      BY <3>1 DEF SinUltimo
    <3> QED
      BY <3>2 DEF tx
  <2> QED
    BY <1>1, <2>2, <2>3
<1> QED
  BY <1>0, <1>2, <1>3, <1>4, <1>5, <1>6, <1>7, PasosDeLaTabla DEF TablaInv

\* No TX list passes NUM_BUF_PKTS, whatever is lost, duplicated or killed, until a
\* list operation of its node meets an empty list: the loop of t_send looks at its
\* length, and t_connect only puts its CR in the TX of a cell that was never used.
\* With NUM_BUF_PKTS = 0 that one is too many.
THEOREM TXSegura ==
  ASSUME RechazoMata, NUM_BUF_PKTS # 0
  PROVE  Spec => []TXAcotada
<1> DEFINE Inv == TablaInv /\ TXAcotada
<1>1. Init => Inv
  BY TablaInicio, SuposicionCotas DEF Init, TXAcotada, CeldaInicial
<1>2. Inv /\ [Next]_vars => Inv'
  BY TablaPaso, TXAcotadaPaso
<1>3. Inv => TXAcotada
  OBVIOUS
<1> QED
  BY <1>1, <1>2, <1>3, PTL DEF Spec

-----------------------------------------------------------------------------
(* Calls turned away for a connection that is already there.                *)

\* A call that has not reserved a cell only comes back when it is turned away.
LEMMA SoloRechazada ==
  ASSUME TypeOK, [Next]_vars, NEW b \in Apps,
         pc[b] \in {"connect", "listen"}, pc'[b] = "fuera"
  PROVE  ConnectRechaza(b) \/ ListenRechaza(b)
<1>1. CASE Llama(b)
  BY <1>1 DEF Llama, IniciaConnect, IniciaListen, IniciaSend, SendFuera, SendFueraMuere,
              FueraDeTabla, LlamadaInvalida, Entra
<1>2. CASE \E p \in Procs : LlegaBarrera(p)
  BY <1>2, BarreraMueve DEF PorLaBarrera
<1>3. CASE ~ Llama(b) /\ ~ PasoApp(b) /\ \A p \in Procs : ~ LlegaBarrera(p)
  <2>1. SigueIgual(b)
    BY <1>3, TiposDeProceso, OtroMueve DEF Next
  <2> QED
    BY <2>1 DEF SigueIgual
<1>4. CASE PasoApp(b)
  <2>1. b \in Procs /\ pc \in [Procs -> PCsApp \cup PCsDemonio]
    BY TiposDeProceso DEF TypeOK
  <2>2. CASE ConnectReserva(b) \/ ListenReserva(b) \/ ConnectMuere(b)
    BY <2>1, <2>2 DEF ConnectReserva, ListenReserva, ConnectMuere, MuereConSemaforo,
                      AbreYSalta, Salta
  <2>3. CASE \/ ConnectLee(b) \/ ListenLee(b) \/ SendRechaza(b) \/ SendEntra(b)
             \/ SendTrozo(b) \/ SendMuere(b) \/ SendDuerme(b) \/ SendReanuda(b)
             \/ SendTermina(b) \/ LlegaBarrera(b)
    BY <2>3 DEF ConnectLee, ListenLee, SendRechaza, SendEntra, SendTrozo, SendMuere,
                SendDuerme, SendReanuda, SendTermina, LlegaBarrera
  <2> QED
    BY <1>4, <2>2, <2>3 DEF PasoApp
<1> QED
  BY <1>1, <1>2, <1>3, <1>4

\* A port that a uint16_t and an int16_t agree on is the same in both.
LEMMA PuertoComun == \A p \in Uint16 : AUint16(p) = p
<1>1. \A p \in Nat : p <= 65535 => p % 65536 = p
  OBVIOUS
<1> QED
  BY <1>1 DEF AUint16, Uint16

LEMMA DuplicadaPaso ==
  ASSUME TablaInv, [Next]_vars, NEW a \in Apps,
         pc[a] \in {"connect", "listen"}, pc'[a] = "fuera", ret'[a] = EXCDUP
  PROVE  \E i \in Ocupadas(CXs[NodoDe[a]]) : Colisiona(CXs[NodoDe[a]][i], marco[a])
<1> DEFINE n == NodoDe[a]
           o == marco[a].orig
           d == marco[a].dest
<1>0. /\ TypeOK /\ n \in Nodos /\ MarcoDe(a) /\ MarcoListo(a)
      /\ LibreVacia /\ ret \in [Apps -> Errores \cup Nat]
  BY TiposDeProceso
  DEF TablaInv, CuentaInv, TiposInv, MarcoPropio, MarcosListos, TypeOK
<1>1. ASSUME NEW i \in Celdas
      PROVE  /\ CXs[n][i].puerto_origen \in Uint16 /\ CXs[n][i].puerto_destino \in Uint16
             /\ i \in Ocupadas(CXs[n])
                \/ (CXs[n][i].puerto_origen = 0 /\ CXs[n][i].puerto_destino = 0)
  <2>1. CXs[n][i] \in Conexion
    BY <1>0 DEF TypeOK
  <2>2. i \in Ocupadas(CXs[n]) \/ CXs[n][i] = CeldaInicial
    BY <1>0 DEF LibreVacia, EnUso, Ocupadas
  <2> HIDE DEF n
  <2> QED
    BY <2>1, <2>2 DEF Conexion, CeldaInicial
<1>2. CASE ConnectRechaza(a)
  <2>1. pc[a] = "connect" /\ ret'[a] = ErrorConnect(n, o, d)
    BY <1>0, <1>2 DEF ConnectRechaza, Vuelve
  <2>2. buscar_connect_repetido(CXs[n], o, d)
    BY <2>1 DEF ErrorConnect, EXMAXC, EXCDUP, EXOK
  <2>3. PICK i \in Celdas :
          \/ CXs[n][i].ip_destino = d.ip /\ CXs[n][i].puerto_destino = d.puerto
          \/ CXs[n][i].puerto_origen = o.puerto
    BY <2>2 DEF buscar_connect_repetido, MismoPuerto
  <2>4. o.puerto # 0 /\ d.puerto # 0 /\ marco[a].prim = "connect"
    BY <1>0, <2>1 DEF MarcoListo, DestinoValido, MarcoDe
  <2> HIDE DEF n, o, d
  <2>5. i \in Ocupadas(CXs[n])
    BY <1>1, <2>3, <2>4
  <2>6. \/ CXs[n][i].ip_destino = d.ip /\ CXs[n][i].puerto_destino = AUint16(d.puerto)
        \/ CXs[n][i].puerto_origen = AUint16(o.puerto)
    BY <1>1, <2>3, PuertoComun
  <2> QED
    BY <2>4, <2>5, <2>6 DEF Colisiona, n, o, d
<1>3. CASE ListenRechaza(a)
  <2>1. pc[a] = "listen" /\ ret'[a] = ErrorListen(n, o)
    BY <1>0, <1>3 DEF ListenRechaza, Vuelve
  <2>2. buscar_listen_repetido(CXs[n], o)
    BY <2>1 DEF ErrorListen, EXMAXC, EXCDUP, EXOK
  <2>3. PICK i \in Celdas : CXs[n][i].puerto_origen = o.puerto
    BY <2>2 DEF buscar_listen_repetido, MismoPuerto
  <2>4. o.puerto # 0
    BY <1>0, <2>1 DEF MarcoListo
  <2> HIDE DEF n, o, d
  <2>5. i \in Ocupadas(CXs[n]) /\ CXs[n][i].puerto_origen = AUint16(o.puerto)
    BY <1>1, <2>3, <2>4, PuertoComun
  <2> QED
    BY <2>5 DEF Colisiona, n, o
<1> QED
  BY <1>0, <1>2, <1>3, SoloRechazada

\* EXCDUP is never the fault of a free cell, although the look-ups scan the
\* free cells too: a cell that is not occupied was never used, and no call
\* asks for port 0.
THEOREM DuplicadaSegura ==
  ASSUME RechazoMata
  PROVE  Spec => DuplicadaPresente
<1> DEFINE Dup ==
      \A a \in Apps :
        pc[a] \in {"connect", "listen"} /\ pc'[a] = "fuera" /\ ret'[a] = EXCDUP
          => \E i \in Ocupadas(CXs[NodoDe[a]]) :
               Colisiona(CXs[NodoDe[a]][i], marco[a])
<1>1. TablaInv /\ [Next]_vars => [Dup]_vars
  BY DuplicadaPaso
<1> HIDE DEF Dup
<1>2. Spec => [][Dup]_vars
  BY <1>1, TablaInicio, TablaPaso, PTL DEF Spec
<1> QED
  BY <1>2 DEF DuplicadaPresente, Dup

=============================================================================
