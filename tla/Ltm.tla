-------------------------------- MODULE Ltm --------------------------------
(***************************************************************************)
(* The transport at work: on each node the applications inside t_connect,   *)
(* t_listen and t_send (INTERFAZ.cc) and the daemon inside bucle_principal  *)
(* (BPRINCIPAL.cc) share the connection table KERNEL, its semaphore and one *)
(* barrier per cell (ltmipcs.cc), and the daemons exchange TPDUs over IP.   *)
(*                                                                         *)
(* A step is what a process does between two points where another process  *)
(* can be seen: a critical section between bloquear_acceso and              *)
(* desbloquear_acceso is one step, except the loop of t_send, which keeps   *)
(* the semaphore over one step per fragment.                                *)
(*                                                                         *)
(* Undefined behaviour.  buscar_buffer_libre leaves in a new list node a    *)
(* pointer to its own stack frame; CXs[EXNOTSAP] lies below the segment;    *)
(* pop_front and --end() are applied to empty lists.  The constants         *)
(* SalidasPropio, SalidasAjeno and SalidasIndice list the outcomes:         *)
(*   "sigue"   the bytes come out as written                                *)
(*   "basura"  the frame is overwritten: a header of zeros is sent          *)
(*   "segv"    the process does not get beyond that point: it faults, or    *)
(*             runs for ever round a chain, with the semaphore closed       *)
(*   "cuelga"  the write lands somewhere and the daemon never comes back    *)
(*             from the barrier it finds there                              *)
(* An operation on an empty list breaks the lists of its node (rotas): the  *)
(* sentinel of a list becomes a node of another, or bytes of KERNEL are     *)
(* given back to the pool.  Nothing is followed of them from then on: their *)
(* contents are ListaRota, and each later look at them finds anything.      *)
(*                                                                         *)
(* What a process that dies in a critical section has written there is not  *)
(* modelled, unless it has sent a TPDU before it dies: nobody can open that *)
(* semaphore to see it, but the other node answers.                         *)
(***************************************************************************)
EXTENDS LtmTipos

CONSTANTS
  MAX_LLAMADAS,   \* bound: [Apps -> calls that it makes]
  MAX_TROZOS,     \* bound: fragments of one t_send
  IdsAjenas,      \* may t_send be called with an id the caller was not given,
                  \* of a cell or outside the table?
  Pierde,         \* is pe > 0 (enviar_tpdu drops TPDUs)?
  MAX_COPIAS,     \* bound: datagrams that IP duplicates
  Mueren,         \* processes that may be killed at any point
  SalidasPropio,  \* a buffer whose node this process created
  SalidasAjeno,   \* a buffer whose node another process created
  SalidasIndice   \* the cell CXs[EXNOTSAP]

ASSUME SuposicionSalidas ==
  /\ SalidasPropio \subseteq {"sigue", "basura", "segv"}
  /\ SalidasAjeno \subseteq {"sigue", "basura", "segv"}
  /\ SalidasIndice \subseteq {"segv", "cuelga"}
  /\ IdsAjenas \in BOOLEAN /\ Pierde \in BOOLEAN
  /\ MAX_LLAMADAS \in [Apps -> Nat] /\ MAX_TROZOS \in Nat /\ MAX_COPIAS \in Nat
  /\ Mueren \subseteq Procs

VARIABLES
  num_CXs, CXs,             \* [Nodos -> ...] the connection table
  CXs_libres,               \* length of the list of free indices
  buffers_libres, heap,     \* free buffers; buf_pkt nodes created so far
  rotas,                    \* has a list operation met an empty list?
  SEMAFORO,                 \* holder of the semaphore, or Nadie
  barC,                     \* [Nodos -> [Celdas -> who waits at the barrier]]
  pc, celda,                \* [Procs -> ...] control point; cell worked on
  marco,                    \* [Apps -> arguments and locals of the primitive]
  id, ret, llamadas,        \* last id given, last result, calls made
  red,                      \* bag of datagrams in transit
  copias                    \* datagrams that IP has duplicated

tabla == <<num_CXs, CXs, CXs_libres>>
listas == <<buffers_libres, heap, rotas>>
\* of the calls, and the environment's
resultados == <<id, ret, llamadas, copias>>
vars == <<tabla, listas, SEMAFORO, barC, pc, celda, marco, resultados, red>>

PCsApp == {"fuera", "connect", "listen", "send", "enviando", "barrera",
           "dormida", "lee", "muerta"}
PCsDemonio == {"espera", "barrera", "dormida", "colgada", "muerta"}
TsapNulo == [ip |-> IPNula, puerto |-> 0]
Marco == [prim : {"connect", "listen", "send"}, orig : Tsap, dest : Tsap,
          resta : Nat, hechos : Nat]
MarcoNulo == [prim |-> "connect", orig |-> TsapNulo, dest |-> TsapNulo,
              resta |-> 0, hechos |-> 0]

-----------------------------------------------------------------------------
Init ==
  /\ num_CXs = [n \in Nodos |-> 0]
  /\ CXs = [n \in Nodos |-> [i \in Celdas |-> CeldaInicial]]
  /\ CXs_libres = [n \in Nodos |-> NUM_MAX_CXs]
  /\ buffers_libres = [n \in Nodos |-> <<>>]
  /\ heap = [n \in Nodos |-> 0]
  /\ rotas = [n \in Nodos |-> FALSE]
  /\ SEMAFORO = [n \in Nodos |-> Nadie]
  /\ barC = [n \in Nodos |-> [i \in Celdas |-> Nadie]]
  /\ pc = [p \in Procs |-> IF p \in Apps THEN "fuera" ELSE "espera"]
  /\ celda = [p \in Procs |-> 0]
  /\ marco = [a \in Apps |-> MarcoNulo]
  /\ id = [a \in Apps |-> -1]
  /\ ret = [a \in Apps |-> EXOK]
  /\ llamadas = [a \in Apps |-> 0]
  /\ red = EmptyBag
  /\ copias = 0

-----------------------------------------------------------------------------
(* Semaphore, barrier, buffers and network.                                 *)

Abierto(n) == SEMAFORO[n] = Nadie
Cierra(p) == SEMAFORO' = [SEMAFORO EXCEPT ![Nodo(p)] = p]
Abre(p) == SEMAFORO' = [SEMAFORO EXCEPT ![Nodo(p)] = Nadie]
Salta(p, l) == pc' = [pc EXCEPT ![p] = l]

\* A process dies inside its critical section.
MuereConSemaforo(p) ==
  /\ Cierra(p)
  /\ Salta(p, "muerta")
  /\ UNCHANGED <<tabla, listas, barC, celda, marco, resultados>>

\* The end of a critical section that has sent a TPDU: the semaphore is opened, or
\* the process is killed before, and what it has sent is on its way.
AbreYSalta(p, l) ==
  \/ Salta(p, l) /\ UNCHANGED SEMAFORO
  \/ p \in Mueren /\ Salta(p, "muerta") /\ Cierra(p)

\* Where a process continues when its barrier opens.
TrasBarrera(p) == IF p \in Apps THEN "lee" ELSE "espera"

\* bloquea_llamada and despierta_conexion are both this arrival: the first of
\* the two waits, the second releases both.  A process killed while it waits
\* has been counted all the same.
LlegaBarrera(p) ==
  LET n == Nodo(p)
      i == celda[p]
      q == barC[n][i]
  IN  /\ pc[p] = "barrera"
      /\ IF q = Nadie
         THEN /\ barC' = [barC EXCEPT ![n][i] = p]
              /\ Salta(p, "dormida")
         ELSE /\ barC' = [barC EXCEPT ![n][i] = Nadie]
              /\ pc' = [pc EXCEPT ![p] = TrasBarrera(p),
                                  ![q] = IF @ = "dormida" THEN TrasBarrera(q) ELSE @]
      /\ UNCHANGED <<tabla, listas, SEMAFORO, celda, marco, resultados, red>>

\* A list of which nothing is known: a node that is no buffer.
ListaRota == <<Nadie>>

\* buscar_buffer_libre: a node is created only when the list is empty.
LibresCon(n, p) == IF buffers_libres[n] = <<>> THEN <<p>> ELSE buffers_libres[n]
HeapCon(n) == [heap EXCEPT ![n] = IF buffers_libres[n] = <<>> THEN @ + 1 ELSE @]

\* A list after an operation: as it should be, or whatever comes of one that is
\* applied to an empty list, or to lists broken before.
Operada(rota, lista) == IF rota THEN ListaRota ELSE lista

\* What may come of writing through the pkt of the first free buffer.  With
\* the heap exhausted the new node lies at address 0; the pkt of a node that is
\* no buffer may be any address.
SalidasBuffer(n, p) ==
  IF rotas[n] THEN SalidasAjeno \cup {"segv"}
  ELSE IF buffers_libres[n] = <<>> /\ heap[n] >= MAX_HEAP THEN {"segv"}
  ELSE IF Head(LibresCon(n, p)) = p THEN SalidasPropio
  ELSE SalidasAjeno

\* Variant: the buffer is copied to TX and stays in buffers_libres.
TomaBufferCopia(n, p, rota) ==
  /\ buffers_libres' = [buffers_libres EXCEPT ![n] = Operada(rota, LibresCon(n, p))]
  /\ heap' = HeapCon(n)

\* The buffer goes from the head of buffers_libres to the tail of a TX.
TomaBuffer(n, p, rota) ==
  /\ buffers_libres' = [buffers_libres EXCEPT ![n] = Operada(rota, Tail(LibresCon(n, p)))]
  /\ heap' = HeapCon(n)

\* Variant: the buffer of the TPDU is not kept in TX.
MeteEnTXNada(tx, n, p, rota) == tx

MeteEnTX(tx, n, p, rota) == Operada(rota, Append(tx, Head(LibresCon(n, p))))

\* enviar_tpdu puts the TPDU in the bag, or drops it; 0.0.0.0 is the host itself.
Envia(bolsa, n, ip, t, salida) ==
  LET m == [de |-> n, a |-> IF ip = IPNula THEN n ELSE ip,
            tpdu |-> IF salida = "basura" THEN TpduBasura ELSE t]
  IN  \/ red' = ConPaquete(bolsa, m)
      \/ Pierde /\ red' = bolsa

\* The primitive returns r to its application, and its frame is gone.
Vuelve(a, r) ==
  /\ Salta(a, "fuera")
  /\ marco' = [marco EXCEPT ![a] = MarcoNulo]
  /\ celda' = [celda EXCEPT ![a] = 0]
  /\ ret' = [ret EXCEPT ![a] = r]
  /\ id' = [id EXCEPT ![a] = IF marco[a].prim # "send" /\ r >= 0 THEN r ELSE @]

\* An application enters a primitive.
Entra(a, l, m) ==
  /\ pc[a] = "fuera"
  /\ llamadas[a] < MAX_LLAMADAS[a]
  /\ llamadas' = [llamadas EXCEPT ![a] = @ + 1]
  /\ ret' = [ret EXCEPT ![a] = EXOK]
  /\ Salta(a, l)
  /\ marco' = [marco EXCEPT ![a] = m]

-----------------------------------------------------------------------------
(* t_connect                                                                *)

\* comprobar_parametros runs before the semaphore is closed: the ephemeral
\* port is chosen from a table that may change before it is used.
IniciaConnect(a) ==
  /\ \E d \in Destinos, o \in Origenes :
       \E p \in IF o.puerto # 0 THEN {o.puerto}
                ELSE buscar_puerto_libre(CXs[NodoDe[a]]) :
         /\ DestinoValido(d)
         /\ Entra(a, "connect",
                  [prim |-> "connect", dest |-> d, resta |-> 0, hechos |-> 0,
                   orig |-> [ConIPLocal(NodoDe[a], o) EXCEPT !.puerto = p]])
  /\ UNCHANGED <<tabla, listas, SEMAFORO, barC, celda, id, copias, red>>

\* Variant: no check of num_CXs.
ErrorConnectSinMaximo(n, o, d) ==
  IF buscar_connect_repetido(CXs[n], o, d) THEN EXCDUP ELSE EXOK

ErrorConnect(n, o, d) ==
  IF num_CXs[n] = NUM_MAX_CXs THEN EXMAXC
  ELSE IF buscar_connect_repetido(CXs[n], o, d) THEN EXCDUP
  ELSE EXOK

ConnectRechaza(a) ==
  LET n == NodoDe[a]
      e == ErrorConnect(n, marco[a].orig, marco[a].dest)
  IN  /\ pc[a] = "connect" /\ Abierto(n)
      /\ e # EXOK
      /\ Vuelve(a, e)
      /\ UNCHANGED <<tabla, listas, SEMAFORO, barC, llamadas, copias, red>>

\* The cell as t_connect fills it, TX with the buffer of the CR.
CeldaConnect(c, a, tx) ==
  [c EXCEPT !.ap_pid = a, !.estado_cx = CONNECT, !.celda_ocupada = 1,
            !.ip_destino = marco[a].dest.ip, !.ip_local = marco[a].orig.ip,
            !.puerto_origen = AUint16(marco[a].orig.puerto),
            !.puerto_destino = AUint16(marco[a].dest.puerto),
            !.TX = tx]

\* CXs_libres.pop_front on an empty list gives back to the pool the sentinel of
\* the list: the pool takes the bytes before it, buffers_libres among them, for
\* the header of a block, and writes there.
RotaAlQuitar(n) == rotas[n] \/ CXs_libres[n] = 0

QuitaCXLibre(n) ==
  /\ CXs_libres' = [CXs_libres EXCEPT ![n] = IF @ = 0 THEN 0 ELSE @ - 1]
  /\ rotas' = [rotas EXCEPT ![n] = RotaAlQuitar(n)]

SalidasConnect(n, a) ==
  IF RotaAlQuitar(n) THEN SalidasAjeno \cup {"segv"} ELSE SalidasBuffer(n, a)

ConnectReserva(a) ==
  LET n == NodoDe[a]
      i == buscar_celda_libre(CXs[n])
      o == marco[a].orig
      d == marco[a].dest
      rota == RotaAlQuitar(n)
  IN  /\ pc[a] = "connect" /\ Abierto(n)
      /\ ErrorConnect(n, o, d) = EXOK
      /\ \E s \in SalidasConnect(n, a) \ {"segv"} :
           Envia(red, n, d.ip, crear_pkt(CR, d, o, i, 0, EXOK), s)
      /\ QuitaCXLibre(n)
      /\ num_CXs' = [num_CXs EXCEPT ![n] = @ + 1]
      /\ TomaBuffer(n, a, rota)
      /\ CXs' = [CXs EXCEPT ![n][i] = CeldaConnect(@, a, MeteEnTX(@.TX, n, a, rota))]
      /\ celda' = [celda EXCEPT ![a] = i]
      /\ AbreYSalta(a, "barrera")
      /\ UNCHANGED <<barC, marco, resultados>>

ConnectMuere(a) ==
  LET n == NodoDe[a]
  IN  /\ pc[a] = "connect" /\ Abierto(n)
      /\ ErrorConnect(n, marco[a].orig, marco[a].dest) = EXOK
      /\ "segv" \in SalidasConnect(n, a)
      /\ MuereConSemaforo(a)
      /\ UNCHANGED red

\* Variant: a result of EXOK taken for an error.
FalloConnectMenorIgual(c) == c.resultado_peticion <= EXOK

FalloConnect(c) == c.estado_cx = CLOSED

\* Awake: a closed cell is an error, whichever call it belongs to by now.
ConnectLee(a) ==
  LET n == NodoDe[a]
      c == CXs[n][celda[a]]
  IN  /\ pc[a] = "lee" /\ marco[a].prim = "connect" /\ Abierto(n)
      /\ IF FalloConnect(c)
         THEN /\ num_CXs' = [num_CXs EXCEPT ![n] = @ - 1]
              /\ Vuelve(a, c.resultado_peticion)
         ELSE /\ Vuelve(a, celda[a])
              /\ UNCHANGED num_CXs
      /\ UNCHANGED <<CXs, CXs_libres, listas, SEMAFORO, barC, llamadas, copias, red>>

-----------------------------------------------------------------------------
(* t_listen                                                                 *)

IniciaListen(a) ==
  /\ \E e \in Escuchas, r \in Remotas :
       /\ EscuchaValida(e)
       /\ Entra(a, "listen",
                [prim |-> "listen", orig |-> ConIPLocal(NodoDe[a], e), dest |-> r,
                 resta |-> 0, hechos |-> 0])
  /\ UNCHANGED <<tabla, listas, SEMAFORO, barC, celda, id, copias, red>>

ErrorListen(n, e) ==
  IF num_CXs[n] = NUM_MAX_CXs THEN EXMAXC
  ELSE IF buscar_listen_repetido(CXs[n], e) THEN EXCDUP
  ELSE EXOK

ListenRechaza(a) ==
  LET n == NodoDe[a]
      e == ErrorListen(n, marco[a].orig)
  IN  /\ pc[a] = "listen" /\ Abierto(n)
      /\ e # EXOK
      /\ Vuelve(a, e)
      /\ UNCHANGED <<tabla, listas, SEMAFORO, barC, llamadas, copias, red>>

CeldaListen(c, a) ==
  [c EXCEPT !.ap_pid = a, !.estado_cx = LISTEN, !.celda_ocupada = 1,
            !.ip_local = marco[a].orig.ip,
            !.puerto_origen = AUint16(marco[a].orig.puerto),
            !.ip_destino = marco[a].dest.ip,
            !.puerto_destino = AUint16(marco[a].dest.puerto)]

ListenReserva(a) ==
  LET n == NodoDe[a]
      i == buscar_celda_libre(CXs[n])
  IN  /\ pc[a] = "listen" /\ Abierto(n)
      /\ ErrorListen(n, marco[a].orig) = EXOK
      /\ num_CXs' = [num_CXs EXCEPT ![n] = @ + 1]
      /\ CXs' = [CXs EXCEPT ![n][i] = CeldaListen(@, a)]
      /\ celda' = [celda EXCEPT ![a] = i]
      /\ Salta(a, "barrera")
      /\ UNCHANGED <<CXs_libres, listas, SEMAFORO, barC, marco, resultados, red>>

ListenLee(a) ==
  LET n == NodoDe[a]
      c == CXs[n][celda[a]]
  IN  /\ pc[a] = "lee" /\ marco[a].prim = "listen" /\ Abierto(n)
      /\ Vuelve(a, IF c.estado_cx = LISTEN THEN c.resultado_peticion ELSE celda[a])
      /\ UNCHANGED <<tabla, listas, SEMAFORO, barC, llamadas, copias, red>>

-----------------------------------------------------------------------------
(* t_send.  Its branch for resultado_primitiva = EXNET is left out: nothing *)
(* ever writes that field.                                                  *)

IniciaSend(a) ==
  /\ \E i \in Celdas, k \in 1 .. MAX_TROZOS :
       /\ IdsAjenas \/ i = id[a]
       /\ Entra(a, "send", [prim |-> "send", orig |-> TsapNulo, dest |-> TsapNulo,
                            resta |-> k, hechos |-> 0])
       /\ celda' = [celda EXCEPT ![a] = i]
  /\ UNCHANGED <<tabla, listas, SEMAFORO, barC, id, copias, red>>

SendRechaza(a) ==
  LET n == NodoDe[a]
  IN  /\ pc[a] = "send" /\ Abierto(n)
      /\ CXs[n][celda[a]].estado_cx # ESTABLISHED
      /\ Vuelve(a, EXBADTID)
      /\ UNCHANGED <<tabla, listas, SEMAFORO, barC, llamadas, copias, red>>

\* The two TSAPs are taken from the cell once, for all the fragments.
SendEntra(a) ==
  LET n == NodoDe[a]
      c == CXs[n][celda[a]]
  IN  /\ pc[a] = "send" /\ Abierto(n)
      /\ c.estado_cx = ESTABLISHED
      /\ Cierra(a)
      /\ Salta(a, "enviando")
      /\ marco' = [marco EXCEPT ![a] = [@ EXCEPT !.orig = TsapLocal(c),
                                                !.dest = TsapRemoto(c)]]
      /\ UNCHANGED <<tabla, listas, barC, celda, resultados, red>>

\* Variant: one buffer too many.
HayHuecoDeMas(c) == Len(c.TX) <= NUM_BUF_PKTS

HayHueco(c) == Len(c.TX) < NUM_BUF_PKTS

\* The identifier of the other side is read from the cell for each fragment.
TpduDatos(m, c, i) == crear_pkt(DATOS, m.dest, m.orig, i, c.id_destino, EXOK)

SendTrozo(a) ==
  LET n == NodoDe[a]
      i == celda[a]
      c == CXs[n][i]
  IN  /\ pc[a] = "enviando" /\ marco[a].resta > 0
      /\ rotas[n] \/ HayHueco(c)
      /\ \E s \in SalidasBuffer(n, a) \ {"segv"} :
           Envia(red, n, marco[a].dest.ip, TpduDatos(marco[a], c, i), s)
      /\ TomaBuffer(n, a, rotas[n])
      /\ CXs' = [CXs EXCEPT ![n][i].TX = MeteEnTX(@, n, a, rotas[n])]
      /\ marco' = [marco EXCEPT ![a].resta = @ - 1, ![a].hechos = @ + 1]
      /\ UNCHANGED <<num_CXs, CXs_libres, rotas, SEMAFORO, barC, pc, celda,
                     resultados>>

SendMuere(a) ==
  LET n == NodoDe[a]
  IN  /\ pc[a] = "enviando" /\ marco[a].resta > 0
      /\ rotas[n] \/ HayHueco(CXs[n][celda[a]])
      /\ "segv" \in SalidasBuffer(n, a)
      /\ MuereConSemaforo(a)
      /\ UNCHANGED red

\* Variant: to the barrier with the semaphore closed.
SendDuermeCerrado(a) ==
  /\ pc[a] = "enviando" /\ marco[a].resta > 0
  /\ rotas[NodoDe[a]] \/ ~HayHueco(CXs[NodoDe[a]][celda[a]])
  /\ Salta(a, "barrera")
  /\ UNCHANGED <<tabla, listas, SEMAFORO, barC, celda, marco, resultados, red>>

\* TX is full: wait at the barrier of the connection.
SendDuerme(a) ==
  /\ pc[a] = "enviando" /\ marco[a].resta > 0
  /\ rotas[NodoDe[a]] \/ ~HayHueco(CXs[NodoDe[a]][celda[a]])
  /\ Abre(a)
  /\ Salta(a, "barrera")
  /\ UNCHANGED <<tabla, listas, barC, celda, marco, resultados, red>>

\* Variant: on awaking the semaphore is not closed again.
SendReanudaAbierto(a) ==
  /\ pc[a] = "lee" /\ marco[a].prim = "send" /\ Abierto(NodoDe[a])
  /\ Salta(a, "enviando")
  /\ UNCHANGED <<tabla, listas, SEMAFORO, barC, celda, marco, resultados, red>>

\* Awake: back into the loop, without a look at estado_cx.
SendReanuda(a) ==
  /\ pc[a] = "lee" /\ marco[a].prim = "send" /\ Abierto(NodoDe[a])
  /\ Cierra(a)
  /\ Salta(a, "enviando")
  /\ UNCHANGED <<tabla, listas, barC, celda, marco, resultados, red>>

SendTermina(a) ==
  /\ pc[a] = "enviando" /\ marco[a].resta = 0
  /\ Abre(a)
  /\ Vuelve(a, marco[a].hechos)
  /\ UNCHANGED <<tabla, listas, barC, llamadas, copias, red>>

\* CXs[id] with an id outside the table (-1, or the error of an earlier call) is
\* read as it comes: no connection, or the process does not get out.
FueraDeTabla(a) ==
  /\ IdsAjenas /\ MAX_TROZOS > 0
  /\ pc[a] = "fuera" /\ llamadas[a] < MAX_LLAMADAS[a]
  /\ Abierto(NodoDe[a])

SendFuera(a) ==
  /\ FueraDeTabla(a)
  /\ llamadas' = [llamadas EXCEPT ![a] = @ + 1]
  /\ Vuelve(a, EXBADTID)
  /\ UNCHANGED <<tabla, listas, SEMAFORO, barC, copias, red>>

SendFueraMuere(a) ==
  /\ FueraDeTabla(a)
  /\ MuereConSemaforo(a)
  /\ UNCHANGED red

\* The calls that comprobar_parametros turns away: t_connect without a
\* destination, t_listen without a port.
LlamadaInvalida(a) ==
  /\ pc[a] = "fuera" /\ llamadas[a] < MAX_LLAMADAS[a]
  /\ (\E d \in Destinos : ~DestinoValido(d)) \/ (\E e \in Escuchas : ~EscuchaValida(e))
  /\ llamadas' = [llamadas EXCEPT ![a] = @ + 1]
  /\ Vuelve(a, EXINVA)
  /\ UNCHANGED <<tabla, listas, SEMAFORO, barC, copias, red>>

-----------------------------------------------------------------------------
(* The daemon: bucle_principal                                              *)

\* ltm_wait4event, recibir_tpdu and the critical section that follows are one
\* step: until the semaphore is closed only the daemon knows what it received.
Recibe(n, m) ==
  /\ pc[n] = "espera" /\ Abierto(n)
  /\ m.a = n
  /\ red' = SinPaquete(red, m)

\* What a CC does to the cell of the connection request it answers: a refusal
\* frees it, an acceptance takes the CR, the last buffer, out of TX.
CeldaRechazada(c, t) ==
  [c EXCEPT !.estado_cx = CLOSED, !.celda_ocupada = 0,
            !.resultado_peticion = t.conexion_aceptada]

SinUltimo(tx) == SubSeq(tx, 1, Len(tx) - 1)
UltimoDe(tx) == <<tx[Len(tx)]>>

\* Variants: id_destino left as it was; the CR goes to buffers_libres and
\* stays in TX.
CeldaConfirmadaSinId(c, t, rota) ==
  [c EXCEPT !.estado_cx = ESTABLISHED, !.resultado_peticion = EXOK,
            !.TX = Operada(rota, SinUltimo(@))]
CeldaConfirmadaConCR(c, t, rota) ==
  [c EXCEPT !.estado_cx = ESTABLISHED, !.id_destino = t.id_local,
            !.resultado_peticion = EXOK]

CeldaConfirmada(c, t, rota) ==
  [c EXCEPT !.estado_cx = ESTABLISHED, !.id_destino = t.id_local,
            !.resultado_peticion = EXOK, !.TX = Operada(rota, SinUltimo(@))]

\* --TX.end() of an empty TX is its sentinel, which splice makes the last node of
\* buffers_libres: the two chains are one.
RotaAlConfirmar(n, c) == rotas[n] \/ c.TX = <<>>

\* Variant: the barrier of the cell of the other end.
BarreraCCAjena(t) == t.id_local

\* The call that the CC wakes.
BarreraCC(t) == t.id_destino

DemonioCC(n) ==
  \E m \in DOMAIN red :
    LET t == m.tpdu
        i == t.id_destino
        c == CXs[n][i]
        rota == RotaAlConfirmar(n, c)
    IN  /\ t.tipo = CC /\ Recibe(n, m)
        /\ IF t.conexion_aceptada < 0
           THEN /\ CXs' = [CXs EXCEPT ![n][i] = CeldaRechazada(@, t)]
                /\ UNCHANGED <<buffers_libres, rotas>>
           ELSE /\ CXs' = [CXs EXCEPT ![n][i] = CeldaConfirmada(@, t, rota)]
                /\ buffers_libres' =
                     [buffers_libres EXCEPT ![n] = Operada(rota, @ \o UltimoDe(c.TX))]
                /\ rotas' = [rotas EXCEPT ![n] = rota]
        /\ celda' = [celda EXCEPT ![n] = BarreraCC(t)]
        /\ Salta(n, "barrera")
        /\ UNCHANGED <<num_CXs, CXs_libres, heap, SEMAFORO, barC, marco, resultados>>

\* Variants: the port copied into id_destino; estado_cx left at LISTEN.
CeldaAceptadaPuerto(c, m) ==
  [c EXCEPT !.estado_cx = ESTABLISHED, !.resultado_peticion = EXOK,
            !.puerto_destino = m.tpdu.puerto_orig, !.ip_destino = m.de,
            !.id_destino = m.tpdu.puerto_orig]
CeldaAceptadaEnListen(c, m) ==
  [c EXCEPT !.resultado_peticion = EXOK,
            !.puerto_destino = m.tpdu.puerto_orig, !.ip_destino = m.de,
            !.id_destino = m.tpdu.id_local]

\* The listener's cell once it is given a connection request.
CeldaAceptada(c, m) ==
  [c EXCEPT !.estado_cx = ESTABLISHED, !.resultado_peticion = EXOK,
            !.puerto_destino = m.tpdu.puerto_orig, !.ip_destino = m.de,
            !.id_destino = m.tpdu.id_local]

\* Variant: the identifiers of the two ends swapped.
TpduCCCruzada(m, origen, resul, aceptada) ==
  crear_pkt(CC, [ip |-> m.de, puerto |-> m.tpdu.puerto_orig],
            [ip |-> origen, puerto |-> m.tpdu.puerto_dest],
            m.tpdu.id_local, resul, aceptada)

\* The CC that answers datagram m; its buffer stays in buffers_libres.
TpduCC(m, origen, resul, aceptada) ==
  crear_pkt(CC, [ip |-> m.de, puerto |-> m.tpdu.puerto_orig],
            [ip |-> origen, puerto |-> m.tpdu.puerto_dest],
            resul, m.tpdu.id_local, aceptada)

RecibeYContesta(n, m, origen, resul, aceptada) ==
  /\ pc[n] = "espera" /\ Abierto(n) /\ m.a = n
  /\ \E s \in SalidasBuffer(n, n) \ {"segv"} :
       Envia(SinPaquete(red, m), n, m.de, TpduCC(m, origen, resul, aceptada), s)
  /\ buffers_libres' = [buffers_libres EXCEPT ![n] = LibresCon(n, n)]
  /\ heap' = HeapCon(n)

DemonioCR(n) ==
  \E m \in DOMAIN red :
    LET i == asign_conexion_CR(CXs[n], m.tpdu)
    IN  /\ m.tpdu.tipo = CR
        /\ i # EXNOTSAP
        /\ RecibeYContesta(n, m, CXs[n][i].ip_local, i, 1)
        /\ CXs' = [CXs EXCEPT ![n][i] = CeldaAceptada(@, m)]
        /\ celda' = [celda EXCEPT ![n] = i]
        /\ AbreYSalta(n, "barrera")
        /\ UNCHANGED <<num_CXs, CXs_libres, rotas, barC, marco, resultados>>

\* Nobody listens: the refusal goes out, but the daemon has worked on
\* CXs[EXNOTSAP] and ends at the barrier it takes to be there.
DemonioCRSinTsap(n) ==
  /\ "cuelga" \in SalidasIndice
  /\ \E m \in DOMAIN red :
       /\ m.tpdu.tipo = CR
       /\ asign_conexion_CR(CXs[n], m.tpdu) = EXNOTSAP
       /\ RecibeYContesta(n, m, IPNula, EXNOTSAP, EXNOTSAP)
  /\ AbreYSalta(n, "colgada")
  /\ UNCHANGED <<tabla, rotas, barC, celda, marco, resultados>>

\* It dies of a bad pkt, of CXs[EXNOTSAP], or in the splice of broken lists.
DemonioMuere(n) ==
  \E m \in DOMAIN red :
    /\ Recibe(n, m)
    /\ \/ m.tpdu.tipo = CR /\ "segv" \in SalidasBuffer(n, n)
       \/ /\ m.tpdu.tipo = CR /\ "segv" \in SalidasIndice
          /\ asign_conexion_CR(CXs[n], m.tpdu) = EXNOTSAP
       \/ m.tpdu.tipo = CC /\ m.tpdu.conexion_aceptada >= 0 /\ rotas[n]
    /\ MuereConSemaforo(n)

\* DATOS, ACK or an unknown type: the switch is left with the semaphore closed.
DemonioOtro(n) ==
  /\ \E m \in DOMAIN red : m.tpdu.tipo \notin {CC, CR} /\ Recibe(n, m)
  /\ Cierra(n)
  /\ UNCHANGED <<tabla, listas, barC, pc, celda, marco, resultados>>

-----------------------------------------------------------------------------
(* The environment: IP duplicates datagrams, processes are killed.          *)

RedDuplica ==
  /\ copias < MAX_COPIAS
  /\ copias' = copias + 1
  /\ \E m \in DOMAIN red : red' = ConPaquete(red, m)
  /\ UNCHANGED <<tabla, listas, SEMAFORO, barC, pc, celda, marco, id, ret, llamadas>>

\* A killed process may be about to close the semaphore, or inside: then it
\* stays closed.
Matan(p) ==
  /\ p \in Mueren
  /\ pc[p] # "muerta"
  /\ Salta(p, "muerta")
  /\ \/ UNCHANGED SEMAFORO
     \/ /\ \/ pc[p] \in {"connect", "listen", "send", "lee"}
           \/ pc[p] = "espera" /\ \E m \in DOMAIN red : m.a = p
        /\ Abierto(Nodo(p))
        /\ Cierra(p)
  /\ UNCHANGED <<tabla, listas, barC, celda, marco, resultados, red>>

-----------------------------------------------------------------------------
Llama(a) ==
  \/ IniciaConnect(a) \/ IniciaListen(a) \/ IniciaSend(a)
  \/ SendFuera(a) \/ SendFueraMuere(a) \/ LlamadaInvalida(a)

PasoApp(a) ==
  \/ ConnectRechaza(a) \/ ConnectReserva(a) \/ ConnectMuere(a) \/ ConnectLee(a)
  \/ ListenRechaza(a) \/ ListenReserva(a) \/ ListenLee(a)
  \/ SendRechaza(a) \/ SendEntra(a) \/ SendTrozo(a) \/ SendMuere(a)
  \/ SendDuerme(a) \/ SendReanuda(a) \/ SendTermina(a)
  \/ LlegaBarrera(a)

PasoDemonio(n) ==
  \/ DemonioCC(n) \/ DemonioCR(n) \/ DemonioCRSinTsap(n)
  \/ DemonioMuere(n) \/ DemonioOtro(n) \/ LlegaBarrera(n)

Next ==
  \/ \E a \in Apps : Llama(a) \/ PasoApp(a)
  \/ \E n \in Nodos : PasoDemonio(n)
  \/ RedDuplica
  \/ \E p \in Procs : Matan(p)

Spec == Init /\ [][Next]_vars

\* Every process that can go on does: the scheduler and the critical sections
\* being finite justify it.  The calls of the applications are not forced.
Equidad ==
  /\ \A a \in Apps : WF_vars(PasoApp(a))
  /\ \A n \in Nodos : WF_vars(PasoDemonio(n))

SpecViva == Spec /\ Equidad
=============================================================================
