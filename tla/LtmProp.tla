------------------------------ MODULE LtmProp ------------------------------
(***************************************************************************)
(* What the transport of module Ltm has to satisfy.                         *)
(***************************************************************************)
EXTENDS Ltm

\* Only a refusal carries an identifier that is not that of a cell.
TpduOK(t) ==
  t \in Tpdu /\ (t.id_local = EXNOTSAP => t.tipo = CC /\ t.conexion_aceptada = EXNOTSAP)
BolsaOK(bolsa) ==
  /\ DOMAIN bolsa \subseteq Paquete
  /\ \A m \in DOMAIN bolsa : bolsa[m] \in Nat \ {0} /\ TpduOK(m.tpdu)

\* The values of the variables: among them, that every datagram in transit
\* carries identifiers of cells, and that every buffer has a creator.
TypeOK ==
  /\ num_CXs \in [Nodos -> Int]
  /\ CXs \in [Nodos -> [Celdas -> Conexion]]
  /\ CXs_libres \in [Nodos -> Nat]
  /\ buffers_libres \in [Nodos -> Lista]
  /\ heap \in [Nodos -> Nat]
  /\ rotas \in [Nodos -> BOOLEAN]
  /\ SEMAFORO \in [Nodos -> Procs \cup {Nadie}]
  /\ barC \in [Nodos -> [Celdas -> Procs \cup {Nadie}]]
  /\ pc \in [Procs -> PCsApp \cup PCsDemonio]
  /\ celda \in [Procs -> Celdas]
  /\ marco \in [Apps -> Marco]
  /\ id \in [Apps -> Celdas \cup {-1}]
  /\ ret \in [Apps -> Errores \cup Nat]
  /\ llamadas \in [Apps -> Nat]
  /\ copias \in Nat
  /\ BolsaOK(red)

\* num_CXs counts at least the occupied cells and never passes the size of the
\* table, so a primitive that finds num_CXs # NUM_MAX_CXs finds a free cell and
\* buscar_celda_libre never falls back on a cell in use.
OcupacionContada ==
  \A n \in Nodos : /\ Cardinality(Ocupadas(CXs[n])) <= num_CXs[n]
                   /\ num_CXs[n] <= NUM_MAX_CXs

\* No two cells of a node have the same local port, although the ephemeral one
\* is chosen before the semaphore is closed.
PuertosUnicos ==
  \A n \in Nodos : \A i, j \in Celdas :
    i # j /\ CXs[n][i].puerto_origen # 0
      => CXs[n][i].puerto_origen # CXs[n][j].puerto_origen

\* The loop of t_send runs with the semaphore of the node closed by its own
\* process, and no living application has it closed anywhere else: none sleeps
\* at a barrier or returns with it.
SemaforoDeQuienEnvia ==
  \A a \in Apps :
    /\ pc[a] = "enviando" => SEMAFORO[NodoDe[a]] = a
    /\ \A n \in Nodos : SEMAFORO[n] = a => /\ n = NodoDe[a]
                                           /\ pc[a] \in {"enviando", "muerta"}

EnBarrera(p) == pc[p] \in {"barrera", "dormida"}

\* At most one call waits at the barrier of a cell: the other party can only be
\* the daemon.
UnaLlamadaPorBarrera ==
  \A a, b \in Apps :
    /\ a # b /\ NodoDe[a] = NodoDe[b]
    /\ EnBarrera(a) /\ EnBarrera(b)
    => celda[a] # celda[b]

\* An established cell names, by address and identifier, a cell of the other
\* end that names it back by address and port, and that is established with it
\* or still waits for its CC.  Hence no cell has two ends.
ParesSimetricos ==
  \A n \in Nodos, i \in Celdas :
    LET c == CXs[n][i]
        d == CXs[c.ip_destino][c.id_destino]
    IN  c.estado_cx = ESTABLISHED =>
          /\ d.ip_destino = n
          /\ d.puerto_destino = c.puerto_origen
          /\ d.puerto_origen = c.puerto_destino
          /\ \/ d.estado_cx = CONNECT
             \/ d.estado_cx = ESTABLISHED /\ d.id_destino = i

\* The limit on TX that t_send observes is not passed by t_connect either, for as
\* long as the lists of the node are whole.
TXAcotada ==
  \A n \in Nodos, i \in Celdas : rotas[n] \/ Len(CXs[n][i].TX) <= NUM_BUF_PKTS

\* Every buffer created is in one list, buffers_libres or the TX of one cell, for as
\* long as no list operation of the node has met an empty list.
BuffersConservados ==
  \A n \in Nodos :
    rotas[n] \/ heap[n] = Len(buffers_libres[n])
                            + MapThenSumSet(LAMBDA i : Len(CXs[n][i].TX), Celdas)

\* A list operation meets an empty list (the pop_front of t_connect, the --TX.end() of
\* an arriving CC) only after IP has duplicated a datagram: until then a CC answers a call
\* that waits, and there is a free index for each free cell.
RotaPorCopia == \A n \in Nodos : rotas[n] => copias > 0

\* The CC for a cell that waits for it finds the CR in TX, also in a cell that has
\* been refused and used again: the lists of a node are broken by the daemon only
\* with a CC that nobody waits for.
CCDePeticion ==
  [][\A n \in Nodos :
       ~rotas[n] /\ rotas'[n] /\ pc'[n] # pc[n]
         => CXs[n][celda'[n]].estado_cx # CONNECT]_vars

\* A t_connect or t_listen that returns an identifier returns that of a cell
\* established for its caller.
VueltaEstablecida ==
  [][\A a \in Apps :
       LET c == CXs[NodoDe[a]][celda[a]]
       IN  pc[a] = "lee" /\ marco[a].prim # "send" /\ pc'[a] = "fuera" /\ ret'[a] >= 0
             => c.estado_cx = ESTABLISHED /\ c.ap_pid = a]_vars

\* A barrier opens for the daemon and one application, never for two
\* applications: what ltmipcs.h says a barrier of this system is for.
BarreraDemonioApp ==
  [][\A n \in Nodos, i \in Celdas :
       barC[n][i] \in Apps /\ barC'[n][i] = Nadie
         => pc[n] = "barrera" /\ celda[n] = i /\ pc'[n] = "espera"]_vars

\* The semaphore of a node is closed only around an access to its data: between
\* the steps of a process only the loop of t_send is inside one.
SemaforoLiberado ==
  \A n \in Nodos : SEMAFORO[n] # Nadie => pc[SEMAFORO[n]] = "enviando"

\* No two cells of a node listen on the same local port.
ListenUnico ==
  \A n \in Nodos : \A i, j \in Celdas :
    i # j /\ CXs[n][i].estado_cx = LISTEN /\ CXs[n][j].estado_cx = LISTEN
      => CXs[n][i].puerto_origen # CXs[n][j].puerto_origen

\* EXCDUP is returned only when a connection that is in the table collides with
\* the one asked for.
Colisiona(c, m) ==
  \/ c.puerto_origen = AUint16(m.orig.puerto)
  \/ /\ m.prim = "connect" /\ c.ip_destino = m.dest.ip
     /\ c.puerto_destino = AUint16(m.dest.puerto)
DuplicadaPresente ==
  [][\A a \in Apps :
       pc[a] \in {"connect", "listen"} /\ pc'[a] = "fuera" /\ ret'[a] = EXCDUP
         => \E i \in Ocupadas(CXs[NodoDe[a]]) :
              Colisiona(CXs[NodoDe[a]][i], marco[a])]_vars

\* A process died with the semaphore of node n closed.
SemaforoHuerfano(n) == SEMAFORO[n] \in Procs /\ pc[SEMAFORO[n]] = "muerta"

\* The node stands still: a process died with the semaphore closed, or the daemon
\* has left it closed after a DATOS and blocks itself.
Parado(n) == SemaforoHuerfano(n) \/ SEMAFORO[n] = n

\* A t_connect or t_listen whose cell is established comes back to its application,
\* unless its node stands still: the wake-up, which comes after the critical section
\* that establishes the cell, does not go elsewhere and is not missed.
EstablecidaVuelve ==
  \A a \in Apps :
    EnBarrera(a) /\ marco[a].prim # "send"
        /\ CXs[NodoDe[a]][celda[a]].estado_cx = ESTABLISHED
      ~> pc[a] = "fuera" \/ Parado(NodoDe[a])

\* Without losses a t_connect gets its answer, unless a node stands still: the
\* refusal of a request is such a death, a DATOS received such a block.
ConnectVuelve ==
  \A a \in Apps :
    EnBarrera(a) /\ marco[a].prim = "connect"
      ~> pc[a] = "fuera" \/ \E n \in Nodos : Parado(n)
=============================================================================
