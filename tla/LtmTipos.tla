------------------------------ MODULE LtmTipos ------------------------------
(***************************************************************************)
(* The data of the LTM transport: error codes (ltmtypes.h, ltmtypes.c),     *)
(* addresses, TPDUs, connection cells and the pure look-ups that the        *)
(* primitives (INTERFAZ.cc) and the daemon (BPRINCIPAL.cc) make on the      *)
(* connection table (FUNCP.cc).                                             *)
(*                                                                         *)
(* A node is one machine with one daemon, so a node stands for its IP       *)
(* address and for the pid of its daemon; an application is a process with  *)
(* one thread, attached to the shared memory of its node.                   *)
(***************************************************************************)
EXTENDS Integers, Sequences, FiniteSets, FiniteSetsExt, Bags

CONSTANTS
  Nodos,          \* machines: the IP address and the daemon of each
  Apps,           \* application processes
  NodoDe,         \* the node each application runs on
  IPNula,         \* s_addr = 0
  Nadie,          \* no process: semaphore open, nobody at a barrier
  NUM_MAX_CXs,    \* cells of the connection table (8)
  NUM_BUF_PKTS,   \* limit of a TX list (-n of ltmd, 100)
  MAX_HEAP,       \* buf_pkt nodes that fit in the shared heap (428)
  Destinos,       \* bound: TSAPs that t_connect is called with
  Origenes,       \* bound: local TSAPs that t_connect is called with
  Escuchas,       \* bound: local TSAPs that t_listen is called with
  Remotas,        \* bound: remote TSAPs that t_listen is called with
  PuertosLibres   \* bound: values that rand() yields, within 1..32767

\* ltmtypes.c
EXOK == 0
EXBADTID == -1
EXCDUP == -2
EXNOTSAP == -6
EXINVA == -9
EXMAXC == -10

\* CONFP.h: types of TPDU and states of a connection
CR == 101
CC == 102
DATOS == 103
CLOSED == 201
LISTEN == 202
CONNECT == 203
ESTABLISHED == 204

Procs == Apps \cup Nodos
IPs == Nodos \cup {IPNula}
Celdas == 0 .. NUM_MAX_CXs - 1
Int16 == -32768 .. 32767
Uint16 == 0 .. 65535
Errores == {EXBADTID, EXCDUP, EXNOTSAP, EXINVA, EXMAXC}

\* The node whose shared memory process p works on.
Nodo(p) == IF p \in Apps THEN NodoDe[p] ELSE p

-----------------------------------------------------------------------------
\* t_direccion holds the port in an int16_t; the cells and the TPDU header
\* hold it in a uint16_t.
Tsap == [ip : IPs, puerto : Int16]
AUint16(p) == p % 65536
AInt16(p) == IF p > 32767 THEN p - 65536 ELSE p

Tpdu == [tipo : {0, CR, CC, DATOS},
         id_local : Celdas \cup {EXNOTSAP}, id_destino : Celdas,
         puerto_orig : Uint16, puerto_dest : Uint16,
         ip_local : IPs, ip_destino : IPs,
         conexion_aceptada : {EXOK, 1, EXNOTSAP}]

\* What goes out when the frame of buscar_buffer_libre has been overwritten
\* between crear_pkt and sendto: a header of zeros, of no known type.
TpduBasura ==
  [tipo |-> 0, id_local |-> 0, id_destino |-> 0,
   puerto_orig |-> 0, puerto_dest |-> 0, ip_local |-> IPNula,
   ip_destino |-> IPNula, conexion_aceptada |-> 0]

\* A TPDU in its IP datagram; the bag with one more or one less of it.
Paquete == [de : Nodos, a : Nodos, tpdu : Tpdu]
ConPaquete(bolsa, m) == bolsa (+) SetToBag({m})
SinPaquete(bolsa, m) == bolsa (-) SetToBag({m})

\* crear_pkt fills the header from the two TSAPs and the two identifiers;
\* conexion_aceptada is whatever its caller left there.
crear_pkt(tipo, destino, origen, id_local, id_destino, aceptada) ==
  [tipo |-> tipo, id_local |-> id_local, id_destino |-> id_destino,
   puerto_orig |-> AUint16(origen.puerto),
   puerto_dest |-> AUint16(destino.puerto),
   ip_local |-> origen.ip, ip_destino |-> destino.ip,
   conexion_aceptada |-> aceptada]

-----------------------------------------------------------------------------
\* A list of buffers, each named by the process that created the node: its field
\* pkt points into the stack of that process. Nadie: a node that is no buffer.
Lista == Seq(Procs \cup {Nadie})

Conexion == [ap_pid : Apps \cup {Nadie},
             celda_ocupada : {0, 1},
             estado_cx : {CLOSED, LISTEN, CONNECT, ESTABLISHED},
             resultado_peticion : {EXOK, EXNOTSAP},
             ip_local : IPs, puerto_origen : Uint16,
             ip_destino : IPs, puerto_destino : Uint16,
             id_destino : Celdas, TX : Lista]

\* The TSAPs of a connection, back in a t_direccion.
TsapLocal(c) == [ip |-> c.ip_local, puerto |-> AInt16(c.puerto_origen)]
TsapRemoto(c) == [ip |-> c.ip_destino, puerto |-> AInt16(c.puerto_destino)]

\* A cell of the fresh segment: zeros, then CLOSED and an empty list.
CeldaInicial ==
  [ap_pid |-> Nadie, celda_ocupada |-> 0, estado_cx |-> CLOSED,
   resultado_peticion |-> EXOK, ip_local |-> IPNula, puerto_origen |-> 0,
   ip_destino |-> IPNula, puerto_destino |-> 0, id_destino |-> 0,
   TX |-> <<>>]

Libres(cxs) == {i \in Celdas : cxs[i].celda_ocupada = 0}
Ocupadas(cxs) == {i \in Celdas : cxs[i].celda_ocupada # 0}

\* Variant: the occupied cells are not skipped.
buscar_celda_libreCero(cxs) == 0

\* The lowest free cell; cell 0 when there is none.
buscar_celda_libre(cxs) == IF Libres(cxs) = {} THEN 0 ELSE Min(Libres(cxs))

\* The ports that buscar_puerto_libre may settle on.
buscar_puerto_libre(cxs) ==
  {p \in PuertosLibres : \A i \in Celdas : cxs[i].puerto_origen # p}

\* A uint16_t compared with an int16_t: both are promoted to int, so a port
\* above 32767 (negative in a t_direccion) never matches.
MismoPuerto(puerto, tsap) == puerto = tsap.puerto

\* Variants: the local port left out; the loop started at 1.
buscar_connect_repetidoDestino(cxs, origen, destino) ==
  \E i \in Celdas :
    cxs[i].ip_destino = destino.ip /\ MismoPuerto(cxs[i].puerto_destino, destino)
buscar_connect_repetidoDesdeUno(cxs, origen, destino) ==
  \E i \in Celdas \ {0} :
    \/ cxs[i].ip_destino = destino.ip /\ MismoPuerto(cxs[i].puerto_destino, destino)
    \/ MismoPuerto(cxs[i].puerto_origen, origen)

\* Every cell takes part, whether it is occupied or not.
buscar_connect_repetido(cxs, origen, destino) ==
  \E i \in Celdas :
    \/ cxs[i].ip_destino = destino.ip /\ MismoPuerto(cxs[i].puerto_destino, destino)
    \/ MismoPuerto(cxs[i].puerto_origen, origen)

\* Variant: the remote port compared too.
buscar_listen_repetidoRemoto(cxs, escucha) ==
  \E i \in Celdas : \/ MismoPuerto(cxs[i].puerto_origen, escucha)
                    \/ MismoPuerto(cxs[i].puerto_destino, escucha)

buscar_listen_repetido(cxs, escucha) ==
  \E i \in Celdas : MismoPuerto(cxs[i].puerto_origen, escucha)

\* Variant: the remote port that a listener names is not looked at.
CandidatasSinPuerto(cxs, t) ==
  {i \in Celdas :
     /\ cxs[i].ip_local = t.ip_destino
     /\ cxs[i].puerto_origen = t.puerto_dest
     /\ cxs[i].estado_cx = LISTEN
     /\ cxs[i].ip_destino \in {IPNula, t.ip_local}}

\* The listeners that a connection request may be given to.
Candidatas(cxs, t) ==
  {i \in Celdas :
     /\ cxs[i].ip_local = t.ip_destino
     /\ cxs[i].puerto_origen = t.puerto_dest
     /\ cxs[i].estado_cx = LISTEN
     /\ \/ cxs[i].ip_destino = IPNula /\ cxs[i].puerto_destino = 0
        \/ cxs[i].ip_destino = t.ip_local /\ cxs[i].puerto_destino = 0
        \/ cxs[i].ip_destino = t.ip_local /\ cxs[i].puerto_destino = t.puerto_orig}

asign_conexion_CR(cxs, t) ==
  IF Candidatas(cxs, t) = {} THEN EXNOTSAP ELSE Min(Candidatas(cxs, t))

-----------------------------------------------------------------------------
\* comprobar_parametros: a null local address becomes the address of the
\* node; t_connect needs a destination, t_listen a local port.
ConIPLocal(n, tsap) == IF tsap.ip = IPNula THEN [tsap EXCEPT !.ip = n] ELSE tsap
DestinoValido(destino) == destino.puerto # 0 /\ destino.ip # IPNula
EscuchaValida(escucha) == escucha.puerto # 0

ASSUME SuposicionProcesos ==
  /\ IsFiniteSet(Nodos) /\ IsFiniteSet(Apps)
  /\ Apps \cap Nodos = {}
  /\ Nadie \notin Apps \cup Nodos
  /\ IPNula \notin Nodos
  /\ NodoDe \in [Apps -> Nodos]

ASSUME SuposicionCotas ==
  /\ NUM_MAX_CXs \in Nat \ {0}
  /\ NUM_BUF_PKTS \in Nat
  /\ MAX_HEAP \in Nat

ASSUME SuposicionEntradas ==
  /\ Destinos \subseteq Tsap /\ Origenes \subseteq Tsap
  /\ Escuchas \subseteq Tsap /\ Remotas \subseteq Tsap

\* What rand() yields: a positive value that an int16_t holds.
ASSUME SuposicionPuertos ==
  \A p \in PuertosLibres : p \in Nat /\ 1 <= p /\ p <= 32767
=============================================================================
