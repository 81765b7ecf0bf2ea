------------------------------- MODULE Ciclo -------------------------------
(***************************************************************************)
(* The life cycle of the shared segment of one machine: daemons that start, *)
(* serve, clean up or die (ltmdaemon.cc), applications that enter and leave *)
(* (ltmipcs.cc), and the child that each of them forks to obtain its raw    *)
(* socket (get_fd in comunicacion.c, ltm_getRAWfd.c).                       *)
(*                                                                         *)
(* The System V key of a segment is the inode of the key file, as ftok      *)
(* makes it; an inode that has been freed may be used again.                *)
(***************************************************************************)
EXTENDS Integers, FiniteSets

CONSTANTS
  Daemons,       \* processes that run ltmd, once each
  Apps,          \* application processes
  Inodos,        \* inodes that the file system may give to the key file
  SinFichero,    \* no file: ftok fails, and its -1 serves as a key
  Ids,           \* identifiers that shmget may give, in N, none given twice
  Nadie,         \* no process
  Fallos,        \* bound: what may fail, a subset of FallosPosibles
  Matables,      \* bound: processes that may be killed
  Operador,      \* the operator removes leftovers when no ltmd runs
  MAX_ENTRADAS   \* bound: calls of each application

Procs == Daemons \cup Apps
Claves == Inodos \cup {SinFichero}
FallosPosibles ==
  {"shmget", "shmat", "fork", "exec", "ayudante", "red", "protocolo"}

ASSUME SuposicionProcesos ==
  /\ Daemons \cap Apps = {} /\ Nadie \notin Daemons \cup Apps
  /\ Matables \subseteq Daemons \cup Apps
ASSUME SuposicionIds == Ids \subseteq Nat /\ SinFichero \notin Inodos
ASSUME SuposicionCotas ==
  Fallos \subseteq FallosPosibles /\ Operador \in BOOLEAN /\ MAX_ENTRADAS \in Nat

VARIABLES
  fichero,    \* inode of the key file (dir_proto), or SinFichero
  segs,       \* the segments
  pc,         \* where each process is
  shm_id1,    \* identifier held by each process; 0 where it has none yet
  adjunto,    \* the process has the segment attached
  iniciado,   \* the application has its raw socket
  hijo,       \* the child of get_fd
  mensaje,    \* the descriptor waits in the socket pair
  entradas    \* calls made by each application

vars == <<fichero, segs, pc, shm_id1, adjunto, iniciado, hijo, mensaje, entradas>>
memoria == <<fichero, segs>>
ayuda == <<hijo, mensaje>>
deApps == <<iniciado, entradas>>

-----------------------------------------------------------------------------
(* Segments *)

Segmento ==
  [estado : {"libre", "vivo", "marcado"},   \* never made; made; IPC_RMID
   clave : Claves,
   proto : {"cero", "valido", "invalido"},  \* KERNEL->i_red.LTM_PROTOCOL
   SEMAFORO : Procs \cup {Nadie}]

SegmentoLibre ==
  [estado |-> "libre", clave |-> SinFichero, proto |-> "cero", SEMAFORO |-> Nadie]

\* A segment that is marked lasts for as long as it is attached. The copy of a
\* process that fork made has the attachments of its parent.
Adjuntos(i) ==
  {p \in Procs : shm_id1[p] = i /\ (adjunto[p] \/ hijo[p] \in {"copia", "copia2"})}
Existe(i) == segs[i].estado = "vivo" \/ (segs[i].estado = "marcado" /\ Adjuntos(i) # {})

\* shmget with a key: IPC_RMID has taken the key from the marked ones.
ConClave(k) == {i \in Ids : segs[i].estado = "vivo" /\ segs[i].clave = k}

Sem(p) == segs[shm_id1[p]].SEMAFORO
ConSem(p, q) == [segs EXCEPT ![shm_id1[p]].SEMAFORO = q]

-----------------------------------------------------------------------------
(* Processes *)

FinDaemon == {"rechazado", "abortado", "limpio", "muerto"}
PCsDaemon ==
  {"inicio", "consulta", "crea", "adjunta", "bifurca", "recibe", "enlaza", "semaforo",
   "cierra", "prepara", "sirve", "limpia", "quita"} \cup FinDaemon
PCsApp ==
  {"fuera", "adjunta", "bifurca", "recibe", "enlaza", "semaforo", "critica", "barrera",
   "despierta", "vuelta", "muerto"}

Hijos == {"no", "copia", "copia2", "ayudante"}

\* A daemon that has been started and has not ended; so counts a child of it.
EnMarcha(d) == pc[d] \notin FinDaemon \cup {"inicio"} \/ hijo[d] # "no"

Va(p, destino) == pc' = [pc EXCEPT ![p] = destino]
Suelta(p) == adjunto' = [adjunto EXCEPT ![p] = FALSE]

Init ==
  /\ fichero = SinFichero
  /\ segs = [i \in Ids |-> SegmentoLibre]
  /\ pc = [p \in Procs |-> IF p \in Daemons THEN "inicio" ELSE "fuera"]
  /\ shm_id1 = [p \in Procs |-> 0]
  /\ adjunto = [p \in Procs |-> FALSE]
  /\ iniciado = [a \in Apps |-> FALSE]
  /\ hijo = [p \in Procs |-> "no"]
  /\ mensaje = [p \in Procs |-> FALSE]
  /\ entradas = [a \in Apps |-> 0]

-----------------------------------------------------------------------------
(* chequeo_inicial *)

\* Variant: the refused daemon removes the file.
AbreFicheroBorra(d) ==
  /\ pc[d] = "inicio"
  /\ \/ fichero # SinFichero /\ Va(d, "rechazado") /\ fichero' = SinFichero
     \/ fichero = SinFichero /\ fichero' \in Inodos /\ Va(d, "consulta")
  /\ UNCHANGED <<segs, shm_id1, adjunto, ayuda, deApps>>

\* open with O_CREAT | O_EXCL.
AbreFichero(d) ==
  /\ pc[d] = "inicio"
  /\ \/ fichero # SinFichero /\ Va(d, "rechazado") /\ UNCHANGED fichero
     \/ fichero = SinFichero /\ fichero' \in Inodos /\ Va(d, "consulta")
  /\ UNCHANGED <<segs, shm_id1, adjunto, ayuda, deApps>>

\* shmget without IPC_CREAT. Whoever aborts leaves the file that it has made.
ConsultaSegmento(d) ==
  /\ pc[d] = "consulta"
  /\ Va(d, IF ConClave(fichero) = {} THEN "crea" ELSE "abortado")
  /\ UNCHANGED <<memoria, shm_id1, adjunto, ayuda, deApps>>

-----------------------------------------------------------------------------
(* inicia_kernel: CreaMemoriaKERNEL *)

\* Variant: the error is not looked at.
CreaSegmentoSinMirar(d) ==
  /\ pc[d] = "crea"
  /\ shm_id1' = [shm_id1 EXCEPT ![d] = -1]
  /\ Va(d, "adjunta")
  /\ UNCHANGED <<memoria, adjunto, ayuda, deApps>>

\* shmget with IPC_CREAT | IPC_EXCL.
CreaSegmento(d) ==
  /\ pc[d] = "crea"
  /\ \/ /\ ConClave(fichero) # {} \/ "shmget" \in Fallos
        /\ Va(d, "abortado") /\ UNCHANGED <<segs, shm_id1>>
     \/ /\ ConClave(fichero) = {}
        /\ \E i \in {j \in Ids : segs[j].estado = "libre"} :
             /\ segs' = [segs EXCEPT ![i].estado = "vivo", ![i].clave = fichero]
             /\ shm_id1' = [shm_id1 EXCEPT ![d] = i]
        /\ Va(d, "adjunta")
  /\ UNCHANGED <<fichero, adjunto, ayuda, deApps>>

-----------------------------------------------------------------------------
(* inicia_ired *)

\* shmat at a fixed address, and what the daemon writes: zeros to everybody, until
\* LTM_PROTOCOL, which -p sets without a check.
Configura(d) ==
  /\ pc[d] = "adjunta"
  /\ \/ "shmat" \in Fallos /\ Va(d, "abortado") /\ UNCHANGED <<segs, adjunto>>
     \/ /\ \E v \in {"valido"} \cup (IF "protocolo" \in Fallos THEN {"invalido"} ELSE {}) :
             segs' = [segs EXCEPT ![shm_id1[d]].proto = v]
        /\ adjunto' = [adjunto EXCEPT ![d] = TRUE]
        /\ Va(d, "bifurca")
  /\ UNCHANGED <<fichero, shm_id1, ayuda, deApps>>

\* The local address, bind and the two handlers; an error cleans up.
Enlaza(d) ==
  /\ pc[d] = "enlaza"
  /\ \/ "red" \in Fallos /\ Va(d, "limpia")
     \/ Va(d, "semaforo")
  /\ UNCHANGED <<memoria, shm_id1, adjunto, ayuda, deApps>>

-----------------------------------------------------------------------------
(* get_fd and ltm_getRAWfd, for daemons and applications *)

\* fork and execl. The parent goes to recvmsg in every case; what it has as a
\* child is nothing (fork failed, or the helper ends without a word: a protocol,
\* as the segment holds it now, outside 140..252, no raw socket), a copy of
\* itself that goes on with -1 because execl failed, or a helper with a socket.
Bifurca(p) ==
  /\ pc[p] = "bifurca"
  /\ \/ /\ segs[shm_id1[p]].proto # "valido" \/ Fallos \cap {"fork", "ayudante"} # {}
        /\ UNCHANGED hijo
     \/ "exec" \in Fallos /\ hijo' = [hijo EXCEPT ![p] = "copia"]
     \/ segs[shm_id1[p]].proto = "valido" /\ hijo' = [hijo EXCEPT ![p] = "ayudante"]
  /\ Va(p, "recibe")
  /\ UNCHANGED <<memoria, shm_id1, adjunto, mensaje, deApps>>

\* The helper sends the socket and ends.
Ayudante(p) ==
  /\ hijo[p] = "ayudante"
  /\ hijo' = [hijo EXCEPT ![p] = "no"]
  /\ mensaje' = [mensaje EXCEPT ![p] = TRUE]
  /\ UNCHANGED <<memoria, pc, shm_id1, adjunto, deApps>>

\* The copy of a daemon cleans up (libera_recursos: unlink, then IPC_RMID if the
\* identifier is not 0); that of an application detaches and returns EXKERNEL.
CopiaDaemon(d) ==
  \/ /\ hijo[d] = "copia"
     /\ fichero' = SinFichero
     /\ hijo' = [hijo EXCEPT ![d] = "copia2"]
     /\ UNCHANGED <<segs, pc, shm_id1, adjunto, mensaje, deApps>>
  \/ /\ hijo[d] = "copia2"
     /\ segs' = [segs EXCEPT ![shm_id1[d]].estado = IF shm_id1[d] > 0 THEN "marcado" ELSE @]
     /\ hijo' = [hijo EXCEPT ![d] = "no"]
     /\ UNCHANGED <<fichero, pc, shm_id1, adjunto, mensaje, deApps>>
CopiaApp(a) ==
  /\ hijo[a] = "copia"
  /\ hijo' = [hijo EXCEPT ![a] = "no"]
  /\ UNCHANGED <<memoria, pc, shm_id1, adjunto, mensaje, deApps>>

\* recvmsg: both ends of the pair are open in the parent, so nothing else ends it.
Recibe(p) ==
  /\ pc[p] = "recibe" /\ mensaje[p]
  /\ mensaje' = [mensaje EXCEPT ![p] = FALSE]
  /\ Va(p, "enlaza")
  /\ UNCHANGED <<memoria, shm_id1, adjunto, hijo, deApps>>

-----------------------------------------------------------------------------
(* The start of bucle_principal *)

\* inicia_semaforo, on a mutex that an application may already have closed.
IniciaSemaforo(d) ==
  /\ pc[d] = "semaforo"
  /\ segs' = ConSem(d, Nadie)
  /\ Va(d, "cierra")
  /\ UNCHANGED <<fichero, shm_id1, adjunto, ayuda, deApps>>

Cierra(d) ==
  /\ pc[d] = "cierra" /\ Sem(d) = Nadie
  /\ segs' = ConSem(d, d)
  /\ Va(d, "prepara")
  /\ UNCHANGED <<fichero, shm_id1, adjunto, ayuda, deApps>>

\* Variant: no desbloquear_acceso.
PreparaSinAbrir(d) ==
  /\ pc[d] = "prepara"
  /\ Va(d, "sirve")
  /\ UNCHANGED <<memoria, shm_id1, adjunto, ayuda, deApps>>

\* The critical section that sets up the table, the barriers and the lists.
Prepara(d) ==
  /\ pc[d] = "prepara"
  /\ segs' = ConSem(d, Nadie)
  /\ Va(d, "sirve")
  /\ UNCHANGED <<fichero, shm_id1, adjunto, ayuda, deApps>>

-----------------------------------------------------------------------------
(* The end of a daemon *)

\* A daemon that serves a packet or a timer has the mutex closed: what takes it out of
\* there leaves the mutex as it is, open or closed.
DejaSemaforo(p) ==
  \/ UNCHANGED segs
  \/ pc[p] = "sirve" /\ Sem(p) = Nadie /\ segs' = ConSem(p, p)

\* Ctrl-C: RI_ctrC once it is installed; before that it kills the daemon and,
\* with it, the child in its group.
CtrlC(d) ==
  /\ pc[d] \notin FinDaemon \cup {"inicio", "limpia", "quita"}
  /\ IF pc[d] \in {"semaforo", "cierra", "prepara", "sirve"}
     THEN Va(d, "limpia") /\ UNCHANGED <<adjunto, hijo>>
     ELSE Va(d, "muerto") /\ Suelta(d) /\ hijo' = [hijo EXCEPT ![d] = "no"]
  /\ DejaSemaforo(d)
  /\ UNCHANGED <<fichero, shm_id1, mensaje, deApps>>

\* Variants: no unlink; no IPC_RMID; no exit after the clean-up.
LimpiaSinUnlink(d) ==
  /\ pc[d] = "limpia"
  /\ Va(d, "quita")
  /\ UNCHANGED <<memoria, shm_id1, adjunto, ayuda, deApps>>
QuitaSinMarcar(d) ==
  /\ pc[d] = "quita"
  /\ Va(d, "limpio") /\ Suelta(d)
  /\ UNCHANGED <<memoria, shm_id1, ayuda, deApps>>
QuitaYSigue(d) ==
  /\ pc[d] = "quita"
  /\ segs' = [segs EXCEPT ![shm_id1[d]].estado = IF shm_id1[d] > 0 THEN "marcado" ELSE @]
  /\ Va(d, "sirve") /\ Suelta(d)
  /\ UNCHANGED <<fichero, shm_id1, ayuda, deApps>>

\* libera_recursos and exit: unlink; then detach and IPC_RMID, except for the
\* identifier 0.
Limpia(d) ==
  /\ pc[d] = "limpia"
  /\ fichero' = SinFichero
  /\ Va(d, "quita")
  /\ UNCHANGED <<segs, shm_id1, adjunto, ayuda, deApps>>
Quita(d) ==
  /\ pc[d] = "quita"
  /\ segs' = [segs EXCEPT ![shm_id1[d]].estado = IF shm_id1[d] > 0 THEN "marcado" ELSE @]
  /\ Va(d, "limpio") /\ Suelta(d)
  /\ UNCHANGED <<fichero, shm_id1, ayuda, deApps>>

\* A kill that nothing can catch.
Muere(p) ==
  /\ p \in Matables /\ pc[p] \notin FinDaemon \cup {"inicio", "fuera"}
  /\ Va(p, "muerto") /\ Suelta(p)
  /\ DejaSemaforo(p)
  /\ UNCHANGED <<fichero, shm_id1, ayuda, deApps>>

\* What chequeo_inicial asks of its user, done while no ltmd runs: rm_sh removes
\* segments; the file has to be removed as well.
QuitaAMano ==
  /\ Operador /\ \A d \in Daemons : ~EnMarcha(d)
  /\ \/ /\ \E i \in Ids : /\ segs[i].estado = "vivo"
                          /\ segs' = [segs EXCEPT ![i].estado = "marcado"]
        /\ UNCHANGED fichero
     \/ fichero # SinFichero /\ fichero' = SinFichero /\ UNCHANGED segs
  /\ UNCHANGED <<pc, shm_id1, adjunto, ayuda, deApps>>

-----------------------------------------------------------------------------
(* An application: ltm_get_kernel, a critical section and, in some calls, the  *)
(* barrier and a second one, ltm_exit_kernel                                   *)

\* The identifier is looked up until the first success, and never again. A call
\* that finds no segment returns EXKERNEL and leaves no trace.
Entra(a) ==
  /\ pc[a] = "fuera" /\ entradas[a] < MAX_ENTRADAS
  /\ \/ iniciado[a] /\ UNCHANGED shm_id1
     \/ ~iniciado[a] /\ \E i \in ConClave(fichero) : shm_id1' = [shm_id1 EXCEPT ![a] = i]
  /\ entradas' = [entradas EXCEPT ![a] = @ + 1]
  /\ Va(a, "adjunta")
  /\ UNCHANGED <<memoria, adjunto, iniciado, ayuda>>

\* shmat succeeds on a marked segment that still exists.
AdjuntaApp(a) ==
  /\ pc[a] = "adjunta"
  /\ \/ /\ ~Existe(shm_id1[a]) \/ "shmat" \in Fallos
        /\ Va(a, "fuera") /\ UNCHANGED adjunto
     \/ /\ Existe(shm_id1[a])
        /\ adjunto' = [adjunto EXCEPT ![a] = TRUE]
        /\ Va(a, IF iniciado[a] THEN "semaforo" ELSE "bifurca")
  /\ UNCHANGED <<memoria, shm_id1, ayuda, deApps>>

\* bind, whose failure ends the application.
EnlazaApp(a) ==
  /\ pc[a] = "enlaza"
  /\ \/ "red" \in Fallos /\ Va(a, "muerto") /\ Suelta(a) /\ UNCHANGED iniciado
     \/ /\ iniciado' = [iniciado EXCEPT ![a] = TRUE]
        /\ Va(a, "semaforo") /\ UNCHANGED adjunto
  /\ UNCHANGED <<memoria, shm_id1, ayuda, entradas>>

BloqueaAcceso(a) ==
  /\ pc[a] \in {"semaforo", "despierta"} /\ Sem(a) = Nadie
  /\ segs' = ConSem(a, a)
  /\ Va(a, IF pc[a] = "semaforo" THEN "critica" ELSE "vuelta")
  /\ UNCHANGED <<fichero, shm_id1, adjunto, ayuda, deApps>>

\* Variant: bloquea_llamada before desbloquear_acceso.
DuermeSinAbrir(a) ==
  /\ pc[a] = "critica"
  /\ Va(a, "barrera")
  /\ UNCHANGED <<memoria, shm_id1, adjunto, ayuda, deApps>>

\* t_connect, t_listen and a t_send without room open the mutex and wait at the
\* barrier of a cell, attached.
Duerme(a) ==
  /\ pc[a] = "critica"
  /\ segs' = ConSem(a, Nadie)
  /\ Va(a, "barrera")
  /\ UNCHANGED <<fichero, shm_id1, adjunto, ayuda, deApps>>

\* The daemon of that segment, and no other, opens the barrier: it serves, in a
\* critical section, a packet for the cell.
Despierta(d, a) ==
  /\ pc[a] = "barrera" /\ pc[d] = "sirve" /\ shm_id1[d] = shm_id1[a] /\ Sem(d) = Nadie
  /\ Va(a, "despierta")
  /\ UNCHANGED <<memoria, shm_id1, adjunto, ayuda, deApps>>

\* Variant: out without desbloquear_acceso.
SaleSinAbrir(a) ==
  /\ pc[a] \in {"critica", "vuelta"}
  /\ Va(a, "fuera") /\ Suelta(a)
  /\ UNCHANGED <<memoria, shm_id1, ayuda, deApps>>

\* The call opens the mutex and goes, from its only critical section or from the
\* one after the barrier: shmdt. pthread_mutex_unlock opens it whoever has it.
Sale(a) ==
  /\ pc[a] \in {"critica", "vuelta"}
  /\ segs' = ConSem(a, Nadie)
  /\ Va(a, "fuera") /\ Suelta(a)
  /\ UNCHANGED <<fichero, shm_id1, ayuda, deApps>>

-----------------------------------------------------------------------------
Obtiene(p) == Bifurca(p) \/ Ayudante(p) \/ Recibe(p)
Arranque(d) ==
  \/ ConsultaSegmento(d) \/ CreaSegmento(d) \/ Configura(d) \/ Enlaza(d)
  \/ IniciaSemaforo(d) \/ Cierra(d) \/ Prepara(d)
PasoDaemon(d) == Arranque(d) \/ CopiaDaemon(d) \/ Limpia(d) \/ Quita(d)
PasoApp(a) ==
  \/ AdjuntaApp(a) \/ CopiaApp(a) \/ EnlazaApp(a)
  \/ BloqueaAcceso(a) \/ Duerme(a) \/ Sale(a)

Next ==
  \/ \E d \in Daemons : AbreFichero(d) \/ PasoDaemon(d) \/ Obtiene(d) \/ CtrlC(d)
  \/ \E a \in Apps : Entra(a) \/ PasoApp(a) \/ Obtiene(a)
  \/ \E d \in Daemons, a \in Apps : Despierta(d, a)
  \/ \E p \in Procs : Muere(p)
  \/ QuitaAMano

Spec == Init /\ [][Next]_vars

\* A process inside the code goes on. Nobody is obliged to start a daemon, to
\* call a primitive, to stop or kill a process or to remove anything, and no packet
\* that would open a barrier has to come.
Equidad ==
  /\ \A d \in Daemons : WF_vars(PasoDaemon(d)) /\ WF_vars(Obtiene(d))
  /\ \A a \in Apps : WF_vars(PasoApp(a)) /\ WF_vars(Obtiene(a))
SpecViva == Spec /\ Equidad
=============================================================================
