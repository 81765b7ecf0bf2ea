----------------------------- MODULE CicloProp -----------------------------
(***************************************************************************)
(* What the life cycle of module Ciclo has to satisfy.                      *)
(***************************************************************************)
EXTENDS Ciclo

\* The values of the variables.
TypeOK ==
  /\ fichero \in Claves
  /\ segs \in [Ids -> Segmento]
  /\ pc \in [Procs -> PCsDaemon \cup PCsApp]
  /\ shm_id1 \in [Procs -> Ids \cup {0}]
  /\ adjunto \in [Procs -> BOOLEAN]
  /\ iniciado \in [Apps -> BOOLEAN]
  /\ hijo \in [Procs -> Hijos]
  /\ mensaje \in [Procs -> BOOLEAN]
  /\ entradas \in [Apps -> 0 .. MAX_ENTRADAS]

\* A daemon that serves can be found: the key file leads to its segment and to no
\* other, in spite of failed starts, deaths, clean-ups and inodes used again.
SirveAlcanzable ==
  \A d \in Daemons :
    pc[d] = "sirve" => fichero # SinFichero /\ ConClave(fichero) = {shm_id1[d]}

\* At most one daemon serves a machine (chequeo_inicial), whatever fails.
UnSoloServidor ==
  \A d, e \in Daemons : pc[d] = "sirve" /\ pc[e] = "sirve" => d = e

\* When every daemon has ended by its own clean-up, or was refused by the file of
\* another, nothing is left: neither the file nor a segment, except one with
\* identifier 0, which LiberaMemoriaKERNEL takes for none.
LimpiezaCompleta ==
  (\A d \in Daemons : pc[d] \in {"inicio", "rechazado", "limpio"} /\ hijo[d] = "no")
    => fichero = SinFichero /\ \A i \in Ids : segs[i].estado = "vivo" => i = 0

\* What a daemon that has just made the file finds under its key is explained: a
\* daemon (or its copy) between unlink and IPC_RMID, one that ended without
\* cleaning up, or identifier 0.
RestoConCausa ==
  \A d \in Daemons : pc[d] = "consulta" /\ ConClave(fichero) # {} =>
    \/ 0 \in ConClave(fichero)
    \/ \E e \in Daemons \ {d} : pc[e] \in {"quita", "abortado", "muerto"} \/ hijo[e] = "copia2"

\* A daemon never loses its place to another: the key file that a daemon made goes
\* away only by its own clean-up, or by hand when no daemon runs.
FicheroDeSuDueno ==
  [][fichero # SinFichero /\ fichero' # fichero =>
       \/ \A d \in Daemons : ~EnMarcha(d)
       \/ \E d \in Daemons : /\ pc[d] = "limpia" \/ hijo[d] = "copia"
                             /\ ConClave(fichero) \subseteq {shm_id1[d]}]_vars

\* A daemon that has made its file ends up serving, or ends: not even an
\* application that enters while the semaphore is being set up stops it.
ArrancaOTermina ==
  \A d \in Daemons : pc[d] = "consulta" ~> pc[d] \in FinDaemon \cup {"sirve"}

\* A daemon has ended with the semaphore of the segment closed.
SemaforoHuerfano(a) == Sem(a) \in Daemons /\ pc[Sem(a)] \in FinDaemon

\* A call on a configured segment comes out of it or gets to its barrier, and one that
\* has been woken there comes out: in the first entry of an application and in the later
\* ones, which go to the segment of the first whatever became of its daemon. The
\* exception is a daemon that has ended inside its critical section.
LlamadaNoSeAtasca ==
  \A a \in Apps :
    pc[a] \in {"adjunta", "bifurca", "despierta"} /\ segs[shm_id1[a]].proto = "valido"
      ~> pc[a] \in {"fuera", "barrera"} \/ SemaforoHuerfano(a)

-----------------------------------------------------------------------------
(* Statements of the documentation that the code does not meet *)

\* ltmipcs.h:60-66: bloquear_acceso closes the way into a critical region. While
\* the daemon sets the table up, no application is in a critical region of it.
ExclusionArranque ==
  \A a \in Apps, d \in Daemons :
    ~ (pc[a] \in {"critica", "vuelta"} /\ pc[d] = "prepara" /\ shm_id1[a] = shm_id1[d])

\* comunicacion.c:88-91 and 55-58, ltmipcs.cc:107-111: a process that obtains no socket
\* (because the segment is not ready, or the helper fails) gets -1 from get_fd,
\* reports it and gives up: it does not stay there.
GetFdVuelve == \A p \in Procs : pc[p] = "recibe" ~> pc[p] # "recibe"
=============================================================================
