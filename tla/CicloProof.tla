----------------------------- MODULE CicloProof -----------------------------
(***************************************************************************)
(* Proofs about the life cycle of module Ciclo, for any number of daemons,  *)
(* applications, inodes and identifiers and whatever fails or is killed.    *)
(***************************************************************************)
EXTENDS CicloProp, TLAPS

-----------------------------------------------------------------------------
(* The inductive invariant.                                                 *)

\* A daemon that has its segment, and the place that the key file stands for. A
\* copy of a daemon has it until it unlinks the file; a daemon in "recibe" whose copy
\* has not, for as long as it waits, even if the socket cannot come any more.
Espera(d) ==
  /\ pc[d] = "recibe" /\ hijo[d] # "copia2"
  /\ \/ mensaje[d] \/ hijo[d] = "ayudante"
     \/ shm_id1[d] # 0 /\ segs[shm_id1[d]].estado = "vivo"
Hecho(d) ==
  \/ pc[d] \in {"adjunta", "bifurca", "enlaza", "semaforo", "cierra", "prepara",
                "sirve", "limpia"}
  \/ Espera(d) \/ hijo[d] = "copia"
Ocupa(d) == pc[d] \in {"consulta", "crea"} \/ Hecho(d)

\* The child of a daemon, and its message, outlive nothing but "recibe".
HijoEnRecibe ==
  \A d \in Daemons :
    /\ hijo[d] # "no" => pc[d] \in {"recibe", "muerto"}
    /\ mensaje[d] => hijo[d] = "no" /\ pc[d] \in {"recibe", "muerto"}

\* No two daemons hold the same identifier, except 0, which is also "none yet".
IdsPropias ==
  \A d \in Daemons : shm_id1[d] # 0 =>
    /\ segs[shm_id1[d]].estado # "libre"
    /\ \A e \in Daemons : e # d => shm_id1[e] # shm_id1[d]

UnSoloLugar == \A d, e \in Daemons : Ocupa(d) /\ Ocupa(e) => d = e
LugarConFichero == \A d \in Daemons : Ocupa(d) => fichero # SinFichero
LugarConSegmento ==
  \A d \in Daemons : /\ pc[d] = "crea" => ConClave(fichero) = {}
                     /\ Hecho(d) => ConClave(fichero) = {shm_id1[d]}

Lugar == HijoEnRecibe /\ IdsPropias /\ UnSoloLugar /\ LugarConFichero /\ LugarConSegmento
IInv == TypeOK /\ Lugar

LEMMA ServidorDeIInv == IInv => UnSoloServidor /\ SirveAlcanzable
BY DEF IInv, Lugar, UnSoloLugar, LugarConFichero, LugarConSegmento, Ocupa, Hecho, Espera,
       UnSoloServidor, SirveAlcanzable

-----------------------------------------------------------------------------
(* Type correctness.                                                        *)

\* A semaphore of a segment is written: the rest of the segments stays.
LEMMA ConSemTipo ==
  ASSUME segs \in [Ids -> Segmento], NEW p \in Procs, NEW q \in Procs \cup {Nadie}
  PROVE  /\ ConSem(p, q) \in [Ids -> Segmento]
         /\ \A i \in Ids : /\ ConSem(p, q)[i].estado = segs[i].estado
                           /\ ConSem(p, q)[i].clave = segs[i].clave
BY DEF ConSem, Segmento

\* A daemon that ends leaves the semaphore as it is, or closed.
LEMMA DejaTipo ==
  ASSUME segs \in [Ids -> Segmento], NEW p \in Procs, DejaSemaforo(p)
  PROVE  /\ segs' \in [Ids -> Segmento]
         /\ \A i \in Ids : /\ segs'[i].estado = segs[i].estado
                           /\ segs'[i].clave = segs[i].clave
BY ConSemTipo DEF DejaSemaforo

\* A segment is marked, or left alone if its identifier is not above 0.
LEMMA MarcaTipo ==
  ASSUME segs \in [Ids -> Segmento], NEW j
  PROVE  [segs EXCEPT ![j].estado = IF j > 0 THEN "marcado" ELSE @] \in [Ids -> Segmento]
BY DEF Segmento

\* A segment is made, and its protocol written.
LEMMA CreaTipo ==
  ASSUME segs \in [Ids -> Segmento], fichero \in Claves, NEW j \in Ids
  PROVE  [segs EXCEPT ![j].estado = "vivo", ![j].clave = fichero] \in [Ids -> Segmento]
<1>1. [segs[j] EXCEPT !.estado = "vivo", !.clave = fichero] \in Segmento
  BY DEF Segmento
<1>2. [segs EXCEPT ![j] = [segs[j] EXCEPT !.estado = "vivo", !.clave = fichero]]
        \in [Ids -> Segmento]
  BY <1>1
<1>q. QED
  BY <1>2

LEMMA ProtoTipo ==
  ASSUME segs \in [Ids -> Segmento], NEW v \in {"valido", "invalido"}, NEW j
  PROVE  [segs EXCEPT ![j].proto = v] \in [Ids -> Segmento]
BY DEF Segmento

LEMMA InitTipo == Init => TypeOK
BY SuposicionProcesos, SuposicionCotas
DEF Init, TypeOK, SegmentoLibre, Segmento, Claves, Procs, PCsDaemon, PCsApp, FinDaemon, Hijos

LEMMA TipoPaso == TypeOK /\ [Next]_vars => TypeOK'
<1> SUFFICES ASSUME TypeOK, [Next]_vars PROVE TypeOK'
  OBVIOUS
<1> USE DEF TypeOK, Va, memoria, ayuda, deApps
<1>p. /\ Daemons \subseteq Procs /\ Apps \subseteq Procs
      /\ "no" \in Hijos /\ "copia" \in Hijos /\ "copia2" \in Hijos /\ "ayudante" \in Hijos
  BY DEF Procs, Hijos
<1>AbreFichero. ASSUME NEW d \in Daemons, AbreFichero(d) PROVE TypeOK'
  BY <1>AbreFichero, <1>p DEF AbreFichero, PCsDaemon, PCsApp, FinDaemon, Segmento, Claves
<1>ConsultaSegmento. ASSUME NEW d \in Daemons, ConsultaSegmento(d) PROVE TypeOK'
  BY <1>ConsultaSegmento, <1>p DEF ConsultaSegmento, PCsDaemon, PCsApp, FinDaemon, ConClave
<1>CreaSegmento. ASSUME NEW d \in Daemons, CreaSegmento(d) PROVE TypeOK'
  <2> USE <1>CreaSegmento DEF CreaSegmento
  <2>1. segs' \in [Ids -> Segmento]
    <3>1. CASE UNCHANGED segs
      BY <3>1
    <3>2. ASSUME NEW i \in Ids, segs' = [segs EXCEPT ![i].estado = "vivo", ![i].clave = fichero]
          PROVE  segs' \in [Ids -> Segmento]
      BY <3>2, CreaTipo
    <3>3. QED
      BY <3>1, <3>2
  <2>2. pc' \in [Procs -> PCsDaemon \cup PCsApp]
    BY DEF PCsDaemon, PCsApp, FinDaemon
  <2>3. shm_id1' \in [Procs -> Ids \cup {0}]
    OBVIOUS
  <2>4. QED
    BY <2>1, <2>2, <2>3
<1>Configura. ASSUME NEW d \in Daemons, Configura(d) PROVE TypeOK'
  <2> USE <1>Configura DEF Configura
  <2>1. segs' \in [Ids -> Segmento]
    <3>1. CASE UNCHANGED segs
      BY <3>1
    <3>2. ASSUME NEW v \in {"valido", "invalido"}, segs' = [segs EXCEPT ![shm_id1[d]].proto = v]
          PROVE  segs' \in [Ids -> Segmento]
      BY <3>2, ProtoTipo
    <3>3. QED
      BY <3>1, <3>2
  <2>2. pc' \in [Procs -> PCsDaemon \cup PCsApp]
    BY DEF PCsDaemon, PCsApp, FinDaemon
  <2>3. adjunto' \in [Procs -> BOOLEAN]
    OBVIOUS
  <2>4. QED
    BY <2>1, <2>2, <2>3
<1>Enlaza. ASSUME NEW d \in Daemons, Enlaza(d) PROVE TypeOK'
  BY <1>Enlaza, <1>p DEF Enlaza, PCsDaemon, PCsApp, FinDaemon
<1>CopiaDaemon. ASSUME NEW d \in Daemons, CopiaDaemon(d) PROVE TypeOK'
  BY <1>CopiaDaemon, <1>p, MarcaTipo DEF CopiaDaemon, PCsDaemon, PCsApp, FinDaemon, Segmento, Claves
<1>IniciaSemaforo. ASSUME NEW d \in Daemons, IniciaSemaforo(d) PROVE TypeOK'
  BY <1>IniciaSemaforo, <1>p, ConSemTipo DEF IniciaSemaforo, PCsDaemon, PCsApp, FinDaemon
<1>Cierra. ASSUME NEW d \in Daemons, Cierra(d) PROVE TypeOK'
  BY <1>Cierra, <1>p, ConSemTipo DEF Cierra, PCsDaemon, PCsApp, FinDaemon, Sem
<1>Prepara. ASSUME NEW d \in Daemons, Prepara(d) PROVE TypeOK'
  BY <1>Prepara, <1>p, ConSemTipo DEF Prepara, PCsDaemon, PCsApp, FinDaemon
<1>Limpia. ASSUME NEW d \in Daemons, Limpia(d) PROVE TypeOK'
  BY <1>Limpia, <1>p DEF Limpia, PCsDaemon, PCsApp, FinDaemon, Segmento, Claves
<1>Quita. ASSUME NEW d \in Daemons, Quita(d) PROVE TypeOK'
  BY <1>Quita, <1>p, MarcaTipo DEF Quita, PCsDaemon, PCsApp, FinDaemon, Suelta
<1>CtrlC. ASSUME NEW d \in Daemons, CtrlC(d) PROVE TypeOK'
  BY <1>CtrlC, <1>p, DejaTipo DEF CtrlC, PCsDaemon, PCsApp, FinDaemon, Suelta
<1>Bifurca. ASSUME NEW p \in Procs, Bifurca(p) PROVE TypeOK'
  BY <1>Bifurca, <1>p DEF Bifurca, PCsDaemon, PCsApp, FinDaemon
<1>Ayudante. ASSUME NEW p \in Procs, Ayudante(p) PROVE TypeOK'
  BY <1>Ayudante, <1>p DEF Ayudante, PCsDaemon, PCsApp, FinDaemon
<1>Recibe. ASSUME NEW p \in Procs, Recibe(p) PROVE TypeOK'
  BY <1>Recibe, <1>p DEF Recibe, PCsDaemon, PCsApp, FinDaemon
<1>Muere. ASSUME NEW p \in Procs, Muere(p) PROVE TypeOK'
  BY <1>Muere, <1>p, DejaTipo DEF Muere, PCsDaemon, PCsApp, FinDaemon, Suelta
<1>Entra. ASSUME NEW a \in Apps, Entra(a) PROVE TypeOK'
  BY <1>Entra, <1>p, SuposicionCotas DEF Entra, PCsDaemon, PCsApp, FinDaemon, ConClave
<1>AdjuntaApp. ASSUME NEW a \in Apps, AdjuntaApp(a) PROVE TypeOK'
  BY <1>AdjuntaApp, <1>p DEF AdjuntaApp, PCsDaemon, PCsApp, FinDaemon, Existe
<1>CopiaApp. ASSUME NEW a \in Apps, CopiaApp(a) PROVE TypeOK'
  BY <1>CopiaApp, <1>p DEF CopiaApp, PCsDaemon, PCsApp, FinDaemon
<1>EnlazaApp. ASSUME NEW a \in Apps, EnlazaApp(a) PROVE TypeOK'
  BY <1>EnlazaApp, <1>p DEF EnlazaApp, PCsDaemon, PCsApp, FinDaemon, Suelta
<1>BloqueaAcceso. ASSUME NEW a \in Apps, BloqueaAcceso(a) PROVE TypeOK'
  BY <1>BloqueaAcceso, <1>p, ConSemTipo DEF BloqueaAcceso, PCsDaemon, PCsApp, FinDaemon, Sem
<1>Duerme. ASSUME NEW a \in Apps, Duerme(a) PROVE TypeOK'
  BY <1>Duerme, <1>p, ConSemTipo DEF Duerme, PCsDaemon, PCsApp, FinDaemon
<1>Despierta. ASSUME NEW d \in Daemons, NEW a \in Apps, Despierta(d, a) PROVE TypeOK'
  BY <1>Despierta, <1>p DEF Despierta, PCsDaemon, PCsApp, FinDaemon
<1>Sale. ASSUME NEW a \in Apps, Sale(a) PROVE TypeOK'
  BY <1>Sale, <1>p, ConSemTipo DEF Sale, PCsDaemon, PCsApp, FinDaemon, Suelta
<1>QuitaAMano. CASE QuitaAMano
  BY <1>QuitaAMano DEF QuitaAMano, Segmento, Claves
<1>quieto. CASE UNCHANGED vars
  BY <1>quieto DEF vars
<1>q. QED
  BY <1>p, <1>AbreFichero, <1>ConsultaSegmento, <1>CreaSegmento, <1>Configura, <1>Enlaza,
     <1>CopiaDaemon, <1>IniciaSemaforo, <1>Cierra, <1>Prepara, <1>Limpia, <1>Quita, <1>CtrlC,
     <1>Bifurca, <1>Ayudante, <1>Recibe, <1>Muere, <1>Entra, <1>AdjuntaApp, <1>CopiaApp,
     <1>EnlazaApp, <1>BloqueaAcceso, <1>Duerme, <1>Despierta, <1>Sale, <1>QuitaAMano, <1>quieto
  DEF Next, PasoDaemon, Arranque, Obtiene, PasoApp

-----------------------------------------------------------------------------
(* The place of a daemon.                                                   *)

\* Nobody has a place at the beginning.
LEMMA InitLugar == Init => Lugar
BY SuposicionProcesos
DEF Init, Lugar, HijoEnRecibe, IdsPropias, UnSoloLugar, LugarConFichero, LugarConSegmento,
    Ocupa, Hecho, Espera, Procs

\* A daemon that has its place runs.
LEMMA OcupaEnMarcha == \A d \in Daemons : Ocupa(d) => EnMarcha(d)
BY DEF Ocupa, Hecho, Espera, EnMarcha, FinDaemon

\* A step that leaves the file and the segments where they are, and in which nobody
\* gets the place.
Quietos == fichero' = fichero /\ \A i \in Ids : /\ segs'[i].estado = segs[i].estado
                                                /\ segs'[i].clave = segs[i].clave
Conserva(d) ==
  /\ shm_id1'[d] = shm_id1[d]
  /\ Ocupa(d)' => Ocupa(d)
  /\ Hecho(d)' => Hecho(d)
  /\ pc'[d] = "crea" => ConClave(fichero) = {}

LEMMA LugarQuieto ==
  ASSUME TypeOK, Lugar, Quietos, HijoEnRecibe', \A d \in Daemons : Conserva(d)
  PROVE  Lugar'
<1>1. ConClave(fichero)' = ConClave(fichero)
  BY DEF Quietos, ConClave
<1>2. IdsPropias'
  <2> SUFFICES ASSUME NEW d \in Daemons, shm_id1'[d] # 0
               PROVE  /\ segs'[shm_id1'[d]].estado # "libre"
                      /\ \A e \in Daemons : e # d => shm_id1'[e] # shm_id1'[d]
    BY DEF IdsPropias
  <2>1. shm_id1'[d] = shm_id1[d] /\ shm_id1[d] \in Ids
    BY DEF Conserva, TypeOK, Procs
  <2>2. QED
    BY <2>1 DEF Lugar, IdsPropias, Quietos, Conserva
<1>3. UnSoloLugar'
  BY DEF Lugar, UnSoloLugar, Conserva
<1>4. LugarConFichero'
  BY DEF Lugar, LugarConFichero, Conserva, Quietos
<1>5. LugarConSegmento'
  BY <1>1 DEF Lugar, LugarConSegmento, Conserva
<1>q. QED
  BY <1>2, <1>3, <1>4, <1>5 DEF Lugar

\* The semaphore and the protocol are the only things written in the segment.
LEMMA SemQuieto ==
  ASSUME TypeOK, NEW p \in Procs, NEW q \in Procs \cup {Nadie}, segs' = ConSem(p, q),
         fichero' = fichero
  PROVE  Quietos
BY ConSemTipo DEF Quietos, TypeOK

LEMMA ProtoQuieto ==
  ASSUME TypeOK, NEW j, NEW v, segs' = [segs EXCEPT ![j].proto = v], fichero' = fichero
  PROVE  Quietos
BY DEF Quietos, TypeOK, Segmento

\* The daemons that take no step.
LEMMA OtrosConservan ==
  ASSUME TypeOK, Quietos, NEW e \in Daemons, shm_id1'[e] = shm_id1[e], pc'[e] = pc[e],
         hijo'[e] = hijo[e],
         mensaje'[e] = mensaje[e], Lugar
  PROVE  Conserva(e)
<1>1. Espera(e)' <=> Espera(e)
  <2>1. shm_id1[e] \in Ids \cup {0}
    BY DEF TypeOK, Procs
  <2>2. shm_id1[e] # 0 => segs'[shm_id1[e]].estado = segs[shm_id1[e]].estado
    BY <2>1 DEF Quietos
  <2>3. QED
    BY <2>2 DEF Espera
<1>q. QED
  BY <1>1 DEF Conserva, Ocupa, Hecho, Espera, Lugar, LugarConSegmento

\* The start, from the look-up to the place in the loop: the steps that keep what
\* the daemon has.
LEMMA ArranqueConserva ==
  ASSUME TypeOK, Lugar, NEW d \in Daemons,
         \/ (AbreFichero(d) /\ fichero # SinFichero) \/ ConsultaSegmento(d) \/ Configura(d)
         \/ Enlaza(d) \/ IniciaSemaforo(d) \/ Cierra(d) \/ Prepara(d)
  PROVE  Lugar'
<1>0. d \in Procs /\ Nadie \notin Procs
  BY SuposicionProcesos DEF Procs
<1>1. Quietos
  <2>1. CASE \/ (AbreFichero(d) /\ fichero # SinFichero) \/ ConsultaSegmento(d) \/ Enlaza(d)
    BY <2>1 DEF AbreFichero, ConsultaSegmento, Enlaza, memoria, Quietos
  <2>2. CASE Configura(d)
    BY <2>2, ProtoQuieto DEF Configura, Quietos
  <2>3. CASE IniciaSemaforo(d) \/ Cierra(d) \/ Prepara(d)
    BY <2>3, <1>0, SemQuieto DEF IniciaSemaforo, Cierra, Prepara
  <2>4. QED
    BY <2>1, <2>2, <2>3
<1>2. shm_id1' = shm_id1 /\ hijo' = hijo /\ mensaje' = mensaje
  BY DEF AbreFichero, ConsultaSegmento, Configura, Enlaza, IniciaSemaforo, Cierra, Prepara, ayuda
<1>3. \A e \in Daemons \ {d} : pc'[e] = pc[e]
  BY DEF AbreFichero, ConsultaSegmento, Configura, Enlaza, IniciaSemaforo, Cierra, Prepara,
         Va, TypeOK, Procs
<1>4. /\ pc[d] \in {"inicio", "consulta", "adjunta", "enlaza", "semaforo", "cierra", "prepara"}
      /\ pc'[d] \in {"rechazado", "crea", "abortado", "bifurca", "limpia", "semaforo", "cierra",
                     "prepara", "sirve"}
  BY <1>0 DEF AbreFichero, ConsultaSegmento, Configura, Enlaza, IniciaSemaforo, Cierra, Prepara,
              Va, TypeOK
<1>5. hijo[d] = "no" /\ mensaje[d] = FALSE
  BY <1>0, <1>4 DEF Lugar, HijoEnRecibe, TypeOK
<1>6. Conserva(d)
  <2>1. CASE ConsultaSegmento(d)
    BY <2>1, <1>0, <1>2, <1>4, <1>5 DEF ConsultaSegmento, Va, Conserva, Ocupa, Hecho, Espera, TypeOK
  <2>2. CASE AbreFichero(d) /\ fichero # SinFichero
    BY <2>2, <1>0, <1>2, <1>5 DEF AbreFichero, Va, Conserva, Ocupa, Hecho, Espera, TypeOK
  <2>3. CASE Configura(d) \/ Enlaza(d) \/ IniciaSemaforo(d) \/ Cierra(d) \/ Prepara(d)
    <3>1. pc'[d] # "crea" /\ pc'[d] # "consulta" /\ Hecho(d)
      BY <2>3, <1>0 DEF Configura, Enlaza, IniciaSemaforo, Cierra, Prepara, Va, TypeOK, Hecho
    <3>2. QED
      BY <3>1, <1>2 DEF Conserva, Ocupa
  <2>4. QED
    BY <2>1, <2>2, <2>3
<1>7. \A e \in Daemons : Conserva(e)
  BY <1>1, <1>2, <1>3, <1>6, OtrosConservan
<1>8. HijoEnRecibe'
  BY <1>2, <1>3, <1>5 DEF HijoEnRecibe, Lugar
<1>q. QED
  BY <1>1, <1>7, <1>8, LugarQuieto

\* The steps of get_fd, and the ends that clean nothing up.
LEMMA ProcesoConserva ==
  ASSUME TypeOK, Lugar, NEW d \in Daemons,
         Bifurca(d) \/ Ayudante(d) \/ Recibe(d) \/ CtrlC(d) \/ Muere(d)
  PROVE  Lugar'
<1>0. d \in Procs
  BY DEF Procs
<1>1. Quietos
  <2>1. CASE Bifurca(d) \/ Ayudante(d) \/ Recibe(d)
    BY <2>1 DEF Bifurca, Ayudante, Recibe, memoria, Quietos
  <2>2. CASE CtrlC(d) \/ Muere(d)
    BY <2>2, <1>0, DejaTipo DEF CtrlC, Muere, Quietos, TypeOK
  <2>3. QED
    BY <2>1, <2>2
<1>2. shm_id1' = shm_id1
  BY DEF Bifurca, Ayudante, Recibe, CtrlC, Muere
<1>3. \A e \in Daemons \ {d} : pc'[e] = pc[e] /\ hijo'[e] = hijo[e] /\ mensaje'[e] = mensaje[e]
  BY DEF Bifurca, Ayudante, Recibe, CtrlC, Muere, Va, ayuda, TypeOK, Procs
<1>4. /\ Conserva(d)
      /\ hijo'[d] # "no" => pc'[d] \in {"recibe", "muerto"}
      /\ mensaje'[d] => hijo'[d] = "no" /\ pc'[d] \in {"recibe", "muerto"}
  <2>h. /\ hijo[d] # "no" => pc[d] \in {"recibe", "muerto"}
        /\ mensaje[d] => hijo[d] = "no" /\ pc[d] \in {"recibe", "muerto"}
    BY DEF Lugar, HijoEnRecibe
  <2>1. CASE Bifurca(d)
    BY <2>1, <2>h, <1>0, <1>2 DEF Bifurca, Va, Conserva, Ocupa, Hecho, Espera, TypeOK
  <2>2. CASE Ayudante(d)
    BY <2>2, <2>h, <1>0, <1>2 DEF Ayudante, Conserva, Ocupa, Hecho, Espera, TypeOK
  <2>3. CASE Recibe(d)
    BY <2>3, <2>h, <1>0, <1>2 DEF Recibe, Va, Conserva, Ocupa, Hecho, Espera, TypeOK
  <2>4. CASE CtrlC(d)
    <3>1. CASE pc[d] \in {"semaforo", "cierra", "prepara", "sirve"}
      BY <2>4, <3>1, <2>h, <1>0, <1>2 DEF CtrlC, Va, Conserva, Ocupa, Hecho, Espera, TypeOK
    <3>2. CASE pc[d] \notin {"semaforo", "cierra", "prepara", "sirve"}
      <4>1. pc'[d] = "muerto" /\ hijo'[d] = "no" /\ mensaje' = mensaje
        BY <2>4, <3>2, <1>0 DEF CtrlC, Va, TypeOK
      <4>2. QED
        BY <4>1, <2>h, <1>2 DEF Conserva, Ocupa, Hecho, Espera
    <3>3. QED
      BY <3>1, <3>2
  <2>5. CASE Muere(d)
    BY <2>5, <2>h, <1>0, <1>2 DEF Muere, Va, Conserva, Ocupa, Hecho, Espera, TypeOK, ayuda, FinDaemon
  <2>6. QED
    BY <2>1, <2>2, <2>3, <2>4, <2>5
<1>5. \A e \in Daemons : Conserva(e)
  BY <1>1, <1>2, <1>3, <1>4, OtrosConservan
<1>6. HijoEnRecibe'
  BY <1>3, <1>4 DEF HijoEnRecibe, Lugar
<1>q. QED
  BY <1>1, <1>5, <1>6, LugarQuieto

\* An application disturbs no daemon.
LEMMA AppConserva ==
  ASSUME TypeOK, Lugar, NEW a \in Apps,
         Entra(a) \/ PasoApp(a) \/ Obtiene(a) \/ Muere(a) \/ (\E d \in Daemons : Despierta(d, a))
  PROVE  Lugar'
<1>0. a \in Procs /\ a \notin Daemons /\ Nadie \notin Procs
  BY SuposicionProcesos DEF Procs
<1>1. Quietos
  <2>1. CASE BloqueaAcceso(a) \/ Duerme(a) \/ Sale(a)
    BY <2>1, <1>0, SemQuieto DEF BloqueaAcceso, Duerme, Sale
  <2>2. CASE Muere(a)
    BY <2>2, <1>0, DejaTipo DEF Muere, Quietos, TypeOK
  <2>3. CASE ~ (BloqueaAcceso(a) \/ Duerme(a) \/ Sale(a) \/ Muere(a))
    BY <2>3 DEF Entra, PasoApp, Obtiene, AdjuntaApp, CopiaApp, EnlazaApp, Bifurca, Ayudante,
                Recibe, Despierta, memoria, Quietos
  <2>4. QED
    BY <2>1, <2>2, <2>3
<1>2. \A e \in Daemons : /\ shm_id1'[e] = shm_id1[e] /\ pc'[e] = pc[e]
                         /\ hijo'[e] = hijo[e] /\ mensaje'[e] = mensaje[e]
  <2> SUFFICES ASSUME NEW e \in Daemons
               PROVE  /\ shm_id1'[e] = shm_id1[e] /\ pc'[e] = pc[e]
                      /\ hijo'[e] = hijo[e] /\ mensaje'[e] = mensaje[e]
    OBVIOUS
  <2>1. e \in Procs /\ e # a
    BY <1>0 DEF Procs
  <2>2. CASE Entra(a)
    BY <2>1, <2>2 DEF Entra, Va, TypeOK, ayuda
  <2>3. CASE PasoApp(a)
    BY <2>1, <2>3 DEF PasoApp, AdjuntaApp, CopiaApp, EnlazaApp, BloqueaAcceso, Duerme, Sale, Va,
                      TypeOK, ayuda
  <2>4. CASE Obtiene(a) \/ Muere(a) \/ (\E d \in Daemons : Despierta(d, a))
    BY <2>1, <2>4 DEF Obtiene, Bifurca, Ayudante, Recibe, Muere, Despierta, Va, TypeOK, ayuda
  <2>5. QED
    BY <2>2, <2>3, <2>4
<1>3. \A e \in Daemons : Conserva(e)
  BY <1>1, <1>2, OtrosConservan
<1>4. HijoEnRecibe'
  BY <1>2 DEF HijoEnRecibe, Lugar
<1>q. QED
  BY <1>1, <1>3, <1>4, LugarQuieto

\* open gives the place to a daemon only when nobody has it.
LEMMA AbreFicheroLugar ==
  ASSUME TypeOK, Lugar, NEW d \in Daemons, AbreFichero(d), fichero = SinFichero
  PROVE  Lugar'
<1>0. d \in Procs
  BY DEF Procs
<1>1. \A e \in Daemons : ~Ocupa(e)
  BY DEF Lugar, LugarConFichero
<1>2. /\ pc[d] = "inicio" /\ fichero' # SinFichero /\ segs' = segs /\ shm_id1' = shm_id1
      /\ hijo' = hijo /\ mensaje' = mensaje /\ pc' = [pc EXCEPT ![d] = "consulta"]
  BY SuposicionIds DEF AbreFichero, Va, ayuda
<1>3. \A e \in Daemons \ {d} : pc'[e] = pc[e]
  BY <1>2 DEF TypeOK, Procs
<1>4. pc'[d] = "consulta" /\ hijo[d] = "no" /\ mensaje[d] = FALSE
  BY <1>0, <1>2 DEF TypeOK, Lugar, HijoEnRecibe
<1>5. \A e \in Daemons : /\ Ocupa(e)' => e = d
                         /\ ~Hecho(e)' /\ pc'[e] # "crea"
  BY <1>1, <1>2, <1>3, <1>4 DEF Ocupa, Hecho, Espera
<1>6. HijoEnRecibe' /\ IdsPropias'
  BY <1>2, <1>3, <1>4 DEF Lugar, HijoEnRecibe, IdsPropias
<1>q. QED
  BY <1>2, <1>5, <1>6 DEF Lugar, UnSoloLugar, LugarConFichero, LugarConSegmento

LEMMA CreaSegmentoLugar ==
  ASSUME TypeOK, Lugar, NEW d \in Daemons, CreaSegmento(d)
  PROVE  Lugar'
<1>0. d \in Procs
  BY DEF Procs
<1>1. /\ pc[d] = "crea" /\ fichero' = fichero /\ hijo' = hijo /\ mensaje' = mensaje
      /\ pc' \in {[pc EXCEPT ![d] = "abortado"], [pc EXCEPT ![d] = "adjunta"]}
  BY DEF CreaSegmento, Va, ayuda
<1>2. Ocupa(d) /\ ConClave(fichero) = {} /\ fichero # SinFichero
  BY <1>1 DEF Lugar, Ocupa, LugarConSegmento, LugarConFichero
<1>s. \A e \in Daemons \ {d} : /\ shm_id1'[e] = shm_id1[e]
                               /\ shm_id1[e] # 0 =>
                                    segs'[shm_id1[e]].estado = segs[shm_id1[e]].estado
  <2>1. CASE UNCHANGED <<segs, shm_id1>>
    BY <2>1
  <2>2. ASSUME NEW i \in Ids, segs[i].estado = "libre",
               segs' = [segs EXCEPT ![i].estado = "vivo", ![i].clave = fichero],
               shm_id1' = [shm_id1 EXCEPT ![d] = i]
        PROVE  \A e \in Daemons \ {d} : /\ shm_id1'[e] = shm_id1[e]
                                        /\ shm_id1[e] # 0 => segs'[shm_id1[e]] = segs[shm_id1[e]]
    <3>1. \A e \in Daemons \ {d} : shm_id1[e] # 0 => shm_id1[e] \in Ids /\ shm_id1[e] # i
      BY <2>2 DEF Lugar, IdsPropias, TypeOK, Procs
    <3>2. \A j \in Ids \ {i} : segs'[j] = segs[j]
      BY <2>2 DEF TypeOK
    <3>3. QED
      BY <2>2, <3>1, <3>2 DEF TypeOK, Procs
  <2>3. QED
    BY <2>1, <2>2 DEF CreaSegmento
<1>3. \A e \in Daemons \ {d} : pc'[e] = pc[e] /\ ~Ocupa(e) /\ ~Ocupa(e)' /\ ~Hecho(e)' /\ pc'[e] # "crea"
  <2>1. \A e \in Daemons \ {d} : pc'[e] = pc[e] /\ ~Ocupa(e)
    BY <1>1, <1>2 DEF TypeOK, Procs, Lugar, UnSoloLugar
  <2>2. \A e \in Daemons \ {d} : Espera(e)' => Espera(e)
    <3> SUFFICES ASSUME NEW e \in Daemons \ {d}, Espera(e)' PROVE Espera(e)
      OBVIOUS
    <3>1. hijo'[e] = hijo[e] /\ mensaje'[e] = mensaje[e] /\ pc'[e] = pc[e]
      BY <1>1, <2>1
    <3>2. /\ shm_id1'[e] = shm_id1[e]
          /\ shm_id1[e] # 0 => segs'[shm_id1[e]].estado = segs[shm_id1[e]].estado
      BY <1>s
    <3>3. QED
      BY <3>1, <3>2 DEF Espera
  <2>3. QED
    BY <1>1, <2>1, <2>2 DEF Ocupa, Hecho
<1>4. pc'[d] \in {"abortado", "adjunta"} /\ hijo[d] = "no" /\ mensaje[d] = FALSE
  BY <1>0, <1>1 DEF TypeOK, Lugar, HijoEnRecibe
<1>5. HijoEnRecibe'
  BY <1>1, <1>3, <1>4 DEF Lugar, HijoEnRecibe
<1>6. UnSoloLugar' /\ LugarConFichero'
  BY <1>1, <1>2, <1>3 DEF UnSoloLugar, LugarConFichero
<1>7. CASE UNCHANGED <<segs, shm_id1>> /\ pc' = [pc EXCEPT ![d] = "abortado"]
  <2>1. pc'[d] = "abortado"
    BY <1>0, <1>7 DEF TypeOK
  <2>2. ~Hecho(d)' /\ pc'[d] # "crea"
    BY <2>1, <1>1, <1>4 DEF Hecho, Espera
  <2>3. LugarConSegmento'
    BY <1>3, <2>2 DEF LugarConSegmento
  <2>4. IdsPropias'
    BY <1>7 DEF Lugar, IdsPropias
  <2>5. QED
    BY <1>5, <1>6, <2>3, <2>4 DEF Lugar
<1>8. ASSUME NEW i \in Ids, segs[i].estado = "libre",
             segs' = [segs EXCEPT ![i].estado = "vivo", ![i].clave = fichero],
             shm_id1' = [shm_id1 EXCEPT ![d] = i], pc' = [pc EXCEPT ![d] = "adjunta"]
      PROVE  Lugar'
  <2>1. shm_id1'[d] = i /\ \A e \in Daemons \ {d} : shm_id1'[e] = shm_id1[e]
    BY <1>0, <1>8 DEF TypeOK, Procs
  <2>2. /\ segs'[i].estado = "vivo" /\ segs'[i].clave = fichero
        /\ \A j \in Ids \ {i} : segs'[j] = segs[j]
    BY <1>8 DEF TypeOK, Segmento
  <2>3. ConClave(fichero)' = {i}
    BY <1>1, <1>2, <2>2 DEF ConClave
  <2>4. pc'[d] = "adjunta"
    BY <1>0, <1>8 DEF TypeOK
  <2>5. LugarConSegmento'
    BY <1>3, <2>1, <2>3, <2>4 DEF LugarConSegmento
  <2>6. IdsPropias'
    <3>1. \A e \in Daemons \ {d} : shm_id1[e] # 0 => shm_id1[e] \in Ids /\ shm_id1[e] # i
      BY <1>8 DEF Lugar, IdsPropias, TypeOK, Procs
    <3>2. QED
      BY <3>1, <2>1, <2>2 DEF Lugar, IdsPropias
  <2>7. QED
    BY <1>5, <1>6, <2>5, <2>6 DEF Lugar
<1>q. QED
  BY <1>7, <1>8 DEF CreaSegmento, Va

\* unlink is the work of the daemon that has the place, which loses it.
LEMMA SinPlaza ==
  ASSUME TypeOK, Lugar, NEW d \in Daemons, Ocupa(d), HijoEnRecibe', ~Ocupa(d)',
         segs' = segs, shm_id1' = shm_id1,
         \A e \in Daemons \ {d} : pc'[e] = pc[e] /\ hijo'[e] = hijo[e] /\ mensaje'[e] = mensaje[e]
  PROVE  Lugar'
<1>1. \A e \in Daemons : ~Ocupa(e)'
  BY DEF Lugar, UnSoloLugar, Ocupa, Hecho, Espera
<1>2. \A e \in Daemons : ~Hecho(e)' /\ pc'[e] # "crea"
  BY <1>1 DEF Ocupa
<1>3. IdsPropias'
  BY DEF Lugar, IdsPropias
<1>q. QED
  BY <1>1, <1>2, <1>3 DEF Lugar, UnSoloLugar, LugarConFichero, LugarConSegmento

LEMMA LimpiaLugar ==
  ASSUME TypeOK, Lugar, NEW d \in Daemons,
         Limpia(d) \/ (CopiaDaemon(d) /\ hijo[d] = "copia")
  PROVE  Lugar'
<1>0. d \in Procs
  BY DEF Procs
<1>1. Ocupa(d) /\ segs' = segs /\ shm_id1' = shm_id1 /\ mensaje' = mensaje
  BY DEF Limpia, CopiaDaemon, Ocupa, Hecho, Espera, ayuda
<1>2. \A e \in Daemons \ {d} : pc'[e] = pc[e] /\ hijo'[e] = hijo[e]
  BY DEF Limpia, CopiaDaemon, Va, ayuda, TypeOK, Procs
<1>3. /\ ~Ocupa(d)' /\ (hijo'[d] # "no" => pc'[d] \in {"recibe", "muerto"})
      /\ mensaje[d] = FALSE
  <2>h. /\ hijo[d] # "no" => pc[d] \in {"recibe", "muerto"}
        /\ mensaje[d] => hijo[d] = "no" /\ pc[d] \in {"recibe", "muerto"}
    BY DEF Lugar, HijoEnRecibe
  <2>1. CASE Limpia(d)
    BY <2>1, <2>h, <1>0 DEF Limpia, Va, ayuda, Ocupa, Hecho, Espera, TypeOK
  <2>2. CASE CopiaDaemon(d) /\ hijo[d] = "copia"
    BY <2>2, <2>h, <1>0, <1>1 DEF CopiaDaemon, Ocupa, Hecho, Espera, TypeOK
  <2>3. QED
    BY <2>1, <2>2
<1>4. HijoEnRecibe'
  BY <1>1, <1>2, <1>3 DEF Lugar, HijoEnRecibe
<1>q. QED
  BY <1>1, <1>2, <1>3, <1>4, SinPlaza

\* IPC_RMID is for the segment of the one that removes it: nobody loses another.
LEMMA QuitaLugar ==
  ASSUME TypeOK, Lugar, NEW d \in Daemons,
         Quita(d) \/ (CopiaDaemon(d) /\ hijo[d] = "copia2")
  PROVE  Lugar'
<1>0. d \in Procs
  BY DEF Procs
<1>1. /\ fichero' = fichero /\ shm_id1' = shm_id1 /\ mensaje' = mensaje
      /\ segs' = [segs EXCEPT ![shm_id1[d]].estado = IF shm_id1[d] > 0 THEN "marcado" ELSE @]
  BY DEF Quita, CopiaDaemon, ayuda
<1>2. \A e \in Daemons \ {d} : pc'[e] = pc[e] /\ hijo'[e] = hijo[e]
  BY DEF Quita, CopiaDaemon, Va, ayuda, TypeOK, Procs
<1>3. /\ pc[d] \in {"quita", "recibe", "muerto"} /\ mensaje[d] = FALSE
      /\ ~Hecho(d)' /\ pc'[d] \in {"limpio", "recibe", "muerto"}
      /\ hijo'[d] # "no" => pc'[d] \in {"recibe", "muerto"}
  <2>h. /\ hijo[d] # "no" => pc[d] \in {"recibe", "muerto"}
        /\ mensaje[d] => hijo[d] = "no" /\ pc[d] \in {"recibe", "muerto"}
    BY DEF Lugar, HijoEnRecibe
  <2>1. CASE Quita(d)
    BY <2>1, <2>h, <1>0 DEF Quita, Va, ayuda, Hecho, Espera, TypeOK
  <2>2. CASE CopiaDaemon(d) /\ hijo[d] = "copia2"
    <3>1. pc'[d] \in {"recibe", "muerto"} /\ hijo'[d] = "no" /\ mensaje'[d] = FALSE
      BY <2>2, <2>h, <1>0 DEF CopiaDaemon, TypeOK
    <3>2. shm_id1'[d] # 0 => segs'[shm_id1'[d]].estado # "vivo"
      BY <1>0, <1>1, SuposicionIds DEF TypeOK, Segmento
    <3>3. QED
      BY <2>2, <2>h, <1>1, <3>1, <3>2 DEF CopiaDaemon, Hecho, Espera
  <2>3. QED
    BY <2>1, <2>2
<1>5. \A i \in Ids : /\ segs'[i].clave = segs[i].clave
                     /\ segs'[i].estado = segs[i].estado
                          \/ (i = shm_id1[d] /\ i # 0 /\ segs'[i].estado = "marcado")
  BY <1>1, SuposicionIds DEF TypeOK, Segmento
<1>4. \A e \in Daemons : /\ Hecho(e)' => Hecho(e) /\ e # d
                         /\ Ocupa(e)' => Ocupa(e) /\ e # d
                         /\ pc'[e] = "crea" => pc[e] = "crea"
  <2>1. \A e \in Daemons \ {d} : Espera(e)' => Espera(e)
    <3>1. \A e \in Daemons : shm_id1[e] # 0 => shm_id1[e] \in Ids
      BY DEF TypeOK, Procs
    <3>2. QED
      BY <3>1, <1>1, <1>2, <1>5 DEF Espera
  <2>2. QED
    BY <1>1, <1>2, <1>3, <2>1 DEF Ocupa, Hecho
<1>6. HijoEnRecibe'
  BY <1>1, <1>2, <1>3 DEF Lugar, HijoEnRecibe
<1>7. IdsPropias'
  <2> SUFFICES ASSUME NEW e \in Daemons, shm_id1[e] # 0
               PROVE  /\ segs'[shm_id1[e]].estado # "libre"
                      /\ \A f \in Daemons : f # e => shm_id1[f] # shm_id1[e]
    BY <1>1 DEF IdsPropias
  <2>1. shm_id1[e] \in Ids
    BY DEF TypeOK, Procs
  <2>2. QED
    BY <2>1, <1>5 DEF Lugar, IdsPropias
<1>8. UnSoloLugar' /\ LugarConFichero'
  BY <1>1, <1>4 DEF Lugar, UnSoloLugar, LugarConFichero
<1>9. LugarConSegmento'
  <2> SUFFICES ASSUME NEW e \in Daemons
               PROVE  /\ pc'[e] = "crea" => ConClave(fichero)' = {}
                      /\ Hecho(e)' => ConClave(fichero)' = {shm_id1[e]}
    BY <1>1 DEF LugarConSegmento
  <2>1. ConClave(fichero)' \subseteq ConClave(fichero)
    BY <1>1, <1>5 DEF ConClave
  <2>2. CASE Hecho(e)'
    <3>1. ConClave(fichero) = {shm_id1[e]} /\ e # d
      BY <2>2, <1>4 DEF Lugar, LugarConSegmento
    <3>2. shm_id1[d] # 0 => shm_id1[e] # shm_id1[d]
      BY <3>1 DEF Lugar, IdsPropias
    <3>3. shm_id1[e] \in Ids /\ segs[shm_id1[e]].estado = "vivo" /\ segs[shm_id1[e]].clave = fichero
      BY <3>1 DEF ConClave
    <3>4. shm_id1[e] \in ConClave(fichero)'
      BY <3>2, <3>3, <1>1, <1>5 DEF ConClave
    <3>5. pc'[e] # "crea"
      BY <2>2, <1>4 DEF Lugar, HijoEnRecibe, Hecho, Espera
    <3>6. QED
      BY <3>1, <3>4, <3>5, <2>1
  <2>3. CASE ~Hecho(e)'
    BY <2>1, <2>3, <1>4 DEF Lugar, LugarConSegmento
  <2>4. QED
    BY <2>2, <2>3
<1>q. QED
  BY <1>6, <1>7, <1>8, <1>9 DEF Lugar

\* The operator acts when nobody has the place.
LEMMA QuitaAManoLugar == TypeOK /\ Lugar /\ QuitaAMano => Lugar'
<1> SUFFICES ASSUME TypeOK, Lugar, QuitaAMano PROVE Lugar'
  OBVIOUS
<1>1. pc' = pc /\ shm_id1' = shm_id1 /\ hijo' = hijo /\ mensaje' = mensaje
  BY DEF QuitaAMano, ayuda
<1>2. \A d \in Daemons : ~Ocupa(d)
  BY OcupaEnMarcha DEF QuitaAMano
<1>3. \A d \in Daemons : ~Ocupa(d)' /\ ~Hecho(d)' /\ pc'[d] # "crea"
  <2>1. \A i \in Ids : segs'[i].estado = "vivo" => segs[i].estado = "vivo"
    BY DEF QuitaAMano, TypeOK, Segmento
  <2>2. \A d \in Daemons : shm_id1[d] # 0 => shm_id1[d] \in Ids
    BY DEF TypeOK, Procs
  <2>3. \A d \in Daemons : Espera(d)' => Espera(d)
    BY <1>1, <2>1, <2>2 DEF Espera
  <2>4. QED
    BY <1>1, <1>2, <2>3 DEF Ocupa, Hecho
<1>4. HijoEnRecibe'
  BY <1>1 DEF Lugar, HijoEnRecibe
<1>5. \A i \in Ids : segs'[i].estado = "libre" => segs[i].estado = "libre"
  BY DEF QuitaAMano, TypeOK, Segmento
<1>6. IdsPropias'
  <2>1. \A d \in Daemons : shm_id1[d] # 0 => shm_id1[d] \in Ids
    BY DEF TypeOK, Procs
  <2>2. QED
    BY <1>1, <1>5, <2>1 DEF Lugar, IdsPropias
<1>q. QED
  BY <1>3, <1>4, <1>6 DEF Lugar, UnSoloLugar, LugarConFichero, LugarConSegmento

-----------------------------------------------------------------------------
(* The theorems.                                                            *)

LEMMA LugarPaso == TypeOK /\ Lugar /\ [Next]_vars => Lugar'
<1> SUFFICES ASSUME TypeOK, Lugar, [Next]_vars PROVE Lugar'
  OBVIOUS
<1>1. ASSUME NEW d \in Daemons, AbreFichero(d) PROVE Lugar'
  BY <1>1, AbreFicheroLugar, ArranqueConserva
<1>2. ASSUME NEW d \in Daemons, PasoDaemon(d) PROVE Lugar'
  <2>1. CASE Arranque(d)
    BY <2>1, ArranqueConserva, CreaSegmentoLugar DEF Arranque
  <2>2. CASE CopiaDaemon(d)
    <3>1. hijo[d] = "copia" \/ hijo[d] = "copia2"
      BY <2>2 DEF CopiaDaemon
    <3>2. QED
      BY <2>2, <3>1, LimpiaLugar, QuitaLugar
  <2>3. CASE Limpia(d) \/ Quita(d)
    BY <2>3, LimpiaLugar, QuitaLugar
  <2>4. QED
    BY <1>2, <2>1, <2>2, <2>3 DEF PasoDaemon
<1>3. ASSUME NEW d \in Daemons, Obtiene(d) \/ CtrlC(d) \/ Muere(d) PROVE Lugar'
  BY <1>3, ProcesoConserva DEF Obtiene
<1>4. ASSUME NEW a \in Apps, \/ Entra(a) \/ PasoApp(a) \/ Obtiene(a) \/ Muere(a)
                              \/ \E d \in Daemons : Despierta(d, a)
      PROVE  Lugar'
  BY <1>4, AppConserva
<1>5. ASSUME NEW p \in Procs, Muere(p) PROVE Lugar'
  BY <1>5, <1>3, <1>4 DEF Procs
<1>6. CASE QuitaAMano
  BY <1>6, QuitaAManoLugar
<1>7. CASE UNCHANGED vars
  <2>1. /\ ConClave(fichero)' = ConClave(fichero)
        /\ \A d \in Daemons : (Ocupa(d)' <=> Ocupa(d)) /\ (Hecho(d)' <=> Hecho(d))
    BY <1>7 DEF vars, ConClave, Ocupa, Hecho, Espera
  <2>2. QED
    BY <1>7, <2>1 DEF vars, Lugar, HijoEnRecibe, IdsPropias, UnSoloLugar, LugarConFichero,
                      LugarConSegmento
<1>q. QED
  BY <1>1, <1>2, <1>3, <1>4, <1>5, <1>6, <1>7 DEF Next

LEMMA InvarianteCiclo == Spec => []IInv
<1>1. Init => IInv
  BY InitTipo, InitLugar DEF IInv
<1>2. IInv /\ [Next]_vars => IInv'
  BY TipoPaso, LugarPaso DEF IInv
<1>q. QED
  BY <1>1, <1>2, PTL DEF Spec

\* Every variable keeps its type, whatever fails, dies or is removed by hand.
THEOREM TiposCiclo == Spec => []TypeOK
BY InvarianteCiclo, PTL DEF IInv

\* A machine has at most one daemon that serves, whatever fails, dies, restarts or is
\* removed by hand, and however inodes are used again (chequeo_inicial).
THEOREM ServidorUnico == Spec => []UnSoloServidor
BY InvarianteCiclo, ServidorDeIInv, PTL

\* The key file leads to the segment of the daemon that serves, and to no other.
THEOREM ServidorAlcanzable == Spec => []SirveAlcanzable
BY InvarianteCiclo, ServidorDeIInv, PTL

\* The key file of a daemon goes away only by the clean-up of its owner, or of the
\* copy of its owner, or by hand when no daemon runs.
THEOREM FicheroNoRobado == Spec => FicheroDeSuDueno
<1> DEFINE Causa == \/ \A d \in Daemons : ~EnMarcha(d)
                    \/ \E d \in Daemons : /\ pc[d] = "limpia" \/ hijo[d] = "copia"
                                          /\ ConClave(fichero) \subseteq {shm_id1[d]}
<1>1. IInv /\ [Next]_vars => [fichero # SinFichero /\ fichero' # fichero => Causa]_vars
  <2> SUFFICES ASSUME IInv, Next, fichero # SinFichero, fichero' # fichero PROVE Causa
    BY DEF vars
  <2>1. ASSUME NEW d \in Daemons, Limpia(d) \/ CopiaDaemon(d) PROVE Causa
    <3>1. pc[d] = "limpia" \/ hijo[d] = "copia"
      BY <2>1 DEF Limpia, CopiaDaemon
    <3>2. ConClave(fichero) = {shm_id1[d]}
      BY <3>1 DEF IInv, Lugar, LugarConSegmento, Hecho
    <3>3. QED
      BY <3>1, <3>2
  <2>2. CASE QuitaAMano
    BY <2>2 DEF QuitaAMano
  <2>3. CASE ~ (QuitaAMano \/ \E d \in Daemons : Limpia(d) \/ CopiaDaemon(d))
    <3>1. fichero' = fichero
      BY <2>3 DEF Next, PasoDaemon, Arranque, Obtiene, PasoApp, AbreFichero, ConsultaSegmento,
         CreaSegmento, Configura, Enlaza, IniciaSemaforo, Cierra, Prepara, Bifurca, Ayudante,
         Recibe, CtrlC, Quita, Entra, AdjuntaApp, CopiaApp, EnlazaApp, BloqueaAcceso, Duerme, Sale,
         Despierta, Muere, memoria
    <3>2. QED
      BY <3>1
  <2>4. QED
    BY <2>1, <2>2, <2>3
<1>2. Spec => [][Next]_vars
  BY DEF Spec
<1>q. QED
  BY <1>1, <1>2, InvarianteCiclo, PTL DEF FicheroDeSuDueno

-----------------------------------------------------------------------------
(* What is left when everybody has ended.                                   *)

\* The file, and each segment but 0, have a daemon that has still to remove them, or
\* that ended without doing so.
DebeFichero(d) == pc[d] \notin {"inicio", "rechazado", "quita", "limpio"}
DebeSegmento(d) ==
  pc[d] \in PCsDaemon \ {"inicio", "consulta", "crea", "rechazado", "limpio"}
Deudas ==
  /\ fichero # SinFichero => \E d \in Daemons : DebeFichero(d)
  /\ \A i \in Ids : segs[i].estado = "vivo" /\ i # 0 =>
       \E d \in Daemons : shm_id1[d] = i /\ DebeSegmento(d)

\* A step that makes nothing and after which everybody owes what was owed.
LEMMA DeudasQuietas ==
  ASSUME Deudas, fichero' \in {fichero, SinFichero},
         \A i \in Ids : segs'[i].estado = "vivo" => segs[i].estado = "vivo",
         \A d \in Daemons : /\ DebeFichero(d) /\ fichero' # SinFichero => DebeFichero(d)'
                            /\ DebeSegmento(d) => DebeSegmento(d)' /\ shm_id1'[d] = shm_id1[d]
  PROVE  Deudas'
<1>1. fichero' # SinFichero => \E d \in Daemons : DebeFichero(d)'
  BY DEF Deudas
<1>2. ASSUME NEW i \in Ids, segs'[i].estado = "vivo", i # 0
      PROVE  \E d \in Daemons : shm_id1'[d] = i /\ DebeSegmento(d)'
  BY <1>2 DEF Deudas
<1>q. QED
  BY <1>1, <1>2 DEF Deudas

LEMMA DeudasDaemon ==
  ASSUME TypeOK, Deudas, NEW d \in Daemons,
         \/ ConsultaSegmento(d) \/ Configura(d) \/ Enlaza(d) \/ IniciaSemaforo(d)
         \/ Cierra(d) \/ Prepara(d) \/ CopiaDaemon(d) \/ Bifurca(d) \/ Ayudante(d)
         \/ Recibe(d) \/ CtrlC(d) \/ Muere(d) \/ Limpia(d)
  PROVE  Deudas'
<1>0. d \in Procs
  BY DEF Procs
<1>1. fichero' \in {fichero, SinFichero} /\ shm_id1' = shm_id1
  BY DEF ConsultaSegmento, Configura, Enlaza, IniciaSemaforo, Cierra, Prepara, CopiaDaemon,
         Bifurca, Ayudante, Recibe, CtrlC, Muere, Limpia, memoria
<1>2. \A i \in Ids : segs'[i].estado = "vivo" => segs[i].estado = "vivo"
  <2>1. CASE IniciaSemaforo(d) \/ Cierra(d) \/ Prepara(d) \/ Configura(d) \/ CtrlC(d) \/ Muere(d)
    <3>1. CASE IniciaSemaforo(d) \/ Cierra(d) \/ Prepara(d)
      BY <3>1, <1>0, ConSemTipo DEF IniciaSemaforo, Cierra, Prepara, TypeOK
    <3>2. CASE Configura(d)
      BY <3>2, ProtoQuieto DEF Configura, Quietos
    <3>3. CASE CtrlC(d) \/ Muere(d)
      BY <3>3, <1>0, DejaTipo DEF CtrlC, Muere, TypeOK
    <3>4. QED
      BY <2>1, <3>1, <3>2, <3>3
  <2>2. CASE CopiaDaemon(d)
    BY <2>2 DEF CopiaDaemon, TypeOK, Segmento
  <2>3. CASE \/ ConsultaSegmento(d) \/ Enlaza(d) \/ Bifurca(d) \/ Ayudante(d) \/ Recibe(d)
             \/ Limpia(d)
    BY <2>3 DEF ConsultaSegmento, Enlaza, Bifurca, Ayudante, Recibe, Limpia, memoria
  <2>4. QED
    BY <2>1, <2>2, <2>3
<1>3. \A e \in Daemons : /\ DebeFichero(e) /\ fichero' # SinFichero => DebeFichero(e)'
                         /\ DebeSegmento(e) => DebeSegmento(e)'
  <2>1. \A e \in Daemons \ {d} : pc'[e] = pc[e]
    BY DEF ConsultaSegmento, Configura, Enlaza, IniciaSemaforo, Cierra, Prepara, CopiaDaemon,
           Bifurca, Ayudante, Recibe, CtrlC, Muere, Limpia, Va, TypeOK, Procs
  <2>2. CASE Limpia(d)
    <3>1. pc[d] = "limpia" /\ pc'[d] = "quita" /\ fichero' = SinFichero
      BY <2>2, <1>0 DEF Limpia, Va, TypeOK
    <3>2. QED
      BY <3>1, <2>1 DEF DebeFichero, DebeSegmento, PCsDaemon, FinDaemon
  <2>3. CASE ~Limpia(d)
    <3>1. /\ DebeFichero(d) => DebeFichero(d)'
          /\ DebeSegmento(d) => DebeSegmento(d)'
      <4>1. CASE ConsultaSegmento(d) \/ Configura(d) \/ Enlaza(d) \/ IniciaSemaforo(d)
                   \/ Cierra(d) \/ Prepara(d) \/ CopiaDaemon(d)
        BY <4>1, <1>0 DEF ConsultaSegmento, Configura, Enlaza, IniciaSemaforo, Cierra, Prepara,
             CopiaDaemon, Va, TypeOK, DebeFichero, DebeSegmento, PCsDaemon, FinDaemon
      <4>2. CASE Bifurca(d) \/ Ayudante(d) \/ Recibe(d) \/ CtrlC(d) \/ Muere(d)
        BY <4>2, <1>0 DEF Bifurca, Ayudante, Recibe, CtrlC, Muere, Va, TypeOK, DebeFichero,
             DebeSegmento, PCsDaemon, FinDaemon
      <4>3. QED
        BY <2>3, <4>1, <4>2
    <3>2. QED
      BY <3>1, <2>1 DEF DebeFichero, DebeSegmento, PCsDaemon, FinDaemon
  <2>4. QED
    BY <2>2, <2>3
<1>q. QED
  BY <1>1, <1>2, <1>3, DeudasQuietas

\* The steps that make, and the one that pays.
LEMMA DeudasNuevas ==
  ASSUME TypeOK, Deudas, NEW d \in Daemons, AbreFichero(d) \/ CreaSegmento(d) \/ Quita(d)
  PROVE  Deudas'
<1>0. d \in Procs
  BY DEF Procs
<1>1. \A e \in Daemons \ {d} : pc'[e] = pc[e] /\ shm_id1'[e] = shm_id1[e]
  BY DEF AbreFichero, CreaSegmento, Quita, Va, TypeOK, Procs
<1>2. CASE AbreFichero(d)
  <2>1. /\ segs' = segs /\ shm_id1' = shm_id1 /\ pc[d] = "inicio"
        /\ \/ fichero # SinFichero /\ fichero' = fichero
           \/ fichero = SinFichero /\ pc'[d] = "consulta"
    BY <1>0, <1>2 DEF AbreFichero, Va, TypeOK
  <2>2. fichero' # SinFichero => \E e \in Daemons : DebeFichero(e)'
    BY <1>1, <2>1 DEF Deudas, DebeFichero
  <2>3. QED
    BY <1>1, <2>1, <2>2 DEF Deudas, DebeSegmento, PCsDaemon, FinDaemon
<1>3. CASE CreaSegmento(d)
  <2>1. pc[d] = "crea" /\ pc'[d] \in {"abortado", "adjunta"} /\ fichero' = fichero
    BY <1>0, <1>3 DEF CreaSegmento, Va, TypeOK
  <2>2. fichero' # SinFichero => \E e \in Daemons : DebeFichero(e)'
    BY <2>1 DEF DebeFichero
  <2>3. ASSUME NEW i \in Ids, segs'[i].estado = "vivo", i # 0
        PROVE  \E e \in Daemons : shm_id1'[e] = i /\ DebeSegmento(e)'
    <3>1. CASE segs[i].estado = "vivo"
      <4>1. PICK e \in Daemons : shm_id1[e] = i /\ DebeSegmento(e)
        BY <2>3, <3>1 DEF Deudas
      <4>2. e # d
        BY <4>1, <2>1 DEF DebeSegmento, PCsDaemon, FinDaemon
      <4>3. QED
        BY <4>1, <4>2, <1>1 DEF DebeSegmento, PCsDaemon, FinDaemon
    <3>2. CASE segs[i].estado # "vivo"
      <4>1. segs' # segs
        BY <2>3, <3>2
      <4>2. PICK j \in Ids : /\ segs' = [segs EXCEPT ![j].estado = "vivo", ![j].clave = fichero]
                             /\ shm_id1' = [shm_id1 EXCEPT ![d] = j]
                             /\ Va(d, "adjunta")
        BY <4>1, <1>3 DEF CreaSegmento
      <4>3. i = j
        BY <2>3, <3>2, <4>2 DEF TypeOK
      <4>4. shm_id1'[d] = i /\ DebeSegmento(d)'
        BY <4>2, <4>3, <1>0 DEF TypeOK, Va, DebeSegmento, PCsDaemon, FinDaemon
      <4>5. QED
        BY <4>4
    <3>3. QED
      BY <3>1, <3>2
  <2>4. QED
    BY <2>2, <2>3 DEF Deudas
<1>4. CASE Quita(d)
  <2>1. /\ pc[d] = "quita" /\ pc'[d] = "limpio" /\ fichero' = fichero /\ shm_id1' = shm_id1
        /\ segs' = [segs EXCEPT ![shm_id1[d]].estado = IF shm_id1[d] > 0 THEN "marcado" ELSE @]
    BY <1>0, <1>4 DEF Quita, Va, TypeOK
  <2>2. fichero' # SinFichero => \E e \in Daemons : DebeFichero(e)'
    BY <1>1, <2>1 DEF Deudas, DebeFichero
  <2>3. ASSUME NEW i \in Ids, segs'[i].estado = "vivo", i # 0
        PROVE  \E e \in Daemons : shm_id1'[e] = i /\ DebeSegmento(e)'
    <3>1. segs[i].estado = "vivo" /\ shm_id1[d] # i
      BY <2>1, <2>3, SuposicionIds DEF TypeOK, Segmento
    <3>2. PICK e \in Daemons : shm_id1[e] = i /\ DebeSegmento(e)
      BY <2>3, <3>1 DEF Deudas
    <3>3. QED
      BY <3>1, <3>2, <2>1, <1>1 DEF DebeSegmento, PCsDaemon, FinDaemon
  <2>4. QED
    BY <2>2, <2>3 DEF Deudas
<1>q. QED
  BY <1>2, <1>3, <1>4

LEMMA DeudasApp ==
  ASSUME TypeOK, Deudas, NEW a \in Apps,
         Entra(a) \/ PasoApp(a) \/ Obtiene(a) \/ Muere(a) \/ (\E d \in Daemons : Despierta(d, a))
  PROVE  Deudas'
<1>0. a \in Procs /\ a \notin Daemons
  BY SuposicionProcesos DEF Procs
<1>1. fichero' = fichero /\ \A i \in Ids : segs'[i].estado = "vivo" => segs[i].estado = "vivo"
  <2>1. CASE BloqueaAcceso(a) \/ Duerme(a) \/ Sale(a)
    BY <2>1, <1>0, ConSemTipo DEF BloqueaAcceso, Duerme, Sale, TypeOK
  <2>2. CASE Muere(a)
    BY <2>2, <1>0, DejaTipo DEF Muere, TypeOK
  <2>3. CASE ~ (BloqueaAcceso(a) \/ Duerme(a) \/ Sale(a) \/ Muere(a))
    BY <2>3 DEF Entra, PasoApp, Obtiene, AdjuntaApp, CopiaApp, EnlazaApp, Bifurca, Ayudante,
                Recibe, Despierta, memoria
  <2>4. QED
    BY <2>1, <2>2, <2>3
<1>2. \A e \in Daemons : pc'[e] = pc[e] /\ shm_id1'[e] = shm_id1[e]
  BY <1>0 DEF Entra, PasoApp, Obtiene, AdjuntaApp, CopiaApp, EnlazaApp, BloqueaAcceso, Duerme, Sale,
              Despierta, Muere, Bifurca, Ayudante, Recibe, Va, TypeOK, Procs
<1>q. QED
  BY <1>1, <1>2, DeudasQuietas DEF DebeFichero, DebeSegmento, PCsDaemon, FinDaemon

LEMMA DeudasPaso == TypeOK /\ Deudas /\ [Next]_vars => Deudas'
<1> SUFFICES ASSUME TypeOK, Deudas, [Next]_vars PROVE Deudas'
  OBVIOUS
<1>1. ASSUME NEW d \in Daemons,
             AbreFichero(d) \/ PasoDaemon(d) \/ Obtiene(d) \/ CtrlC(d) \/ Muere(d)
      PROVE  Deudas'
  BY <1>1, DeudasDaemon, DeudasNuevas DEF PasoDaemon, Arranque, Obtiene
<1>2. ASSUME NEW a \in Apps, \/ Entra(a) \/ PasoApp(a) \/ Obtiene(a) \/ Muere(a)
                              \/ \E d \in Daemons : Despierta(d, a)
      PROVE  Deudas'
  BY <1>2, DeudasApp
<1>3. CASE QuitaAMano
  <2>1. /\ fichero' \in {fichero, SinFichero} /\ pc' = pc /\ shm_id1' = shm_id1
        /\ \A i \in Ids : segs'[i].estado = "vivo" => segs[i].estado = "vivo"
    BY <1>3 DEF QuitaAMano, TypeOK, Segmento
  <2>2. QED
    BY <2>1, DeudasQuietas DEF DebeFichero, DebeSegmento, PCsDaemon, FinDaemon
<1>4. CASE UNCHANGED vars
  BY <1>4, DeudasQuietas DEF vars, DebeFichero, DebeSegmento, PCsDaemon, FinDaemon
<1>5. ASSUME NEW p \in Procs, Muere(p) PROVE Deudas'
  BY <1>5, <1>1, <1>2 DEF Procs
<1>q. QED
  BY <1>1, <1>2, <1>3, <1>4, <1>5 DEF Next

\* Daemons that end by their own clean-up, or because the file was another's, leave
\* neither the file nor a segment, identifier 0 apart (libera_recursos).
THEOREM LimpiezaProbada == Spec => []LimpiezaCompleta
<1>1. Init => Deudas
  BY DEF Init, Deudas, SegmentoLibre
<1>2. TypeOK /\ Deudas => LimpiezaCompleta
  BY DEF Deudas, DebeFichero, DebeSegmento, PCsDaemon, FinDaemon, LimpiezaCompleta
<1>3. Spec => []TypeOK
  BY TiposCiclo
<1>4. TypeOK /\ Deudas /\ [Next]_vars => Deudas'
  BY DeudasPaso
<1>q. QED
  BY <1>1, <1>2, <1>3, <1>4, PTL DEF Spec

\* What a daemon that starts finds under its key has a cause: a clean-up that has gone
\* half way, a daemon that ended without one, or identifier 0 (chequeo_inicial).
THEOREM RestoExplicado == Spec => []RestoConCausa
<1>1. IInv /\ Deudas => RestoConCausa
  <2> SUFFICES ASSUME IInv, Deudas, NEW d \in Daemons, pc[d] = "consulta",
                      NEW i \in ConClave(fichero), i # 0
               PROVE  \E e \in Daemons \ {d} :
                        pc[e] \in {"quita", "abortado", "muerto"} \/ hijo[e] = "copia2"
    BY DEF RestoConCausa
  <2>1. i \in Ids /\ segs[i].estado = "vivo"
    BY DEF ConClave
  <2>2. PICK e \in Daemons : shm_id1[e] = i /\ DebeSegmento(e)
    BY <2>1 DEF Deudas
  <2>3. e # d /\ ~Ocupa(e)
    BY <2>2 DEF DebeSegmento, PCsDaemon, FinDaemon, IInv, Lugar, UnSoloLugar, Ocupa
  <2>4. CASE pc[e] = "recibe"
    BY <2>1, <2>2, <2>3, <2>4 DEF Ocupa, Hecho, Espera
  <2>5. CASE pc[e] # "recibe"
    BY <2>2, <2>3, <2>5 DEF Ocupa, Hecho, DebeSegmento, PCsDaemon, FinDaemon
  <2>6. QED
    BY <2>4, <2>5
<1>2. Init => Deudas
  BY DEF Init, Deudas, SegmentoLibre
<1>3. IInv /\ Deudas /\ [Next]_vars => Deudas'
  BY DeudasPaso DEF IInv
<1>q. QED
  BY <1>1, <1>2, <1>3, InvarianteCiclo, PTL DEF Spec
=============================================================================
