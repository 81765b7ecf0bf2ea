-------------------------- MODULE LtmProofCuenta --------------------------
(***************************************************************************)
(* OcupacionContada for every value of the constants.                       *)
(*                                                                         *)
(* The daemon frees the cell of a refused t_connect in one critical section *)
(* and the awakened call decrements num_CXs in another; in between a third  *)
(* process may take the cell.  So the invariant that is inductive counts    *)
(* the calls that may still decrement num_CXs, and the occupied cells that  *)
(* belong to none of them.                                                  *)
(***************************************************************************)
EXTENDS LtmProof

\* A t_connect between the reservation of its cell and the reading of its result.
Espera(a) == marco[a].prim = "connect" /\ pc[a] \in {"barrera", "dormida", "lee"}

Pendientes(n) == {a \in Apps : NodoDe[a] = n /\ Espera(a)}
EnUso(n, i) == CXs[n][i].celda_ocupada # 0
Sueltas(n) ==
  {i \in Celdas : EnUso(n, i) /\ \A a \in Pendientes(n) : celda[a] # i}

CuentaDe(n) == Cardinality(Pendientes(n)) + Cardinality(Sueltas(n)) <= num_CXs[n]
Cuenta == \A n \in Nodos : CuentaDe(n)
CerradaLibre ==
  \A n \in Nodos, i \in Celdas : CXs[n][i].estado_cx = CLOSED => ~ EnUso(n, i)
NumAcotado == \A n \in Nodos : num_CXs[n] <= NUM_MAX_CXs

CuentaInv == TiposInv /\ Cuenta /\ CerradaLibre /\ NumAcotado

-----------------------------------------------------------------------------
(* Cardinalities.                                                           *)

LEMMA UnoMas ==
  ASSUME NEW S, IsFiniteSet(S), NEW x, NEW T \in SUBSET (S \cup {x})
  PROVE  IsFiniteSet(T) /\ Cardinality(T) <= Cardinality(S) + 1
<1>1. /\ IsFiniteSet(S \cup {x}) /\ Cardinality(S) \in Nat
      /\ Cardinality(S \cup {x}) \in {Cardinality(S), Cardinality(S) + 1}
  BY FS_AddElement, FS_CardinalityType
<1>2. IsFiniteSet(T) /\ Cardinality(T) <= Cardinality(S \cup {x})
  BY <1>1, FS_Subset
<1>3. Cardinality(T) \in Nat
  BY <1>2, FS_CardinalityType
<1> QED
  BY <1>1, <1>2, <1>3

LEMMA UnoMenos ==
  ASSUME NEW S, IsFiniteSet(S), NEW x \in S, NEW T \in SUBSET (S \ {x})
  PROVE  Cardinality(T) <= Cardinality(S) - 1
<1>1. /\ IsFiniteSet(S \ {x}) /\ Cardinality(S) \in Nat
      /\ Cardinality(S \ {x}) = Cardinality(S) - 1
  BY FS_RemoveElement, FS_CardinalityType
<1> QED
  BY <1>1, FS_Subset

\* The two sets that are counted are finite, before and after a step.
LEMMA Finitos ==
  ASSUME NEW n \in Nodos
  PROVE  /\ IsFiniteSet(Pendientes(n)) /\ IsFiniteSet(Sueltas(n))
         /\ IsFiniteSet(Pendientes(n)') /\ IsFiniteSet(Sueltas(n)')
         /\ Cardinality(Pendientes(n)) \in Nat /\ Cardinality(Sueltas(n)) \in Nat
         /\ Cardinality(Pendientes(n)') \in Nat /\ Cardinality(Sueltas(n)') \in Nat
<1>1. /\ Pendientes(n) \in SUBSET Apps /\ Pendientes(n)' \in SUBSET Apps
      /\ Sueltas(n) \in SUBSET Celdas /\ Sueltas(n)' \in SUBSET Celdas
  BY DEF Pendientes, Sueltas
<1>2. IsFiniteSet(Celdas) /\ IsFiniteSet(Apps)
  BY SuposicionCotas, SuposicionProcesos, FS_Interval DEF Celdas
<1>3. /\ IsFiniteSet(Pendientes(n)) /\ IsFiniteSet(Sueltas(n))
      /\ IsFiniteSet(Pendientes(n)') /\ IsFiniteSet(Sueltas(n)')
  BY <1>1, <1>2, FS_Subset
<1> QED
  BY <1>3, FS_CardinalityType

-----------------------------------------------------------------------------
(* What a step does to the count, by what it does to the calls and cells.   *)

\* For a call q nothing that the count depends on has changed.
Igual(q) ==
  /\ Espera(q)' <=> Espera(q)
  /\ Espera(q) => celda'[q] = celda[q]

\* No call enters or leaves, no cell becomes occupied.
LEMMA NadieEntra ==
  ASSUME TypeOK, NEW n \in Nodos, CuentaDe(n), num_CXs'[n] = num_CXs[n],
         \A q \in Apps : Igual(q),
         \A i \in Celdas : EnUso(n, i)' => EnUso(n, i)
  PROVE  CuentaDe(n)'
<1>1. Pendientes(n)' = Pendientes(n)
  BY DEF Pendientes, Igual
<1>2. Sueltas(n)' \in SUBSET Sueltas(n)
  BY <1>1 DEF Sueltas, Igual, Pendientes
<1>3. Cardinality(Sueltas(n)') <= Cardinality(Sueltas(n))
  BY <1>2, Finitos, FS_Subset
<1>4. num_CXs[n] \in Int
  BY DEF TypeOK
<1> QED
  BY <1>1, <1>3, <1>4, Finitos DEF CuentaDe

\* Call a of the node leaves, and its cell may stay occupied.
LEMMA UnaSale ==
  ASSUME TypeOK, NEW n \in Nodos, CuentaDe(n), num_CXs'[n] = num_CXs[n],
         NEW a \in Apps, NodoDe[a] = n, Espera(a), ~ Espera(a)',
         \A q \in Apps \ {a} : Igual(q),
         \A i \in Celdas : EnUso(n, i)' => EnUso(n, i)
  PROVE  CuentaDe(n)'
<1>1. Pendientes(n)' = Pendientes(n) \ {a} /\ a \in Pendientes(n)
  BY DEF Pendientes, Igual
<1>2. Sueltas(n)' \in SUBSET (Sueltas(n) \cup {celda[a]})
  BY <1>1 DEF Sueltas, Igual, Pendientes
<1>3. Cardinality(Sueltas(n)') <= Cardinality(Sueltas(n)) + 1
  BY <1>2, Finitos, UnoMas
<1>4. Cardinality(Pendientes(n)') <= Cardinality(Pendientes(n)) - 1
  BY <1>1, Finitos, UnoMenos
<1>5. num_CXs[n] \in Int
  BY DEF TypeOK
<1> QED
  BY <1>3, <1>4, <1>5, Finitos DEF CuentaDe

\* Call a leaves finding its cell free, and decrements num_CXs.
LEMMA UnaFalla ==
  ASSUME TypeOK, NEW n \in Nodos, CuentaDe(n), num_CXs'[n] = num_CXs[n] - 1,
         NEW a \in Apps, NodoDe[a] = n, Espera(a), ~ Espera(a)',
         ~ EnUso(n, celda[a]),
         \A q \in Apps \ {a} : Igual(q),
         \A i \in Celdas : EnUso(n, i)' => EnUso(n, i)
  PROVE  CuentaDe(n)'
<1>1. Pendientes(n)' = Pendientes(n) \ {a} /\ a \in Pendientes(n)
  BY DEF Pendientes, Igual
<1>2. Sueltas(n)' \in SUBSET Sueltas(n)
  BY <1>1 DEF Sueltas, Igual, Pendientes
<1>3. Cardinality(Sueltas(n)') <= Cardinality(Sueltas(n))
  BY <1>2, Finitos, FS_Subset
<1>4. Cardinality(Pendientes(n)') <= Cardinality(Pendientes(n)) - 1
  BY <1>1, Finitos, UnoMenos
<1>5. num_CXs[n] \in Int
  BY DEF TypeOK
<1> QED
  BY <1>3, <1>4, <1>5, Finitos DEF CuentaDe

\* A t_connect reserves cell i.
LEMMA UnaConecta ==
  ASSUME TypeOK, NEW n \in Nodos, CuentaDe(n), num_CXs'[n] = num_CXs[n] + 1,
         NEW a \in Apps, NodoDe[a] = n, ~ Espera(a), Espera(a)',
         \A q \in Apps \ {a} : Igual(q),
         NEW i \in Celdas, celda'[a] = i,
         \A j \in Celdas \ {i} : EnUso(n, j)' => EnUso(n, j)
  PROVE  CuentaDe(n)'
<1>1. Pendientes(n)' = Pendientes(n) \cup {a}
  BY DEF Pendientes, Igual
<1>2. Sueltas(n)' \in SUBSET Sueltas(n)
  BY <1>1 DEF Sueltas, Igual, Pendientes
<1>3. Cardinality(Sueltas(n)') <= Cardinality(Sueltas(n))
  BY <1>2, Finitos, FS_Subset
<1>4. Cardinality(Pendientes(n)') <= Cardinality(Pendientes(n)) + 1
  BY <1>1, Finitos, UnoMas
<1>5. num_CXs[n] \in Int
  BY DEF TypeOK
<1> QED
  BY <1>3, <1>4, <1>5, Finitos DEF CuentaDe

\* A t_listen reserves cell i.
LEMMA UnaEscucha ==
  ASSUME TypeOK, NEW n \in Nodos, CuentaDe(n), num_CXs'[n] = num_CXs[n] + 1,
         \A q \in Apps : Igual(q),
         NEW i \in Celdas,
         \A j \in Celdas \ {i} : EnUso(n, j)' => EnUso(n, j)
  PROVE  CuentaDe(n)'
<1>1. Pendientes(n)' = Pendientes(n)
  BY DEF Pendientes, Igual
<1>2. Sueltas(n)' \in SUBSET (Sueltas(n) \cup {i})
  BY <1>1 DEF Sueltas, Igual, Pendientes
<1>3. Cardinality(Sueltas(n)') <= Cardinality(Sueltas(n)) + 1
  BY <1>2, Finitos, UnoMas
<1>4. num_CXs[n] \in Int
  BY DEF TypeOK
<1> QED
  BY <1>1, <1>3, <1>4, Finitos DEF CuentaDe

\* On another node nothing changes.
LEMMA OtroNodo ==
  ASSUME NEW n \in Nodos, CuentaDe(n),
         num_CXs'[n] = num_CXs[n], CXs'[n] = CXs[n],
         \A q \in Apps : NodoDe[q] = n => Igual(q)
  PROVE  CuentaDe(n)'
<1>1. Pendientes(n)' = Pendientes(n)
  BY DEF Pendientes, Igual
<1>2. Sueltas(n)' = Sueltas(n)
  BY <1>1 DEF Sueltas, Igual, Pendientes, EnUso
<1> QED
  BY <1>1, <1>2 DEF CuentaDe

-----------------------------------------------------------------------------
(* What each step does to the cells.                                        *)

\* No cell becomes occupied, and the closed ones are free.
SinOcupar ==
  \A n \in Nodos, i \in Celdas :
    /\ EnUso(n, i)' => EnUso(n, i)
    /\ CXs'[n][i].estado_cx = CLOSED => ~ EnUso(n, i)'

\* A step that writes one cell c without occupying it.
LEMMA UnaCelda ==
  ASSUME TypeOK, CerradaLibre, NEW n \in Nodos, NEW i \in Celdas, NEW c,
         CXs' = [CXs EXCEPT ![n][i] = c],
         c.celda_ocupada # 0 => EnUso(n, i),
         c.estado_cx = CLOSED => c.celda_ocupada = 0
  PROVE  SinOcupar
BY DEF TypeOK, CerradaLibre, EnUso, SinOcupar

LEMMA IgualesCeldas ==
  ASSUME CerradaLibre, UNCHANGED CXs
  PROVE  SinOcupar
BY DEF CerradaLibre, EnUso, SinOcupar

LEMMA SendTrozoCeldas ==
  ASSUME TypeOK, CerradaLibre, NEW a \in Apps, SendTrozo(a)
  PROVE  SinOcupar
<1> DEFINE n == NodoDe[a]
           i == celda[a]
           tx == MeteEnTX(CXs[n][i].TX, n, a, rotas[n])
           c == [CXs[n][i] EXCEPT !.TX = tx]
<1>1. n \in Nodos /\ i \in Celdas
  BY TiposDeProceso DEF TypeOK
<1>2. CXs[n][i] \in Conexion
  BY <1>1 DEF TypeOK
<1>3. /\ c.celda_ocupada = CXs[n][i].celda_ocupada
      /\ c.estado_cx = CXs[n][i].estado_cx
  BY <1>2 DEF Conexion
<1>4. CXs' = [CXs EXCEPT ![n][i] = c]
  BY DEF SendTrozo
<1>5. /\ c.celda_ocupada # 0 => EnUso(n, i)
      /\ c.estado_cx = CLOSED => c.celda_ocupada = 0
  BY <1>1, <1>3 DEF CerradaLibre, EnUso
<1> HIDE DEF n, i, c
<1> QED
  BY <1>1, <1>4, <1>5, UnaCelda

LEMMA DemonioCCCeldas ==
  ASSUME TypeOK, CerradaLibre, NEW n \in Nodos, DemonioCC(n)
  PROVE  SinOcupar
<1>1. PICK m \in DOMAIN red :
        LET t == m.tpdu
            i == t.id_destino
            rota == RotaAlConfirmar(n, CXs[n][i])
        IN  \/ CXs' = [CXs EXCEPT ![n][i] = CeldaRechazada(@, t)]
            \/ CXs' = [CXs EXCEPT ![n][i] = CeldaConfirmada(@, t, rota)]
  BY DEF DemonioCC
<1> DEFINE t == m.tpdu
           i == t.id_destino
           rota == RotaAlConfirmar(n, CXs[n][i])
<1>2. i \in Celdas
  BY DEF TypeOK, BolsaOK, TpduOK, Tpdu
<1>3. CXs[n][i] \in Conexion
  BY <1>2 DEF TypeOK
<1>4. PICK c : /\ CXs' = [CXs EXCEPT ![n][i] = c]
               /\ c.celda_ocupada # 0 => EnUso(n, i)
               /\ c.estado_cx = CLOSED => c.celda_ocupada = 0
  <2>1. CeldaRechazada(CXs[n][i], t).celda_ocupada = 0
    BY <1>3 DEF CeldaRechazada, Conexion
  <2>2. /\ CeldaConfirmada(CXs[n][i], t, rota).celda_ocupada = CXs[n][i].celda_ocupada
        /\ CeldaConfirmada(CXs[n][i], t, rota).estado_cx # CLOSED
    BY <1>3 DEF CeldaConfirmada, Conexion, ESTABLISHED, CLOSED
  <2> QED
    BY <1>1, <2>1, <2>2 DEF EnUso
<1> HIDE DEF i
<1> QED
  BY <1>2, <1>4, UnaCelda

LEMMA DemonioCRCeldas ==
  ASSUME TypeOK, CerradaLibre, NEW n \in Nodos, DemonioCR(n)
  PROVE  SinOcupar
<1>1. PICK m \in DOMAIN red :
        LET i == asign_conexion_CR(CXs[n], m.tpdu)
        IN  i # EXNOTSAP /\ CXs' = [CXs EXCEPT ![n][i] = CeldaAceptada(@, m)]
  BY DEF DemonioCR
<1> DEFINE i == asign_conexion_CR(CXs[n], m.tpdu)
           c == CeldaAceptada(CXs[n][i], m)
<1>2. i \in Celdas
  BY <1>1, AsignaCandidata DEF Candidatas
<1>3. CXs[n][i] \in Conexion
  BY <1>2 DEF TypeOK
<1>4. c.celda_ocupada = CXs[n][i].celda_ocupada /\ c.estado_cx # CLOSED
  BY <1>3 DEF CeldaAceptada, Conexion, ESTABLISHED, CLOSED
<1>5. CXs' = [CXs EXCEPT ![n][i] = c]
  BY <1>1
<1>6. c.celda_ocupada # 0 => EnUso(n, i)
  BY <1>4 DEF EnUso
<1> HIDE DEF i, c
<1> QED
  BY <1>2, <1>4, <1>5, <1>6, UnaCelda

-----------------------------------------------------------------------------
(* What each step does to the calls that wait.                              *)

\* A process moves, and its call was not and is not waiting for an answer.
LEMMA Quieta ==
  ASSUME NEW p \in Procs,
         p \in Apps => ~ Espera(p) /\ ~ Espera(p)',
         \A q \in Apps \ {p} :
           pc'[q] = pc[q] /\ marco'[q].prim = marco[q].prim /\ celda'[q] = celda[q]
  PROVE  \A q \in Apps : Igual(q)
BY DEF Igual, Espera

LEMMA LlamaEspera ==
  ASSUME TypeOK, NEW a \in Apps, Llama(a)
  PROVE  \A q \in Apps : Igual(q)
<1>1. a \in Procs /\ Apps \subseteq Procs
  BY TiposDeProceso
<1>2. /\ pc[a] = "fuera"
      /\ \E l \in {"connect", "listen", "send", "fuera", "muerta"} :
           pc' = [pc EXCEPT ![a] = l]
      /\ (\E m : marco' = [marco EXCEPT ![a] = m]) \/ marco' = marco
      /\ \E i : celda' = [celda EXCEPT ![a] = i] \/ celda' = celda
  <2>1. CASE IniciaConnect(a)
    BY <2>1 DEF IniciaConnect, Entra, Salta
  <2>2. CASE IniciaListen(a)
    BY <2>2 DEF IniciaListen, Entra, Salta
  <2>3. CASE IniciaSend(a)
    BY <2>3 DEF IniciaSend, Entra, Salta
  <2>4. CASE LlamadaInvalida(a)
    BY <2>4 DEF LlamadaInvalida, Vuelve, Salta
  <2>5. CASE SendFuera(a) \/ SendFueraMuere(a)
    BY <2>5 DEF SendFuera, SendFueraMuere, FueraDeTabla, MuereConSemaforo, Vuelve, Salta
  <2> QED
    BY <2>1, <2>2, <2>3, <2>4, <2>5 DEF Llama
<1>3. ~ Espera(a) /\ ~ Espera(a)'
  BY <1>1, <1>2 DEF Espera, TypeOK
<1>4. \A q \in Apps \ {a} :
        pc'[q] = pc[q] /\ marco'[q].prim = marco[q].prim /\ celda'[q] = celda[q]
  BY <1>1, <1>2 DEF TypeOK
<1> QED
  BY <1>1, <1>3, <1>4, Quieta

\* The steps of an application that do not touch a t_connect in wait.
LEMMA AppEspera ==
  ASSUME TypeOK, MarcoPropio, NEW a \in Apps,
         \/ ConnectRechaza(a) \/ ConnectMuere(a)
         \/ ListenRechaza(a) \/ ListenReserva(a) \/ ListenLee(a)
         \/ SendRechaza(a) \/ SendEntra(a) \/ SendTrozo(a) \/ SendMuere(a)
         \/ SendDuerme(a) \/ SendReanuda(a) \/ SendTermina(a)
  PROVE  \A q \in Apps : Igual(q)
<1>1. a \in Procs /\ Apps \subseteq Procs
  BY TiposDeProceso
<1>2. CASE ConnectRechaza(a) \/ ListenRechaza(a) \/ SendRechaza(a) \/ ListenLee(a)
           \/ SendTermina(a)
  <2>1. /\ pc[a] \in {"connect", "listen", "send", "enviando"}
             \/ marco[a].prim = "listen"
        /\ pc' = [pc EXCEPT ![a] = "fuera"] /\ marco' = [marco EXCEPT ![a] = MarcoNulo]
        /\ celda' = [celda EXCEPT ![a] = 0]
    BY <1>2 DEF ConnectRechaza, ListenRechaza, SendRechaza, ListenLee, SendTermina,
                Vuelve, Salta
  <2>2. ~ Espera(a) /\ ~ Espera(a)'
    BY <1>1, <2>1 DEF Espera, TypeOK
  <2>3. \A q \in Apps \ {a} :
          pc'[q] = pc[q] /\ marco'[q].prim = marco[q].prim /\ celda'[q] = celda[q]
    BY <1>1, <2>1 DEF TypeOK
  <2> QED
    BY <1>1, <2>2, <2>3, Quieta
<1>3. CASE ConnectMuere(a) \/ SendMuere(a) \/ SendEntra(a) \/ SendDuerme(a)
           \/ SendReanuda(a)
  <2>1. /\ \/ pc[a] \in {"connect", "enviando"} /\ pc'[a] = "muerta"
           \/ marco[a].prim = "send"
        /\ \E l : pc' = [pc EXCEPT ![a] = l]
        /\ \A q \in Apps : marco'[q].prim = marco[q].prim
        /\ UNCHANGED celda
    <3>1. CASE ConnectMuere(a)
      BY <1>1, <3>1 DEF ConnectMuere, MuereConSemaforo, Salta, TypeOK
    <3>2. CASE SendMuere(a)
      BY <1>1, <3>2 DEF SendMuere, MuereConSemaforo, Salta, TypeOK
    <3>3. CASE SendEntra(a)
      BY <3>3, MarcoDeSend DEF SendEntra, Salta, MarcoPropio, MarcoDe
    <3>4. CASE SendDuerme(a)
      BY <3>4 DEF SendDuerme, Salta, MarcoPropio, MarcoDe
    <3>5. CASE SendReanuda(a)
      BY <3>5 DEF SendReanuda, Salta
    <3> QED
      BY <1>3, <3>1, <3>2, <3>3, <3>4, <3>5
  <2>2. ~ Espera(a) /\ ~ Espera(a)'
    BY <1>1, <2>1 DEF Espera
  <2>3. \A q \in Apps \ {a} :
          pc'[q] = pc[q] /\ marco'[q].prim = marco[q].prim /\ celda'[q] = celda[q]
    BY <1>1, <2>1 DEF TypeOK
  <2> QED
    BY <1>1, <2>2, <2>3, Quieta
<1>4. CASE SendTrozo(a)
  <2> DEFINE f == [marco EXCEPT ![a].resta = @ - 1]
  <2>1. marco' = [f EXCEPT ![a].hechos = @ + 1] /\ UNCHANGED <<pc, celda>>
    BY <1>4 DEF SendTrozo
  <2>2. /\ f \in [Apps -> [prim : {"connect", "listen", "send"}, orig : Tsap,
                           dest : Tsap, resta : Int, hechos : Nat]]
        /\ \A q \in Apps : f[q].prim = marco[q].prim
    <3>1. marco \in [Apps -> Marco]
      BY DEF TypeOK
    <3>2. marco[a].resta - 1 \in Int
      BY <3>1 DEF Marco
    <3>3. \A q \in Apps : f[q].prim = marco[q].prim
      BY <3>1 DEF Marco
    <3> QED
      BY <3>1, <3>2, <3>3 DEF Marco
  <2> HIDE DEF f
  <2>3. \A q \in Apps : marco'[q].prim = f[q].prim
    BY <2>1, <2>2
  <2> QED
    BY <2>1, <2>2, <2>3 DEF Igual, Espera
<1>5. CASE ListenReserva(a)
  <2>1. /\ pc[a] = "listen" /\ pc' = [pc EXCEPT ![a] = "barrera"] /\ UNCHANGED marco
        /\ celda' = [celda EXCEPT ![a] = buscar_celda_libre(CXs[NodoDe[a]])]
    BY <1>5 DEF ListenReserva, Salta
  <2>2. marco[a].prim # "connect"
    BY <2>1 DEF MarcoPropio, MarcoDe
  <2> QED
    BY <1>1, <2>1, <2>2, Quieta DEF Espera, TypeOK
<1> QED
  BY <1>2, <1>3, <1>4, <1>5

\* An arrival at a barrier moves nobody out of the wait or into it.
LEMMA BarreraEspera ==
  ASSUME TypeOK, NEW p \in Procs, LlegaBarrera(p)
  PROVE  \A q \in Apps : Igual(q)
<1> DEFINE w == barC[Nodo(p)][celda[p]]
           f == [pc EXCEPT ![p] = TrasBarrera(p)]
<1>1. \A a \in Apps : a \in Procs /\ TrasBarrera(a) = "lee"
  BY TiposDeProceso DEF TrasBarrera
<1>2. pc \in [Procs -> PCsApp \cup PCsDemonio] /\ pc[p] = "barrera"
  BY DEF TypeOK, LlegaBarrera
<1> SUFFICES ASSUME NEW b \in Apps
             PROVE  \/ pc'[b] = pc[b]
                    \/ {pc[b], pc'[b]} \subseteq {"barrera", "dormida", "lee"}
  BY DEF LlegaBarrera, Igual, Espera
<1>3. CASE w = Nadie
  BY <1>1, <1>2, <1>3 DEF LlegaBarrera, Salta
<1>4. CASE w # Nadie
  <2>1. pc' = [f EXCEPT ![w] = IF @ = "dormida" THEN TrasBarrera(w) ELSE @]
    BY <1>4 DEF LlegaBarrera
  <2>2. /\ DOMAIN f = Procs
        /\ f[b] = pc[b] \/ (pc[b] = "barrera" /\ f[b] = "lee")
    BY <1>1, <1>2
  <2> HIDE DEF f, w
  <2> QED
    BY <1>1, <1>2, <2>1, <2>2
<1> QED
  BY <1>3, <1>4

LEMMA DemonioEspera ==
  ASSUME TypeOK, NEW n \in Nodos,
         \/ DemonioCC(n) \/ DemonioCR(n) \/ DemonioCRSinTsap(n)
         \/ DemonioMuere(n) \/ DemonioOtro(n)
  PROVE  \A q \in Apps : Igual(q)
<1>1. n \in Procs /\ n \notin Apps /\ Apps \subseteq Procs
  BY TiposDeProceso, SuposicionProcesos
<1>2. /\ (\E l : pc' = [pc EXCEPT ![n] = l]) \/ UNCHANGED pc
      /\ (\E i : celda' = [celda EXCEPT ![n] = i]) \/ UNCHANGED celda
      /\ UNCHANGED marco
  BY DEF DemonioCC, DemonioCR, DemonioCRSinTsap, DemonioMuere, DemonioOtro,
         MuereConSemaforo, AbreYSalta, Salta
<1>3. \A q \in Apps : pc'[q] = pc[q] /\ celda'[q] = celda[q]
  BY <1>1, <1>2 DEF TypeOK
<1> QED
  BY <1>2, <1>3 DEF Igual, Espera

-----------------------------------------------------------------------------
(* The steps that change the count.                                         *)

LEMMA ConnectReservaCuenta ==
  ASSUME TypeOK, Cuenta, CerradaLibre, NEW a \in Apps, ConnectReserva(a)
  PROVE  Cuenta' /\ CerradaLibre'
<1> DEFINE n == NodoDe[a]
           i == buscar_celda_libre(CXs[n])
           c == CeldaConnect(CXs[n][i], a,
                              MeteEnTX(CXs[n][i].TX, n, a, RotaAlQuitar(n)))
<1>1. a \in Procs /\ Apps \subseteq Procs /\ n \in Nodos /\ i \in Celdas
  BY TiposDeProceso, CeldaLibreEsCelda
<1>2. CXs[n][i] \in Conexion
  BY <1>1 DEF TypeOK
<1>3. /\ pc[a] = "connect" /\ UNCHANGED marco
      /\ \E l \in {"barrera", "muerta"} : pc' = [pc EXCEPT ![a] = l]
      /\ celda' = [celda EXCEPT ![a] = i] /\ CXs' = [CXs EXCEPT ![n][i] = c]
      /\ num_CXs' = [num_CXs EXCEPT ![n] = @ + 1]
  BY DEF ConnectReserva, AbreYSalta, Salta
<1>4. c.estado_cx = CONNECT
  BY <1>2 DEF CeldaConnect, Conexion
<1> HIDE DEF n, i, c
<1>5. \A k \in Nodos, j \in Celdas :
        k # n \/ j # i => CXs'[k][j] = CXs[k][j]
  BY <1>1, <1>3 DEF TypeOK
<1>6. CerradaLibre'
  <2> SUFFICES ASSUME NEW k \in Nodos, NEW j \in Celdas, CXs'[k][j].estado_cx = CLOSED
               PROVE  ~ EnUso(k, j)'
    BY DEF CerradaLibre
  <2>1. CXs'[n][i] = c
    BY <1>1, <1>3 DEF TypeOK
  <2>2. k # n \/ j # i
    BY <1>4, <2>1 DEF CONNECT, CLOSED
  <2> QED
    BY <1>5, <2>2 DEF CerradaLibre, EnUso
<1>7. ~ Espera(a) /\ celda'[a] = i
  BY <1>1, <1>3 DEF Espera, TypeOK
<1>8. \A q \in Apps \ {a} : Igual(q)
  BY <1>1, <1>3 DEF Igual, Espera, TypeOK
<1>9. ASSUME NEW k \in Nodos PROVE CuentaDe(k)'
  <2>0. CuentaDe(k)
    BY DEF Cuenta
  <2>1. CASE k # n
    <3>1. num_CXs'[k] = num_CXs[k] /\ CXs'[k] = CXs[k]
      BY <1>1, <1>3, <2>1 DEF TypeOK
    <3> QED
      BY <1>8, <2>0, <2>1, <3>1, OtroNodo DEF n
  <2>2. CASE k = n
    <3>1. num_CXs'[k] = num_CXs[k] + 1
      BY <1>1, <1>3, <2>2 DEF TypeOK
    <3>2. \A j \in Celdas \ {i} : EnUso(k, j)' => EnUso(k, j)
      BY <1>5 DEF EnUso
    <3>3. CASE Espera(a)'
      BY <1>1, <1>7, <1>8, <2>0, <2>2, <3>1, <3>2, <3>3, UnaConecta DEF n
    <3>4. CASE ~ Espera(a)'
      <4>1. \A q \in Apps : Igual(q)
        BY <1>7, <1>8, <3>4 DEF Igual
      <4> QED
        BY <1>1, <2>0, <3>1, <3>2, <4>1, UnaEscucha
    <3> QED
      BY <3>3, <3>4
  <2> QED
    BY <2>1, <2>2
<1> QED
  BY <1>6, <1>9 DEF Cuenta

LEMMA ListenReservaCuenta ==
  ASSUME TypeOK, MarcoPropio, Cuenta, CerradaLibre, NEW a \in Apps, ListenReserva(a)
  PROVE  Cuenta' /\ CerradaLibre'
<1> DEFINE n == NodoDe[a]
           i == buscar_celda_libre(CXs[n])
           c == CeldaListen(CXs[n][i], a)
<1>1. n \in Nodos /\ i \in Celdas
  BY TiposDeProceso, CeldaLibreEsCelda
<1>2. CXs[n][i] \in Conexion
  BY <1>1 DEF TypeOK
<1>3. /\ CXs' = [CXs EXCEPT ![n][i] = c]
      /\ num_CXs' = [num_CXs EXCEPT ![n] = @ + 1]
  BY DEF ListenReserva
<1>4. c.estado_cx = LISTEN
  BY <1>2 DEF CeldaListen, Conexion
<1> HIDE DEF n, i, c
<1>5. \A k \in Nodos, j \in Celdas :
        k # n \/ j # i => CXs'[k][j] = CXs[k][j]
  BY <1>1, <1>3 DEF TypeOK
<1>6. CerradaLibre'
  <2> SUFFICES ASSUME NEW k \in Nodos, NEW j \in Celdas, CXs'[k][j].estado_cx = CLOSED
               PROVE  ~ EnUso(k, j)'
    BY DEF CerradaLibre
  <2>1. CXs'[n][i] = c
    BY <1>1, <1>3 DEF TypeOK
  <2>2. k # n \/ j # i
    BY <1>4, <2>1 DEF LISTEN, CLOSED
  <2> QED
    BY <1>5, <2>2 DEF CerradaLibre, EnUso
<1>7. \A q \in Apps : Igual(q)
  BY AppEspera
<1>8. ASSUME NEW k \in Nodos PROVE CuentaDe(k)'
  <2>0. CuentaDe(k)
    BY DEF Cuenta
  <2>1. CASE k # n
    <3>1. num_CXs'[k] = num_CXs[k] /\ CXs'[k] = CXs[k]
      BY <1>1, <1>3, <2>1 DEF TypeOK
    <3> QED
      BY <1>7, <2>0, <3>1, OtroNodo
  <2>2. CASE k = n
    <3>1. num_CXs'[k] = num_CXs[k] + 1
      BY <1>1, <1>3, <2>2 DEF TypeOK
    <3>2. \A j \in Celdas \ {i} : EnUso(k, j)' => EnUso(k, j)
      BY <1>5 DEF EnUso
    <3> QED
      BY <1>1, <1>7, <2>0, <3>1, <3>2, UnaEscucha
  <2> QED
    BY <2>1, <2>2
<1> QED
  BY <1>6, <1>8 DEF Cuenta

\* The awakened t_connect.
LEMMA ConnectLeeCuenta ==
  ASSUME TypeOK, Cuenta, CerradaLibre, NEW a \in Apps, ConnectLee(a)
  PROVE  Cuenta'
<1> DEFINE n == NodoDe[a]
<1>1. a \in Procs /\ Apps \subseteq Procs /\ n \in Nodos /\ celda[a] \in Celdas
  BY TiposDeProceso DEF TypeOK
<1>2. /\ pc[a] = "lee" /\ marco[a].prim = "connect"
      /\ pc' = [pc EXCEPT ![a] = "fuera"] /\ marco' = [marco EXCEPT ![a] = MarcoNulo]
      /\ celda' = [celda EXCEPT ![a] = 0] /\ UNCHANGED CXs
  BY DEF ConnectLee, Vuelve, Salta
<1>3. Espera(a) /\ ~ Espera(a)'
  BY <1>1, <1>2 DEF Espera, TypeOK
<1>4. \A q \in Apps \ {a} : Igual(q)
  BY <1>1, <1>2 DEF Igual, Espera, TypeOK
<1>5. ASSUME NEW k \in Nodos PROVE CuentaDe(k)'
  <2>0. CuentaDe(k) /\ \A i \in Celdas : EnUso(k, i)' => EnUso(k, i)
    BY <1>2 DEF Cuenta, EnUso
  <2>1. CASE k # n
    <3>1. num_CXs'[k] = num_CXs[k] /\ CXs'[k] = CXs[k]
      BY <1>1, <1>2, <2>1 DEF ConnectLee, TypeOK
    <3> QED
      BY <1>4, <2>0, <2>1, <3>1, OtroNodo
  <2>2. CASE k = n /\ UNCHANGED num_CXs
    BY <1>1, <1>3, <1>4, <2>0, <2>2, UnaSale
  <2>3. CASE k = n /\ ~ UNCHANGED num_CXs
    <3>1. /\ CXs[n][celda[a]].estado_cx = CLOSED
          /\ num_CXs' = [num_CXs EXCEPT ![n] = @ - 1]
      BY <2>3 DEF ConnectLee, FalloConnect
    <3>2. ~ EnUso(k, celda[a]) /\ num_CXs'[k] = num_CXs[k] - 1
      BY <1>1, <2>3, <3>1 DEF CerradaLibre, TypeOK
    <3> QED
      BY <1>1, <1>3, <1>4, <2>0, <2>3, <3>2, UnaFalla
  <2> QED
    BY <2>1, <2>2, <2>3
<1> QED
  BY <1>5 DEF Cuenta

\* A killed t_connect: its cell stays as it is.
LEMMA MatanCuenta ==
  ASSUME TypeOK, Cuenta, NEW p \in Procs, Matan(p)
  PROVE  Cuenta'
<1>1. /\ Apps \subseteq Procs /\ pc' = [pc EXCEPT ![p] = "muerta"]
      /\ UNCHANGED <<marco, celda, CXs, num_CXs>>
  BY TiposDeProceso DEF Matan, Salta, tabla
<1>2. \A q \in Apps \ {p} : Igual(q)
  BY <1>1 DEF Igual, Espera, TypeOK
<1>3. p \in Apps => ~ Espera(p)' /\ NodoDe[p] \in Nodos
  BY <1>1, TiposDeProceso DEF Espera, TypeOK
<1>4. ASSUME NEW k \in Nodos PROVE CuentaDe(k)'
  <2>0. /\ CuentaDe(k) /\ num_CXs'[k] = num_CXs[k] /\ CXs'[k] = CXs[k]
        /\ \A i \in Celdas : EnUso(k, i)' => EnUso(k, i)
    BY <1>1 DEF Cuenta, EnUso
  <2>1. CASE p \in Apps /\ Espera(p) /\ NodoDe[p] = k
    BY <1>2, <1>3, <2>0, <2>1, UnaSale
  <2>2. CASE p \in Apps /\ NodoDe[p] # k
    BY <1>2, <2>0, <2>2, OtroNodo
  <2>3. CASE p \notin Apps \/ ~ Espera(p)
    <3>1. \A q \in Apps : Igual(q)
      BY <1>2, <1>3, <2>3 DEF Igual
    <3> QED
      BY <2>0, <3>1, NadieEntra
  <2> QED
    BY <2>1, <2>2, <2>3
<1> QED
  BY <1>4 DEF Cuenta

-----------------------------------------------------------------------------
(* The invariant.                                                           *)

\* A step that neither reserves nor reads a result.
LEMMA RestoCuenta ==
  ASSUME TypeOK, Cuenta, CerradaLibre, SinOcupar, UNCHANGED num_CXs,
         \A q \in Apps : Igual(q)
  PROVE  Cuenta' /\ CerradaLibre'
<1>1. ASSUME NEW k \in Nodos PROVE CuentaDe(k)'
  BY NadieEntra DEF Cuenta, SinOcupar
<1> QED
  BY <1>1 DEF Cuenta, CerradaLibre, SinOcupar

LEMMA CuentaPaso ==
  ASSUME TiposInv, Cuenta, CerradaLibre, [Next]_vars
  PROVE  Cuenta' /\ CerradaLibre'
<1> USE DEF TiposInv
<1>1. ASSUME NEW a \in Apps, Llama(a) PROVE Cuenta' /\ CerradaLibre'
  <2>1. UNCHANGED <<CXs, num_CXs>>
    BY <1>1 DEF Llama, IniciaConnect, IniciaListen, IniciaSend, SendFuera, SendFueraMuere,
                MuereConSemaforo, LlamadaInvalida, tabla
  <2> QED
    BY <1>1, <2>1, IgualesCeldas, LlamaEspera, RestoCuenta
<1>2. ASSUME NEW a \in Apps, PasoApp(a) PROVE Cuenta' /\ CerradaLibre'
  <2>1. CASE ConnectReserva(a)
    BY <2>1, ConnectReservaCuenta
  <2>2. CASE ListenReserva(a)
    BY <2>2, ListenReservaCuenta
  <2>3. CASE ConnectLee(a)
    <3>1. UNCHANGED CXs
      BY <2>3 DEF ConnectLee
    <3> QED
      BY <2>3, <3>1, ConnectLeeCuenta DEF CerradaLibre, EnUso
  <2>4. CASE SendTrozo(a)
    <3>1. UNCHANGED num_CXs
      BY <2>4 DEF SendTrozo
    <3> QED
      BY <2>4, <3>1, SendTrozoCeldas, AppEspera, RestoCuenta
  <2>5. CASE LlegaBarrera(a)
    <3>1. a \in Procs /\ UNCHANGED <<CXs, num_CXs>>
      BY <2>5, TiposDeProceso DEF LlegaBarrera, tabla
    <3> QED
      BY <2>5, <3>1, IgualesCeldas, BarreraEspera, RestoCuenta
  <2>6. CASE \/ ConnectRechaza(a) \/ ConnectMuere(a) \/ ListenRechaza(a) \/ ListenLee(a)
             \/ SendRechaza(a) \/ SendEntra(a) \/ SendMuere(a) \/ SendDuerme(a)
             \/ SendReanuda(a) \/ SendTermina(a)
    <3>1. UNCHANGED <<CXs, num_CXs>>
      BY <2>6 DEF ConnectRechaza, ConnectMuere, ListenRechaza, ListenLee, SendRechaza,
                  SendEntra, SendMuere, SendDuerme, SendReanuda, SendTermina,
                  MuereConSemaforo, tabla
    <3>2. \A q \in Apps : Igual(q)
      BY <2>6, AppEspera
    <3> QED
      BY <3>1, <3>2, IgualesCeldas, RestoCuenta
  <2> QED
    BY <1>2, <2>1, <2>2, <2>3, <2>4, <2>5, <2>6 DEF PasoApp
<1>3. ASSUME NEW n \in Nodos, PasoDemonio(n) PROVE Cuenta' /\ CerradaLibre'
  <2>1. CASE LlegaBarrera(n)
    <3>1. n \in Procs /\ UNCHANGED <<CXs, num_CXs>>
      BY <2>1, TiposDeProceso DEF LlegaBarrera, tabla
    <3> QED
      BY <2>1, <3>1, IgualesCeldas, BarreraEspera, RestoCuenta
  <2>2. CASE ~ LlegaBarrera(n)
    <3>1. \A q \in Apps : Igual(q)
      BY <1>3, <2>2, DemonioEspera DEF PasoDemonio
    <3>2. UNCHANGED num_CXs
      BY <1>3, <2>2 DEF PasoDemonio, DemonioCC, DemonioCR, DemonioCRSinTsap,
                        DemonioMuere, DemonioOtro, MuereConSemaforo, tabla
    <3>3. DemonioCC(n) \/ DemonioCR(n) \/ UNCHANGED CXs
      BY <1>3, <2>2 DEF PasoDemonio, DemonioCRSinTsap, DemonioMuere, DemonioOtro,
                        MuereConSemaforo, tabla
    <3>4. SinOcupar
      BY <3>3, DemonioCCCeldas, DemonioCRCeldas, IgualesCeldas
    <3> QED
      BY <3>1, <3>2, <3>4, RestoCuenta
  <2> QED
    BY <2>1, <2>2
<1>4. ASSUME NEW p \in Procs, Matan(p) PROVE Cuenta' /\ CerradaLibre'
  BY <1>4, MatanCuenta DEF Matan, tabla, CerradaLibre, EnUso
<1>5. CASE RedDuplica \/ UNCHANGED vars
  <2>1. UNCHANGED <<CXs, num_CXs, pc, marco, celda>>
    BY <1>5 DEF RedDuplica, vars, tabla
  <2>2. \A q \in Apps : Igual(q)
    BY <2>1 DEF Igual, Espera
  <2> QED
    BY <2>1, <2>2, IgualesCeldas, RestoCuenta
<1> QED
  BY <1>1, <1>2, <1>3, <1>4, <1>5 DEF Next

\* A call is let in only below the maximum.
LEMMA NumAcotadoPaso ==
  ASSUME TypeOK, NumAcotado, [Next]_vars
  PROVE  NumAcotado'
<1> USE SuposicionCotas
<1>0. num_CXs \in [Nodos -> Int] /\ \A n \in Nodos : num_CXs[n] <= NUM_MAX_CXs
  BY DEF TypeOK, NumAcotado
<1>1. ASSUME NEW a \in Apps, PasoApp(a) PROVE NumAcotado'
  <2>0. NodoDe[a] \in Nodos
    BY TiposDeProceso
  <2>1. CASE ConnectReserva(a)
    <3>1. /\ num_CXs[NodoDe[a]] # NUM_MAX_CXs
          /\ num_CXs' = [num_CXs EXCEPT ![NodoDe[a]] = @ + 1]
      BY <2>1 DEF ConnectReserva, ErrorConnect, EXMAXC, EXOK
    <3> QED
      BY <1>0, <2>0, <3>1 DEF NumAcotado
  <2>2. CASE ListenReserva(a)
    <3>1. /\ num_CXs[NodoDe[a]] # NUM_MAX_CXs
          /\ num_CXs' = [num_CXs EXCEPT ![NodoDe[a]] = @ + 1]
      BY <2>2 DEF ListenReserva, ErrorListen, EXMAXC, EXOK
    <3> QED
      BY <1>0, <2>0, <3>1 DEF NumAcotado
  <2>3. CASE ConnectLee(a)
    <3>1. \/ num_CXs' = [num_CXs EXCEPT ![NodoDe[a]] = @ - 1]
          \/ UNCHANGED num_CXs
      BY <2>3 DEF ConnectLee
    <3> QED
      BY <1>0, <2>0, <3>1 DEF NumAcotado
  <2> QED
    BY <1>0, <1>1, <2>1, <2>2, <2>3
    DEF PasoApp, ConnectRechaza, ConnectMuere, ListenRechaza, ListenLee, SendRechaza,
        SendEntra, SendTrozo, SendMuere, SendDuerme, SendReanuda, SendTermina,
        LlegaBarrera, MuereConSemaforo, tabla, NumAcotado
<1>2. ASSUME UNCHANGED num_CXs PROVE NumAcotado'
  BY <1>0, <1>2 DEF NumAcotado
<1>3. ASSUME NEW a \in Apps, Llama(a) PROVE UNCHANGED num_CXs
  BY <1>3 DEF Llama, IniciaConnect, IniciaListen, IniciaSend, SendFuera, SendFueraMuere,
              MuereConSemaforo, LlamadaInvalida, tabla
<1>4. ASSUME NEW n \in Nodos, PasoDemonio(n) PROVE UNCHANGED num_CXs
  BY <1>4 DEF PasoDemonio, DemonioCC, DemonioCR, DemonioCRSinTsap, DemonioMuere,
              DemonioOtro, LlegaBarrera, MuereConSemaforo, tabla
<1>5. CASE RedDuplica \/ (\E p \in Procs : Matan(p)) \/ UNCHANGED vars
  BY <1>2, <1>5 DEF RedDuplica, Matan, vars, tabla
<1> QED
  BY <1>1, <1>2, <1>3, <1>4, <1>5 DEF Next

\* Every occupied cell belongs to a call that waits, or to none of them: so
\* there are at most as many as the invariant counts.
LEMMA OcupadasContadas ==
  ASSUME CuentaInv
  PROVE  OcupacionContada
<1> SUFFICES ASSUME NEW n \in Nodos
             PROVE  Cardinality(Ocupadas(CXs[n])) <= num_CXs[n]
  BY DEF CuentaInv, NumAcotado, OcupacionContada
<1> DEFINE P == Pendientes(n)
           S == Sueltas(n)
           f == [a \in P |-> celda[a]]
           T == {celda[a] : a \in P}
<1>1. IsFiniteSet(P) /\ IsFiniteSet(S) /\ Cardinality(P) \in Nat /\ Cardinality(S) \in Nat
  BY Finitos
<1>2. IsFiniteSet(T) /\ Cardinality(T) <= Cardinality(P)
  <2>1. f \in Surjection(P, T)
    BY DEF Surjection
  <2> HIDE DEF f, T, P
  <2> QED
    BY <1>1, <2>1, FS_Surjection
<1>3. Ocupadas(CXs[n]) \in SUBSET (S \cup T)
  BY DEF Ocupadas, Sueltas, EnUso
<1>4. /\ IsFiniteSet(S \cup T) /\ Cardinality(T) \in Nat
      /\ Cardinality(S \cup T) <= Cardinality(S) + Cardinality(T)
      /\ Cardinality(S \cup T) \in Nat
  <2>1. IsFiniteSet(S \cap T)
    BY <1>1, FS_Subset
  <2>2. /\ Cardinality(S \cap T) \in Nat /\ Cardinality(T) \in Nat
        /\ IsFiniteSet(S \cup T)
        /\ Cardinality(S \cup T) =
              Cardinality(S) + Cardinality(T) - Cardinality(S \cap T)
    BY <1>1, <1>2, <2>1, FS_CardinalityType, FS_Union
  <2> HIDE DEF S, T
  <2> QED
    BY <1>1, <2>2, FS_CardinalityType
<1>5. /\ Cardinality(Ocupadas(CXs[n])) <= Cardinality(S \cup T)
      /\ Cardinality(Ocupadas(CXs[n])) \in Nat
  <2>1. IsFiniteSet(Ocupadas(CXs[n])) /\
        Cardinality(Ocupadas(CXs[n])) <= Cardinality(S \cup T)
    BY <1>3, <1>4, FS_Subset
  <2> QED
    BY <2>1, FS_CardinalityType
<1>6. Cardinality(P) + Cardinality(S) <= num_CXs[n] /\ num_CXs[n] \in Int
  BY DEF CuentaInv, Cuenta, CuentaDe, TiposInv, TypeOK
<1> HIDE DEF P, S, T
<1> QED
  BY <1>1, <1>2, <1>4, <1>5, <1>6

LEMMA CuentaInicio == Init => CuentaInv
<1> SUFFICES ASSUME Init PROVE CuentaInv
  OBVIOUS
<1>1. TiposInv
  BY TiposInicio
<1>2. ASSUME NEW n \in Nodos
      PROVE  Pendientes(n) = {} /\ Sueltas(n) = {} /\ num_CXs[n] = 0
  BY TiposDeProceso DEF Init, Pendientes, Espera, Sueltas, EnUso, CeldaInicial
<1>3. CerradaLibre
  BY DEF Init, CerradaLibre, EnUso, CeldaInicial
<1> QED
  BY <1>1, <1>2, <1>3, FS_EmptySet, SuposicionCotas
  DEF CuentaInv, Cuenta, CuentaDe, NumAcotado

LEMMA CuentaInvPaso == CuentaInv /\ [Next]_vars => CuentaInv'
  BY TiposInvPaso, CuentaPaso, NumAcotadoPaso DEF CuentaInv, TiposInv

\* num_CXs counts at least the occupied cells and at most NUM_MAX_CXs, for any
\* number of cells, calls, refusals, duplicates and deaths.
THEOREM OcupacionSegura == Spec => []OcupacionContada
<1>1. CuentaInv => OcupacionContada
  BY OcupadasContadas
<1> QED
  BY <1>1, CuentaInicio, CuentaInvPaso, PTL DEF Spec

=============================================================================
