--------------------------- MODULE LtmProofSesion ---------------------------
(***************************************************************************)
(* The sessions, for every value of the constants: who waits at the barrier *)
(* of a cell, what the primitives return, the pairs of cells, and the       *)
(* refinement of Sesion.                                                    *)
(***************************************************************************)
EXTENDS LtmProofTabla, LtmSesion

-----------------------------------------------------------------------------
(* Who owns a cell, and who waits at its barrier.  Where the applications    *)
(* use the identifiers that they were given that is one application for each *)
(* cell; one that sends with another's id may meet its owner at the barrier, *)
(* but only of a cell that is established.                                   *)

\* The identifier that a process has got, and the cell it works on, are its own.
Propio(a) ==
  /\ id[a] # -1 => CXs[NodoDe[a]][id[a]].ap_pid = a
  /\ pc[a] \in {"barrera", "dormida", "lee", "send", "enviando"}
       => CXs[NodoDe[a]][celda[a]].ap_pid = a

\* A call that asked for a connection owns its cell.
DuenoDe(a) ==
  /\ pc[a] \in {"barrera", "dormida", "lee"} /\ marco[a].prim # "send"
       => CXs[NodoDe[a]][celda[a]].ap_pid = a
  /\ IdsAjenas \/ Propio(a)
Duenos == \A a \in Apps : DuenoDe(a)

\* The application has reserved the cell, or may send on it.
DeEl(n, i, q) == CXs[n][i].ap_pid = q \/ (IdsAjenas /\ Establecida(n, i))

\* Counted at a barrier: nobody, the daemon that has established the cell, the
\* owner of the cell, or one that sends on it once it is established; asleep
\* there, or killed in its sleep.
BarreraDe(n, i) ==
  LET q == barC[n][i]
  IN  q # Nadie =>
        /\ pc[q] = "muerta" \/ (pc[q] = "dormida" /\ celda[q] = i)
        /\ \/ q = n /\ Establecida(n, i)
           \/ q \in Apps /\ NodoDe[q] = n /\ DeEl(n, i, q)
Barreras == \A n \in Nodos, i \in Celdas : BarreraDe(n, i)

\* Neither the daemon that goes to a barrier nor the call that comes back from
\* one has a cell that is not established.
DemonioListo(n) == pc[n] = "barrera" => Establecida(n, celda[n])
LectorListo(a) ==
  pc[a] = "lee" /\ marco[a].prim # "send" => Establecida(NodoDe[a], celda[a])
DespiertaListo ==
  (\A n \in Nodos : DemonioListo(n)) /\ (\A a \in Apps : LectorListo(a))

DuenosInv == TablaInv /\ Duenos /\ Barreras /\ DespiertaListo

LEMMA DuenoSigue ==
  ASSUME RechazoMata, TablaInv, [Next]_vars, NEW n \in Nodos, NEW i \in Celdas,
         NEW a \in Apps, CXs[n][i].ap_pid = a
  PROVE  CXs'[n][i].ap_pid = a
<1>1. EnUso(n, i)
  BY SuposicionProcesos DEF TablaInv, LibreVacia, CeldaInicial
<1> QED
  BY <1>1, CeldaEvoluciona DEF Evoluciona

LEMMA DuenosPaso ==
  ASSUME RechazoMata, DuenosInv, [Next]_vars
  PROVE  Duenos'
<1> SUFFICES ASSUME NEW b \in Apps PROVE DuenoDe(b)'
  BY DEF Duenos
<1>0. /\ TablaInv /\ NodoDe[b] \in Nodos /\ celda[b] \in Celdas
      /\ id[b] \in Celdas \cup {-1} /\ DuenoDe(b) /\ LectorListo(b)
      /\ celda \in [Procs -> Celdas] /\ pc \in [Procs -> PCsApp \cup PCsDemonio] /\ b \in Procs
  BY TiposDeProceso
  DEF DuenosInv, TablaInv, CuentaInv, TiposInv, TypeOK, Duenos, DespiertaListo
<1>1. PasoDeLlamada(b)
  BY PasosDeLlamada DEF DuenosInv, TablaInv
<1> DEFINE Mio(i) == CXs[NodoDe[b]][i].ap_pid = b
<1>2. ASSUME NEW i \in Celdas, Mio(i) PROVE Mio(i)'
  BY <1>0, <1>2, DuenoSigue
<1>3. pc[b] \in {"barrera", "dormida", "lee"} /\ marco[b].prim # "send"
        => CXs'[NodoDe[b]][celda[b]].ap_pid = b
  BY <1>0, <1>2 DEF DuenoDe
<1>4. ASSUME ~ IdsAjenas
      PROVE  /\ id[b] # -1 => CXs'[NodoDe[b]][id[b]].ap_pid = b
             /\ pc[b] \in {"barrera", "dormida", "lee", "send", "enviando"}
                  => CXs'[NodoDe[b]][celda[b]].ap_pid = b
  <2>1. id[b] # -1 => Mio(id[b])
    BY <1>0, <1>4 DEF DuenoDe, Propio
  <2>2. pc[b] \in {"barrera", "dormida", "lee", "send", "enviando"} => Mio(celda[b])
    BY <1>0, <1>4 DEF DuenoDe, Propio
  <2> QED
    BY <1>0, <1>2, <2>1, <2>2
<1> HIDE DEF Mio
<1>5. pc'[b] \in {"barrera", "dormida", "lee"} /\ marco'[b].prim # "send"
        => CXs'[NodoDe[b]][celda'[b]].ap_pid = b
  <2>1. CASE \E i \in Celdas : Reserva(b, i)
    BY <1>0, <2>1 DEF Reserva, Reservada
  <2>2. CASE ~ \E i \in Celdas : Reserva(b, i)
    BY <1>1, <1>3, <2>2
    DEF PasoDeLlamada, SigueIgual, PorLaBarrera, EntraEnviando, Enviando, Empieza,
        Termina, Fija
  <2> QED
    BY <2>1, <2>2
<1>6. ASSUME ~ IdsAjenas PROVE Propio(b)'
  <2>1. CASE SigueIgual(b) \/ PorLaBarrera(b) \/ EntraEnviando(b) \/ Enviando(b)
    BY <1>4, <1>6, <2>1
    DEF SigueIgual, PorLaBarrera, EntraEnviando, Enviando, Fija, Propio
  <2>2. CASE Empieza(b)
    <3>1. pc'[b] = "send" => celda'[b] = id[b] /\ id[b] # -1
      BY <1>6, <2>2, Zenon DEF Empieza
    <3> QED
      BY <1>4, <1>6, <2>2, <3>1 DEF Empieza, Propio
  <2>3. CASE Termina(b)
    BY <1>0, <1>4, <1>6, <2>3 DEF Termina, LectorListo, Propio
  <2>4. CASE \E i \in Celdas : Reserva(b, i)
    BY <1>0, <1>4, <1>6, <2>4 DEF Reserva, Reservada, Propio
  <2> QED
    BY <1>1, <2>1, <2>2, <2>3, <2>4 DEF PasoDeLlamada
<1> QED
  BY <1>5, <1>6 DEF DuenoDe

\* Only an arrival changes who is counted at a barrier.
LEMMA BarreraQuieta ==
  ASSUME [Next]_vars, \A p \in Procs : ~ LlegaBarrera(p)
  PROVE  UNCHANGED barC
<1> USE TiposDeProceso
<1>1. ASSUME NEW a \in Apps, Llama(a) \/ PasoApp(a) PROVE UNCHANGED barC
  BY <1>1
  DEF Llama, IniciaConnect, IniciaListen, IniciaSend, SendFuera, SendFueraMuere,
      LlamadaInvalida, PasoApp,
      ConnectRechaza, ConnectReserva, ConnectMuere, ConnectLee, ListenRechaza,
      ListenReserva, ListenLee, SendRechaza, SendEntra, SendTrozo, SendMuere,
      SendDuerme, SendReanuda, SendTermina, MuereConSemaforo
<1>2. ASSUME NEW n \in Nodos, PasoDemonio(n) PROVE UNCHANGED barC
  BY <1>2 DEF PasoDemonio, DemonioCC, DemonioCR, DemonioCRSinTsap, DemonioMuere,
              DemonioOtro, MuereConSemaforo
<1> QED
  BY <1>1, <1>2 DEF Next, RedDuplica, Matan, vars

\* A daemon goes to a barrier from DemonioCR or DemonioCC only, and leaves it
\* when another arrives.
DemonioQuieto(n) ==
  /\ celda'[n] = celda[n]
  /\ \/ pc'[n] \in {pc[n], "muerta"}
     \/ pc[n] = "espera" /\ pc'[n] = "colgada"
     \/ (\E p \in Procs : LlegaBarrera(p)) /\ pc'[n] \in {"espera", "dormida"}

LEMMA DemonioMueve ==
  ASSUME TypeOK, [Next]_vars, NEW n \in Nodos
  PROVE  DemonioQuieto(n) \/ (pc[n] = "espera" /\ (DemonioCR(n) \/ DemonioCC(n)))
<1> DEFINE P == DemonioQuieto(n)
<1> USE DEF DemonioQuieto
<1>0. n \in Procs /\ n \notin Apps /\ pc \in [Procs -> PCsApp \cup PCsDemonio]
      /\ celda \in [Procs -> Celdas]
  BY TiposDeProceso, SuposicionProcesos DEF TypeOK
<1>1. ASSUME NEW a \in Apps, Llama(a) \/ (PasoApp(a) /\ ~ LlegaBarrera(a)) PROVE P
  <2>1. /\ UNCHANGED pc \/ \E l : pc' = [pc EXCEPT ![a] = l]
        /\ UNCHANGED celda \/ \E i : celda' = [celda EXCEPT ![a] = i]
    BY <1>1
    DEF Llama, IniciaConnect, IniciaListen, IniciaSend, SendFuera, SendFueraMuere,
        LlamadaInvalida, PasoApp,
        ConnectRechaza, ConnectReserva, ConnectMuere, ConnectLee, ListenRechaza,
        ListenReserva, ListenLee, SendRechaza, SendEntra, SendTrozo, SendMuere,
        SendDuerme, SendReanuda, SendTermina, MuereConSemaforo, AbreYSalta, Entra,
        Vuelve, Salta, resultados
  <2> QED
    BY <1>0, <2>1
<1>2. ASSUME NEW k \in Nodos, PasoDemonio(k), ~ LlegaBarrera(k)
      PROVE  P \/ (pc[n] = "espera" /\ (DemonioCR(n) \/ DemonioCC(n)))
  <2>1. CASE k = n
    <3>1. CASE DemonioCRSinTsap(n) \/ DemonioMuere(n) \/ DemonioOtro(n)
      BY <1>0, <3>1 DEF DemonioCRSinTsap, DemonioMuere, DemonioOtro, MuereConSemaforo,
                        AbreYSalta, Salta, RecibeYContesta
    <3>2. DemonioCR(n) \/ DemonioCC(n) => pc[n] = "espera"
      BY DEF DemonioCR, DemonioCC, RecibeYContesta, Recibe
    <3> QED
      BY <1>2, <2>1, <3>1, <3>2 DEF PasoDemonio
  <2>2. CASE k # n
    <3>1. /\ UNCHANGED pc \/ \E l : pc' = [pc EXCEPT ![k] = l]
          /\ UNCHANGED celda \/ \E i : celda' = [celda EXCEPT ![k] = i]
      BY <1>2 DEF PasoDemonio, DemonioCC, DemonioCR, DemonioCRSinTsap, DemonioMuere,
                  DemonioOtro, MuereConSemaforo, AbreYSalta, Salta
    <3> QED
      BY <1>0, <2>2, <3>1
  <2> QED
    BY <2>1, <2>2
<1>3. ASSUME NEW p \in Procs, LlegaBarrera(p) PROVE P
  <2> DEFINE q == barC[Nodo(p)][celda[p]]
             f == [pc EXCEPT ![p] = TrasBarrera(p)]
  <2>1. UNCHANGED celda /\ TrasBarrera(n) = "espera" /\ (p = n => TrasBarrera(p) = "espera")
    BY <1>0, <1>3 DEF LlegaBarrera, TrasBarrera
  <2>2. CASE q = Nadie
    BY <1>0, <1>3, <2>1, <2>2 DEF LlegaBarrera, Salta
  <2>3. CASE q # Nadie
    <3>1. pc' = [f EXCEPT ![q] = IF @ = "dormida" THEN TrasBarrera(q) ELSE @]
      BY <1>3, <2>3 DEF LlegaBarrera
    <3>2. DOMAIN f = Procs /\ f[n] \in {pc[n], "espera"}
      BY <1>0, <2>1
    <3> HIDE DEF f, q
    <3>3. pc'[n] \in {pc[n], "espera"}
      BY <1>0, <2>1, <3>1, <3>2
    <3> QED
      BY <1>3, <2>1, <3>3
  <2> QED
    BY <2>2, <2>3
<1>4. CASE RedDuplica \/ (\E p \in Procs : Matan(p)) \/ UNCHANGED vars
  BY <1>0, <1>4 DEF RedDuplica, Matan, Salta, vars
<1> QED
  BY <1>1, <1>2, <1>3, <1>4, TiposDeProceso DEF Next

\* The daemon has established the cell to whose barrier it goes.
LEMMA DemonioListoPaso ==
  ASSUME RechazoMata, DuenosInv, [Next]_vars, NEW n \in Nodos
  PROVE  DemonioListo(n)'
<1>0. /\ TablaInv /\ TypeOK /\ SinRechazos /\ DemonioListo(n) /\ celda[n] \in Celdas
      /\ celda \in [Procs -> Celdas] /\ n \in Procs
  BY TiposDeProceso DEF DuenosInv, DespiertaListo, TablaInv, CuentaInv, TiposInv, TypeOK
<1>1. CASE DemonioQuieto(n)
  <2>1. Establecida(n, celda[n]) => CXs'[n][celda[n]].estado_cx = ESTABLISHED
    BY <1>0, EstablecidaSigue DEF Establecida
  <2> QED
    BY <1>0, <1>1, <2>1 DEF DemonioListo, DemonioQuieto, Establecida
<1>2. CASE DemonioCR(n)
  <2>1. PICK m \in DOMAIN red, i \in Celdas :
          Atiende(n, i) /\ Acepta(CXs[n][i], CXs'[n][i], m)
    BY <1>0, <1>2, DemonioCRHace
  <2>2. celda'[n] = i /\ CXs'[n][i].estado_cx = ESTABLISHED
    BY <1>0, <2>1 DEF Atiende, Acepta
  <2> QED
    BY <2>2 DEF DemonioListo, Establecida
<1>3. CASE DemonioCC(n)
  <2>1. PICK m \in DOMAIN red :
          /\ Atiende(n, m.tpdu.id_destino)
          /\ Confirma(CXs[n][m.tpdu.id_destino], CXs'[n][m.tpdu.id_destino], m)
    BY <1>0, <1>3, DemonioCCHace
  <2>2. celda'[n] = m.tpdu.id_destino
        /\ CXs'[n][m.tpdu.id_destino].estado_cx = ESTABLISHED
    BY <1>0, <2>1 DEF Atiende, Confirma
  <2> QED
    BY <2>2 DEF DemonioListo, Establecida
<1> QED
  BY <1>0, <1>1, <1>2, <1>3, DemonioMueve

\* At a barrier the owner of a cell only meets the daemon that established it.
LEMMA LlegaPaso ==
  ASSUME RechazoMata, DuenosInv, [Next]_vars, NEW p \in Procs, LlegaBarrera(p)
  PROVE  Barreras' /\ \A a \in Apps : LectorListo(a)'
<1> DEFINE n == Nodo(p)
           i == celda[p]
           q == barC[n][i]
<1>0. /\ TypeOK /\ n \in Nodos /\ i \in Celdas /\ BarreraDe(n, i)
      /\ pc \in [Procs -> PCsApp \cup PCsDemonio]
      /\ barC \in [Nodos -> [Celdas -> Procs \cup {Nadie}]]
      /\ p \in Apps => NodoDe[p] = n
      /\ p \in Nodos => p = n
      /\ p \in Apps \/ p \in Nodos
  BY TiposDeProceso, SuposicionProcesos
  DEF DuenosInv, TablaInv, CuentaInv, TiposInv, TypeOK, Barreras, Nodo, Procs
<1>1. pc[p] = "barrera" /\ UNCHANGED <<CXs, celda, marco>>
  BY DEF LlegaBarrera, tabla
<1>2. p \in Apps => DeEl(n, i, p)
  <2> SUFFICES ASSUME p \in Apps PROVE DeEl(n, i, p)
    OBVIOUS
  <2>1. DuenoDe(p) /\ EnvioVivo(p)
    BY DEF DuenosInv, Duenos, TablaInv, EnviosVivos
  <2>2. n = NodoDe[p]
    BY <1>0
  <2> HIDE DEF n
  <2> QED
    BY <1>1, <2>1, <2>2 DEF DuenoDe, Propio, EnvioVivo, DeEl
<1>3. p \in Nodos => Establecida(n, i)
  BY <1>0, <1>1 DEF DuenosInv, DespiertaListo, DemonioListo
<1>4. CASE q = Nadie
  <2>1. barC' = [barC EXCEPT ![n][i] = p] /\ pc' = [pc EXCEPT ![p] = "dormida"]
    BY <1>4 DEF LlegaBarrera, Salta
  <2> HIDE DEF q
  <2>2. ASSUME NEW a \in Apps PROVE LectorListo(a)'
    <3>1. LectorListo(a) /\ a \in Procs
      BY TiposDeProceso DEF DuenosInv, DespiertaListo
    <3> HIDE DEF n, i
    <3> QED
      BY <1>0, <1>1, <2>1, <3>1 DEF LectorListo, Establecida
  <2>3. ASSUME NEW k \in Nodos, NEW j \in Celdas PROVE BarreraDe(k, j)'
    <3>1. CASE k = n /\ j = i
      <4>1. barC'[k][j] = p /\ pc'[p] = "dormida" /\ celda'[p] = j
        BY <1>0, <1>1, <2>1, <3>1
      <4> HIDE DEF n, i
      <4> QED
        BY <1>0, <1>1, <1>2, <1>3, <3>1, <4>1 DEF BarreraDe, DeEl, Establecida
    <3>2. CASE ~ (k = n /\ j = i)
      <4> DEFINE r == barC[k][j]
      <4>1. barC'[k][j] = r /\ BarreraDe(k, j) /\ r \in Procs \cup {Nadie}
        BY <1>0, <2>1, <3>2 DEF DuenosInv, Barreras
      <4>2. CASE r = Nadie
        BY <4>1, <4>2 DEF BarreraDe
      <4>3. CASE r # Nadie
        <5>1. /\ pc[r] = "muerta" \/ (pc[r] = "dormida" /\ celda[r] = j)
              /\ \/ r = k /\ Establecida(k, j)
                 \/ r \in Apps /\ NodoDe[r] = k /\ DeEl(k, j, r)
          BY <4>1, <4>3 DEF BarreraDe
        <5> HIDE DEF r, n, i
        <5>2. pc'[r] = pc[r]
          BY <1>0, <1>1, <2>1, <4>1, <4>3, <5>1
        <5> QED
          BY <1>1, <4>1, <5>1, <5>2 DEF BarreraDe, DeEl, Establecida
      <4> QED
        BY <4>2, <4>3
    <3> QED
      BY <3>1, <3>2
  <2> QED
    BY <2>2, <2>3 DEF Barreras
<1>5. CASE q # Nadie
  <2>0. barC' = [barC EXCEPT ![n][i] = Nadie]
        /\ pc' = [[pc EXCEPT ![p] = TrasBarrera(p)]
                    EXCEPT ![q] = IF @ = "dormida" THEN TrasBarrera(q) ELSE @]
    BY <1>5 DEF LlegaBarrera
  <2>1. /\ pc[q] = "muerta" \/ (pc[q] = "dormida" /\ celda[q] = i)
        /\ \/ q = n /\ Establecida(n, i)
           \/ q \in Apps /\ NodoDe[q] = n /\ DeEl(n, i, q)
    BY <1>0, <1>5 DEF BarreraDe
  <2> HIDE DEF q
  <2>2. q # p
    BY <1>1, <2>1
  <2>3. Establecida(n, i)
    BY <1>0, <1>2, <1>3, <2>1, <2>2 DEF DeEl
  <2>4. q \in Procs
    BY <1>0, <2>1, TiposDeProceso
  <2>5. ASSUME NEW r \in Procs
        PROVE  pc'[r] = IF r = p THEN TrasBarrera(p)
                        ELSE IF r = q /\ pc[q] = "dormida" THEN TrasBarrera(q)
                        ELSE pc[r]
    BY <1>0, <2>0, <2>2, <2>4
  <2>6. ASSUME NEW a \in Apps PROVE LectorListo(a)'
    <3>1. LectorListo(a) /\ a \in Procs
      BY TiposDeProceso DEF DuenosInv, DespiertaListo
    <3>2. CASE a = p
      BY <1>0, <1>1, <2>3, <3>2 DEF LectorListo, Establecida
    <3>3. CASE a = q /\ pc[q] = "dormida"
      <4>1. NodoDe[a] = n /\ celda[a] = i
        BY <2>1, <3>3, <1>0, SuposicionProcesos
      <4> QED
        BY <1>1, <2>3, <4>1 DEF LectorListo, Establecida
    <3>4. CASE ~ (a = p) /\ ~ (a = q /\ pc[q] = "dormida")
      <4>1. pc'[a] = pc[a]
        BY <2>5, <3>1, <3>4
      <4> QED
        BY <1>1, <3>1, <4>1 DEF LectorListo, Establecida
    <3> QED
      BY <3>2, <3>3, <3>4
  <2>7. ASSUME NEW k \in Nodos, NEW j \in Celdas PROVE BarreraDe(k, j)'
    <3>1. CASE k = n /\ j = i
      <4>1. barC'[k][j] = Nadie
        BY <1>0, <2>0, <3>1
      <4> QED
        BY <4>1 DEF BarreraDe
    <3>2. CASE ~ (k = n /\ j = i)
      <4> DEFINE r == barC[k][j]
      <4>1. barC'[k][j] = r /\ BarreraDe(k, j) /\ r \in Procs \cup {Nadie}
        BY <1>0, <2>0, <3>2 DEF DuenosInv, Barreras
      <4>2. CASE r = Nadie
        BY <4>1, <4>2 DEF BarreraDe
      <4>3. CASE r # Nadie
        <5>1. /\ pc[r] = "muerta" \/ (pc[r] = "dormida" /\ celda[r] = j)
              /\ \/ r = k /\ Establecida(k, j)
                 \/ r \in Apps /\ NodoDe[r] = k /\ DeEl(k, j, r)
          BY <4>1, <4>3 DEF BarreraDe
        <5> HIDE DEF r
        <5>2. r # p
          BY <1>1, <5>1
        <5>3. ~ (r = q /\ pc[q] = "dormida")
          BY <2>1, <3>2, <5>1, <1>0, SuposicionProcesos
        <5>4. pc'[r] = pc[r]
          BY <2>5, <4>1, <4>3, <5>2, <5>3
        <5> QED
          BY <1>1, <4>1, <5>1, <5>4 DEF BarreraDe, DeEl, Establecida
      <4> QED
        BY <4>2, <4>3
    <3> QED
      BY <3>1, <3>2
  <2> QED
    BY <2>6, <2>7 DEF Barreras
<1> QED
  BY <1>4, <1>5

LEMMA SinLlegadaPaso ==
  ASSUME RechazoMata, DuenosInv, [Next]_vars, \A p \in Procs : ~ LlegaBarrera(p)
  PROVE  Barreras' /\ \A a \in Apps : LectorListo(a)'
<1>0. /\ TablaInv /\ TypeOK /\ UNCHANGED barC
      /\ barC \in [Nodos -> [Celdas -> Procs \cup {Nadie}]]
      /\ celda \in [Procs -> Celdas]
  BY BarreraQuieta DEF DuenosInv, TablaInv, CuentaInv, TiposInv, TypeOK
<1>1. ASSUME NEW a \in Apps PROVE PasoDeLlamada(a) /\ ~ PorLaBarrera(a)
  BY PasosDeLlamada DEF DuenosInv, TablaInv, PorLaBarrera
<1>2. ASSUME NEW a \in Apps PROVE LectorListo(a)'
  <2>1. LectorListo(a) /\ NodoDe[a] \in Nodos /\ celda[a] \in Celdas
    BY <1>0, TiposDeProceso DEF DuenosInv, DespiertaListo
  <2>2. Establecida(NodoDe[a], celda[a])
          => CXs'[NodoDe[a]][celda[a]].estado_cx = ESTABLISHED
    BY <1>0, <2>1, EstablecidaSigue DEF Establecida
  <2>3. CASE SigueIgual(a)
    BY <2>1, <2>2, <2>3 DEF SigueIgual, Fija, LectorListo, Establecida
  <2>4. CASE EntraEnviando(a) \/ Enviando(a) \/ Empieza(a) \/ Termina(a)
    BY <2>4 DEF EntraEnviando, Enviando, Empieza, Termina, LectorListo
  <2>5. CASE \E i \in Celdas : Reserva(a, i)
    <3>1. pc'[a] \in {"barrera", "muerta"}
      BY <1>0, <2>5, TiposDeProceso DEF Reserva, TypeOK
    <3> QED
      BY <3>1 DEF LectorListo
  <2> QED
    BY <1>1, <2>3, <2>4, <2>5 DEF PasoDeLlamada
<1>3. ASSUME NEW a \in Apps, pc[a] \in {"dormida", "muerta"}
      PROVE  pc'[a] \in {pc[a], "muerta"} /\ celda'[a] = celda[a]
  BY <1>1, <1>3
  DEF PasoDeLlamada, SigueIgual, EntraEnviando, Enviando, Empieza, Termina, Reserva, Fija
<1>4. ASSUME NEW n \in Nodos, pc[n] \in {"dormida", "muerta"}
      PROVE  pc'[n] \in {pc[n], "muerta"} /\ celda'[n] = celda[n]
  BY <1>0, <1>4, DemonioMueve DEF DemonioQuieto
<1>5. ASSUME NEW n \in Nodos, NEW i \in Celdas PROVE BarreraDe(n, i)'
  <2> DEFINE q == barC[n][i]
  <2>1. BarreraDe(n, i) /\ barC'[n][i] = q
    BY <1>0 DEF DuenosInv, Barreras
  <2>2. CASE q # Nadie
    <3>1. /\ pc[q] = "muerta" \/ (pc[q] = "dormida" /\ celda[q] = i)
          /\ \/ q = n /\ Establecida(n, i)
             \/ q \in Apps /\ NodoDe[q] = n /\ DeEl(n, i, q)
      BY <2>1, <2>2 DEF BarreraDe
    <3> HIDE DEF q
    <3>2. pc'[q] \in {pc[q], "muerta"} /\ celda'[q] = celda[q]
      BY <1>3, <1>4, <3>1
    <3>3. \/ q = n /\ CXs'[n][i].estado_cx = ESTABLISHED
          \/ /\ q \in Apps /\ NodoDe[q] = n
             /\ \/ CXs'[n][i].ap_pid = q
                \/ IdsAjenas /\ CXs'[n][i].estado_cx = ESTABLISHED
      BY <1>0, <3>1, EstablecidaSigue, DuenoSigue DEF Establecida, DeEl
    <3> QED
      BY <2>1, <3>1, <3>2, <3>3 DEF BarreraDe, DeEl, Establecida
  <2> QED
    BY <2>1, <2>2 DEF BarreraDe
<1> QED
  BY <1>2, <1>5 DEF Barreras

LEMMA DuenosInicio == Init => DuenosInv
<1> SUFFICES ASSUME Init PROVE DuenosInv
  OBVIOUS
<1>1. Duenos /\ Barreras /\ DespiertaListo
  BY TiposDeProceso, SuposicionProcesos
  DEF Init, Duenos, DuenoDe, Propio, Barreras, BarreraDe, DespiertaListo, DemonioListo,
      LectorListo
<1> QED
  BY <1>1, TablaInicio DEF DuenosInv

LEMMA DuenosInvPaso ==
  RechazoMata /\ DuenosInv /\ [Next]_vars => DuenosInv'
<1> SUFFICES ASSUME RechazoMata, DuenosInv, [Next]_vars PROVE DuenosInv'
  OBVIOUS
<1>1. TablaInv'
  BY TablaPaso DEF DuenosInv
<1>2. \A n \in Nodos : DemonioListo(n)'
  BY DemonioListoPaso
<1>3. Barreras' /\ \A a \in Apps : LectorListo(a)'
  BY LlegaPaso, SinLlegadaPaso
<1> QED
  BY <1>1, <1>2, <1>3, DuenosPaso DEF DuenosInv, DespiertaListo

LEMMA DuenosSiempre ==
  ASSUME RechazoMata
  PROVE  Spec => []DuenosInv
<1>1. DuenosInv /\ [Next]_vars => DuenosInv'
  BY DuenosInvPaso
<1> QED
  BY <1>1, DuenosInicio, PTL DEF Spec

\* Two calls never wait at the barrier of the same cell: the cell has one owner
\* from the moment a primitive reserves it, and no application sends with an
\* identifier that is not its own.
THEOREM UnaSegura ==
  ASSUME RechazoMata, ~ IdsAjenas
  PROVE  Spec => []UnaLlamadaPorBarrera
<1>1. DuenosInv => UnaLlamadaPorBarrera
  BY DEF DuenosInv, Duenos, DuenoDe, Propio, UnaLlamadaPorBarrera, EnBarrera
<1> QED
  BY <1>1, DuenosSiempre, PTL

\* A t_connect or a t_listen that returns an identifier returns that of a cell
\* that the daemon has established and that is the caller's, also when others send
\* on it.
THEOREM VueltaSegura ==
  ASSUME RechazoMata
  PROVE  Spec => VueltaEstablecida
<1> DEFINE Vuelta ==
      \A a \in Apps :
        LET c == CXs[NodoDe[a]][celda[a]]
        IN  pc[a] = "lee" /\ marco[a].prim # "send" /\ pc'[a] = "fuera" /\ ret'[a] >= 0
              => c.estado_cx = ESTABLISHED /\ c.ap_pid = a
<1>1. DuenosInv => Vuelta
  BY DEF DuenosInv, Duenos, DuenoDe, DespiertaListo, LectorListo, Establecida
<1> HIDE DEF Vuelta
<1>2. Spec => [][Vuelta]_vars
  BY <1>1, DuenosSiempre, PTL DEF Spec
<1> QED
  BY <1>2 DEF VueltaEstablecida, Vuelta

\* A barrier opens for the daemon and one application when the applications use
\* the identifiers that they were given; run barrera shows that it may open for
\* two applications otherwise.
THEOREM BarreraSegura ==
  ASSUME RechazoMata, ~ IdsAjenas
  PROVE  Spec => BarreraDemonioApp
<1> DEFINE AbreBien ==
      \A n \in Nodos, i \in Celdas :
        barC[n][i] \in Apps /\ barC'[n][i] = Nadie
          => pc[n] = "barrera" /\ celda[n] = i /\ pc'[n] = "espera"
<1>1. ASSUME DuenosInv, [Next]_vars PROVE AbreBien
  <2> SUFFICES ASSUME NEW n \in Nodos, NEW i \in Celdas,
                      barC[n][i] \in Apps, barC'[n][i] = Nadie
               PROVE  pc[n] = "barrera" /\ celda[n] = i /\ pc'[n] = "espera"
    OBVIOUS
  <2> DEFINE q == barC[n][i]
  <2>0. /\ TypeOK /\ Duenos /\ BarreraDe(n, i)
        /\ pc \in [Procs -> PCsApp \cup PCsDemonio]
        /\ barC \in [Nodos -> [Celdas -> Procs \cup {Nadie}]]
        /\ celda \in [Procs -> Celdas]
    <3>1. TypeOK /\ Duenos /\ Barreras
      BY <1>1 DEF DuenosInv, TablaInv, CuentaInv, TiposInv
    <3> QED
      BY <3>1 DEF TypeOK, Barreras
  <2>0a. q # Nadie /\ q \in Procs /\ q \in Apps /\ n \in Procs /\ n \notin Apps
    BY TiposDeProceso, SuposicionProcesos
  <2>1. /\ pc[q] = "muerta" \/ (pc[q] = "dormida" /\ celda[q] = i)
        /\ CXs[n][i].ap_pid = q
    BY <2>0, <2>0a DEF BarreraDe, DeEl
  <2>2. PICK p \in Procs : LlegaBarrera(p)
    <3>1. ~ UNCHANGED barC
      BY <2>0a
    <3> QED
      BY <1>1, <3>1, BarreraQuieta
  <2>3. Nodo(p) = n /\ celda[p] = i
    <3>1. Nodo(p) \in Nodos /\ celda[p] \in Celdas
      BY <2>0, TiposDeProceso, SuposicionProcesos DEF Nodo, Procs
    <3>2. \E v : barC' = [barC EXCEPT ![Nodo(p)][celda[p]] = v]
      BY <2>2 DEF LlegaBarrera
    <3> HIDE DEF q
    <3>3. barC'[n][i] # barC[n][i]
      BY <2>0a DEF q
    <3> QED
      BY <2>0, <3>1, <3>2, <3>3
  <2>4. pc[p] = "barrera"
    BY <2>2 DEF LlegaBarrera
  <2>5. p \notin Apps
    <3>1. p \in Apps => CXs[n][i].ap_pid = p
      BY <2>0, <2>3, <2>4 DEF Duenos, DuenoDe, Propio, Nodo
    <3> QED
      BY <2>1, <2>4, <3>1
  <2>6. p = n
    BY <2>3, <2>5 DEF Nodo, Procs
  <2>7. TrasBarrera(n) = "espera"
    BY <2>0a DEF TrasBarrera
  <2>8. pc' = [pc EXCEPT ![n] = "espera", ![q] = IF @ = "dormida" THEN TrasBarrera(q) ELSE @]
    BY <2>0a, <2>2, <2>3, <2>6, <2>7 DEF LlegaBarrera
  <2>9. q # n
    BY <2>0a
  <2> HIDE DEF q
  <2> QED
    BY <2>0, <2>0a, <2>3, <2>4, <2>6, <2>8, <2>9
<1> HIDE DEF AbreBien
<1>2. Spec => [][AbreBien]_vars
  BY <1>1, DuenosSiempre, PTL DEF Spec
<1> QED
  BY <1>2 DEF BarreraDemonioApp, AbreBien

-----------------------------------------------------------------------------
(* The pairs of cells.  With ports that a t_direccion and a cell agree on no *)
(* two cells of a node have the same local port, so that a CR, a CC and a    *)
(* cell that name a port name one cell, however late they arrive.            *)

\* Cells n, i and k, j name each other by address and port.
SeNombran(n, i, k, j) ==
  LET c == CXs[n][i]
      d == CXs[k][j]
  IN  /\ c.ip_destino = k /\ d.ip_destino = n
      /\ d.puerto_destino = c.puerto_origen
      /\ d.puerto_origen = c.puerto_destino

\* The pair of an established cell; the other end may not have its CC yet.
Par(n, i) ==
  LET k == CXs[n][i].ip_destino
      j == CXs[n][i].id_destino
      d == CXs[k][j]
  IN  /\ k \in Nodos /\ SeNombran(n, i, k, j)
      /\ \/ d.estado_cx = CONNECT
         \/ d.estado_cx = ESTABLISHED /\ d.id_destino = i
Pares == \A n \in Nodos, i \in Celdas : Establecida(n, i) => Par(n, i)

\* A CC in transit comes from a cell that is established for the one it goes to.
AceptacionViva(m) ==
  LET d == CXs[m.de][m.tpdu.id_local]
  IN  /\ d.estado_cx = ESTABLISHED
      /\ d.ip_destino = m.a /\ d.id_destino = m.tpdu.id_destino
AceptacionesVivas == \A m \in DOMAIN red : m.tpdu.tipo = CC => AceptacionViva(m)

ParesInv ==
  TablaInv /\ MarcosBajos /\ PuertosUnicos /\ Pares /\ AceptacionesVivas

\* A CC comes from a cell.
LEMMA CCDeCelda ==
  ASSUME TypeOK, SinRechazos, NEW m \in DOMAIN red
  PROVE  m.de \in Nodos /\ m.a \in Nodos /\ m.tpdu.id_local \in Celdas
         /\ m.tpdu.id_destino \in Celdas
BY DEF TypeOK, BolsaOK, Paquete, TpduOK, Tpdu, SinRechazos

\* The cell of node n with the local port of another is that other.
LEMMA MismaCelda ==
  ASSUME TablaInv, PuertosUnicos, NEW n \in Nodos, NEW i \in Celdas, NEW j \in Celdas,
         CXs[n][i].estado_cx # CLOSED, CXs[n][i].puerto_origen = CXs[n][j].puerto_origen
  PROVE  i = j
<1>1. EnUso(n, i)
  BY AbiertaEnUso DEF TablaInv
<1>2. CXs[n][i].puerto_origen # 0
  BY <1>1 DEF TablaInv, ConPuerto
<1> QED
  BY <1>2 DEF PuertosUnicos

\* What a session sees of a cell does not change.
MismaCeldaSigue(n, i) ==
  LET c == CXs[n][i]
      d == CXs'[n][i]
  IN  /\ d.estado_cx = c.estado_cx /\ d.id_destino = c.id_destino
      /\ d.ip_local = c.ip_local /\ d.puerto_origen = c.puerto_origen
      /\ d.ip_destino = c.ip_destino /\ d.puerto_destino = c.puerto_destino

LEMMA ParSigue ==
  ASSUME NEW n, NEW i, Par(n, i), MismaCeldaSigue(n, i),
         MismaCeldaSigue(CXs[n][i].ip_destino, CXs[n][i].id_destino)
  PROVE  Par(n, i)'
BY DEF Par, SeNombran, MismaCeldaSigue

LEMMA AceptacionSigue ==
  ASSUME NEW m, AceptacionViva(m), MismaCeldaSigue(m.de, m.tpdu.id_local)
  PROVE  AceptacionViva(m)'
BY DEF AceptacionViva, MismaCeldaSigue

\* A step that changes no cell that was established or waiting for its CC, and
\* neither establishes a cell nor sends a CC, keeps the pairs.
LEMMA ParesQuietos ==
  ASSUME TypeOK, Pares, AceptacionesVivas, SinRechazos,
         \A n \in Nodos, i \in Celdas :
           \/ MismaCeldaSigue(n, i)
           \/ /\ CXs[n][i].estado_cx \notin {CONNECT, ESTABLISHED}
              /\ CXs'[n][i].estado_cx # ESTABLISHED,
         \A m \in DOMAIN red' : m \in DOMAIN red \/ m.tpdu.tipo # CC
  PROVE  Pares' /\ AceptacionesVivas'
<1>1. ASSUME NEW n \in Nodos, NEW i \in Celdas, Establecida(n, i)' PROVE Par(n, i)'
  <2>1. MismaCeldaSigue(n, i) /\ Establecida(n, i)
    BY <1>1 DEF MismaCeldaSigue, Establecida
  <2>2. Par(n, i)
    BY <2>1 DEF Pares
  <2>3. CXs[n][i].id_destino \in Celdas
    BY DEF TypeOK, Conexion
  <2>4. MismaCeldaSigue(CXs[n][i].ip_destino, CXs[n][i].id_destino)
    BY <2>2, <2>3 DEF Par
  <2> QED
    BY <2>1, <2>2, <2>4, ParSigue
<1>2. ASSUME NEW m \in DOMAIN red', m.tpdu.tipo = CC PROVE AceptacionViva(m)'
  <2>1. m \in DOMAIN red /\ AceptacionViva(m)
    BY <1>2 DEF AceptacionesVivas
  <2>2. MismaCeldaSigue(m.de, m.tpdu.id_local)
    BY <2>1, CCDeCelda DEF AceptacionViva
  <2> QED
    BY <2>1, <2>2, AceptacionSigue
<1> QED
  BY <1>1, <1>2 DEF Pares, AceptacionesVivas

\* The request that a listener is given is still waiting for its first answer:
\* had it been answered, the cell that answered would have the listener's port.
LEMMA PeticionNueva ==
  ASSUME ParesInv, NEW m \in DOMAIN red, m.tpdu.tipo = CR, NEW i \in Celdas,
         i \in Candidatas(CXs[m.a], m.tpdu)
  PROVE  LET r == CXs[m.de][m.tpdu.id_local]
             c == CXs[m.a][i]
         IN  /\ c.estado_cx = LISTEN /\ r.estado_cx = CONNECT
             /\ r.ip_destino = m.a /\ r.puerto_destino = c.puerto_origen
             /\ r.puerto_origen = m.tpdu.puerto_orig
             /\ \A k \in Nodos, j \in Celdas :
                  Establecida(k, j) /\ CXs[k][j].ip_destino = m.de
                    => CXs[k][j].id_destino # m.tpdu.id_local
<1> DEFINE f == m.tpdu.id_local
           r == CXs[m.de][f]
           c == CXs[m.a][i]
<1>0. TypeOK /\ TablaInv /\ PuertosUnicos
  BY DEF ParesInv, TablaInv, CuentaInv, TiposInv
<1>1. /\ c.estado_cx = LISTEN /\ c.puerto_origen = m.tpdu.puerto_dest
  BY DEF Candidatas
<1>2. m.de \in Nodos /\ m.a \in Nodos /\ f \in Celdas
  BY <1>0, PaqueteTipo
<1>3. /\ r.estado_cx \in {CONNECT, ESTABLISHED} /\ r.ip_destino = m.a
      /\ r.puerto_destino = c.puerto_origen /\ r.puerto_origen = m.tpdu.puerto_orig
  BY <1>1 DEF ParesInv, TablaInv, PeticionesVivas, PeticionViva
<1>4. ASSUME NEW j \in Celdas, CXs[m.a][j].estado_cx = ESTABLISHED
                               \/ CXs[m.a][j].estado_cx = CONNECT
      PROVE  CXs[m.a][j].puerto_origen # c.puerto_origen
  <2>1. j # i /\ c.estado_cx # CLOSED
    BY <1>1, <1>4, Estados
  <2> QED
    BY <1>0, <1>2, <2>1, MismaCelda
<1>5. ASSUME NEW k \in Nodos, NEW j \in Celdas, Establecida(k, j),
             CXs[k][j].ip_destino = m.de, CXs[k][j].id_destino = f
      PROVE  FALSE
  <2>1. Par(k, j)
    BY <1>5 DEF ParesInv, Pares
  <2>2. r.ip_destino = k /\ r.puerto_destino = CXs[k][j].puerto_origen
    BY <1>5, <2>1 DEF Par, SeNombran
  <2> QED
    BY <1>3, <1>4, <1>5, <2>2 DEF Establecida
<1>6. r.estado_cx # ESTABLISHED
  <2> SUFFICES ASSUME Establecida(m.de, f) PROVE FALSE
    BY DEF Establecida
  <2>1. Par(m.de, f) /\ r.id_destino \in Celdas
    BY <1>0, <1>2 DEF ParesInv, Pares, TypeOK, Conexion
  <2> DEFINE d == CXs[m.a][r.id_destino]
  <2>2. d.puerto_origen = c.puerto_origen /\ d.estado_cx \in {CONNECT, ESTABLISHED}
    BY <1>3, <2>1 DEF Par, SeNombran
  <2> QED
    BY <1>4, <2>1, <2>2
<1> QED
  BY <1>1, <1>3, <1>5, <1>6

\* A CC comes from a cell that is paired with the one it goes to.
LEMMA RespuestaDePar ==
  ASSUME ParesInv, NEW m \in DOMAIN red, m.tpdu.tipo = CC
  PROVE  LET i == m.tpdu.id_destino
             j == m.tpdu.id_local
             c == CXs[m.a][i]
         IN  /\ m.de \in Nodos /\ m.a \in Nodos /\ i \in Celdas /\ j \in Celdas
             /\ Establecida(m.de, j) /\ SeNombran(m.a, i, m.de, j)
             /\ CXs[m.de][j].id_destino = i
             /\ c.estado_cx = CONNECT \/ (c.estado_cx = ESTABLISHED /\ c.id_destino = j)
             /\ \A k \in Nodos, l \in Celdas :
                  /\ Establecida(k, l) /\ CXs[k][l].ip_destino = m.a
                  /\ CXs[k][l].id_destino = i
                  => k = m.de /\ l = j
<1> DEFINE i == m.tpdu.id_destino
           j == m.tpdu.id_local
           c == CXs[m.a][i]
           d == CXs[m.de][j]
<1>0. TypeOK /\ TablaInv /\ PuertosUnicos /\ SinRechazos
  BY DEF ParesInv, TablaInv, CuentaInv, TiposInv
<1>1. m.de \in Nodos /\ m.a \in Nodos /\ i \in Celdas /\ j \in Celdas
  BY <1>0, CCDeCelda
<1>2. Establecida(m.de, j) /\ d.ip_destino = m.a /\ d.id_destino = i
  BY DEF ParesInv, AceptacionesVivas, AceptacionViva, Establecida
<1>3. Par(m.de, j)
  BY <1>1, <1>2 DEF ParesInv, Pares
<1>4. /\ SeNombran(m.a, i, m.de, j)
      /\ c.estado_cx = CONNECT \/ (c.estado_cx = ESTABLISHED /\ c.id_destino = j)
  BY <1>2, <1>3 DEF Par, SeNombran
<1>5. ASSUME NEW k \in Nodos, NEW l \in Celdas, Establecida(k, l),
             CXs[k][l].ip_destino = m.a, CXs[k][l].id_destino = i
      PROVE  k = m.de /\ l = j
  <2>1. Par(k, l)
    BY <1>5 DEF ParesInv, Pares
  <2>2. k = m.de /\ CXs[k][l].puerto_origen = d.puerto_origen
    BY <1>4, <1>5, <2>1 DEF Par, SeNombran
  <2>3. d.estado_cx # CLOSED
    BY <1>2, Estados DEF Establecida
  <2> QED
    BY <1>0, <1>1, <2>2, <2>3, MismaCelda
<1> QED
  BY <1>1, <1>2, <1>4, <1>5

\* A listener is given a request: both ends name each other.
LEMMA ParesCR ==
  ASSUME ParesInv, NEW n \in Nodos, DemonioCR(n)
  PROVE  Pares' /\ AceptacionesVivas'
<1>0. TypeOK /\ TablaInv /\ SinRechazos
  BY DEF ParesInv, TablaInv, CuentaInv, TiposInv
<1>1. PICK m \in DOMAIN red, i \in Celdas :
        /\ Atiende(n, i) /\ m.tpdu.tipo = CR /\ m.a = n
        /\ i \in Candidatas(CXs[n], m.tpdu)
        /\ Acepta(CXs[n][i], CXs'[n][i], m)
        /\ \A k \in DOMAIN red' : \/ k \in DOMAIN SinPaquete(red, m) \/ Inerte(k)
                                 \/ Contestacion(k, n, i, m)
  BY <1>0, DemonioCRHace
<1> DEFINE f == m.tpdu.id_local
           r == CXs[m.de][f]
           c == CXs[n][i]
           x == CXs'[n][i]
<1>2. /\ c.estado_cx = LISTEN /\ r.estado_cx = CONNECT
      /\ r.ip_destino = n /\ r.puerto_destino = c.puerto_origen
      /\ r.puerto_origen = m.tpdu.puerto_orig
  BY <1>1, PeticionNueva
<1>3. m.de \in Nodos /\ f \in Celdas
  BY <1>0, <1>1, PaqueteTipo
<1>4. ASSUME NEW k \in Nodos, NEW j \in Celdas, CXs[k][j].estado_cx \in {CONNECT, ESTABLISHED}
      PROVE  CXs'[k][j] = CXs[k][j]
  BY <1>1, <1>2, <1>4, Estados DEF Atiende, SoloCelda
<1>5. /\ x.estado_cx = ESTABLISHED /\ x.ip_destino = m.de /\ x.id_destino = f
      /\ x.puerto_destino = m.tpdu.puerto_orig /\ x.puerto_origen = c.puerto_origen
  BY <1>1 DEF Acepta
<1>6. CXs'[m.de][f] = r
  BY <1>2, <1>3, <1>4
<1>7. ASSUME NEW k \in Nodos, NEW j \in Celdas, Establecida(k, j)' PROVE Par(k, j)'
  <2>1. CASE k = n /\ j = i
    BY <1>2, <1>3, <1>5, <1>6, <2>1 DEF Par, SeNombran
  <2>2. CASE ~ (k = n /\ j = i)
    <3>1. CXs'[k][j] = CXs[k][j] /\ Establecida(k, j) /\ Par(k, j)
      BY <1>1, <1>7, <2>2 DEF Atiende, SoloCelda, Establecida, ParesInv, Pares
    <3>2. CXs[k][j].id_destino \in Celdas
      BY <1>0 DEF TypeOK, Conexion
    <3>3. CXs'[CXs[k][j].ip_destino][CXs[k][j].id_destino]
            = CXs[CXs[k][j].ip_destino][CXs[k][j].id_destino]
      BY <1>4, <3>1, <3>2 DEF Par
    <3> QED
      BY <3>1, <3>3 DEF Par, SeNombran
  <2> QED
    BY <2>1, <2>2
<1>8. ASSUME NEW k \in DOMAIN red', k.tpdu.tipo = CC PROVE AceptacionViva(k)'
  <2>1. CASE Contestacion(k, n, i, m)
    BY <1>5, <2>1 DEF Contestacion, AceptacionViva
  <2>2. CASE k \in DOMAIN red
    <3>1. AceptacionViva(k) /\ k.de \in Nodos /\ k.tpdu.id_local \in Celdas
      BY <1>0, <1>8, <2>2, CCDeCelda DEF ParesInv, AceptacionesVivas
    <3>2. CXs'[k.de][k.tpdu.id_local] = CXs[k.de][k.tpdu.id_local]
      BY <1>4, <3>1 DEF AceptacionViva
    <3> QED
      BY <3>1, <3>2 DEF AceptacionViva
  <2> QED
    BY <1>1, <1>8, <2>1, <2>2, QuitaUno DEF Inerte
<1> QED
  BY <1>7, <1>8 DEF Pares, AceptacionesVivas

\* The other end learns the identifier of its pair; once it knows it, a
\* duplicate of the CC tells it nothing new.
LEMMA ParesCC ==
  ASSUME ParesInv, NEW n \in Nodos, DemonioCC(n)
  PROVE  Pares' /\ AceptacionesVivas'
<1>0. TypeOK /\ TablaInv /\ SinRechazos
  BY DEF ParesInv, TablaInv, CuentaInv, TiposInv
<1>1. PICK m \in DOMAIN red :
        LET i == m.tpdu.id_destino
        IN  /\ Atiende(n, i) /\ m.tpdu.tipo = CC /\ m.a = n
            /\ Confirma(CXs[n][i], CXs'[n][i], m)
            /\ red' = SinPaquete(red, m)
  BY <1>0, DemonioCCHace
<1> DEFINE i == m.tpdu.id_destino
           j == m.tpdu.id_local
           c == CXs[n][i]
           d == CXs[m.de][j]
           x == CXs'[n][i]
<1>2. /\ m.de \in Nodos /\ i \in Celdas /\ j \in Celdas
      /\ Establecida(m.de, j) /\ SeNombran(n, i, m.de, j) /\ d.id_destino = i
      /\ c.estado_cx = CONNECT \/ (c.estado_cx = ESTABLISHED /\ c.id_destino = j)
      /\ \A k \in Nodos, l \in Celdas :
           /\ Establecida(k, l) /\ CXs[k][l].ip_destino = n
           /\ CXs[k][l].id_destino = i
           => k = m.de /\ l = j
  BY <1>1, RespuestaDePar
<1>3. /\ x.estado_cx = ESTABLISHED /\ x.id_destino = j
      /\ x.ip_destino = c.ip_destino /\ x.puerto_destino = c.puerto_destino
      /\ x.puerto_origen = c.puerto_origen
  BY <1>1 DEF Confirma
<1>4. ASSUME NEW k \in Nodos, NEW l \in Celdas, ~ (k = n /\ l = i)
      PROVE  CXs'[k][l] = CXs[k][l]
  BY <1>1, <1>4 DEF Atiende, SoloCelda
<1>5. \A k \in DOMAIN red' : k \in DOMAIN red
  BY <1>1, QuitaUno
<1>6. CASE c.estado_cx = ESTABLISHED
  <2>1. MismaCeldaSigue(n, i)
    BY <1>1, <1>2, <1>3, <1>6, Estados DEF Confirma, MismaCeldaSigue
  <2>2. \A k \in Nodos, l \in Celdas : MismaCeldaSigue(k, l)
    BY <1>4, <2>1 DEF MismaCeldaSigue
  <2> QED
    BY <1>0, <1>5, <2>2, ParesQuietos DEF ParesInv
<1>7. CASE c.estado_cx = CONNECT
  <2>1. CXs'[m.de][j] = d
    BY <1>2, <1>4, <1>7, Estados DEF Establecida
  <2>2. ASSUME NEW k \in Nodos, NEW l \in Celdas, Establecida(k, l)' PROVE Par(k, l)'
    <3>1. CASE k = n /\ l = i
      BY <1>2, <1>3, <2>1, <3>1 DEF Par, SeNombran, Establecida
    <3>2. CASE ~ (k = n /\ l = i)
      <4> DEFINE y == CXs[k][l]
      <4>1. CXs'[k][l] = y /\ Establecida(k, l) /\ Par(k, l) /\ y.id_destino \in Celdas
        BY <1>0, <1>4, <2>2, <3>2 DEF Establecida, ParesInv, Pares, TypeOK, Conexion
      <4>2. CASE y.ip_destino = n /\ y.id_destino = i
        <5>1. k = m.de /\ l = j
          BY <1>2, <4>1, <4>2
        <5> QED
          BY <1>2, <1>3, <2>1, <5>1 DEF Par, SeNombran, Establecida
      <4>3. CASE ~ (y.ip_destino = n /\ y.id_destino = i)
        <5>1. CXs'[y.ip_destino][y.id_destino] = CXs[y.ip_destino][y.id_destino]
          BY <1>4, <4>1, <4>3 DEF Par
        <5> QED
          BY <4>1, <5>1 DEF Par, SeNombran
      <4> QED
        BY <4>2, <4>3
    <3> QED
      BY <3>1, <3>2
  <2>3. ASSUME NEW k \in DOMAIN red', k.tpdu.tipo = CC PROVE AceptacionViva(k)'
    <3>1. AceptacionViva(k) /\ k.de \in Nodos /\ k.tpdu.id_local \in Celdas
      BY <1>0, <1>5, <2>3, CCDeCelda DEF ParesInv, AceptacionesVivas
    <3>2. CXs'[k.de][k.tpdu.id_local] = CXs[k.de][k.tpdu.id_local]
      BY <1>4, <1>7, <3>1, Estados DEF AceptacionViva
    <3> QED
      BY <3>1, <3>2 DEF AceptacionViva
  <2> QED
    BY <2>2, <2>3 DEF Pares, AceptacionesVivas
<1> QED
  BY <1>2, <1>6, <1>7

LEMMA ParesPaso ==
  ASSUME RechazoMata, ParesInv, [Next]_vars
  PROVE  Pares' /\ AceptacionesVivas'
<1>0. /\ TypeOK /\ TiposInv /\ TablaInv /\ SinRechazos /\ Pares /\ AceptacionesVivas
      /\ EnviosVivos
  BY DEF ParesInv, TablaInv, CuentaInv, TiposInv
<1>1. CASE SoloBuffers /\ SinPeticionNueva
  BY <1>0, <1>1, ParesQuietos
  DEF SoloBuffers, MismaSalvoTX, MismaCeldaSigue, SinPeticionNueva, Inerte
<1>2. ASSUME NEW a \in Apps, ConnectReserva(a) \/ ListenReserva(a)
      PROVE  Pares' /\ AceptacionesVivas'
  <2>1. /\ \A m \in DOMAIN red' : m \in DOMAIN red \/ m.tpdu.tipo # CC
        /\ \E i \in Celdas :
             /\ Reserva(a, i)
             /\ CXs'[NodoDe[a]][i].estado_cx \in {CONNECT, LISTEN}
    <3>1. CASE ConnectReserva(a)
      BY <1>0, <3>1, ConnectHace DEF TablaInv, Inerte, CR, CC
    <3>2. CASE ListenReserva(a)
      BY <1>0, <3>2, ListenHace DEF TablaInv
    <3> QED
      BY <1>2, <3>1, <3>2
  <2>2. PICK i \in Celdas : Reserva(a, i) /\ CXs'[NodoDe[a]][i].estado_cx \in {CONNECT, LISTEN}
    BY <2>1
  <2>3. CXs[NodoDe[a]][i].estado_cx = CLOSED
    BY <1>0, <2>2, TiposDeProceso DEF Reserva, TablaInv, LibreVacia, CeldaInicial
  <2>4. ASSUME NEW k \in Nodos, NEW j \in Celdas
        PROVE  \/ MismaCeldaSigue(k, j)
               \/ /\ CXs[k][j].estado_cx \notin {CONNECT, ESTABLISHED}
                  /\ CXs'[k][j].estado_cx # ESTABLISHED
    <3>1. CASE k = NodoDe[a] /\ j = i
      BY <2>2, <2>3, <3>1, Estados
    <3>2. CASE ~ (k = NodoDe[a] /\ j = i)
      BY <2>2, <3>2 DEF Reserva, SoloCelda, MismaCeldaSigue
    <3> QED
      BY <3>1, <3>2
  <2> QED
    BY <1>0, <2>1, <2>4, ParesQuietos
<1> QED
  BY <1>0, <1>1, <1>2, ParesCR, ParesCC, PasosDeLaTabla

LEMMA ParesInicio == Init => ParesInv
<1> SUFFICES ASSUME Init PROVE ParesInv
  OBVIOUS
<1>1. MarcosBajos /\ PuertosUnicos
  BY DEF Init, MarcosBajos, MarcoBajo, Bajo, MarcoNulo, TsapNulo, PuertosUnicos, CeldaInicial
<1>2. Pares
  BY Estados DEF Init, Pares, Establecida, CeldaInicial
<1>3. DOMAIN red = {}
  BY DEF Init, EmptyBag, SetToBag
<1> QED
  BY <1>1, <1>2, <1>3, TablaInicio DEF ParesInv, AceptacionesVivas

LEMMA ParesInvPaso ==
  RechazoMata /\ PuertosBajos /\ ParesInv /\ [Next]_vars => ParesInv'
<1> SUFFICES ASSUME RechazoMata, PuertosBajos, ParesInv, [Next]_vars PROVE ParesInv'
  OBVIOUS
<1>1. TypeOK /\ MarcoPropio /\ TablaInv /\ MarcosBajos /\ PuertosUnicos
  BY DEF ParesInv, TablaInv, CuentaInv, TiposInv
<1> QED
  BY <1>1, TablaPaso, MarcosBajosPaso, PuertosPaso, ParesPaso DEF ParesInv

LEMMA ParesSiempre ==
  ASSUME RechazoMata, PuertosBajos
  PROVE  Spec => []ParesInv
<1>1. ParesInv /\ [Next]_vars => ParesInv'
  BY ParesInvPaso
<1> QED
  BY <1>1, ParesInicio, PTL DEF Spec

\* Every established cell has one other end, which names it back, however often
\* the CR and the CC between them are duplicated or arrive late.
THEOREM ParesSeguros ==
  ASSUME RechazoMata, PuertosBajos
  PROVE  Spec => []ParesSimetricos
<1>1. ParesInv => ParesSimetricos
  BY DEF ParesInv, Pares, Par, SeNombran, Establecida, ParesSimetricos
<1> QED
  BY <1>1, ParesSiempre, PTL

-----------------------------------------------------------------------------
(* The refinement of Sesion.                                                *)

Fin == [e \in Nodos \X Celdas |-> FinDe(CXs[e[1]][e[2]])]

LEMMA FinDeCelda ==
  ASSUME NEW c
  PROVE  /\ c.estado_cx = CLOSED => FinDe(c) = [est |-> "libre"]
         /\ c.estado_cx = CONNECT =>
              FinDe(c) = [est |-> "pide", de |-> TsapLocal(c), a |-> TsapRemoto(c)]
         /\ c.estado_cx = LISTEN =>
              FinDe(c) = [est |-> "escucha", en |-> TsapLocal(c), filtro |-> TsapRemoto(c)]
         /\ c.estado_cx = ESTABLISHED =>
              FinDe(c) = [est |-> "unido", con |-> <<c.ip_destino, c.id_destino>>]
BY Estados DEF FinDe

\* A step that writes one cell changes one end at most.
LEMMA FinCambia ==
  ASSUME NEW n \in Nodos, NEW i \in Celdas, SoloCelda(n, i)
  PROVE  Fin' = [Fin EXCEPT ![<<n, i>>] = FinDe(CXs'[n][i])]
<1> DEFINE E == Nodos \X Celdas
           g == [Fin EXCEPT ![<<n, i>>] = FinDe(CXs'[n][i])]
<1>1. ASSUME NEW e \in E PROVE FinDe(CXs'[e[1]][e[2]]) = g[e]
  <2>1. CASE e = <<n, i>>
    BY <1>1, <2>1 DEF Fin
  <2>2. CASE e # <<n, i>>
    <3>1. e[1] \in Nodos /\ e[2] \in Celdas /\ (e[1] # n \/ e[2] # i)
      BY <1>1, <2>2
    <3>2. CXs'[e[1]][e[2]] = CXs[e[1]][e[2]]
      BY <3>1 DEF SoloCelda
    <3> QED
      BY <1>1, <2>2, <3>2 DEF Fin
  <2> QED
    BY <2>1, <2>2
<1>2. DOMAIN g = E /\ g = [e \in E |-> g[e]]
  BY DEF Fin
<1> HIDE DEF g
<1>3. Fin' = [e \in E |-> FinDe(CXs'[e[1]][e[2]])]
  BY DEF Fin
<1> HIDE DEF E
<1>4. Fin' = [e \in E |-> g[e]]
  BY <1>1, <1>3
<1> QED
  BY <1>2, <1>4 DEF g

\* Cells that keep what a session sees keep their ends.
LEMMA FinSigue ==
  ASSUME \A n \in Nodos, i \in Celdas : MismaCeldaSigue(n, i)
  PROVE  Fin' = Fin
<1>1. ASSUME NEW n \in Nodos, NEW i \in Celdas PROVE FinDe(CXs'[n][i]) = FinDe(CXs[n][i])
  <2>1. MismaCeldaSigue(n, i)
    OBVIOUS
  <2>2. TsapLocal(CXs'[n][i]) = TsapLocal(CXs[n][i]) /\ TsapRemoto(CXs'[n][i]) = TsapRemoto(CXs[n][i])
    BY <2>1 DEF MismaCeldaSigue, TsapLocal, TsapRemoto
  <2> QED
    BY <2>1, <2>2 DEF MismaCeldaSigue, FinDe
<1>2. \A e \in Nodos \X Celdas : FinDe(CXs'[e[1]][e[2]]) = FinDe(CXs[e[1]][e[2]])
  BY <1>1
<1> QED
  BY <1>2 DEF Fin

\* The step of an end in Sesion, in terms of Fin.
LEMMA PasoDeFin ==
  ASSUME NEW e \in Nodos \X Celdas, Fin' = [Fin EXCEPT ![e] = Fin'[e]], Fin'[e] # Fin[e],
         \/ /\ Fin[e] = [est |-> "libre"]
            /\ \/ Fin'[e] \in [est : {"pide"}, de : Tsap, a : Tsap]
               \/ Fin'[e] \in [est : {"escucha"}, en : Tsap, filtro : Tsap]
         \/ \E f \in Nodos \X Celdas :
              /\ Fin[e].est = "escucha" /\ Fin[f].est = "pide"
              /\ Fin[f].a = Fin[e].en /\ Filtra(Fin[e].filtro, Fin[f].de)
              /\ \A g \in Nodos \X Celdas : Fin[g] # [est |-> "unido", con |-> f]
              /\ Fin'[e] = [est |-> "unido", con |-> f]
         \/ \E f \in Nodos \X Celdas :
              /\ Fin[e].est = "pide" /\ Fin[f] = [est |-> "unido", con |-> e]
              /\ Fin'[e] = [est |-> "unido", con |-> f]
  PROVE  Sesiones!Next
<1>1. CASE /\ Fin[e] = [est |-> "libre"]
           /\ \/ Fin'[e] \in [est : {"pide"}, de : Tsap, a : Tsap]
              \/ Fin'[e] \in [est : {"escucha"}, en : Tsap, filtro : Tsap]
  <2>1. Sesiones!Pide(e) \/ Sesiones!Escucha(e)
    BY <1>1 DEF Sesiones!Pide, Sesiones!Escucha, Sesiones!Cambia, Sesiones!Libre,
                Sesiones!Peticiones, Sesiones!Oyentes, Fin
  <2> QED
    BY <2>1 DEF Sesiones!Next, Fin
<1>2. ASSUME NEW f \in Nodos \X Celdas,
             /\ Fin[e].est = "escucha" /\ Fin[f].est = "pide"
             /\ Fin[f].a = Fin[e].en /\ Filtra(Fin[e].filtro, Fin[f].de)
             /\ \A g \in Nodos \X Celdas : Fin[g] # [est |-> "unido", con |-> f]
             /\ Fin'[e] = [est |-> "unido", con |-> f]
      PROVE  Sesiones!Next
  <2>1. Sesiones!Acepta(e, f)
    BY <1>2 DEF Sesiones!Acepta, Sesiones!Cambia, Sesiones!Unido, Fin
  <2> QED
    BY <2>1 DEF Sesiones!Next, Fin
<1>3. ASSUME NEW f \in Nodos \X Celdas,
             /\ Fin[e].est = "pide" /\ Fin[f] = [est |-> "unido", con |-> e]
             /\ Fin'[e] = [est |-> "unido", con |-> f]
      PROVE  Sesiones!Next
  <2>1. Sesiones!Confirma(e, f)
    BY <1>3 DEF Sesiones!Confirma, Sesiones!Cambia, Sesiones!Unido, Fin
  <2> QED
    BY <2>1 DEF Sesiones!Next, Fin
<1> QED
  BY <1>1, <1>2, <1>3

\* A call that reserves a cell makes its end ask or listen.
LEMMA FinReserva ==
  ASSUME TablaInv, NEW a \in Apps, ConnectReserva(a) \/ ListenReserva(a), TypeOK'
  PROVE  Sesiones!Next
<1> DEFINE n == NodoDe[a]
<1>0. TablaInv /\ CuentaInv /\ LibreVacia /\ MarcosListos /\ n \in Nodos
  BY TiposDeProceso DEF TablaInv
<1>1. \E i \in Celdas : Reserva(a, i) /\ CXs'[n][i].estado_cx \in {CONNECT, LISTEN}
  BY <1>0, ConnectHace, ListenHace
<1>2. PICK i \in Celdas : Reserva(a, i) /\ CXs'[n][i].estado_cx \in {CONNECT, LISTEN}
  BY <1>1
<1> DEFINE e == <<n, i>>
           x == CXs'[n][i]
<1>3. CXs[n][i].estado_cx = CLOSED
  BY <1>0, <1>2 DEF Reserva, LibreVacia, CeldaInicial
<1>4. x \in Conexion
  BY <1>0 DEF TypeOK
<1>5. TsapLocal(x) \in Tsap /\ TsapRemoto(x) \in Tsap
  BY <1>4, TsapDeCelda
<1>6. e \in Nodos \X Celdas /\ Fin[e] = [est |-> "libre"]
  BY <1>0, <1>3, FinDeCelda DEF Fin
<1>7. Fin' = [Fin EXCEPT ![e] = FinDe(x)]
  BY <1>0, <1>2, FinCambia DEF Reserva
<1> HIDE DEF n, x
<1>8. \/ FinDe(x) \in [est : {"pide"}, de : Tsap, a : Tsap]
      \/ FinDe(x) \in [est : {"escucha"}, en : Tsap, filtro : Tsap]
  BY <1>2, <1>5, FinDeCelda DEF n, x
<1>9. FinDe(x) # [est |-> "libre"]
  BY <1>8
<1> HIDE DEF e
<1>10. Fin'[e] = FinDe(x)
  BY <1>6, <1>7 DEF Fin
<1> QED
  BY <1>6, <1>7, <1>8, <1>9, <1>10, PasoDeFin

\* A daemon that gives a request to a listener makes its end accept.
LEMMA FinCR ==
  ASSUME ParesInv, NEW n \in Nodos, DemonioCR(n)
  PROVE  Sesiones!Next
<1>0. TypeOK /\ TablaInv
  BY DEF ParesInv, TablaInv, CuentaInv, TiposInv
<1>1. PICK m \in DOMAIN red, i \in Celdas :
        /\ Atiende(n, i) /\ m.tpdu.tipo = CR /\ m.a = n
        /\ i \in Candidatas(CXs[n], m.tpdu)
        /\ Acepta(CXs[n][i], CXs'[n][i], m)
  BY <1>0, DemonioCRHace
<1> DEFINE j == m.tpdu.id_local
           r == CXs[m.de][j]
           c == CXs[n][i]
           x == CXs'[n][i]
           e == <<n, i>>
           f == <<m.de, j>>
<1>2. /\ c.estado_cx = LISTEN /\ r.estado_cx = CONNECT
      /\ r.ip_destino = n /\ r.puerto_destino = c.puerto_origen
      /\ \A k \in Nodos, l \in Celdas :
           Establecida(k, l) /\ CXs[k][l].ip_destino = m.de => CXs[k][l].id_destino # j
  BY <1>1, PeticionNueva
<1>3. m.de \in Nodos /\ j \in Celdas
  BY <1>0, <1>1, PaqueteTipo
<1>4. /\ e \in Nodos \X Celdas /\ f \in Nodos \X Celdas
      /\ Fin[e] = FinDe(c) /\ Fin[f] = FinDe(r)
  BY <1>3 DEF Fin
<1>5. FinDe(c) = [est |-> "escucha", en |-> TsapLocal(c), filtro |-> TsapRemoto(c)]
      /\ FinDe(r) = [est |-> "pide", de |-> TsapLocal(r), a |-> TsapRemoto(r)]
  BY <1>2, FinDeCelda
<1>6. Fin' = [Fin EXCEPT ![e] = FinDe(x)]
  BY <1>1, FinCambia DEF Atiende
<1>7. FinDe(x) = [est |-> "unido", con |-> f]
  <2>1. x.estado_cx = ESTABLISHED /\ x.ip_destino = m.de /\ x.id_destino = j
    BY <1>1 DEF Acepta
  <2> HIDE DEF x
  <2> QED
    BY <2>1, FinDeCelda
<1>8. TsapRemoto(r) = TsapLocal(c)
  <2>1. c.ip_local = n
    BY <1>1 DEF Candidatas, ParesInv, TablaInv, PeticionesVivas, PeticionViva
  <2> QED
    BY <1>2, <2>1 DEF TsapRemoto, TsapLocal
<1>9. Filtra(TsapRemoto(c), TsapLocal(r))
  <2>1. r.ip_local = m.tpdu.ip_local /\ r.puerto_origen = m.tpdu.puerto_orig
    BY <1>1 DEF ParesInv, TablaInv, PeticionesVivas, PeticionViva
  <2>2. \/ c.ip_destino = IPNula /\ c.puerto_destino = 0
        \/ c.ip_destino = r.ip_local /\ c.puerto_destino = 0
        \/ c.ip_destino = r.ip_local /\ c.puerto_destino = r.puerto_origen
    BY <1>1, <2>1 DEF Candidatas
  <2>3. AInt16(0) = 0
    BY DEF AInt16
  <2> HIDE DEF c, r
  <2> QED
    BY <2>2, <2>3 DEF Filtra, TsapRemoto, TsapLocal, TsapNulo
<1>10. ASSUME NEW g \in Nodos \X Celdas PROVE Fin[g] # [est |-> "unido", con |-> f]
  <2> DEFINE y == CXs[g[1]][g[2]]
  <2>1. g[1] \in Nodos /\ g[2] \in Celdas /\ Fin[g] = FinDe(y)
    BY DEF Fin
  <2>2. y.estado_cx \in {CLOSED, LISTEN, CONNECT, ESTABLISHED}
    BY <1>0, <2>1 DEF TypeOK, Conexion
  <2>3. y.estado_cx = ESTABLISHED => <<y.ip_destino, y.id_destino>> # f
    BY <1>2, <2>1 DEF Establecida
  <2> HIDE DEF y, f
  <2> QED
    BY <2>1, <2>2, <2>3, FinDeCelda
<1> HIDE DEF e, f, x, c, r
<1>11. Fin'[e] = FinDe(x)
  BY <1>4, <1>6 DEF Fin
<1>12. /\ Fin[e].est = "escucha" /\ Fin[f].est = "pide"
       /\ Fin[f].a = Fin[e].en /\ Filtra(Fin[e].filtro, Fin[f].de)
       /\ Fin'[e] # Fin[e]
  BY <1>4, <1>5, <1>7, <1>8, <1>9, <1>11
<1> QED
  BY <1>4, <1>6, <1>7, <1>10, <1>11, <1>12, PasoDeFin

\* A CC confirms the end that asked, unless it is the duplicate of one that
\* already did.
LEMMA FinCC ==
  ASSUME ParesInv, NEW n \in Nodos, DemonioCC(n)
  PROVE  Sesiones!Next \/ Fin' = Fin
<1>0. TypeOK /\ TablaInv /\ SinRechazos
  BY DEF ParesInv, TablaInv, CuentaInv, TiposInv
<1>1. PICK m \in DOMAIN red :
        LET i == m.tpdu.id_destino
        IN  /\ Atiende(n, i) /\ m.tpdu.tipo = CC /\ m.a = n
            /\ Confirma(CXs[n][i], CXs'[n][i], m)
  BY <1>0, DemonioCCHace
<1> DEFINE i == m.tpdu.id_destino
           j == m.tpdu.id_local
           c == CXs[n][i]
           d == CXs[m.de][j]
           x == CXs'[n][i]
           e == <<n, i>>
           f == <<m.de, j>>
<1>2. /\ m.de \in Nodos /\ i \in Celdas /\ j \in Celdas
      /\ Establecida(m.de, j) /\ SeNombran(n, i, m.de, j) /\ d.id_destino = i
      /\ c.estado_cx = CONNECT \/ (c.estado_cx = ESTABLISHED /\ c.id_destino = j)
  BY <1>1, RespuestaDePar
<1>3. SoloCelda(n, i) /\ Confirma(c, x, m)
  BY <1>1 DEF Atiende
<1>4. CASE c.estado_cx = ESTABLISHED
  <2>1. MismaCeldaSigue(n, i)
    BY <1>2, <1>3, <1>4, Estados DEF Confirma, MismaCeldaSigue
  <2>2. \A k \in Nodos, l \in Celdas : MismaCeldaSigue(k, l)
    BY <1>3, <2>1 DEF SoloCelda, MismaCeldaSigue
  <2> QED
    BY <2>2, FinSigue
<1>5. CASE c.estado_cx = CONNECT
  <2>1. /\ e \in Nodos \X Celdas /\ f \in Nodos \X Celdas
        /\ Fin[e] = FinDe(c) /\ Fin[f] = FinDe(d)
    BY <1>2 DEF Fin
  <2>2. Fin' = [Fin EXCEPT ![e] = FinDe(x)]
    BY <1>2, <1>3, FinCambia
  <2>3. FinDe(c).est = "pide"
    BY <1>5, FinDeCelda
  <2>4. FinDe(d) = [est |-> "unido", con |-> e]
    BY <1>2, FinDeCelda DEF Establecida, SeNombran
  <2>5. FinDe(x) = [est |-> "unido", con |-> f]
    <3>1. x.estado_cx = ESTABLISHED /\ x.ip_destino = m.de /\ x.id_destino = j
      BY <1>2, <1>3 DEF Confirma, SeNombran
    <3> HIDE DEF x
    <3> QED
      BY <3>1, FinDeCelda
  <2> HIDE DEF e, f, c, d, x
  <2>6. Fin'[e] = FinDe(x)
    BY <2>1, <2>2 DEF Fin
  <2>7. Fin[e].est = "pide" /\ Fin[f] = [est |-> "unido", con |-> e] /\ Fin'[e] # Fin[e]
    BY <2>1, <2>3, <2>4, <2>5, <2>6
  <2> QED
    BY <2>1, <2>2, <2>5, <2>6, <2>7, PasoDeFin
<1> QED
  BY <1>2, <1>4, <1>5

LEMMA FinInicio == Init => Sesiones!Init
<1> SUFFICES ASSUME Init PROVE Sesiones!Init
  OBVIOUS
<1>1. ASSUME NEW e \in Nodos \X Celdas
      PROVE  FinDe(CXs[e[1]][e[2]]) = [est |-> "libre"]
  <2>1. CXs[e[1]][e[2]].estado_cx = CLOSED
    BY DEF Init, CeldaInicial
  <2> QED
    BY <2>1, FinDeCelda
<1> QED
  BY <1>1 DEF Sesiones!Init, Sesiones!Libre

LEMMA FinPaso ==
  ASSUME RechazoMata, ParesInv, [Next]_vars
  PROVE  Sesiones!Next \/ Fin' = Fin
<1>0. TiposInv /\ EnviosVivos /\ TablaInv /\ TypeOK'
  BY TiposInvPaso DEF ParesInv, TablaInv, CuentaInv, TiposInv
<1>1. CASE SoloBuffers
  BY <1>1, FinSigue DEF SoloBuffers, MismaSalvoTX, MismaCeldaSigue
<1> QED
  BY <1>0, <1>1, FinReserva, FinCR, FinCC, PasosDeLaTabla

\* The cells, the CRs and CCs and the look-ups of the nodes implement the
\* sessions of Sesion: each step asks, listens, accepts, confirms, or changes no
\* end.
THEOREM SesionImplementada ==
  ASSUME RechazoMata, PuertosBajos
  PROVE  Spec => ImplementaSesion
<1>1. ParesInv /\ [Next]_vars => Sesiones!Next \/ Fin' = Fin
  BY FinPaso
<1>2. ParesInv /\ [Next]_vars => [Sesiones!Next]_([e \in Nodos \X Celdas |-> FinDe(CXs[e[1]][e[2]])])
  BY <1>1 DEF Fin
<1> QED
  BY <1>2, FinInicio, ParesSiempre, PTL DEF Spec, ImplementaSesion, Sesiones!Spec

=============================================================================
