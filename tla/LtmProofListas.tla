--------------------------- MODULE LtmProofListas ---------------------------
(***************************************************************************)
(* The lists of the shared memory, for every value of the constants: that   *)
(* no buffer is lost or in two lists until a list operation meets an empty   *)
(* list, and what makes one meet it.                                        *)
(*                                                                         *)
(* The buffers of a node are counted with the fold MapThenSumSet.  It is a   *)
(* CHOOSE of a recursive function over the sets of cells, so the first       *)
(* lemmas show that such a function exists and how its value changes when    *)
(* one cell does.                                                           *)
(***************************************************************************)
EXTENDS LtmProofTabla

-----------------------------------------------------------------------------
(* The sum of the lengths of the TX lists of a table.                       *)

Uno(s) == CHOOSE x \in s : TRUE
Paso(cxs, g, s) == IF s = {} THEN 0 ELSE Len(cxs[Uno(s)].TX) + g[s \ {Uno(s)}]
EsSuma(cxs, g) == g = [s \in SUBSET Celdas |-> Paso(cxs, g, s)]
SumaTX(cxs) == CHOOSE g : EsSuma(cxs, g)
EnTX(cxs) == SumaTX(cxs)[Celdas]

LEMMA CuentaEnTX ==
  /\ BuffersConservados <=>
       \A n \in Nodos : rotas[n] \/ heap[n] = Len(buffers_libres[n]) + EnTX(CXs[n])
  /\ BuffersConservados' <=>
       \A n \in Nodos : rotas'[n] \/ heap'[n] = Len(buffers_libres'[n]) + EnTX(CXs'[n])
BY Zenon DEF BuffersConservados, EnTX, SumaTX, EsSuma, Paso, Uno, MapThenSumSet, MapThenFoldSet

\* Induction over the natural numbers, for a set.
LEMMA InduccionNat ==
  ASSUME NEW T, 0 \in T, \A k \in Nat : k \in T => k + 1 \in T
  PROVE  Nat \subseteq T
<1> DEFINE U == Nat \ T
           Menor == OpToRel(<, Nat)
<1> SUFFICES ASSUME U # {} PROVE FALSE
  OBVIOUS
<1>1. PICK k \in U : \A y \in U : ~ (<<y, k>> \in Menor)
  <2>1. IsWellFoundedOn(Menor, Nat)
    BY NatLessThanWellFounded
  <2>2. U \subseteq Nat /\ U # {}
    OBVIOUS
  <2> HIDE DEF U, Menor
  <2> QED
    BY <2>1, <2>2, WFMin
<1>2. k \in Nat /\ k # 0 /\ k \notin T
  OBVIOUS
<1>3. k - 1 \in Nat /\ k - 1 < k /\ (k - 1) + 1 = k
  BY <1>2
<1>4. k - 1 \in U
  BY <1>2, <1>3
<1>5. <<k - 1, k>> \in Menor
  BY <1>2, <1>3 DEF OpToRel
<1> QED
  BY <1>1, <1>4, <1>5

LEMMA UnoDe ==
  ASSUME NEW s \in SUBSET Celdas, s # {}
  PROVE  /\ Uno(s) \in s /\ s \ {Uno(s)} \in SUBSET Celdas
         /\ IsFiniteSet(s) /\ Cardinality(s) \in Nat
         /\ Cardinality(s \ {Uno(s)}) = Cardinality(s) - 1
<1>1. Uno(s) \in s
  BY DEF Uno
<1>2. IsFiniteSet(Celdas)
  BY SuposicionCotas, FS_Interval DEF Celdas
<1>3. IsFiniteSet(s)
  BY <1>2, FS_Subset
<1> QED
  BY <1>1, <1>3, FS_RemoveElement, FS_CardinalityType

\* Induction over the sets of cells, removing one element at a time.
LEMMA InduccionCeldas ==
  ASSUME NEW T, {} \in T,
         \A s \in SUBSET Celdas : s # {} /\ s \ {Uno(s)} \in T => s \in T
  PROVE  SUBSET Celdas \subseteq T
<1> DEFINE De(k) == {s \in SUBSET Celdas : Cardinality(s) = k}
           K == {k \in Nat : De(k) \subseteq T}
<1>0. \A s \in SUBSET Celdas : IsFiniteSet(s) /\ Cardinality(s) \in Nat
                              /\ (Cardinality(s) = 0 <=> s = {})
  <2>1. IsFiniteSet(Celdas)
    BY SuposicionCotas, FS_Interval DEF Celdas
  <2> QED
    BY <2>1, FS_Subset, FS_CardinalityType, FS_EmptySet
<1>1. 0 \in K
  BY <1>0
<1>2. ASSUME NEW k \in Nat, k \in K PROVE k + 1 \in K
  <2>1. ASSUME NEW s \in De(k + 1) PROVE s \in T
    <3>1. s \in SUBSET Celdas /\ Cardinality(s) = k + 1 /\ s # {}
      BY <1>0
    <3>2. Cardinality(s \ {Uno(s)}) = k /\ s \ {Uno(s)} \in SUBSET Celdas
      BY <3>1, UnoDe
    <3>3. s \ {Uno(s)} \in De(k)
      BY <3>2
    <3> QED
      BY <1>2, <3>1, <3>3
  <2> QED
    BY <2>1
<1>3. Nat \subseteq K
  <2> HIDE DEF K
  <2> QED
    BY <1>1, <1>2, InduccionNat
<1> QED
  BY <1>0, <1>3

LEMMA PasoIgual ==
  ASSUME NEW cxs, NEW g, NEW h, NEW s,
         s # {} => h[s \ {Uno(s)}] = g[s \ {Uno(s)}]
  PROVE  Paso(cxs, h, s) = Paso(cxs, g, s)
BY DEF Paso

\* The recursive definition has a solution: one for the sets of at most k cells
\* extends to those of k + 1.
LEMMA HaySuma == ASSUME NEW cxs PROVE EsSuma(cxs, SumaTX(cxs))
<1> DEFINE Hasta(k) == {s \in SUBSET Celdas : Cardinality(s) <= k}
           Cumple(g, k) == \A s \in Hasta(k) : g[s] = Paso(cxs, g, s)
           K == {k \in Nat : \E g : Cumple(g, k)}
<1>0. \A s \in SUBSET Celdas : /\ Cardinality(s) \in Nat
                              /\ Cardinality(s) <= NUM_MAX_CXs
                              /\ (Cardinality(s) <= 0 <=> s = {})
  <2>1. IsFiniteSet(Celdas) /\ Cardinality(Celdas) = NUM_MAX_CXs
    BY SuposicionCotas, FS_Interval DEF Celdas
  <2>2. \A s \in SUBSET Celdas : /\ Cardinality(s) \in Nat
                                /\ Cardinality(s) <= NUM_MAX_CXs
                                /\ (Cardinality(s) = 0 <=> s = {})
    BY <2>1, FS_Subset, FS_CardinalityType, FS_EmptySet
  <2> QED
    BY <2>2
<1>1. 0 \in K
  <2>1. Cumple([s \in {{}} |-> 0], 0)
    BY <1>0 DEF Paso
  <2> QED
    BY <2>1
<1>2. ASSUME NEW k \in Nat, k \in K PROVE k + 1 \in K
  <2>1. PICK g : Cumple(g, k)
    BY <1>2
  <2> DEFINE h == [s \in SUBSET Celdas |->
                     IF s \in Hasta(k) THEN g[s] ELSE Paso(cxs, g, s)]
  <2>2. ASSUME NEW s \in Hasta(k + 1) PROVE h[s] = Paso(cxs, h, s)
    <3>1. s \in SUBSET Celdas /\ Cardinality(s) <= k + 1
      OBVIOUS
    <3>2. h[s] = Paso(cxs, g, s)
      BY <2>1, <3>1
    <3>3. ASSUME s # {} PROVE h[s \ {Uno(s)}] = g[s \ {Uno(s)}]
      <4>1. Cardinality(s) \in Nat /\ Cardinality(s \ {Uno(s)}) = Cardinality(s) - 1
            /\ s \ {Uno(s)} \in SUBSET Celdas
        BY <3>1, <3>3, UnoDe
      <4>2. s \ {Uno(s)} \in Hasta(k)
        BY <3>1, <4>1
      <4> QED
        BY <4>1, <4>2
    <3> HIDE DEF h
    <3> QED
      BY <3>2, <3>3, PasoIgual
  <2>3. Cumple(h, k + 1)
    BY <2>2
  <2> HIDE DEF h
  <2>4. \E x : Cumple(x, k + 1)
    BY <2>3
  <2> QED
    BY <2>4
<1>3. NUM_MAX_CXs \in K
  <2>1. Nat \subseteq K
    <3> HIDE DEF K
    <3> QED
      BY <1>1, <1>2, InduccionNat
  <2> QED
    BY <2>1, SuposicionCotas
<1>4. PICK g : Cumple(g, NUM_MAX_CXs)
  BY <1>3
<1>5. \A s \in SUBSET Celdas : g[s] = Paso(cxs, g, s)
  BY <1>0, <1>4
<1> DEFINE h == [s \in SUBSET Celdas |-> g[s]]
<1>6. ASSUME NEW s \in SUBSET Celdas PROVE h[s] = Paso(cxs, h, s)
  <2>1. s # {} => h[s \ {Uno(s)}] = g[s \ {Uno(s)}]
    BY UnoDe
  <2>2. h[s] = Paso(cxs, g, s)
    BY <1>5
  <2> HIDE DEF h
  <2> QED
    BY <2>1, <2>2, PasoIgual
<1>7. EsSuma(cxs, h)
  BY <1>6 DEF EsSuma
<1> QED
  BY <1>7 DEF SumaTX

LEMMA SumaCumple ==
  ASSUME NEW cxs, NEW s \in SUBSET Celdas
  PROVE  /\ s = {} => SumaTX(cxs)[s] = 0
         /\ s # {} => SumaTX(cxs)[s] = Len(cxs[Uno(s)].TX) + SumaTX(cxs)[s \ {Uno(s)}]
<1> DEFINE g == SumaTX(cxs)
<1>1. g = [x \in SUBSET Celdas |-> Paso(cxs, g, x)]
  BY HaySuma DEF EsSuma
<1> HIDE DEF g
<1>2. g[s] = Paso(cxs, g, s)
  BY <1>1
<1> QED
  BY <1>2 DEF Paso, g

LEMMA SumaNatural ==
  ASSUME NEW cxs \in [Celdas -> Conexion]
  PROVE  \A s \in SUBSET Celdas : SumaTX(cxs)[s] \in Nat
<1> DEFINE g == SumaTX(cxs)
           T == {s \in SUBSET Celdas : g[s] \in Nat}
<1>1. {} \in T
  <2>1. {} \in SUBSET Celdas
    OBVIOUS
  <2>2. g[{}] = 0
    BY <2>1, SumaCumple
  <2> QED
    BY <2>1, <2>2
<1>2. ASSUME NEW s \in SUBSET Celdas, s # {}, s \ {Uno(s)} \in T PROVE s \in T
  <2>1. Uno(s) \in Celdas
    BY <1>2, UnoDe
  <2>2. Len(cxs[Uno(s)].TX) \in Nat
    BY <2>1 DEF Conexion
  <2>3. g[s] = Len(cxs[Uno(s)].TX) + g[s \ {Uno(s)}]
    BY <1>2, SumaCumple
  <2>4. g[s \ {Uno(s)}] \in Nat
    BY <1>2
  <2> HIDE DEF g
  <2>5. g[s] \in Nat
    BY <2>2, <2>3, <2>4
  <2> QED
    BY <2>5
<1>3. SUBSET Celdas \subseteq T
  <2> HIDE DEF T
  <2> QED
    BY <1>1, <1>2, InduccionCeldas
<1> QED
  BY <1>3

\* When only cell i changes, the sum changes by what its TX does.
LEMMA SumaCambia ==
  ASSUME NEW cxs \in [Celdas -> Conexion], NEW dxs \in [Celdas -> Conexion],
         NEW i \in Celdas, \A j \in Celdas \ {i} : dxs[j].TX = cxs[j].TX
  PROVE  /\ EnTX(cxs) \in Nat
         /\ EnTX(dxs) = EnTX(cxs) + Len(dxs[i].TX) - Len(cxs[i].TX)
<1> DEFINE g == SumaTX(cxs)
           h == SumaTX(dxs)
           x == Len(cxs[i].TX)
           y == Len(dxs[i].TX)
           T == {s \in SUBSET Celdas : h[s] = IF i \in s THEN g[s] + y - x ELSE g[s]}
<1>0. x \in Nat /\ y \in Nat /\ \A s \in SUBSET Celdas : g[s] \in Nat /\ h[s] \in Nat
  BY SumaNatural DEF Conexion
<1>1. {} \in T
  BY SumaCumple
<1>2. ASSUME NEW s \in SUBSET Celdas, s # {}, s \ {Uno(s)} \in T PROVE s \in T
  <2> DEFINE u == Uno(s)
             r == s \ {u}
  <2>1. u \in s /\ u \in Celdas /\ r \in SUBSET Celdas
    BY <1>2, UnoDe
  <2>2. g[s] = Len(cxs[u].TX) + g[r] /\ h[s] = Len(dxs[u].TX) + h[r]
    BY <1>2, SumaCumple
  <2>3. h[r] = IF i \in r THEN g[r] + y - x ELSE g[r]
    BY <1>2
  <2>4. g[r] \in Nat /\ h[r] \in Nat
    BY <1>0, <2>1
  <2>5. CASE u = i
    <3>1. i \notin r /\ i \in s
      BY <2>1, <2>5
    <3>2. g[s] = x + g[r] /\ h[s] = y + g[r]
      BY <2>2, <2>3, <2>5, <3>1
    <3> HIDE DEF g, h, x, y, r
    <3>3. h[s] = g[s] + y - x
      BY <1>0, <2>4, <3>2
    <3> QED
      BY <3>1, <3>3
  <2>6. CASE u # i
    <3>1. Len(dxs[u].TX) = Len(cxs[u].TX) /\ (i \in r <=> i \in s)
      BY <2>1, <2>6
    <3>2. Len(cxs[u].TX) \in Nat
      BY <2>1 DEF Conexion
    <3> DEFINE l == Len(cxs[u].TX)
    <3>3. g[s] = l + g[r] /\ h[s] = l + h[r] /\ l \in Nat
      BY <2>2, <3>1, <3>2
    <3> HIDE DEF g, h, x, y, r, u, l
    <3>4. h[s] = IF i \in s THEN g[s] + y - x ELSE g[s]
      BY <1>0, <2>3, <2>4, <3>1, <3>3
    <3> QED
      BY <3>4
  <2> QED
    BY <2>5, <2>6
<1>3. Celdas \in T
  <2>1. SUBSET Celdas \subseteq T
    <3> HIDE DEF T
    <3> QED
      BY <1>1, <1>2, InduccionCeldas
  <2> QED
    BY <2>1
<1>4. h[Celdas] = g[Celdas] + y - x /\ g[Celdas] \in Nat
  BY <1>0, <1>3
<1> QED
  BY <1>4 DEF EnTX

-----------------------------------------------------------------------------
(* BuffersConservados, step by step.                                        *)

\* Broken lists stay broken.
RotasSiguen == \A k \in Nodos : rotas[k] => rotas'[k]

\* Buffers that come and go on one node, to and from one cell.
LEMMA Conserva ==
  ASSUME TypeOK, TypeOK', RotasSiguen, BuffersConservados,
         NEW n \in Nodos, NEW i \in Celdas,
         SoloCelda(n, i),
         \A k \in Nodos \ {n} : /\ buffers_libres'[k] = buffers_libres[k]
                                /\ heap'[k] = heap[k],
         \/ rotas'[n]
         \/ heap'[n] - heap[n]
              = (Len(buffers_libres'[n]) - Len(buffers_libres[n]))
                  + (Len(CXs'[n][i].TX) - Len(CXs[n][i].TX))
  PROVE  BuffersConservados'
<1> SUFFICES ASSUME NEW k \in Nodos, ~ rotas'[k]
             PROVE  heap'[k] = Len(buffers_libres'[k]) + EnTX(CXs'[k])
  BY CuentaEnTX
<1>1. heap[k] = Len(buffers_libres[k]) + EnTX(CXs[k])
  BY CuentaEnTX DEF RotasSiguen
<1>2. CXs[k] \in [Celdas -> Conexion] /\ CXs'[k] \in [Celdas -> Conexion]
  BY DEF TypeOK
<1>3. CASE k # n
  <2>1. \A j \in Celdas : CXs'[k][j] = CXs[k][j]
    BY <1>3 DEF SoloCelda
  <2>2. CXs'[k] = CXs[k]
    BY <1>2, <2>1
  <2> QED
    BY <1>1, <1>3, <2>2
<1>4. CASE k = n
  <2>1. \A j \in Celdas \ {i} : CXs'[k][j].TX = CXs[k][j].TX
    BY <1>4 DEF SoloCelda
  <2>2. /\ EnTX(CXs[k]) \in Nat
        /\ EnTX(CXs'[k]) = EnTX(CXs[k]) + Len(CXs'[k][i].TX) - Len(CXs[k][i].TX)
    BY <1>2, <2>1, SumaCambia
  <2> DEFINE h == heap[k]
             hh == heap'[k]
             b == Len(buffers_libres[k])
             bb == Len(buffers_libres'[k])
             e == EnTX(CXs[k])
             ee == EnTX(CXs'[k])
             x == Len(CXs[k][i].TX)
             xx == Len(CXs'[k][i].TX)
  <2>3. h \in Nat /\ hh \in Nat /\ b \in Nat /\ bb \in Nat
    BY DEF TypeOK
  <2>4. x \in Nat /\ xx \in Nat
    BY <1>2 DEF Conexion
  <2>5. h = b + e /\ hh - h = (bb - b) + (xx - x) /\ ee = e + xx - x /\ e \in Nat
    BY <1>1, <1>4, <2>2
  <2> HIDE DEF h, hh, b, bb, e, ee, x, xx
  <2>6. hh = bb + ee
    BY <2>3, <2>4, <2>5
  <2> QED
    BY <2>6 DEF hh, bb, ee
<1> QED
  BY <1>3, <1>4

\* A step that touches no buffer.
LEMMA ConservaIgual ==
  ASSUME RotasSiguen, BuffersConservados, UNCHANGED <<CXs, buffers_libres, heap>>
  PROVE  BuffersConservados'
BY CuentaEnTX DEF RotasSiguen

\* The list that buscar_buffer_libre leaves, and what it adds to the heap.
LEMMA LargoDeLibres ==
  ASSUME TypeOK, NEW n \in Nodos, NEW p \in Procs
  PROVE  /\ Len(LibresCon(n, p)) \in Nat
         /\ HeapCon(n)[n] - heap[n] = Len(LibresCon(n, p)) - Len(buffers_libres[n])
         /\ Len(Tail(LibresCon(n, p))) = Len(LibresCon(n, p)) - 1
         /\ \A k \in Nodos \ {n} : HeapCon(n)[k] = heap[k]
<1> DEFINE b == buffers_libres[n]
           l == LibresCon(n, p)
<1>1. /\ b \in Seq(Procs \cup {Nadie}) /\ heap[n] \in Nat
      /\ l \in Seq(Procs \cup {Nadie}) /\ l # <<>>
  BY ListaDeLibres DEF TypeOK, Lista
<1>2. HeapCon(n)[n] = IF b = <<>> THEN heap[n] + 1 ELSE heap[n]
  BY DEF TypeOK, HeapCon
<1>3. \A k \in Nodos \ {n} : HeapCon(n)[k] = heap[k]
  BY DEF TypeOK, HeapCon
<1>4. CASE b = <<>>
  <2>1. Len(b) = 0 /\ Len(l) = 1
    BY <1>4 DEF LibresCon
  <2>2. HeapCon(n)[n] - heap[n] = 1
    BY <1>1, <1>2, <1>4
  <2>3. HeapCon(n)[n] - heap[n] = Len(l) - Len(b)
    BY <2>1, <2>2
  <2> QED
    BY <1>1, <1>3, <2>3, HeadTailProperties, LenProperties
<1>5. CASE b # <<>>
  <2>1. l = b /\ Len(b) \in Nat
    BY <1>1, <1>5 DEF LibresCon
  <2>2. HeapCon(n)[n] - heap[n] = 0
    BY <1>1, <1>2, <1>5
  <2>3. HeapCon(n)[n] - heap[n] = Len(l) - Len(b)
    BY <2>1, <2>2
  <2> QED
    BY <1>1, <1>3, <2>3, HeadTailProperties, LenProperties
<1> QED
  BY <1>4, <1>5

\* A buffer goes from the free list to the TX of a cell.
LEMMA ConservaToma ==
  ASSUME TypeOK, TypeOK', RotasSiguen, BuffersConservados,
         NEW n \in Nodos, NEW i \in Celdas,
         NEW p \in Procs, NEW rota, rota => rotas'[n], TomaBuffer(n, p, rota),
         SoloCelda(n, i), CXs'[n][i].TX = MeteEnTX(CXs[n][i].TX, n, p, rota)
  PROVE  BuffersConservados'
<1> DEFINE l == LibresCon(n, p)
           x == Head(l)
<1>0. heap' = HeapCon(n) /\ \A k \in Nodos \ {n} : buffers_libres'[k] = buffers_libres[k]
  BY DEF TomaBuffer, TypeOK
<1>3. /\ Len(l) \in Nat /\ Len(Tail(l)) = Len(l) - 1
      /\ HeapCon(n)[n] - heap[n] = Len(l) - Len(buffers_libres[n])
      /\ \A k \in Nodos \ {n} : HeapCon(n)[k] = heap[k]
  BY LargoDeLibres
<1>r. CASE rota
  BY <1>0, <1>3, <1>r, Conserva
<1> SUFFICES ASSUME ~ rota PROVE BuffersConservados'
  BY <1>r
<1>1. buffers_libres'[n] = Tail(l)
  BY DEF TomaBuffer, Operada, TypeOK
<1>2. CXs'[n][i].TX = Append(CXs[n][i].TX, x) /\ CXs[n][i].TX \in Seq(Procs \cup {Nadie})
  BY DEF MeteEnTX, Operada, TypeOK, Conexion, Lista
<1> HIDE DEF x, l
<1>4. Len(CXs'[n][i].TX) - Len(CXs[n][i].TX) = 1
  BY <1>2
<1>5. Len(buffers_libres[n]) \in Nat
  BY DEF TypeOK, Lista
<1>6. heap'[n] - heap[n]
        = (Len(buffers_libres'[n]) - Len(buffers_libres[n]))
            + (Len(CXs'[n][i].TX) - Len(CXs[n][i].TX))
  <2> DEFINE a == heap'[n] - heap[n]
             b == Len(buffers_libres[n])
             c == Len(buffers_libres'[n])
             d == Len(CXs'[n][i].TX) - Len(CXs[n][i].TX)
             e == Len(l)
  <2>1. a = e - b /\ c = e - 1 /\ d = 1 /\ b \in Nat /\ e \in Nat
    BY <1>0, <1>1, <1>3, <1>4, <1>5
  <2> HIDE DEF a, b, c, d, e
  <2>2. a = (c - b) + d
    BY <2>1
  <2> QED
    BY <2>2 DEF a, b, c, d
<1> QED
  BY <1>0, <1>3, <1>6, Conserva

\* A step that writes a cell and not its TX.
LEMMA ConservaQuieta ==
  ASSUME TypeOK, TypeOK', RotasSiguen, BuffersConservados,
         NEW n \in Nodos, NEW i \in Celdas,
         SoloCelda(n, i), CXs'[n][i].TX = CXs[n][i].TX,
         UNCHANGED <<buffers_libres, heap>>
  PROVE  BuffersConservados'
<1> DEFINE h == heap[n]
           b == Len(buffers_libres[n])
           x == Len(CXs[n][i].TX)
<1>1. h \in Nat /\ b \in Nat /\ x \in Nat
  BY DEF TypeOK, Conexion, Lista
<1>2. heap'[n] = h /\ Len(buffers_libres'[n]) = b /\ Len(CXs'[n][i].TX) = x
  OBVIOUS
<1> HIDE DEF h, b, x
<1>3. h - h = (b - b) + (x - x)
  BY <1>1
<1>4. heap'[n] - heap[n]
        = (Len(buffers_libres'[n]) - Len(buffers_libres[n]))
            + (Len(CXs'[n][i].TX) - Len(CXs[n][i].TX))
  BY <1>2, <1>3 DEF h, b, x
<1> QED
  BY <1>4, Conserva

LEMMA ConnectConserva ==
  ASSUME TypeOK, TypeOK', RotasSiguen, BuffersConservados, NEW a \in Apps, ConnectReserva(a)
  PROVE  BuffersConservados'
<1> DEFINE n == NodoDe[a]
           i == buscar_celda_libre(CXs[n])
           tx == MeteEnTX(CXs[n][i].TX, n, a, RotaAlQuitar(n))
           c == CeldaConnect(CXs[n][i], a, tx)
<1>1. n \in Nodos /\ a \in Procs /\ i \in Celdas
  BY TiposDeProceso, CeldaLibreEsCelda
<1>2. CXs' = [CXs EXCEPT ![n][i] = c] /\ TomaBuffer(n, a, RotaAlQuitar(n))
  BY DEF ConnectReserva
<1>5. RotaAlQuitar(n) => rotas'[n]
  BY <1>1 DEF ConnectReserva, QuitaCXLibre, TypeOK
<1>3. c.TX = tx
  <2>1. CXs[n][i] \in Conexion
    BY <1>1 DEF TypeOK
  <2> HIDE DEF n, i, tx
  <2> QED
    BY <2>1 DEF CeldaConnect, Conexion
<1> HIDE DEF n, i, c
<1>4. SoloCelda(n, i) /\ CXs'[n][i] = c
  BY <1>1, <1>2, UnaSola
<1> QED
  BY <1>1, <1>2, <1>3, <1>4, <1>5, ConservaToma

LEMMA SendConserva ==
  ASSUME TypeOK, TypeOK', RotasSiguen, BuffersConservados, NEW a \in Apps, SendTrozo(a)
  PROVE  BuffersConservados'
<1> DEFINE n == NodoDe[a]
           i == celda[a]
           tx == MeteEnTX(CXs[n][i].TX, n, a, rotas[n])
           c == [CXs[n][i] EXCEPT !.TX = tx]
<1>1. n \in Nodos /\ a \in Procs /\ i \in Celdas
  BY TiposDeProceso DEF TypeOK
<1>2. CXs' = [CXs EXCEPT ![n][i] = c] /\ TomaBuffer(n, a, rotas[n])
  BY DEF SendTrozo
<1>5. rotas[n] => rotas'[n]
  BY DEF SendTrozo
<1>3. c.TX = tx
  <2>1. CXs[n][i] \in Conexion
    BY <1>1 DEF TypeOK
  <2> HIDE DEF n, i, tx
  <2> QED
    BY <2>1 DEF Conexion
<1> HIDE DEF n, i, c
<1>4. SoloCelda(n, i) /\ CXs'[n][i] = c
  BY <1>1, <1>2, UnaSola
<1> QED
  BY <1>1, <1>2, <1>3, <1>4, <1>5, ConservaToma

\* The daemon makes a buffer for the CC if there is none, and leaves it free.
LEMMA ContestaConserva ==
  ASSUME TypeOK, TypeOK', RotasSiguen, BuffersConservados,
         NEW n \in Nodos, NEW i \in Celdas,
         SoloCelda(n, i), CXs'[n][i].TX = CXs[n][i].TX,
         buffers_libres' = [buffers_libres EXCEPT ![n] = LibresCon(n, n)],
         heap' = HeapCon(n)
  PROVE  BuffersConservados'
<1> DEFINE l == LibresCon(n, n)
           x == Len(CXs[n][i].TX)
<1>1. buffers_libres'[n] = l /\ n \in Procs /\ x \in Nat
      /\ \A k \in Nodos \ {n} : buffers_libres'[k] = buffers_libres[k]
  BY TiposDeProceso DEF TypeOK, Conexion, Lista
<1>2. /\ Len(l) \in Nat
      /\ HeapCon(n)[n] - heap[n] = Len(l) - Len(buffers_libres[n])
      /\ \A k \in Nodos \ {n} : HeapCon(n)[k] = heap[k]
  BY <1>1, LargoDeLibres
<1>3. Len(buffers_libres[n]) \in Nat
  BY DEF TypeOK, Lista
<1>4. heap'[n] - heap[n]
        = (Len(buffers_libres'[n]) - Len(buffers_libres[n]))
            + (Len(CXs'[n][i].TX) - Len(CXs[n][i].TX))
  <2> DEFINE b == Len(buffers_libres[n])
             e == Len(l)
             a == heap'[n] - heap[n]
  <2>1. a = e - b /\ Len(buffers_libres'[n]) = e /\ b \in Nat /\ e \in Nat
        /\ Len(CXs'[n][i].TX) = x
    BY <1>1, <1>2, <1>3
  <2> HIDE DEF a, b, e, x
  <2>2. a = (e - b) + (x - x)
    BY <1>1, <2>1
  <2> QED
    BY <2>1, <2>2 DEF a, b, x
<1> HIDE DEF l
<1> QED
  BY <1>1, <1>2, <1>4, Conserva

LEMMA DemonioCRConserva ==
  ASSUME TypeOK, TypeOK', RotasSiguen, BuffersConservados, NEW n \in Nodos,
         DemonioCR(n) \/ DemonioCRSinTsap(n)
  PROVE  BuffersConservados'
<1>1. CASE DemonioCR(n)
  <2>1. PICK m \in DOMAIN red, i \in Celdas :
          Atiende(n, i) /\ Acepta(CXs[n][i], CXs'[n][i], m)
    BY <1>1, DemonioCRHace
  <2>2. buffers_libres' = [buffers_libres EXCEPT ![n] = LibresCon(n, n)]
        /\ heap' = HeapCon(n)
    BY <1>1 DEF DemonioCR, RecibeYContesta
  <2> QED
    BY <2>1, <2>2, ContestaConserva DEF Atiende, Acepta
<1>2. CASE DemonioCRSinTsap(n)
  <2>1. /\ buffers_libres' = [buffers_libres EXCEPT ![n] = LibresCon(n, n)]
        /\ heap' = HeapCon(n) /\ UNCHANGED CXs
    BY <1>2 DEF DemonioCRSinTsap, RecibeYContesta, tabla
  <2>2. SoloCelda(n, 0) /\ CXs'[n][0].TX = CXs[n][0].TX
    BY <2>1 DEF SoloCelda
  <2> QED
    BY <2>1, <2>2, CeroEsCelda, ContestaConserva
<1> QED
  BY <1>1, <1>2

LEMMA ListenConserva ==
  ASSUME TypeOK, TypeOK', RotasSiguen, BuffersConservados, NEW a \in Apps, ListenReserva(a)
  PROVE  BuffersConservados'
<1> DEFINE n == NodoDe[a]
           i == buscar_celda_libre(CXs[n])
           c == CeldaListen(CXs[n][i], a)
<1>1. n \in Nodos /\ i \in Celdas
  BY TiposDeProceso, CeldaLibreEsCelda
<1>2. CXs' = [CXs EXCEPT ![n][i] = c] /\ UNCHANGED <<buffers_libres, heap>>
  BY DEF ListenReserva, listas
<1>3. c.TX = CXs[n][i].TX
  <2>1. CXs[n][i] \in Conexion
    BY <1>1 DEF TypeOK
  <2> HIDE DEF n, i
  <2> QED
    BY <2>1 DEF CeldaListen, Conexion
<1> HIDE DEF n, i, c
<1>4. SoloCelda(n, i) /\ CXs'[n][i] = c
  BY <1>1, <1>2, UnaSola
<1> QED
  BY <1>1, <1>2, <1>3, <1>4, ConservaQuieta

\* A CC moves the last buffer of the cell to the free list, or breaks the lists.
LEMMA DemonioCCConserva ==
  ASSUME TypeOK, TypeOK', RotasSiguen, BuffersConservados, NEW n \in Nodos, DemonioCC(n)
  PROVE  BuffersConservados'
<1>1. PICK m \in DOMAIN red :
        LET t == m.tpdu
            i == t.id_destino
            c == CXs[n][i]
            rota == RotaAlConfirmar(n, c)
        IN  /\ IF t.conexion_aceptada < 0
               THEN /\ CXs' = [CXs EXCEPT ![n][i] = CeldaRechazada(@, t)]
                    /\ UNCHANGED <<buffers_libres, rotas>>
               ELSE /\ CXs' = [CXs EXCEPT ![n][i] = CeldaConfirmada(@, t, rota)]
                    /\ buffers_libres' =
                         [buffers_libres EXCEPT ![n] = Operada(rota, @ \o UltimoDe(c.TX))]
                    /\ rotas' = [rotas EXCEPT ![n] = rota]
            /\ UNCHANGED heap
  BY DEF DemonioCC
<1> DEFINE i == m.tpdu.id_destino
           tx == CXs[n][i].TX
           rota == RotaAlConfirmar(n, CXs[n][i])
           d == CeldaConfirmada(CXs[n][i], m.tpdu, rota)
<1>2. i \in Celdas
  BY DEF TypeOK, BolsaOK, TpduOK, Tpdu
<1>3. CXs[n][i] \in Conexion /\ tx \in Lista
  BY <1>2 DEF TypeOK, Conexion
<1>4. CASE m.tpdu.conexion_aceptada < 0
  <2>1. /\ CXs' = [CXs EXCEPT ![n][i] = CeldaRechazada(CXs[n][i], m.tpdu)]
        /\ UNCHANGED <<buffers_libres, heap>>
    BY <1>1, <1>4
  <2>2. CeldaRechazada(CXs[n][i], m.tpdu).TX = CXs[n][i].TX
    BY <1>3 DEF CeldaRechazada, Conexion
  <2> HIDE DEF i
  <2>3. SoloCelda(n, i) /\ CXs'[n][i] = CeldaRechazada(CXs[n][i], m.tpdu)
    BY <1>2, <2>1, UnaSola
  <2> QED
    BY <1>2, <2>1, <2>2, <2>3, ConservaQuieta
<1>5. CASE ~ (m.tpdu.conexion_aceptada < 0)
  <2>1. /\ CXs' = [CXs EXCEPT ![n][i] = d]
        /\ buffers_libres' =
             [buffers_libres EXCEPT ![n] = Operada(rota, @ \o UltimoDe(tx))]
        /\ rotas' = [rotas EXCEPT ![n] = rota]
        /\ UNCHANGED heap
    BY <1>1, <1>5
  <2>2. rota \/ (tx # <<>> /\ d.TX = SinUltimo(tx))
    BY <1>3 DEF CeldaConfirmada, Conexion, Operada, RotaAlConfirmar
  <2> HIDE DEF i, tx, rota, d
  <2>3. SoloCelda(n, i) /\ CXs'[n][i] = d
    BY <1>2, <2>1, UnaSola
  <2>4. /\ rotas'[n] = rota
        /\ \A k \in Nodos \ {n} : buffers_libres'[k] = buffers_libres[k]
    BY <2>1 DEF TypeOK
  <2>5. CASE rota
    BY <1>2, <2>1, <2>3, <2>4, <2>5, Conserva
  <2>6. CASE ~ rota
    <3>0. tx # <<>> /\ d.TX = SinUltimo(tx)
      BY <2>2, <2>6
    <3>1. Len(tx) \in Nat /\ Len(tx) >= 1
      BY <1>3, <3>0, LenProperties, EmptySeq DEF Lista
    <3>2. Len(SinUltimo(tx)) = Len(tx) - 1
      <4> DEFINE k == Len(tx) - 1
                 S == Procs \cup {Nadie}
      <4>1. tx \in Seq(S)
        BY <1>3 DEF Lista
      <4> HIDE DEF S
      <4>2. k \in Nat /\ \A j \in 1 .. k : j \in 1 .. Len(tx)
        BY <3>1
      <4>3. \A j \in 1 .. k : tx[j] \in S
        BY <4>1, <4>2, ElementOfSeq
      <4> HIDE DEF k
      <4>4. Len(SubSeq(tx, 1, k)) = IF 1 <= k THEN k - 1 + 1 ELSE 0
        BY <4>2, <4>3, SubSeqProperties
      <4>5. Len(SubSeq(tx, 1, k)) = k
        BY <4>2, <4>4
      <4> QED
        BY <4>5 DEF SinUltimo, k
    <3>3. Len(UltimoDe(tx)) = 1 /\ UltimoDe(tx) \in Lista
      BY <1>3, <3>0, ColaDeTX DEF UltimoDe
    <3>4. buffers_libres[n] \in Lista /\ buffers_libres'[n] = buffers_libres[n] \o UltimoDe(tx)
      BY <2>1, <2>6 DEF TypeOK, Operada
    <3>5. Len(buffers_libres'[n]) = Len(buffers_libres[n]) + 1 /\ Len(buffers_libres[n]) \in Nat
      <4> DEFINE l == buffers_libres[n]
                 u == UltimoDe(tx)
                 S == Procs \cup {Nadie}
      <4>1. l \in Seq(S) /\ u \in Seq(S) /\ Len(u) = 1 /\ buffers_libres'[n] = l \o u
        BY <3>3, <3>4 DEF Lista
      <4> HIDE DEF l, u, S
      <4>2. Len(l \o u) = Len(l) + Len(u) /\ Len(l) \in Nat
        BY <4>1, ConcatProperties, LenProperties
      <4> QED
        BY <4>1, <4>2 DEF l
    <3>6. heap'[n] - heap[n]
            = (Len(buffers_libres'[n]) - Len(buffers_libres[n]))
                + (Len(CXs'[n][i].TX) - Len(CXs[n][i].TX))
      <4> DEFINE b == Len(buffers_libres[n])
                 bb == Len(buffers_libres'[n])
                 x == Len(CXs[n][i].TX)
                 xx == Len(CXs'[n][i].TX)
                 h == heap[n]
      <4>1. bb = b + 1 /\ xx = x - 1 /\ b \in Nat /\ x \in Nat
        BY <2>3, <3>0, <3>1, <3>2, <3>5 DEF tx
      <4>2. h \in Nat /\ heap'[n] = h
        BY <2>1 DEF TypeOK
      <4> HIDE DEF b, bb, x, xx, h
      <4>3. h - h = (bb - b) + (xx - x)
        BY <4>1, <4>2
      <4> QED
        BY <4>2, <4>3 DEF b, bb, x, xx, h
    <3> QED
      BY <1>2, <2>1, <2>3, <2>4, <3>6, Conserva
  <2> QED
    BY <2>5, <2>6
<1> QED
  BY <1>4, <1>5

LEMMA SumaVacia ==
  ASSUME NEW cxs, \A i \in Celdas : cxs[i].TX = <<>>
  PROVE  EnTX(cxs) = 0
<1> DEFINE g == SumaTX(cxs)
           T == {s \in SUBSET Celdas : g[s] = 0}
<1>1. {} \in T
  BY SumaCumple
<1>2. ASSUME NEW s \in SUBSET Celdas, s # {}, s \ {Uno(s)} \in T PROVE s \in T
  <2>1. Len(cxs[Uno(s)].TX) = 0
    <3>1. cxs[Uno(s)].TX = <<>>
      BY <1>2, UnoDe
    <3> QED
      BY <3>1
  <2>2. g[s] = Len(cxs[Uno(s)].TX) + g[s \ {Uno(s)}]
    BY <1>2, SumaCumple
  <2> QED
    BY <1>2, <2>1, <2>2
<1>3. SUBSET Celdas \subseteq T
  <2> HIDE DEF T
  <2> QED
    BY <1>1, <1>2, InduccionCeldas
<1> QED
  BY <1>3 DEF EnTX

LEMMA BuffersPaso ==
  ASSUME TiposInv, BuffersConservados, [Next]_vars
  PROVE  BuffersConservados'
<1>0. TypeOK /\ TypeOK' /\ RotasSiguen
  BY TiposInvPaso, RotasCrecen DEF TiposInv, RotasSiguen
<1>1. ASSUME NEW a \in Apps, Llama(a) \/ PasoApp(a) PROVE BuffersConservados'
  <2>1. CASE Llama(a)
    <3>1. UNCHANGED <<CXs, buffers_libres, heap>>
      BY <2>1
      DEF Llama, IniciaConnect, IniciaListen, IniciaSend, SendFuera, SendFueraMuere,
          MuereConSemaforo, LlamadaInvalida, tabla, listas
    <3> QED
      BY <1>0, <3>1, ConservaIgual
  <2>2. CASE PasoApp(a) /\ ~ ConnectReserva(a) /\ ~ ListenReserva(a) /\ ~ SendTrozo(a)
    <3>1. UNCHANGED <<CXs, buffers_libres, heap>>
      BY <2>2
      DEF PasoApp, ConnectRechaza, ConnectMuere, ConnectLee, ListenRechaza, ListenLee,
          SendRechaza, SendEntra, SendMuere, SendDuerme, SendReanuda, SendTermina,
          LlegaBarrera, MuereConSemaforo, tabla, listas
    <3> QED
      BY <1>0, <3>1, ConservaIgual
  <2> QED
    BY <1>0, <1>1, <2>1, <2>2, ConnectConserva, ListenConserva, SendConserva
<1>2. ASSUME NEW n \in Nodos, PasoDemonio(n) PROVE BuffersConservados'
  <2>1. CASE DemonioMuere(n) \/ DemonioOtro(n) \/ LlegaBarrera(n)
    <3>1. UNCHANGED <<CXs, buffers_libres, heap>>
      BY <2>1
      DEF DemonioMuere, DemonioOtro, LlegaBarrera, MuereConSemaforo, tabla, listas
    <3> QED
      BY <1>0, <3>1, ConservaIgual
  <2> QED
    BY <1>0, <1>2, <2>1, DemonioCCConserva, DemonioCRConserva DEF PasoDemonio
<1>3. CASE RedDuplica \/ (\E p \in Procs : Matan(p)) \/ UNCHANGED vars
  <2>1. UNCHANGED <<CXs, buffers_libres, heap>>
    BY <1>3 DEF RedDuplica, Matan, vars, tabla, listas
  <2> QED
    BY <1>0, <2>1, ConservaIgual
<1> QED
  BY <1>1, <1>2, <1>3 DEF Next

\* Every buf_pkt node created is in buffers_libres or in the TX of one cell,
\* for any number of cells and buffers, until a list operation of its node meets an
\* empty list: the two splices, from the free list to a TX (t_connect, t_send) and
\* back (an arriving CC), lose and double none, nor does the daemon, that leaves the
\* buffer of its CC where it was.
THEOREM BuffersSeguros == Spec => []BuffersConservados
<1> DEFINE Inv == TiposInv /\ BuffersConservados
<1>1. Init => Inv
  <2> SUFFICES ASSUME Init PROVE BuffersConservados
    BY TiposInicio
  <2>1. TypeOK
    BY IniTipos
  <2> SUFFICES ASSUME NEW n \in Nodos
               PROVE  heap[n] = Len(buffers_libres[n]) + EnTX(CXs[n])
    BY CuentaEnTX
  <2>2. heap[n] = 0 /\ buffers_libres[n] = <<>> /\ \A i \in Celdas : CXs[n][i].TX = <<>>
    BY DEF Init, CeldaInicial
  <2>3. EnTX(CXs[n]) = 0
    BY <2>1, <2>2, SumaVacia DEF TypeOK
  <2> QED
    BY <2>2, <2>3
<1>2. Inv /\ [Next]_vars => Inv'
  BY TiposInvPaso, BuffersPaso
<1>3. Inv => BuffersConservados
  OBVIOUS
<1> QED
  BY <1>1, <1>2, <1>3, PTL DEF Spec

-----------------------------------------------------------------------------
(* What breaks the lists.  The TX of a cell that waits for its CC holds the   *)
(* CR.  Until IP duplicates a datagram, every request has at most one in      *)
(* transit, CR or CC, so its CC finds the cell waiting; and t_connect finds a *)
(* free index because the list has one for each free cell.                  *)

\* The request that a CR makes and a CC answers, by its cell.
PideEn(m) == IF m.tpdu.tipo = CR THEN m.de ELSE m.a
PideCelda(m) == IF m.tpdu.tipo = CR THEN m.tpdu.id_local ELSE m.tpdu.id_destino
MismaPeticion(k, m) == PideEn(k) = PideEn(m) /\ PideCelda(k) = PideCelda(m)
EnCurso == {m \in DOMAIN red : m.tpdu.tipo \in {CR, CC}}

\* It is the only datagram of its request, and the request waits for it.
Unica(m) ==
  /\ red[m] = 1
  /\ CXs[PideEn(m)][PideCelda(m)].estado_cx = CONNECT
  /\ \A k \in EnCurso : MismaPeticion(k, m) => k = m
UnaPorPeticion == \A m \in EnCurso : Unica(m)

\* The TX of a cell that waits for its CC holds the CR.
TXDePeticion ==
  \A n \in Nodos, i \in Celdas : CXs[n][i].estado_cx = CONNECT => CXs[n][i].TX # <<>>

\* There is a free index for each free cell.
LibresBastan ==
  \A n \in Nodos : NUM_MAX_CXs <= CXs_libres[n] + Cardinality(Ocupadas(CXs[n]))

ListasInv ==
  /\ TablaInv /\ TXDePeticion /\ LibresBastan /\ RotaPorCopia
  /\ copias = 0 => UnaPorPeticion

\* A step that writes one cell.
LEMMA UnaTX ==
  ASSUME TypeOK, TXDePeticion, NEW n \in Nodos, NEW i \in Celdas, NEW c,
         CXs' = [CXs EXCEPT ![n][i] = c], c.estado_cx = CONNECT => c.TX # <<>>
  PROVE  TXDePeticion'
<1>1. SoloCelda(n, i) /\ CXs'[n][i] = c
  BY UnaSola
<1> SUFFICES ASSUME NEW k \in Nodos, NEW j \in Celdas, CXs'[k][j].estado_cx = CONNECT
             PROVE  CXs'[k][j].TX # <<>>
  BY DEF TXDePeticion
<1>2. CASE k = n /\ j = i
  BY <1>1, <1>2
<1>3. CASE k # n \/ j # i
  BY <1>1, <1>3 DEF SoloCelda, TXDePeticion
<1> QED
  BY <1>2, <1>3

LEMMA MeteAlgo ==
  ASSUME buffers_libres \in [Nodos -> Lista], NEW n \in Nodos, NEW p \in Procs,
         NEW tx \in Lista, NEW rota
  PROVE  MeteEnTX(tx, n, p, rota) # <<>>
<1> DEFINE x == Head(LibresCon(n, p))
<1>1. Append(tx, x) # <<>>
  <2>1. x \in Procs \cup {Nadie} /\ tx \in Seq(Procs \cup {Nadie})
    BY ListaDeLibres DEF Lista
  <2> HIDE DEF x
  <2> QED
    BY <2>1, AppendProperties
<1>2. ListaRota # <<>>
  BY DEF ListaRota
<1> QED
  BY <1>1, <1>2 DEF MeteEnTX, Operada

\* Whatever is lost, duplicated or refused, no step leaves a request without its CR.
LEMMA TXDePeticionPaso ==
  ASSUME TypeOK, TXDePeticion, [Next]_vars
  PROVE  TXDePeticion'
<1>1. CASE UNCHANGED CXs
  BY <1>1 DEF TXDePeticion
<1>2. ASSUME NEW a \in Apps, ConnectReserva(a) PROVE TXDePeticion'
  <2> DEFINE n == NodoDe[a]
             i == buscar_celda_libre(CXs[n])
             tx == MeteEnTX(CXs[n][i].TX, n, a, RotaAlQuitar(n))
             c == CeldaConnect(CXs[n][i], a, tx)
  <2>1. n \in Nodos /\ a \in Procs
    BY TiposDeProceso
  <2>2. i \in Celdas
    BY <2>1, CeldaLibreEsCelda
  <2>3. CXs' = [CXs EXCEPT ![n][i] = c]
    BY <1>2 DEF ConnectReserva
  <2>4. CXs[n][i] \in Conexion /\ CXs[n][i].TX \in Lista
    BY <2>1, <2>2 DEF TypeOK, Conexion
  <2>5. tx # <<>>
    BY <2>1, <2>4, MeteAlgo DEF TypeOK
  <2> HIDE DEF n, i, tx
  <2>6. c.TX = tx
    BY <2>4 DEF CeldaConnect, Conexion
  <2> HIDE DEF c
  <2> QED
    BY <2>1, <2>2, <2>3, <2>5, <2>6, UnaTX
<1>3. ASSUME NEW a \in Apps, ListenReserva(a) PROVE TXDePeticion'
  <2> DEFINE n == NodoDe[a]
             i == buscar_celda_libre(CXs[n])
             c == CeldaListen(CXs[n][i], a)
  <2>1. n \in Nodos
    BY TiposDeProceso
  <2>2. i \in Celdas
    BY <2>1, CeldaLibreEsCelda
  <2>3. CXs' = [CXs EXCEPT ![n][i] = c] /\ CXs[n][i] \in Conexion
    BY <1>3, <2>1, <2>2 DEF ListenReserva, TypeOK
  <2> HIDE DEF n, i
  <2>4. c.estado_cx = LISTEN
    BY <2>3 DEF CeldaListen, Conexion
  <2> HIDE DEF c
  <2> QED
    BY <2>1, <2>2, <2>3, <2>4, UnaTX, Estados
<1>4. ASSUME NEW a \in Apps, SendTrozo(a) PROVE TXDePeticion'
  <2> DEFINE n == NodoDe[a]
             i == celda[a]
             tx == MeteEnTX(CXs[n][i].TX, n, a, rotas[n])
             c == [CXs[n][i] EXCEPT !.TX = tx]
  <2>1. n \in Nodos /\ i \in Celdas /\ a \in Procs
    BY TiposDeProceso DEF TypeOK
  <2>2. CXs[n][i] \in Conexion /\ CXs[n][i].TX \in Lista
    BY <2>1 DEF TypeOK, Conexion
  <2>3. CXs' = [CXs EXCEPT ![n][i] = c]
    BY <1>4 DEF SendTrozo
  <2>4. tx # <<>>
    BY <2>1, <2>2, MeteAlgo DEF TypeOK
  <2> HIDE DEF n, i, tx
  <2>5. c.TX = tx
    BY <2>2 DEF Conexion
  <2> HIDE DEF c
  <2> QED
    BY <2>1, <2>3, <2>4, <2>5, UnaTX
<1>5. ASSUME NEW n \in Nodos, DemonioCC(n) PROVE TXDePeticion'
  <2>1. PICK m \in DOMAIN red :
          LET t == m.tpdu
              i == t.id_destino
              rota == RotaAlConfirmar(n, CXs[n][i])
          IN  \/ CXs' = [CXs EXCEPT ![n][i] = CeldaRechazada(@, t)]
              \/ CXs' = [CXs EXCEPT ![n][i] = CeldaConfirmada(@, t, rota)]
    BY <1>5 DEF DemonioCC
  <2> DEFINE t == m.tpdu
             i == t.id_destino
             rota == RotaAlConfirmar(n, CXs[n][i])
  <2>2. i \in Celdas
    BY DEF TypeOK, BolsaOK, TpduOK, Tpdu
  <2>3. CXs[n][i] \in Conexion
    BY <2>2 DEF TypeOK
  <2>4. PICK c : CXs' = [CXs EXCEPT ![n][i] = c] /\ c.estado_cx # CONNECT
    <3>1. /\ CeldaRechazada(CXs[n][i], t).estado_cx = CLOSED
          /\ CeldaConfirmada(CXs[n][i], t, rota).estado_cx = ESTABLISHED
      BY <2>3 DEF CeldaRechazada, CeldaConfirmada, Conexion
    <3> QED
      BY <2>1, <3>1, Estados
  <2> HIDE DEF i
  <2> QED
    BY <2>2, <2>4, UnaTX
<1>6. ASSUME NEW n \in Nodos, DemonioCR(n) PROVE TXDePeticion'
  <2>1. PICK m \in DOMAIN red, i \in Celdas :
          Atiende(n, i) /\ Acepta(CXs[n][i], CXs'[n][i], m)
    BY <1>6, DemonioCRHace
  <2> QED
    BY <2>1, Estados DEF Atiende, SoloCelda, Acepta, TXDePeticion
<1>7. ASSUME NEW a \in Apps, Llama(a) PROVE TXDePeticion'
  BY <1>1, <1>7 DEF Llama, IniciaConnect, IniciaListen, IniciaSend, SendFuera,
                    SendFueraMuere, MuereConSemaforo, LlamadaInvalida, tabla
<1>8. ASSUME NEW a \in Apps, PasoApp(a) PROVE TXDePeticion'
  BY <1>1, <1>2, <1>3, <1>4, <1>8
  DEF PasoApp, ConnectRechaza, ConnectMuere, ConnectLee, ListenRechaza, ListenLee,
      SendRechaza, SendEntra, SendMuere, SendDuerme, SendReanuda, SendTermina,
      LlegaBarrera, MuereConSemaforo, tabla
<1>9. ASSUME NEW n \in Nodos, PasoDemonio(n) PROVE TXDePeticion'
  BY <1>1, <1>5, <1>6, <1>9 DEF PasoDemonio, DemonioCRSinTsap, DemonioMuere, DemonioOtro,
                                LlegaBarrera, MuereConSemaforo, tabla
<1>10. CASE RedDuplica \/ (\E p \in Procs : Matan(p)) \/ UNCHANGED vars
  BY <1>1, <1>10 DEF RedDuplica, Matan, vars, tabla
<1> QED
  BY <1>7, <1>8, <1>9, <1>10 DEF Next

\* Datagrams that IP has duplicated are never fewer, and only it duplicates.
LEMMA CopiasCrecen ==
  ASSUME TypeOK, [Next]_vars
  PROVE  copias' = copias \/ (RedDuplica /\ copias' > 0)
<1>1. CASE RedDuplica
  BY <1>1 DEF RedDuplica, TypeOK
<1>2. ASSUME NEW a \in Apps, Llama(a) PROVE copias' = copias
  BY <1>2 DEF Llama, IniciaConnect, IniciaListen, IniciaSend, SendFuera, SendFueraMuere,
              MuereConSemaforo, LlamadaInvalida, resultados
<1>3. ASSUME NEW a \in Apps, PasoApp(a) PROVE copias' = copias
  BY <1>3
  DEF PasoApp, ConnectRechaza, ConnectReserva, ConnectMuere, ConnectLee, ListenRechaza,
      ListenReserva, ListenLee, SendRechaza, SendEntra, SendTrozo, SendMuere, SendDuerme,
      SendReanuda, SendTermina, LlegaBarrera, MuereConSemaforo, resultados
<1>4. ASSUME NEW n \in Nodos, PasoDemonio(n) PROVE copias' = copias
  BY <1>4 DEF PasoDemonio, DemonioCC, DemonioCR, DemonioCRSinTsap, DemonioMuere,
              DemonioOtro, LlegaBarrera, MuereConSemaforo, resultados
<1>5. CASE (\E p \in Procs : Matan(p)) \/ UNCHANGED vars
  BY <1>5 DEF Matan, vars, resultados
<1> QED
  BY <1>1, <1>2, <1>3, <1>4, <1>5 DEF Next

\* How often a datagram is in the bag.
LEMMA EnviaCuenta ==
  ASSUME NEW bolsa, BolsaOK(bolsa), NEW n, NEW ip, NEW t, NEW s, Envia(bolsa, n, ip, t, s)
  PROVE  \A m \in DOMAIN red' :
           \/ m \in DOMAIN bolsa /\ red'[m] = bolsa[m]
           \/ /\ m = [de |-> n, a |-> A(n, ip), tpdu |-> t]
              /\ m \notin DOMAIN bolsa => red'[m] = 1
           \/ Inerte(m)
<1> DEFINE x == [de |-> n, a |-> A(n, ip), tpdu |-> IF s = "basura" THEN TpduBasura ELSE t]
<1>1. red' = ConPaquete(bolsa, x) \/ red' = bolsa
  BY DEF Envia, A
<1>2. x = [de |-> n, a |-> A(n, ip), tpdu |-> t] \/ Inerte(x)
  BY BasuraInerte
<1>3. \A m \in DOMAIN bolsa : bolsa[m] \in Nat
  BY DEF BolsaOK
<1> HIDE DEF x
<1>4. \A m \in DOMAIN ConPaquete(bolsa, x) :
        /\ m # x => m \in DOMAIN bolsa /\ ConPaquete(bolsa, x)[m] = bolsa[m]
        /\ m = x /\ m \notin DOMAIN bolsa => ConPaquete(bolsa, x)[m] = 1
  BY <1>3 DEF ConPaquete, (+), SetToBag
<1> QED
  BY <1>1, <1>2, <1>4

LEMMA QuitaCuenta ==
  ASSUME NEW bolsa, BolsaOK(bolsa), NEW m, m \in DOMAIN bolsa
  PROVE  /\ \A x \in DOMAIN SinPaquete(bolsa, m) :
              x \in DOMAIN bolsa /\ (x # m => SinPaquete(bolsa, m)[x] = bolsa[x])
         /\ bolsa[m] = 1 => m \notin DOMAIN SinPaquete(bolsa, m)
BY DEF BolsaOK, SinPaquete, (-), SetToBag

\* No CR nor CC is new, and none that was alone is so no more.
SinCopias ==
  \A x \in DOMAIN red' :
    Inerte(x) \/ (x \in DOMAIN red /\ (red[x] = 1 => red'[x] = 1))

LEMMA QuitaSinCopias ==
  ASSUME TypeOK, NEW m \in DOMAIN red, red' = SinPaquete(red, m)
  PROVE  SinCopias
BY QuitaCuenta DEF TypeOK, SinCopias

\* Only four steps write a cell other than its buffers, send a CR or a CC, or
\* work on the lists of free indices and on the end of a TX.
LEMMA PasosDeLista ==
  ASSUME RechazoMata, TablaInv, [Next]_vars
  PROVE  \/ SoloBuffers /\ (SinCopias \/ copias' > 0) /\ UNCHANGED <<rotas, CXs_libres>>
         \/ \E a \in Apps : ConnectReserva(a) \/ ListenReserva(a)
         \/ \E n \in Nodos : DemonioCC(n) \/ DemonioCR(n)
<1> DEFINE P == SoloBuffers /\ (SinCopias \/ copias' > 0)
                /\ UNCHANGED <<rotas, CXs_libres>>
<1>0. TypeOK /\ TiposInv /\ EnviosVivos /\ BolsaOK(red)
  BY DEF TablaInv, CuentaInv, TiposInv, TypeOK
<1>1. UNCHANGED <<CXs, red, rotas, CXs_libres>> => P
  BY MismasCeldas DEF SinCopias
<1>2. ASSUME NEW a \in Apps, Llama(a) PROVE P
  <2>1. UNCHANGED <<CXs, red, rotas, CXs_libres>>
    BY <1>2
    DEF Llama, IniciaConnect, IniciaListen, IniciaSend, SendFuera, SendFueraMuere,
        MuereConSemaforo, LlamadaInvalida, tabla, listas
  <2> QED
    BY <1>1, <2>1
<1>3. ASSUME NEW a \in Apps, PasoApp(a), ~ ConnectReserva(a), ~ ListenReserva(a)
      PROVE  P
  <2>1. CASE SendTrozo(a)
    <3>1. SoloBuffers /\ UNCHANGED <<rotas, CXs_libres>>
      BY <1>0, <2>1, SendTrozoQuieto DEF SendTrozo
    <3> DEFINE n == NodoDe[a]
               i == celda[a]
               t == TpduDatos(marco[a], CXs[n][i], i)
    <3>2. PICK s : Envia(red, n, marco[a].dest.ip, t, s)
      BY <2>1 DEF SendTrozo
    <3>3. \A x : Inerte([de |-> n, a |-> x, tpdu |-> t])
      BY DEF Inerte, TpduDatos, crear_pkt, DATOS, CR, CC, EXOK, EXNOTSAP
    <3> HIDE DEF n, t
    <3>4. SinCopias
      BY <1>0, <3>2, <3>3, EnviaCuenta DEF SinCopias
    <3> QED
      BY <3>1, <3>4
  <2>2. CASE UNCHANGED <<CXs, red, rotas, CXs_libres>>
    BY <1>1, <2>2
  <2> QED
    BY <1>3, <2>1, <2>2
    DEF PasoApp, ConnectRechaza, ConnectMuere, ConnectLee, ListenRechaza, ListenLee,
        SendRechaza, SendEntra, SendMuere, SendDuerme, SendReanuda, SendTermina,
        LlegaBarrera, MuereConSemaforo, tabla, listas
<1>4. ASSUME NEW n \in Nodos, PasoDemonio(n), ~ DemonioCC(n), ~ DemonioCR(n) PROVE P
  <2>1. DemonioMuere(n) \/ DemonioOtro(n) \/ LlegaBarrera(n)
    BY <1>4 DEF PasoDemonio, DemonioCRSinTsap, RechazoMata
  <2>2. UNCHANGED <<CXs, rotas, CXs_libres>>
    BY <2>1 DEF DemonioMuere, DemonioOtro, LlegaBarrera, MuereConSemaforo, tabla, listas
  <2>3. red' = red \/ \E m \in DOMAIN red : red' = SinPaquete(red, m)
    BY <2>1 DEF DemonioMuere, DemonioOtro, LlegaBarrera, Recibe
  <2>4. SinCopias
    BY <1>0, <2>3, QuitaSinCopias DEF SinCopias
  <2> QED
    BY <2>2, <2>4, MismasCeldas
<1>5. CASE RedDuplica
  BY <1>0, <1>5, MismasCeldas DEF RedDuplica, TypeOK, tabla, listas
<1>6. CASE (\E p \in Procs : Matan(p)) \/ UNCHANGED vars
  BY <1>1, <1>6 DEF Matan, vars, tabla, listas
<1> QED
  BY <1>2, <1>3, <1>4, <1>5, <1>6 DEF Next

LEMMA PideTipo ==
  ASSUME TypeOK, NEW m \in EnCurso
  PROVE  /\ m \in DOMAIN red /\ PideEn(m) \in Nodos /\ PideCelda(m) \in Celdas
         /\ m.tpdu.tipo \in {CR, CC}
BY PaqueteTipo DEF EnCurso, PideEn, PideCelda

LEMMA InerteNoCuenta == \A x : Inerte(x) => x \notin EnCurso'
BY DEF Inerte, EnCurso

\* A request keeps its datagram if none comes in and its cell still waits.
LEMMA UnicaSigue ==
  ASSUME NEW x \in EnCurso, Unica(x), x \in DOMAIN red', red'[x] = 1,
         CXs'[PideEn(x)][PideCelda(x)].estado_cx = CONNECT,
         \A k \in EnCurso' : MismaPeticion(k, x) => k \in EnCurso
  PROVE  Unica(x)'
<1>1. \A k \in EnCurso' : MismaPeticion(k, x) => k = x
  BY DEF Unica
<1>2. PideEn(x)' = PideEn(x) /\ PideCelda(x)' = PideCelda(x)
      /\ \A k : MismaPeticion(k, x)' <=> MismaPeticion(k, x)
  BY DEF PideEn, PideCelda, MismaPeticion
<1> QED
  BY <1>1, <1>2 DEF Unica

LEMMA QuietaUna ==
  ASSUME TypeOK, UnaPorPeticion, SoloBuffers, SinCopias
  PROVE  UnaPorPeticion'
<1> SUFFICES ASSUME NEW x \in EnCurso' PROVE Unica(x)'
  BY DEF UnaPorPeticion
<1>1. \A k \in EnCurso' : k \in EnCurso /\ (red[k] = 1 => red'[k] = 1)
  BY InerteNoCuenta DEF SinCopias, EnCurso
<1>2. x \in EnCurso /\ Unica(x) /\ x \in DOMAIN red' /\ red'[x] = 1
  BY <1>1 DEF UnaPorPeticion, Unica, EnCurso
<1>3. CXs'[PideEn(x)][PideCelda(x)].estado_cx = CONNECT
  BY <1>2, PideTipo DEF SoloBuffers, MismaSalvoTX, Unica
<1> QED
  BY <1>1, <1>2, <1>3, UnicaSigue

\* A step that sends one CR or CC, for a request that has no other.
LEMMA UnaNueva ==
  ASSUME UnaPorPeticion, NEW y, CXs'[PideEn(y)][PideCelda(y)].estado_cx = CONNECT,
         \A x \in EnCurso' :
           \/ /\ x \in EnCurso /\ red'[x] = 1 /\ ~ MismaPeticion(x, y)
              /\ CXs'[PideEn(x)][PideCelda(x)].estado_cx = CONNECT
           \/ x = y /\ red'[x] = 1
  PROVE  UnaPorPeticion'
<1> SUFFICES ASSUME NEW x \in EnCurso' PROVE Unica(x)'
  BY DEF UnaPorPeticion
<1>1. CASE x = y
  <2>1. \A k \in EnCurso' : MismaPeticion(k, x) => k = x
    BY <1>1
  <2>2. PideEn(x)' = PideEn(x) /\ PideCelda(x)' = PideCelda(x)
        /\ \A k : MismaPeticion(k, x)' <=> MismaPeticion(k, x)
    BY DEF PideEn, PideCelda, MismaPeticion
  <2>3. red'[x] = 1
    OBVIOUS
  <2> QED
    BY <1>1, <2>1, <2>2, <2>3 DEF Unica
<1>2. CASE x # y
  <2>1. /\ x \in EnCurso /\ red'[x] = 1 /\ ~ MismaPeticion(x, y)
        /\ CXs'[PideEn(x)][PideCelda(x)].estado_cx = CONNECT
    BY <1>2
  <2>2. \A k \in EnCurso' : MismaPeticion(k, x) => k \in EnCurso
    BY <2>1 DEF MismaPeticion
  <2>3. Unica(x) /\ x \in DOMAIN red'
    BY <2>1 DEF UnaPorPeticion, EnCurso
  <2> QED
    BY <2>1, <2>2, <2>3, UnicaSigue
<1> QED
  BY <1>1, <1>2

LEMMA ConnectRed ==
  ASSUME TypeOK, NEW a \in Apps, NEW i \in Celdas, ConnectReserva(a), Reserva(a, i)
  PROVE  \E y : /\ y.tpdu.tipo = CR /\ y.de = NodoDe[a] /\ y.tpdu.id_local = i
                /\ \A x \in DOMAIN red' :
                     \/ x \in DOMAIN red /\ red'[x] = red[x]
                     \/ x = y /\ (x \notin DOMAIN red => red'[x] = 1)
                     \/ Inerte(x)
<1> DEFINE n == NodoDe[a]
           o == marco[a].orig
           d == marco[a].dest
           t == crear_pkt(CR, d, o, i, 0, EXOK)
           y == [de |-> n, a |-> A(n, d.ip), tpdu |-> t]
<1>1. i = buscar_celda_libre(CXs[n])
  <2>1. celda' = [celda EXCEPT ![a] = buscar_celda_libre(CXs[n])]
        /\ celda' = [celda EXCEPT ![a] = i]
    BY DEF ConnectReserva, Reserva
  <2> QED
    BY <2>1, TiposDeProceso DEF TypeOK
<1>2. PICK s : Envia(red, n, d.ip, t, s)
  BY <1>1 DEF ConnectReserva
<1>3. t.tipo = CR /\ t.id_local = i
  BY DEF crear_pkt
<1> HIDE DEF t
<1>4. y.tpdu.tipo = CR /\ y.de = n /\ y.tpdu.id_local = i
  BY <1>3
<1>5. \A x \in DOMAIN red' :
        \/ x \in DOMAIN red /\ red'[x] = red[x]
        \/ x = y /\ (x \notin DOMAIN red => red'[x] = 1)
        \/ Inerte(x)
  BY <1>2, EnviaCuenta DEF TypeOK
<1> HIDE DEF y
<1> QED
  BY <1>4, <1>5

\* The cell that t_connect takes had asked for nothing.
LEMMA ConnectUna ==
  ASSUME TablaInv, UnaPorPeticion, NEW a \in Apps, ConnectReserva(a)
  PROVE  UnaPorPeticion'
<1>0. TypeOK /\ NodoDe[a] \in Nodos
  BY TiposDeProceso DEF TablaInv, CuentaInv, TiposInv
<1>1. PICK i \in Celdas : Reserva(a, i) /\ CXs'[NodoDe[a]][i].estado_cx = CONNECT
  BY ConnectHace DEF TablaInv
<1>2. CXs[NodoDe[a]][i].estado_cx # CONNECT
  BY <1>0, <1>1, Estados DEF Reserva, TablaInv, LibreVacia, CeldaInicial
<1>3. PICK y : /\ y.tpdu.tipo = CR /\ y.de = NodoDe[a] /\ y.tpdu.id_local = i
               /\ \A x \in DOMAIN red' :
                    \/ x \in DOMAIN red /\ red'[x] = red[x]
                    \/ x = y /\ (x \notin DOMAIN red => red'[x] = 1)
                    \/ Inerte(x)
  BY <1>0, <1>1, ConnectRed
<1>4. PideEn(y) = NodoDe[a] /\ PideCelda(y) = i
  BY <1>3 DEF PideEn, PideCelda
<1>5. \A k \in EnCurso : ~ MismaPeticion(k, y)
  BY <1>2, <1>4 DEF UnaPorPeticion, Unica, MismaPeticion
<1>6. y \notin DOMAIN red
  BY <1>3, <1>5 DEF EnCurso, MismaPeticion
<1>7. ASSUME NEW x \in EnCurso'
      PROVE  \/ /\ x \in EnCurso /\ red'[x] = 1 /\ ~ MismaPeticion(x, y)
                /\ CXs'[PideEn(x)][PideCelda(x)].estado_cx = CONNECT
             \/ x = y /\ red'[x] = 1
  <2>1. x \in DOMAIN red' /\ x.tpdu.tipo \in {CR, CC} /\ ~ Inerte(x)
    BY InerteNoCuenta DEF EnCurso
  <2>2. CASE x = y
    BY <1>3, <1>6, <2>1, <2>2
  <2>3. CASE x # y
    <3>1. x \in EnCurso /\ red'[x] = red[x]
      BY <1>3, <2>1, <2>3 DEF EnCurso
    <3>2. Unica(x) /\ ~ MismaPeticion(x, y)
      BY <1>5, <3>1 DEF UnaPorPeticion
    <3>3. CXs'[PideEn(x)][PideCelda(x)] = CXs[PideEn(x)][PideCelda(x)]
      BY <1>0, <1>1, <1>4, <3>1, <3>2, PideTipo DEF Reserva, SoloCelda, MismaPeticion
    <3> QED
      BY <3>1, <3>2, <3>3 DEF Unica
  <2> QED
    BY <2>2, <2>3
<1>8. CXs'[PideEn(y)][PideCelda(y)].estado_cx = CONNECT
  BY <1>1, <1>4
<1> QED
  BY <1>7, <1>8, UnaNueva

\* A CR leaves and the CC that answers it takes its place.
LEMMA DemonioCRUna ==
  ASSUME TablaInv, UnaPorPeticion, NEW n \in Nodos, DemonioCR(n)
  PROVE  UnaPorPeticion'
<1>0. TypeOK /\ BolsaOK(red)
  BY DEF TablaInv, CuentaInv, TiposInv, TypeOK
<1>1. PICK m \in DOMAIN red, i \in Celdas :
        /\ Atiende(n, i) /\ m.tpdu.tipo = CR /\ i \in Candidatas(CXs[n], m.tpdu)
        /\ \E s : Envia(SinPaquete(red, m), n, m.de,
                        TpduCC(m, CXs[n][i].ip_local, i, 1), s)
  BY <1>0, DemonioCRHace
<1>2. m \in EnCurso /\ Unica(m) /\ PideEn(m) = m.de /\ PideCelda(m) = m.tpdu.id_local
  BY <1>1 DEF EnCurso, UnaPorPeticion, PideEn, PideCelda
<1> DEFINE t == TpduCC(m, CXs[n][i].ip_local, i, 1)
           y == [de |-> n, a |-> A(n, m.de), tpdu |-> t]
           B == SinPaquete(red, m)
<1>3. t.tipo = CC /\ t.id_destino = m.tpdu.id_local
  BY DEF TpduCC, crear_pkt
<1>4. A(n, m.de) = m.de
  BY <1>0, PaqueteTipo, SuposicionProcesos DEF A
<1>5. PideEn(y) = PideEn(m) /\ PideCelda(y) = PideCelda(m) /\ y.tpdu.tipo = CC
  <2> HIDE DEF t
  <2>1. y.tpdu.tipo = CC /\ y.a = m.de /\ y.tpdu.id_destino = m.tpdu.id_local
    BY <1>3, <1>4
  <2>2. CC # CR
    BY DEF CC, CR
  <2> HIDE DEF y
  <2> QED
    BY <1>2, <2>1, <2>2 DEF PideEn, PideCelda
<1>6. \A x \in DOMAIN red' :
        \/ x \in DOMAIN B /\ red'[x] = B[x]
        \/ x = y /\ (x \notin DOMAIN B => red'[x] = 1)
        \/ Inerte(x)
  <2>1. PICK s : Envia(B, n, m.de, t, s)
    BY <1>1
  <2>2. BolsaOK(B)
    BY <1>0, QuitaBolsa
  <2> HIDE DEF t, B
  <2> QED
    BY <2>1, <2>2, EnviaCuenta
<1>7. \A x \in DOMAIN B : x \in DOMAIN red /\ x # m /\ B[x] = red[x]
  BY <1>0, <1>2, QuitaCuenta DEF Unica
<1> HIDE DEF t, y, B
<1>8. \A k \in EnCurso : k # m => ~ MismaPeticion(k, y)
  BY <1>2, <1>5 DEF Unica, MismaPeticion
<1>9. y \notin DOMAIN B
  BY <1>5, <1>7, <1>8 DEF EnCurso, MismaPeticion
<1>10. \A x \in EnCurso : CXs'[PideEn(x)][PideCelda(x)].estado_cx = CONNECT
  <2>1. CXs[n][i].estado_cx = LISTEN
    BY <1>1 DEF Candidatas
  <2> QED
    BY <1>0, <1>1, <2>1, PideTipo, Estados DEF Atiende, SoloCelda, UnaPorPeticion, Unica
<1>11. ASSUME NEW x \in EnCurso'
       PROVE  \/ /\ x \in EnCurso /\ red'[x] = 1 /\ ~ MismaPeticion(x, y)
                 /\ CXs'[PideEn(x)][PideCelda(x)].estado_cx = CONNECT
              \/ x = y /\ red'[x] = 1
  <2>1. x \in DOMAIN red' /\ x.tpdu.tipo \in {CR, CC} /\ ~ Inerte(x)
    BY InerteNoCuenta DEF EnCurso
  <2>2. CASE x = y
    BY <1>6, <1>9, <2>1, <2>2
  <2>3. CASE x # y
    <3>1. x \in EnCurso /\ red'[x] = red[x] /\ x # m
      BY <1>6, <1>7, <2>1, <2>3 DEF EnCurso
    <3> QED
      BY <1>8, <1>10, <3>1 DEF UnaPorPeticion, Unica
  <2> QED
    BY <2>2, <2>3
<1>12. CXs'[PideEn(y)][PideCelda(y)].estado_cx = CONNECT
  BY <1>2, <1>5, <1>10
<1> QED
  BY <1>11, <1>12, UnaNueva

\* A CC leaves, and nothing is left of its request.
LEMMA DemonioCCUna ==
  ASSUME TablaInv, UnaPorPeticion, NEW n \in Nodos, DemonioCC(n)
  PROVE  UnaPorPeticion'
<1>0. TypeOK
  BY DEF TablaInv, CuentaInv, TiposInv
<1>1. PICK m \in DOMAIN red :
        /\ Atiende(n, m.tpdu.id_destino) /\ m.tpdu.tipo = CC /\ m.a = n
        /\ red' = SinPaquete(red, m)
  BY <1>0, DemonioCCHace DEF TablaInv
<1>2. m \in EnCurso /\ Unica(m)
  BY <1>1 DEF EnCurso, UnaPorPeticion
<1>3. PideEn(m) = n /\ PideCelda(m) = m.tpdu.id_destino
  BY <1>1 DEF PideEn, PideCelda, CR, CC
<1>4. \A x \in DOMAIN red' : x \in DOMAIN red /\ x # m /\ red'[x] = red[x]
  BY <1>0, <1>1, <1>2, QuitaCuenta DEF TypeOK, Unica
<1> SUFFICES ASSUME NEW x \in EnCurso' PROVE Unica(x)'
  BY DEF UnaPorPeticion
<1>5. \A k \in EnCurso' : k \in EnCurso
  BY <1>4 DEF EnCurso
<1>6. x \in EnCurso /\ x # m /\ Unica(x) /\ red'[x] = 1 /\ x \in DOMAIN red'
  BY <1>4, <1>5 DEF EnCurso, UnaPorPeticion, Unica
<1>7. CXs'[PideEn(x)][PideCelda(x)] = CXs[PideEn(x)][PideCelda(x)]
  BY <1>0, <1>1, <1>2, <1>3, <1>6, PideTipo DEF Atiende, SoloCelda, Unica, MismaPeticion
<1> QED
  BY <1>5, <1>6, <1>7, UnicaSigue DEF Unica

LEMMA UnaPorPeticionPaso ==
  ASSUME RechazoMata, ListasInv, [Next]_vars, copias' = 0
  PROVE  UnaPorPeticion'
<1>0. TypeOK /\ TablaInv /\ UnaPorPeticion
  BY CopiasCrecen DEF ListasInv, TablaInv, CuentaInv, TiposInv
<1>1. ASSUME NEW a \in Apps, ListenReserva(a) PROVE UnaPorPeticion'
  <2>1. PICK i \in Celdas : Reserva(a, i) /\ UNCHANGED red
    BY <1>0, <1>1, ListenHace DEF TablaInv
  <2>2. CXs[NodoDe[a]][i].estado_cx # CONNECT
    BY <1>0, <2>1, TiposDeProceso, Estados DEF Reserva, TablaInv, LibreVacia, CeldaInicial
  <2>3. EnCurso' = EnCurso
    BY <2>1 DEF EnCurso
  <2>4. ASSUME NEW x \in EnCurso PROVE Unica(x)'
    <3>1. Unica(x) /\ red'[x] = 1 /\ x \in DOMAIN red'
      BY <1>0, <2>1, <2>4 DEF UnaPorPeticion, Unica, EnCurso
    <3>2. CXs'[PideEn(x)][PideCelda(x)].estado_cx = CONNECT
      BY <1>0, <2>1, <2>2, <3>1, PideTipo DEF Reserva, SoloCelda, Unica
    <3> QED
      BY <2>3, <3>1, <3>2, UnicaSigue
  <2> QED
    BY <2>3, <2>4 DEF UnaPorPeticion
<1> QED
  BY <1>0, <1>1, PasosDeLista, QuietaUna, ConnectUna, DemonioCRUna, DemonioCCUna

\* The occupied cells of a node.
LEMMA OcupadasFinitas ==
  ASSUME NEW n \in Nodos
  PROVE  /\ IsFiniteSet(Ocupadas(CXs[n])) /\ IsFiniteSet(Ocupadas(CXs'[n]))
         /\ Cardinality(Ocupadas(CXs[n])) \in Nat
         /\ Cardinality(Ocupadas(CXs'[n])) \in Nat
<1>1. IsFiniteSet(Celdas)
  BY SuposicionCotas, FS_Interval DEF Celdas
<1>2. Ocupadas(CXs[n]) \in SUBSET Celdas /\ Ocupadas(CXs'[n]) \in SUBSET Celdas
  BY DEF Ocupadas
<1> QED
  BY <1>1, <1>2, FS_Subset, FS_CardinalityType

\* A free cell has its free index.
LEMMA HayIndice ==
  ASSUME TypeOK, LibresBastan, NEW n \in Nodos, Libres(CXs[n]) # {}
  PROVE  CXs_libres[n] # 0
<1> DEFINE O == Ocupadas(CXs[n])
<1>1. IsFiniteSet(Celdas) /\ Cardinality(Celdas) = NUM_MAX_CXs
  BY SuposicionCotas, FS_Interval DEF Celdas
<1>2. O \in SUBSET Celdas /\ O # Celdas
  BY DEF Ocupadas, Libres
<1>3. Cardinality(O) < NUM_MAX_CXs /\ Cardinality(O) \in Nat
  <2>1. Cardinality(O) <= NUM_MAX_CXs /\ Cardinality(O) # NUM_MAX_CXs
    BY <1>1, <1>2, FS_Subset
  <2>2. Cardinality(O) \in Nat
    BY OcupadasFinitas
  <2> HIDE DEF O
  <2> QED
    BY <2>1, <2>2, SuposicionCotas
<1>4. NUM_MAX_CXs <= CXs_libres[n] + Cardinality(O) /\ CXs_libres[n] \in Nat
  BY DEF LibresBastan, TypeOK
<1> HIDE DEF O
<1> QED
  BY <1>3, <1>4, SuposicionCotas

LEMMA LibresBastanPaso ==
  ASSUME RechazoMata, ListasInv, [Next]_vars
  PROVE  LibresBastan' /\ RotaPorCopia'
<1>0. /\ TypeOK /\ TablaInv /\ LibresBastan /\ RotaPorCopia /\ CuentaInv
      /\ TXDePeticion /\ TypeOK'
  BY TiposInvPaso DEF ListasInv, TablaInv, CuentaInv, TiposInv
<1>c. copias \in Nat /\ copias' \in Nat /\ (copias' > 0 \/ copias' = copias)
  BY <1>0, CopiasCrecen DEF TypeOK
<1>1. ASSUME NEW k \in Nodos PROVE Ocupadas(CXs[k]) \in SUBSET Ocupadas(CXs'[k])
  BY <1>0, CeldaEvoluciona DEF Ocupadas, Evoluciona, EnUso
<1>2. ASSUME NEW k \in Nodos, CXs_libres'[k] = CXs_libres[k]
      PROVE  NUM_MAX_CXs <= CXs_libres'[k] + Cardinality(Ocupadas(CXs'[k]))
  <2>1. Cardinality(Ocupadas(CXs[k])) <= Cardinality(Ocupadas(CXs'[k]))
    BY <1>1, OcupadasFinitas, FS_Subset
  <2>2. NUM_MAX_CXs <= CXs_libres[k] + Cardinality(Ocupadas(CXs[k]))
    BY <1>0 DEF LibresBastan
  <2> QED
    BY <1>0, <1>2, <2>1, <2>2, OcupadasFinitas, SuposicionCotas DEF TypeOK
<1>3. CASE UNCHANGED <<rotas, CXs_libres>>
  BY <1>0, <1>c, <1>2, <1>3 DEF LibresBastan, RotaPorCopia
<1>4. ASSUME NEW a \in Apps, ConnectReserva(a) PROVE LibresBastan' /\ RotaPorCopia'
  <2> DEFINE n == NodoDe[a]
  <2>0. n \in Nodos
    BY TiposDeProceso
  <2>1. /\ CXs_libres' = [CXs_libres EXCEPT ![n] = IF @ = 0 THEN 0 ELSE @ - 1]
        /\ rotas' = [rotas EXCEPT ![n] = RotaAlQuitar(n)]
    BY <1>4 DEF ConnectReserva, QuitaCXLibre
  <2>2. PICK i \in Celdas : Reserva(a, i)
    BY <1>0, <1>4, ConnectHace DEF TablaInv
  <2>3. i \notin Ocupadas(CXs[n]) /\ Ocupadas(CXs'[n]) = Ocupadas(CXs[n]) \cup {i}
    BY <1>0, <2>0, <2>2 DEF Reserva, Reservada, SoloCelda, Ocupadas, EnUso
  <2>4. Libres(CXs[n]) # {}
    BY <2>2 DEF Reserva, EnUso, Libres
  <2>5. CXs_libres[n] # 0
    BY <1>0, <2>0, <2>4, HayIndice
  <2> HIDE DEF n
  <2>6. Cardinality(Ocupadas(CXs'[n])) = Cardinality(Ocupadas(CXs[n])) + 1
    BY <2>0, <2>3, OcupadasFinitas, FS_AddElement
  <2>7. CXs_libres'[n] = CXs_libres[n] - 1 /\ CXs_libres[n] \in Nat
    BY <1>0, <2>0, <2>1, <2>5 DEF TypeOK
  <2>8. NUM_MAX_CXs <= CXs_libres[n] + Cardinality(Ocupadas(CXs[n]))
    BY <1>0, <2>0 DEF LibresBastan
  <2>9. NUM_MAX_CXs <= CXs_libres'[n] + Cardinality(Ocupadas(CXs'[n]))
    <3> DEFINE c == Cardinality(Ocupadas(CXs[n]))
               l == CXs_libres[n]
    <3>1. c \in Nat /\ l \in Nat /\ NUM_MAX_CXs <= l + c /\ NUM_MAX_CXs \in Nat
      BY <2>0, <2>7, <2>8, OcupadasFinitas, SuposicionCotas
    <3>2. CXs_libres'[n] = l - 1 /\ Cardinality(Ocupadas(CXs'[n])) = c + 1
      BY <2>6, <2>7
    <3> HIDE DEF c, l
    <3>3. NUM_MAX_CXs <= (l - 1) + (c + 1)
      BY <3>1
    <3> QED
      BY <3>2, <3>3
  <2>10. \A k \in Nodos : k # n => CXs_libres'[k] = CXs_libres[k]
    BY <1>0, <2>1 DEF TypeOK
  <2>11. LibresBastan'
    BY <1>2, <2>9, <2>10 DEF LibresBastan
  <2>12. \A k \in Nodos : rotas'[k] => rotas[k]
    BY <1>0, <2>0, <2>1, <2>5 DEF RotaAlQuitar, TypeOK
  <2>13. RotaPorCopia'
    BY <1>0, <1>c, <2>12 DEF RotaPorCopia
  <2> QED
    BY <2>11, <2>13
<1>5. ASSUME NEW a \in Apps, ListenReserva(a) PROVE LibresBastan' /\ RotaPorCopia'
  BY <1>3, <1>5 DEF ListenReserva, listas
<1>6. ASSUME NEW n \in Nodos, DemonioCR(n) PROVE LibresBastan' /\ RotaPorCopia'
  BY <1>3, <1>6 DEF DemonioCR
<1>7. ASSUME NEW n \in Nodos, DemonioCC(n) PROVE LibresBastan' /\ RotaPorCopia'
  <2>1. PICK m \in DOMAIN red :
          /\ m.tpdu.tipo = CC /\ m.a = n
          /\ rotas' = [rotas EXCEPT ![n] = RotaAlConfirmar(n, CXs[n][m.tpdu.id_destino])]
    BY <1>0, <1>7, DemonioCCHace DEF TablaInv
  <2>2. m \in EnCurso /\ PideEn(m) = n /\ PideCelda(m) = m.tpdu.id_destino
    BY <2>1 DEF EnCurso, PideEn, PideCelda, CR, CC
  <2>3. ASSUME copias = 0 PROVE CXs[n][m.tpdu.id_destino].TX # <<>>
    <3>1. CXs[n][m.tpdu.id_destino].estado_cx = CONNECT /\ m.tpdu.id_destino \in Celdas
      BY <1>0, <2>2, <2>3, PideTipo DEF ListasInv, UnaPorPeticion, Unica
    <3> QED
      BY <1>0, <3>1 DEF TXDePeticion
  <2>4. ASSUME copias = 0 PROVE \A k \in Nodos : rotas'[k] => rotas[k]
    BY <1>0, <2>1, <2>3, <2>4 DEF RotaAlConfirmar, TypeOK
  <2>5. RotaPorCopia'
    BY <1>0, <1>c, <2>4 DEF RotaPorCopia
  <2>6. LibresBastan'
    BY <1>2, <1>7 DEF DemonioCC, LibresBastan
  <2> QED
    BY <2>5, <2>6
<1> QED
  BY <1>0, <1>3, <1>4, <1>5, <1>6, <1>7, PasosDeLista

LEMMA ListasInicio == Init => ListasInv
<1> SUFFICES ASSUME Init PROVE ListasInv
  OBVIOUS
<1>1. TablaInv
  BY TablaInicio
<1>2. EnCurso = {}
  BY DEF Init, EmptyBag, SetToBag, EnCurso
<1>3. TXDePeticion
  BY Estados DEF Init, TXDePeticion, CeldaInicial
<1>4. RotaPorCopia
  BY DEF Init, RotaPorCopia
<1>5. ASSUME NEW n \in Nodos
      PROVE  NUM_MAX_CXs <= CXs_libres[n] + Cardinality(Ocupadas(CXs[n]))
  <2>1. Ocupadas(CXs[n]) = {}
    BY DEF Init, Ocupadas, CeldaInicial
  <2>2. Cardinality(Ocupadas(CXs[n])) = 0 /\ CXs_libres[n] = NUM_MAX_CXs
    BY <2>1, FS_EmptySet DEF Init
  <2> QED
    BY <2>2, SuposicionCotas
<1> QED
  BY <1>1, <1>2, <1>3, <1>4, <1>5 DEF ListasInv, UnaPorPeticion, LibresBastan

\* No pop_front and no --TX.end() is applied to an empty list, for any number of
\* cells, calls, losses and deaths, before IP has duplicated a datagram, where the
\* daemon does not survive a refusal: t_connect finds a free index for each free
\* cell, and a CC finds its CR in TX because it is the only answer to a call that
\* still waits.
THEOREM RotaSegura ==
  ASSUME RechazoMata
  PROVE  Spec => []RotaPorCopia
<1>1. ListasInv /\ [Next]_vars => ListasInv'
  BY TablaPaso, UnaPorPeticionPaso, TXDePeticionPaso, LibresBastanPaso
  DEF ListasInv, TablaInv, CuentaInv, TiposInv
<1>2. ListasInv => RotaPorCopia
  BY DEF ListasInv
<1> QED
  BY <1>1, <1>2, ListasInicio, PTL DEF Spec

\* The daemon breaks the lists of its node only with a CC for a cell that does not
\* wait for one, whatever is lost, duplicated, refused or killed: a cell that waits has
\* its CR in TX, also when it has been refused before and used again.
THEOREM CCSegura == Spec => CCDePeticion
<1> DEFINE Inv == TiposInv /\ TXDePeticion
           PasoConCC == \A n \in Nodos :
                     ~rotas[n] /\ rotas'[n] /\ pc'[n] # pc[n]
                       => CXs[n][celda'[n]].estado_cx # CONNECT
<1>1. Init => Inv
  BY TiposInicio, Estados DEF Init, TXDePeticion, CeldaInicial
<1>2. Inv /\ [Next]_vars => Inv'
  BY TiposInvPaso, TXDePeticionPaso DEF TiposInv
<1>3. Inv /\ [Next]_vars => [PasoConCC]_vars
  <2> SUFFICES ASSUME Inv, [Next]_vars, NEW n \in Nodos,
                      ~rotas[n], rotas'[n], pc'[n] # pc[n]
               PROVE  CXs[n][celda'[n]].estado_cx # CONNECT
    OBVIOUS
  <2>0. TypeOK
    BY DEF TiposInv
  <2>1. ~ UNCHANGED rotas
    OBVIOUS
  <2>2. ASSUME NEW k \in Nodos, DemonioCC(k)
        PROVE  CXs[n][celda'[n]].estado_cx # CONNECT
    <3>1. PICK m \in DOMAIN red :
            LET i == m.tpdu.id_destino
            IN  /\ celda' = [celda EXCEPT ![k] = i]
                /\ pc' = [pc EXCEPT ![k] = "barrera"]
                /\ rotas' = [rotas EXCEPT ![k] = RotaAlConfirmar(k, CXs[k][i])]
      BY <2>1, <2>2 DEF DemonioCC, BarreraCC, Salta
    <3> DEFINE i == m.tpdu.id_destino
    <3>2. k = n
      BY <2>0, <3>1 DEF TypeOK
    <3>3. i \in Celdas
      BY <2>0 DEF TypeOK, BolsaOK, TpduOK, Tpdu
    <3>4. celda'[n] = i
      BY <2>0, <3>1, <3>2, TiposDeProceso DEF TypeOK
    <3>5. CXs[n][i].TX = <<>>
      BY <2>0, <3>1, <3>2 DEF RotaAlConfirmar, TypeOK
    <3> HIDE DEF i
    <3> QED
      BY <3>3, <3>4, <3>5 DEF TXDePeticion
  <2>3. ASSUME NEW a \in Apps, ConnectReserva(a) PROVE FALSE
    <3>1. a # n /\ a \in Procs
      BY SuposicionProcesos, TiposDeProceso
    <3>2. \E l : pc' = [pc EXCEPT ![a] = l]
      BY <2>3, AbreYSaltaCasos DEF ConnectReserva
    <3> QED
      BY <2>0, <3>1, <3>2, TiposDeProceso DEF TypeOK
  <2> QED
    BY <2>1, <2>2, <2>3, PasosQueRompen
<1>4. CCDePeticion <=> [][PasoConCC]_vars
  BY DEF CCDePeticion
<1> QED
  BY <1>1, <1>2, <1>3, <1>4, PTL DEF Spec

=============================================================================
