----------------------------- MODULE PoolProof -----------------------------
(***************************************************************************)
(* Proofs about the heap of module Pool, for every area, header and set of  *)
(* sizes: the chain stays sound, no two free blocks meet, the search misses *)
(* none, and the heap implements module Monton.                             *)
(***************************************************************************)
EXTENDS PoolProp, FiniteSetTheorems, TLAPS

-----------------------------------------------------------------------------
(* The chain as a predicate of the function "bloques", block by block.      *)

Hasta(m, x) == x + H + m[x].tam

\* Block x and the one that follows it; block x and the one before; block x and
\* every later one.
Sigue(m, x) ==
  IF m[x].next = 0 THEN Hasta(m, x) = FIN
  ELSE /\ m[x].next = Hasta(m, x) /\ m[x].next \in DOMAIN m
       /\ m[m[x].next].prev = x
Precede(m, x) ==
  IF x = INICIO THEN m[x].prev = 0
  ELSE m[x].prev \in DOMAIN m /\ m[m[x].prev].next = x
Ordena(m, x) == \A y \in DOMAIN m : x < y => Hasta(m, x) <= y

Tipo(m) == m \in [DOMAIN m -> Cabecera] /\ DOMAIN m \subseteq INICIO .. FIN - H
Cadena(m) ==
  /\ INICIO \in DOMAIN m
  /\ \A x \in DOMAIN m : Sigue(m, x) /\ Precede(m, x) /\ Ordena(m, x)
Separados(m) ==
  \A x \in DOMAIN m :
    m[x].free /\ m[x].next # 0 => ~m[m[x].next].free

LEMMA CadenaEsCadena == CadenaSana <=> Cadena(bloques)
BY DEF CadenaSana, Cadena, Sigue, Precede, Ordena, Final, Hasta, Dirs

LEMMA SeparadosEsLibresJuntos == LibresJuntos <=> Separados(bloques)
BY DEF LibresJuntos, Separados, EsLibre, Dirs

\* What every step about one block needs to know about it and its neighbours.
LEMMA Vecinos ==
  ASSUME Tipo(bloques), Cadena(bloques), NEW x \in Dirs
  PROVE  LET n == bloques[x].next
             p == bloques[x].prev
         IN  /\ x \in Nat /\ x # 0 /\ INICIO <= x /\ x <= FIN - H
             /\ bloques[x] \in Cabecera
             /\ n # 0 => /\ n \in Dirs /\ n = Hasta(bloques, x) /\ x < n
                         /\ bloques[n].prev = x
             /\ n = 0 => Hasta(bloques, x) = FIN
             /\ p # 0 => /\ p \in Dirs /\ x = Hasta(bloques, p) /\ p < x
                         /\ bloques[p].next = x /\ x # INICIO
             /\ p = 0 => x = INICIO
             /\ \A y \in Dirs : x < y => Hasta(bloques, x) <= y
             /\ Hasta(bloques, x) <= FIN
<1> USE SuposicionPool DEF Dirs
<1>1. x \in Nat /\ x # 0 /\ INICIO <= x /\ x <= FIN - H /\ bloques[x] \in Cabecera
  BY DEF Tipo
<1>2. Sigue(bloques, x) /\ Precede(bloques, x) /\ Ordena(bloques, x)
  BY DEF Cadena
<1>3. bloques[x].tam \in Nat /\ bloques[x].next \in Nat /\ bloques[x].prev \in Nat
  BY <1>1 DEF Cabecera
<1>4. ASSUME bloques[x].prev # 0
      PROVE  LET p == bloques[x].prev
             IN p \in Dirs /\ x = Hasta(bloques, p) /\ p < x /\ bloques[p].next = x /\ x # INICIO
  <2>1. x # INICIO /\ bloques[x].prev \in Dirs /\ bloques[bloques[x].prev].next = x
    BY <1>2, <1>4 DEF Precede
  <2>2. Sigue(bloques, bloques[x].prev)
    BY <2>1 DEF Cadena
  <2>3. bloques[bloques[x].prev] \in Cabecera /\ bloques[x].prev \in Nat
    BY <2>1 DEF Tipo
  <2> QED
    BY <1>1, <2>1, <2>2, <2>3 DEF Sigue, Hasta, Cabecera
<1>5. ASSUME bloques[x].next # 0
      PROVE  LET n == bloques[x].next
             IN n \in Dirs /\ n = Hasta(bloques, x) /\ x < n /\ bloques[n].prev = x
  BY <1>1, <1>2, <1>3, <1>5 DEF Sigue, Hasta
<1>6. bloques[x].next = 0 => Hasta(bloques, x) = FIN
  BY <1>2 DEF Sigue
<1>7. bloques[x].prev = 0 => x = INICIO
  <2>1. 0 \notin Dirs
    BY DEF Tipo
  <2> QED BY <1>2, <2>1 DEF Precede
<1>8. \A y \in Dirs : x < y => Hasta(bloques, x) <= y
  BY <1>2 DEF Ordena
<1>9. Hasta(bloques, x) <= FIN
  <2>1. CASE bloques[x].next = 0
    BY <1>6, <2>1
  <2>2. CASE bloques[x].next # 0
    BY <1>5, <2>2 DEF Tipo
  <2> QED BY <2>1, <2>2
<1> QED
  BY <1>1, <1>4, <1>5, <1>6, <1>7, <1>8, <1>9

-----------------------------------------------------------------------------
(* A join.                                                                  *)

\* Block x may take in the blocks of A, and the chain goes on at z: A is what
\* lies strictly between x and its new end, and z is there, or the area ends.
Absorbe(x, tam, z, A) ==
  /\ x \in Dirs /\ tam \in Nat /\ tam >= bloques[x].tam
  /\ A = {y \in Dirs : x < y /\ y < x + H + tam}
  /\ IF z = 0 THEN x + H + tam = FIN ELSE z \in Dirs /\ z = x + H + tam

\* What m is, once block x has taken in the blocks of A.
Juntado(m, x, z, A) ==
  /\ Tipo(m) /\ Cadena(m)
  /\ DOMAIN m = Dirs \ A /\ x \in DOMAIN m /\ m[x].free /\ m[x].next = z
  /\ \A y \in DOMAIN m : y # x => /\ m[y].free = bloques[y].free
                                  /\ m[y].tam = bloques[y].tam
                                  /\ m[y].next = bloques[y].next

\* A join leaves a sound chain.
LEMMA JuntaSana ==
  ASSUME Tipo(bloques), Cadena(bloques), NEW x, NEW tam, NEW z, NEW A,
         Absorbe(x, tam, z, A)
  PROVE  Juntado(Junta(x, tam, z, A), x, z, A)
<1> DEFINE m == Junta(x, tam, z, A)
           fin == x + H + tam
<1> USE SuposicionPool
<1>1. x \in Dirs /\ tam \in Nat /\ x \in Nat /\ INICIO <= x /\ bloques[x] \in Cabecera
      /\ fin \in Nat /\ x < fin /\ Hasta(bloques, x) <= fin
  BY Vecinos DEF Absorbe, Hasta, Cabecera
<1>2. /\ DOMAIN m = Dirs \ A /\ x \in DOMAIN m
      /\ \A y \in Dirs : y \in Nat
      /\ \A y \in Dirs : y \in A <=> x < y /\ y < fin
      /\ \A y \in DOMAIN m : y \in Dirs /\ y \in Nat /\ (y <= x \/ y >= fin)
  <2>1. \A y \in Dirs : y \in Nat
    BY Vecinos
  <2> QED BY <1>1, <2>1 DEF Absorbe, Junta
<1>3. z # 0 => z \in DOMAIN m /\ z = fin /\ z # x
  BY <1>1, <1>2 DEF Absorbe
<1>4. z = 0 => fin = FIN
  BY DEF Absorbe
<1>5. /\ m[x] = [bloques[x] EXCEPT !.tam = tam, !.next = z, !.free = TRUE]
      /\ z # 0 => m[z] = [bloques[z] EXCEPT !.prev = x]
      /\ \A y \in DOMAIN m : y # x /\ y # z => m[y] = bloques[y]
  BY <1>2, <1>3 DEF Junta
<1>6. \A y \in Dirs : bloques[y] \in Cabecera
  BY Vecinos
<1>7. /\ m[x].next = z /\ m[x].prev = bloques[x].prev /\ Hasta(m, x) = fin /\ m[x].free
      /\ \A y \in DOMAIN m : y # x =>
           /\ m[y].next = bloques[y].next /\ Hasta(m, y) = Hasta(bloques, y)
           /\ m[y].free = bloques[y].free /\ m[y].tam = bloques[y].tam
      /\ \A y \in DOMAIN m : y # z => m[y].prev = bloques[y].prev
      /\ z # 0 => m[z].prev = x
  <2> HIDE DEF m
  <2>1. m[x].next = z /\ m[x].prev = bloques[x].prev /\ m[x].tam = tam /\ m[x].free
    BY <1>1, <1>5 DEF Cabecera
  <2>2. ASSUME z # 0
        PROVE  /\ m[z].prev = x /\ m[z].next = bloques[z].next
               /\ m[z].tam = bloques[z].tam /\ m[z].free = bloques[z].free
    <3>1. bloques[z] \in Cabecera
      BY <1>2, <1>3, <1>6, <2>2
    <3> QED BY <1>5, <2>2, <3>1 DEF Cabecera
  <2>3. 0 \notin DOMAIN m
    <3>1. 0 \notin Dirs
      BY Vecinos
    <3> QED BY <1>2, <3>1
  <2>4. ASSUME NEW y \in DOMAIN m, y # x
        PROVE  /\ m[y].next = bloques[y].next /\ m[y].tam = bloques[y].tam
               /\ m[y].free = bloques[y].free
    BY <1>5, <2>2, <2>3, <2>4
  <2>5. ASSUME NEW y \in DOMAIN m, y # z
        PROVE  m[y].prev = bloques[y].prev
    BY <1>5, <2>1, <2>5
  <2> QED BY <2>1, <2>2, <2>4, <2>5 DEF Hasta
<1>8. Tipo(m)
  <2>1. m \in [DOMAIN m -> Cabecera]
    <3>1. \A y \in DOMAIN m : m[y] \in Cabecera
      <4> HIDE DEF m
      <4>1. z \in Nat
        BY <1>2, <1>3
      <4>2. 0 \notin DOMAIN m
        <5>1. 0 \notin Dirs
          BY Vecinos
        <5> QED BY <1>2, <5>1
      <4>3. m[x] \in Cabecera
        BY <1>1, <1>5, <4>1 DEF Cabecera
      <4>4. ASSUME z # 0 PROVE m[z] \in Cabecera
        <5>1. bloques[z] \in Cabecera
          BY <1>2, <1>3, <1>6, <4>4
        <5> QED BY <1>1, <1>5, <4>4, <5>1 DEF Cabecera
      <4>5. ASSUME NEW y \in DOMAIN m, y # x, y # z PROVE m[y] \in Cabecera
        BY <1>2, <1>5, <1>6, <4>5
      <4> QED BY <4>2, <4>3, <4>4, <4>5
    <3> QED BY <3>1, <1>2 DEF Junta
  <2> QED BY <1>2, <2>1 DEF Tipo, Dirs
<1> HIDE DEF m, fin
\* A block that stays and is not x lies before x or from the new end on.
<1>9. \A y \in DOMAIN m : y # x => y < x \/ y >= fin
  BY <1>1, <1>2
<1>10. INICIO \in DOMAIN m
  <2>1. INICIO \in Dirs /\ ~(x < INICIO)
    BY <1>1 DEF Cadena, Dirs
  <2> QED BY <1>2, <2>1
<1>11. ASSUME NEW y \in DOMAIN m PROVE Sigue(m, y)
  <2>1. CASE y = x
    BY <1>3, <1>4, <1>7, <2>1 DEF Sigue
  <2>2. CASE y # x
    <3>1. y \in Dirs /\ m[y].next = bloques[y].next /\ Hasta(m, y) = Hasta(bloques, y)
      BY <1>2, <1>7, <2>2
    <3>2. CASE bloques[y].next = 0
      BY <3>1, <3>2, Vecinos DEF Sigue
    <3>3. CASE bloques[y].next # 0
      <4> DEFINE n == bloques[y].next
      <4>1. n \in Dirs /\ n = Hasta(bloques, y) /\ y < n /\ bloques[n].prev = y /\ n \in Nat
            /\ (\A w \in Dirs : y < w => n <= w)
        BY <3>1, <3>3, Vecinos
      <4> HIDE DEF n
      <4>2. y < x => n <= x
        BY <1>1, <4>1
      <4>3. n <= x \/ n > fin
        BY <1>1, <1>2, <1>9, <2>2, <4>1, <4>2
      <4>4. n \notin A /\ n # z
        <5>1. n \notin A
          BY <1>1, <1>2, <4>1, <4>3
        <5>2. z # 0 => n # z
          BY <1>1, <1>3, <4>1, <4>3
        <5>3. n # 0
          BY <4>1, Vecinos
        <5> QED BY <5>1, <5>2, <5>3
      <4>5. n \in DOMAIN m /\ m[n].prev = y
        BY <1>2, <1>7, <4>1, <4>4
      <4>6. m[y].next = n /\ n = Hasta(m, y)
        BY <3>1, <4>1 DEF n
      <4>7. n # 0
        BY <4>1, Vecinos
      <4> QED BY <4>5, <4>6, <4>7 DEF Sigue
    <3> QED BY <3>2, <3>3
  <2> QED BY <2>1, <2>2
<1>12. ASSUME NEW y \in DOMAIN m PROVE Precede(m, y)
  <2>1. y \in Dirs /\ y \in Nat
    BY <1>2
  <2>2. CASE z # 0 /\ y = z
    <3>1. y # INICIO
      BY <1>1, <1>3, <2>2
    <3> QED BY <1>2, <1>7, <2>2, <3>1 DEF Precede
  <2>3. CASE y # z
    <3>1. m[y].prev = bloques[y].prev
      BY <1>7, <2>3
    <3>2. CASE bloques[y].prev = 0
      <4>1. y = INICIO
        BY <2>1, <3>2, Vecinos
      <4> QED BY <3>1, <3>2, <4>1 DEF Precede
    <3>3. CASE bloques[y].prev # 0
      <4> DEFINE p == bloques[y].prev
      <4>1. p \in Dirs /\ p \in Nat /\ p < y /\ bloques[p].next = y /\ y # INICIO
            /\ (\A w \in Dirs : p < w => y <= w)
        BY <2>1, <3>3, Vecinos
      <4> HIDE DEF p
      <4>2. ASSUME ~(p < x), p < fin PROVE FALSE
        <5>1. p = x \/ p \in A
          BY <1>2, <4>1, <4>2, <1>1
        <5>2. y # x /\ y > x
          BY <1>1, <2>1, <4>1, <4>2
        <5>3. y >= fin
          BY <1>9, <5>2, <1>1, <2>1
        <5>4. CASE z # 0
          <6>1. z \in Dirs /\ z = fin
            BY <1>2, <1>3, <5>4
          <6>2. y <= z
            BY <4>1, <4>2, <6>1
          <6> QED BY <1>1, <2>1, <2>3, <5>3, <6>1, <6>2
        <5>5. CASE z = 0
          <6>1. y <= FIN - H
            BY <2>1, Vecinos
          <6> QED BY <1>1, <1>4, <2>1, <5>3, <5>5, <6>1
        <5> QED BY <5>4, <5>5
      <4>3. p \in DOMAIN m /\ p # x
        BY <1>1, <1>2, <4>1, <4>2
      <4>4. m[p].next = y
        BY <1>7, <4>1, <4>3
      <4> QED BY <3>1, <4>1, <4>3, <4>4 DEF Precede, p
    <3> QED BY <3>2, <3>3
  <2>4. CASE y = z /\ z = 0
    BY <1>1, <2>1, <2>4, Vecinos
  <2> QED BY <2>2, <2>3, <2>4
<1>13. ASSUME NEW y \in DOMAIN m PROVE Ordena(m, y)
  <2>1. CASE y = x
    <3>1. \A w \in DOMAIN m : x < w => fin <= w
      BY <1>1, <1>2
    <3> QED BY <1>7, <2>1, <3>1 DEF Ordena
  <2>2. CASE y # x
    <3>1. Hasta(m, y) = Hasta(bloques, y) /\ y \in Dirs
      BY <1>2, <1>7, <2>2
    <3> QED BY <1>2, <3>1, Vecinos DEF Ordena
  <2> QED BY <2>1, <2>2
<1> QED
  BY <1>2, <1>7, <1>8, <1>10, <1>11, <1>12, <1>13 DEF Cadena, Juntado, m

-----------------------------------------------------------------------------
(* A split, and a change of "free" alone.                                   *)

LEMMA PartidaSana ==
  ASSUME Tipo(bloques), Cadena(bloques), NEW x \in Dirs, pedido \in Nat,
         bloques[x].tam - pedido >= 2 * H
  PROVE  LET m == Partida(x)
             n == Nuevo(x)
         IN  /\ Tipo(m) /\ Cadena(m) /\ n \notin Dirs /\ n \in Nat
             /\ DOMAIN m = Dirs \cup {n}
             /\ m[n].free /\ m[n].next = bloques[x].next
             /\ ~m[x].free /\ m[x].next = n /\ m[x].tam = pedido
             /\ \A y \in Dirs : y # x => /\ m[y].free = bloques[y].free
                                         /\ m[y].tam = bloques[y].tam
                                         /\ m[y].next = bloques[y].next
<1> DEFINE m == Partida(x)
           n == Nuevo(x)
           z == bloques[x].next
           fin == Hasta(bloques, x)
<1> USE SuposicionPool
<1>1. /\ x \in Nat /\ x # 0 /\ INICIO <= x /\ bloques[x] \in Cabecera /\ fin \in Nat /\ fin <= FIN
      /\ n \in Nat /\ n # 0 /\ x < n /\ n + 2 * H <= fin + H
      /\ bloques[x].tam - pedido - H \in Nat
      /\ n + H + (bloques[x].tam - pedido - H) = fin
      /\ n = x + H + pedido
  <2>1. x \in Nat /\ x # 0 /\ INICIO <= x /\ bloques[x] \in Cabecera /\ Hasta(bloques, x) <= FIN
    BY Vecinos
  <2>2. bloques[x].tam \in Nat
    BY <2>1 DEF Cabecera
  <2> QED BY <2>1, <2>2 DEF Nuevo, Hasta
<1>2. \A y \in Dirs : y \in Nat /\ y # 0 /\ bloques[y] \in Cabecera /\ y <= FIN - H
  BY Vecinos
<1>3. \A y \in Dirs : x < y => fin <= y
  BY Vecinos
<1>4. /\ z = 0 => fin = FIN
      /\ z # 0 => z \in Dirs /\ z = fin /\ z # x /\ z # INICIO /\ bloques[z].prev = x
  <2>1. z # 0 => z \in Dirs /\ z = Hasta(bloques, x) /\ x < z /\ bloques[z].prev = x
    BY Vecinos
  <2> QED BY <1>1, <2>1, Vecinos
<1>5. n \notin Dirs
  <2> HIDE DEF n, fin
  <2> QED BY <1>1, <1>3
<1>6. /\ DOMAIN m = Dirs \cup {n}
      /\ m[n] = [prev |-> x, next |-> z, free |-> TRUE, tam |-> bloques[x].tam - pedido - H]
      /\ m[x] = [bloques[x] EXCEPT !.next = n, !.tam = pedido, !.free = FALSE]
      /\ z # 0 => m[z] = [bloques[z] EXCEPT !.prev = n]
      /\ \A y \in Dirs : y # x /\ y # z => m[y] = bloques[y]
  <2>1. x # n /\ (z # 0 => z # n)
    BY <1>4, <1>5
  <2> QED BY <1>4, <1>5, <2>1 DEF Partida
<1> HIDE DEF m, n, z, fin
<1>7. /\ m[n].prev = x /\ m[n].next = z /\ Hasta(m, n) = fin /\ m[n].free
      /\ m[x].prev = bloques[x].prev /\ m[x].next = n /\ Hasta(m, x) = n
      /\ ~m[x].free /\ m[x].tam = pedido
  BY <1>1, <1>6 DEF Hasta, Cabecera
<1>8. ASSUME z # 0
      PROVE  /\ m[z].prev = n /\ m[z].next = bloques[z].next
             /\ m[z].tam = bloques[z].tam /\ m[z].free = bloques[z].free
  <2>1. bloques[z] \in Cabecera
    BY <1>2, <1>4, <1>8
  <2> QED BY <1>6, <1>8, <2>1 DEF Cabecera
<1>9. /\ \A y \in Dirs : y # x =>
           /\ m[y].next = bloques[y].next /\ Hasta(m, y) = Hasta(bloques, y)
           /\ m[y].free = bloques[y].free /\ m[y].tam = bloques[y].tam
      /\ \A y \in Dirs : y # z => m[y].prev = bloques[y].prev
  <2>1. ASSUME NEW y \in Dirs, y # x
        PROVE  /\ m[y].next = bloques[y].next /\ m[y].tam = bloques[y].tam
               /\ m[y].free = bloques[y].free
    BY <1>2, <1>6, <1>8, <2>1
  <2>2. ASSUME NEW y \in Dirs, y # z PROVE m[y].prev = bloques[y].prev
    BY <1>6, <1>7, <2>2
  <2> QED BY <2>1, <2>2 DEF Hasta
<1>10. Tipo(m)
  <2>1. ASSUME NEW y \in DOMAIN m PROVE m[y] \in Cabecera
    <3>1. z \in Nat
      BY <1>1 DEF z, Cabecera
    <3>2. CASE y = n
      <4>1. \A t \in Nat :
              [prev |-> x, next |-> z, free |-> TRUE, tam |-> t] \in Cabecera
        BY <1>1, <3>1 DEF Cabecera
      <4> QED BY <1>1, <1>6, <3>2, <4>1
    <3>3. CASE y = x
      BY <1>1, <1>6, <3>3 DEF Cabecera
    <3>4. CASE y = z /\ y \in Dirs
      <4>1. z # 0 /\ bloques[z] \in Cabecera
        BY <1>2, <3>4
      <4> QED BY <1>1, <1>6, <3>4, <4>1 DEF Cabecera
    <3>5. CASE y # n /\ y # x /\ y # z
      BY <1>2, <1>6, <3>5
    <3> QED BY <1>6, <3>2, <3>3, <3>4, <3>5
  <2>2. n \in INICIO .. FIN - H
    BY <1>1
  <2>3. Dirs \subseteq INICIO .. FIN - H
    BY DEF Tipo, Dirs
  <2>4. m = [y \in DOMAIN m |-> m[y]]
    BY DEF m, Partida
  <2> QED BY <1>6, <2>1, <2>2, <2>3, <2>4 DEF Tipo
<1>11. INICIO \in DOMAIN m
  BY <1>6 DEF Cadena, Dirs
<1>12. ASSUME NEW y \in DOMAIN m PROVE Sigue(m, y)
  <2>1. CASE y = n
    <3>1. z # 0 => z \in DOMAIN m
      BY <1>4, <1>6
    <3> QED BY <1>4, <1>7, <1>8, <2>1, <3>1 DEF Sigue
  <2>2. CASE y = x
    BY <1>1, <1>6, <1>7, <2>2 DEF Sigue
  <2>3. CASE y # n /\ y # x
    <3>1. y \in Dirs /\ m[y].next = bloques[y].next /\ Hasta(m, y) = Hasta(bloques, y)
      BY <1>6, <1>9, <2>3
    <3>2. CASE bloques[y].next = 0
      BY <3>1, <3>2, Vecinos DEF Sigue
    <3>3. CASE bloques[y].next # 0
      <4> DEFINE w == bloques[y].next
      <4>1. w \in Dirs /\ w = Hasta(bloques, y) /\ bloques[w].prev = y
        BY <3>1, <3>3, Vecinos
      <4>2. w # z
        BY <1>4, <2>3, <3>3, <4>1
      <4>3. w \in DOMAIN m /\ m[w].prev = y
        BY <1>6, <1>9, <4>1, <4>2
      <4> QED BY <3>1, <3>3, <4>1, <4>3 DEF Sigue
    <3> QED BY <3>2, <3>3
  <2> QED BY <2>1, <2>2, <2>3
<1>13. ASSUME NEW y \in DOMAIN m PROVE Precede(m, y)
  <2>1. CASE y = n
    <3>1. INICIO \in Dirs
      BY DEF Cadena, Dirs
    <3> QED BY <1>5, <1>6, <1>7, <2>1, <3>1 DEF Precede
  <2>2. CASE y = z /\ y \in Dirs
    <3>1. z # 0
      BY <1>2, <2>2
    <3> QED BY <1>4, <1>6, <1>7, <1>8, <2>2, <3>1 DEF Precede
  <2>3. CASE y # n /\ y # z
    <3>1. y \in Dirs /\ m[y].prev = bloques[y].prev
      BY <1>6, <1>9, <2>3
    <3>2. CASE bloques[y].prev = 0
      BY <3>1, <3>2, Vecinos DEF Precede
    <3>3. CASE bloques[y].prev # 0
      <4> DEFINE p == bloques[y].prev
      <4>1. p \in Dirs /\ bloques[p].next = y /\ y # INICIO
        BY <3>1, <3>3, Vecinos
      <4>2. p # x
        BY <2>3, <4>1 DEF z
      <4>3. p \in DOMAIN m /\ m[p].next = y
        BY <1>6, <1>9, <4>1, <4>2
      <4> QED BY <3>1, <4>1, <4>3 DEF Precede
    <3> QED BY <3>2, <3>3
  <2> QED BY <1>6, <2>1, <2>2, <2>3
<1>14. ASSUME NEW y \in DOMAIN m PROVE Ordena(m, y)
  <2>1. CASE y = n
    <3>1. ASSUME NEW w \in DOMAIN m, n < w PROVE fin <= w
      <4>1. w \in Dirs /\ w \in Nat
        BY <1>1, <1>2, <1>6, <3>1
      <4> QED BY <1>1, <1>3, <3>1, <4>1
    <3> QED BY <1>7, <2>1, <3>1 DEF Ordena
  <2>2. CASE y = x
    <3>1. ASSUME NEW w \in DOMAIN m, x < w PROVE n <= w
      <4>1. CASE w \in Dirs
        <5>1. fin <= w /\ w \in Nat
          BY <1>2, <1>3, <3>1, <4>1
        <5> QED BY <1>1, <5>1
      <4> QED BY <1>1, <1>6, <4>1
    <3> QED BY <1>7, <2>2, <3>1 DEF Ordena
  <2>3. CASE y # n /\ y # x
    <3>1. y \in Dirs /\ Hasta(m, y) = Hasta(bloques, y) /\ y \in Nat
          /\ Hasta(bloques, y) \in Nat
      <4>1. y \in Dirs /\ Hasta(m, y) = Hasta(bloques, y) /\ y \in Nat
        BY <1>2, <1>6, <1>9, <2>3
      <4>2. bloques[y].tam \in Nat
        BY <1>2, <4>1 DEF Cabecera
      <4> QED BY <4>1, <4>2 DEF Hasta
    <3>2. \A w \in Dirs : y < w => Hasta(bloques, y) <= w
      BY <3>1, Vecinos
    <3>3. ASSUME y < n PROVE Hasta(bloques, y) <= n
      <4>1. y < x
        <5>1. ~(x < y)
          <6>1. x < y => fin <= y
            BY <1>3, <3>1
          <6> QED BY <1>1, <3>1, <3>3, <6>1
        <5> QED BY <1>1, <2>3, <3>1, <5>1
      <4>2. Hasta(bloques, y) <= x
        BY <3>2, <4>1
      <4> QED BY <1>1, <3>1, <4>2
    <3> QED BY <1>6, <3>1, <3>2, <3>3 DEF Ordena
  <2> QED BY <2>1, <2>2, <2>3
<1> QED
  BY <1>1, <1>5, <1>6, <1>7, <1>9, <1>10, <1>11, <1>12, <1>13, <1>14
     DEF Cadena, m, n, z

\* The chain does not depend on which blocks are free.
LEMMA SoloFreeSana ==
  ASSUME Tipo(bloques), Cadena(bloques), NEW x \in Dirs, NEW l \in BOOLEAN
  PROVE  LET m == [bloques EXCEPT ![x].free = l]
         IN  Tipo(m) /\ Cadena(m)
<1> DEFINE m == [bloques EXCEPT ![x].free = l]
<1>1. \A y \in Dirs : bloques[y] \in Cabecera
  BY Vecinos
<1>2. /\ DOMAIN m = Dirs
      /\ m[x] = [bloques[x] EXCEPT !.free = l]
      /\ \A y \in Dirs : y # x => m[y] = bloques[y]
  BY DEF Dirs
<1>3. m \in [DOMAIN m -> Cabecera]
  BY <1>1, <1>2 DEF Cabecera, Tipo, Dirs
<1> HIDE DEF m
<1>4. \A y \in Dirs : /\ m[y].next = bloques[y].next /\ m[y].prev = bloques[y].prev
                      /\ Hasta(m, y) = Hasta(bloques, y)
  <2>1. /\ m[x].next = bloques[x].next /\ m[x].prev = bloques[x].prev
        /\ m[x].tam = bloques[x].tam
    BY <1>1, <1>2 DEF Cabecera
  <2> QED BY <1>2, <2>1 DEF Hasta
<1>5. Tipo(m)
  BY <1>2, <1>3 DEF Tipo, Dirs
<1>6. Cadena(m)
  <2>1. ASSUME NEW y \in Dirs PROVE Sigue(m, y)
    <3>1. Sigue(bloques, y)
      BY DEF Cadena, Dirs
    <3> QED BY <1>2, <1>4, <3>1 DEF Sigue, Dirs
  <2>2. ASSUME NEW y \in Dirs PROVE Precede(m, y)
    <3>1. Precede(bloques, y)
      BY DEF Cadena, Dirs
    <3> QED BY <1>2, <1>4, <3>1 DEF Precede, Dirs
  <2>3. ASSUME NEW y \in Dirs PROVE Ordena(m, y)
    <3>1. Ordena(bloques, y)
      BY DEF Cadena, Dirs
    <3> QED BY <1>2, <1>4, <3>1 DEF Ordena, Dirs
  <2> QED BY <1>2, <2>1, <2>2, <2>3 DEF Cadena, Dirs
<1> QED BY <1>5, <1>6 DEF m

-----------------------------------------------------------------------------
(* A release, whichever of the neighbours are free.                         *)

\* The cases of Devuelto, each as a join: what is absorbed is what lies between.
LEMMA DevueltoEsJunta ==
  ASSUME Tipo(bloques), Cadena(bloques), Separados(bloques),
         NEW x \in Dirs, ~bloques[x].free
  PROVE  LET p == bloques[x].prev
             n == bloques[x].next
         IN  \/ /\ ~EsLibre(p) /\ ~EsLibre(n)
                /\ Devuelto(x) = [bloques EXCEPT ![x].free = TRUE]
             \/ \E w \in Dirs : \E tam, z, A :
                  /\ Absorbe(w, tam, z, A)
                  /\ Devuelto(x) = Junta(w, tam, z, A)
                  /\ w = x \/ (w \notin A /\ x \in A)
                  /\ \A y \in A \cup {w} : y = x \/ bloques[y].free
                  /\ ~EsLibre(bloques[w].prev) /\ ~EsLibre(z)
<1> DEFINE p == bloques[x].prev
           n == bloques[x].next
           nn == bloques[n].next
           tx == bloques[x].tam
           tp == bloques[p].tam
           tn == bloques[n].tam
<1> USE SuposicionPool
<1>1. /\ x \in Nat /\ tx \in Nat /\ Hasta(bloques, x) = x + H + tx
      /\ \A y \in Dirs : x < y => x + H + tx <= y
      /\ n # 0 => n \in Dirs /\ n = x + H + tx
      /\ n = 0 => x + H + tx = FIN
      /\ p # 0 => p \in Dirs
  <2>1. bloques[x] \in Cabecera /\ x \in Nat
    BY Vecinos
  <2> QED BY <2>1, Vecinos DEF Hasta, Cabecera
<1>2. \A y \in Dirs : y \in Nat
  BY Vecinos
<1>3. ASSUME EsLibre(p)
      PROVE  /\ p \in Dirs /\ p \in Nat /\ tp \in Nat /\ x = p + H + tp /\ p # x /\ bloques[p].free
             /\ \A y \in Dirs : p < y => x <= y
             /\ ~EsLibre(bloques[p].prev)
  <2>1. p \in Dirs /\ bloques[p].free
    BY <1>1, <1>3 DEF EsLibre
  <2>2. p \in Nat /\ x = Hasta(bloques, p) /\ p < x /\ bloques[p] \in Cabecera
        /\ (\A y \in Dirs : p < y => x <= y)
    <3>1. p # 0 /\ p \in Nat /\ bloques[p] \in Cabecera
      BY <2>1, Vecinos
    <3>2. x = Hasta(bloques, p) /\ p < x
      BY <3>1, Vecinos
    <3> QED BY <2>1, <3>1, <3>2, Vecinos
  <2>3. ~EsLibre(bloques[p].prev)
    <3> DEFINE q == bloques[p].prev
    <3>1. q # 0 => q \in Dirs /\ bloques[q].next = p
      BY <2>1, Vecinos
    <3>2. p # 0
      BY <1>3 DEF EsLibre
    <3> QED BY <2>1, <3>1, <3>2 DEF Separados, EsLibre, Dirs
  <2> QED BY <2>1, <2>2, <2>3 DEF Hasta, Cabecera
<1>4. ASSUME EsLibre(n)
      PROVE  /\ n \in Dirs /\ n \in Nat /\ tn \in Nat /\ n = x + H + tx /\ bloques[n].free
             /\ \A y \in Dirs : n < y => n + H + tn <= y
             /\ nn = 0 => n + H + tn = FIN
             /\ nn # 0 => nn \in Dirs /\ nn = n + H + tn
             /\ ~EsLibre(nn)
  <2>1. n \in Dirs /\ bloques[n].free /\ n = x + H + tx
    BY <1>1, <1>4 DEF EsLibre
  <2>2. bloques[n] \in Cabecera /\ n \in Nat
    BY <2>1, Vecinos
  <2>3. /\ \A y \in Dirs : n < y => Hasta(bloques, n) <= y
        /\ nn = 0 => Hasta(bloques, n) = FIN
        /\ nn # 0 => nn \in Dirs /\ nn = Hasta(bloques, n)
    BY <2>1, Vecinos
  <2>4. ~EsLibre(nn)
    BY <2>1 DEF Separados, EsLibre, Dirs
  <2> QED BY <2>1, <2>2, <2>3, <2>4 DEF Hasta, Cabecera
<1> HIDE DEF p, n, nn, tx, tp, tn
<1>5. CASE EsLibre(p) /\ EsLibre(n)
  <2> DEFINE A == {x, n}
             tam == tp + tx + tn + 2 * H
  <2>1. Devuelto(x) = Junta(p, tam, nn, A)
    BY <1>5 DEF Devuelto, p, n, nn, tx, tp, tn
  <2>2. \A y \in Dirs : y \in A <=> p < y /\ y < p + H + tam
    BY <1>1, <1>2, <1>3, <1>4, <1>5
  <2>3. Absorbe(p, tam, nn, A)
    <3>1. p + H + tam = n + H + tn /\ tam \in Nat /\ tam >= tp
      BY <1>1, <1>3, <1>4, <1>5
    <3>2. A = {y \in Dirs : p < y /\ y < p + H + tam}
      BY <1>4, <1>5, <2>2
    <3>3. bloques[p].tam = tp
      BY DEF tp
    <3> HIDE DEF A, tam
    <3> QED BY <1>3, <1>4, <1>5, <3>1, <3>2, <3>3 DEF Absorbe
  <2>4. p \notin A /\ x \in A /\ (\A y \in A \cup {p} : y = x \/ bloques[y].free)
    <3>1. p # n
      BY <1>1, <1>3, <1>4, <1>5
    <3> QED BY <1>3, <1>4, <1>5, <3>1
  <2> HIDE DEF A, tam
  <2> QED BY <1>3, <1>4, <1>5, <2>1, <2>3, <2>4
<1>6. CASE EsLibre(p) /\ ~EsLibre(n)
  <2> DEFINE A == {x}
             tam == tp + tx + H
  <2>1. Devuelto(x) = Junta(p, tam, n, A)
    BY <1>6 DEF Devuelto, p, n, tx, tp
  <2>2. \A y \in Dirs : y \in A <=> p < y /\ y < p + H + tam
    BY <1>1, <1>2, <1>3, <1>6
  <2>3. Absorbe(p, tam, n, A)
    <3>1. p + H + tam = x + H + tx /\ tam \in Nat /\ tam >= tp
      BY <1>1, <1>3, <1>6
    <3>2. A = {y \in Dirs : p < y /\ y < p + H + tam}
      BY <2>2
    <3>3. bloques[p].tam = tp
      BY DEF tp
    <3> HIDE DEF A, tam
    <3> QED BY <1>1, <1>3, <1>6, <3>1, <3>2, <3>3 DEF Absorbe
  <2>4. p \notin A /\ x \in A /\ (\A y \in A \cup {p} : y = x \/ bloques[y].free)
    BY <1>3, <1>6
  <2> HIDE DEF A, tam
  <2> QED BY <1>3, <1>6, <2>1, <2>3, <2>4
<1>7. CASE ~EsLibre(p) /\ EsLibre(n)
  <2> DEFINE A == {n}
             tam == tx + tn + H
  <2>1. Devuelto(x) = Junta(x, tam, nn, A)
    BY <1>7 DEF Devuelto, p, n, nn, tx, tn
  <2>2. \A y \in Dirs : y \in A <=> x < y /\ y < x + H + tam
    BY <1>1, <1>2, <1>4, <1>7
  <2>3. Absorbe(x, tam, nn, A)
    <3>1. x + H + tam = n + H + tn /\ tam \in Nat /\ tam >= tx
      BY <1>1, <1>4, <1>7
    <3>2. A = {y \in Dirs : x < y /\ y < x + H + tam}
      BY <1>4, <1>7, <2>2
    <3>3. bloques[x].tam = tx
      BY DEF tx
    <3> HIDE DEF A, tam
    <3> QED BY <1>4, <1>7, <3>1, <3>2, <3>3 DEF Absorbe
  <2>4. \A y \in A \cup {x} : y = x \/ bloques[y].free
    BY <1>4, <1>7
  <2>5. ~EsLibre(bloques[x].prev)
    BY <1>7 DEF p
  <2> HIDE DEF A, tam
  <2> QED BY <1>4, <1>7, <2>1, <2>3, <2>4, <2>5
<1>8. CASE ~EsLibre(p) /\ ~EsLibre(n)
  BY <1>8 DEF Devuelto, p, n
<1> QED
  BY <1>5, <1>6, <1>7, <1>8 DEF p, n

-----------------------------------------------------------------------------
(* The regions handed out, as a function of "bloques".                      *)

Region(m, x) == [dir |-> x + H, tam |-> m[x].tam]
VivosDe(m) == {Region(m, x) : x \in {y \in DOMAIN m : ~m[y].free}}

LEMMA VivosSonVivos == Vivos = VivosDe(bloques) /\ Vivos' = VivosDe(bloques')
BY DEF Vivos, VivosDe, Region, Dirs

LEMMA VivosAlReservar ==
  ASSUME NEW m, NEW x \in Dirs, bloques[x].free, ~m[x].free,
         NEW N, DOMAIN m = Dirs \cup N, \A y \in N : m[y].free,
         \A y \in Dirs : y # x => m[y].free = bloques[y].free /\ m[y].tam = bloques[y].tam
  PROVE  VivosDe(m) = VivosDe(bloques) \cup {Region(m, x)}
<1>1. ASSUME NEW r \in VivosDe(m)
      PROVE  r \in VivosDe(bloques) \cup {Region(m, x)}
  <2>1. PICK y \in DOMAIN m : ~m[y].free /\ r = Region(m, y)
    BY DEF VivosDe
  <2>2. CASE y # x
    <3>1. y \in Dirs /\ ~bloques[y].free /\ Region(m, y) = Region(bloques, y)
      BY <2>1, <2>2 DEF Region
    <3> QED BY <2>1, <3>1 DEF VivosDe, Dirs
  <2> QED BY <2>1, <2>2
<1>2. ASSUME NEW r \in VivosDe(bloques) PROVE r \in VivosDe(m)
  <2>1. PICK y \in Dirs : ~bloques[y].free /\ r = Region(bloques, y)
    BY DEF VivosDe, Dirs
  <2>2. y \in DOMAIN m /\ ~m[y].free /\ Region(m, y) = Region(bloques, y)
    BY <2>1 DEF Region
  <2> QED BY <2>1, <2>2 DEF VivosDe
<1>3. Region(m, x) \in VivosDe(m)
  BY DEF VivosDe
<1> QED BY <1>1, <1>2, <1>3

LEMMA VivosAlDevolver ==
  ASSUME NEW m, NEW x \in Dirs, ~bloques[x].free, DOMAIN m \subseteq Dirs, Dirs \subseteq Nat,
         \A y \in Dirs \ DOMAIN m : y = x \/ bloques[y].free,
         x \in DOMAIN m => m[x].free,
         \A y \in DOMAIN m : y # x =>
            m[y].free = bloques[y].free /\ (~m[y].free => m[y].tam = bloques[y].tam)
  PROVE  /\ VivosDe(m) = VivosDe(bloques) \ {Region(bloques, x)}
         /\ Region(bloques, x) \in VivosDe(bloques)
<1>1. ASSUME NEW y \in Dirs, y # x PROVE Region(m, y) # Region(bloques, x)
                                         /\ Region(bloques, y) # Region(bloques, x)
  <2>1. y + H # x + H
    BY <1>1, SuposicionPool
  <2> QED BY <2>1 DEF Region
<1>2. ASSUME NEW r \in VivosDe(m)
      PROVE  r \in VivosDe(bloques) /\ r # Region(bloques, x)
  <2>1. PICK y \in DOMAIN m : ~m[y].free /\ r = Region(m, y)
    BY DEF VivosDe
  <2>2. y # x /\ y \in Dirs /\ ~bloques[y].free /\ m[y].tam = bloques[y].tam
    BY <2>1
  <2>3. Region(m, y) = Region(bloques, y)
    BY <2>2 DEF Region
  <2> QED BY <1>1, <2>1, <2>2, <2>3 DEF VivosDe, Dirs
<1>3. ASSUME NEW r \in VivosDe(bloques), r # Region(bloques, x) PROVE r \in VivosDe(m)
  <2>1. PICK y \in Dirs : ~bloques[y].free /\ r = Region(bloques, y)
    BY DEF VivosDe, Dirs
  <2>2. y # x /\ y \in DOMAIN m
    BY <1>3, <2>1
  <2>3. ~m[y].free /\ Region(m, y) = Region(bloques, y)
    BY <2>1, <2>2 DEF Region
  <2> QED BY <2>1, <2>2, <2>3 DEF VivosDe
<1>4. Region(bloques, x) \in VivosDe(bloques)
  BY DEF VivosDe, Dirs
<1> QED BY <1>2, <1>3, <1>4

-----------------------------------------------------------------------------
(* The inductive invariant: the four invariants of PoolProp together.       *)

Resto ==
  /\ b \in Dirs \cup {0} /\ pedido \in Tams \cup {0} /\ resp \in Nat
  /\ b # 0 => pedido # 0

IInv ==
  Tipo(bloques) /\ Cadena(bloques) /\ Separados(bloques) /\ Resto /\ BusquedaCompleta

LEMMA InvariantesDeIInv ==
  IInv <=> TypeOK /\ CadenaSana /\ LibresJuntos /\ BusquedaCompleta
BY CadenaEsCadena, SeparadosEsLibresJuntos DEF IInv, Tipo, Resto, TypeOK, Dirs

LEMMA InicioIInv == Init => IInv /\ Abstracto!Init
<1> SUFFICES ASSUME Init PROVE IInv /\ Abstracto!Init
  OBVIOUS
<1> USE SuposicionPool
<1>1. /\ DOMAIN bloques = {INICIO}
      /\ bloques[INICIO] = [prev |-> 0, next |-> 0, tam |-> FIN - INICIO - H, free |-> TRUE]
  BY DEF Init
<1>2. bloques[INICIO] \in Cabecera /\ bloques[INICIO].prev = 0 /\ bloques[INICIO].next = 0
      /\ bloques[INICIO].free /\ bloques[INICIO].tam = FIN - INICIO - H
  <2>1. FIN - INICIO - H \in Nat
    OBVIOUS
  <2>2. \A t \in Nat : [prev |-> 0, next |-> 0, tam |-> t, free |-> TRUE] \in Cabecera
    BY DEF Cabecera
  <2> QED BY <1>1, <2>1, <2>2
<1>3. Tipo(bloques)
  <2>1. bloques = [x \in DOMAIN bloques |-> bloques[x]]
    BY DEF Init
  <2>2. INICIO \in INICIO .. FIN - H
    OBVIOUS
  <2> QED BY <1>1, <1>2, <2>1, <2>2 DEF Tipo
<1>4. Cadena(bloques)
  BY <1>1, <1>2 DEF Cadena, Sigue, Precede, Ordena, Hasta
<1>5. Separados(bloques) /\ Resto /\ BusquedaCompleta
  BY <1>1, <1>2 DEF Separados, Resto, BusquedaCompleta, Init, Dirs
<1>6. Vivos = {}
  BY <1>1, <1>2 DEF Vivos, Dirs
<1> QED BY <1>3, <1>4, <1>5, <1>6 DEF IInv, Init, Abstracto!Init

LEMMA PidePaso ==
  ASSUME IInv, Pide
  PROVE  IInv' /\ Abstracto!Pide
<1> USE SuposicionPool
<1>1. /\ pedido = 0 /\ pedido' \in Tams /\ UNCHANGED <<bloques, resp>>
      /\ b' = IF pedido' > FIN - INICIO - H THEN 0 ELSE INICIO
      /\ pedido' \in Nat /\ pedido' # 0
  BY DEF Pide
<1>2. Tipo(bloques)' /\ Cadena(bloques)' /\ Separados(bloques)'
  BY <1>1 DEF IInv, Tipo, Cadena, Separados, Sigue, Precede, Ordena, Hasta
<1>3. Resto'
  BY <1>1 DEF IInv, Cadena, Resto, Dirs
<1>4. BusquedaCompleta'
  <2>1. ASSUME NEW x \in Dirs, b' = 0 PROVE ~(bloques[x].tam >= pedido')
    <3>1. x \in Nat /\ INICIO <= x /\ bloques[x] \in Cabecera /\ Hasta(bloques, x) <= FIN
      BY Vecinos DEF IInv
    <3>2. bloques[x].tam \in Nat
      BY <3>1 DEF Cabecera
    <3>3. pedido' > FIN - INICIO - H
      BY <1>1, <2>1
    <3> QED BY <1>1, <3>1, <3>2, <3>3 DEF Hasta
  <2>2. ASSUME NEW x \in Dirs, b' # 0 PROVE ~(x < b')
    <3>1. x \in Nat /\ INICIO <= x
      BY Vecinos DEF IInv
    <3> QED BY <1>1, <2>2, <3>1
  <2> QED BY <1>1, <2>1, <2>2 DEF BusquedaCompleta, Cabe, Dirs
<1>5. Vivos' = Vivos
  BY <1>1 DEF Vivos, Dirs
<1> QED BY <1>1, <1>2, <1>3, <1>4, <1>5 DEF IInv, Abstracto!Pide

LEMMA AvanzaPaso ==
  ASSUME IInv, Avanza
  PROVE  IInv' /\ UNCHANGED Abstracto!vars
<1> USE SuposicionPool
<1>1. /\ b # 0 /\ ~Cabe(b) /\ b' = bloques[b].next
      /\ UNCHANGED <<bloques, pedido, resp>> /\ b \in Dirs
  BY DEF Avanza, IInv, Resto
<1>2. Tipo(bloques)' /\ Cadena(bloques)' /\ Separados(bloques)'
  BY <1>1 DEF IInv, Tipo, Cadena, Separados, Sigue, Precede, Ordena, Hasta
<1>3. /\ b' # 0 => b' \in Dirs /\ b' = Hasta(bloques, b)
      /\ b' = 0 => Hasta(bloques, b) = FIN
      /\ \A y \in Dirs : b < y => Hasta(bloques, b) <= y
      /\ b \in Nat
      /\ \A y \in Dirs : y \in Nat /\ y <= FIN - H
  BY <1>1, Vecinos DEF IInv
<1>4. Resto'
  BY <1>1, <1>3 DEF IInv, Resto, Dirs
<1>5. BusquedaCompleta'
  <2>1. ASSUME NEW x \in Dirs, b' = 0 \/ x < b' PROVE ~Cabe(x)
    <3>1. x <= b
      <4>1. CASE b' = 0
        BY <1>3, <4>1
      <4>2. CASE b' # 0
        BY <1>3, <2>1, <4>2
      <4> QED BY <4>1, <4>2
    <3>2. x < b => ~Cabe(x)
      BY <1>1 DEF IInv, BusquedaCompleta, Resto
    <3> QED BY <1>1, <1>3, <3>1, <3>2
  <2> QED BY <1>1, <2>1 DEF BusquedaCompleta, Cabe, Dirs
<1>6. Vivos' = Vivos
  BY <1>1 DEF Vivos, Dirs
<1> QED BY <1>1, <1>2, <1>4, <1>5, <1>6 DEF IInv, Abstracto!vars

-----------------------------------------------------------------------------
(* A refusal is justified.                                                  *)

\* The last block that begins at an address or before it.
LEMMA UltimoHasta ==
  ASSUME Tipo(bloques), Cadena(bloques), NEW d \in Nat, INICIO <= d
  PROVE  \E y \in Dirs : y <= d /\ \A w \in Dirs : w <= d => w <= y
<1> USE SuposicionPool
<1> DEFINE S == {y \in Dirs : y <= d}
           Resta(x) == x .. d
           T == {Resta(x) : x \in S}
           Orden == StrictSubsetOrdering(0 .. d)
<1>1. S \subseteq Nat /\ INICIO \in S /\ \A x \in S : Resta(x) \in SUBSET (0 .. d)
  <2>1. \A x \in Dirs : x \in Nat
    BY Vecinos
  <2> QED BY <2>1 DEF Cadena, Dirs
<1>2. T \subseteq FiniteSubsetsOf(0 .. d) /\ T # {}
  <2>1. \A x \in S : IsFiniteSet(Resta(x))
    BY <1>1, FS_Interval
  <2> HIDE DEF Resta, S
  <2> QED BY <1>1, <2>1 DEF FiniteSubsetsOf
<1>3. IsWellFoundedOn(Orden, FiniteSubsetsOf(0 .. d))
  BY FS_StrictSubsetOrderingWellFounded
<1>4. \E U \in T : \A V \in T : ~ (<<V, U>> \in Orden)
  <2> HIDE DEF T, Orden
  <2> QED BY <1>2, <1>3, WFMin
<1>5. PICK x \in S : \A y \in S : ~ (<<Resta(y), Resta(x)>> \in Orden)
  BY <1>4
<1>6. ASSUME NEW y \in S, x < y PROVE FALSE
  <2>1. Resta(y) \subseteq Resta(x) /\ x \in Resta(x) /\ x \notin Resta(y)
    BY <1>1, <1>6
  <2>2. <<Resta(y), Resta(x)>> \in Orden
    BY <1>1, <2>1 DEF StrictSubsetOrdering
  <2> QED BY <1>5, <2>2
<1> QED BY <1>1, <1>6

\* With the search over and nothing found, no gap between the regions has room
\* for a header and the size asked for: a gap is one free block, which would do.
LEMMA NadaCabe ==
  ASSUME IInv, b = 0, pedido # 0, NEW d \in INICIO .. FIN,
         Abstracto!Libre(d, d + H + pedido)
  PROVE  FALSE
<1> USE SuposicionPool
<1>1. pedido \in Nat /\ d \in Nat /\ INICIO <= d /\ d + H + pedido <= FIN
  BY DEF IInv, Resto, Abstracto!Libre
<1>2. ASSUME NEW y \in Dirs, ~bloques[y].free
      PROVE  d + H + pedido <= y \/ Hasta(bloques, y) <= d
  <2>1. Region(bloques, y) \in Vivos
    BY <1>2, VivosSonVivos DEF VivosDe, Dirs
  <2>2. Abstracto!Disjunto(d, d + H + pedido, Region(bloques, y))
    BY <2>1 DEF Abstracto!Libre
  <2>3. y \in Nat /\ bloques[y].tam \in Nat
    BY Vecinos DEF IInv, Cabecera
  <2> QED BY <1>1, <2>2, <2>3 DEF Abstracto!Disjunto, Region, Hasta
<1>3. PICK y \in Dirs : y <= d /\ \A w \in Dirs : w <= d => w <= y
  BY <1>1, UltimoHasta DEF IInv
<1> DEFINE n == bloques[y].next
           t == bloques[y].tam
<1>4. /\ y \in Nat /\ t \in Nat /\ Hasta(bloques, y) = y + H + t
      /\ n = 0 => Hasta(bloques, y) = FIN
      /\ n # 0 => n \in Dirs /\ n = Hasta(bloques, y) /\ y < n /\ n \in Nat
  <2>1. bloques[y] \in Cabecera /\ y \in Nat
    BY Vecinos DEF IInv
  <2> QED BY <2>1, Vecinos DEF IInv, Cabecera, Hasta
<1> HIDE DEF n, t
<1>5. d < Hasta(bloques, y)
  <2>1. CASE n = 0
    BY <1>1, <1>4, <2>1
  <2>2. CASE n # 0
    BY <1>1, <1>3, <1>4, <2>2
  <2> QED BY <2>1, <2>2
<1>6. bloques[y].free
  <2>1. ~(d + H + pedido <= y)
    BY <1>1, <1>3, <1>4
  <2>2. ~(Hasta(bloques, y) <= d)
    BY <1>1, <1>4, <1>5
  <2> QED BY <1>2, <2>1, <2>2
<1>7. d + H + pedido <= Hasta(bloques, y)
  <2>1. CASE n = 0
    BY <1>1, <1>4, <2>1
  <2>2. CASE n # 0
    <3>1. ~bloques[n].free
      BY <1>6, <2>2 DEF IInv, Separados, Dirs, n
    <3>2. n \in Dirs /\ n = Hasta(bloques, y) /\ n < Hasta(bloques, n)
      <4>1. n \in Dirs /\ n = Hasta(bloques, y) /\ n \in Nat
        BY <1>4, <2>2
      <4>2. bloques[n].tam \in Nat
        BY <4>1, Vecinos DEF IInv, Cabecera
      <4> QED BY <4>1, <4>2 DEF Hasta
    <3>3. ~(Hasta(bloques, n) <= d)
      <4>1. bloques[n].tam \in Nat
        BY <3>2, Vecinos DEF IInv, Cabecera
      <4> QED BY <1>1, <1>4, <1>5, <2>2, <3>2, <4>1 DEF Hasta
    <3> QED BY <1>2, <3>1, <3>2, <3>3
  <2> QED BY <2>1, <2>2
<1>8. t >= pedido
  BY <1>1, <1>3, <1>4, <1>7
<1>9. ~Cabe(y)
  BY DEF IInv, BusquedaCompleta
<1> QED BY <1>6, <1>8, <1>9 DEF Cabe, t

LEMMA AgotaPaso ==
  ASSUME IInv, Agota
  PROVE  IInv' /\ Abstracto!Niega
<1>1. b = 0 /\ pedido # 0 /\ resp' = 0 /\ pedido' = 0 /\ UNCHANGED <<bloques, b>>
  BY DEF Agota
<1>2. Tipo(bloques)' /\ Cadena(bloques)' /\ Separados(bloques)'
  BY <1>1 DEF IInv, Tipo, Cadena, Separados, Sigue, Precede, Ordena, Hasta
<1>3. Resto' /\ BusquedaCompleta'
  BY <1>1 DEF IInv, Resto, BusquedaCompleta, Dirs
<1>4. Vivos' = Vivos
  BY <1>1 DEF Vivos, Dirs
<1>5. \A d \in Abstracto!Huecos : ~Abstracto!Libre(d, d + H + pedido)
  BY <1>1, NadaCabe DEF Abstracto!Huecos
<1> QED BY <1>1, <1>2, <1>3, <1>4, <1>5 DEF IInv, Abstracto!Niega

-----------------------------------------------------------------------------
(* Allocation and release.                                                  *)

\* Where the block of the cursor lies is in no region handed out.
LEMMA SitioLibre ==
  ASSUME IInv, NEW x \in Dirs, bloques[x].free, NEW t \in Nat, t <= bloques[x].tam
  PROVE  Abstracto!Libre(x, x + H + t) /\ x \in Abstracto!Huecos
<1> USE SuposicionPool
<1>1. /\ x \in Nat /\ INICIO <= x /\ bloques[x].tam \in Nat
      /\ x + H + bloques[x].tam <= FIN
      /\ \A y \in Dirs : x < y => x + H + bloques[x].tam <= y
  <2>1. x \in Nat /\ INICIO <= x /\ bloques[x].tam \in Nat
    BY Vecinos DEF IInv, Cabecera
  <2> QED BY <2>1, Vecinos DEF IInv, Hasta
<1>2. ASSUME NEW r \in Vivos PROVE Abstracto!Disjunto(x, x + H + t, r)
  <2>1. PICK y \in Dirs : ~bloques[y].free /\ r = Region(bloques, y)
    BY VivosSonVivos DEF VivosDe, Dirs
  <2>2. y \in Nat /\ bloques[y].tam \in Nat /\ y # x
        /\ (y < x => Hasta(bloques, y) <= x)
    BY <2>1, Vecinos DEF IInv, Cabecera
  <2>3. r.dir = y + H /\ r.tam = bloques[y].tam
    BY <2>1 DEF Region
  <2>4. CASE y < x
    BY <1>1, <2>2, <2>3, <2>4 DEF Abstracto!Disjunto, Hasta
  <2>5. CASE x < y
    <3>1. x + H + bloques[x].tam <= y
      BY <1>1, <2>5
    <3> QED BY <1>1, <2>2, <2>3, <3>1 DEF Abstracto!Disjunto
  <2> QED BY <1>1, <2>2, <2>4, <2>5
<1> QED BY <1>1, <1>2 DEF Abstracto!Libre, Abstracto!Huecos

LEMMA ReservaPaso ==
  ASSUME IInv, Reserva
  PROVE  IInv' /\ Abstracto!Concede
<1> USE SuposicionPool
<1> DEFINE x == b
           t == bloques[x].tam
<1>1. /\ x \in Dirs /\ bloques[x].free /\ t >= pedido /\ pedido # 0 /\ pedido \in Nat
      /\ bloques' = IF t - pedido < 2 * H THEN Entera(x) ELSE Partida(x)
      /\ resp' = x + H /\ b' = 0 /\ pedido' = 0
      /\ x \in Nat /\ t \in Nat /\ bloques[x] \in Cabecera
  <2>1. b \in Dirs /\ pedido # 0 /\ pedido \in Nat /\ Cabe(b)
    BY DEF Reserva, IInv, Resto
  <2>2. b \in Nat /\ bloques[b] \in Cabecera
    BY <2>1, Vecinos DEF IInv
  <2> QED BY <2>1, <2>2 DEF Reserva, Cabe, Cabecera
<1>2. Resto' /\ BusquedaCompleta'
  BY <1>1 DEF Resto, BusquedaCompleta
<1> HIDE DEF x, t
\* What is left of the step: the chain, and the region that is handed out.
<1>3. SUFFICES /\ Tipo(bloques') /\ Cadena(bloques') /\ Separados(bloques')
               /\ \E tam \in pedido .. pedido + 2 * H - 1 :
                    /\ tam <= t
                    /\ VivosDe(bloques') = VivosDe(bloques) \cup {[dir |-> x + H, tam |-> tam]}
  <2>1. ASSUME NEW tam \in pedido .. pedido + 2 * H - 1, tam <= t
        PROVE  Abstracto!Libre(x, x + H + tam) /\ x \in Abstracto!Huecos
    BY <1>1, <2>1, SitioLibre DEF t
  <2> QED BY <1>1, <1>2, <2>1, VivosSonVivos
         DEF IInv, Tipo, Cadena, Separados, Abstracto!Concede, Sigue, Precede, Ordena, Hasta
<1>4. CASE t - pedido < 2 * H
  <2>1. bloques' = [bloques EXCEPT ![x].free = FALSE]
    BY <1>1, <1>4 DEF Entera
  <2>2. Tipo(bloques') /\ Cadena(bloques')
    BY <1>1, <2>1, SoloFreeSana DEF IInv
  <2>3. /\ DOMAIN bloques' = Dirs
        /\ ~bloques'[x].free /\ bloques'[x].tam = t /\ bloques'[x].next = bloques[x].next
        /\ \A y \in Dirs : y # x => bloques'[y] = bloques[y]
    BY <1>1, <2>1 DEF Dirs, Cabecera, t
  <2>4. Separados(bloques')
    <3>1. ASSUME NEW y \in Dirs, bloques'[y].free, bloques'[y].next # 0
          PROVE  ~bloques'[bloques'[y].next].free
      <4>1. y # x /\ bloques'[y] = bloques[y] /\ bloques[y].next \in Dirs
        <5>1. y # x
          BY <2>3, <3>1
        <5> QED BY <2>3, <3>1, <5>1, Vecinos DEF IInv
      <4>2. ~bloques[bloques[y].next].free
        BY <3>1, <4>1 DEF IInv, Separados, Dirs
      <4> QED BY <2>3, <4>1, <4>2
    <3> QED BY <2>3, <3>1 DEF Separados
  <2>5. VivosDe(bloques') = VivosDe(bloques) \cup {Region(bloques', x)}
    <3> DEFINE N == {}
    <3>1. DOMAIN bloques' = Dirs \cup N /\ \A y \in N : bloques'[y].free
      BY <2>3
    <3> HIDE DEF N
    <3>2. x \in Dirs /\ bloques[x].free /\ ~bloques'[x].free
      BY <1>1, <2>3
    <3>3. \A y \in Dirs : y # x =>
            bloques'[y].free = bloques[y].free /\ bloques'[y].tam = bloques[y].tam
      BY <2>3
    <3> QED BY <3>1, <3>2, <3>3, VivosAlReservar, Zenon
  <2>6. Region(bloques', x) = [dir |-> x + H, tam |-> t]
    BY <2>3 DEF Region
  <2>7. t \in pedido .. pedido + 2 * H - 1
    BY <1>1, <1>4
  <2> QED BY <1>1, <2>2, <2>4, <2>5, <2>6, <2>7
<1>5. CASE ~(t - pedido < 2 * H)
  <2> DEFINE n == Nuevo(x)
  <2>1. bloques' = Partida(x) /\ t - pedido >= 2 * H
    BY <1>1, <1>5
  <2>2. /\ Tipo(bloques') /\ Cadena(bloques') /\ n \notin Dirs
        /\ DOMAIN bloques' = Dirs \cup {n}
        /\ bloques'[n].free /\ bloques'[n].next = bloques[x].next
        /\ ~bloques'[x].free /\ bloques'[x].next = n /\ bloques'[x].tam = pedido
        /\ \A y \in Dirs : y # x => /\ bloques'[y].free = bloques[y].free
                                    /\ bloques'[y].tam = bloques[y].tam
                                    /\ bloques'[y].next = bloques[y].next
    <3>1. bloques[x].tam - pedido >= 2 * H
      BY <2>1 DEF t
    <3>2. Tipo(bloques) /\ Cadena(bloques) /\ x \in Dirs /\ pedido \in Nat
      BY <1>1 DEF IInv
    <3> QED BY <2>1, <3>1, <3>2, PartidaSana, Zenon
  <2> HIDE DEF n
  <2>3. Separados(bloques')
    <3>1. ASSUME NEW y \in Dirs, bloques[y].next # 0, bloques[y].free
          PROVE  bloques[y].next \in Dirs /\ ~bloques[bloques[y].next].free
      BY <3>1, Vecinos DEF IInv, Separados, Dirs
    <3>2. ASSUME NEW z \in Dirs, ~bloques[z].free PROVE ~bloques'[z].free
      BY <2>2, <3>2
    <3>3. ASSUME NEW y \in DOMAIN bloques', bloques'[y].free, bloques'[y].next # 0
          PROVE  ~bloques'[bloques'[y].next].free
      <4>1. CASE y = n
        BY <1>1, <2>2, <3>1, <3>2, <3>3, <4>1
      <4>2. CASE y # n
        <5>1. y \in Dirs /\ y # x
          BY <2>2, <3>3, <4>2
        <5> QED BY <2>2, <3>1, <3>2, <3>3, <5>1
      <4> QED BY <4>1, <4>2
    <3> QED BY <3>3 DEF Separados
  <2>4. VivosDe(bloques') = VivosDe(bloques) \cup {Region(bloques', x)}
    <3>1. DOMAIN bloques' = Dirs \cup {n} /\ \A y \in {n} : bloques'[y].free
      BY <2>2
    <3>2. x \in Dirs /\ bloques[x].free /\ ~bloques'[x].free
      BY <1>1, <2>2
    <3>3. \A y \in Dirs : y # x =>
            bloques'[y].free = bloques[y].free /\ bloques'[y].tam = bloques[y].tam
      BY <2>2
    <3> QED BY <3>1, <3>2, <3>3, VivosAlReservar, Zenon
  <2>5. Region(bloques', x) = [dir |-> x + H, tam |-> pedido]
    BY <2>2 DEF Region
  <2>6. pedido \in pedido .. pedido + 2 * H - 1
    BY <1>1
  <2> QED BY <1>1, <2>2, <2>3, <2>4, <2>5, <2>6
<1> QED BY <1>4, <1>5

LEMMA DevuelvePaso ==
  ASSUME IInv, Devuelve
  PROVE  IInv' /\ Abstracto!Devuelve
<1> USE SuposicionPool
<1>1. PICK x \in Dirs : ~bloques[x].free /\ bloques' = Devuelto(x)
  BY DEF Devuelve
<1>2. pedido = 0 /\ b = 0 /\ UNCHANGED <<b, pedido, resp>>
  BY DEF Devuelve, IInv, Resto
<1>3. Resto' /\ BusquedaCompleta'
  BY <1>2 DEF IInv, Resto, BusquedaCompleta
<1>4. SUFFICES /\ Tipo(bloques') /\ Cadena(bloques') /\ Separados(bloques')
               /\ VivosDe(bloques') = VivosDe(bloques) \ {Region(bloques, x)}
               /\ Region(bloques, x) \in VivosDe(bloques)
  BY <1>2, <1>3, VivosSonVivos
     DEF IInv, Tipo, Cadena, Separados, Abstracto!Devuelve, Sigue, Precede, Ordena, Hasta
<1>5. /\ \A y \in Dirs : y \in Nat /\ bloques[y] \in Cabecera
      /\ \A y \in Dirs : bloques[y].next # 0 =>
           bloques[y].next \in Dirs /\ bloques[bloques[y].next].prev = y
      /\ \A y \in Dirs : bloques[y].free => ~EsLibre(bloques[y].next)
      /\ Dirs \subseteq Nat
  <2>1. \A y \in Dirs : y \in Nat /\ bloques[y] \in Cabecera
    BY Vecinos DEF IInv
  <2>2. \A y \in Dirs : bloques[y].next # 0 =>
          bloques[y].next \in Dirs /\ bloques[bloques[y].next].prev = y
    BY Vecinos DEF IInv
  <2> QED BY <2>1, <2>2 DEF IInv, Separados, EsLibre, Dirs
<1>6. CASE /\ ~EsLibre(bloques[x].prev) /\ ~EsLibre(bloques[x].next)
           /\ Devuelto(x) = [bloques EXCEPT ![x].free = TRUE]
  <2>1. bloques' = [bloques EXCEPT ![x].free = TRUE]
    BY <1>1, <1>6
  <2>2. Tipo(bloques') /\ Cadena(bloques')
    BY <2>1, SoloFreeSana DEF IInv
  <2>3. /\ DOMAIN bloques' = Dirs
        /\ bloques'[x].free /\ bloques'[x].next = bloques[x].next
        /\ \A y \in Dirs : y # x => bloques'[y] = bloques[y]
    BY <1>5, <2>1 DEF Dirs, Cabecera
  <2>4. Separados(bloques')
    <3>1. ASSUME NEW y \in Dirs, bloques'[y].free, bloques'[y].next # 0
          PROVE  ~bloques'[bloques'[y].next].free
      <4>1. bloques'[y].next = bloques[y].next
        BY <2>3
      <4> DEFINE z == bloques[y].next
      <4>2. z # 0 /\ z \in Dirs /\ bloques[z].prev = y
        BY <1>5, <3>1, <4>1
      <4>3. y # 0
        BY Vecinos DEF IInv
      <4>4. ~bloques[z].free
        BY <1>5, <1>6, <2>3, <3>1, <4>2 DEF EsLibre
      <4>5. z # x
        BY <1>6, <2>3, <3>1, <4>2, <4>3, <1>5, Vecinos DEF EsLibre, IInv
      <4> QED BY <2>3, <4>1, <4>2, <4>4, <4>5
    <3> QED BY <2>3, <3>1 DEF Separados
  <2>5. \A y \in DOMAIN bloques' : y # x =>
          /\ bloques'[y].free = bloques[y].free
          /\ ~bloques'[y].free => bloques'[y].tam = bloques[y].tam
    BY <2>3
  <2>6. DOMAIN bloques' \subseteq Dirs /\ (\A y \in Dirs \ DOMAIN bloques' : y = x \/ bloques[y].free)
    BY <2>3
  <2> QED BY <1>1, <1>5, <2>2, <2>3, <2>4, <2>5, <2>6, VivosAlDevolver, Zenon
<1>7. ASSUME NEW w \in Dirs, NEW tam, NEW z, NEW A,
             Absorbe(w, tam, z, A), Devuelto(x) = Junta(w, tam, z, A),
             w = x \/ (w \notin A /\ x \in A),
             \A y \in A \cup {w} : y = x \/ bloques[y].free,
             ~EsLibre(bloques[w].prev), ~EsLibre(z)
      PROVE  /\ Tipo(bloques') /\ Cadena(bloques') /\ Separados(bloques')
             /\ VivosDe(bloques') = VivosDe(bloques) \ {Region(bloques, x)}
             /\ Region(bloques, x) \in VivosDe(bloques)
  <2>1. /\ Tipo(bloques') /\ Cadena(bloques')
        /\ DOMAIN bloques' = Dirs \ A /\ w \in DOMAIN bloques'
        /\ bloques'[w].free /\ bloques'[w].next = z
        /\ \A y \in DOMAIN bloques' : y # w => /\ bloques'[y].free = bloques[y].free
                                               /\ bloques'[y].tam = bloques[y].tam
                                               /\ bloques'[y].next = bloques[y].next
    <3>1. bloques' = Junta(w, tam, z, A)
      BY <1>1, <1>7
    <3>2. Tipo(bloques) /\ Cadena(bloques)
      BY DEF IInv
    <3>3. Absorbe(w, tam, z, A)
      BY <1>7
    <3>4. Juntado(bloques', w, z, A)
      BY <3>1, <3>2, <3>3, JuntaSana
    <3> QED BY <3>4 DEF Juntado
  <2>2. \A y \in DOMAIN bloques' :
          y \in Dirs /\ (bloques'[y].next # 0 => bloques'[y].next \in DOMAIN bloques')
    <3>1. ASSUME NEW y \in DOMAIN bloques', bloques'[y].next # 0
          PROVE  bloques'[y].next \in DOMAIN bloques'
      BY <2>1, <3>1 DEF Cadena, Sigue
    <3> QED BY <2>1, <3>1
  <2>3. Separados(bloques')
    <3>1. ASSUME NEW y \in DOMAIN bloques', bloques'[y].free, bloques'[y].next # 0
          PROVE  ~bloques'[bloques'[y].next].free
      <4>1. CASE y = w
        <5>1. z \in DOMAIN bloques' /\ z # 0 /\ z # w
          <6>1. z # 0 /\ z \in DOMAIN bloques'
            BY <2>1, <2>2, <3>1, <4>1
          <6>2. z = w + H + tam /\ w \in Nat /\ tam \in Nat
            BY <1>5, <1>7, <6>1 DEF Absorbe
          <6> QED BY <6>1, <6>2
        <5> QED BY <1>7, <2>1, <4>1, <5>1 DEF EsLibre
      <4>2. CASE y # w
        <5> DEFINE v == bloques[y].next
        <5>1. /\ y \in Dirs /\ bloques'[y].next = v /\ v # 0 /\ v \in DOMAIN bloques'
              /\ bloques[y].free /\ bloques[v].prev = y /\ y # 0
          <6>1. y \in Dirs /\ bloques'[y].next = v /\ v # 0 /\ v \in DOMAIN bloques'
                /\ bloques[y].free
            BY <2>1, <2>2, <3>1, <4>2
          <6> QED BY <1>5, <6>1, Vecinos DEF IInv
        <5>2. ~bloques[v].free
          BY <1>5, <5>1 DEF EsLibre
        <5>3. v # w
          BY <1>7, <5>1 DEF EsLibre
        <5> QED BY <2>1, <5>1, <5>2, <5>3
      <4> QED BY <4>1, <4>2
    <3> QED BY <3>1 DEF Separados
  <2>4. \A y \in DOMAIN bloques' : y # x =>
          /\ bloques'[y].free = bloques[y].free
          /\ ~bloques'[y].free => bloques'[y].tam = bloques[y].tam
    <3>1. ASSUME w # x PROVE bloques'[w].free = bloques[w].free
      <4>1. bloques[w].free = TRUE /\ bloques'[w].free = TRUE
        <5>1. bloques[w] \in Cabecera /\ bloques'[w] \in Cabecera
          BY <1>5, <2>1 DEF Tipo
        <5>2. bloques[w].free \in BOOLEAN /\ bloques'[w].free \in BOOLEAN
          BY <5>1 DEF Cabecera
        <5> QED BY <1>7, <2>1, <3>1, <5>2
      <4> QED BY <4>1
    <3> QED BY <2>1, <3>1
  <2>5. /\ DOMAIN bloques' \subseteq Dirs
        /\ \A y \in Dirs \ DOMAIN bloques' : y = x \/ bloques[y].free
        /\ x \in DOMAIN bloques' => bloques'[x].free
    BY <1>7, <2>1
  <2> QED BY <1>1, <1>5, <2>1, <2>3, <2>4, <2>5, VivosAlDevolver, Zenon
<1>8. Tipo(bloques) /\ Cadena(bloques) /\ Separados(bloques)
  BY DEF IInv
<1> QED BY <1>1, <1>6, <1>7, <1>8, DevueltoEsJunta

-----------------------------------------------------------------------------

LEMMA PasoIInv ==
  ASSUME IInv, [Next]_vars
  PROVE  IInv' /\ [Abstracto!Next]_Abstracto!vars
<1>1. CASE Pide     BY <1>1, PidePaso DEF Abstracto!Next
<1>2. CASE Avanza   BY <1>2, AvanzaPaso
<1>3. CASE Agota    BY <1>3, AgotaPaso DEF Abstracto!Next
<1>4. CASE Reserva  BY <1>4, ReservaPaso DEF Abstracto!Next
<1>5. CASE Devuelve BY <1>5, DevuelvePaso DEF Abstracto!Next
<1>6. CASE UNCHANGED vars
  <2>1. UNCHANGED <<bloques, b, pedido, resp>>
    BY <1>6 DEF vars
  <2>2. Vivos' = Vivos
    BY <2>1 DEF Vivos, Dirs
  <2> QED BY <2>1, <2>2 DEF IInv, Tipo, Cadena, Separados, Resto, BusquedaCompleta, Cabe, Dirs,
             Sigue, Precede, Ordena, Hasta, Abstracto!vars
<1> QED BY <1>1, <1>2, <1>3, <1>4, <1>5, <1>6 DEF Next

LEMMA InvariantePool == Spec => []IInv
<1>1. Init => IInv
  BY InicioIInv
<1>2. IInv /\ [Next]_vars => IInv'
  BY PasoIInv
<1> QED BY <1>1, <1>2, PTL DEF Spec

\* The variables keep their types; the cursor of the search is always a header.
THEOREM TiposPool == Spec => []TypeOK
BY InvariantePool, InvariantesDeIInv, PTL

\* After any sequence of allocations and releases the blocks cover the area and the
\* two links of every pair agree: for every area, header and size.
THEOREM CadenaSiempreSana == Spec => []CadenaSana
BY InvariantePool, InvariantesDeIInv, PTL

\* No two free blocks ever meet.
THEOREM LibresSiempreJuntos == Spec => []LibresJuntos
BY InvariantePool, InvariantesDeIInv, PTL

\* The search has passed only blocks that will not do.
THEOREM BusquedaSinOmisiones == Spec => []BusquedaCompleta
BY InvariantePool, InvariantesDeIInv, PTL

\* pool.h keeps the promise of a heap: what it hands out overlaps nothing that is
\* in use, and it answers a null pointer only when no gap is large enough.
THEOREM PoolImplementaMonton == Spec => ImplementaMonton
<1>1. Init => IInv /\ Abstracto!Init
  BY InicioIInv
<1>2. IInv /\ [Next]_vars => IInv' /\ [Abstracto!Next]_Abstracto!vars
  BY PasoIInv
<1> QED BY <1>1, <1>2, PTL DEF Spec, ImplementaMonton, Abstracto!Spec
=============================================================================
