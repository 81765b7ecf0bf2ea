------------------------------ MODULE PoolProp ------------------------------
(***************************************************************************)
(* What the heap of module Pool has to satisfy.                             *)
(***************************************************************************)
EXTENDS Pool

\* The values of the variables: among them, that the cursor is a header.
TypeOK ==
  /\ bloques \in [Dirs -> Cabecera] /\ Dirs \subseteq INICIO .. FIN - H
  /\ b \in Dirs \cup {0} /\ pedido \in Tams \cup {0}
  /\ resp \in Nat
  /\ b # 0 => pedido # 0

Final(y) == y + H + bloques[y].tam

\* The chain: the blocks cover the area without a hole or an overlap, and prev and
\* next are each other's inverse, after any sequence of splits and joins.
CadenaSana ==
  /\ INICIO \in Dirs
  /\ \A x \in Dirs :
       /\ IF bloques[x].next = 0 THEN Final(x) = FIN
          ELSE bloques[x].next = Final(x) /\ Final(x) \in Dirs /\ bloques[Final(x)].prev = x
       /\ IF x = INICIO THEN bloques[x].prev = 0
          ELSE bloques[x].prev \in Dirs /\ bloques[bloques[x].prev].next = x
       /\ \A y \in Dirs : x < y => Final(x) <= y

\* No two free blocks follow each other: what was freed can be handed out whole.
LibresJuntos ==
  \A x \in Dirs : bloques[x].free => ~EsLibre(bloques[x].next)

\* The search has left behind only blocks that will not do, so a refusal is
\* about every block.
BusquedaCompleta ==
  pedido # 0 => \A x \in Dirs : b = 0 \/ x < b => ~Cabe(x)

\* The regions that are handed out: the blocks in use, without their headers.
Vivos ==
  {[dir |-> x + H, tam |-> bloques[x].tam] : x \in {y \in Dirs : ~bloques[y].free}}

Abstracto == INSTANCE Monton WITH vivos <- Vivos

\* The heap keeps the promise of Monton.
ImplementaMonton == Abstracto!Spec
=============================================================================
