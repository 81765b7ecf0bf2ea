-------------------------------- MODULE Pool --------------------------------
(***************************************************************************)
(* The heap in the shared segment (pool.h): a doubly linked chain of blocks *)
(* of one area, searched from the front, split on allocation and joined on  *)
(* release. Every operation is made with heap_sema closed (ltmallocator.h,  *)
(* ltmipcs.cc), so one process at a time is in it, and which one does not   *)
(* matter: the search is one step per block, the rest one step.             *)
(*                                                                         *)
(* An address is a number and a header takes H of them; 0 is the null       *)
(* pointer. A header that a join has swallowed is no longer in the domain   *)
(* of "bloques".                                                            *)
(***************************************************************************)
EXTENDS Integers

CONSTANTS
  INICIO,   \* address of the first block: blocks_
  FIN,      \* blocks_ + size_
  H,        \* sizeof (block)
  Tams      \* bound: sizes of the list nodes asked for

ASSUME SuposicionPool ==
  /\ INICIO \in Nat \ {0} /\ H \in Nat \ {0} /\ FIN \in Nat
  /\ FIN > INICIO + H       \* the constructor checks it (min_size)
  /\ Tams \subseteq Nat \ {0}

VARIABLES
  bloques,  \* address of a header -> its prev, next, tam and free
  b,        \* the cursor of the search, 0 when nobody searches
  pedido,   \* the size being asked for, 0 if none
  resp      \* what the last allocate returned

vars == <<bloques, b, pedido, resp>>

Dirs == DOMAIN bloques
Cabecera == [prev : Nat, next : Nat, tam : Nat, free : BOOLEAN]

Init ==
  /\ bloques = [x \in {INICIO} |->
                  [prev |-> 0, next |-> 0, tam |-> FIN - INICIO - H, free |-> TRUE]]
  /\ b = 0 /\ pedido = 0 /\ resp = 0

-----------------------------------------------------------------------------
(* allocate *)

\* The request, and the first test: what no block can hold is refused at once.
Pide ==
  /\ pedido = 0
  /\ pedido' \in Tams
  /\ b' = IF pedido' > FIN - INICIO - H THEN 0 ELSE INICIO
  /\ UNCHANGED <<bloques, resp>>

\* Variant: a block of the very size does not do.
CabeDeSobra(x) == bloques[x].free /\ bloques[x].tam > pedido

Cabe(x) == bloques[x].free /\ bloques[x].tam >= pedido

\* Variant: the search ends at a free block that is too small.
AvanzaLibres ==
  /\ b # 0 /\ ~Cabe(b)
  /\ b' = IF bloques[b].free THEN 0 ELSE bloques[b].next
  /\ UNCHANGED <<bloques, pedido, resp>>

\* On to the next block.
Avanza ==
  /\ b # 0 /\ ~Cabe(b)
  /\ b' = bloques[b].next
  /\ UNCHANGED <<bloques, pedido, resp>>

Agota ==
  /\ b = 0 /\ pedido # 0
  /\ resp' = 0 /\ pedido' = 0
  /\ UNCHANGED <<bloques, b>>

\* The whole block, when what is left is too little for another one; or its
\* front, and a new free block behind.
Entera(x) == [bloques EXCEPT ![x].free = FALSE]
Nuevo(x) == x + H + pedido

\* Variant: the back link of the next block is forgotten.
PartidaSinPrev(x) ==
  [y \in Dirs \cup {Nuevo(x)} |->
     IF y = Nuevo(x)
     THEN [prev |-> x, next |-> bloques[x].next, free |-> TRUE,
           tam |-> bloques[x].tam - pedido - H]
     ELSE IF y = x
     THEN [bloques[x] EXCEPT !.next = Nuevo(x), !.tam = pedido, !.free = FALSE]
     ELSE bloques[y]]

Partida(x) ==
  [y \in Dirs \cup {Nuevo(x)} |->
     IF y = Nuevo(x)
     THEN [prev |-> x, next |-> bloques[x].next, free |-> TRUE,
           tam |-> bloques[x].tam - pedido - H]
     ELSE IF y = x
     THEN [bloques[x] EXCEPT !.next = Nuevo(x), !.tam = pedido, !.free = FALSE]
     ELSE IF y = bloques[x].next THEN [bloques[y] EXCEPT !.prev = Nuevo(x)]
     ELSE bloques[y]]

\* Variant: split whenever something is left.
ReservaAjustada ==
  /\ b # 0 /\ Cabe(b)
  /\ bloques' = IF bloques[b].tam = pedido THEN Entera(b) ELSE Partida(b)
  /\ resp' = b + H /\ b' = 0 /\ pedido' = 0

Reserva ==
  /\ b # 0 /\ Cabe(b)
  /\ bloques' = IF bloques[b].tam - pedido < 2 * H THEN Entera(b) ELSE Partida(b)
  /\ resp' = b + H /\ b' = 0 /\ pedido' = 0

-----------------------------------------------------------------------------
(* deallocate, of a pointer that allocate returned *)

EsLibre(y) == y # 0 /\ bloques[y].free

\* Block x takes in what follows it, up to block z (0 at the end of the chain).
Junta(x, tam, z, absorbidos) ==
  [y \in Dirs \ absorbidos |->
     IF y = x THEN [bloques[x] EXCEPT !.tam = tam, !.next = z, !.free = TRUE]
     ELSE IF y = z THEN [bloques[z] EXCEPT !.prev = x]
     ELSE bloques[y]]

\* Variant: the case of two free neighbours is missing.
DevueltoSinAmbos(x) ==
  LET p == bloques[x].prev
      n == bloques[x].next
  IN IF EsLibre(p) THEN Junta(p, bloques[p].tam + bloques[x].tam + H, n, {x})
     ELSE IF EsLibre(n)
     THEN Junta(x, bloques[x].tam + bloques[n].tam + H, bloques[n].next, {n})
     ELSE [bloques EXCEPT ![x].free = TRUE]

Devuelto(x) ==
  LET p == bloques[x].prev
      n == bloques[x].next
  IN IF EsLibre(p) /\ EsLibre(n)
     THEN Junta(p, bloques[p].tam + bloques[x].tam + bloques[n].tam + 2 * H,
                bloques[n].next, {x, n})
     ELSE IF EsLibre(p) THEN Junta(p, bloques[p].tam + bloques[x].tam + H, n, {x})
     ELSE IF EsLibre(n)
     THEN Junta(x, bloques[x].tam + bloques[n].tam + H, bloques[n].next, {n})
     ELSE [bloques EXCEPT ![x].free = TRUE]

Devuelve ==
  /\ pedido = 0
  /\ \E x \in Dirs : ~bloques[x].free /\ bloques' = Devuelto(x)
  /\ UNCHANGED <<b, pedido, resp>>

Next == Pide \/ Avanza \/ Agota \/ Reserva \/ Devuelve
Spec == Init /\ [][Next]_vars
=============================================================================
