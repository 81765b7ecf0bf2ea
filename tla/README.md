# Verification of the LTM transport

TLA+ models, TLC runs and TLAPS proofs for LTM, a small connection-oriented
transport: a library of primitives (`t_connect`, `t_listen`, `t_send`,
`t_receive`, `t_disconnect`) that applications link, and one daemon per machine
(`ltmd`) that speaks the protocol over raw IP. The applications and the daemon
of a machine share one memory segment, `KERNEL`, which holds the connection
table, a semaphore, one barrier per connection and the lists of buffers.

Names in the models are those of the source where TLA+ allows it.

## 1. Inventory

| Component | Files | State | Operations |
|---|---|---|---|
| Primitives `t_connect`, `t_listen` | `INTERFAZ.cc` | locals of the call: identifier, TSAPs, result | check parameters, reserve a cell, send the CR, wait at the barrier, read the result |
| Primitive `t_send` | `INTERFAZ.cc` | fragments sent and left | one loop per call with the semaphore closed; waits at the barrier while TX is full |
| Stubs `t_receive`, `t_disconnect` | `INTERFAZ.cc` | none | attach, detach, return `EXOK` |
| Daemon loop | `BPRINCIPAL.cc` | the current packet, `it_buffer`, `indice_cx` | initialise the segment; serve CC, CR and the rest |
| Look-ups and packets | `FUNCP.cc` | none | free cell, free port, repeated connection, listener for a CR, free buffer, header |
| Table `KERNEL` | `CONFP.h`, `ltmtypes.*` | `CXs`, `num_CXs`, `CXs_libres`, `buffers_libres`, limits | fields read and written by the two above |
| Semaphore and barriers | `ltmipcs.cc`, `ltmipcs.h` | a pthread mutex, pthread barriers of 2 | close, open, arrive |
| Life cycle of the segment | `ltmipcs.cc`, `ltmdaemon.cc` | key file, segment identifier, attached address | create, attach, detach, remove |
| Shared heap | `pool.h`, `ltmallocator.h` | chain of blocks in the segment | first fit, coalescing on release |
| Network interface | `comunicacion.c` | the raw socket, loss rate | `enviar_tpdu`, `recibir_tpdu`, losses |
| Raw socket helper | `comunicacion.c`, `ltm_getRAWfd.c` | a socket pair, a child | open the socket with privileges and pass it back |
| Event wait | `ltmdaemon.cc` | a self-pipe, a flag | `ltm_wait4event`, `interrumpe_daemon`, the signal handler |
| Command line | `BPRINCIPAL.cc`, `ltmd.cc` | options | sequential parsing |
| Example application | `aplic.c` | none | one call of `t_connect` or `t_listen` |
| Build files | `Makefile*`, `rm_sh` | none | none |

How they interact:

* **Shared memory.** A primitive attaches the segment, closes the semaphore
  (`bloquear_acceso`), works on the table and opens it again. The daemon does the
  same once per packet received.
* **Barriers.** A `t_connect` or `t_listen` that has reserved a cell arrives at
  the barrier of that cell (`bloquea_llamada`); the daemon arrives there
  (`despierta_conexion`) when a CC or a CR decides the call. `t_send` uses the
  same barrier when its connection has no room in TX.
* **Messages.** `t_connect` and `t_send` send from the process of the
  application; CC is sent by the daemon; only the daemon receives.
* **Life cycle.** A daemon makes the key file, then the segment with the inode of
  that file as its key, and removes both when Ctrl-C ends it. An application
  finds the segment through the file at its first call and attaches and detaches
  it at each. Both fork a helper to obtain their raw socket.
* **Heap.** The nodes of the lists come from a pool inside the segment, under a
  mutex of its own that is only taken inside the critical sections above.
* **Buffers.** A list node of type `buf_pkt` moves between `buffers_libres` and
  the TX list of a cell. Its field `pkt` points to the stack frame of whichever
  process ran `buscar_buffer_libre` when the node was made.

What makes it hard, and what has to hold:

* *Concurrency.* A call is split over two or three critical sections with the
  barrier between them; parameters are checked before the first. Counts and
  table must agree for every order (`OcupacionContada`), a port chosen outside
  must not end up in two cells (`PuertosUnicos`), one barrier must not serve two
  calls (`UnaLlamadaPorBarrera`), and what a call reads after its barrier must be
  about that call (`VueltaEstablecida`).
* *The semaphore across a loop.* `t_send` opens it to sleep and closes it to go
  on (`SemaforoDeQuienEnvia`).
* *Two ends.* A cell is established by a CR at one end and by a CC at the other,
  with nothing that identifies the attempt. The two must name each other
  (`ParesSimetricos`).
* *Lists without checks.* `pop_front` and `--end()` are applied without looking
  (`RotaPorCopia`, `CCDePeticion`), and buffers change lists by hand
  (`BuffersConservados`, `TXAcotada`).
* *Starts and ends.* The segment is visible long before it is ready; a daemon may
  fail, be interrupted or be killed anywhere; file and segment are removed in two
  steps; inodes are used again. Still, one daemon at most may serve
  (`UnSoloServidor`), be found (`SirveAlcanzable`), lose its file to nobody
  (`FicheroDeSuDueno`), and leave nothing when it ends well (`LimpiezaCompleta`).
* *Boundaries.* The chain of the heap after any sequence of splits and joins
  (`CadenaSana`), and the fragments of a send for every length (`CopiaDentro`).
* *Losses, duplicates, deaths.* There are no timers in use and the mutex is not
  robust. What still happens without losses is `EstablecidaVuelve` and
  `ConnectVuelve`.

`PROJECT.json` lists every hazard at its line with the properties that cover it.

## 2. Modules

| Module | Content |
|---|---|
| `LtmTipos` | error codes, TSAPs, TPDUs, cells, and the look-ups of `FUNCP.cc` as operators |
| `Ltm` | the state machine: applications in the three primitives, daemons, semaphore, barriers, network |
| `LtmProp` | type invariant, invariants, action and liveness properties |
| `Sesion` | abstract specification: ends that ask, listen and are joined in pairs |
| `LtmSesion` | the mapping of the cells of `Ltm` to the ends of `Sesion` |
| `MCLtm` | the instances for TLC |
| `LtmProof` | lemmas about the look-ups, buffers and datagrams; the type invariant, the semaphore of `t_send`, the local ports |
| `LtmProofCuenta` | the count of connections |
| `LtmProofTabla` | what each step does to a cell, a call and a request; the limit on TX, the duplicated calls |
| `LtmProofSesion` | who waits at a barrier and what a call returns; the pairs of cells; that `LtmSesion` implements `Sesion` |
| `LtmProofListas` | sums over the cells; the buffers and the lists |
| `Ciclo` | the life cycle of the segment of one machine: daemons, applications, key file, segments, the child of `get_fd` |
| `CicloProp`, `MCCiclo` | its properties and its instances |
| `CicloProof` | its safety properties |
| `Monton` | abstract specification of a heap: disjoint regions, refused only when none fits |
| `Pool`, `PoolProp` | the chain of blocks of `pool.h`; its properties and the mapping to `Monton` |
| `PoolProof` | its invariants, and that it implements `Monton` |
| `Envio`, `EnvioProp`, `EnvioProof` | the arithmetic of the fragments of `t_send`, its properties and their proofs |

`Ltm` starts where `Ciclo` ends its start: with a daemon that serves and a segment
that is set up. `Ltm` sees of the heap its capacity in buffers and of a send the
number of its fragments; `Pool` and `Envio` have what is inside. A variant of a
definition that stands just above it, with the comment "Variant", is used by no
specification: it is the change under which a property of a run fails.

### State and code of `Ltm`

| Variable | Code |
|---|---|
| `CXs[n]`, `num_CXs[n]` | `KERNEL->CXs`, `KERNEL->num_CXs` of node `n` |
| `CXs_libres[n]` | the length of `KERNEL->CXs_libres`; its contents are never read |
| `buffers_libres[n]`, field `TX` | the two kinds of list, each buffer named by the process whose stack it points to |
| `heap[n]` | nodes of type `buf_pkt` made so far; none is ever released |
| `rotas[n]` | an operation on an empty list has broken the lists of the node |
| `SEMAFORO[n]` | the process that has the mutex |
| `barC[n][i]` | who waits at the barrier of cell `i` |
| `pc`, `celda`, `marco` | where a process is, the cell it works on, arguments and locals of the primitive |
| `id`, `ret`, `llamadas` | what the application has got from its calls, and how many it has made |
| `red`, `copias` | bag of datagrams in transit; datagrams duplicated |

| Actions | Code |
|---|---|
| `IniciaConnect`, `IniciaListen`, `IniciaSend`, `LlamadaInvalida` | entry and `comprobar_parametros`, before the semaphore |
| `ConnectRechaza`, `ConnectReserva`, `ConnectMuere` | the first critical section of `t_connect`: refused, done, cut short by a bad pointer |
| `ConnectLee`, `ListenLee` | the critical section after the barrier |
| `ListenRechaza`, `ListenReserva` | the first critical section of `t_listen` |
| `SendRechaza`, `SendEntra`, `SendTrozo`, `SendDuerme`, `SendReanuda`, `SendTermina`, `SendMuere` | `t_send`: one step per fragment |
| `SendFuera`, `SendFueraMuere` | `t_send` with an identifier outside the table, which indexes `CXs` unchecked: it reads no connection there, or faults |
| `LlegaBarrera` | `espera_barrera`, for both parties |
| `DemonioCC`, `DemonioCR`, `DemonioCRSinTsap`, `DemonioOtro`, `DemonioMuere` | the cases of the switch of `bucle_principal` |
| `RedDuplica`, `Matan` | IP duplicates a datagram; a process is killed |

### Grain of the steps of `Ltm`

A step is what a process does between two points at which another can be
observed. A critical section is therefore one step: whoever would look at the
table has to close the mutex first. Two exceptions: the loop of `t_send`, whose
holder is visible for as long as the loop lasts, is one step per fragment, and
what happens *before* the mutex (parameters, the ephemeral port) is a step of its
own. `recvfrom` is merged with the critical section that follows it: nobody sees
the packet of the daemon in between, and a packet taken from the socket and not
yet served is as good as one still in the socket, except for a killed daemon,
where the packet is lost or remains for nobody. The send of a TPDU happens
inside the critical section in the code and in the model; a process may be killed
between the two (`AbreYSalta`), and then the TPDU is on its way and the semaphore
stays closed.

### Undefined behaviour

The code has four places whose outcome is not determined by the source. Each is
a nondeterministic choice among the outcomes in three constants.

* A new list node points to the frame of `buscar_buffer_libre`, which has
  returned. For the process that made the node (`SalidasPropio`): the bytes may
  come out as written, be overwritten before `sendto`, or the write fault. For
  any other process (`SalidasAjeno`) the address belongs to another address
  space: it writes on its own memory at that address, or faults.
* `CXs[EXNOTSAP]` is `CXs[-6]`, below the segment (`SalidasIndice`). In most
  layouts that is unmapped and the daemon dies with the semaphore closed; if the
  heap of the process lies just below, the CC with the refusal goes out and the
  daemon then waits for ever at the bytes it takes for a barrier. So a refusal
  reaches the requester only under `"cuelga"`.
* `pop_front` on the empty `CXs_libres` and `--TX.end()` on an empty TX. The first
  gives back to the pool the sentinel of that list, which lies in `KERNEL` next to
  `buffers_libres`: the pool takes the bytes before it for the header of a block and
  writes there. The second is the sentinel of TX, which `splice` makes the last node of
  `buffers_libres`, so that the two lists are one chain. The model does not follow
  such a chain. It records in `rotas` that the lists of the node are broken; what it
  keeps of a list that is touched from then on is `ListaRota`, of which nothing is
  known; and whoever looks at a list of the node may find anything: room in TX or none,
  a buffer with the outcomes of `SalidasAjeno`, or a fault (also in the splice of
  a later CC). What is said of the lists is said for as long as `rotas` is false,
  and two properties are about when it becomes true.
* `push_back` with the heap exhausted writes at address 0: `"segv"`.

A process that dies inside a critical section leaves the mutex closed. What it
wrote in that section before dying is not modelled, except what it has sent: nobody can
close the mutex again to see it, but the other node answers a TPDU.

### Left out of the core

`EXNODATA` (null data), `EXKERNEL` (no segment) and the `EXINVA` of an address that
`obtener_IP_local` cannot find return before any shared state is touched. A
`recvfrom` that fails makes the daemon serve again the packet left in its buffer
(BPRINCIPAL.cc:84-91 goes on to the switch whatever `rec` is): for the handlers that
is a second copy of a datagram, which `RedDuplica` provides. `buscar_puerto_libre`
scans the table while others may write to it; it is taken as one look. `t_send` has a branch for `resultado_primitiva = EXNET` that nothing
can trigger: no code writes the field. `primitiva_dormida` is only written. RX,
the timers, sequence numbers and `puntero_datos` are read by nobody.
`conexion_aceptada` of a CR or DATOS is never looked at. `t_receive` and
`t_disconnect` are stubs: hence no cell is ever released by a caller, and the
model has no action that does so either. `ACK` and `DISCONNECT` are sent by
nobody; `DemonioOtro` covers their reception. `marco` and `celda` are reset when a
primitive returns, since its frame is gone.

### State and code of `Ciclo`

| Variable | Code |
|---|---|
| `fichero` | the inode of `dir_proto`, or that there is none: what `ftok` turns into a key |
| `segs` | System V segments: made, marked by `IPC_RMID`; `KERNEL->i_red.LTM_PROTOCOL`, `KERNEL->SEMAFORO` |
| `pc`, `shm_id1`, `adjunto`, `iniciado` | where a process is, and the statics of `ltmipcs.cc` |
| `hijo`, `mensaje` | the child of `get_fd`, and the socket that it has sent and nobody has received |

| Actions | Code |
|---|---|
| `AbreFichero`, `ConsultaSegmento` | `chequeo_inicial` |
| `CreaSegmento`, `Configura` | `CreaMemoriaKERNEL`, and the assignments of `inicia_ired` |
| `Bifurca`, `Ayudante`, `Recibe` | `get_fd` and `ltm_getRAWfd`, for daemons and applications |
| `CopiaDaemon`, `CopiaApp` | the child whose `execl` failed, which returns from `get_fd` with -1 and takes the error path of its parent |
| `Enlaza`, `EnlazaApp` | the rest of `inicia_interfaz_red` and of `config_interfaz_red` |
| `IniciaSemaforo`, `Cierra`, `Prepara` | the beginning of `bucle_principal` |
| `CtrlC`, `Limpia`, `Quita` | `RI_ctrC`, `libera_recursos`, `LiberaMemoriaKERNEL` |
| `Entra`, `AdjuntaApp`, `BloqueaAcceso`, `Sale` | `ltm_get_kernel`, the first critical section, `ltm_exit_kernel` |
| `Duerme`, `Despierta` | the barrier of `t_connect`, `t_listen` and `t_send`, after which `BloqueaAcceso` is the second critical section; it is opened by the daemon that serves that segment |
| `DejaSemaforo` | the mutex as a daemon that serves leaves it when something ends it: open, or closed if it was inside |
| `Muere`, `QuitaAMano` | a kill; the operator with `rm_sh` and `rm`, as the message of `chequeo_inicial` asks |

Each system call that another process can see is a step of its own. Merged: `fork`
with `execl` (a helper that ends without sending is no child at all; only a copy
or a helper with a socket does something), `shmat` with the assignments that
follow it (what an application reads of them in between is `LTM_PROTOCOL`, which is
written last, so that an application sees 0 until the step of `Configura`), and `bind` with
the installation of the handlers. Ctrl-C kills a daemon that has not installed
`RI_ctrC` yet, with the child of its group; Ctrl-C during the clean-up is taken as a
kill. A copy of an application after a failed `execl` detaches and returns
`EXKERNEL`; what it does afterwards is another process of the same program. An
application has one critical section per call, or two with the barrier between them. What
they do to the table is `Ltm`, and so is a `t_send` that sleeps more than once, which
repeats the same steps; the calls that leave without a critical section (`EXINVA`,
`t_receive`, `t_disconnect`) only attach and detach. `ftok` of a
missing file is -1, which serves as a key like any other. Not modelled: the two
low bytes by which `ftok` may confuse two inodes, and an `open` that fails for
another reason than `EEXIST`.

### State and code of `Pool` and `Envio`

`bloques` maps the address of each header to its `prev_`, `next_`, `size_` and
`free_`; `b` is the local of `allocate`, `pedido` its argument, `resp` its result. The
search is one step per block, because the property worth having is about what it
has passed; `heap_sema` is closed throughout, so nobody else is in the heap. A
header that a join has swallowed leaves the domain: using it afterwards would be
an error of TLC, and a proof obligation nobody could meet. `Envio` has the locals of
`t_send` by their names, and one step per fragment.

## 3. Properties

| Property | What it says | Hazard behind it |
|---|---|---|
| `TypeOK` | types; every identifier in a datagram or a cell is an index of the table, `EXNOTSAP` only in refusals | `-6` used as an index at the receiver |
| `OcupacionContada` | occupied cells ≤ `num_CXs` ≤ `NUM_MAX_CXs` | count and table change in different critical sections |
| `PuertosUnicos` | two cells of a node have different local ports | the ephemeral port is chosen before the mutex |
| `SemaforoDeQuienEnvia` | the loop of `t_send` owns the mutex, and no living application owns one anywhere else | open to sleep, close to go on |
| `UnaLlamadaPorBarrera` | at most one call at a barrier | cells reused, identifiers shared |
| `ParesSimetricos` | an established cell and the one it names agree on addresses, ports and identifiers | crossing requests, wildcard listeners |
| `TXAcotada` | TX never passes the limit, while the lists are whole | `t_connect` does not look at it |
| `BuffersConservados` | every buffer is in exactly one list, while the lists are whole | buffers moved by hand |
| `RotaPorCopia` | no list operation on an empty list before a datagram has been duplicated | `pop_front`, `--end()` |
| `CCDePeticion` | the daemon breaks the lists only with a CC that nobody waits for | a CC and a cell refused, used again or answered already |
| `VueltaEstablecida` | an identifier is returned only for a cell established for its caller | state read after the barrier |
| `DuplicadaPresente` | `EXCDUP` only if a live connection collides | free cells take part in the look-up |
| `EstablecidaVuelve` | a `t_connect` or `t_listen` whose cell is established returns | a wake-up, outside the critical section, that goes elsewhere or is missed |
| `ConnectVuelve` | without losses a `t_connect` is answered | a request or answer that is swallowed |
| `BarreraDemonioApp` | a barrier opens for the daemon and one application | `t_send` waits at the barrier of `t_connect` |
| `ImplementaSesion` | the cells implement `Sesion`: a listener is given one request for its address that its filter lets in and that no other end was given, and the requester learns which end took it | look-ups by partial matches; CC and CR in any order |

| Property of `Ciclo` | What it says | Hazard behind it |
|---|---|---|
| `TypeOK` | types; an identifier that is held is one that was given | a failed `shmget` |
| `UnSoloServidor` | at most one daemon serves | file and segment as locks, removed in two steps |
| `SirveAlcanzable` | the key file leads to the segment of the daemon that serves, alone | inodes used again, leftovers of the dead |
| `LimpiezaCompleta` | if all daemons were refused or cleaned up, nothing is left but a segment with identifier 0 | an early end; `shm_id1 > 0` |
| `RestoConCausa` | a leftover found by a starting daemon comes from a death, an abort, identifier 0 or a clean-up half way | a start during a clean-up |
| `FicheroDeSuDueno` | the file of a daemon goes away by its own clean-up, or by hand when none runs | a refused or failed daemon that cleans up |
| `ArrancaOTermina` | a daemon that has made its file ends up serving or ends | the semaphore is contended before it is initialised |
| `LlamadaNoSeAtasca` | a call on a configured segment, the first of an application or a later one, comes out or gets to its barrier; once woken there it comes out | an application keeps `shm_id1` whatever became of its daemon; a daemon that ended inside a critical section is the one escape |

| Property of `Pool` and `Envio` | What it says | Hazard behind it |
|---|---|---|
| `TypeOK` | the cursor is a header of the chain, sizes do not pass below zero; no local of `t_send` overflows | the limit of the split |
| `CadenaSana` | blocks cover the area without hole or overlap, both links agree | splits and joins by hand |
| `LibresJuntos` | no two free blocks meet | the case of two free neighbours |
| `BusquedaCompleta` | the search has passed only blocks that will not do | its two nested loops |
| `ImplementaMonton` | regions in use never overlap; null only if no gap is large enough | all of the above |
| `CopiaDentro` | each `memcpy` is within the data and within the TPDU | size of the last fragment |
| `EnvioCompleto` | at the return every byte has been sent once, in as few fragments as can be | exact multiples, length 0 |

Five statements of the documentation do not hold of the code; each has a run
whose counterexample shows it (section 4) and a finding in `PROJECT.json`:
`BarreraDemonioApp`, `SemaforoLiberado`, `ListenUnico`, `ExclusionArranque`,
`GetFdVuelve`. `BarreraDemonioApp` fails only when an application sends with an
identifier that another was given: `basico` checks it without such sends, and section 5
proves it.

A `t_send` that finds TX full does not come back: room is made only by a CC that names its
cell, since no ACK is sent and the case of ACK does nothing. No property promises more of it
than `SemaforoDeQuienEnvia`; those of `vivo` are about the other calls, with
such senders among them.

`ImplementaSesion` is checked in `basico`, where the only refusal is the death of
the daemon; so `Sesion` has no refusal, and an end that asks may wait for ever.

Some of the properties hold only under conditions, and it is worth knowing which and why.
Section 5 states each condition as a hypothesis of its theorem.

| Condition | Needed by | Without it |
|---|---|---|
| no refusal comes back: the daemon dies of the refusal it makes | `DuplicadaPresente`, `TXAcotada`, `UnaLlamadaPorBarrera`, `BarreraDemonioApp`, `VueltaEstablecida`, `ParesSimetricos`, `ImplementaSesion`, `RotaPorCopia` | a refused cell is free but keeps its ports and its CR in TX, so that the next `t_connect` to the same place is told `EXCDUP`; it may be taken by another before the refused call reaches its barrier or reads it, which then returns the identifier of the other; a duplicated CR finds it in another state; the index of the free list is lost, and after `NUM_MAX_CXs` requests `pop_front` meets an empty list |
| applications send on the identifiers they were given | `UnaLlamadaPorBarrera`, `BarreraDemonioApp` | two applications meet at one barrier (run `barrera`) |
| ports named in calls are at most 32767 | `PuertosUnicos`, `ParesSimetricos`, `ImplementaSesion` | two listeners on one port (run `puertos`), so that the CR and its duplicate take one each |
| no datagram has been duplicated yet | `RotaPorCopia`, which says so itself | the second CC takes from TX what the first has taken already |
| TX has room for one buffer | `TXAcotada` | `t_connect` puts its CR there without looking |

`OcupacionContada`, `SemaforoDeQuienEnvia`, `CCDePeticion` and `TypeOK` need
none of them; nor does `BuffersConservados`, which speaks of the lists while they are whole.
Duplicated and reordered datagrams break nothing but the lists: the second copy of a CR
finds no listener, since its listener is established and local ports are unique, and kills the
daemon as any CR without listener does.

## 4. Runs

The instances of `MCLtm` have two nodes, and a table of two cells so that it fills,
is refused and (after a refusal) is reused; TX holds one buffer, so one fragment
fills it; the heap has room for three buffers, so it is exhausted.

| Run | Configuration | States | What it shows |
|---|---|---|---|
| `basico` | 3 applications, two on one node, two calls each and one for `a2`; every node connects to every node; wildcard, half-wildcard and exact listeners; losses; one duplicated datagram | 1.6 M | the properties of the table that are not about liveness, and that it implements `Sesion` |
| `fallos` | one duplicated datagram; `a1` and the daemon of `n2` may be killed at any point, also after a send; sends on any identifier, in the table or not; invalid calls; overwritten frames; foreign buffers that work or fault; a daemon that sends the refusal and hangs | 1.2 M | which invariants survive all that, and `CCDePeticion` |
| `vivo` | sends of up to two fragments; no losses, no kills; weak fairness | 107 k | `EstablecidaVuelve`, `ConnectVuelve` |
| `barrera` | two senders on one identifier | violation | two applications open the barrier for each other (`ltmipcs.h` says it joins daemon and application) |
| `semaforo` | a DATOS arrives | violation | the daemon keeps the mutex and its next iteration blocks on it |
| `puertos` | two listeners on port 40000 | violation | `uint16_t` and `int16_t` compared: the repetition is not seen |
| `ciclo` | 3 daemons, 1 application, 2 inodes, identifiers 0 to 2; failures of `shmget`, `shmat`, `execl`, the network and `-p`; every daemon may be killed; the operator removes leftovers | 4.1 M | the safety of starts and ends |
| `ciclo_vivo` | 2 daemons, 2 applications with two calls; no failure, Ctrl-C at any point; weak fairness | 190 k | `ArrancaOTermina`, `LlamadaNoSeAtasca` |
| `ciclo_arranque` | 1 daemon, 2 applications | violation | `inicia_semaforo` opens a mutex that an application has closed, and both go on inside |
| `ciclo_espera` | 1 daemon, 1 application, nothing fails; weak fairness | violation | an application that enters before `LTM_PROTOCOL` is written waits in `get_fd` for ever |
| `pool` | an area of 25 addresses, headers of 2, requests of 2, 3, 5 and of more than there is | 220 k | the chain, the search and `ImplementaMonton` |
| `envio` | fragments of 4 bytes, lengths around their multiples, up to the largest int | 181 | `CopiaDentro`, `EnvioCompleto` |

*Bounds.* `MAX_LLAMADAS` (calls per application), `MAX_TROZOS` (fragments of a
send), `MAX_COPIAS` (duplicates), `MAX_HEAP` (buffers), `Destinos`, `Origenes`,
`Escuchas`, `Remotas`, `PuertosLibres` (arguments and the values of `rand`). Two
calls each let an application connect and then listen, send on what it got, or
try again after a refusal; two fragments with one place in TX give a send that
sleeps in the middle. With one port to listen on and two to connect from, the
races for a port, for a cell and for a listener all occur. The applications of a
node differ in the number of calls and in who may be killed, so no symmetry is
used.

In `ciclo`, three daemons are the least with which one can be serving, another
be half way through its clean-up or dead, and a third be starting; two inodes allow
the file of the third to have the number of the first or another. Daemons and
inodes are used as symmetric sets, which is sound there: all of them may be killed
and no property of the run is about liveness. As many identifiers as daemons suffice,
since each daemon makes one segment at most and identifiers are not given twice (the system
counts a sequence number in them). `Fallos` leaves out `fork` and `ayudante` in the
run `ciclo` because their effect on the state is that of `protocolo`: no child. In `pool`
the area has room for up to six blocks, so that every case of `deallocate` occurs,
at both ends and in the middle, and a split that leaves less than two headers, or exactly
two, does too. In `envio` the loop is sequential and the lengths are its only input.

*Deadlock* is checked in `pool`, where the heap always goes on, and nowhere else: the
system may legitimately stop. The calls are bounded, a daemon with no packet waits
for ever, a process that dies in a critical section stops its node, daemons start once and
a send returns once.

*Fairness* (`SpecViva`): weak fairness of the steps of each application inside a
call and of each daemon. It is justified because a process that can run is
scheduled, and because each critical section is finite (the loop of `t_send` has
finitely many fragments and opens the mutex to sleep), so a mutex that is free when
wanted does not stay out of reach: after the bounded number of calls the competitors
of a process are exhausted. Nothing obliges an application to call. Losses are excluded
in `vivo` because there are no retransmissions, so a lost packet legitimately leaves the
call asleep. The escape `Parado` is a node whose mutex stays closed: a process died inside
a critical section, as a daemon does of a CR without listener, or the daemon has received
a DATOS and blocks itself at its next packet. 

In `Ciclo` it is the same: weak fairness of each process inside the code and of its
child, none of starting, Ctrl-C, kills or the operator, and none of `Despierta`, since no packet
that would open a barrier has to come. The escape of `LlamadaNoSeAtasca` is there because
Ctrl-C may end a daemon inside its critical section.

## 5. Proofs

| Theorem | Module | Property |
|---|---|---|
| `Tipos` | `LtmProof` | `TypeOK` |
| `SemaforoSeguro` | `LtmProof` | `SemaforoDeQuienEnvia` |
| `PuertosSeguros` | `LtmProof` | `PuertosUnicos`, if `PuertosBajos` |
| `OcupacionSegura` | `LtmProofCuenta` | `OcupacionContada` |
| `BuffersSeguros` | `LtmProofListas` | `BuffersConservados` |
| `CCSegura` | `LtmProofListas` | `CCDePeticion` |
| `TXSegura` | `LtmProofTabla` | `TXAcotada`, if `RechazoMata` and `NUM_BUF_PKTS # 0` |
| `DuplicadaSegura` | `LtmProofTabla` | `DuplicadaPresente`, if `RechazoMata` |
| `VueltaSegura` | `LtmProofSesion` | `VueltaEstablecida`, if `RechazoMata` |
| `UnaSegura`, `BarreraSegura` | `LtmProofSesion` | `UnaLlamadaPorBarrera`, `BarreraDemonioApp`, if `RechazoMata` and not `IdsAjenas` |
| `ParesSeguros`, `SesionImplementada` | `LtmProofSesion` | `ParesSimetricos`, `ImplementaSesion`, if `RechazoMata` and `PuertosBajos` |
| `RotaSegura` | `LtmProofListas` | `RotaPorCopia`, if `RechazoMata` |
| `TiposCiclo`, `ServidorUnico`, `ServidorAlcanzable` | `CicloProof` | `TypeOK`, `UnSoloServidor`, `SirveAlcanzable` |
| `FicheroNoRobado` | `CicloProof` | `FicheroDeSuDueno` |
| `LimpiezaProbada`, `RestoExplicado` | `CicloProof` | `LimpiezaCompleta`, `RestoConCausa` |
| `TiposPool`, `CadenaSiempreSana`, `LibresSiempreJuntos`, `BusquedaSinOmisiones` | `PoolProof` | `TypeOK`, `CadenaSana`, `LibresJuntos`, `BusquedaCompleta` |
| `PoolImplementaMonton` | `PoolProof` | `ImplementaMonton` |
| `TiposEnvio`, `CopiaSegura`, `EnvioEntero` | `EnvioProof` | `TypeOK`, `CopiaDentro`, `EnvioCompleto` |

Those of `Ltm` hold for every number of nodes, applications, cells, buffers, calls,
fragments and duplicates, for any set of processes that may be killed, with and without losses, and for every choice of
outcomes of the undefined behaviour that the hypotheses of the table leave: they use only those and the assumptions the modules declare
(`SuposicionProcesos`: processes are finitely many and of two disjoint kinds;
`SuposicionCotas`: the sizes are naturals, with at least one cell;
`SuposicionPuertos`: the ephemeral ports are within 1..32767, as `rand` and the
`int16_t` of a TSAP give them; `SuposicionEntradas`: arguments have their C types;
`SuposicionSalidas`: the outcomes are the named ones). Those of `Ciclo` hold for any number of daemons,
applications, inodes and identifiers and any set of failures (`SuposicionProcesos`,
`SuposicionIds`: identifiers are naturals, `SuposicionCotas`); those of `Pool` for every area that
the constructor accepts, header and set of sizes (`SuposicionPool`); those of `Envio` for every
size of the field `datos` and all lengths that an `int` counts (`SuposicionEnvio`). TLC
evaluates all of them in the runs.

The hypotheses are on the constants only. `RechazoMata` says that `"cuelga"` is not
one of `SalidasIndice`: nothing is mapped below the segment, which is so unless the
heap of the daemon happens to lie there, and then the access to `CXs[-6]` kills it before
its refusal leaves. `PuertosBajos` says that the ports in `Origenes` and `Escuchas` are at
most 32767, the numbers for which a `t_direccion` and a cell hold the same value. The
environment of `basico` satisfies all of them, and less would do: all the theorems allow
any number of duplicates, and deaths.

* **`Tipos`.** `TypeOK` alone is not inductive: `SendTermina` returns a count of
  fragments, and if that could happen in the frame of a `t_connect` the count would
  be stored as an identifier. `TiposInv` adds `MarcoPropio`: a call inside
  `t_send`, or about to listen or to connect, has the frame of that primitive. One lemma per
  action shows that the types are kept; the one that matters is that the
  receiver of a CC finds a cell index in `id_destino`, because a CR is never sent
  with `EXNOTSAP` (`TpduOK`).
* **`SemaforoSeguro`.** Inductive with the types. Each step either leaves the
  semaphores alone, closes one that it found open, or opens one that it held
  (lemmas `SemaforoAparte`, `SemaforoCerrado`, `SemaforoAbierto`).
* **`PuertosSeguros`.** The port is chosen before the semaphore is closed, but the
  repeated-port check is made inside, over every cell, occupied or not; so it is
  enough that the number compared is the number stored, which `MarcosBajos`
  provides for the frames of `t_connect` and `t_listen` (that of `t_send` holds the
  ports of the cell). Without the hypothesis the statement is false, and run `puertos` shows
  it.
* **`OcupacionSegura`.** Between the daemon freeing a refused cell and the caller
  decrementing `num_CXs`, a third process may take the cell. `CuentaInv` therefore
  counts the calls of `t_connect` still waiting (`Pendientes`) plus the occupied
  cells that none of them names (`Sueltas`), says that closed cells are free
  (`CerradaLibre`) and that the maximum is respected (`NumAcotado`). TLC found no
  violation of it in the instances of `basico` and `fallos`. A consequence: a call
  that is let in finds a free cell, so the fallback of `buscar_celda_libre` on cell
  0 is never taken.
* **The table (`TablaInv`).** None of the properties of the sessions is inductive: a CC
  that arrives changes a cell, and whether that is right depends on where it came from. `TablaInv`
  says what a CR or a CC in transit, however old and however often duplicated, still tells of
  the cell it was sent from (`PeticionesVivas`: it waits or is established, with the two addresses and the two ports of
  the CR; `RespuestasVivas`: the cell a CC goes to has asked). That is true because a cell,
  once reserved, is never given back (`LibreVacia`: a free cell was never used), and there
  `RechazoMata` comes in: what gives cells back is `DemonioCC` on a refusal, and none arrives
  (`SinRechazos`). Its proof splits `Next` (lemma `PasosDeLaTabla`) into the steps that touch
  buffers at most, those that reserve a cell, and those of a daemon that gives a CR to a
  listener or applies a CC; each has a lemma that says which cell it writes and what it
  sends, and the later proofs use these and not the actions.
* **`TXSegura`, `DuplicadaSegura`.** From `TablaInv`: the CR of a `t_connect` goes into the
  TX of a cell that was never used; a look-up that compares ports with free cells finds 0 in
  them, and no call asks for port 0.
* **The barriers (`DuenosInv`).** A call that asked for a connection owns its cell and, if no
  application uses the identifiers of another, so does one that sends (`Duenos`); who is counted at a barrier is
  asleep or dead there, and is the owner of the cell, the daemon that has established it, or a
  sender on an established cell (`Barreras`); and a daemon on its way to a barrier, or a
  call on its way back from one, has an established cell (`DespiertaListo`). The three need each other: a call
  comes back established because whoever it met was the daemon that established its cell or one that could only send
  on it afterwards.
* **The pairs (`ParesInv`).** An established cell names a cell that names it back (`Pares`), and a
  CC in transit comes from a cell that is established for the one it goes to
  (`AceptacionesVivas`). A late or duplicated CR, or another one with the same addresses and ports,
  cannot take a second listener: it would be on the same local port as the first (`PuertosUnicos`). `SesionImplementada`
  then maps each kind of step of the table to a step of `Sesion` or to none; a duplicated CC is none.
* **`BuffersSeguros`.** Inductive with the types alone: once the lists are broken it says nothing,
  and they are never whole again (`RotasCrecen`). What it takes is a sum over the cells of a
  node, whose definition (`MapThenSumSet`) is recursive. `LtmProofListas` proves by induction on the
  size of a set that the function on the subsets of the cells which that recursion describes exists, that it meets its
  equation, and that a step which changes one TX changes the sum by the difference
  (`SumaCambia`). The induction is expressed by sets, `InduccionNat`, since a theorem with an operator as
  parameter cannot be used here.
* **`RotaSegura`, `CCSegura`.** Two operations can meet an empty list (`PasosQueRompen`). For the
  `--TX.end()` of a CC what matters is that a cell that waits for its CC has a CR in TX
  (`TXDePeticion`): its `t_connect` put one there, `t_send` and later CRs only add to it, and the only
  step that takes one away establishes the cell. This holds whatever is duplicated, refused or
  killed, and `CCSegura` follows from it with the types alone. For `RotaSegura` a CC must also find its
  cell waiting. `ListasInv` therefore adds to `TablaInv` that, until a datagram has been duplicated,
  there is at most one CR or CC in transit for each cell that asks, and none once it is
  established (`UnaPorPeticion`); and, for the `pop_front`, that there are at least as many free
  indices as free cells (`LibresBastan`, which counts with the cardinality of a set).

* **`Ciclo`.** That one daemon serves is not inductive: it rests on who has the
  *place* that the key file stands for. `Ocupa(d)` says so of a daemon from `open` to
  `unlink`, including one that waits for its socket (`Espera`) and one whose failed
  child has not cleaned up yet. `Lugar` says that one daemon at most has it, that the file
  then exists, and that its key leads to that daemon's segment and no other; for a
  daemon that is about to make its segment, to none. It needs `IdsPropias`: nobody marks the
  segment of another, since no two daemons hold one identifier (0 excepted, which is
  never marked). Most steps leave file and segments as they are and give the place to
  nobody (`LugarQuieto`); the rest have a lemma each. `Deudas`, on top of it, says that the file and each
  segment but 0 have somebody who has still to remove them or ended without doing so.
* **`Pool`.** The four invariants together are inductive; none is alone. A split
  and the three joins are each shown to keep the chain, and a join is treated as
  one operation (`Absorbe`) with three instances. For the refinement: the new region lies in
  a block that was free, hence meets no region in use; and if no gap is large enough
  for `Monton` that is because a gap would lie within a single free block, since free
  blocks do not meet, and the search has passed all of them.
* **`Envio`.** The invariant of the loop relates what is left, the number of
  fragments and the size of the next one: they are all full but the last.

Every safety invariant and action property that a passing run checks has a theorem, and so have both
refinements. Left to TLC: liveness (`EstablecidaVuelve`, `ConnectVuelve`, `ArrancaOTermina`,
`LlamadaNoSeAtasca`), which with fairness and `ENABLED` is beyond the prover, and the five runs that expect a
violation, which are counterexamples and not statements to prove.

## 6. Not modelled

* **Event wait of the daemon** (`ltm_wait4event`, `RI_daemon`, `interrumpe_daemon`). Nothing in
  the repository calls `interrumpe_daemon`, and the loop does nothing on `TIME_OUT` or
  `INTERRUP`: whatever the self-pipe does, the state of the protocol is the same.
* **`t_receive`, `t_disconnect`.** Stubs that attach, detach and return `EXOK`.
* **The delay server** (`RTT`, `IP_retardo`): `ltmd` never sets `RTT`, so the branch of `enviar_tpdu`
  is never taken. The loss rate is left open: any datagram may be lost or none.
* **RX, timers, sequence numbers**: fields that nothing reads.
* **Command line** (`procesa_argumentos`, `ltmd.cc`): sequential parsing; what it sets are constants of
  `Ltm` and, for `-p`, a choice of `Configura`.
* **Example application** (`aplic.c`): one call and a switch of messages, subsumed by the applications
  of `Ltm`.
* **Build files**.

What could still be proved: which of the properties of the sessions survive a refusal that comes
back, with the reuse of its cell described instead of excluded.
