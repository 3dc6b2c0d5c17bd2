# A TLA+ model of the AnSISOP system

The repository is a small distributed operating system in C. Users run scripts in
the AnSISOP language; a kernel schedules them over CPU processes, and a memory
server keeps their segments. This directory holds TLA+ modules that model it,
TLC configurations that check them on small instances, and proofs that TLAPS
checks for every instance. `PROJECT.json` lists runs, mutants, the lines each
definition stands for, findings, hazards and theorems.

    tlc -workers 2 -config Planificador_bajas.cfg MCPlanificador.tla
    tlc -workers 2 -config Semaforo_llamadas.cfg MCSemaforo.tla
    tlc -workers 2 -config UMV_base.cfg MCUMV.tla
    tlc -workers 2 -config Pila_base.cfg MCPila.tla
    tlc -workers 2 -config Mensajes_base.cfg MCMensajes.tla
    for m in *Proofs.tla; do tlapm $m; done

## The system

Five kinds of process talk over TCP:

| process | code | state it keeps | operations |
|---|---|---|---|
| programa (one per script) | `programa/src` | its socket | sends the script to the PLP, prints what the kernel tells it, ends at FINALIZAR |
| kernel | `kernel/src` | lists New, Ready, Exit, one per device and per semaphore; POSIX semaphores; idle CPUs; shared variables | the threads below |
| cpu (several) | `cpu/src` | the PCB it runs, a dictionary of variables, exit flags | announce, receive a PCB, run a quantum, give it back |
| umv (memory server) | `umv/src` | the memory, the list of segments, the active process | create and destroy segments, read and write bytes, compact |
| utils (library) | `utils` | none | framing of messages, the UMV's request protocol |

`umv/src/Firstfit.c` is an exercise that no makefile builds.

The kernel is one process of many threads:

- **PLP** (`plp.c`) accepts programs. It asks the UMV for four segments; without
  them the PCB goes to Exit. Otherwise it tries `s_ready_max` (the
  multiprogramming level): with room the PCB goes to Ready, without it to New,
  which is sorted by weight, and a **wt_nar** thread (`wt_nar.c`) is started to
  wait for a place and move the first PCB of New.
- **dispatcher** (`dispatcher.c`) waits for a PCB in Ready and an idle CPU and
  sends the one to the other.
- **PCP** (`pcp.c`) serves the CPUs' messages: idle (`O`), quantum over (`Q`),
  last burst before leaving (`X`), end (`F`), error (`E`), system call (`S`), and
  closed connections.
- **hilo_entrada_salida**, one per device, and **hilo_semaforo**, one per AnSISOP
  semaphore, give blocked PCBs back to Ready.
- **vaciar_exit** (`vaciar_exit.c`) asks the UMV to destroy the segments of the
  PCBs in Exit.

They share lists without protection: **every pthread mutex of these threads is a
local variable of the function that locks it**, so none excludes another thread.
What orders the threads is the semaphores alone. That is the source of most of
the behaviour that is hard here:

| component | what is hard | what makes it correct |
|---|---|---|
| scheduler (PLP, PCP, dispatcher, workers, devices, vaciar_exit) | interleaving at every list access, sizes read and used later, a token taken by one thread for an element another removes, CPUs that leave | every PCB in one place; places of the multiprogramming level conserved; tokens match list contents; programs end and are told so |
| AnSISOP semaphores | the value is changed by two threads under different mutexes; a wait is asked first and enqueued later | as many processes pass as a counting semaphore lets; none sleeps with the value above zero |
| start-up | threads start before the semaphores they use are initialised | no token is lost |
| UMV segments | placement, compaction, 32-bit bounds, random virtual bases | segments never overlap; an access stays in its segment; compaction keeps contents |
| UMV connections and console | one active process for all connections, commands without a lock | an access uses the process of its own request |
| CPU primitives | the stack of contexts laid out in a segment | a return restores the caller's context; one variable, one place |
| communication | TCP splits messages, connections close half way, descriptors are given again | a program is answered, obeys its own orders and in order, and is told to end |

The full list, each at its line, is under `hazards` in `PROJECT.json`.

## Modules

| module | what it is |
|---|---|
| `Listas` | the so-commons list calls, modelled from their use: an insertion beyond the end is ignored; a sort may return any ascending rearrangement |
| `Planificador` | the scheduler: kernel threads and the CPU processes at the other end of the PCP's sockets |
| `CicloDeVida` | the abstract specification: the states of a program and the bound on how many are between New and Exit |
| `PropsPlanificador` | invariants, action and liveness properties, the fairness, and the mapping of `Planificador` onto `CicloDeVida` |
| `ListasProofs` | lemmas: what the list operations do to types, lengths, elements and repetitions |
| `PlanificadorProofs` | the scheduler: types, semaphores against lists, wt_nar threads |
| `LugaresProofs` | the scheduler: where PCBs and the places of `s_ready_max` are, the order of New |
| `DespachoProofs` | the scheduler: idle CPUs, their tokens, CPUs that leave; `Planificador` implements `CicloDeVida` |
| `SemaforoAnsisop` | the semaphores of scripts: the CPU's `wait` and `signal`, the PCP's system calls, one `hilo_semaforo` per semaphore |
| `PropsSemaforo`, `SemaforoProofs` | its invariants, liveness and fairness; its theorems |
| `Segmentos` | the UMV's segment table as data: free spaces, first and worst fit, virtual bases, bounds in wrapping arithmetic |
| `UMV` | the memory process with all who use it: accept loop, connection threads, console, PLP and `vaciar_exit` (one socket), CPUs |
| `MemoriaVirtual` | the abstract specification: segments named by a virtual base, contents by offset, no positions |
| `PropsUMV`, `UMVProofs` | its invariants, action properties and liveness, and the mapping of `UMV` onto `MemoriaVirtual`; its theorems |
| `PilaCPU` | the primitives over the bytes of the stack segment, the dictionary, and the kernel's shared variables |
| `Contextos` | what a program believes its stack to be: a sequence of contexts |
| `PropsPila`, `PilaProofs` | bytes, registers and dictionary against those contexts; errors have a cause; its theorems |
| `Mensajes` | scripts, orders and prints on the sockets between programs and kernel, the descriptors, and `recvAll` over packets that come in pieces |
| `PropsMensajes`, `MensajesProofs` | what a program may count on; its theorems |
| `MCPlanificador`, `MCSemaforo`, `MCUMV`, `MCPila`, `MCMensajes` | constants and symmetry for TLC |

### How Planificador corresponds to the code

Each thread is a record variable with a `pc` and the locals it holds from one
step to the next (`plp`, `pcp`, `dispatcher`, `vaciar`, `worker[p]`, `hiloIO[d]`).
`colaNew`, `colaReady` and `colaExit` are the lists, `sReadyMax`, `sReadyNuevo`,
`sExit` and `sHayCpus` the semaphores of `kernel.h`. `cpu[c]` is the CPU process,
`socket[c]` the descriptor of its connection in the kernel, `mensajes[c]` and
`canal[c]` the two directions of that connection; both keep order. What the kernel's
threads hold of a CPU is its descriptor: `cpusOciosas`, `dispatcher.cpu` and
`pcp.cpu` are numbers. `programa[p]` is what the program has been told. `perdidos`,
`vencidos` and `descartes` are history variables: PCBs nobody holds any more,
descriptors closed while the idle list or the dispatcher still held them, and
insertions `list_add_in_index` ignored. `caido` names the thread whose invalid access ended
the kernel; after that nothing moves.

One action is one access to a shared list or semaphore, so a size read by
`list_size` and used by `list_add_in_index` are two actions (`PcpMideReady` and
`PcpInserta`, `IOMideReady` and `IOInserta`), as are `mostrar_datos_cola`'s size
and each of its reads, `quitar_cpu`'s scan and its removal, and `vaciar_exit`'s
removals. Steps are joined where no outcome is lost: an insertion with the
`sem_post` of `s_exit`, `s_ready_nuevo`, `s_hay_cpus` or a device's `s_cola` after
it, a `sem_wait` on `s_exit` or `s_cola` with the read after it, and the PCP's
posts of `s_ready_max` and `s_exit`. Nobody but the waiting thread takes from
these semaphores (the PCP's `sem_trywait` on `s_hay_cpus` is the thread that posts
it), so a post can be moved earlier and a wait later without being seen.
`s_ready_max` is also tried by the PLP; waiting for it and giving it back are
steps apart from the list accesses around them. A device's `s_cola` always equals
the length of its list and is represented by it.

What the code leaves undefined is a choice: a second `free` of a PCB ends the
kernel or not, and equal weights may be sorted in any order. A CPU process can die
whenever it is connected. Until the PCP has noticed, a PCB sent to it is accepted and
lost, or the send fails. `PcpCierra` then frees the number, even if the dispatcher or
the idle list still has it, and `CpuConecta` may be given it: the dispatcher's send
goes to whoever has the number (`DispEnvia`), who may be running another program or
not have announced itself. If no CPU has it the call fails and the dispatcher thread
ends, or the number is a program's by now and the PCB is lost all the same. Since the
PLP's connections take and leave numbers of the same table, which one is the lowest
free is not known here: a CPU may be given any number no other CPU has.

Abstractions: the conversation with the UMV at admission is one choice between
accepted and rejected (`UMV` has it whole); a script is a number of bursts and how it ends; the four
segments' destruction is membership in `destruidos`; log lines are left out except
`mostrar_datos_cola`, which can dereference a null element. `mostrar_cola_ready`
cannot: only the dispatcher itself removes from Ready. `rafagas` bounds
bursts per script (`MaxRafagas`) and `bajas` bounds the CPUs that leave
(`MaxBajas`). A CPU that has left does not come back: another process connects. The
scripts make no system call but `entradaSalida`, and programs stay until they are
told FINALIZAR; those that leave, and what a CPU that is given their number then
reads, are in `Mensajes`.

### How SemaforoAnsisop corresponds to the code

A script's `wait` is a question (`wait?`, answered at once by `syscall_wait` with
no PCB) and, if the answer is no, the PCB itself (`wait`). `proc[p]` is the
process as its CPU sees it, `mensajes[p]` and `respuesta[p]` the two directions of
its CPU's socket, `valor`, `enWait` and `liberar` the fields of
`t_semaforo_ansisop`. The steps are again the accesses to what PCP and thread
share: `PcpLeeValor` and `PcpResta` are the read and the write of
`*valor_semaforo - 1`, `HiloLee` and `HiloSuma` those of `*valor_sem + 1` (no mutex
excludes the two, so an update can be lost), `PcpMideBloqueados` and `PcpEncola`
the size of `pcbs_en_wait` and the insertion there, `PcpMide` and `PcpMuestra`
`_mostrar_cola_semaforo`, `PcpMiraValor` the TCUDAP test. The thread's wait and its
look at the list's size are one step: nobody else waits on `liberar`, so the wait
can be moved up to the look. Ready and the dispatcher are the environment:
`Despacha` puts the first PCB of Ready on a CPU. `MaxOps` bounds a script's calls.
`pases`, `seniales`, `tcudap` and `desvio` count what happened.

### How UMV corresponds to the code

`segs` is `listaSegmentos` (a set: what depends on its order is given by
position), `mem` is `mem_ppal` with, in each byte, the program for whom it was
last written, `activo` is `PROCESO_ACTIVO`, `op_atomica` the mutex. `hilo[h]` is a
thread: that of a connection from the accept queue (`encolada`) through its start
to its loop, and the console's. `cola[c]` and `resp[c]` are the two directions of
a socket; a client sends a request and waits, except `vaciar_exit`, whose request
has no answer and travels between the PLP's on the same socket.

Every operation on memory sleeps for the configured delay once it is entered, so
it is two steps: `Entra` (receive, lock, set the active process, look for free
spaces) and what it does after the sleep (`Accede`, `Crea`, `Destruye`);
compaction is a step for each segment it moves. `op_atomica` orders connections
among themselves. Two things break into it: a connection's thread initialises the
mutex again when it starts (`HiloArranca`), and the console never takes it.
It is the mutex of glibc: its word is 0, 1 or 2 (held, and somebody may
sleep on it); a connection that finds it held leaves a 2 and sleeps (`Duerme`), and an
unlock that finds a 2 wakes one (`AlSoltar`), which then takes it with a 2. To
initialise it clears the word and wakes nobody: the holder's unlock then finds a 0 and
wakes nobody, and those that sleep go on sleeping until a later unlock finds
a 2. The history variable `roto` records what has broken in (`reinicio`, `consola`),
an initialisation over connections that slept (`olvido`), an access outside its
segment (`fuera`: an offset that wraps passes `chequear_limites_lectoescritura`, which
compares the far end only) and a write of the operator's; the properties say what
holds until each of these.

After two segments have come to overlap, or the process has died or left `main`,
nothing is modelled (`Viva`). The stack's content is `PilaCPU`'s business: here a
CPU reads code and stack and writes the stack, at the offsets given. The dumps,
`info`, `retardo` and `getSegId` are left out; `cambiar_proceso_activo` as a
request has no sender. Bytes of a request are not parsed: an operation is a record.

### How PilaCPU corresponds to the code

`pcb` holds `cursor_stack`, `size_ctxt_actual` and `p_counter`, `pila` the bytes of
the segment, `dicc` the dictionary of the CPU that has the process. A line of the
script is one step, since nobody else touches that stack and the CPU waits for
each answer; a line that asks the kernel for a shared variable is two
(`ObtenerValorCompartida` or `AsignarValorCompartida`, then `CpuRecibe`), with the
PCP's `PcpAtiende` in between. What the CPU cannot tell apart is kept: a read
refused by the UMV looks like the numbers -1 and -2 (or like anything, `Ajeno`,
past the end), and a number whose first byte is 0 reaches `enviar_bytes` as a NULL
buffer and clears the four bytes (`Con`). A stack is not cleared when it is
created, so its bytes begin as anything of `Rellenos`.

`marcos` is a history variable: the contexts, as the calls, definitions and
assignments of the script say they should be. A process is followed until a return
takes a link that is not the one its call wrote (`causas`): `retornar` at the
outermost level or in a context entered without a return value (`uso`), or a link
with a number that was stored as 0 (`cero`). A line that only reads stands for the
expressions of the language; `irAlLabel` goes to one label that exists.

### How Mensajes corresponds to the code

A script and an order are packets: a length, then a body the network may cut
(`Cuerpo` pieces). `recvAll` writes every piece at the start of its buffer
(`comunicacion.c:53`), so a body that came in more than one piece is not what was
sent; what the receiver makes of it (the packet understood, ignored, or a crash) is
a choice, and `rotos` records who was concerned. While a body is incomplete the
PLP is inside `recvAll` and serves nobody (`plp`). `fd` gives the program or the CPU
at the other end of each descriptor: PLP and PCP are threads of one process, so both
`accept` (`Acepta`, `AceptaCpu`) take the lowest free number of one table, `close`
frees it, and the PCBs of a program that left keep it. An order about such a process
goes to whoever has the number. A program obeys it. A CPU finds it where it expects
the 48 bytes of a PCB (`trama` is then `corrida`): the next PCB sent to it is read out
of step, so that its process is `perdido`, and the CPU may ask for more or not
(`perdida`); what a CPU does with bytes that are no PCB is followed no further. CPUs do
not leave in this module. A send to a
closed peer is lost, and the next one, after the peer's reset, may raise SIGPIPE,
which the kernel does not handle (`caido`). Between CPUs and the PCP packets come
whole and in order; scheduling is reduced to a quantum of lines and any order among
ready processes.

## Runs

With `MCPlanificador` down to `ficha`; then with `MCSemaforo`, `MCUMV`, `MCPila` and
`MCMensajes`, as the configurations' names say. `CHECK_DEADLOCK FALSE` in each: every
script ends in a bounded model, and the kernel or the UMV may fall or be told to
quit; both leave nothing to do.

| run | instance | checks |
|---|---|---|
| `new` | 3 programs, 1 CPU, level 1, fair | `WorkersDeNew`: one worker per PCB of New; `SacaElMasLiviano`: what a worker takes is the lightest, but for one the PLP has still to sort; `NewAvanza`, `ExitSeVacia`: New and Exit drain |
| `vivo` | 2 programs, 2 CPUs, 1 device, level 2, fair | `ReadyAvanza`: no starvation in Ready; `TodoTermina`: every program let in ends and is told |
| `bajas` | 2 programs, 2 CPUs that may both leave, 2 descriptors, a device and an unknown name, level 2, 1 extra burst | `TypeOK`; `PcbEnUnLugar`: a PCB is in exactly one place; `CuposConservados`: free places, held places and places in transit add up to the level; `FichasDeReady`, `FichasDeExit`: semaphores against lists; `FichasDeCpu`: tokens and idle CPUs differ by at most the CPUs gone; `CausasDeCaida`: what brings which thread down; `FinalizadoAntes`: told exactly when in Exit or destroyed; `DespachoAOciosa`: one announcement, one PCB, but for descriptors closed while the kernel held them; `CumpleCiclo`: the refinement of `CicloDeVida`, over PCBs sent to the wrong connection too |
| `exit` | 2 programs, 1 CPU, level 2 | violated: `VaciarTieneElemento` |
| `descarte` | 2 programs, 2 CPUs that stay, level 2, 1 extra burst | violated: `VuelveAReady` |
| `ficha` | the same, one CPU may leave | violated: `BloqueaSinCpus` |
| `llamadas` | 2 processes, 3 calls each, a semaphore that starts at 1 and an unknown name, fair | `TypeOK` (the value never goes below zero), `ProcesoEnUnLugar`, `CuentaDelSemaforo`: the waits let through are the initial value and the signals plus the TCUDAP wake-ups and the lost updates; `RespuestaLlega`, `PrimeroSale` |
| `dormido` | 2 processes, 2 calls each, one semaphore | violated: `NadieDuermeDeMas` |
| `umv` | memory of 5 bytes, 16 virtual addresses, 2 programs that fit together only after the first has gone and memory is compacted, 1 CPU, 1 access or console command | `TypeOK`; `SolapeSoloPorConsola`; `CargaEscrita`: a ready program has its code, although the PLP takes -1 and -2 for success; `FinLimpio`; `AccesoPropio`: an access uses the segment of its own request; `CreaSiHay`: no memory only when there is none; `CumpleMemoria`: the refinement of `MemoriaVirtual` |
| `candado` | memory of 6 bytes, 2 programs, 2 CPUs, 1 access or `q`, fair | `NadaSeTraba`: loads come back and the UMV ends, but for a mutex that forgot its sleepers |
| `pila` | 1 process, stack of 30 bytes, 6 lines, 2 names, values 1, 256 and -1, program counters around 256, a shared variable and an unknown one, fair | `TypeOK`; `MarcosEnPila`, `DiccionarioFiel`, `ValorGuardado`: registers, links, names, dictionary and values are those of the program's contexts; `ErrorConCausa`; `EsperaTermina` |
| `mensajes` | 2 programs (one prints twice, one only ends, one may leave), 1 CPU, 3 descriptors, quantum of 1 line, bodies of 2 pieces, fair | `TypeOK`; `RecibeLoSuyo`: its own orders, in order; `TramaPorReuso`: a CPU reads out of step only under the number of a program that left; `ScriptAtendido`: a script is answered; `TodosSeEnteran`: who is let in is told to end |

Why the bounds are enough for the question: New needs three programs over one
place to hold two PCBs that sort; a stale position in Ready needs two PCBs, two
CPUs and one extra burst; `vaciar_exit` needs two PCBs in Exit at once; a stolen
token needs one CPU that leaves and one that does not; a PCB dropped from
`pcbs_en_wait` or from Ready, a lost update and a TCUDAP all need two processes and
at most three calls each (every branch of `SemaforoAnsisop` fires already with
two); the drift of `FichasDeCpu` and the fall of `quitar_cpu` need two CPUs that
leave; a number in use by two needs a CPU that leaves, another that is given its
descriptor, and two places, so that a second program is in Ready. One program is
heavier than the others, so sorting matters. Symmetry (CPUs, descriptors, and the
light programs) is used in `bajas` only, where no liveness property is checked;
`CumpleCiclo` is a safety property that treats programs alike.

### What the violated runs show

- `exit`: `vaciar_exit` loops `i` from 0 to the size of Exit removing position
  `i` of a list that shrinks. Two PCBs in Exit at one wake-up suffice for a null
  PCB; a wake-up whose PCB was taken in the round before frees the previous PCB
  again. The notes say one element per wake-up.
- `descarte`: between the PCP's `list_size(cola_ready)` and `list_add_in_index` the
  dispatcher removes the first PCB; the position is now past the end, and the
  preempted PCB is dropped: it is in no list, and its token of `s_ready_nuevo` finds
  none. (If it is the PLP that appends a program in that window, the preempted PCB is
  put ahead of it, not at the back; nothing is lost then.)
- `ficha`: a CPU dies before it has announced itself; the PCP still takes a token of
  `s_hay_cpus`, that of an idle CPU, and the dispatcher then blocks beside it.
- `dormido`: the semaphore's thread finds nobody blocked; the PCP queues a PCB and
  finds the value still zero; the thread raises it. The process sleeps on an open
  semaphore until another signal comes.

`CuentaDelSemaforo` states the other defect exactly: a TCUDAP wake-up releases a
process without lowering the value that was raised for it, so one signal lets two
waits through.

The liveness properties and `CausasDeCaida` are stated with these in view: they
say what holds *unless* the kernel falls, and what a fall needs. When
`FichasDeReady` counts `descartes`, it says precisely how many tokens are left
without a PCB.

### Fairness

`SpecJusta` gives every kernel thread and every connected CPU's loop weak
fairness (POSIX threads and processes, none at real-time priority), and the PCP's
service of each CPU strong fairness: its loop goes over all sockets `select` reports, so
a CPU whose message waits is served although the PCP is busy with others in
between. `WF(CpuConecta)` says the CPUs are started. Nothing makes programs
arrive, get rejected, or CPUs leave. Fairness applies to the actions conjoined
with `caido = "no"`, so behaviours in which the kernel falls stay in.
`PropsSemaforo` has a `SpecJusta` of the same kind; scripts need not call anything.

`UMV`, `PilaCPU` and `Mensajes` ask for weak fairness only: of `Avanza` as a whole in
`UMV` and `Mensajes` (threads, sleeps and sends end while there is one that can go
on, and in `Mensajes` the CPUs are started some day, as in `Planificador`; the operator, arriving programs and users who leave are not in it), and of
`PcpAtiende` and `CpuRecibe` in `PilaCPU`. Fairness of the whole is enough in the
first two because the actions in `Avanza` cannot go on for ever without the
progress asked for: loads, accesses, orders and quanta are finite.

### Bounds of the last runs

`umv`: five bytes are the fewest in which the second program's code index needs the
hole the first left and the rest of the memory together, so that compaction must
move a segment; a base can be drawn as 0, as one in use, or beside it; the offset
-1 wraps to before the segment; one command of the console or one access of a CPU is
enough to break into a load. `candado`: two CPUs are the fewest with which one is
inside, the PLP sleeps and the thread of the other starts; both programs have few
bytes and fixed bases, so that what is left is the lock. `pila`: thirty bytes hold a variable, a call that returns a
value, a variable in it and a call that returns none, and not one variable more; the
counter starts at 254 so that the saved one can be a multiple of 256; six lines are
enough for those four and the two returns. Values in the segment's bytes are
computed in full, so the sign and each of the four bytes matter. `mensajes`: with
a descriptor for each process the number of a program that left is given to the next
that connects, the other program or the CPU, while its process goes on; a body of two
pieces comes cut or whole; two prints in a quantum of one line interleave with the
PLP's orders. That a program obeys only its own orders over any
number of CPUs, which it may change between the prints, is the theorem's.

### What these runs show

- The mutex that each connection initialises again cannot make segments overlap,
  because one connection creates them all; it can make an access use another
  program's segment (`AccesoPropio` holds until `roto`), and it can leave a connection
  asleep on a mutex that is free: the PLP's, and with it the admission of programs
  (`NadaSeTraba` allows it, and in `candado` fails without that clause).
- The refusals the PLP does not recognise (-1, -2) do not occur when it loads a
  program unless somebody breaks in: `CargaEscrita`.
- A base drawn as 0 makes the PLP refuse a program although its segment was
  created, twice if the compaction's second attempt draws 0 again; `FinLimpio` shows
  that these segments are destroyed with the program.
- `comando_matar_umv` connects before it lowers `noTerminar`: `main` may take the
  connection for a client and wait for another one. `NadaSeTraba` allows it.
- A variable that holds -1 or -2 ends its program when it is read, and so may one
  that was never assigned: both are causes in `ErrorConCausa`.
- A program that leaves in the middle of its script leaves the PLP in `recvAll` for
  ever (`PlpTrabado`), and FINALIZAR may reach whoever was given the descriptor of a
  program that left (`RecibeLoSuyo`). If that is a CPU, another program's PCB is
  misread there and its user is never told, with nothing cut and the kernel alive
  (`TodosSeEnteran` names the case, `TramaPorReuso` its only cause).

## Theorems

`tlapm` checks each of them for every value of the constants that the named
assumptions allow.

| theorem | module | says |
|---|---|---|
| `TipoCorrecto` | `PlanificadorProofs` | `Spec => []TypeOK` |
| `FichasDeReadyCorrectas` | | tokens of `s_ready_nuevo` = PCBs in Ready + ignored insertions |
| `FichasDeExitBastan` | | a wake-up to come for each PCB in Exit |
| `WorkersDeNewCorrectos` | | one wt_nar per PCB of New |
| `WtNarNuncaCae` | | wt_nar never meets an empty New |
| `DispatcherSinPcb` | | the dispatcher lacks a PCB only after an ignored insertion |
| `PcbSiempreEnUnLugar` | `LugaresProofs` | a PCB is in exactly one place |
| `CuposSiempreConservados` | | the places of `s_ready_max` add up to the level |
| `SiempreFinalizadoAntes` | | told to end exactly when in Exit or destroyed |
| `SiempreElMasLiviano` | | the action property `SacaElMasLiviano`: a worker takes the lightest PCB of New, but for one still to be sorted |
| `FichasDeCpuCorrectas` | `DespachoProofs` | tokens and idle CPUs differ by at most the CPUs gone |
| `CausasDeCaidaCorrectas` | | what brings which thread down |
| `DespachoSoloAOciosa` | | one announcement, one PCB, whoever comes and goes over the descriptors |
| `ElCicloSeCumple` | | the refinement `CumpleCiclo` |
| `TipoSemaforoCorrecto` | `SemaforoProofs` | `Spec => []TypeOK`: a semaphore never goes below zero |
| `SiempreUnaRespuesta` | | `UnaRespuesta`, part of the inductive invariant: one answer for one question |
| `ProcesoSiempreEnUnLugar` | | a process is in one place |
| `CuentaSiempreCierra` | | what lets processes through is accounted for |
| `TipoUMVCorrecto` | `UMVProofs` | `Spec => []TypeOK`: no segment leaves memory |
| `SolapeSoloPorLaConsola` | | segments overlap only if the console broke in |
| `FinSiempreLimpio` | | nothing is left of a destroyed program |
| `AccesoSiemprePropio` | | the action property `AccesoPropio` |
| `MemoriaSeCumple` | | the refinement `CumpleMemoria` |
| `CreaSiempreSiHay` | | the action property `CreaSiHay` |
| `CargaSiempreEscrita` | | the code of a ready program is whole |
| `TipoMensajesCorrecto` | `MensajesProofs` | `Spec => []TypeOK` |
| `SiempreRecibeLoSuyo` | | a program obeys its own orders, in order |
| `SoloTramasPorReuso` | | a CPU reads out of step only under the number of a program that left |
| `TipoPilaCorrecto` | `PilaProofs` | `Spec => []TypeOK` |
| `PilasSiempreFieles` | | the inductive invariant `InvPila` |
| `MarcosSiempreEnPila` | | registers, links and names are those of the calls made |
| `DiccionarioSiempreFiel` | | each name is the last variable of the context so called |
| `ValorSiempreGuardado` | | no value is lost, in any context |
| `ErrorSiempreConCausa` | | the action property `ErrorConCausa` |

### Assumptions

They are named, stand in the module that declares the constants, and TLC evaluates
them in every run of that module. `ConstantesSupuestas`: finitely many programs
and CPUs, any devices, level, weights and bounds. `SupuestosSemaforo`: the
semaphores are among the names scripts use, with natural initial values; nothing
has to be finite. `SupuestosUMV`: code, stack and the first index are not empty
(`plp.c` builds them from a script), bases are drawn so that no segment wraps at the
end of the 32 bits (`rand() % 100000`, `segmento.c:257`, and a memory whose size is an
`int`, `umv.c:66`), offsets are integers, and the threads differ from each other;
memory may have any size.
`SupuestosMensajes`: socket numbers are naturals and `accept` takes the lowest, a
quantum and a body have at least one unit. `SupuestosPila`: the size of the stack,
the values of the script and what a refused read returns are 32-bit integers
(`Palabra`: three shifts by a byte leave a signed byte), names are bytes other than 0, a
new segment may hold any bytes, and no program counter reached overflows; the stack
may have any size and there may be any number of programs and names. `Nada` and `Nadie` stand for NULL and
are none of the things a variable may hold.

### Planificador

`TypeOK` is inductive: it says, besides the types, that a thread past the point
where it got a PCB or a CPU has one. `FichasDeReady` and `FichasDeExit` are
inductive relative to it; their step lemmas have one step per action that touches
the lists or semaphores concerned. `WorkersDeNew` is not: starting the thread for
the PCB being admitted must add one worker, which needs that program not to have
one yet, which in turn needs that a program connects once. `InvNew` adds these
two facts. From `WorkersDeNew` a worker past its wait implies a non-empty New, and
from `FichasDeReady` a dispatcher past its wait with Ready empty implies
`descartes > 0`.

`PcbEnUnLugar` counts elements of a set; the induction goes over places instead:
`Esta(p, k, x)` says that the PCB of `p` is in place `x` of kind `k`. `InvLugares`
is: a thread with no use for a PCB holds none (`ManosVacias`), no list has a PCB
twice (`ListasSinRepetir`), no PCB is in two places (`UnSoloLugar`), and a program
is somewhere exactly from its arrival (`AlgunLugar`). Without the first a stale
`pcb` of a thread would be a second copy; without the second taking a PCB from a
list would leave it there. Each action is first shown to leave all PCBs where they
were or to move one (`Lleva`; a CPU that dies moves all it had), and a single lemma
per kind of move keeps the invariant. The same moves give `Cupos` (a move into or out of a
place that counts changes the semaphore or a pending thread by as much),
`FinalizadoAntes`, and most of the refinement: `EstadoPorLugar` shows the state
`CicloDeVida` sees to be a function of the place, so a move of one PCB is one step
of the abstract specification, whose guard on the level comes from `Cupos`.
The PCBs on their way to a CPU whose connection is closed are lost together, and all
are in the same state of the cycle (`Pierden`).

`SacaElMasLiviano` rests on `NewOrdenada`, an inductive invariant: New is sorted, but
between the PLP's `list_add` and its `list_sort` for the PCB just appended, whatever
the workers take from the head.

Tokens of idle CPUs need the history of those that left. `InvBajas`: a CPU that left
says so once, in its last message, is counted once and keeps its socket until the PCP
closes it, and no two CPUs have one; `Hechos` are those the PCP is done with;
`InvFichas`: each of them put tokens and list at most one apart, in either direction,
and between `list_remove` and `sem_trywait` there is one more. `FichasDeCpu` itself is
not inductive, since `bajas` says nothing of how far the PCP has got. `DespachoAOciosa`
needs `InvConexion`: the dispatcher holds a number only between choosing it and
sending, and a number of the idle list or of the dispatcher that no CPU has is in
`vencidos`. So a CPU that connects under another number finds no announcement of its
predecessor (`InvDespacho`), and of those under a number in `vencidos` nothing is said:
such a number may be sent a
second PCB while it runs (`bajas` goes through it).

### SemaforoAnsisop

`InvSemaforo` is `TypeOK`, one place per process, lists without repetitions, one
answer per question and `MismoNombre` (a question is about the semaphore its process
waits for; only an existing one is refused). These hold only together: a second copy
of a process could ask again before its first question is answered, and the answer
to the one would block it on the semaphore of the other. `CuentaDelSemaforo` is then
inductive: `PcpResta` and `HiloSuma` add to `desvio` what they overwrite.

### UMV

`InvUMV` has six parts. `Tipos`, with what each thread may be asked for. `SinConsola`,
until the console breaks in: no two segments share a byte, the console and a
connection are not both inside an operation, the free spaces an operation found are
those of the table, and what a compaction moved lies below the point it reached.
`Exclusion`, until anything is broken into: one connection is inside, it holds
`op_atomica`, and the active process is its own. `UnPedido`: of the PLP's requests
with an answer one is in course. `Turnos`: a program is loaded, in one CPU, or
neither. `Bajas`: a program that ended has its destruction on the way or no
segments. `SolapeSoloPorConsola` needs `UnPedido`, because only creations and
compactions change positions and the PLP's socket is the one that carries them:
a second request in course would find stale spaces even with the mutex held.
That `TamMem` leaves room for what is placed comes from the free spaces lying between
consecutive segments; their ends are least elements of sets of numbers (`HayMinimo`,
from the well-ordering of Nat). For these theorems first-fit and worst-fit matter only
through `Elegir`, whose result is one of the spaces that fit.

`CumpleMemoria` needs that no two segments of a program have the same base
(`BasesDistintas`, inductive by itself whoever breaks in, since a base is drawn and its
segment added in one step): then seeing a segment through `Vista` loses none. A
segment that is moved is seen the same (`MovidoEntero`: the bytes it goes to are free
or its own, and those of the others stay). That what is given fits in memory is not
shown with a sum, which would be a recursive definition: the bytes of the segments that
are seen map one to one into the addresses of memory, because segments are apart
(`CabeTodo`).

`CreaSiHay`: a compaction leaves nothing free below the point it has reached
(`LlenoHasta`), so when the free spaces are looked for again nothing is free below any
segment (`LlenoTodo`); what is free is then one space, as large as all of it
(`UnSoloHueco`), and both algorithms take it if it is large enough. That a base in use
is not drawn again is what tells a refusal from a segment whose base was 0.

`CargaEscrita`: `Espera` says what the request in course is, for the segment and the
program the PLP is at. `Cargado` then follows a load: the base answered is of a segment
of the size asked for; so is the one the code is to be written at; and the code is
whole once the answer to its write has come, because a write of all of a segment's
bytes at offset 0 passes both checks. A segment and its program's bytes stay
(`SegmentoSigue`) through the writes of others, which fall in other segments,
through compactions, which copy them, and through destructions, which are only of
programs that ended (`Despedidos`).

### Mensajes

The orders a program has obeyed and those on their way to it make one sequence,
`Flujo(p)`; a step appends to it, cuts nothing, or moves the boundary. `InvMensajes`:
`Tipos`; `Conexion` (one socket per program, the one in its PCB while it is there);
`Guiones` (no order is about a process before its script was read); `Canales` and
`Cpus` (what a CPU sent is about one process, its PCB last, and a process has one
CPU); `Lineas` (the unread prints are the last lines executed); `Ordenadas` (the
flow's own orders are those of the script, as many as lines executed and read);
`Ajenas` (an order goes to another program only if its own had gone before its end);
`Finales` (told to end, its process is over). `Ordenadas` alone does not suffice: the
order of the PLP's welcome and of the PCP's prints depends on which thread has the
process, which is what `Cpus` and `Lineas` follow.

The proof corrected `RecibeLoSuyo`. It used to say that a program whose
process' orders reach another had left by itself, which TLC confirmed with two programs.
With three it is false: `r` leaves, the number of its socket is given to `p`, the
FINALIZAR of `r`'s process ends `p`, whose own process still runs; its orders then go
to `q`, the third owner of the number. The property now says what holds: the order of
its own end had not reached it.

### PilaCPU

None of the four invariants is inductive. `MarcosEnPila` says nothing of where a
context ends, nor of whether a link is intact that lies below a context whose values
are being written; `ValorGuardado` allows two variables to share bytes. `InvPila`
says for each process, until a return does not follow its call, that (`Fiel`)

- the contexts are one above another with their links between them (`Trazado`, which
  the function `Comienzo` is shown to satisfy and to be the only one to), the first is
  the base and no other, each one's link and variables lie inside the segment but for
  the four bytes of the value of the last variable, and a call that returns a value
  returns it to a variable of the context below (`Forma`);
- links, names and the values assigned are in the bytes, and an assigned value lies
  whole in the segment (`EnBytes`);
- `cursor_stack` and `size_ctxt_actual` are those of the last context, and no program
  counter, saved or current, is above the lines executed so far (`Registros`), which is
  what keeps it an `int` and so readable as it was written;
- a CPU that has the process has its dictionary, and a syscall in course is about a
  variable of the current context, whose failed read, if any, is already explained.

The lemmas below it are of four kinds. *Numbers*: four bytes taken from an `int` and put
together with the sign of the last are that `int` (`EnteroDeOctetos`), so what is read
where `Con` wrote is `Guardado` (`EnteroDeCon`), and what is read elsewhere has not
changed (`EnteroIgual`). *Layout*: sums exist and are unique without a recursive
operator (`HaySumas`, by a least counterexample, from the well-ordering of Nat), contexts
grow upwards (`TrazadoCrece`) and addresses of different variables are five bytes
apart at least (`Separadas`). *Operations on contexts*: `DefineBien`, `AsignaBien`,
`ApilaBien` and `FrontBien` show that writing a name, a value or a link, or leaving a
context, keeps layout and bytes; the write is above everything in the first and third
(`BytesDeAbajo`), so only an assignment needs `Separadas`. *The dictionary*:
`generarDiccionarioVariables` over the bytes gives `DiccDe` (`DiccionarioEs`), which a
definition and an assignment follow (`DiccDefine`, `DiccAsigna`). `PasoLocal` then turns
what a line does to one process into a step that keeps `InvPila`, and there is one lemma
per action.

`Causado` goes with each of them, for `ErrorConCausa`: a definition or a call is refused
only if less than a link is free (`DefineEnEs`), a read or a write of a variable only if
its value does not fit or it holds -1, -2 or nothing (`LecturaExplicada`), and a return
that follows its call is not refused (`EnlaceSin`, `EnlaceCon`, with all three numbers
natural), nor is the write of the value it returns, since the link above it fitted. The
division by 5 of `_popConRetorno` is exact because the link is right below `fin`
(`FondoEs`).

To be proved about, `PilaCPU` writes the four bytes of a number by three shifts, and
`dictionary_put` as a function of its own (`Anota`).

### Model-checked only

- Liveness (`NewAvanza`, `ExitSeVacia`, `ReadyAvanza`, `TodoTermina`, `RespuestaLlega`,
  `PrimeroSale`, `NadaSeTraba`, `EsperaTermina`, `ScriptAtendido`, `TodosSeEnteran`):
  fairness and `ENABLED` are beyond the prover.
- The four violated properties are false; their runs give the counterexamples.

Every invariant, action property and refinement that a passing run checks is stated by
a theorem.

## Not modelled, and what is left

Not in any module: the start-up of the kernel (threads that start before the
semaphores they use are initialised); what two threads inside one operation of
so-commons leave of a list, which is that library's undefined behaviour; `recvPcb`
in pieces, and a packet whose length comes in two pieces; `imprimir`'s buffer of ten
characters, and texts cut where they hold a separator of the protocol. Left out for
good: reading configuration files, logs, parsing and the metadata of a script (an
external library), the dumps of the console, `Firstfit.c`.

What is left to do is `Arranque`, the order of start-up: `kernel.c` starts the PLP before
the PCP has initialised the semaphores both use, so a token posted in between is lost.
