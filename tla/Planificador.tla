---------------------------- MODULE Planificador ----------------------------
(***************************************************************************)
(* The scheduler of the kernel process: the threads PLP (long term), PCP   *)
(* (short term), dispatcher, vaciar_exit, one wt_nar worker per program    *)
(* that finds Ready full, one hilo_entrada_salida per device; and the CPU  *)
(* processes at the other end of the PCP's sockets.                        *)
(*                                                                         *)
(* Every pthread mutex of these threads is a local variable of the         *)
(* function that locks it, so none excludes another thread: the threads    *)
(* interleave at every access to a shared list or semaphore.  One action   *)
(* is one such access, with two exceptions that leave every outcome        *)
(* reachable: an insertion is joined with the sem_post of s_exit,          *)
(* s_ready_nuevo, s_hay_cpus or s_cola that follows it, and the sem_wait   *)
(* of s_exit or s_cola with the list read that follows it.  No thread but  *)
(* the one that posts calls sem_trywait on these, so a post can be moved   *)
(* earlier and a wait later past the steps of the others.  s_ready_max is  *)
(* tried by the PLP: its wait and its post are steps apart from the list   *)
(* accesses around them (the PCP's post of it carries that of s_exit).     *)
(*                                                                         *)
(* A list operation is one atomic step here.  The semaphores are           *)
(* initialised (the PCP's start-up race is not in this module).  The       *)
(* scripts make no system call but entradaSalida and the programs stay     *)
(* connected until they are told FINALIZAR: what a PCB does in the stream  *)
(* of a connection that waits for something else is in module Mensajes.    *)
(***************************************************************************)
EXTENDS Integers, FiniteSets, Listas

CONSTANTS
    Programas,          \* the programs (client processes) that may connect
    CPUs,               \* the CPU processes that may connect
    Sockets,            \* the descriptors accept may give the PCP for them
    Dispositivos,       \* the devices in the kernel's configuration
    NombresES,          \* the device names scripts use in entradaSalida
    Multiprogramacion,  \* MULTIPROGRAMACION of the configuration file
    Peso,               \* the weight calcularPeso gives each program
    MaxRafagas,         \* bound: quanta a script uses up before it ends
    MaxBajas,           \* bound: CPU processes that leave or die
    Nada                \* the absence of a PCB, a CPU or a device

ASSUME ConstantesSupuestas ==
    /\ IsFiniteSet(Programas) /\ IsFiniteSet(CPUs)
    /\ Dispositivos \subseteq NombresES
    /\ Multiprogramacion \in Nat
    /\ Peso \in [Programas -> Nat]
    /\ MaxRafagas \in Nat /\ MaxBajas \in Nat
    /\ Nada \notin Programas \cup CPUs \cup NombresES \cup Sockets

VARIABLES
    programa,     \* what each program knows: "afuera", "adentro", "finalizado"
    plp,          \* PLP thread: pc, the PCB it is building, list positions it read
    colaNew, colaReady, colaExit,                 \* the kernel's lists of PCBs
    sReadyMax, sReadyNuevo, sExit, sHayCpus,      \* the kernel's semaphores
    worker,       \* wt_nar threads, named by the program they were started for
    pcp,          \* PCP thread: pc, PCB, CPU and list positions it holds
    cpusOciosas,  \* list of idle CPUs, each by the number of its socket
    socket,       \* per CPU: the socket the PCP has open to it, or Nada
    mensajes,     \* per CPU: messages sent to the PCP and not yet received
    dispatcher,   \* dispatcher thread: pc, CPU and PCB it holds
    canal,        \* per CPU: PCBs sent to it and not received
    cpu,          \* per CPU process: pc and the PCB it is running
    vaciar,       \* vaciar_exit thread: pc, loop index and list size it read
    colaIO,       \* per device: PCBs waiting for it (its s_cola counts them)
    hiloIO,       \* per device thread: pc, PCB and position it read
    destruidos,   \* programs whose segments the UMV was asked to destroy
    rafagas,      \* quanta each program has used up (bounded by MaxRafagas)
    bajas,        \* CPUs that left or died (bounded by MaxBajas)
    perdidos,     \* history: PCBs no list, thread or CPU holds any more
    vencidos,     \* history: sockets closed that the dispatcher could still use
    descartes,    \* history: insertions in colaReady that were ignored
    caido         \* "no", or the thread whose invalid access ended the kernel

colas  == <<colaNew, colaReady, colaExit>>
sems   == <<sReadyMax, sReadyNuevo, sExit, sHayCpus>>
cpuLado == <<cpu, rafagas, bajas>>
io     == <<colaIO, hiloIO>>
historia == <<perdidos, vencidos, descartes>>
vars == <<programa, plp, colas, sems, worker, pcp, cpusOciosas, socket,
          mensajes, dispatcher, canal, cpuLado, vaciar, io, destruidos,
          historia, caido>>

Pcb  == Programas \cup {Nada}
\* What the threads of the kernel hold of a CPU is the number of its socket.
Cpu  == Sockets \cup {Nada}

\* What a CPU sends to the PCP: that it is idle or gone, or a PCB it gives back.
Mensaje == [tipo : {"O", "fin"}, pcb : {Nada}, disp : {Nada}]
    \cup [tipo : {"S", "Q", "X", "F", "E"}, pcb : Programas, disp : NombresES \cup {Nada}]

\* A message of a CPU: its kind, the PCB and, for 'S', the device it asks for.
Msj(t, p, d) == [tipo |-> t, pcb |-> p, disp |-> d]

PlpOcioso  == [pc |-> "select", pcb |-> Nada, tam |-> 0, i |-> 0]
PlpMide    == [PlpOcioso EXCEPT !.pc = "mide"]
PcpOcioso  == [pc |-> "select", pcb |-> Nada, cpu |-> Nada, tam |-> 0, i |-> 0]
DispEspera == [pc |-> "espera", cpu |-> Nada, pcb |-> Nada]
CpuLibre   == [pc |-> "libre", pcb |-> Nada]

Init ==
    /\ programa = [p \in Programas |-> "afuera"]
    /\ plp = PlpOcioso
    /\ colaNew = <<>> /\ colaReady = <<>> /\ colaExit = <<>>
    /\ sReadyMax = Multiprogramacion /\ sReadyNuevo = 0
    /\ sExit = 0 /\ sHayCpus = 0
    /\ worker = [p \in Programas |-> [pc |-> "no", pcb |-> Nada]]
    /\ pcp = PcpOcioso
    /\ cpusOciosas = <<>> /\ socket = [c \in CPUs |-> Nada]
    /\ mensajes = [c \in CPUs |-> <<>>]
    /\ dispatcher = DispEspera
    /\ canal = [c \in CPUs |-> <<>>]
    /\ cpu = [c \in CPUs |-> [pc |-> "apagada", pcb |-> Nada]]
    /\ vaciar = [pc |-> "espera", i |-> 0, size |-> 0]
    /\ colaIO = [d \in Dispositivos |-> <<>>]
    /\ hiloIO = [d \in Dispositivos |-> [pc |-> "espera", pcb |-> Nada, tam |-> 0]]
    /\ destruidos = {}
    /\ rafagas = [p \in Programas |-> 0]
    /\ bajas = 0
    /\ perdidos = {} /\ vencidos = {} /\ descartes = 0
    /\ caido = "no"

-----------------------------------------------------------------------------
(* The PLP thread *)

\* A 'P' message: atender_solicitud_programa created the four segments, and
\* the program is told it is in (INFORMAR).
AceptarPrograma(p) ==
    /\ plp.pc = "select" /\ programa[p] = "afuera"
    /\ programa' = [programa EXCEPT ![p] = "adentro"]
    /\ plp' = [PlpOcioso EXCEPT !.pc = "admision", !.pcb = p]
    /\ UNCHANGED <<colas, sems, worker, pcp, cpusOciosas, socket, mensajes,
                   dispatcher, canal, cpuLado, vaciar, io, destruidos,
                   historia, caido>>

\* Variant: the rejection gives back a place of s_ready_max.
RechazarDevolviendoLugar(p) ==
    /\ plp.pc = "select" /\ programa[p] = "afuera"
    /\ programa' = [programa EXCEPT ![p] = "finalizado"]
    /\ colaExit' = Append(colaExit, p)
    /\ sExit' = sExit + 1
    /\ sReadyMax' = sReadyMax + 1
    /\ UNCHANGED <<plp, colaNew, colaReady, sReadyNuevo, sHayCpus,
                   worker, pcp, cpusOciosas, socket, mensajes, dispatcher,
                   canal, cpuLado, vaciar, io, destruidos, historia, caido>>

\* A 'P' message the UMV has no room for: FINALIZAR to the program, and the
\* PCB goes to Exit without ever having taken a place of s_ready_max.
RechazarPrograma(p) ==
    /\ plp.pc = "select" /\ programa[p] = "afuera"
    /\ programa' = [programa EXCEPT ![p] = "finalizado"]
    /\ colaExit' = Append(colaExit, p)
    /\ sExit' = sExit + 1
    /\ UNCHANGED <<plp, colaNew, colaReady, sReadyMax, sReadyNuevo, sHayCpus,
                   worker, pcp, cpusOciosas, socket, mensajes, dispatcher,
                   canal, cpuLado, vaciar, io, destruidos, historia, caido>>

\* Variant: the PCB goes to Ready whatever s_ready_max says.
AdmitirSinProbar ==
    /\ plp.pc = "admision"
    /\ plp' = [plp EXCEPT !.pc = "a_ready"]
    /\ UNCHANGED <<programa, colas, sems, worker, pcp,
                   cpusOciosas, socket, mensajes, dispatcher, canal,
                   cpuLado, vaciar, io, destruidos, historia, caido>>

\* sem_trywait(&s_ready_max): with room the PCB goes to Ready, otherwise to New.
ProbarReadyMax ==
    /\ plp.pc = "admision"
    /\ \/ /\ sReadyMax > 0
          /\ sReadyMax' = sReadyMax - 1
          /\ plp' = [plp EXCEPT !.pc = "a_ready"]
       \/ /\ sReadyMax = 0
          /\ plp' = [plp EXCEPT !.pc = "a_new"]
          /\ UNCHANGED sReadyMax
    /\ UNCHANGED <<programa, colas, sReadyNuevo, sExit, sHayCpus, worker, pcp,
                   cpusOciosas, socket, mensajes, dispatcher, canal,
                   cpuLado, vaciar, io, destruidos, historia, caido>>

PlpAReady ==
    /\ plp.pc = "a_ready"
    /\ colaReady' = Append(colaReady, plp.pcb)
    /\ sReadyNuevo' = sReadyNuevo + 1
    /\ plp' = PlpMide
    /\ UNCHANGED <<programa, colaNew, colaExit, sReadyMax, sExit, sHayCpus,
                   worker, pcp, cpusOciosas, socket, mensajes, dispatcher,
                   canal, cpuLado, vaciar, io, destruidos, historia, caido>>

PlpANew ==
    /\ plp.pc = "a_new"
    /\ colaNew' = Append(colaNew, plp.pcb)
    /\ plp' = [plp EXCEPT !.pc = "ordena"]
    /\ UNCHANGED <<programa, colaReady, colaExit, sems, worker, pcp,
                   cpusOciosas, socket, mensajes, dispatcher, canal,
                   cpuLado, vaciar, io, destruidos, historia, caido>>

\* Variant: New is left in order of arrival.
NewSinOrdenar ==
    /\ plp.pc = "ordena"
    /\ UNCHANGED colaNew
    /\ worker' = [worker EXCEPT ![plp.pcb].pc = "espera"]
    /\ plp' = PlpMide
    /\ UNCHANGED <<programa, colaReady, colaExit, sems, pcp, cpusOciosas,
                   socket, mensajes, dispatcher, canal, cpuLado, vaciar,
                   io, destruidos, historia, caido>>

\* Variant: a worker is started only for the first PCB of New.
WorkerSoloAlPrimero ==
    /\ plp.pc = "ordena"
    /\ colaNew' \in ListSort(colaNew, Peso)
    /\ worker' = IF Len(colaNew) > 1 THEN worker
                 ELSE [worker EXCEPT ![plp.pcb].pc = "espera"]
    /\ plp' = PlpMide
    /\ UNCHANGED <<programa, colaReady, colaExit, sems, pcp, cpusOciosas,
                   socket, mensajes, dispatcher, canal, cpuLado, vaciar,
                   io, destruidos, historia, caido>>

\* list_sort(cola_new, ordenar_por_peso), then a wt_nar thread is started.
\* The new thread is not seen before it runs, so both are one step.
OrdenarNew ==
    /\ plp.pc = "ordena"
    /\ colaNew' \in ListSort(colaNew, Peso)
    /\ worker' = [worker EXCEPT ![plp.pcb].pc = "espera"]
    /\ plp' = PlpMide
    /\ UNCHANGED <<programa, colaReady, colaExit, sems, pcp, cpusOciosas,
                   socket, mensajes, dispatcher, canal, cpuLado, vaciar,
                   io, destruidos, historia, caido>>

\* mostrar_datos_cola(cola_new): reads the size of New, then each element by its
\* position.  One that is gone by then is a null PCB, whose id is printed.
MedirNew ==
    /\ plp.pc = "mide"
    /\ plp' = IF colaNew = <<>> THEN PlpOcioso
              ELSE [PlpOcioso EXCEPT !.pc = "muestra", !.tam = Len(colaNew)]
    /\ UNCHANGED <<programa, colas, sems, worker, pcp, cpusOciosas, socket,
                   mensajes, dispatcher, canal, cpuLado, vaciar, io, destruidos,
                   historia, caido>>

MostrarNew ==
    /\ plp.pc = "muestra"
    /\ \/ /\ plp.i < Len(colaNew)
          /\ plp' = IF plp.i + 1 = plp.tam THEN PlpOcioso ELSE [plp EXCEPT !.i = @ + 1]
          /\ UNCHANGED caido
       \/ /\ plp.i >= Len(colaNew)
          /\ caido' = "plp"
          /\ UNCHANGED plp
    /\ UNCHANGED <<programa, colas, sems, worker, pcp, cpusOciosas, socket,
                   mensajes, dispatcher, canal, cpuLado, vaciar, io, destruidos,
                   historia>>

-----------------------------------------------------------------------------
(* The wt_nar threads *)

\* sem_wait(&s_ready_max)
WorkerLugar(w) ==
    /\ worker[w].pc = "espera" /\ sReadyMax > 0
    /\ sReadyMax' = sReadyMax - 1
    /\ worker' = [worker EXCEPT ![w].pc = "saca"]
    /\ UNCHANGED <<programa, plp, colas, sReadyNuevo, sExit, sHayCpus, pcp,
                   cpusOciosas, socket, mensajes, dispatcher, canal,
                   cpuLado, vaciar, io, destruidos, historia, caido>>

\* list_remove(cola_new, 0): on an empty list the library follows a null head.
WorkerSaca(w) ==
    /\ worker[w].pc = "saca"
    /\ \/ /\ colaNew # <<>>
          /\ worker' = [worker EXCEPT ![w] = [pc |-> "encola", pcb |-> Head(colaNew)]]
          /\ colaNew' = Tail(colaNew)
          /\ UNCHANGED caido
       \/ /\ colaNew = <<>>
          /\ caido' = "wt_nar"
          /\ UNCHANGED <<worker, colaNew>>
    /\ UNCHANGED <<programa, plp, colaReady, colaExit, sems, pcp, cpusOciosas,
                   socket, mensajes, dispatcher, canal, cpuLado, vaciar,
                   io, destruidos, historia>>

WorkerEncola(w) ==
    /\ worker[w].pc = "encola"
    /\ colaReady' = Append(colaReady, worker[w].pcb)
    /\ sReadyNuevo' = sReadyNuevo + 1
    /\ worker' = [worker EXCEPT ![w] = [pc |-> "fin", pcb |-> Nada]]
    /\ UNCHANGED <<programa, plp, colaNew, colaExit, sReadyMax, sExit, sHayCpus,
                   pcp, cpusOciosas, socket, mensajes, dispatcher, canal,
                   cpuLado, vaciar, io, destruidos, historia, caido>>

-----------------------------------------------------------------------------
(* The dispatcher thread *)

\* Variant: the token is taken without waiting for it.
DispSinEsperarPcb ==
    /\ dispatcher.pc = "espera"
    /\ sReadyNuevo' = sReadyNuevo - 1
    /\ dispatcher' = [dispatcher EXCEPT !.pc = "pide_cpu"]
    /\ UNCHANGED <<programa, plp, colas, sReadyMax, sExit, sHayCpus, worker,
                   pcp, cpusOciosas, socket, mensajes, canal, cpuLado,
                   vaciar, io, destruidos, historia, caido>>

\* sem_wait(&s_ready_nuevo)
DispEsperaPcb ==
    /\ dispatcher.pc = "espera" /\ sReadyNuevo > 0
    /\ sReadyNuevo' = sReadyNuevo - 1
    /\ dispatcher' = [dispatcher EXCEPT !.pc = "pide_cpu"]
    /\ UNCHANGED <<programa, plp, colas, sReadyMax, sExit, sHayCpus, worker,
                   pcp, cpusOciosas, socket, mensajes, canal, cpuLado,
                   vaciar, io, destruidos, historia, caido>>

\* sem_wait(&s_hay_cpus)
DispEsperaCpu ==
    /\ dispatcher.pc = "pide_cpu" /\ sHayCpus > 0
    /\ sHayCpus' = sHayCpus - 1
    /\ dispatcher' = [dispatcher EXCEPT !.pc = "toma_cpu"]
    /\ UNCHANGED <<programa, plp, colas, sReadyMax, sReadyNuevo, sExit, worker,
                   pcp, cpusOciosas, socket, mensajes, canal, cpuLado,
                   vaciar, io, destruidos, historia, caido>>

\* Variant: the CPU is read with list_get and stays in the list.
DispMiraCpu ==
    /\ dispatcher.pc = "toma_cpu"
    /\ \/ /\ cpusOciosas # <<>>
          /\ dispatcher' = [dispatcher EXCEPT !.pc = "toma_pcb", !.cpu = Head(cpusOciosas)]
          /\ UNCHANGED cpusOciosas
          /\ UNCHANGED caido
       \/ /\ cpusOciosas = <<>>
          /\ caido' = "dispatcher_cpu"
          /\ UNCHANGED <<dispatcher, cpusOciosas>>
    /\ UNCHANGED <<programa, plp, colas, sems, worker, pcp, socket,
                   mensajes, canal, cpuLado, vaciar, io, destruidos, historia>>

\* list_remove(cpus_ociosas, 0)
DispTomaCpu ==
    /\ dispatcher.pc = "toma_cpu"
    /\ \/ /\ cpusOciosas # <<>>
          /\ dispatcher' = [dispatcher EXCEPT !.pc = "toma_pcb", !.cpu = Head(cpusOciosas)]
          /\ cpusOciosas' = Tail(cpusOciosas)
          /\ UNCHANGED caido
       \/ /\ cpusOciosas = <<>>
          /\ caido' = "dispatcher_cpu"
          /\ UNCHANGED <<dispatcher, cpusOciosas>>
    /\ UNCHANGED <<programa, plp, colas, sems, worker, pcp, socket,
                   mensajes, canal, cpuLado, vaciar, io, destruidos, historia>>

\* Variant: the PCB is read with list_get and stays in Ready.
DispMiraPcb ==
    /\ dispatcher.pc = "toma_pcb"
    /\ \/ /\ colaReady # <<>>
          /\ dispatcher' = [dispatcher EXCEPT !.pc = "envia", !.pcb = Head(colaReady)]
          /\ UNCHANGED colaReady
          /\ UNCHANGED caido
       \/ /\ colaReady = <<>>
          /\ caido' = "dispatcher_pcb"
          /\ UNCHANGED <<dispatcher, colaReady>>
    /\ UNCHANGED <<programa, plp, colaNew, colaExit, sems, worker, pcp,
                   cpusOciosas, socket, mensajes, canal, cpuLado, vaciar,
                   io, destruidos, historia>>

\* list_remove(cola_ready, 0)
DispTomaPcb ==
    /\ dispatcher.pc = "toma_pcb"
    /\ \/ /\ colaReady # <<>>
          /\ dispatcher' = [dispatcher EXCEPT !.pc = "envia", !.pcb = Head(colaReady)]
          /\ colaReady' = Tail(colaReady)
          /\ UNCHANGED caido
       \/ /\ colaReady = <<>>
          /\ caido' = "dispatcher_pcb"
          /\ UNCHANGED <<dispatcher, colaReady>>
    /\ UNCHANGED <<programa, plp, colaNew, colaExit, sems, worker, pcp,
                   cpusOciosas, socket, mensajes, canal, cpuLado, vaciar,
                   io, destruidos, historia>>

\* sendAll of the PCB to the number the dispatcher holds, whoever has it by now:
\* a CPU, be it waiting, running another, gone and not yet closed by the PCP, or
\* not the one that announced itself under that number.  When nobody alive has
\* it the call fails and the thread ends, or the number is a connection of the
\* PLP, which takes its sockets from the same table: the PCB is lost either way.
DispEnvia ==
    /\ dispatcher.pc = "envia"
    /\ \/ /\ \E c \in CPUs :
                /\ socket[c] = dispatcher.cpu
                /\ canal' = [canal EXCEPT ![c] = Append(@, dispatcher.pcb)]
          /\ dispatcher' = DispEspera
          /\ UNCHANGED perdidos
       \/ /\ \A c \in CPUs : socket[c] = dispatcher.cpu => cpu[c].pc = "salio"
          /\ dispatcher' \in {DispEspera, [DispEspera EXCEPT !.pc = "muerto"]}
          /\ perdidos' = perdidos \cup {dispatcher.pcb}
          /\ UNCHANGED canal
    /\ UNCHANGED <<programa, plp, colas, sems, worker, pcp, cpusOciosas,
                   socket, mensajes, cpuLado, vaciar, io, destruidos,
                   vencidos, descartes, caido>>

-----------------------------------------------------------------------------
(* The PCP thread *)

\* The select loop has a message of kind t of CPU c to receive.
Recibe(c, t) ==
    /\ pcp.pc = "select" /\ socket[c] # Nada
    /\ mensajes[c] # <<>> /\ Head(mensajes[c]).tipo \in t
    /\ mensajes' = [mensajes EXCEPT ![c] = Tail(@)]

\* Variant: s_hay_cpus is not posted.
PcpOciosaSinAviso(c) ==
    /\ Recibe(c, {"O"})
    /\ cpusOciosas' = Append(cpusOciosas, socket[c])
    /\ UNCHANGED <<programa, plp, colas, sems, worker,
                   pcp, socket, dispatcher, canal, cpuLado, vaciar, io,
                   destruidos, historia, caido>>

\* 'O': the CPU joins the list of idle CPUs and s_hay_cpus is posted.
PcpOciosa(c) ==
    /\ Recibe(c, {"O"})
    /\ cpusOciosas' = Append(cpusOciosas, socket[c])
    /\ sHayCpus' = sHayCpus + 1
    /\ UNCHANGED <<programa, plp, colas, sReadyMax, sReadyNuevo, sExit, worker,
                   pcp, socket, dispatcher, canal, cpuLado, vaciar, io,
                   destruidos, historia, caido>>

\* 'Q' and 'X': the position at the end of Ready is read...
PcpMideReady(c) ==
    /\ Recibe(c, {"Q", "X"})
    /\ pcp' = [PcpOcioso EXCEPT !.pc = "inserta", !.tam = Len(colaReady),
                                !.pcb = Head(mensajes[c]).pcb]
    /\ UNCHANGED <<programa, plp, colas, sems, worker, cpusOciosas, socket,
                   dispatcher, canal, cpuLado, vaciar, io, destruidos,
                   historia, caido>>

\* Variant: s_ready_nuevo is not posted.
InsertarSinAviso(pos, p) ==
    /\ colaReady' = ListAddInIndex(colaReady, pos, p)
    /\ UNCHANGED sReadyNuevo
    /\ IF pos <= Len(colaReady)
       THEN UNCHANGED historia
       ELSE /\ perdidos' = perdidos \cup {p}
            /\ descartes' = descartes + 1
            /\ UNCHANGED vencidos

\* ... and the PCB inserted there: at the end only if Ready has not changed.
InsertarEnReady(pos, p) ==
    /\ colaReady' = ListAddInIndex(colaReady, pos, p)
    /\ sReadyNuevo' = sReadyNuevo + 1
    /\ IF pos <= Len(colaReady)
       THEN UNCHANGED historia
       ELSE /\ perdidos' = perdidos \cup {p}
            /\ descartes' = descartes + 1
            /\ UNCHANGED vencidos

PcpInserta ==
    /\ pcp.pc = "inserta"
    /\ InsertarEnReady(pcp.tam, pcp.pcb)
    /\ pcp' = PcpOcioso
    /\ UNCHANGED <<programa, plp, colaNew, colaExit, sReadyMax, sExit, sHayCpus,
                   worker, cpusOciosas, socket, mensajes, dispatcher, canal,
                   cpuLado, vaciar, io, destruidos, caido>>

\* Variant: the program is not told that it ended.
PcpTerminaCallada(c) ==
    LET p == Head(mensajes[c]).pcb
    IN  /\ Recibe(c, {"F", "E"})
        /\ colaExit' = Append(colaExit, p)
        /\ pcp' = [PcpOcioso EXCEPT !.pc = "libera"]
        /\ UNCHANGED <<programa, plp, colaNew, colaReady, sems, worker, cpusOciosas,
                       socket, dispatcher, canal, cpuLado, vaciar, io,
                       destruidos, historia, caido>>

\* 'F' and 'E': FINALIZAR to the program, and its PCB to Exit...
PcpTermina(c) ==
    LET p == Head(mensajes[c]).pcb
    IN  /\ Recibe(c, {"F", "E"})
        /\ programa' = [programa EXCEPT ![p] = "finalizado"]
        /\ colaExit' = Append(colaExit, p)
        /\ pcp' = [PcpOcioso EXCEPT !.pc = "libera"]
        /\ UNCHANGED <<plp, colaNew, colaReady, sems, worker, cpusOciosas,
                       socket, dispatcher, canal, cpuLado, vaciar, io,
                       destruidos, historia, caido>>

\* Variant: s_ready_max is not posted.
PcpLiberaSinLugar ==
    /\ pcp.pc = "libera"
    /\ UNCHANGED sReadyMax
    /\ sExit' = sExit + 1
    /\ pcp' = PcpOcioso
    /\ UNCHANGED <<programa, plp, colas, sReadyNuevo, sHayCpus, worker,
                   cpusOciosas, socket, mensajes, dispatcher, canal,
                   cpuLado, vaciar, io, destruidos, historia, caido>>

\* Variant: s_exit is not posted.
PcpLiberaSinExit ==
    /\ pcp.pc = "libera"
    /\ sReadyMax' = sReadyMax + 1
    /\ UNCHANGED sExit
    /\ pcp' = PcpOcioso
    /\ UNCHANGED <<programa, plp, colas, sReadyNuevo, sHayCpus, worker,
                   cpusOciosas, socket, mensajes, dispatcher, canal,
                   cpuLado, vaciar, io, destruidos, historia, caido>>

\* ... then sem_post(&s_ready_max) and sem_post(&s_exit).
PcpLibera ==
    /\ pcp.pc = "libera"
    /\ sReadyMax' = sReadyMax + 1
    /\ sExit' = sExit + 1
    /\ pcp' = PcpOcioso
    /\ UNCHANGED <<programa, plp, colas, sReadyNuevo, sHayCpus, worker,
                   cpusOciosas, socket, mensajes, dispatcher, canal,
                   cpuLado, vaciar, io, destruidos, historia, caido>>

\* 'S' with entradaSalida: the PCB waits for the device; with a name no device
\* has, syscall_entradaSalida returns -1 and nobody keeps the PCB.
PcpEntradaSalida(c) ==
    LET m == Head(mensajes[c])
    IN  /\ Recibe(c, {"S"})
        /\ \/ /\ m.disp \in Dispositivos
              /\ colaIO' = [colaIO EXCEPT ![m.disp] = Append(@, m.pcb)]
              /\ UNCHANGED perdidos
           \/ /\ m.disp \notin Dispositivos
              /\ perdidos' = perdidos \cup {m.pcb}
              /\ UNCHANGED colaIO
        /\ UNCHANGED <<programa, plp, colas, sems, worker, pcp, cpusOciosas,
                       socket, dispatcher, canal, cpuLado, vaciar, hiloIO,
                       destruidos, vencidos, descartes, caido>>

\* The connection of CPU c is closed: quitar_cpu reads the size of the list of
\* idle CPUs, looks for its socket position by position, and removes what is then there.
PcpDesconexion(c) ==
    /\ Recibe(c, {"fin"})
    /\ pcp' = [PcpOcioso EXCEPT !.cpu = socket[c], !.tam = Len(cpusOciosas),
                                !.pc = IF cpusOciosas = <<>> THEN "cierra" ELSE "busca"]
    /\ UNCHANGED <<programa, plp, colas, sems, worker, cpusOciosas, socket,
                   dispatcher, canal, cpuLado, vaciar, io, destruidos,
                   historia, caido>>

PcpBusca ==
    /\ pcp.pc = "busca"
    /\ \/ /\ pcp.i >= Len(cpusOciosas)          \* list_get returned null
          /\ caido' = "quitar_cpu"
          /\ UNCHANGED pcp
       \/ /\ pcp.i < Len(cpusOciosas)
          /\ \/ /\ cpusOciosas[pcp.i + 1] = pcp.cpu
                /\ pcp' = [pcp EXCEPT !.pc = "quita"]
             \/ /\ cpusOciosas[pcp.i + 1] # pcp.cpu
                /\ pcp' = IF pcp.i + 1 < pcp.tam THEN [pcp EXCEPT !.i = @ + 1]
                          ELSE [pcp EXCEPT !.pc = "cierra"]
          /\ UNCHANGED caido
    /\ UNCHANGED <<programa, plp, colas, sems, worker, cpusOciosas, socket,
                   mensajes, dispatcher, canal, cpuLado, vaciar, io, destruidos,
                   historia>>

\* list_remove(cpus_ociosas, i): beyond the end it removes nothing, at 0 of an
\* empty list it follows a null head.
PcpQuita ==
    /\ pcp.pc = "quita"
    /\ \/ /\ pcp.i = 0 /\ cpusOciosas = <<>>
          /\ caido' = "quitar_cpu"
          /\ UNCHANGED <<pcp, cpusOciosas>>
       \/ /\ pcp.i > 0 \/ cpusOciosas # <<>>
          /\ cpusOciosas' = IF pcp.i < Len(cpusOciosas)
                            THEN RemoveAt(cpusOciosas, pcp.i + 1) ELSE cpusOciosas
          /\ pcp' = [pcp EXCEPT !.pc = "cierra"]
          /\ UNCHANGED caido
    /\ UNCHANGED <<programa, plp, colas, sems, worker, socket, mensajes,
                   dispatcher, canal, cpuLado, vaciar, io, destruidos, historia>>

\* sem_trywait(&s_hay_cpus), whether the CPU was idle or not; close and FD_CLR.
\* The PCBs sent to it and not read are lost.  The number is free for the next
\* connection even if quitar_cpu left it in the list of idle CPUs or the
\* dispatcher has it in its hand: it is noted as expired.
PcpCierra ==
    /\ pcp.pc = "cierra"
    /\ sHayCpus' = IF sHayCpus > 0 THEN sHayCpus - 1 ELSE 0
    /\ \E c \in CPUs :
          /\ socket[c] = pcp.cpu
          /\ socket' = [socket EXCEPT ![c] = Nada]
          /\ perdidos' = perdidos \cup ToSet(canal[c])
          /\ canal' = [canal EXCEPT ![c] = <<>>]
    /\ vencidos' = vencidos \cup
                      ({pcp.cpu} \cap (ToSet(cpusOciosas) \cup {dispatcher.cpu}))
    /\ pcp' = PcpOcioso
    /\ UNCHANGED <<programa, plp, colas, sReadyMax, sReadyNuevo, sExit, worker,
                   cpusOciosas, mensajes, dispatcher, cpuLado, vaciar, io,
                   destruidos, descartes, caido>>

-----------------------------------------------------------------------------
(* The hilo_entrada_salida threads *)

IOToma(d) ==
    /\ hiloIO[d].pc = "espera" /\ colaIO[d] # <<>>
    /\ hiloIO' = [hiloIO EXCEPT ![d] = [pc |-> "duerme", pcb |-> Head(colaIO[d]), tam |-> 0]]
    /\ colaIO' = [colaIO EXCEPT ![d] = Tail(@)]
    /\ UNCHANGED <<programa, plp, colas, sems, worker, pcp, cpusOciosas,
                   socket, mensajes, dispatcher, canal, cpuLado, vaciar,
                   destruidos, historia, caido>>

\* Variant: s_ready_nuevo is posted before the PCB is in Ready.
IOAvisaAntes(d) ==
    /\ hiloIO[d].pc = "duerme"
    /\ sReadyNuevo' = sReadyNuevo + 1
    /\ hiloIO' = [hiloIO EXCEPT ![d].pc = "inserta", ![d].tam = Len(colaReady)]
    /\ UNCHANGED <<programa, plp, colas, sReadyMax, sExit, sHayCpus, worker, pcp, cpusOciosas,
                   socket, mensajes, dispatcher, canal, cpuLado, vaciar,
                   colaIO, destruidos, historia, caido>>

\* The delay is over: the position at the end of Ready is read...
IOMideReady(d) ==
    /\ hiloIO[d].pc = "duerme"
    /\ hiloIO' = [hiloIO EXCEPT ![d].pc = "inserta", ![d].tam = Len(colaReady)]
    /\ UNCHANGED <<programa, plp, colas, sems, worker, pcp, cpusOciosas,
                   socket, mensajes, dispatcher, canal, cpuLado, vaciar,
                   colaIO, destruidos, historia, caido>>

\* ... and the PCB inserted there.
IOInserta(d) ==
    /\ hiloIO[d].pc = "inserta"
    /\ InsertarEnReady(hiloIO[d].tam, hiloIO[d].pcb)
    /\ hiloIO' = [hiloIO EXCEPT ![d] = [pc |-> "espera", pcb |-> Nada, tam |-> 0]]
    /\ UNCHANGED <<programa, plp, colaNew, colaExit, sReadyMax, sExit, sHayCpus,
                   worker, pcp, cpusOciosas, socket, mensajes, dispatcher,
                   canal, cpuLado, vaciar, colaIO, destruidos, caido>>

-----------------------------------------------------------------------------
(* The vaciar_exit thread *)

\* sem_wait(&s_exit) and the size of Exit.  With the list already empty the
\* loop does nothing and the PCB of the previous round is freed once more:
\* the kernel may end there or go on.
VaciarDespierta ==
    /\ vaciar.pc = "espera" /\ sExit > 0
    /\ sExit' = sExit - 1
    /\ \/ /\ colaExit # <<>>
          /\ vaciar' = [pc |-> "recorre", i |-> 0, size |-> Len(colaExit)]
          /\ UNCHANGED caido
       \/ /\ colaExit = <<>>
          /\ caido' \in {caido, "vaciar_exit_free"}
          /\ UNCHANGED vaciar
    /\ UNCHANGED <<programa, plp, colas, sReadyMax, sReadyNuevo, sHayCpus,
                   worker, pcp, cpusOciosas, socket, mensajes, dispatcher,
                   canal, cpuLado, io, destruidos, historia>>

\* list_remove(cola_exit, i) and solicitar_destruir_segmentos: i grows while the
\* list shrinks, and past its end the null PCB is dereferenced.
VaciarQuita ==
    /\ vaciar.pc = "recorre"
    /\ \/ /\ vaciar.i < Len(colaExit)
          /\ destruidos' = destruidos \cup {colaExit[vaciar.i + 1]}
          /\ colaExit' = RemoveAt(colaExit, vaciar.i + 1)
          /\ vaciar' = IF vaciar.i + 1 < vaciar.size
                       THEN [vaciar EXCEPT !.i = @ + 1]
                       ELSE [pc |-> "espera", i |-> 0, size |-> 0]
          /\ UNCHANGED caido
       \/ /\ vaciar.i >= Len(colaExit)
          /\ caido' = "vaciar_exit"
          /\ UNCHANGED <<destruidos, colaExit, vaciar>>
    /\ UNCHANGED <<programa, plp, colaNew, colaReady, sems, worker, pcp,
                   cpusOciosas, socket, mensajes, dispatcher, canal,
                   cpuLado, io, historia>>

-----------------------------------------------------------------------------
(* The CPU processes *)

\* accept gives the lowest free number of the process.  The connections of the
\* PLP come and go in the same table, so it can be any that no other CPU has.
CpuConecta(c) ==
    /\ cpu[c].pc = "apagada"
    /\ cpu' = [cpu EXCEPT ![c] = CpuLibre]
    /\ \E s \in Sockets :
          /\ \A d \in CPUs : socket[d] # s
          /\ socket' = [socket EXCEPT ![c] = s]
    /\ UNCHANGED <<programa, plp, colas, sems, worker, pcp, cpusOciosas,
                   mensajes, dispatcher, canal, rafagas, bajas, vaciar, io,
                   destruidos, historia, caido>>

\* The top of the main loop: 'O' to the PCP, then recvPcb.
CpuAnuncia(c) ==
    /\ cpu[c].pc = "libre"
    /\ mensajes' = [mensajes EXCEPT ![c] = Append(@, Msj("O", Nada, Nada))]
    /\ cpu' = [cpu EXCEPT ![c].pc = "recibe"]
    /\ UNCHANGED <<programa, plp, colas, sems, worker, pcp, cpusOciosas,
                   socket, dispatcher, canal, rafagas, bajas, vaciar, io,
                   destruidos, historia, caido>>

CpuRecibe(c) ==
    /\ cpu[c].pc = "recibe" /\ canal[c] # <<>>
    /\ cpu' = [cpu EXCEPT ![c] = [pc |-> "ejecuta", pcb |-> Head(canal[c])]]
    /\ canal' = [canal EXCEPT ![c] = Tail(@)]
    /\ UNCHANGED <<programa, plp, colas, sems, worker, pcp, cpusOciosas,
                   socket, mensajes, dispatcher, rafagas, bajas, vaciar, io,
                   destruidos, historia, caido>>

\* enviarPcbProcesado: the PCB goes back with a message of kind t.
Devuelve(c, t, d) ==
    /\ cpu[c].pc = "ejecuta"
    /\ mensajes' = [mensajes EXCEPT ![c] = Append(@, Msj(t, cpu[c].pcb, d))]
    /\ cpu' = [cpu EXCEPT ![c] = CpuLibre]
    /\ UNCHANGED <<programa, plp, colas, sems, worker, pcp, cpusOciosas,
                   socket, dispatcher, canal, bajas, vaciar, io, destruidos,
                   historia, caido>>

\* The quantum ran out: 'Q'.
CpuQuantum(c) ==
    /\ Devuelve(c, "Q", Nada)
    /\ rafagas[cpu[c].pcb] < MaxRafagas
    /\ rafagas' = [rafagas EXCEPT ![cpu[c].pcb] = @ + 1]

\* The script ended ('F') or failed ('E').
CpuTermina(c) ==
    /\ Devuelve(c, "F", Nada) \/ Devuelve(c, "E", Nada)
    /\ UNCHANGED rafagas

\* entradaSalida; it counts as a burst so that scripts stay finite.
CpuEntradaSalida(c) ==
    \E d \in NombresES :
        /\ Devuelve(c, "S", d)
        /\ rafagas[cpu[c].pcb] < MaxRafagas
        /\ rafagas' = [rafagas EXCEPT ![cpu[c].pcb] = @ + 1]

\* The quantum ran out after a SIGUSR1: 'X', and the process closes its sockets.
CpuSale(c) ==
    /\ cpu[c].pc = "ejecuta" /\ bajas < MaxBajas
    /\ rafagas[cpu[c].pcb] < MaxRafagas
    /\ rafagas' = [rafagas EXCEPT ![cpu[c].pcb] = @ + 1]
    /\ bajas' = bajas + 1
    /\ mensajes' = [mensajes EXCEPT ![c] =
                        @ \o <<Msj("X", cpu[c].pcb, Nada), Msj("fin", Nada, Nada)>>]
    /\ cpu' = [cpu EXCEPT ![c] = [pc |-> "salio", pcb |-> Nada]]
    /\ UNCHANGED <<programa, plp, colas, sems, worker, pcp, cpusOciosas,
                   socket, dispatcher, canal, vaciar, io, destruidos,
                   historia, caido>>

\* The process dies anywhere, and the PCB it was running is gone.
CpuMuere(c) ==
    /\ cpu[c].pc \in {"libre", "recibe", "ejecuta"} /\ bajas < MaxBajas
    /\ bajas' = bajas + 1
    /\ mensajes' = [mensajes EXCEPT ![c] = Append(@, Msj("fin", Nada, Nada))]
    /\ perdidos' = perdidos \cup ({cpu[c].pcb} \ {Nada})
    /\ cpu' = [cpu EXCEPT ![c] = [pc |-> "salio", pcb |-> Nada]]
    /\ UNCHANGED <<programa, plp, colas, sems, worker, pcp, cpusOciosas,
                   socket, dispatcher, canal, rafagas, vaciar, io, destruidos,
                   vencidos, descartes, caido>>

-----------------------------------------------------------------------------
PlpInterno == \/ ProbarReadyMax \/ PlpAReady \/ PlpANew \/ OrdenarNew
              \/ MedirNew \/ MostrarNew
Plp == \/ \E p \in Programas : AceptarPrograma(p) \/ RechazarPrograma(p)
       \/ PlpInterno
WtNar(w) == WorkerLugar(w) \/ WorkerSaca(w) \/ WorkerEncola(w)
Dispatcher == DispEsperaPcb \/ DispEsperaCpu \/ DispTomaCpu \/ DispTomaPcb \/ DispEnvia
PcpMensaje(c) == \/ PcpOciosa(c) \/ PcpMideReady(c) \/ PcpTermina(c)
                 \/ PcpEntradaSalida(c) \/ PcpDesconexion(c)
PcpInterno == PcpInserta \/ PcpLibera \/ PcpBusca \/ PcpQuita \/ PcpCierra
HiloIO(d) == IOToma(d) \/ IOMideReady(d) \/ IOInserta(d)
VaciarExit == VaciarDespierta \/ VaciarQuita
CpuAvanza(c) == \/ CpuAnuncia(c) \/ CpuRecibe(c) \/ CpuQuantum(c)
                \/ CpuTermina(c) \/ CpuEntradaSalida(c)
CpuEntorno(c) == CpuConecta(c) \/ CpuSale(c) \/ CpuMuere(c)

\* Once an invalid access has ended the kernel nothing of it runs.
Next ==
    /\ caido = "no"
    /\ \/ Plp \/ Dispatcher \/ PcpInterno \/ VaciarExit
       \/ \E w \in Programas : WtNar(w)
       \/ \E c \in CPUs : PcpMensaje(c) \/ CpuAvanza(c) \/ CpuEntorno(c)
       \/ \E d \in Dispositivos : HiloIO(d)

Spec == Init /\ [][Next]_vars
=============================================================================
