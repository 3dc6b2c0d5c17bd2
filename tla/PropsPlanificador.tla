-------------------------- MODULE PropsPlanificador --------------------------
(***************************************************************************)
(* What is claimed of Planificador: where PCBs, places of the multiprogram-*)
(* ming level, tokens of the semaphores and idle CPUs may be, what the     *)
(* kernel can fall over, what must eventually happen, and the life cycle   *)
(* every program goes through.                                             *)
(***************************************************************************)
EXTENDS Planificador

-----------------------------------------------------------------------------
(* Type invariant *)

HilosPlp == {"select", "admision", "a_ready", "a_new", "ordena", "mide", "muestra"}
HilosPcp == {"select", "inserta", "libera", "busca", "quita", "cierra"}
Caidas == {"no", "plp", "wt_nar", "dispatcher_cpu", "dispatcher_pcb", "quitar_cpu",
           "vaciar_exit", "vaciar_exit_free"}

TipoColas ==
    /\ colaNew \in Seq(Programas) /\ colaReady \in Seq(Programas)
    /\ colaExit \in Seq(Programas)

TipoSemaforos == sReadyMax \in Nat /\ sReadyNuevo \in Nat /\ sExit \in Nat /\ sHayCpus \in Nat

TipoPlp ==
    /\ plp \in [pc : HilosPlp, pcb : Pcb, tam : Nat, i : Nat]
    /\ plp.pc \in {"admision", "a_ready", "a_new", "ordena"} => plp.pcb \in Programas

TipoWorkers ==
    /\ worker \in [Programas -> [pc : {"no", "espera", "saca", "encola", "fin"}, pcb : Pcb]]
    /\ \A w \in Programas : worker[w].pc = "encola" => worker[w].pcb \in Programas

TipoPcp ==
    /\ pcp \in [pc : HilosPcp, pcb : Pcb, cpu : Cpu, tam : Nat, i : Nat]
    /\ pcp.pc = "inserta" => pcp.pcb \in Programas
    /\ pcp.pc \in {"busca", "quita", "cierra"} => pcp.cpu \in Sockets

TipoOciosas == cpusOciosas \in Seq(Sockets) /\ socket \in [CPUs -> Cpu]

TipoMensajes == mensajes \in [CPUs -> Seq(Mensaje)]

TipoDispatcher ==
    /\ dispatcher \in [pc : {"espera", "pide_cpu", "toma_cpu", "toma_pcb", "envia", "muerto"},
                       cpu : Cpu, pcb : Pcb]
    /\ dispatcher.pc \in {"toma_pcb", "envia"} => dispatcher.cpu \in Sockets
    /\ dispatcher.pc = "envia" => dispatcher.pcb \in Programas

TipoCpu ==
    /\ canal \in [CPUs -> Seq(Programas)]
    /\ cpu \in [CPUs -> [pc : {"apagada", "libre", "recibe", "ejecuta", "salio"}, pcb : Pcb]]
    /\ \A c \in CPUs : cpu[c].pc = "ejecuta" => cpu[c].pcb \in Programas

TipoVaciar == vaciar \in [pc : {"espera", "recorre"}, i : Nat, size : Nat]

TipoIO ==
    /\ colaIO \in [Dispositivos -> Seq(Programas)]
    /\ hiloIO \in [Dispositivos -> [pc : {"espera", "duerme", "inserta"}, pcb : Pcb, tam : Nat]]
    /\ \A d \in Dispositivos : hiloIO[d].pc # "espera" => hiloIO[d].pcb \in Programas

TipoProgramas ==
    /\ programa \in [Programas -> {"afuera", "adentro", "finalizado"}]
    /\ destruidos \subseteq Programas /\ perdidos \subseteq Programas
    /\ vencidos \subseteq Sockets
    /\ rafagas \in [Programas -> 0..MaxRafagas]
    /\ bajas \in 0..MaxBajas /\ descartes \in Nat
    /\ caido \in Caidas

\* Every variable holds values of its kind; in particular no semaphore of
\* kernel.h goes below zero, a thread that is about to use a PCB or a CPU holds
\* one, and a CPU's message carries a PCB exactly when the PCP reads one.
TypeOK ==
    /\ TipoColas /\ TipoSemaforos /\ TipoPlp /\ TipoWorkers /\ TipoPcp
    /\ TipoOciosas /\ TipoMensajes /\ TipoDispatcher /\ TipoCpu /\ TipoVaciar
    /\ TipoIO /\ TipoProgramas

-----------------------------------------------------------------------------
(* Where the PCBs are *)

Posiciones(lugar, x, s) == {<<lugar, <<x, i>>, s[i]>> : i \in DOMAIN s}

\* Every place of the kernel, the sockets and the CPUs that can hold a PCB,
\* with the PCB it holds or Nada.
Ocupantes ==
    Posiciones("new", Nada, colaNew) \cup Posiciones("ready", Nada, colaReady)
    \cup Posiciones("exit", Nada, colaExit)
    \cup { <<"plp", pc, plp.pcb>> : pc \in {plp.pc} \ {"ordena"} }
    \cup { <<"pcp", 0, pcp.pcb>>, <<"dispatcher", 0, dispatcher.pcb>> }
    \cup { <<"worker", w, worker[w].pcb>> : w \in Programas }
    \cup (UNION { Posiciones("canal", c, canal[c]) : c \in CPUs })
    \cup (UNION { { <<"mensaje", <<c, i>>, mensajes[c][i].pcb>> : i \in DOMAIN mensajes[c] }
                  : c \in CPUs })
    \cup { <<"cpu", c, cpu[c].pcb>> : c \in CPUs }
    \cup (UNION { Posiciones("io", d, colaIO[d]) : d \in Dispositivos })
    \cup { <<"hilo_io", d, hiloIO[d].pcb>> : d \in Dispositivos }
    \cup { <<"perdido", 0, p>> : p \in perdidos }
    \cup { <<"destruido", 0, p>> : p \in destruidos }

\* The PCB of a program that was received is in exactly one place: never in
\* two queues, on two CPUs or both queued and destroyed, and it never goes
\* missing without having been destroyed or counted as lost.
PcbEnUnLugar ==
    \A p \in Programas :
        Cardinality({o \in Ocupantes : o[3] = p}) = IF programa[p] = "afuera" THEN 0 ELSE 1

\* The programs that hold one of the places of s_ready_max.
ConLugar ==
    { o[3] : o \in { o \in Ocupantes :
        /\ o[3] # Nada
        /\ \/ o[1] \in {"ready", "worker", "dispatcher", "canal", "cpu", "mensaje",
                        "pcp", "io", "hilo_io", "perdido"}
           \/ o[1] = "plp" /\ o[2] = "a_ready" } }

\* The places of s_ready_max are neither lost nor invented: what is free, what
\* programs hold and what a thread has taken or is about to give back always
\* add up to MULTIPROGRAMACION, through rejections, errors and dead CPUs.
CuposConservados ==
    sReadyMax + Cardinality(ConLugar)
        + Cardinality({w \in Programas : worker[w].pc = "saca"})
        + (IF pcp.pc = "libera" THEN 1 ELSE 0) = Multiprogramacion

-----------------------------------------------------------------------------
(* Lists and the semaphores that count them *)

Sacadores == {w \in Programas : worker[w].pc \in {"espera", "saca"}}

\* There is one wt_nar thread for each PCB in New (the PLP starts it right
\* after the insertion), so the list_remove of wt_nar always finds one.
WorkersDeNew ==
    Len(colaNew) = Cardinality(Sacadores) + (IF plp.pc = "ordena" THEN 1 ELSE 0)

\* What a wt_nar thread takes out of New is its lightest PCB, whatever the PLP
\* and the other workers are doing.  A lighter one is passed over only if it is
\* the one the PLP has appended and has still to sort.
SacaElMasLiviano ==
    [][\A w \in Programas :
          worker[w].pc = "saca" /\ worker'[w].pc = "encola" =>
              \A q \in ToSet(colaNew) :
                  \/ Peso[worker'[w].pcb] <= Peso[q]
                  \/ plp.pc = "ordena" /\ q = plp.pcb]_vars

\* The tokens of s_ready_nuevo, with the one the dispatcher has taken, are the
\* PCBs in Ready plus the insertions list_add_in_index ignored.
FichasDeReady ==
    sReadyNuevo + (IF dispatcher.pc \in {"pide_cpu", "toma_cpu", "toma_pcb"} THEN 1 ELSE 0)
        = Len(colaReady) + descartes

\* The tokens of s_hay_cpus, with the one the dispatcher has taken, differ from
\* the number of idle CPUs at most by the CPUs that have left: exact while none
\* has.
FichasDeCpu ==
    LET fichas == sHayCpus + (IF dispatcher.pc = "toma_cpu" THEN 1 ELSE 0)
    IN  fichas - Len(cpusOciosas) \in -bajas .. bajas

\* What a CPU announced and was not answered yet: its 'O' on its way, the places
\* of its socket among the idle ones, the dispatcher's choice, the PCB sent to it.
Avisos(c) ==
    Cardinality({i \in DOMAIN mensajes[c] : mensajes[c][i].tipo = "O"})
    + Cardinality({i \in DOMAIN cpusOciosas : cpusOciosas[i] = socket[c]})
    + (IF dispatcher.cpu = socket[c] THEN 1 ELSE 0)
    + Len(canal[c])

\* A CPU process that waits in recvPcb has announced itself exactly once, and no
\* PCB is on its way to a CPU that is not waiting: its 'O', its place among the
\* idle CPUs, the dispatcher's choice and the PCB in its socket exclude each
\* other.  With CPUs that leave, quitar_cpu may take the wrong one off the list,
\* and nothing is promised of a CPU whose socket has the number of one that was
\* closed while the list of idle CPUs or the dispatcher still held it.
DespachoAOciosa ==
    \A c \in CPUs :
        socket[c] \notin {Nada} \cup vencidos /\ cpu[c].pc # "salio" =>
            LET espera == IF cpu[c].pc = "recibe" THEN 1 ELSE 0
            IN  Avisos(c) <= espera /\ (bajas = 0 => Avisos(c) = espera)

\* Every PCB in Exit has a wake-up of vaciar_exit to come: a token of s_exit,
\* the one the PCP is about to post, or the one just taken whose first removal
\* is still to happen.  None is forgotten in Exit.
FichasDeExit ==
    Len(colaExit) <= sExit + (IF pcp.pc = "libera" THEN 1 ELSE 0)
                           + (IF vaciar.pc = "recorre" /\ vaciar.i = 0 THEN 1 ELSE 0)

-----------------------------------------------------------------------------
(* What can bring the kernel down *)

\* wt_nar never calls list_remove on the empty New.
WtNarEncuentra == caido # "wt_nar"

\* The dispatcher lacks a PCB only after an insertion in Ready was ignored.
SinPcbPorDescarte == caido = "dispatcher_pcb" => descartes > 0

\* The dispatcher and quitar_cpu lack a CPU only after some CPU has left.
SinCpuPorBaja == caido \in {"dispatcher_cpu", "quitar_cpu"} => bajas > 0

\* What can bring the threads of the scheduler down, and what cannot: wt_nar
\* never falls, the others only for these causes.
CausasDeCaida == WtNarEncuentra /\ SinPcbPorDescarte /\ SinCpuPorBaja

\* A program is told FINALIZAR before its segments are destroyed, and a program
\* that has been told is nowhere but in Exit or destroyed: it never runs again.
FinalizadoAntes ==
    \A p \in Programas :
        programa[p] = "finalizado" <=> p \in destruidos \cup ToSet(colaExit)

-----------------------------------------------------------------------------
(* What the documents and comments of the kernel say and the code does not do *)

\* "wait(cola_exit) remover_y_eliminar_elemento();" (manejo_colas_plp.txt):
\* every wake-up of vaciar_exit has an element to remove and eliminate.
VaciarTieneElemento == caido \notin {"vaciar_exit", "vaciar_exit_free"}

\* "Lo mando al fondo de la cola, es Round-Robin." (pcp.c): the PCB whose
\* quantum ended is in Ready after the PCP's insertion, whatever its position.
VuelveAReady ==
    [][pcp.pc = "inserta" /\ pcp'.pc = "select" => pcp.pcb \in ToSet(colaReady')]_vars

\* "sem_wait(s_hay_cpus) //Si no hay cpus disponibles, entonces bloqueo aca."
\* (funcionamiento_pcp.txt): the dispatcher blocks only when no CPU is idle.
BloqueaSinCpus ==
    pcp.pc = "select" /\ dispatcher.pc = "pide_cpu" /\ sHayCpus = 0 => cpusOciosas = <<>>

-----------------------------------------------------------------------------
(* The life cycle of a program *)

\* The state CicloDeVida sees: where the PCB of p is.
EstadoDe(p) ==
    CASE programa[p] = "afuera" -> "afuera"
      [] p \in destruidos -> "destruido"
      [] p \in ToSet(colaExit) -> "exit"
      [] p \in perdidos -> "perdido"
      [] p \in ToSet(colaNew) \/ (plp.pcb = p /\ plp.pc \in {"admision", "a_new"}) -> "new"
      [] p \in ToSet(colaReady) \/ dispatcher.pcb = p \/ (plp.pcb = p /\ plp.pc = "a_ready")
            \/ \E w \in Programas : worker[w].pcb = p -> "ready"
      [] \E d \in Dispositivos : hiloIO[d].pcb = p \/ p \in ToSet(colaIO[d]) -> "block"
      [] OTHER -> "exec"

Ciclo == INSTANCE CicloDeVida WITH estado <- [p \in Programas |-> EstadoDe(p)]

\* Every program goes through the life cycle, with never more than
\* Multiprogramacion programs between New and Exit.
CumpleCiclo == Ciclo!Spec

-----------------------------------------------------------------------------
(* What must eventually happen *)

Vivo(A) == caido = "no" /\ A

\* Every thread that can go on does: they are POSIX threads of one process, the
\* PCP's select serves every socket in turn, and a CPU process runs its script
\* to the end of its burst.  Nothing makes programs or CPUs arrive or leave.
Justicia ==
    /\ WF_vars(Vivo(PlpInterno)) /\ WF_vars(Vivo(Dispatcher))
    /\ WF_vars(Vivo(PcpInterno)) /\ WF_vars(Vivo(VaciarExit))
    /\ \A w \in Programas : WF_vars(Vivo(WtNar(w)))
    /\ \A c \in CPUs : WF_vars(Vivo(CpuAvanza(c))) /\ SF_vars(Vivo(PcpMensaje(c)))
    /\ \A d \in Dispositivos : WF_vars(Vivo(HiloIO(d)))

SpecJusta == Spec /\ Justicia /\ \A c \in CPUs : WF_vars(Vivo(CpuConecta(c)))

\* Round robin starves nobody: a PCB in Ready is taken by the dispatcher, unless
\* the kernel falls or the dispatcher thread has ended.
ReadyAvanza ==
    \A p \in Programas :
        p \in ToSet(colaReady) ~>
            (p \notin ToSet(colaReady) \/ caido # "no" \/ dispatcher.pc = "muerto")

\* A PCB that waits in New for a place of the multiprogramming level gets one.
NewAvanza ==
    \A p \in Programas :
        p \in ToSet(colaNew) ~> (p \notin ToSet(colaNew) \/ caido # "no")

\* A program that was let in ends and is told so, unless the kernel falls.
TodoTermina ==
    \A p \in Programas :
        programa[p] = "adentro" ~> (programa[p] = "finalizado" \/ caido # "no")

\* A PCB in Exit has its segments destroyed, unless the kernel falls.
ExitSeVacia ==
    \A p \in Programas : p \in ToSet(colaExit) ~> (p \in destruidos \/ caido # "no")
=============================================================================
