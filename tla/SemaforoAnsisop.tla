--------------------------- MODULE SemaforoAnsisop ---------------------------
(***************************************************************************)
(* The semaphores scripts use (wait and signal): the processes on their    *)
(* CPUs, the system calls the PCP serves, and the hilo_semaforo thread of  *)
(* each semaphore.                                                         *)
(*                                                                         *)
(* A wait is two messages: the question "wait?", answered at once, and if  *)
(* the answer is no the PCB itself ("wait").  A signal only posts the      *)
(* POSIX semaphore liberar; the thread does the rest.  The mutexes of      *)
(* syscall_wait and of hilo_semaforo are local to each function: PCP and   *)
(* thread interleave at every access to the value and to pcbs_en_wait, and *)
(* an addition to the value or a subtraction from it is a read and a write.*)
(* Joined in one step are the thread's sem_wait with the list_size after   *)
(* it (nobody else waits on liberar) and the PCP's last access with the    *)
(* answer it sends.                                                        *)
(*                                                                         *)
(* Ready and the dispatcher are the environment here (see Planificador): a *)
(* PCB in Ready is given to a CPU in one step.  After hilo_semaforo has    *)
(* put a PCB in Ready it prints the list only it shortens: left out.       *)
(***************************************************************************)
EXTENDS Integers, Listas

CONSTANTS
    Procesos,      \* the processes whose scripts run
    Semaforos,     \* SEMAFOROS of the configuration file
    Nombres,       \* the names scripts use in wait and signal
    ValorInicial,  \* VALOR_SEMAFORO
    MaxOps,        \* bound: waits and signals per process
    Nadie          \* the absence of a process, or of a semaphore

ASSUME SupuestosSemaforo ==
    /\ Semaforos \subseteq Nombres /\ ValorInicial \in [Semaforos -> Nat]
    /\ MaxOps \in Nat /\ Nadie \notin Procesos \cup Nombres

VARIABLES
    proc,       \* on a CPU ("corre"), waiting for its answer, or off the CPU
    ops,        \* calls each process has made (bounded by MaxOps)
    mensajes,   \* per process: what its CPU sent to the PCP, in order
    respuesta,  \* per process: the PCP's answer to "wait?", or "nada"
    valor,      \* valor of each semaphore
    enWait,     \* pcbs_en_wait of each semaphore
    liberar,    \* liberar of each semaphore
    pcp,        \* PCP thread: pc, process, semaphore, position, value it read
    hilo,       \* hilo_semaforo of each semaphore: pc, PCB, position, value it read
    colaReady, sReadyNuevo,
    perdidos,   \* history: processes list_add_in_index left out of a list
    pases,      \* history: waits let through, per semaphore
    seniales,   \* history: signals served, per semaphore
    tcudap,     \* history: posts of liberar made by syscall_wait
    desvio,     \* history: sum of what overlapping updates changed the value by
    caido       \* "no", or the thread whose invalid access ended the kernel

sistema == <<proc, ops, mensajes, respuesta>>
ready   == <<colaReady, sReadyNuevo>>
cuentas == <<pases, seniales, tcudap, desvio>>
vars == <<sistema, valor, enWait, liberar, pcp, hilo, ready, perdidos, cuentas, caido>>

PcpOcioso == [pc |-> "select", p |-> Nadie, s |-> Nadie, i |-> 0, n |-> 0]
HiloEspera == [pc |-> "espera", p |-> Nadie, n |-> 0]
Mensaje == [tipo : {"wait?", "wait", "signal"}, s : Nombres]
Msj(t, s) == [tipo |-> t, s |-> s]

Init ==
    /\ proc = [p \in Procesos |-> [pc |-> "corre", s |-> Nadie]]
    /\ ops = [p \in Procesos |-> 0]
    /\ mensajes = [p \in Procesos |-> <<>>]
    /\ respuesta = [p \in Procesos |-> "nada"]
    /\ valor = ValorInicial
    /\ enWait = [s \in Semaforos |-> <<>>]
    /\ liberar = [s \in Semaforos |-> 0]
    /\ pcp = PcpOcioso
    /\ hilo = [s \in Semaforos |-> HiloEspera]
    /\ colaReady = <<>> /\ sReadyNuevo = 0
    /\ perdidos = {}
    /\ pases = [s \in Semaforos |-> 0] /\ seniales = [s \in Semaforos |-> 0]
    /\ tcudap = [s \in Semaforos |-> 0] /\ desvio = [s \in Semaforos |-> 0]
    /\ caido = "no"

-----------------------------------------------------------------------------
(* The processes, on their CPUs *)

Llama(p, t, s) ==
    /\ proc[p].pc = "corre" /\ ops[p] < MaxOps
    /\ ops' = [ops EXCEPT ![p] = @ + 1]
    /\ mensajes' = [mensajes EXCEPT ![p] = Append(@, Msj(t, s))]

\* wait: the question, and the CPU stops until it is answered.
Pregunta(p, s) ==
    /\ Llama(p, "wait?", s)
    /\ proc' = [proc EXCEPT ![p] = [pc |-> "pregunta", s |-> s]]
    /\ UNCHANGED <<respuesta, valor, enWait, liberar, pcp, hilo, ready, perdidos, cuentas, caido>>

\* signal has no answer: the script goes on.
Senial(p, s) ==
    /\ Llama(p, "signal", s)
    /\ UNCHANGED <<proc, respuesta, valor, enWait, liberar, pcp, hilo, ready,
                   perdidos, cuentas, caido>>

\* Yes, or a semaphore that does not exist: the script goes on.
Sigue(p) ==
    /\ respuesta[p] \in {"si", "no_existe"}
    /\ respuesta' = [respuesta EXCEPT ![p] = "nada"]
    /\ proc' = [proc EXCEPT ![p] = [pc |-> "corre", s |-> Nadie]]
    /\ UNCHANGED <<ops, mensajes, valor, enWait, liberar, pcp, hilo, ready,
                   perdidos, cuentas, caido>>

\* No: _wait_bloqueante, and the main loop sends the PCB with the call.
SeBloquea(p) ==
    /\ respuesta[p] = "no"
    /\ respuesta' = [respuesta EXCEPT ![p] = "nada"]
    /\ mensajes' = [mensajes EXCEPT ![p] = Append(@, Msj("wait", proc[p].s))]
    /\ proc' = [proc EXCEPT ![p] = [pc |-> "fuera", s |-> Nadie]]
    /\ UNCHANGED <<ops, valor, enWait, liberar, pcp, hilo, ready, perdidos, cuentas, caido>>

\* The dispatcher gives the first PCB of Ready to a CPU.
Despacha ==
    /\ sReadyNuevo > 0
    /\ \/ /\ colaReady # <<>>
          /\ proc' = [proc EXCEPT ![Head(colaReady)].pc = "corre"]
          /\ colaReady' = Tail(colaReady) /\ sReadyNuevo' = sReadyNuevo - 1
          /\ UNCHANGED caido
       \/ /\ colaReady = <<>>
          /\ caido' = "dispatcher"
          /\ UNCHANGED <<proc, ready>>
    /\ UNCHANGED <<ops, mensajes, respuesta, valor, enWait, liberar, pcp, hilo,
                   perdidos, cuentas>>

-----------------------------------------------------------------------------
(* The PCP thread *)

Recibe(p, t) ==
    /\ pcp.pc = "select" /\ mensajes[p] # <<>> /\ Head(mensajes[p]).tipo = t
    /\ mensajes' = [mensajes EXCEPT ![p] = Tail(@)]

\* syscall_signal
PcpSignal(p) ==
    LET s == Head(mensajes[p]).s
    IN  /\ Recibe(p, "signal")
        /\ \/ /\ s \in Semaforos
              /\ liberar' = [liberar EXCEPT ![s] = @ + 1]
              /\ seniales' = [seniales EXCEPT ![s] = @ + 1]
           \/ s \notin Semaforos /\ UNCHANGED <<liberar, seniales>>
        /\ UNCHANGED <<proc, ops, respuesta, valor, enWait, pcp, hilo, ready,
                       perdidos, pases, tcudap, desvio, caido>>

\* Variant: an unknown semaphore gets no answer.
PcpIgnoraDesconocido(p) ==
    /\ Recibe(p, "wait?") /\ Head(mensajes[p]).s \notin Semaforos
    /\ UNCHANGED <<proc, ops, respuesta, valor, enWait, liberar, pcp, hilo, ready,
                   perdidos, cuentas, caido>>

\* syscall_wait with no PCB: the semaphore is unknown...
PcpDesconocido(p) ==
    /\ Recibe(p, "wait?") /\ Head(mensajes[p]).s \notin Semaforos
    /\ respuesta' = [respuesta EXCEPT ![p] = "no_existe"]
    /\ UNCHANGED <<proc, ops, valor, enWait, liberar, pcp, hilo, ready, perdidos, cuentas, caido>>

\* ... or closed...
PcpNiega(p) ==
    LET s == Head(mensajes[p]).s
    IN  /\ Recibe(p, "wait?") /\ s \in Semaforos
        /\ valor[s] <= 0
        /\ respuesta' = [respuesta EXCEPT ![p] = "no"]
        /\ UNCHANGED <<proc, ops, valor, enWait, liberar, pcp, hilo, ready,
                       perdidos, cuentas, caido>>

\* Variant: a semaphore at zero lets through.
PcpLeeValorCero(p) ==
    LET s == Head(mensajes[p]).s
    IN  /\ Recibe(p, "wait?") /\ s \in Semaforos
        /\ valor[s] >= 0
        /\ pcp' = [PcpOcioso EXCEPT !.pc = "resta", !.p = p, !.s = s, !.n = valor[s]]
        /\ UNCHANGED <<proc, ops, respuesta, valor, enWait, liberar, hilo, ready,
                       perdidos, cuentas, caido>>

\* ... or open: its value is read, to be lowered.
PcpLeeValor(p) ==
    LET s == Head(mensajes[p]).s
    IN  /\ Recibe(p, "wait?") /\ s \in Semaforos
        /\ valor[s] > 0
        /\ pcp' = [PcpOcioso EXCEPT !.pc = "resta", !.p = p, !.s = s, !.n = valor[s]]
        /\ UNCHANGED <<proc, ops, respuesta, valor, enWait, liberar, hilo, ready,
                       perdidos, cuentas, caido>>

\* Variant: the value is not lowered.
PcpNoResta ==
    /\ pcp.pc = "resta"
    /\ respuesta' = [respuesta EXCEPT ![pcp.p] = "si"]
    /\ pases' = [pases EXCEPT ![pcp.s] = @ + 1]
    /\ pcp' = PcpOcioso
    /\ UNCHANGED <<proc, ops, mensajes, valor, enWait, liberar, hilo, ready, perdidos,
                   seniales, tcudap, desvio, caido>>

PcpResta ==
    /\ pcp.pc = "resta"
    /\ valor' = [valor EXCEPT ![pcp.s] = pcp.n - 1]
    /\ desvio' = [desvio EXCEPT ![pcp.s] = @ + pcp.n - valor[pcp.s]]
    /\ respuesta' = [respuesta EXCEPT ![pcp.p] = "si"]
    /\ pases' = [pases EXCEPT ![pcp.s] = @ + 1]
    /\ pcp' = PcpOcioso
    /\ UNCHANGED <<proc, ops, mensajes, enWait, liberar, hilo, ready, perdidos,
                   seniales, tcudap, caido>>

\* syscall_wait with the PCB: the position at the end of pcbs_en_wait is read...
PcpMideBloqueados(p) ==
    LET s == Head(mensajes[p]).s
    IN  /\ Recibe(p, "wait")
        /\ pcp' = [PcpOcioso EXCEPT !.pc = "encola", !.p = p, !.s = s, !.n = Len(enWait[s])]
        /\ UNCHANGED <<proc, ops, respuesta, valor, enWait, liberar, hilo, ready,
                       perdidos, cuentas, caido>>

\* ... and the PCB inserted there.
PcpEncola ==
    /\ pcp.pc = "encola"
    /\ enWait' = [enWait EXCEPT ![pcp.s] = ListAddInIndex(@, pcp.n, pcp.p)]
    /\ perdidos' = IF pcp.n <= Len(enWait[pcp.s]) THEN perdidos ELSE perdidos \cup {pcp.p}
    /\ pcp' = [PcpOcioso EXCEPT !.pc = "mide", !.s = pcp.s]
    /\ UNCHANGED <<sistema, valor, liberar, hilo, ready, cuentas, caido>>

\* _mostrar_cola_semaforo: reads the size and then each element by its
\* position; one that is gone by then is a null PCB, whose id is printed.
PcpMide ==
    /\ pcp.pc = "mide"
    /\ pcp' = [pcp EXCEPT !.n = Len(enWait[pcp.s]),
                          !.pc = IF enWait[pcp.s] = <<>> THEN "mira" ELSE "muestra"]
    /\ UNCHANGED <<sistema, valor, enWait, liberar, hilo, ready, perdidos, cuentas, caido>>

PcpMuestra ==
    /\ pcp.pc = "muestra"
    /\ \/ /\ pcp.i < Len(enWait[pcp.s])
          /\ pcp' = [pcp EXCEPT !.i = @ + 1, !.pc = IF pcp.i + 1 = pcp.n THEN "mira" ELSE @]
          /\ UNCHANGED caido
       \/ /\ pcp.i >= Len(enWait[pcp.s])
          /\ caido' = "pcp"
          /\ UNCHANGED pcp
    /\ UNCHANGED <<sistema, valor, enWait, liberar, hilo, ready, perdidos, cuentas>>

\* TCUDAP: the value has risen since the question, so the thread is woken.
PcpMiraValor ==
    /\ pcp.pc = "mira"
    /\ \/ /\ valor[pcp.s] > 0
          /\ liberar' = [liberar EXCEPT ![pcp.s] = @ + 1]
          /\ tcudap' = [tcudap EXCEPT ![pcp.s] = @ + 1]
       \/ valor[pcp.s] <= 0 /\ UNCHANGED <<liberar, tcudap>>
    /\ pcp' = PcpOcioso
    /\ UNCHANGED <<sistema, valor, enWait, hilo, ready, perdidos, pases, seniales,
                   desvio, caido>>

-----------------------------------------------------------------------------
(* The hilo_semaforo threads *)

HiloDespierta(s) ==
    /\ hilo[s].pc = "espera" /\ liberar[s] > 0
    /\ liberar' = [liberar EXCEPT ![s] = @ - 1]
    /\ hilo' = [hilo EXCEPT ![s].pc = IF enWait[s] = <<>> THEN "lee" ELSE "libera"]
    /\ UNCHANGED <<sistema, valor, enWait, pcp, ready, perdidos, cuentas, caido>>

\* Nobody was blocked: the value is read and written back one higher.
HiloLee(s) ==
    /\ hilo[s].pc = "lee"
    /\ hilo' = [hilo EXCEPT ![s].pc = "suma", ![s].n = valor[s]]
    /\ UNCHANGED <<sistema, valor, enWait, liberar, pcp, ready, perdidos, cuentas, caido>>

HiloSuma(s) ==
    /\ hilo[s].pc = "suma"
    /\ valor' = [valor EXCEPT ![s] = hilo[s].n + 1]
    /\ desvio' = [desvio EXCEPT ![s] = @ + hilo[s].n - valor[s]]
    /\ hilo' = [hilo EXCEPT ![s] = HiloEspera]
    /\ UNCHANGED <<sistema, enWait, liberar, pcp, ready, perdidos, pases, seniales,
                   tcudap, caido>>

\* Variant: the last of the blocked processes is taken.
HiloLiberaUltimo(s) ==
    /\ hilo[s].pc = "libera"
    /\ hilo' = [hilo EXCEPT ![s].pc = "mide", ![s].p = Last(enWait[s])]
    /\ enWait' = [enWait EXCEPT ![s] = Front(@)]
    /\ UNCHANGED <<sistema, valor, liberar, pcp, ready, perdidos, cuentas, caido>>

\* Variant: the first is read with list_get and stays in the list.
HiloMira(s) ==
    /\ hilo[s].pc = "libera"
    /\ hilo' = [hilo EXCEPT ![s].pc = "mide", ![s].p = Head(enWait[s])]
    /\ UNCHANGED <<sistema, valor, enWait, liberar, pcp, ready, perdidos, cuentas, caido>>

\* list_remove(lista_pcbs, 0)
HiloLibera(s) ==
    /\ hilo[s].pc = "libera"
    /\ hilo' = [hilo EXCEPT ![s].pc = "mide", ![s].p = Head(enWait[s])]
    /\ enWait' = [enWait EXCEPT ![s] = Tail(@)]
    /\ UNCHANGED <<sistema, valor, liberar, pcp, ready, perdidos, cuentas, caido>>

\* The position at the end of Ready is read, and the PCB inserted there.
HiloMideReady(s) ==
    /\ hilo[s].pc = "mide"
    /\ hilo' = [hilo EXCEPT ![s].pc = "inserta", ![s].n = Len(colaReady)]
    /\ UNCHANGED <<sistema, valor, enWait, liberar, pcp, ready, perdidos, cuentas, caido>>

HiloInserta(s) ==
    /\ hilo[s].pc = "inserta"
    /\ colaReady' = ListAddInIndex(colaReady, hilo[s].n, hilo[s].p)
    /\ sReadyNuevo' = sReadyNuevo + 1
    /\ perdidos' = IF hilo[s].n <= Len(colaReady) THEN perdidos ELSE perdidos \cup {hilo[s].p}
    /\ pases' = [pases EXCEPT ![s] = @ + 1]
    /\ hilo' = [hilo EXCEPT ![s] = HiloEspera]
    /\ UNCHANGED <<sistema, valor, enWait, liberar, pcp, seniales, tcudap, desvio, caido>>

-----------------------------------------------------------------------------
Cpu(p) == Sigue(p) \/ SeBloquea(p)
Script(p) == \E s \in Nombres : Pregunta(p, s) \/ Senial(p, s)
PcpMensaje(p) == \/ PcpSignal(p) \/ PcpDesconocido(p) \/ PcpNiega(p)
                 \/ PcpLeeValor(p) \/ PcpMideBloqueados(p)
PcpInterno == PcpResta \/ PcpEncola \/ PcpMide \/ PcpMuestra \/ PcpMiraValor
Hilo(s) == \/ HiloDespierta(s) \/ HiloLee(s) \/ HiloSuma(s) \/ HiloLibera(s)
           \/ HiloMideReady(s) \/ HiloInserta(s)

\* Once an invalid access has ended the kernel nothing moves.
Next ==
    /\ caido = "no"
    /\ \/ PcpInterno \/ Despacha
       \/ \E p \in Procesos : Script(p) \/ Cpu(p) \/ PcpMensaje(p)
       \/ \E s \in Semaforos : Hilo(s)

Spec == Init /\ [][Next]_vars
=============================================================================
