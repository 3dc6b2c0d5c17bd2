---------------------------- MODULE PropsSemaforo ----------------------------
(***************************************************************************)
(* What is claimed of SemaforoAnsisop: where a process is while it waits,  *)
(* that a question gets one answer, what the value of a semaphore accounts *)
(* for, and that who is first in line leaves.                              *)
(***************************************************************************)
EXTENDS SemaforoAnsisop, FiniteSets

-----------------------------------------------------------------------------
(* Type invariant *)

TipoSistema ==
    /\ proc \in [Procesos -> [pc : {"corre", "pregunta", "fuera"}, s : Nombres \cup {Nadie}]]
    /\ ops \in [Procesos -> 0..MaxOps]
    /\ mensajes \in [Procesos -> Seq(Mensaje)]
    /\ respuesta \in [Procesos -> {"nada", "si", "no", "no_existe"}]

TipoValores ==
    /\ valor \in [Semaforos -> Nat] /\ liberar \in [Semaforos -> Nat]
    /\ enWait \in [Semaforos -> Seq(Procesos)]

TipoHilos ==
    /\ pcp \in [pc : {"select", "resta", "encola", "mide", "muestra", "mira"},
                p : Procesos \cup {Nadie}, s : Semaforos \cup {Nadie}, i : Nat, n : Nat]
    /\ pcp.pc # "select" => pcp.s \in Semaforos
    /\ pcp.pc = "resta" => pcp.n > 0
    /\ pcp.pc \in {"resta", "encola"} => pcp.p \in Procesos
    /\ hilo \in [Semaforos -> [pc : {"espera", "lee", "suma", "libera", "mide", "inserta"},
                               p : Procesos \cup {Nadie}, n : Nat]]
    /\ \A s \in Semaforos : /\ hilo[s].pc = "libera" => enWait[s] # <<>>
                            /\ hilo[s].pc \in {"mide", "inserta"} => hilo[s].p \in Procesos

TipoHistoria ==
    /\ colaReady \in Seq(Procesos) /\ sReadyNuevo \in Nat
    /\ perdidos \subseteq Procesos
    /\ pases \in [Semaforos -> Nat] /\ seniales \in [Semaforos -> Nat]
    /\ tcudap \in [Semaforos -> Nat] /\ desvio \in [Semaforos -> Int]
    /\ caido \in {"no", "pcp", "dispatcher"}

\* Every variable holds values of its kind; in particular the value of a
\* semaphore never goes below zero, whatever updates overlap, and the thread
\* that has seen a blocked process still finds one when it removes it.
TypeOK == TipoSistema /\ TipoValores /\ TipoHilos /\ TipoHistoria

-----------------------------------------------------------------------------
(* Processes, questions and accounts *)

Posiciones(p, s) == {i \in DOMAIN s : s[i] = p}
Uno(b) == IF b THEN 1 ELSE 0

\* A process is in one place only: on its CPU, in the message that carries its
\* PCB, with the PCP, blocked on one semaphore, with one thread, in Ready, or
\* left out of a list.  No wait or wake-up makes a second copy of it run.
ProcesoEnUnLugar ==
    \A p \in Procesos :
        Uno(proc[p].pc # "fuera")
            + Cardinality({i \in DOMAIN mensajes[p] : mensajes[p][i].tipo = "wait"})
            + Uno(pcp.pc = "encola" /\ pcp.p = p)
            + Cardinality(UNION {{s} \X Posiciones(p, enWait[s]) : s \in Semaforos})
            + Cardinality({s \in Semaforos : hilo[s].p = p})
            + Cardinality(Posiciones(p, colaReady)) + Uno(p \in perdidos) = 1

\* A CPU that waits for the answer to its question has exactly one coming, and
\* no other CPU has any: an answer is never read by the next question.
UnaRespuesta ==
    \A p \in Procesos :
        Uno(proc[p].pc = "pregunta") =
            Cardinality({i \in DOMAIN mensajes[p] : mensajes[p][i].tipo = "wait?"})
            + Uno(pcp.pc = "resta" /\ pcp.p = p) + Uno(respuesta[p] # "nada")

\* The waits let through, the value and the wake-ups to come are the initial
\* value and the signals, plus one for every wake-up syscall_wait adds (it
\* releases a process without lowering the value) and whatever overlapping
\* updates of the value lost: nothing else lets a process through or stops one.
CuentaDelSemaforo ==
    \A s \in Semaforos :
        pases[s] + valor[s] + liberar[s] + Uno(hilo[s].pc # "espera")
            = ValorInicial[s] + seniales[s] + tcudap[s] + desvio[s]

\* "entre la consulta del proceso y el envio del pcb se libero una instancia"
\* (kernel.c, syscall_wait): that case is handled, so with everybody at rest no
\* process is blocked on a semaphore whose value is above zero.
NadieDuermeDeMas ==
    \A s \in Semaforos :
        pcp.pc = "select" /\ hilo[s].pc = "espera" /\ liberar[s] = 0 /\ valor[s] > 0
            => enWait[s] = <<>>

-----------------------------------------------------------------------------
(* What must eventually happen *)

Vivo(A) == caido = "no" /\ A

\* The threads and the CPUs go on, and the PCP serves every socket.  Scripts
\* need not call anything.
SpecJusta ==
    /\ Spec
    /\ WF_vars(Vivo(PcpInterno)) /\ WF_vars(Vivo(Despacha))
    /\ \A p \in Procesos : WF_vars(Vivo(Cpu(p))) /\ SF_vars(Vivo(PcpMensaje(p)))
    /\ \A s \in Semaforos : WF_vars(Vivo(Hilo(s)))

\* A CPU that asks for a semaphore is answered, whether it exists or not.
RespuestaLlega ==
    \A p \in Procesos :
        proc[p].pc = "pregunta" ~> (proc[p].pc # "pregunta" \/ caido # "no")

\* A wake-up is for the process that has waited longest: while one is to come,
\* the first in line leaves the line.
PrimeroSale ==
    \A p \in Procesos : \A s \in Semaforos :
        (enWait[s] # <<>> /\ liberar[s] > 0 /\ p = Head(enWait[s]))
            ~> (p \notin ToSet(enWait[s]) \/ caido # "no")
=============================================================================
