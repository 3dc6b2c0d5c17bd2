------------------------------ MODULE Mensajes ------------------------------
(***************************************************************************)
(* What travels between the programs and the kernel: the scripts, the      *)
(* orders INFORMAR and FINALIZAR and, behind them, the prints and PCBs the *)
(* CPUs send the PCP.  Two threads of the kernel write to the sockets of   *)
(* the programs, one of them closes them, and a PCB keeps a socket number  *)
(* for as long as its process lives.  PLP and PCP share the descriptors of *)
(* one process: the number of a program that left may be given to another  *)
(* program or to a CPU.                                                    *)
(*                                                                         *)
(* A packet is its length, which arrives in one piece, and a body, which   *)
(* the network may cut: recvAll puts each piece at the start of its buffer *)
(* and only a body that comes in one piece is what was sent.  Packets      *)
(* between the kernel and the CPUs come whole here, and no CPU leaves.  A  *)
(* PCB has no frame: a CPU takes as one the next 48 bytes of its stream.   *)
(* What a CPU runs, and tells the PCP, of a PCB it has read out of step is *)
(* not followed: its process is lost.                                      *)
(***************************************************************************)
EXTENDS Integers, SequencesExt, FiniteSetsExt

CONSTANTS
    Programas, CPUs, Nada,
    Sockets,    \* descriptors the kernel can give to programs and CPUs
    Guion,      \* the lines of each script, "imprimir" or "imprimirTexto"
    Quantum,
    Cuerpo,     \* bound: the pieces a script can be cut in
    MaxSalidas  \* bound: programs their users stop (a crash counts)

ASSUME SupuestosMensajes ==
    /\ Sockets \subseteq Nat /\ Quantum \in Nat \ {0} /\ Cuerpo \in Nat \ {0}
    /\ MaxSalidas \in Nat
    /\ Guion \in [Programas -> Seq({"imprimir", "imprimirTexto"})]
    /\ Programas \cap CPUs = {}
    /\ Nada \notin Programas \cup CPUs \cup [proc : Programas, resta : Nat]
    /\ Nada \notin [socket : Sockets, faltan : Nat, trozos : Nat]

VARIABLES
    programa,   \* "fuera", "envia", "recibe", "termino", or "salio" on its own
    porEnviar,  \* pieces of the script its sendAll has not written
    llegaron,   \* pieces the kernel has not read, the length among them
    hacia,      \* orders on their way to each program
    reset,      \* the kernel has written to a program that had left
    fd,         \* the program or CPU at the other end of each socket of the kernel
    atendidos,  \* programs whose connection was accepted
    plp,        \* the recvAll the PLP is in: socket, missing pieces, recvs made
    pcb,        \* socket and p_counter of each process
    estado,     \* "no", "ready", "cpu" (until the PCP has its PCB), "fin" or "perdido"
    cpu,        \* the process each CPU has and the lines left of its quantum
    canal,      \* packets of each CPU the PCP has not read
    trama,      \* what each CPU will read: PCBs, "corrida" by other bytes, or no more
    caido,      \* the kernel has died
    recibidos,  \* history: the orders each program has obeyed
    rotos       \* history: programs whose script, or an order to them, came cut

vars == <<programa, porEnviar, llegaron, hacia, reset, fd, atendidos, plp, pcb, estado,
          cpu, canal, trama, caido, recibidos, rotos>>
red == <<programa, porEnviar, llegaron>>
procesos == <<pcb, estado, cpu, canal>>
descriptores == <<fd, atendidos, plp>>

Init ==
    /\ programa = [p \in Programas |-> "fuera"]
    /\ porEnviar = [p \in Programas |-> 0] /\ llegaron = [p \in Programas |-> 0]
    /\ hacia = [p \in Programas |-> <<>>] /\ reset = {}
    /\ fd = [s \in Sockets |-> Nada] /\ atendidos = {} /\ plp = Nada
    /\ pcb = [p \in Programas |-> Nada] /\ estado = [p \in Programas |-> "no"]
    /\ cpu = [c \in CPUs |-> Nada] /\ canal = [c \in CPUs |-> <<>>]
    /\ trama = [c \in CPUs |-> "bien"] /\ caido = FALSE
    /\ recibidos = [p \in Programas |-> <<>>] /\ rotos = {}

Conectado(p) == programa[p] \in {"envia", "recibe"}
SeFue(p) == programa[p] \in {"termino", "salio"}

-----------------------------------------------------------------------------
(* The program *)

\* crear_conexion_saliente; the script is the length of its packet and a body.
Conecta(p) ==
    /\ programa[p] = "fuera" /\ ~caido
    /\ programa' = [programa EXCEPT ![p] = "envia"]
    /\ porEnviar' = [porEnviar EXCEPT ![p] = Cuerpo + 1]
    /\ UNCHANGED <<llegaron, hacia, reset, trama, descriptores, procesos, caido, recibidos, rotos>>

\* A send of sendAll writes some of what is left; after the last, main receives.
EnviarDatos(p) ==
    /\ programa[p] = "envia" /\ ~caido
    /\ \E n \in 1..porEnviar[p] :
          /\ porEnviar' = [porEnviar EXCEPT ![p] = @ - n]
          /\ llegaron' = [llegaron EXCEPT ![p] = @ + n]
    /\ programa' = IF porEnviar'[p] = 0 THEN [programa EXCEPT ![p] = "recibe"] ELSE programa
    /\ UNCHANGED <<hacia, reset, trama, descriptores, procesos, caido, recibidos, rotos>>

\* The user stops the program.  What it had not read is answered with a reset.
Abandona(p) ==
    /\ Conectado(p) /\ Cardinality({q \in Programas : programa[q] = "salio"}) < MaxSalidas
    /\ programa' = [programa EXCEPT ![p] = "salio"]
    /\ reset' = IF hacia[p] # <<>> THEN reset \cup {p} ELSE reset
    /\ hacia' = [hacia EXCEPT ![p] = <<>>]
    /\ UNCHANGED <<porEnviar, llegaron, trama, descriptores, procesos, caido, recibidos, rotos>>

\* ejecutarMensajeKernel, and the end of main after FINALIZAR.
Obedece(p, m) ==
    /\ recibidos' = [recibidos EXCEPT ![p] = Append(@, m)]
    /\ IF m.orden = "FINALIZAR"
       THEN /\ programa' = [programa EXCEPT ![p] = "termino"]
            /\ hacia' = [hacia EXCEPT ![p] = <<>>]
            /\ reset' = IF Len(hacia[p]) > 1 THEN reset \cup {p} ELSE reset
       ELSE hacia' = [hacia EXCEPT ![p] = Tail(@)] /\ UNCHANGED <<programa, reset>>

\* recvAll of an order that comes in one piece.
ProgRecibe(p) ==
    /\ programa[p] = "recibe" /\ hacia[p] # <<>>
    /\ Obedece(p, Head(hacia[p]))
    /\ UNCHANGED <<porEnviar, llegaron, trama, descriptores, procesos, caido, rotos>>

\* recvAll of an order that comes cut: the last piece lies over the first.  It
\* may still be understood, be taken for no order, or bring the program down.
ProgRecibeRoto(p) ==
    /\ programa[p] = "recibe" /\ hacia[p] # <<>>
    /\ rotos' = rotos \cup {p}
    /\ \/ Obedece(p, Head(hacia[p]))
       \/ /\ hacia' = [hacia EXCEPT ![p] = Tail(@)]
          /\ UNCHANGED <<programa, reset, recibidos>>
       \/ /\ programa' = [programa EXCEPT ![p] = "salio"]
          /\ hacia' = [hacia EXCEPT ![p] = <<>>]
          /\ reset' = IF Len(hacia[p]) > 1 THEN reset \cup {p} ELSE reset
          /\ UNCHANGED recibidos
    /\ UNCHANGED <<porEnviar, llegaron, trama, descriptores, procesos, caido>>

-----------------------------------------------------------------------------
(* What the kernel sends *)

\* An order about the process of p: a line of its script, or 0.
Orden(orden, p, linea) == [orden |-> orden, de |-> p, linea |-> linea]

\* To a program that has left an order is lost, but once that has answered with a
\* reset the signal of a broken pipe kills the kernel.
AlQueSeFue(q) ==
    /\ reset' = reset \cup {q}
    /\ caido' \in BOOLEAN /\ (caido' => q \in reset)
    /\ UNCHANGED hacia

\* enviarMensajePrograma: the send is not checked.  To a closed descriptor it
\* fails, and a CPU that has the descriptor will read the order where it expects
\* a PCB.
EnviarMensaje(s, m) ==
    /\ fd[s] \notin Programas => UNCHANGED <<hacia, reset, caido>>
    /\ fd[s] \in Programas =>
          IF Conectado(fd[s])
          THEN hacia' = [hacia EXCEPT ![fd[s]] = Append(@, m)] /\ UNCHANGED <<reset, caido>>
          ELSE AlQueSeFue(fd[s])
    /\ trama' = [c \in CPUs |-> IF fd[s] = c /\ trama[c] = "bien" THEN "corrida" ELSE trama[c]]

-----------------------------------------------------------------------------
(* The PLP: one thread, blocked while it is in recvAll *)

EnSelect == plp = Nada /\ ~caido

\* accept gives the lowest descriptor that is free.
Libres == {s \in Sockets : fd[s] = Nada}

Acepta(p) ==
    /\ EnSelect /\ programa[p] # "fuera" /\ p \notin atendidos /\ Libres # {}
    /\ fd' = [fd EXCEPT ![Min(Libres)] = p]
    /\ atendidos' = atendidos \cup {p}
    /\ UNCHANGED <<plp, red, hacia, reset, trama, procesos, caido, recibidos, rotos>>

\* Variant: the length of the packet is not discounted.
PorRecibirConLargo == Cuerpo + 1

\* bytesARecibir, once the length is known.
PorRecibir == Cuerpo

\* The first recv of recvAll.
PlpLee(s) ==
    /\ EnSelect /\ fd[s] \in Programas /\ llegaron[fd[s]] > 0
    /\ llegaron' = [llegaron EXCEPT ![fd[s]] = @ - 1]
    /\ plp' = [socket |-> s, faltan |-> PorRecibir, trozos |-> 0]
    /\ UNCHANGED <<programa, porEnviar, hacia, reset, trama, fd, atendidos, procesos, caido, recibidos, rotos>>

\* A turn of its loop.  If the program left before the end of its script recv
\* returns 0 for ever, and the PLP does not come out.
PlpRecibe ==
    /\ plp # Nada /\ ~caido
    /\ LET q == fd[plp.socket]
           n == Min({llegaron[q], plp.faltan})
       IN /\ n > 0
          /\ llegaron' = [llegaron EXCEPT ![q] = @ - n]
          /\ plp' = [plp EXCEPT !.faltan = @ - n, !.trozos = @ + 1]
    /\ UNCHANGED <<programa, porEnviar, hacia, reset, trama, fd, atendidos, procesos, caido, recibidos, rotos>>

\* atender_solicitud_programa succeeds: the welcome, then the PCB.
Admite(p, s) ==
    /\ EnviarMensaje(s, Orden("INFORMAR", p, 0))
    /\ pcb' = [pcb EXCEPT ![p] = [socket |-> s, linea |-> 1]]
    /\ estado' = [estado EXCEPT ![p] = "ready"]

\* Variant: the program is not told.
RechazaCallado(p, s) == UNCHANGED <<hacia, reset, trama, caido, pcb, estado>>

Rechaza(p, s) ==
    /\ EnviarMensaje(s, Orden("FINALIZAR", p, 0))
    /\ UNCHANGED <<pcb, estado>>

\* The packet of a program is complete.  One that came cut may be ignored,
\* having no id the PLP knows, or bring the kernel down.
PlpAtiende ==
    /\ plp # Nada /\ plp.faltan = 0 /\ ~caido
    /\ LET s == plp.socket
           p == fd[s]
           roto == plp.trozos > 1
       IN /\ rotos' = IF roto THEN rotos \cup {p} ELSE rotos
          /\ \/ Admite(p, s)
             \/ Rechaza(p, s)
             \/ roto /\ UNCHANGED <<hacia, reset, trama, caido, pcb, estado>>
             \/ roto /\ caido' = TRUE /\ UNCHANGED <<hacia, reset, trama, pcb, estado>>
    /\ plp' = Nada
    /\ UNCHANGED <<red, fd, atendidos, cpu, canal, recibidos>>

\* Variant: a socket with nothing to read passes for closed.
PlpCierraSinMirar(s) ==
    /\ EnSelect /\ fd[s] \in Programas /\ llegaron[fd[s]] = 0
    /\ fd' = [fd EXCEPT ![s] = Nada]
    /\ UNCHANGED <<atendidos, plp, red, hacia, reset, trama, procesos, caido, recibidos, rotos>>

\* recvAll returns 0: the socket is closed, the PCBs that name it stay.
PlpCierra(s) ==
    /\ EnSelect /\ fd[s] \in Programas /\ SeFue(fd[s]) /\ llegaron[fd[s]] = 0
    /\ fd' = [fd EXCEPT ![s] = Nada]
    /\ UNCHANGED <<atendidos, plp, red, hacia, reset, trama, procesos, caido, recibidos, rotos>>

-----------------------------------------------------------------------------
(* The CPUs *)

\* The PCP accepts a CPU, from the same descriptors as the PLP.
AceptaCpu(c) ==
    /\ ~caido /\ (\A s \in Sockets : fd[s] # c) /\ Libres # {}
    /\ fd' = [fd EXCEPT ![Min(Libres)] = c]
    /\ UNCHANGED <<atendidos, plp, red, hacia, reset, trama, procesos, caido, recibidos, rotos>>

\* What becomes of the PCB of p at c.  One that comes behind other bytes is read
\* out of step, and so will be those after it, if the CPU asks for more.
Recibe(c, p) ==
    IF trama[c] = "bien"
    THEN /\ cpu' = [cpu EXCEPT ![c] = [proc |-> p, resta |-> Quantum]]
         /\ estado' = [estado EXCEPT ![p] = "cpu"]
         /\ UNCHANGED trama
    ELSE /\ estado' = [estado EXCEPT ![p] = "perdido"]
         /\ \E t \in {"corrida", "perdida"} : trama' = [trama EXCEPT ![c] = t]
         /\ UNCHANGED cpu

\* The dispatcher sends a PCB to a CPU that has announced itself.
Despacha(c, p) ==
    /\ ~caido /\ estado[p] = "ready" /\ cpu[c] = Nada /\ canal[c] = <<>>
    /\ (\E s \in Sockets : fd[s] = c) /\ trama[c] # "perdida"
    /\ Recibe(c, p)
    /\ UNCHANGED <<red, hacia, reset, descriptores, pcb, canal, caido, recibidos, rotos>>

Manda(c, tipo, p) ==
    canal' = [canal EXCEPT ![c] = Append(@, [tipo |-> tipo, proc |-> p, linea |-> pcb[p].linea])]

\* A line of the script that prints: the CPU sends a syscall and goes on.
Imprime(c, tipo) ==
    /\ cpu[c] # Nada /\ ~caido
    /\ LET p == cpu[c].proc IN
          /\ cpu[c].resta > 0 /\ pcb[p].linea <= Len(Guion[p])
          /\ Guion[p][pcb[p].linea] = tipo
          /\ Manda(c, tipo, p)
          /\ pcb' = [pcb EXCEPT ![p].linea = @ + 1]
    /\ cpu' = [cpu EXCEPT ![c].resta = @ - 1]
    /\ UNCHANGED <<red, hacia, reset, trama, descriptores, estado, caido, recibidos, rotos>>

Imprimir(c) == Imprime(c, "imprimir")
ImprimirTexto(c) == Imprime(c, "imprimirTexto")

\* enviarPcbProcesado: Q at the end of the quantum; F, or E, at that of the script.
EnviarPcbProcesado(c) ==
    /\ cpu[c] # Nada /\ ~caido
    /\ LET p == cpu[c].proc IN
          \/ cpu[c].resta = 0 /\ Manda(c, "Q", p)
          \/ cpu[c].resta > 0 /\ pcb[p].linea > Len(Guion[p]) /\ Manda(c, "F", p)
    /\ cpu' = [cpu EXCEPT ![c] = Nada]
    /\ UNCHANGED <<red, hacia, reset, trama, descriptores, pcb, estado, caido, recibidos, rotos>>

-----------------------------------------------------------------------------
(* The PCP *)

\* recvAll of a packet of a CPU.
PcpLee(c, tipos) ==
    /\ ~caido /\ canal[c] # <<>> /\ Head(canal[c]).tipo \in tipos
    /\ canal' = [canal EXCEPT ![c] = Tail(@)]
    /\ UNCHANGED <<red, descriptores, pcb, cpu, recibidos, rotos>>

\* syscall_imprimir, for both syscalls: the socket comes in the packet.
PcpImprime(c) ==
    LET m == Head(canal[c]) IN
    /\ PcpLee(c, {"imprimir", "imprimirTexto"})
    /\ EnviarMensaje(pcb[m.proc].socket, Orden("INFORMAR", m.proc, m.linea))
    /\ UNCHANGED estado

PcpQuantum(c) ==
    /\ PcpLee(c, {"Q"})
    /\ estado' = [estado EXCEPT ![Head(canal[c]).proc] = "ready"]
    /\ UNCHANGED <<hacia, reset, trama, caido>>

\* Variant: the program is not told.
PcpTerminaCallado(c) ==
    /\ PcpLee(c, {"F"})
    /\ estado' = [estado EXCEPT ![Head(canal[c]).proc] = "fin"]
    /\ UNCHANGED <<hacia, reset, trama, caido>>

PcpTermina(c) ==
    LET p == Head(canal[c]).proc IN
    /\ PcpLee(c, {"F"})
    /\ EnviarMensaje(pcb[p].socket, Orden("FINALIZAR", p, 0))
    /\ estado' = [estado EXCEPT ![p] = "fin"]

-----------------------------------------------------------------------------

\* What happens without anyone deciding it.
Avanza ==
    \/ \E p \in Programas : EnviarDatos(p) \/ ProgRecibe(p) \/ ProgRecibeRoto(p) \/ Acepta(p)
    \/ \E s \in Sockets : PlpLee(s) \/ PlpCierra(s)
    \/ PlpRecibe \/ PlpAtiende
    \/ \E c \in CPUs :
          \/ AceptaCpu(c)
          \/ \E p \in Programas : Despacha(c, p)
          \/ Imprimir(c) \/ ImprimirTexto(c) \/ EnviarPcbProcesado(c)
          \/ PcpImprime(c) \/ PcpQuantum(c) \/ PcpTermina(c)

Next == Avanza \/ \E p \in Programas : Conecta(p) \/ Abandona(p)

Spec == Init /\ [][Next]_vars

\* The threads, the CPUs and the programs go on while they can.
SpecJusta == Spec /\ WF_vars(Avanza)
=============================================================================
