------------------------- MODULE PlanificadorProofs -------------------------
(***************************************************************************)
(* Proofs about Planificador, for every number of programs, CPUs and       *)
(* devices, every multiprogramming level and every weight.                 *)
(***************************************************************************)
EXTENDS PropsPlanificador, ListasProofs

-----------------------------------------------------------------------------
(* Types *)

\* The message the PCP is about to receive is one a CPU sends, and one that is
\* not 'O' nor the end of the connection carries a PCB.
LEMMA MensajeRecibido ==
    ASSUME TipoMensajes, NEW c \in CPUs, NEW t, Recibe(c, t)
    PROVE  /\ Head(mensajes[c]) \in Mensaje
           /\ Head(mensajes[c]).tipo \in t \ {"O", "fin"} => Head(mensajes[c]).pcb \in Programas
           /\ TipoMensajes'
<1>1. mensajes[c] \in Seq(Mensaje) /\ mensajes[c] # <<>>
  BY DEF TipoMensajes, Recibe
<1>2. Head(mensajes[c]) \in Mensaje /\ Tail(mensajes[c]) \in Seq(Mensaje)
  BY <1>1, HeadTailProperties
<1>3. Head(mensajes[c]).tipo \notin {"O", "fin"} => Head(mensajes[c]).pcb \in Programas
  BY <1>2 DEF Mensaje
<1>4. TipoMensajes'
  BY <1>2 DEF TipoMensajes, Recibe
<1>5. QED
  BY <1>2, <1>3, <1>4

\* A part of the type invariant holds after a step that leaves its variables.
LEMMA TipoEstable ==
    ASSUME TypeOK
    PROVE  /\ UNCHANGED <<colaNew, colaReady, colaExit>> => TipoColas'
           /\ UNCHANGED <<sReadyMax, sReadyNuevo, sExit, sHayCpus>> => TipoSemaforos'
           /\ UNCHANGED <<plp>> => TipoPlp'
           /\ UNCHANGED <<worker>> => TipoWorkers'
           /\ UNCHANGED <<pcp>> => TipoPcp'
           /\ UNCHANGED <<cpusOciosas, socket>> => TipoOciosas'
           /\ UNCHANGED <<mensajes>> => TipoMensajes'
           /\ UNCHANGED <<dispatcher>> => TipoDispatcher'
           /\ UNCHANGED <<canal, cpu>> => TipoCpu'
           /\ UNCHANGED <<vaciar>> => TipoVaciar'
           /\ UNCHANGED <<colaIO, hiloIO>> => TipoIO'
           /\ UNCHANGED <<programa, destruidos, perdidos, rafagas, bajas, vencidos, descartes, caido>> => TipoProgramas'
<1>1. UNCHANGED <<colaNew, colaReady, colaExit>> => TipoColas'
  BY DEF TypeOK, TipoColas
<1>2. UNCHANGED <<sReadyMax, sReadyNuevo, sExit, sHayCpus>> => TipoSemaforos'
  BY DEF TypeOK, TipoSemaforos
<1>3. UNCHANGED <<plp>> => TipoPlp'
  BY DEF TypeOK, TipoPlp
<1>4. UNCHANGED <<worker>> => TipoWorkers'
  BY DEF TypeOK, TipoWorkers
<1>5. UNCHANGED <<pcp>> => TipoPcp'
  BY DEF TypeOK, TipoPcp
<1>6. UNCHANGED <<cpusOciosas, socket>> => TipoOciosas'
  BY DEF TypeOK, TipoOciosas
<1>7. UNCHANGED <<mensajes>> => TipoMensajes'
  BY DEF TypeOK, TipoMensajes
<1>8. UNCHANGED <<dispatcher>> => TipoDispatcher'
  BY DEF TypeOK, TipoDispatcher
<1>9. UNCHANGED <<canal, cpu>> => TipoCpu'
  BY DEF TypeOK, TipoCpu
<1>10. UNCHANGED <<vaciar>> => TipoVaciar'
  BY DEF TypeOK, TipoVaciar
<1>11. UNCHANGED <<colaIO, hiloIO>> => TipoIO'
  BY DEF TypeOK, TipoIO
<1>12. UNCHANGED <<programa, destruidos, perdidos, rafagas, bajas, vencidos, descartes, caido>> => TipoProgramas'
  BY DEF TypeOK, TipoProgramas
<1>13. QED
  BY <1>1, <1>2, <1>3, <1>4, <1>5, <1>6, <1>7, <1>8, <1>9, <1>10, <1>11, <1>12

\* The state the kernel starts in has the types.
LEMMA TipoInicial == Init => TypeOK
BY ConstantesSupuestas
DEF Init, TypeOK, Pcb, Cpu, PlpOcioso, PcpOcioso, DispEspera, HilosPlp, HilosPcp, Caidas,
    TipoColas, TipoSemaforos, TipoPlp, TipoWorkers, TipoPcp, TipoOciosas, TipoMensajes, TipoDispatcher, TipoCpu, TipoVaciar, TipoIO, TipoProgramas

\* Every step of every thread and of every CPU keeps the types.
LEMMA TipoPaso == TypeOK /\ [Next]_vars => TypeOK'
<1> SUFFICES ASSUME TypeOK, [Next]_vars PROVE TypeOK'
  OBVIOUS
<1> USE ConstantesSupuestas DEF colas, sems, cpuLado, io, historia
<1>1. ASSUME NEW p \in Programas, AceptarPrograma(p) PROVE TypeOK'
  <2>1. TipoPlp'
    BY <1>1
    DEF TypeOK, TipoPlp, TipoProgramas, Pcb, HilosPlp, Caidas, AceptarPrograma, PlpOcioso
  <2>2. TipoProgramas'
    BY <1>1
    DEF TypeOK, TipoPlp, TipoProgramas, Pcb, HilosPlp, Caidas, AceptarPrograma, PlpOcioso
  <2>3. UNCHANGED <<colaNew, colaReady, colaExit, sReadyMax, sReadyNuevo, sExit,
                    sHayCpus, worker, pcp, cpusOciosas, socket,
                    mensajes, dispatcher, canal, cpu, vaciar,
                    colaIO, hiloIO>>
    BY <1>1 DEF AceptarPrograma
  <2>4. QED
    BY <2>1, <2>2, <2>3, TipoEstable DEF TypeOK
<1>2. ASSUME NEW p \in Programas, RechazarPrograma(p) PROVE TypeOK'
  <2>1. TipoColas'
    BY <1>2
    DEF TypeOK, TipoColas, TipoSemaforos, TipoPlp, TipoProgramas, Pcb, HilosPlp, Caidas, RechazarPrograma
  <2>2. TipoSemaforos'
    BY <1>2
    DEF TypeOK, TipoColas, TipoSemaforos, TipoPlp, TipoProgramas, Pcb, HilosPlp, Caidas, RechazarPrograma
  <2>3. TipoProgramas'
    BY <1>2
    DEF TypeOK, TipoColas, TipoSemaforos, TipoPlp, TipoProgramas, Pcb, HilosPlp, Caidas, RechazarPrograma
  <2>4. UNCHANGED <<plp, worker, pcp, cpusOciosas, socket, mensajes, dispatcher,
                    canal, cpu, vaciar, colaIO, hiloIO>>
    BY <1>2 DEF RechazarPrograma
  <2>5. QED
    BY <2>1, <2>2, <2>3, <2>4, TipoEstable DEF TypeOK
<1>3. ASSUME ProbarReadyMax PROVE TypeOK'
  <2>1. TipoSemaforos'
    BY <1>3
    DEF TypeOK, TipoSemaforos, TipoPlp, Pcb, HilosPlp, ProbarReadyMax
  <2>2. TipoPlp'
    BY <1>3
    DEF TypeOK, TipoSemaforos, TipoPlp, Pcb, HilosPlp, ProbarReadyMax
  <2>3. UNCHANGED <<colaNew, colaReady, colaExit, worker, pcp, cpusOciosas, socket,
                    mensajes, dispatcher, canal, cpu, vaciar,
                    colaIO, hiloIO, programa, destruidos, perdidos,
                    rafagas, bajas, vencidos, descartes, caido>>
    BY <1>3 DEF ProbarReadyMax
  <2>4. QED
    BY <2>1, <2>2, <2>3, TipoEstable DEF TypeOK
<1>4. ASSUME PlpAReady PROVE TypeOK'
  <2>1. TipoColas'
    BY <1>4
    DEF TypeOK, TipoColas, TipoSemaforos, TipoPlp, Pcb, HilosPlp, PlpAReady, PlpMide, PlpOcioso
  <2>2. TipoSemaforos'
    BY <1>4
    DEF TypeOK, TipoColas, TipoSemaforos, TipoPlp, Pcb, HilosPlp, PlpAReady, PlpMide, PlpOcioso
  <2>3. TipoPlp'
    BY <1>4
    DEF TypeOK, TipoColas, TipoSemaforos, TipoPlp, Pcb, HilosPlp, PlpAReady, PlpMide, PlpOcioso
  <2>4. UNCHANGED <<worker, pcp, cpusOciosas, socket, mensajes, dispatcher, canal,
                    cpu, vaciar, colaIO, hiloIO, programa,
                    destruidos, perdidos, rafagas, bajas, vencidos, descartes,
                    caido>>
    BY <1>4 DEF PlpAReady
  <2>5. QED
    BY <2>1, <2>2, <2>3, <2>4, TipoEstable DEF TypeOK
<1>5. ASSUME PlpANew PROVE TypeOK'
  <2>1. TipoColas'
    BY <1>5
    DEF TypeOK, TipoColas, TipoPlp, Pcb, HilosPlp, PlpANew
  <2>2. TipoPlp'
    BY <1>5
    DEF TypeOK, TipoColas, TipoPlp, Pcb, HilosPlp, PlpANew
  <2>3. UNCHANGED <<sReadyMax, sReadyNuevo, sExit, sHayCpus, worker, pcp, cpusOciosas,
                    socket, mensajes, dispatcher, canal, cpu,
                    vaciar, colaIO, hiloIO, programa, destruidos,
                    perdidos, rafagas, bajas, vencidos, descartes, caido>>
    BY <1>5 DEF PlpANew
  <2>4. QED
    BY <2>1, <2>2, <2>3, TipoEstable DEF TypeOK
<1>6. ASSUME OrdenarNew PROVE TypeOK'
  <2>1. TipoColas'
    BY <1>6, ListSortTipo
    DEF TypeOK, TipoColas, TipoPlp, TipoWorkers, Pcb, HilosPlp, OrdenarNew, PlpMide, PlpOcioso
  <2>2. TipoPlp'
    BY <1>6, ListSortTipo
    DEF TypeOK, TipoColas, TipoPlp, TipoWorkers, Pcb, HilosPlp, OrdenarNew, PlpMide, PlpOcioso
  <2>3. TipoWorkers'
    BY <1>6, ListSortTipo
    DEF TypeOK, TipoColas, TipoPlp, TipoWorkers, Pcb, HilosPlp, OrdenarNew, PlpMide, PlpOcioso
  <2>4. UNCHANGED <<sReadyMax, sReadyNuevo, sExit, sHayCpus, pcp, cpusOciosas,
                    socket, mensajes, dispatcher, canal, cpu,
                    vaciar, colaIO, hiloIO, programa, destruidos,
                    perdidos, rafagas, bajas, vencidos, descartes, caido>>
    BY <1>6 DEF OrdenarNew
  <2>5. QED
    BY <2>1, <2>2, <2>3, <2>4, TipoEstable DEF TypeOK
<1>7. ASSUME MedirNew PROVE TypeOK'
  <2>1. TipoPlp'
    <3>1. Len(colaNew) \in Nat
      BY LenProperties DEF TypeOK, TipoColas
    <3>2. QED
      BY <1>7, <3>1 DEF TypeOK, TipoPlp, Pcb, HilosPlp, MedirNew, PlpOcioso
  <2>2. UNCHANGED <<colaNew, colaReady, colaExit, sReadyMax, sReadyNuevo, sExit,
                    sHayCpus, worker, pcp, cpusOciosas, socket,
                    mensajes, dispatcher, canal, cpu, vaciar,
                    colaIO, hiloIO, programa, destruidos, perdidos,
                    rafagas, bajas, vencidos, descartes, caido>>
    BY <1>7 DEF MedirNew
  <2>3. QED
    BY <2>1, <2>2, TipoEstable DEF TypeOK
<1>8. ASSUME MostrarNew PROVE TypeOK'
  <2>1. TipoPlp'
    <3>1. CASE plp' = PlpOcioso
      BY <3>1 DEF TipoPlp, Pcb, HilosPlp, PlpOcioso
    <3>2. CASE plp' = [plp EXCEPT !.i = @ + 1]
      BY <1>8, <3>2 DEF TypeOK, TipoPlp, MostrarNew
    <3>3. CASE UNCHANGED plp
      BY <3>3, TipoEstable
    <3>4. QED
      BY <1>8, <3>1, <3>2, <3>3 DEF MostrarNew
  <2>2. TipoProgramas'
    BY <1>8
    DEF TypeOK, TipoColas, TipoPlp, TipoProgramas, Pcb, HilosPlp, Caidas, MostrarNew, PlpOcioso
  <2>3. UNCHANGED <<colaNew, colaReady, colaExit, sReadyMax, sReadyNuevo, sExit,
                    sHayCpus, worker, pcp, cpusOciosas, socket,
                    mensajes, dispatcher, canal, cpu, vaciar,
                    colaIO, hiloIO>>
    BY <1>8 DEF MostrarNew
  <2>4. QED
    BY <2>1, <2>2, <2>3, TipoEstable DEF TypeOK
<1>9. ASSUME NEW p \in Programas, WorkerLugar(p) PROVE TypeOK'
  <2>1. TipoSemaforos'
    BY <1>9
    DEF TypeOK, TipoSemaforos, TipoWorkers, Pcb, WorkerLugar
  <2>2. TipoWorkers'
    BY <1>9
    DEF TypeOK, TipoSemaforos, TipoWorkers, Pcb, WorkerLugar
  <2>3. UNCHANGED <<colaNew, colaReady, colaExit, plp, pcp, cpusOciosas, socket,
                    mensajes, dispatcher, canal, cpu, vaciar,
                    colaIO, hiloIO, programa, destruidos, perdidos,
                    rafagas, bajas, vencidos, descartes, caido>>
    BY <1>9 DEF WorkerLugar
  <2>4. QED
    BY <2>1, <2>2, <2>3, TipoEstable DEF TypeOK
<1>10. ASSUME NEW p \in Programas, WorkerSaca(p) PROVE TypeOK'
  <2>1. TipoColas'
    <3>1. CASE colaNew # <<>>
      <4>1. Head(colaNew) \in Programas /\ Tail(colaNew) \in Seq(Programas)
        BY <3>1, HeadTailProperties DEF TypeOK, TipoColas
      <4>2. QED
        BY <1>10, <3>1, <4>1 DEF TypeOK, TipoColas, WorkerSaca
    <3>2. CASE colaNew = <<>>
      BY <1>10, <3>2, TipoEstable DEF WorkerSaca
    <3>3. QED
      BY <3>1, <3>2
  <2>2. TipoWorkers'
    <3>1. CASE colaNew # <<>>
      <4>1. Head(colaNew) \in Programas /\ Tail(colaNew) \in Seq(Programas)
        BY <3>1, HeadTailProperties DEF TypeOK, TipoColas
      <4>2. QED
        <5>1. worker' = [worker EXCEPT ![p] = [pc |-> "encola", pcb |-> Head(colaNew)]]
          BY <1>10, <3>1 DEF WorkerSaca
        <5>2. [pc |-> "encola", pcb |-> Head(colaNew)] \in
                  [pc : {"no", "espera", "saca", "encola", "fin"}, pcb : Pcb]
          BY <4>1 DEF Pcb
        <5>3. QED
          BY <4>1, <5>1, <5>2 DEF TypeOK, TipoWorkers
    <3>2. CASE colaNew = <<>>
      BY <1>10, <3>2, TipoEstable DEF WorkerSaca
    <3>3. QED
      BY <3>1, <3>2
  <2>3. TipoProgramas'
    BY <1>10
    DEF TypeOK, TipoColas, TipoWorkers, TipoProgramas, Pcb, Caidas, WorkerSaca
  <2>4. UNCHANGED <<sReadyMax, sReadyNuevo, sExit, sHayCpus, plp, pcp, cpusOciosas,
                    socket, mensajes, dispatcher, canal, cpu,
                    vaciar, colaIO, hiloIO>>
    BY <1>10 DEF WorkerSaca
  <2>5. QED
    BY <2>1, <2>2, <2>3, <2>4, TipoEstable DEF TypeOK
<1>11. ASSUME NEW p \in Programas, WorkerEncola(p) PROVE TypeOK'
  <2>1. TipoColas'
    BY <1>11
    DEF TypeOK, TipoColas, TipoSemaforos, TipoWorkers, Pcb, WorkerEncola
  <2>2. TipoSemaforos'
    BY <1>11
    DEF TypeOK, TipoColas, TipoSemaforos, TipoWorkers, Pcb, WorkerEncola
  <2>3. TipoWorkers'
    BY <1>11
    DEF TypeOK, TipoColas, TipoSemaforos, TipoWorkers, Pcb, WorkerEncola
  <2>4. UNCHANGED <<plp, pcp, cpusOciosas, socket, mensajes, dispatcher, canal, cpu,
                    vaciar, colaIO, hiloIO, programa, destruidos,
                    perdidos, rafagas, bajas, vencidos, descartes, caido>>
    BY <1>11 DEF WorkerEncola
  <2>5. QED
    BY <2>1, <2>2, <2>3, <2>4, TipoEstable DEF TypeOK
<1>12. ASSUME DispEsperaPcb PROVE TypeOK'
  <2>1. TipoSemaforos'
    BY <1>12
    DEF TypeOK, TipoSemaforos, TipoDispatcher, Pcb, Cpu, DispEsperaPcb
  <2>2. TipoDispatcher'
    BY <1>12
    DEF TypeOK, TipoSemaforos, TipoDispatcher, Pcb, Cpu, DispEsperaPcb
  <2>3. UNCHANGED <<colaNew, colaReady, colaExit, plp, worker, pcp, cpusOciosas,
                    socket, mensajes, canal, cpu, vaciar,
                    colaIO, hiloIO, programa, destruidos, perdidos,
                    rafagas, bajas, vencidos, descartes, caido>>
    BY <1>12 DEF DispEsperaPcb
  <2>4. QED
    BY <2>1, <2>2, <2>3, TipoEstable DEF TypeOK
<1>13. ASSUME DispEsperaCpu PROVE TypeOK'
  <2>1. TipoSemaforos'
    BY <1>13
    DEF TypeOK, TipoSemaforos, TipoDispatcher, Pcb, Cpu, DispEsperaCpu
  <2>2. TipoDispatcher'
    BY <1>13
    DEF TypeOK, TipoSemaforos, TipoDispatcher, Pcb, Cpu, DispEsperaCpu
  <2>3. UNCHANGED <<colaNew, colaReady, colaExit, plp, worker, pcp, cpusOciosas,
                    socket, mensajes, canal, cpu, vaciar,
                    colaIO, hiloIO, programa, destruidos, perdidos,
                    rafagas, bajas, vencidos, descartes, caido>>
    BY <1>13 DEF DispEsperaCpu
  <2>4. QED
    BY <2>1, <2>2, <2>3, TipoEstable DEF TypeOK
<1>14. ASSUME DispTomaCpu PROVE TypeOK'
  <2>1. TipoOciosas'
    <3>1. CASE cpusOciosas # <<>>
      <4>1. Head(cpusOciosas) \in Sockets /\ Tail(cpusOciosas) \in Seq(Sockets)
        BY <3>1, HeadTailProperties DEF TypeOK, TipoOciosas
      <4>2. QED
        BY <1>14, <3>1, <4>1 DEF TypeOK, TipoOciosas, DispTomaCpu
    <3>2. CASE cpusOciosas = <<>>
      BY <1>14, <3>2, TipoEstable DEF DispTomaCpu
    <3>3. QED
      BY <3>1, <3>2
  <2>2. TipoDispatcher'
    <3>1. CASE cpusOciosas # <<>>
      <4>1. Head(cpusOciosas) \in Sockets /\ Tail(cpusOciosas) \in Seq(Sockets)
        BY <3>1, HeadTailProperties DEF TypeOK, TipoOciosas
      <4>2. QED
        BY <1>14, <3>1, <4>1 DEF TypeOK, TipoDispatcher, Pcb, Cpu, DispTomaCpu
    <3>2. CASE cpusOciosas = <<>>
      BY <1>14, <3>2, TipoEstable DEF DispTomaCpu
    <3>3. QED
      BY <3>1, <3>2
  <2>3. TipoProgramas'
    BY <1>14
    DEF TypeOK, TipoOciosas, TipoDispatcher, TipoCpu, TipoProgramas, Pcb, Cpu, Caidas, DispTomaCpu
  <2>4. UNCHANGED <<colaNew, colaReady, colaExit, sReadyMax, sReadyNuevo, sExit,
                    sHayCpus, plp, worker, pcp, mensajes, canal,
                    cpu, vaciar, colaIO, hiloIO>>
    BY <1>14 DEF DispTomaCpu
  <2>5. QED
    BY <2>1, <2>2, <2>3, <2>4, TipoEstable DEF TypeOK
<1>15. ASSUME DispTomaPcb PROVE TypeOK'
  <2>1. TipoColas'
    <3>1. CASE colaReady # <<>>
      <4>1. Head(colaReady) \in Programas /\ Tail(colaReady) \in Seq(Programas)
        BY <3>1, HeadTailProperties DEF TypeOK, TipoColas
      <4>2. QED
        BY <1>15, <3>1, <4>1 DEF TypeOK, TipoColas, DispTomaPcb
    <3>2. CASE colaReady = <<>>
      BY <1>15, <3>2, TipoEstable DEF DispTomaPcb
    <3>3. QED
      BY <3>1, <3>2
  <2>2. TipoDispatcher'
    <3>1. CASE colaReady # <<>>
      <4>1. Head(colaReady) \in Programas /\ Tail(colaReady) \in Seq(Programas)
        BY <3>1, HeadTailProperties DEF TypeOK, TipoColas
      <4>2. QED
        BY <1>15, <3>1, <4>1 DEF TypeOK, TipoDispatcher, Pcb, Cpu, DispTomaPcb
    <3>2. CASE colaReady = <<>>
      BY <1>15, <3>2, TipoEstable DEF DispTomaPcb
    <3>3. QED
      BY <3>1, <3>2
  <2>3. TipoProgramas'
    BY <1>15
    DEF TypeOK, TipoColas, TipoDispatcher, TipoProgramas, Pcb, Cpu, Caidas, DispTomaPcb
  <2>4. UNCHANGED <<sReadyMax, sReadyNuevo, sExit, sHayCpus, plp, worker, pcp,
                    cpusOciosas, socket, mensajes, canal, cpu,
                    vaciar, colaIO, hiloIO>>
    BY <1>15 DEF DispTomaPcb
  <2>5. QED
    BY <2>1, <2>2, <2>3, <2>4, TipoEstable DEF TypeOK
<1>16. ASSUME DispEnvia PROVE TypeOK'
  <2>1. dispatcher.pc = "envia" /\ dispatcher.pcb \in Programas
    BY <1>16 DEF TypeOK, TipoDispatcher, DispEnvia
  <2>2. TipoDispatcher'
    <3>1. dispatcher' \in {DispEspera, [DispEspera EXCEPT !.pc = "muerto"]}
      BY <1>16 DEF DispEnvia
    <3>2. QED
      BY <3>1 DEF TipoDispatcher, Pcb, Cpu, DispEspera
  <2>3. TipoCpu'
    <3>1. ASSUME NEW c \in CPUs, canal' = [canal EXCEPT ![c] = Append(@, dispatcher.pcb)]
          PROVE  canal' \in [CPUs -> Seq(Programas)]
      <4>1. Append(canal[c], dispatcher.pcb) \in Seq(Programas)
        BY <2>1, AppendProperties DEF TypeOK, TipoCpu
      <4>2. QED
        BY <3>1, <4>1 DEF TypeOK, TipoCpu
    <3>2. canal' \in [CPUs -> Seq(Programas)]
      BY <1>16, <3>1 DEF TypeOK, TipoCpu, DispEnvia
    <3>3. UNCHANGED cpu
      BY <1>16 DEF DispEnvia
    <3>4. QED
      BY <3>2, <3>3 DEF TypeOK, TipoCpu
  <2>4. TipoProgramas'
    <3>1. perdidos' \in {perdidos, perdidos \cup {dispatcher.pcb}}
      BY <1>16 DEF DispEnvia
    <3>2. QED
      BY <1>16, <2>1, <3>1 DEF TypeOK, TipoProgramas, DispEnvia
  <2>5. UNCHANGED <<colaNew, colaReady, colaExit, sReadyMax, sReadyNuevo, sExit,
                    sHayCpus, plp, worker, pcp, cpusOciosas,
                    socket, mensajes, vaciar, colaIO, hiloIO>>
    BY <1>16 DEF DispEnvia
  <2>6. QED
    BY <2>2, <2>3, <2>4, <2>5, TipoEstable DEF TypeOK
<1>17. ASSUME NEW c \in CPUs, PcpOciosa(c) PROVE TypeOK'
  <2>1. TipoSemaforos'
    BY <1>17
    DEF TypeOK, TipoSemaforos, TipoOciosas, PcpOciosa, Recibe
  <2>2. TipoOciosas'
    <3>1. socket[c] \in Sockets
      BY <1>17 DEF TypeOK, TipoOciosas, PcpOciosa, Recibe, Cpu
    <3>2. QED
      BY <1>17, <3>1, AppendProperties DEF TypeOK, TipoOciosas, PcpOciosa
  <2>3. TipoMensajes'
    BY <1>17, MensajeRecibido DEF TypeOK, PcpOciosa
  <2>4. UNCHANGED <<colaNew, colaReady, colaExit, plp, worker, pcp, dispatcher, canal,
                    cpu, vaciar, colaIO, hiloIO, programa,
                    destruidos, perdidos, rafagas, bajas, vencidos, descartes,
                    caido>>
    BY <1>17 DEF PcpOciosa, Recibe
  <2>5. QED
    BY <2>1, <2>2, <2>3, <2>4, TipoEstable DEF TypeOK
<1>18. ASSUME NEW c \in CPUs, PcpMideReady(c) PROVE TypeOK'
  <2>1. TipoPcp'
    <3>1. Head(mensajes[c]).pcb \in Programas
      BY <1>18, MensajeRecibido DEF TypeOK, PcpMideReady, Recibe
    <3>2. Len(colaReady) \in Nat
      BY LenProperties DEF TypeOK, TipoColas
    <3>3. QED
      BY <1>18, <3>1, <3>2 DEF TipoPcp, Pcb, Cpu, HilosPcp, PcpMideReady, PcpOcioso
  <2>2. TipoMensajes'
    BY <1>18, MensajeRecibido DEF TypeOK, PcpMideReady
  <2>3. UNCHANGED <<colaNew, colaReady, colaExit, sReadyMax, sReadyNuevo, sExit,
                    sHayCpus, plp, worker, cpusOciosas, socket,
                    dispatcher, canal, cpu, vaciar, colaIO, hiloIO,
                    programa, destruidos, perdidos, rafagas, bajas,
                    vencidos, descartes, caido>>
    BY <1>18 DEF PcpMideReady, Recibe
  <2>4. QED
    BY <2>1, <2>2, <2>3, TipoEstable DEF TypeOK
<1>19. ASSUME PcpInserta PROVE TypeOK'
  <2>1. TipoColas'
    BY <1>19, ListAddInIndexTipo
    DEF TypeOK, TipoColas, TipoPcp, Pcb, Cpu, HilosPcp, PcpInserta, InsertarEnReady, PcpOcioso
  <2>2. TipoSemaforos'
    BY <1>19, ListAddInIndexTipo
    DEF TypeOK, TipoSemaforos, TipoPcp, Pcb, Cpu, HilosPcp, PcpInserta, InsertarEnReady, PcpOcioso
  <2>3. TipoPcp'
    BY <1>19, ListAddInIndexTipo
    DEF TypeOK, TipoPcp, Pcb, Cpu, HilosPcp, PcpInserta, InsertarEnReady, PcpOcioso
  <2>4. TipoProgramas'
    BY <1>19, ListAddInIndexTipo
    DEF TypeOK, TipoPcp, TipoProgramas, Pcb, Cpu, HilosPcp, Caidas, PcpInserta, InsertarEnReady, PcpOcioso
  <2>5. UNCHANGED <<plp, worker, cpusOciosas, socket, mensajes, dispatcher, canal,
                    cpu, vaciar, colaIO, hiloIO>>
    BY <1>19 DEF PcpInserta, InsertarEnReady
  <2>6. QED
    BY <2>1, <2>2, <2>3, <2>4, <2>5, TipoEstable DEF TypeOK
<1>20. ASSUME NEW c \in CPUs, PcpTermina(c) PROVE TypeOK'
  <2>1. TipoColas'
    <3>1. Head(mensajes[c]).pcb \in Programas
      BY <1>20, MensajeRecibido DEF TypeOK, PcpTermina, Recibe
    <3>2. QED
      BY <1>20, <3>1 DEF TypeOK, TipoColas, PcpTermina
  <2>2. TipoPcp'
    BY <1>20
    DEF TypeOK, TipoColas, TipoPcp, TipoMensajes, TipoProgramas, Pcb, Cpu, HilosPcp, Mensaje, Caidas, PcpTermina, Recibe, PcpOcioso
  <2>3. TipoMensajes'
    BY <1>20, MensajeRecibido DEF TypeOK, PcpTermina
  <2>4. TipoProgramas'
    BY <1>20
    DEF TypeOK, TipoColas, TipoPcp, TipoMensajes, TipoProgramas, Pcb, Cpu, HilosPcp, Mensaje, Caidas, PcpTermina, Recibe, PcpOcioso
  <2>5. UNCHANGED <<sReadyMax, sReadyNuevo, sExit, sHayCpus, plp, worker, cpusOciosas,
                    socket, dispatcher, canal, cpu, vaciar,
                    colaIO, hiloIO>>
    BY <1>20 DEF PcpTermina, Recibe
  <2>6. QED
    BY <2>1, <2>2, <2>3, <2>4, <2>5, TipoEstable DEF TypeOK
<1>21. ASSUME PcpLibera PROVE TypeOK'
  <2>1. TipoSemaforos'
    BY <1>21
    DEF TypeOK, TipoSemaforos, TipoPcp, Pcb, Cpu, HilosPcp, PcpLibera, PcpOcioso
  <2>2. TipoPcp'
    BY <1>21
    DEF TypeOK, TipoSemaforos, TipoPcp, Pcb, Cpu, HilosPcp, PcpLibera, PcpOcioso
  <2>3. UNCHANGED <<colaNew, colaReady, colaExit, plp, worker, cpusOciosas, socket,
                    mensajes, dispatcher, canal, cpu, vaciar,
                    colaIO, hiloIO, programa, destruidos, perdidos,
                    rafagas, bajas, vencidos, descartes, caido>>
    BY <1>21 DEF PcpLibera
  <2>4. QED
    BY <2>1, <2>2, <2>3, TipoEstable DEF TypeOK
<1>22. ASSUME NEW c \in CPUs, PcpEntradaSalida(c) PROVE TypeOK'
  <2>1. TipoMensajes'
    BY <1>22, MensajeRecibido DEF TypeOK, PcpEntradaSalida
  <2>2. TipoIO'
    <3>1. PICK p \in Programas : p = Head(mensajes[c]).pcb
      BY <1>22, MensajeRecibido DEF TypeOK, PcpEntradaSalida, Recibe
    <3>2. \/ \E d \in Dispositivos : colaIO' = [colaIO EXCEPT ![d] = Append(@, p)]
          \/ UNCHANGED colaIO
      BY <1>22, <3>1 DEF PcpEntradaSalida
    <3>3. colaIO' \in [Dispositivos -> Seq(Programas)]
      <4>1. ASSUME NEW d \in Dispositivos PROVE Append(colaIO[d], p) \in Seq(Programas)
        BY AppendProperties DEF TypeOK, TipoIO
      <4>2. QED
        BY <3>2, <4>1 DEF TypeOK, TipoIO
    <3>4. QED
      BY <1>22, <3>3 DEF TypeOK, TipoIO, PcpEntradaSalida
  <2>3. TipoProgramas'
    <3>1. Head(mensajes[c]).pcb \in Programas
      BY <1>22, MensajeRecibido DEF TypeOK, PcpEntradaSalida, Recibe
    <3>2. QED
      BY <1>22, <3>1 DEF TypeOK, TipoProgramas, PcpEntradaSalida
  <2>4. UNCHANGED <<colaNew, colaReady, colaExit, sReadyMax, sReadyNuevo, sExit,
                    sHayCpus, plp, worker, pcp, cpusOciosas,
                    socket, dispatcher, canal, cpu, vaciar>>
    BY <1>22 DEF PcpEntradaSalida, Recibe
  <2>5. QED
    BY <2>1, <2>2, <2>3, <2>4, TipoEstable DEF TypeOK
<1>23. ASSUME NEW c \in CPUs, PcpDesconexion(c) PROVE TypeOK'
  <2>1. TipoPcp'
    <3>1. Len(cpusOciosas) \in Nat
      BY LenProperties DEF TypeOK, TipoOciosas
    <3>2. socket[c] \in Sockets
      BY <1>23 DEF TypeOK, TipoOciosas, PcpDesconexion, Recibe, Cpu
    <3>3. QED
      BY <1>23, <3>1, <3>2 DEF TipoPcp, Pcb, Cpu, HilosPcp, PcpDesconexion, PcpOcioso
  <2>2. TipoMensajes'
    BY <1>23, MensajeRecibido DEF TypeOK, PcpDesconexion
  <2>3. UNCHANGED <<colaNew, colaReady, colaExit, sReadyMax, sReadyNuevo, sExit,
                    sHayCpus, plp, worker, cpusOciosas, socket,
                    dispatcher, canal, cpu, vaciar, colaIO, hiloIO,
                    programa, destruidos, perdidos, rafagas, bajas,
                    vencidos, descartes, caido>>
    BY <1>23 DEF PcpDesconexion, Recibe
  <2>4. QED
    BY <2>1, <2>2, <2>3, TipoEstable DEF TypeOK
<1>24. ASSUME PcpBusca PROVE TypeOK'
  <2>1. TipoPcp'
    <3>1. CASE UNCHANGED pcp
      BY <3>1, TipoEstable
    <3>2. CASE pcp' = [pcp EXCEPT !.i = @ + 1]
      BY <1>24, <3>2 DEF TypeOK, TipoPcp, PcpBusca
    <3>3. CASE pcp' = [pcp EXCEPT !.pc = "quita"]
      BY <1>24, <3>3 DEF TypeOK, TipoPcp, HilosPcp, PcpBusca
    <3>4. CASE pcp' = [pcp EXCEPT !.pc = "cierra"]
      BY <1>24, <3>4 DEF TypeOK, TipoPcp, HilosPcp, PcpBusca
    <3>5. QED
      BY <1>24, <3>1, <3>2, <3>3, <3>4 DEF PcpBusca
  <2>2. TipoProgramas'
    BY <1>24
    DEF TypeOK, TipoPcp, TipoOciosas, TipoCpu, TipoProgramas, Pcb, Cpu, HilosPcp, Caidas, PcpBusca
  <2>3. UNCHANGED <<colaNew, colaReady, colaExit, sReadyMax, sReadyNuevo, sExit,
                    sHayCpus, plp, worker, cpusOciosas, socket,
                    mensajes, dispatcher, canal, cpu, vaciar,
                    colaIO, hiloIO>>
    BY <1>24 DEF PcpBusca
  <2>4. QED
    BY <2>1, <2>2, <2>3, TipoEstable DEF TypeOK
<1>25. ASSUME PcpQuita PROVE TypeOK'
  <2>1. TipoPcp'
    <3>1. CASE UNCHANGED pcp
      BY <3>1, TipoEstable
    <3>2. CASE pcp' = [pcp EXCEPT !.pc = "cierra"]
      BY <1>25, <3>2 DEF TypeOK, TipoPcp, HilosPcp, PcpQuita
    <3>3. QED
      BY <1>25, <3>1, <3>2 DEF PcpQuita
  <2>2. TipoOciosas'
    <3>1. CASE pcp.i < Len(cpusOciosas) /\ cpusOciosas' = RemoveAt(cpusOciosas, pcp.i + 1)
      <4>1. pcp.i + 1 \in 1..Len(cpusOciosas)
        BY <3>1, LenProperties DEF TypeOK, TipoPcp, TipoOciosas
      <4>2. cpusOciosas' \in Seq(Sockets)
        BY <3>1, <4>1, RemoveAtTipo DEF TypeOK, TipoOciosas
      <4>3. QED
        BY <1>25, <4>2 DEF TypeOK, TipoOciosas, PcpQuita
    <3>2. CASE UNCHANGED cpusOciosas
      BY <1>25, <3>2, TipoEstable DEF PcpQuita
    <3>3. QED
      BY <1>25, <3>1, <3>2 DEF PcpQuita
  <2>3. TipoProgramas'
    BY <1>25, RemoveAtTipo
    DEF TypeOK, TipoPcp, TipoOciosas, TipoProgramas, Pcb, Cpu, HilosPcp, Caidas, PcpQuita
  <2>4. UNCHANGED <<colaNew, colaReady, colaExit, sReadyMax, sReadyNuevo, sExit,
                    sHayCpus, plp, worker, mensajes, dispatcher,
                    canal, cpu, vaciar, colaIO, hiloIO>>
    BY <1>25 DEF PcpQuita
  <2>5. QED
    BY <2>1, <2>2, <2>3, <2>4, TipoEstable DEF TypeOK
<1>26. ASSUME PcpCierra PROVE TypeOK'
  <2>1. TipoSemaforos'
    BY <1>26
    DEF TypeOK, TipoSemaforos, TipoPcp, TipoOciosas, TipoCpu, Pcb, Cpu, HilosPcp, PcpCierra, PcpOcioso
  <2>2. TipoPcp'
    BY <1>26
    DEF TypeOK, TipoSemaforos, TipoPcp, TipoOciosas, TipoCpu, Pcb, Cpu, HilosPcp, PcpCierra, PcpOcioso
  <2>3. PICK c \in CPUs :
          /\ socket' = [socket EXCEPT ![c] = Nada]
          /\ perdidos' = perdidos \cup ToSet(canal[c])
          /\ canal' = [canal EXCEPT ![c] = <<>>]
    BY <1>26 DEF PcpCierra
  <2>4. TipoOciosas'
    <3>1. socket' \in [CPUs -> Cpu]
      BY <2>3 DEF TypeOK, TipoOciosas, Cpu
    <3>2. QED
      BY <1>26, <3>1 DEF TypeOK, TipoOciosas, PcpCierra
  <2>5. TipoCpu'
    <3>1. canal' \in [CPUs -> Seq(Programas)]
      <4>1. <<>> \in Seq(Programas)
        OBVIOUS
      <4>2. QED
        BY <2>3, <4>1 DEF TypeOK, TipoCpu
    <3>2. UNCHANGED cpu
      BY <1>26 DEF PcpCierra
    <3>3. QED
      BY <3>1, <3>2 DEF TypeOK, TipoCpu
  <2>6. TipoProgramas'
    <3>1. pcp.cpu \in Sockets
      BY <1>26 DEF TypeOK, TipoPcp, PcpCierra
    <3>2. vencidos' \subseteq Sockets
      BY <1>26, <3>1 DEF TypeOK, TipoProgramas, PcpCierra
    <3>3. perdidos' \subseteq Programas
      <4>1. ToSet(canal[c]) \subseteq Programas
        BY DEF TypeOK, TipoCpu, ToSet
      <4>2. QED
        BY <2>3, <4>1 DEF TypeOK, TipoProgramas
    <3>4. QED
      BY <1>26, <3>2, <3>3 DEF TypeOK, TipoProgramas, PcpCierra
  <2>7. UNCHANGED <<colaNew, colaReady, colaExit, plp, worker, mensajes, dispatcher,
                    vaciar, colaIO, hiloIO>>
    BY <1>26 DEF PcpCierra
  <2>8. QED
    BY <2>1, <2>2, <2>4, <2>5, <2>6, <2>7, TipoEstable DEF TypeOK
<1>27. ASSUME NEW d \in Dispositivos, IOToma(d) PROVE TypeOK'
  <2>1. TipoIO'
    BY <1>27
    DEF TypeOK, TipoIO, Pcb, IOToma
  <2>2. UNCHANGED <<colaNew, colaReady, colaExit, sReadyMax, sReadyNuevo, sExit,
                    sHayCpus, plp, worker, pcp, cpusOciosas,
                    socket, mensajes, dispatcher, canal, cpu,
                    vaciar, programa, destruidos, perdidos, rafagas,
                    bajas, vencidos, descartes, caido>>
    BY <1>27 DEF IOToma
  <2>3. QED
    BY <2>1, <2>2, TipoEstable DEF TypeOK
<1>28. ASSUME NEW d \in Dispositivos, IOMideReady(d) PROVE TypeOK'
  <2>1. TipoIO'
    <3>1. Len(colaReady) \in Nat
      BY LenProperties DEF TypeOK, TipoColas
    <3>2. QED
      BY <1>28, <3>1 DEF TypeOK, TipoIO, IOMideReady
  <2>2. UNCHANGED <<colaNew, colaReady, colaExit, sReadyMax, sReadyNuevo, sExit,
                    sHayCpus, plp, worker, pcp, cpusOciosas,
                    socket, mensajes, dispatcher, canal, cpu,
                    vaciar, programa, destruidos, perdidos, rafagas,
                    bajas, vencidos, descartes, caido>>
    BY <1>28 DEF IOMideReady
  <2>3. QED
    BY <2>1, <2>2, TipoEstable DEF TypeOK
<1>29. ASSUME NEW d \in Dispositivos, IOInserta(d) PROVE TypeOK'
  <2>1. TipoColas'
    BY <1>29, ListAddInIndexTipo
    DEF TypeOK, TipoColas, TipoIO, Pcb, IOInserta, InsertarEnReady
  <2>2. TipoSemaforos'
    BY <1>29, ListAddInIndexTipo
    DEF TypeOK, TipoSemaforos, TipoIO, Pcb, IOInserta, InsertarEnReady
  <2>3. TipoIO'
    BY <1>29, ListAddInIndexTipo
    DEF TypeOK, TipoIO, Pcb, IOInserta, InsertarEnReady
  <2>4. TipoProgramas'
    <3>1. hiloIO[d].pcb \in Programas
      BY <1>29 DEF TypeOK, TipoIO, IOInserta
    <3>2. QED
      BY <1>29, <3>1 DEF TypeOK, TipoProgramas, IOInserta, InsertarEnReady, historia
  <2>5. UNCHANGED <<plp, worker, pcp, cpusOciosas, socket, mensajes, dispatcher,
                    canal, cpu, vaciar>>
    BY <1>29 DEF IOInserta, InsertarEnReady
  <2>6. QED
    BY <2>1, <2>2, <2>3, <2>4, <2>5, TipoEstable DEF TypeOK
<1>30. ASSUME VaciarDespierta PROVE TypeOK'
  <2>1. TipoSemaforos'
    BY <1>30
    DEF TypeOK, TipoColas, TipoSemaforos, TipoVaciar, TipoProgramas, Caidas, VaciarDespierta
  <2>2. TipoVaciar'
    BY <1>30
    DEF TypeOK, TipoColas, TipoSemaforos, TipoVaciar, TipoProgramas, Caidas, VaciarDespierta
  <2>3. TipoProgramas'
    BY <1>30
    DEF TypeOK, TipoColas, TipoSemaforos, TipoVaciar, TipoProgramas, Caidas, VaciarDespierta
  <2>4. UNCHANGED <<colaNew, colaReady, colaExit, plp, worker, pcp, cpusOciosas,
                    socket, mensajes, dispatcher, canal, cpu,
                    colaIO, hiloIO>>
    BY <1>30 DEF VaciarDespierta
  <2>5. QED
    BY <2>1, <2>2, <2>3, <2>4, TipoEstable DEF TypeOK
<1>31. ASSUME VaciarQuita PROVE TypeOK'
  <2>1. TipoColas'
    <3>1. CASE vaciar.i < Len(colaExit)
      <4>1. vaciar.i + 1 \in 1..Len(colaExit)
        BY <3>1, LenProperties DEF TypeOK, TipoVaciar, TipoColas
      <4>2. colaExit' = RemoveAt(colaExit, vaciar.i + 1)
        BY <1>31, <3>1, LenProperties DEF TypeOK, TipoVaciar, TipoColas, VaciarQuita
      <4>3. colaExit' \in Seq(Programas)
        BY <4>1, <4>2, RemoveAtTipo DEF TypeOK, TipoColas
      <4>4. QED
        BY <1>31, <4>3 DEF TypeOK, TipoColas, VaciarQuita
    <3>2. CASE UNCHANGED colaExit
      BY <1>31, <3>2, TipoEstable DEF VaciarQuita
    <3>3. QED
      BY <1>31, <3>1, <3>2 DEF VaciarQuita
  <2>2. TipoVaciar'
    <3>1. CASE UNCHANGED vaciar
      BY <3>1, TipoEstable
    <3>2. CASE vaciar' = [vaciar EXCEPT !.i = @ + 1]
      BY <3>2 DEF TypeOK, TipoVaciar
    <3>3. CASE vaciar' = [pc |-> "espera", i |-> 0, size |-> 0]
      BY <3>3 DEF TipoVaciar
    <3>4. QED
      BY <1>31, <3>1, <3>2, <3>3 DEF VaciarQuita
  <2>3. TipoProgramas'
    <3>1. CASE destruidos' = destruidos \cup {colaExit[vaciar.i + 1]} /\ vaciar.i < Len(colaExit)
      <4>1. vaciar.i + 1 \in 1..Len(colaExit)
        BY <3>1, LenProperties DEF TypeOK, TipoVaciar, TipoColas
      <4>2. colaExit[vaciar.i + 1] \in Programas
        BY <4>1, ElementOfSeq DEF TypeOK, TipoColas
      <4>3. QED
        BY <1>31, <3>1, <4>2 DEF TypeOK, TipoProgramas, Caidas, VaciarQuita
    <3>2. CASE UNCHANGED destruidos
      BY <1>31, <3>2 DEF TypeOK, TipoProgramas, Caidas, VaciarQuita
    <3>3. QED
      BY <1>31, <3>1, <3>2 DEF VaciarQuita
  <2>4. UNCHANGED <<sReadyMax, sReadyNuevo, sExit, sHayCpus, plp, worker, pcp,
                    cpusOciosas, socket, mensajes, dispatcher,
                    canal, cpu, colaIO, hiloIO>>
    BY <1>31 DEF VaciarQuita
  <2>5. QED
    BY <2>1, <2>2, <2>3, <2>4, TipoEstable DEF TypeOK
<1>32. ASSUME NEW c \in CPUs, CpuConecta(c) PROVE TypeOK'
  <2>1. TipoOciosas'
    BY <1>32 DEF TypeOK, TipoOciosas, Cpu, CpuConecta
  <2>2. TipoCpu'
    BY <1>32
    DEF TypeOK, TipoOciosas, TipoCpu, Pcb, CpuConecta, CpuLibre
  <2>3. UNCHANGED <<colaNew, colaReady, colaExit, sReadyMax, sReadyNuevo, sExit,
                    sHayCpus, plp, worker, pcp, mensajes,
                    dispatcher, vaciar, colaIO, hiloIO, programa,
                    destruidos, perdidos, rafagas, bajas, vencidos, descartes,
                    caido>>
    BY <1>32 DEF CpuConecta
  <2>4. QED
    BY <2>1, <2>2, <2>3, TipoEstable DEF TypeOK
<1>33. ASSUME NEW c \in CPUs, CpuAnuncia(c) PROVE TypeOK'
  <2>1. TipoMensajes'
    BY <1>33
    DEF TypeOK, TipoMensajes, TipoCpu, Mensaje, Pcb, CpuAnuncia, Msj
  <2>2. TipoCpu'
    BY <1>33
    DEF TypeOK, TipoMensajes, TipoCpu, Mensaje, Pcb, CpuAnuncia, Msj
  <2>3. UNCHANGED <<colaNew, colaReady, colaExit, sReadyMax, sReadyNuevo, sExit,
                    sHayCpus, plp, worker, pcp, cpusOciosas,
                    socket, dispatcher, vaciar, colaIO, hiloIO,
                    programa, destruidos, perdidos, rafagas, bajas,
                    vencidos, descartes, caido>>
    BY <1>33 DEF CpuAnuncia
  <2>4. QED
    BY <2>1, <2>2, <2>3, TipoEstable DEF TypeOK
<1>34. ASSUME NEW c \in CPUs, CpuRecibe(c) PROVE TypeOK'
  <2>1. TipoCpu'
    BY <1>34
    DEF TypeOK, TipoCpu, Pcb, CpuRecibe
  <2>2. UNCHANGED <<colaNew, colaReady, colaExit, sReadyMax, sReadyNuevo, sExit,
                    sHayCpus, plp, worker, pcp, cpusOciosas,
                    socket, mensajes, dispatcher, vaciar,
                    colaIO, hiloIO, programa, destruidos, perdidos,
                    rafagas, bajas, vencidos, descartes, caido>>
    BY <1>34 DEF CpuRecibe
  <2>3. QED
    BY <2>1, <2>2, TipoEstable DEF TypeOK
<1>35. ASSUME NEW c \in CPUs, CpuQuantum(c) PROVE TypeOK'
  <2>1. TipoMensajes'
    BY <1>35
    DEF TypeOK, TipoMensajes, TipoCpu, TipoProgramas, Mensaje, Pcb, Caidas, CpuQuantum, Devuelve, Msj, CpuLibre
  <2>2. TipoCpu'
    BY <1>35
    DEF TypeOK, TipoMensajes, TipoCpu, TipoProgramas, Mensaje, Pcb, Caidas, CpuQuantum, Devuelve, Msj, CpuLibre
  <2>3. TipoProgramas'
    BY <1>35
    DEF TypeOK, TipoMensajes, TipoCpu, TipoProgramas, Mensaje, Pcb, Caidas, CpuQuantum, Devuelve, Msj, CpuLibre
  <2>4. UNCHANGED <<colaNew, colaReady, colaExit, sReadyMax, sReadyNuevo, sExit,
                    sHayCpus, plp, worker, pcp, cpusOciosas,
                    socket, dispatcher, vaciar, colaIO, hiloIO>>
    BY <1>35 DEF CpuQuantum, Devuelve
  <2>5. QED
    BY <2>1, <2>2, <2>3, <2>4, TipoEstable DEF TypeOK
<1>36. ASSUME NEW c \in CPUs, CpuTermina(c) PROVE TypeOK'
  <2>1. TipoMensajes'
    <3>1. CASE Devuelve(c, "F", Nada)
      BY <3>1 DEF TypeOK, TipoCpu, TipoMensajes, Devuelve, Msj, Mensaje
    <3>2. CASE Devuelve(c, "E", Nada)
      BY <3>2 DEF TypeOK, TipoCpu, TipoMensajes, Devuelve, Msj, Mensaje
    <3>3. QED
      BY <1>36, <3>1, <3>2 DEF CpuTermina
  <2>2. TipoCpu'
    <3>1. CASE Devuelve(c, "F", Nada)
      BY <3>1 DEF TypeOK, TipoCpu, Devuelve, CpuLibre, Pcb
    <3>2. CASE Devuelve(c, "E", Nada)
      BY <3>2 DEF TypeOK, TipoCpu, Devuelve, CpuLibre, Pcb
    <3>3. QED
      BY <1>36, <3>1, <3>2 DEF CpuTermina
  <2>3. UNCHANGED <<colaNew, colaReady, colaExit, sReadyMax, sReadyNuevo, sExit,
                    sHayCpus, plp, worker, pcp, cpusOciosas,
                    socket, dispatcher, vaciar, colaIO, hiloIO,
                    programa, destruidos, perdidos, rafagas, bajas,
                    vencidos, descartes, caido>>
    BY <1>36 DEF CpuTermina, Devuelve
  <2>4. QED
    BY <2>1, <2>2, <2>3, TipoEstable DEF TypeOK
<1>37. ASSUME NEW c \in CPUs, CpuEntradaSalida(c) PROVE TypeOK'
  <2>1. TipoMensajes'
    BY <1>37
    DEF TypeOK, TipoMensajes, TipoCpu, TipoProgramas, Mensaje, Pcb, Caidas, CpuEntradaSalida, Devuelve, Msj, CpuLibre
  <2>2. TipoCpu'
    BY <1>37
    DEF TypeOK, TipoMensajes, TipoCpu, TipoProgramas, Mensaje, Pcb, Caidas, CpuEntradaSalida, Devuelve, Msj, CpuLibre
  <2>3. TipoProgramas'
    BY <1>37
    DEF TypeOK, TipoMensajes, TipoCpu, TipoProgramas, Mensaje, Pcb, Caidas, CpuEntradaSalida, Devuelve, Msj, CpuLibre
  <2>4. UNCHANGED <<colaNew, colaReady, colaExit, sReadyMax, sReadyNuevo, sExit,
                    sHayCpus, plp, worker, pcp, cpusOciosas,
                    socket, dispatcher, vaciar, colaIO, hiloIO>>
    BY <1>37 DEF CpuEntradaSalida, Devuelve
  <2>5. QED
    BY <2>1, <2>2, <2>3, <2>4, TipoEstable DEF TypeOK
<1>38. ASSUME NEW c \in CPUs, CpuSale(c) PROVE TypeOK'
  <2>1. TipoMensajes'
    BY <1>38
    DEF TypeOK, TipoMensajes, TipoCpu, TipoProgramas, Mensaje, Pcb, Caidas, CpuSale, Msj, ToSet
  <2>2. TipoCpu'
    BY <1>38
    DEF TypeOK, TipoMensajes, TipoCpu, TipoProgramas, Mensaje, Pcb, Caidas, CpuSale, Msj, ToSet
  <2>3. TipoProgramas'
    BY <1>38
    DEF TypeOK, TipoMensajes, TipoCpu, TipoProgramas, Mensaje, Pcb, Caidas, CpuSale, Msj, ToSet
  <2>4. UNCHANGED <<colaNew, colaReady, colaExit, sReadyMax, sReadyNuevo, sExit,
                    sHayCpus, plp, worker, pcp, cpusOciosas,
                    socket, dispatcher, vaciar, colaIO, hiloIO>>
    BY <1>38 DEF CpuSale
  <2>5. QED
    BY <2>1, <2>2, <2>3, <2>4, TipoEstable DEF TypeOK
<1>39. ASSUME NEW c \in CPUs, CpuMuere(c) PROVE TypeOK'
  <2>1. TipoMensajes'
    BY <1>39
    DEF TypeOK, TipoMensajes, TipoCpu, TipoProgramas, Mensaje, Pcb, Caidas, CpuMuere, Msj, ToSet
  <2>2. TipoCpu'
    BY <1>39
    DEF TypeOK, TipoMensajes, TipoCpu, TipoProgramas, Mensaje, Pcb, Caidas, CpuMuere, Msj, ToSet
  <2>3. TipoProgramas'
    BY <1>39
    DEF TypeOK, TipoMensajes, TipoCpu, TipoProgramas, Mensaje, Pcb, Caidas, CpuMuere, Msj, ToSet
  <2>4. UNCHANGED <<colaNew, colaReady, colaExit, sReadyMax, sReadyNuevo, sExit,
                    sHayCpus, plp, worker, pcp, cpusOciosas,
                    socket, dispatcher, vaciar, colaIO, hiloIO>>
    BY <1>39 DEF CpuMuere
  <2>5. QED
    BY <2>1, <2>2, <2>3, <2>4, TipoEstable DEF TypeOK
<1>40. CASE UNCHANGED vars
  BY <1>40, TipoEstable DEF TypeOK, vars
<1>41. QED
  BY <1>1, <1>2, <1>3, <1>4, <1>5, <1>6, <1>7, <1>8, <1>9, <1>10, <1>11, <1>12, <1>13, <1>14, <1>15, <1>16, <1>17, <1>18, <1>19, <1>20, <1>21, <1>22, <1>23, <1>24, <1>25, <1>26, <1>27, <1>28, <1>29, <1>30, <1>31, <1>32, <1>33, <1>34, <1>35, <1>36, <1>37, <1>38, <1>39, <1>40
  DEF Next, Plp, PlpInterno, WtNar, Dispatcher, PcpMensaje, PcpInterno, HiloIO, VaciarExit,
      CpuAvanza, CpuEntorno

\* The type invariant: no semaphore of the scheduler is ever driven below zero,
\* and a thread about to use a PCB or a CPU has one, for any number of programs,
\* CPUs and devices.
THEOREM TipoCorrecto == Spec => []TypeOK
<1>1. Init => TypeOK
  BY TipoInicial
<1>2. TypeOK /\ [Next]_vars => TypeOK'
  BY TipoPaso
<1>3. QED
  BY <1>1, <1>2, PTL DEF Spec

-----------------------------------------------------------------------------
(* Ready and s_ready_nuevo *)

\* The step an insertion of list_add_in_index makes: it lengthens Ready or it
\* counts as a discard, and s_ready_nuevo is posted in both cases.
LEMMA InsercionEnReady ==
    ASSUME TypeOK, NEW pos \in Nat, NEW p \in Programas, InsertarEnReady(pos, p)
    PROVE  /\ sReadyNuevo' = sReadyNuevo + 1
           /\ Len(colaReady') + descartes' = Len(colaReady) + descartes + 1
<1>1. colaReady \in Seq(Programas) /\ Len(colaReady) \in Nat /\ descartes \in Nat
  BY LenProperties DEF TypeOK, TipoColas, TipoProgramas
<1>2. Len(colaReady') = IF pos <= Len(colaReady) THEN Len(colaReady) + 1 ELSE Len(colaReady)
  <2>1. colaReady' = ListAddInIndex(colaReady, pos, p)
    BY DEF InsertarEnReady
  <2>2. QED
    BY <1>1, <2>1, ListAddInIndexTipo
<1>3. descartes' = IF pos <= Len(colaReady) THEN descartes ELSE descartes + 1
  BY DEF InsertarEnReady, historia
<1>4. sReadyNuevo' = sReadyNuevo + 1
  BY DEF InsertarEnReady
<1>5. QED
  BY <1>1, <1>2, <1>3, <1>4

\* Every step keeps the tokens of s_ready_nuevo equal to the PCBs of Ready and
\* the discards.
LEMMA FichasDeReadyPaso == TypeOK /\ FichasDeReady /\ [Next]_vars => FichasDeReady'
<1> SUFFICES ASSUME TypeOK, FichasDeReady, [Next]_vars PROVE FichasDeReady'
  OBVIOUS
<1> USE DEF FichasDeReady
<1>t. /\ colaReady \in Seq(Programas) /\ Len(colaReady) \in Nat
      /\ sReadyNuevo \in Nat /\ descartes \in Nat
  BY LenProperties DEF TypeOK, TipoColas, TipoSemaforos, TipoProgramas
<1>d. DOMAIN dispatcher = {"pc", "cpu", "pcb"}
  BY DEF TypeOK, TipoDispatcher
<1>0. CASE UNCHANGED <<colaReady, sReadyNuevo, dispatcher, descartes>>
  BY <1>0
<1>1. CASE PlpAReady
  <2>1. Len(colaReady') = Len(colaReady) + 1
    BY <1>1, <1>t, AppendProperties DEF PlpAReady, TypeOK, TipoPlp
  <2>2. sReadyNuevo' = sReadyNuevo + 1 /\ UNCHANGED <<dispatcher, descartes>>
    BY <1>1 DEF PlpAReady, historia
  <2>3. QED
    BY <1>t, <2>1, <2>2
<1>2. ASSUME NEW w \in Programas, WorkerEncola(w) PROVE FichasDeReady'
  <2>1. Len(colaReady') = Len(colaReady) + 1
    BY <1>2, <1>t, AppendProperties DEF WorkerEncola, TypeOK, TipoWorkers
  <2>2. sReadyNuevo' = sReadyNuevo + 1 /\ UNCHANGED <<dispatcher, descartes>>
    BY <1>2 DEF WorkerEncola, historia
  <2>3. QED
    BY <1>t, <2>1, <2>2
<1>3. CASE DispEsperaPcb
  <2>1. sReadyNuevo' = sReadyNuevo - 1 /\ UNCHANGED <<colaReady, descartes>>
    BY <1>3 DEF DispEsperaPcb, colas, historia
  <2>2. dispatcher.pc = "espera" /\ dispatcher'.pc = "pide_cpu"
    BY <1>3, <1>d DEF DispEsperaPcb
  <2>3. QED
    BY <1>t, <2>1, <2>2
<1>4. CASE DispEsperaCpu
  <2>1. UNCHANGED <<colaReady, sReadyNuevo, descartes>>
    BY <1>4 DEF DispEsperaCpu, colas, historia
  <2>2. dispatcher.pc = "pide_cpu" /\ dispatcher'.pc = "toma_cpu"
    BY <1>4, <1>d DEF DispEsperaCpu
  <2>3. QED
    BY <2>1, <2>2
<1>5. CASE DispTomaCpu
  <2>1. UNCHANGED <<colaReady, sReadyNuevo, descartes>>
    BY <1>5 DEF DispTomaCpu, colas, sems, historia
  <2>2. dispatcher.pc = "toma_cpu" /\ dispatcher'.pc \in {"toma_cpu", "toma_pcb"}
    BY <1>5, <1>d DEF DispTomaCpu
  <2>3. QED
    BY <2>1, <2>2
<1>6. CASE DispTomaPcb
  <2>1. UNCHANGED <<sReadyNuevo, descartes>> /\ dispatcher.pc = "toma_pcb"
    BY <1>6 DEF DispTomaPcb, sems, historia
  <2>2. CASE colaReady # <<>>
    <3>1. Len(colaReady') = Len(colaReady) - 1
      BY <1>6, <1>t, <2>2, HeadTailProperties DEF DispTomaPcb
    <3>2. dispatcher'.pc = "envia"
      BY <1>6, <1>d, <2>2 DEF DispTomaPcb
    <3>3. QED
      BY <1>t, <2>1, <3>1, <3>2
  <2>3. CASE colaReady = <<>>
    BY <1>6, <2>1, <2>3 DEF DispTomaPcb
  <2>4. QED
    BY <2>2, <2>3
<1>7. CASE DispEnvia
  <2>1. UNCHANGED <<colaReady, sReadyNuevo, descartes>>
    BY <1>7 DEF DispEnvia, colas, sems
  <2>2. dispatcher.pc = "envia" /\ dispatcher'.pc \in {"espera", "muerto"}
    BY <1>7 DEF DispEnvia, DispEspera
  <2>3. QED
    BY <2>1, <2>2
<1>8. CASE PcpInserta
  <2>1. pcp.tam \in Nat /\ pcp.pcb \in Programas
    BY <1>8 DEF PcpInserta, TypeOK, TipoPcp
  <2>2. InsertarEnReady(pcp.tam, pcp.pcb) /\ UNCHANGED dispatcher
    BY <1>8 DEF PcpInserta
  <2>3. /\ sReadyNuevo' = sReadyNuevo + 1
        /\ Len(colaReady') + descartes' = Len(colaReady) + descartes + 1
    BY <2>1, <2>2, InsercionEnReady
  <2>4. QED
    BY <1>t, <2>2, <2>3
<1>9. ASSUME NEW d \in Dispositivos, IOInserta(d) PROVE FichasDeReady'
  <2>1. hiloIO[d].tam \in Nat /\ hiloIO[d].pcb \in Programas
    BY <1>9 DEF IOInserta, TypeOK, TipoIO
  <2>2. InsertarEnReady(hiloIO[d].tam, hiloIO[d].pcb) /\ UNCHANGED dispatcher
    BY <1>9 DEF IOInserta
  <2>3. /\ sReadyNuevo' = sReadyNuevo + 1
        /\ Len(colaReady') + descartes' = Len(colaReady) + descartes + 1
    BY <2>1, <2>2, InsercionEnReady
  <2>4. QED
    BY <1>t, <2>2, <2>3
<1>10. ASSUME NEW p \in Programas, AceptarPrograma(p) \/ RechazarPrograma(p)
       PROVE  UNCHANGED <<colaReady, sReadyNuevo, dispatcher, descartes>>
  BY <1>10 DEF AceptarPrograma, RechazarPrograma, colas, sems, historia
<1>11. ASSUME ProbarReadyMax \/ PlpANew \/ OrdenarNew \/ MedirNew \/ MostrarNew
       PROVE  UNCHANGED <<colaReady, sReadyNuevo, dispatcher, descartes>>
  BY <1>11 DEF ProbarReadyMax, PlpANew, OrdenarNew, MedirNew, MostrarNew, colas, sems, historia
<1>12. ASSUME NEW w \in Programas, WorkerLugar(w) \/ WorkerSaca(w)
       PROVE  UNCHANGED <<colaReady, sReadyNuevo, dispatcher, descartes>>
  BY <1>12 DEF WorkerLugar, WorkerSaca, colas, sems, historia
<1>13. ASSUME NEW c \in CPUs, PcpMensaje(c)
       PROVE  UNCHANGED <<colaReady, sReadyNuevo, dispatcher, descartes>>
  BY <1>13 DEF PcpMensaje, PcpOciosa, PcpMideReady, PcpTermina, PcpEntradaSalida, PcpDesconexion,
               colas, sems, historia
<1>14. ASSUME PcpLibera \/ PcpBusca \/ PcpQuita \/ PcpCierra
       PROVE  UNCHANGED <<colaReady, sReadyNuevo, dispatcher, descartes>>
  BY <1>14 DEF PcpLibera, PcpBusca, PcpQuita, PcpCierra, colas, sems, historia
<1>15. ASSUME NEW d \in Dispositivos, IOToma(d) \/ IOMideReady(d)
       PROVE  UNCHANGED <<colaReady, sReadyNuevo, dispatcher, descartes>>
  BY <1>15 DEF IOToma, IOMideReady, colas, sems, historia
<1>16. ASSUME VaciarExit
       PROVE  UNCHANGED <<colaReady, sReadyNuevo, dispatcher, descartes>>
  BY <1>16 DEF VaciarExit, VaciarDespierta, VaciarQuita, colas, sems, historia
<1>17. ASSUME NEW c \in CPUs, CpuAvanza(c) \/ CpuEntorno(c)
       PROVE  UNCHANGED <<colaReady, sReadyNuevo, dispatcher, descartes>>
  BY <1>17 DEF CpuAvanza, CpuEntorno, CpuAnuncia, CpuRecibe, CpuQuantum, CpuTermina,
               CpuEntradaSalida, CpuConecta, CpuSale, CpuMuere, Devuelve, colas, sems, historia
<1>18. CASE UNCHANGED vars
  BY <1>0, <1>18 DEF vars, colas, sems, historia
<1>19. QED
  BY <1>0, <1>1, <1>2, <1>3, <1>4, <1>5, <1>6, <1>7, <1>8, <1>9, <1>10, <1>11, <1>12, <1>13,
     <1>14, <1>15, <1>16, <1>17, <1>18
  DEF Next, Plp, PlpInterno, WtNar, Dispatcher, PcpInterno, HiloIO

\* The tokens of s_ready_nuevo account for every PCB of Ready and every
\* insertion list_add_in_index ignored, in every interleaving of the threads.
THEOREM FichasDeReadyCorrectas == Spec => []FichasDeReady
<1>1. Init => FichasDeReady
  BY DEF Init, FichasDeReady, DispEspera
<1>2. QED
  BY <1>1, TipoCorrecto, FichasDeReadyPaso, PTL DEF Spec

-----------------------------------------------------------------------------
(* Exit and s_exit *)

\* Every step keeps a wake-up of vaciar_exit for each PCB of Exit.
LEMMA FichasDeExitPaso == TypeOK /\ FichasDeExit /\ [Next]_vars => FichasDeExit'
<1> SUFFICES ASSUME TypeOK, FichasDeExit, [Next]_vars PROVE FichasDeExit'
  OBVIOUS
<1> USE DEF FichasDeExit
<1>t. colaExit \in Seq(Programas) /\ Len(colaExit) \in Nat /\ sExit \in Nat
  BY LenProperties DEF TypeOK, TipoColas, TipoSemaforos
<1>d. DOMAIN pcp = {"pc", "pcb", "cpu", "tam", "i"} /\ DOMAIN vaciar = {"pc", "i", "size"}
  BY DEF TypeOK, TipoPcp, TipoVaciar
<1>0. CASE UNCHANGED <<colaExit, sExit, vaciar>> /\ (pcp.pc = "libera" <=> pcp'.pc = "libera")
  BY <1>0
<1>1. ASSUME NEW p \in Programas, RechazarPrograma(p) PROVE FichasDeExit'
  <2>1. Len(colaExit') = Len(colaExit) + 1
    BY <1>1, <1>t, AppendProperties DEF RechazarPrograma
  <2>2. sExit' = sExit + 1 /\ UNCHANGED <<pcp, vaciar>>
    BY <1>1 DEF RechazarPrograma
  <2>3. QED
    BY <1>t, <2>1, <2>2
<1>2. ASSUME NEW c \in CPUs, PcpTermina(c) PROVE FichasDeExit'
  <2>1. Head(mensajes[c]).pcb \in Programas
    BY <1>2, MensajeRecibido DEF TypeOK, PcpTermina, Recibe
  <2>2. Len(colaExit') = Len(colaExit) + 1
    BY <1>2, <1>t, <2>1, AppendProperties DEF PcpTermina
  <2>3. UNCHANGED <<sExit, vaciar>>
    BY <1>2 DEF PcpTermina, sems
  <2>4. pcp.pc = "select" /\ pcp'.pc = "libera"
    BY <1>2 DEF PcpTermina, Recibe, PcpOcioso
  <2>5. QED
    BY <1>t, <2>2, <2>3, <2>4
<1>3. CASE PcpLibera
  <2>1. sExit' = sExit + 1 /\ UNCHANGED <<colaExit, vaciar>>
    BY <1>3 DEF PcpLibera, colas
  <2>2. pcp.pc = "libera" /\ pcp'.pc = "select"
    BY <1>3 DEF PcpLibera, PcpOcioso
  <2>3. QED
    BY <1>t, <2>1, <2>2
<1>4. CASE VaciarDespierta
  <2>1. sExit' = sExit - 1 /\ sExit > 0 /\ UNCHANGED <<colaExit, pcp>>
    BY <1>4 DEF VaciarDespierta, colas
  <2>2. vaciar.pc = "espera"
    BY <1>4 DEF VaciarDespierta
  <2>3. CASE colaExit # <<>>
    <3>1. vaciar'.pc = "recorre" /\ vaciar'.i = 0
      BY <1>4, <2>3 DEF VaciarDespierta
    <3>2. QED
      BY <1>t, <2>1, <2>2, <3>1
  <2>4. CASE colaExit = <<>>
    <3>1. Len(colaExit) = 0 /\ UNCHANGED vaciar
      BY <1>4, <2>4 DEF VaciarDespierta
    <3>2. QED
      BY <1>t, <2>1, <2>2, <3>1
  <2>5. QED
    BY <2>3, <2>4
<1>5. CASE VaciarQuita
  <2>1. UNCHANGED <<sExit, pcp>> /\ vaciar.pc = "recorre" /\ vaciar.i \in Nat
    BY <1>5 DEF VaciarQuita, sems, TypeOK, TipoVaciar
  <2>2. CASE vaciar.i < Len(colaExit)
    <3>1. vaciar.i + 1 \in 1..Len(colaExit)
      BY <1>t, <2>1, <2>2
    <3>2. colaExit' = RemoveAt(colaExit, vaciar.i + 1)
      BY <1>5, <1>t, <2>1, <2>2 DEF VaciarQuita
    <3>3. Len(colaExit') = Len(colaExit) - 1
      BY <1>t, <3>1, <3>2, RemoveAtTipo
    <3>4. QED
      BY <1>t, <2>1, <3>3
  <2>3. CASE vaciar.i >= Len(colaExit)
    BY <1>5, <1>t, <2>1, <2>3 DEF VaciarQuita
  <2>4. QED
    BY <1>t, <2>1, <2>2, <2>3
<1>6. ASSUME NEW p \in Programas, AceptarPrograma(p)
      PROVE  UNCHANGED <<colaExit, sExit, pcp, vaciar>>
  BY <1>6 DEF AceptarPrograma, colas, sems
<1>7. ASSUME PlpInterno PROVE UNCHANGED <<colaExit, sExit, pcp, vaciar>>
  BY <1>7 DEF PlpInterno, ProbarReadyMax, PlpAReady, PlpANew, OrdenarNew, MedirNew, MostrarNew,
              colas, sems
<1>8. ASSUME NEW w \in Programas, WtNar(w) PROVE UNCHANGED <<colaExit, sExit, pcp, vaciar>>
  BY <1>8 DEF WtNar, WorkerLugar, WorkerSaca, WorkerEncola, colas, sems
<1>9. ASSUME Dispatcher PROVE UNCHANGED <<colaExit, sExit, pcp, vaciar>>
  BY <1>9 DEF Dispatcher, DispEsperaPcb, DispEsperaCpu, DispTomaCpu, DispTomaPcb, DispEnvia,
              colas, sems
<1>10. ASSUME NEW c \in CPUs, PcpOciosa(c) \/ PcpEntradaSalida(c)
       PROVE  UNCHANGED <<colaExit, sExit, pcp, vaciar>>
  BY <1>10 DEF PcpOciosa, PcpEntradaSalida, colas, sems
<1>11. ASSUME NEW c \in CPUs, PcpMideReady(c) \/ PcpDesconexion(c)
       PROVE  /\ UNCHANGED <<colaExit, sExit, vaciar>>
              /\ pcp.pc = "select" /\ pcp'.pc \in {"inserta", "busca", "cierra"}
  BY <1>11 DEF PcpMideReady, PcpDesconexion, Recibe, PcpOcioso, colas, sems
<1>12. ASSUME PcpInserta \/ PcpBusca \/ PcpQuita \/ PcpCierra
       PROVE  /\ UNCHANGED <<colaExit, sExit, vaciar>>
              /\ pcp.pc # "libera" /\ pcp'.pc \in {"select", "busca", "quita", "cierra"}
  BY <1>12, <1>d DEF PcpInserta, PcpBusca, PcpQuita, PcpCierra, PcpOcioso, colas, sems
<1>13. ASSUME NEW d \in Dispositivos, HiloIO(d) PROVE UNCHANGED <<colaExit, sExit, pcp, vaciar>>
  BY <1>13 DEF HiloIO, IOToma, IOMideReady, IOInserta, colas, sems
<1>14. ASSUME NEW c \in CPUs, CpuAvanza(c) \/ CpuEntorno(c)
       PROVE  UNCHANGED <<colaExit, sExit, pcp, vaciar>>
  BY <1>14 DEF CpuAvanza, CpuEntorno, CpuAnuncia, CpuRecibe, CpuQuantum, CpuTermina,
               CpuEntradaSalida, CpuConecta, CpuSale, CpuMuere, Devuelve, colas, sems
<1>15. CASE UNCHANGED vars
  BY <1>0, <1>15 DEF vars, colas, sems
<1>16. QED
  BY <1>0, <1>1, <1>2, <1>3, <1>4, <1>5, <1>6, <1>7, <1>8, <1>9, <1>10, <1>11, <1>12, <1>13,
     <1>14, <1>15
  DEF Next, Plp, PcpMensaje, PcpInterno, VaciarExit

\* No PCB is forgotten in Exit: vaciar_exit always has a wake-up to come for it.
THEOREM FichasDeExitBastan == Spec => []FichasDeExit
<1>1. Init => FichasDeExit
  BY DEF Init, FichasDeExit, PcpOcioso
<1>2. QED
  BY <1>1, TipoCorrecto, FichasDeExitPaso, PTL DEF Spec

-----------------------------------------------------------------------------
(* New and its wt_nar threads *)

\* The inductive invariant behind WorkersDeNew: besides the count, the PCB the
\* PLP is admitting has no wt_nar thread yet, because a program connects once
\* and gets its thread only after it has.
InvNew ==
    /\ WorkersDeNew
    /\ \A w \in Programas : worker[w].pc # "no" => programa[w] # "afuera"
    /\ plp.pc \in {"admision", "a_ready", "a_new", "ordena"} =>
          worker[plp.pcb].pc = "no" /\ programa[plp.pcb] # "afuera"

\* Finitely many workers wait for a place of Ready, one per program at most.
LEMMA SacadoresFinito == IsFiniteSet(Sacadores) /\ Cardinality(Sacadores) \in Nat
<1>1. Sacadores \subseteq Programas
  BY DEF Sacadores
<1>2. IsFiniteSet(Sacadores)
  BY <1>1, ConstantesSupuestas, FS_Subset
<1>3. QED
  BY <1>2, FS_CardinalityType

\* Every step keeps one wt_nar thread for each PCB of New.
LEMMA InvNewPaso == TypeOK /\ InvNew /\ [Next]_vars => InvNew'
<1> SUFFICES ASSUME TypeOK, InvNew, [Next]_vars PROVE InvNew'
  OBVIOUS
<1> USE DEF InvNew, WorkersDeNew
<1>t. /\ colaNew \in Seq(Programas) /\ Len(colaNew) \in Nat
      /\ Cardinality(Sacadores) \in Nat
  BY LenProperties, SacadoresFinito DEF TypeOK, TipoColas
<1>w. /\ worker \in [Programas -> [pc : {"no", "espera", "saca", "encola", "fin"}, pcb : Pcb]]
      /\ programa \in [Programas -> {"afuera", "adentro", "finalizado"}]
      /\ DOMAIN plp = {"pc", "pcb", "tam", "i"}
  BY DEF TypeOK, TipoWorkers, TipoProgramas, TipoPlp
<1>0. CASE UNCHANGED <<colaNew, worker, plp, programa>>
  BY <1>0 DEF Sacadores
<1>1. ASSUME NEW p \in Programas, AceptarPrograma(p) PROVE InvNew'
  <2>1. UNCHANGED <<colaNew, worker>> /\ plp.pc = "select" /\ programa[p] = "afuera"
    BY <1>1 DEF AceptarPrograma, colas
  <2>2. plp'.pc = "admision" /\ plp'.pcb = p
    BY <1>1 DEF AceptarPrograma, PlpOcioso
  <2>3. programa' = [programa EXCEPT ![p] = "adentro"]
    BY <1>1 DEF AceptarPrograma
  <2>4. Sacadores' = Sacadores
    BY <2>1 DEF Sacadores
  <2>5. QED
    BY <1>w, <2>1, <2>2, <2>3, <2>4
<1>2. ASSUME NEW p \in Programas, RechazarPrograma(p) PROVE InvNew'
  <2>1. UNCHANGED <<colaNew, worker, plp>> /\ plp.pc = "select"
    BY <1>2 DEF RechazarPrograma
  <2>2. programa' = [programa EXCEPT ![p] = "finalizado"]
    BY <1>2 DEF RechazarPrograma
  <2>3. Sacadores' = Sacadores
    BY <2>1 DEF Sacadores
  <2>4. QED
    BY <1>w, <2>1, <2>2, <2>3
<1>3. CASE ProbarReadyMax
  <2>1. UNCHANGED <<colaNew, worker, programa>>
    BY <1>3 DEF ProbarReadyMax, colas
  <2>2. plp.pc = "admision" /\ plp'.pc \in {"a_ready", "a_new"} /\ plp'.pcb = plp.pcb
    BY <1>3, <1>w DEF ProbarReadyMax
  <2>3. QED
    BY <2>1, <2>2 DEF Sacadores
<1>4. CASE PlpAReady \/ MedirNew \/ MostrarNew
  <2>1. UNCHANGED <<colaNew, worker, programa>>
    BY <1>4 DEF PlpAReady, MedirNew, MostrarNew, colas
  <2>2. plp.pc \in {"a_ready", "mide", "muestra"}
    BY <1>4 DEF PlpAReady, MedirNew, MostrarNew
  <2>3. \/ plp' = plp \/ plp' = PlpMide \/ plp' = PlpOcioso
        \/ plp' = [PlpOcioso EXCEPT !.pc = "muestra", !.tam = Len(colaNew)]
        \/ plp.pc = "muestra" /\ plp' = [plp EXCEPT !.i = @ + 1]
    <3>1. CASE PlpAReady
      BY <3>1 DEF PlpAReady
    <3>2. CASE MedirNew
      BY <3>2 DEF MedirNew
    <3>3. CASE MostrarNew
      BY <3>3 DEF MostrarNew
    <3>4. QED
      BY <1>4, <3>1, <3>2, <3>3
  <2>4. plp' = plp \/ plp'.pc \in {"select", "mide", "muestra"}
    <3>1. CASE plp.pc = "muestra" /\ plp' = [plp EXCEPT !.i = @ + 1]
      BY <1>w, <3>1
    <3>2. PlpMide.pc = "mide" /\ PlpOcioso.pc = "select"
      BY DEF PlpMide, PlpOcioso
    <3>3. [PlpOcioso EXCEPT !.pc = "muestra", !.tam = Len(colaNew)].pc = "muestra"
      BY DEF PlpOcioso
    <3>4. QED
      BY <2>3, <3>1, <3>2, <3>3
  <2>5. QED
    BY <2>1, <2>2, <2>4 DEF Sacadores
<1>5. CASE PlpANew
  <2>1. Len(colaNew') = Len(colaNew) + 1
    BY <1>5, <1>t, AppendProperties DEF PlpANew, TypeOK, TipoPlp
  <2>2. UNCHANGED <<worker, programa>>
    BY <1>5 DEF PlpANew
  <2>3. plp.pc = "a_new" /\ plp'.pc = "ordena" /\ plp'.pcb = plp.pcb
    BY <1>5, <1>w DEF PlpANew
  <2>4. Sacadores' = Sacadores
    BY <2>2 DEF Sacadores
  <2>5. QED
    BY <1>t, <2>1, <2>2, <2>3, <2>4
<1>6. CASE OrdenarNew
  <2>1. plp.pc = "ordena" /\ plp.pcb \in Programas /\ plp'.pc = "mide" /\ UNCHANGED programa
    BY <1>6 DEF OrdenarNew, PlpMide, PlpOcioso, TypeOK, TipoPlp
  <2>2. Len(colaNew') = Len(colaNew)
    BY <1>6, <1>t, ListSortTipo DEF OrdenarNew
  <2>3. worker' = [worker EXCEPT ![plp.pcb].pc = "espera"]
    BY <1>6 DEF OrdenarNew
  <2>4. plp.pcb \notin Sacadores
    BY <2>1 DEF Sacadores
  <2>5. Sacadores' = Sacadores \cup {plp.pcb}
    BY <1>w, <2>1, <2>3 DEF Sacadores
  <2>6. Cardinality(Sacadores') = Cardinality(Sacadores) + 1
    BY <2>4, <2>5, SacadoresFinito, FS_AddElement
  <2>7. \A w \in Programas : worker'[w].pc # "no" => programa'[w] # "afuera"
    BY <1>w, <2>1, <2>3
  <2>8. QED
    BY <1>t, <2>1, <2>2, <2>6, <2>7
<1>7. ASSUME NEW v \in Programas, WorkerLugar(v) PROVE InvNew'
  <2>1. UNCHANGED <<colaNew, plp, programa>> /\ worker[v].pc = "espera"
    BY <1>7 DEF WorkerLugar, colas
  <2>2. worker' = [worker EXCEPT ![v].pc = "saca"]
    BY <1>7 DEF WorkerLugar
  <2>3. Sacadores' = Sacadores
    BY <1>w, <2>1, <2>2 DEF Sacadores
  <2>4. QED
    BY <1>w, <2>1, <2>2, <2>3 DEF TypeOK, TipoPlp
<1>8. ASSUME NEW v \in Programas, WorkerSaca(v) PROVE InvNew'
  <2>1. UNCHANGED <<plp, programa>> /\ worker[v].pc = "saca"
    BY <1>8 DEF WorkerSaca
  <2>2. CASE colaNew # <<>>
    <3>1. worker' = [worker EXCEPT ![v] = [pc |-> "encola", pcb |-> Head(colaNew)]]
      BY <1>8, <2>2 DEF WorkerSaca
    <3>2. Len(colaNew') = Len(colaNew) - 1
      BY <1>8, <1>t, <2>2, HeadTailProperties DEF WorkerSaca
    <3>3. v \in Sacadores /\ Sacadores' = Sacadores \ {v}
      BY <1>w, <2>1, <3>1 DEF Sacadores
    <3>4. Cardinality(Sacadores') = Cardinality(Sacadores) - 1
      BY <3>3, SacadoresFinito, FS_RemoveElement
    <3>5. QED
      BY <1>t, <1>w, <2>1, <3>1, <3>2, <3>4 DEF TypeOK, TipoPlp
  <2>3. CASE colaNew = <<>>
    BY <1>0, <1>8, <2>1, <2>3 DEF WorkerSaca
  <2>4. QED
    BY <2>2, <2>3
<1>9. ASSUME NEW v \in Programas, WorkerEncola(v) PROVE InvNew'
  <2>1. UNCHANGED <<colaNew, plp, programa>> /\ worker[v].pc = "encola"
    BY <1>9 DEF WorkerEncola
  <2>2. worker' = [worker EXCEPT ![v] = [pc |-> "fin", pcb |-> Nada]]
    BY <1>9 DEF WorkerEncola
  <2>3. Sacadores' = Sacadores
    BY <1>w, <2>1, <2>2 DEF Sacadores
  <2>4. QED
    BY <1>w, <2>1, <2>2, <2>3 DEF TypeOK, TipoPlp
<1>10. ASSUME NEW c \in CPUs, PcpTermina(c) PROVE InvNew'
  <2>1. UNCHANGED <<colaNew, plp, worker>>
    BY <1>10 DEF PcpTermina
  <2>2. \A w \in Programas : programa'[w] \in {programa[w], "finalizado"}
    BY <1>10, <1>w DEF PcpTermina
  <2>3. Sacadores' = Sacadores
    BY <2>1 DEF Sacadores
  <2>4. QED
    BY <2>1, <2>2, <2>3 DEF TypeOK, TipoPlp
<1>11. ASSUME Dispatcher PROVE UNCHANGED <<colaNew, worker, plp, programa>>
  BY <1>11 DEF Dispatcher, DispEsperaPcb, DispEsperaCpu, DispTomaCpu, DispTomaPcb, DispEnvia, colas
<1>12. ASSUME NEW c \in CPUs, PcpOciosa(c) \/ PcpMideReady(c) \/ PcpEntradaSalida(c) \/ PcpDesconexion(c)
       PROVE  UNCHANGED <<colaNew, worker, plp, programa>>
  BY <1>12 DEF PcpOciosa, PcpMideReady, PcpEntradaSalida, PcpDesconexion, colas
<1>13. ASSUME PcpInterno PROVE UNCHANGED <<colaNew, worker, plp, programa>>
  BY <1>13 DEF PcpInterno, PcpInserta, PcpLibera, PcpBusca, PcpQuita, PcpCierra, colas
<1>14. ASSUME NEW d \in Dispositivos, HiloIO(d) PROVE UNCHANGED <<colaNew, worker, plp, programa>>
  BY <1>14 DEF HiloIO, IOToma, IOMideReady, IOInserta, colas
<1>15. ASSUME VaciarExit PROVE UNCHANGED <<colaNew, worker, plp, programa>>
  BY <1>15 DEF VaciarExit, VaciarDespierta, VaciarQuita, colas
<1>16. ASSUME NEW c \in CPUs, CpuAvanza(c) \/ CpuEntorno(c)
       PROVE  UNCHANGED <<colaNew, worker, plp, programa>>
  BY <1>16 DEF CpuAvanza, CpuEntorno, CpuAnuncia, CpuRecibe, CpuQuantum, CpuTermina,
               CpuEntradaSalida, CpuConecta, CpuSale, CpuMuere, Devuelve, colas
<1>17. CASE UNCHANGED vars
  BY <1>0, <1>17 DEF vars, colas
<1>18. QED
  BY <1>0, <1>1, <1>2, <1>3, <1>4, <1>5, <1>6, <1>7, <1>8, <1>9, <1>10, <1>11, <1>12, <1>13,
     <1>14, <1>15, <1>16, <1>17
  DEF Next, Plp, PlpInterno, WtNar, PcpMensaje

\* The strengthening holds in every reachable state.
LEMMA InvNewSiempre == Spec => []InvNew
<1>1. Init => InvNew
  <2>1. SUFFICES ASSUME Init PROVE InvNew
    OBVIOUS
  <2>2. Sacadores = {}
    BY <2>1 DEF Init, Sacadores
  <2>3. Cardinality(Sacadores) = 0
    BY <2>2, FS_EmptySet
  <2>4. QED
    BY <2>1, <2>3 DEF Init, InvNew, WorkersDeNew, PlpOcioso
<1>2. QED
  BY <1>1, TipoCorrecto, InvNewPaso, PTL DEF Spec

\* There is exactly one wt_nar thread for each PCB of New, except between the
\* PLP's insertion and the start of its thread.
THEOREM WorkersDeNewCorrectos == Spec => []WorkersDeNew
<1>1. InvNew => WorkersDeNew
  BY DEF InvNew
<1>2. QED
  BY <1>1, InvNewSiempre, PTL

\* A wt_nar thread that has its place always finds a PCB to take out of New: it
\* never calls list_remove on the empty list, and the kernel never falls there.
THEOREM WtNarNuncaCae == Spec => []WtNarEncuentra
<1>1. Init => WtNarEncuentra
  BY DEF Init, WtNarEncuentra
<1>2. TypeOK /\ InvNew /\ WtNarEncuentra /\ [Next]_vars => WtNarEncuentra'
  <2>1. SUFFICES ASSUME TypeOK, InvNew, WtNarEncuentra, [Next]_vars PROVE WtNarEncuentra'
    OBVIOUS
  <2>2. ASSUME NEW w \in Programas, WorkerSaca(w) PROVE colaNew # <<>>
    <3>1. w \in Sacadores
      BY <2>2 DEF WorkerSaca, Sacadores
    <3>2. Cardinality(Sacadores) # 0
      BY <3>1, SacadoresFinito, FS_EmptySet
    <3>3. QED
      BY <2>1, <3>2, SacadoresFinito DEF InvNew, WorkersDeNew
  <2>3. ASSUME NEW w \in Programas, WtNar(w) PROVE caido' # "wt_nar"
    BY <2>1, <2>2, <2>3 DEF WtNar, WorkerLugar, WorkerSaca, WorkerEncola, WtNarEncuentra
  <2>4. ASSUME Plp \/ Dispatcher \/ PcpInterno \/ VaciarExit PROVE caido' # "wt_nar"
    BY <2>1, <2>4
    DEF Plp, PlpInterno, AceptarPrograma, RechazarPrograma, ProbarReadyMax, PlpAReady, PlpANew,
        OrdenarNew, MedirNew, MostrarNew, Dispatcher, DispEsperaPcb, DispEsperaCpu, DispTomaCpu,
        DispTomaPcb, DispEnvia, PcpInterno, PcpInserta, PcpLibera, PcpBusca, PcpQuita, PcpCierra,
        VaciarExit, VaciarDespierta, VaciarQuita, WtNarEncuentra
  <2>5. ASSUME NEW c \in CPUs, PcpMensaje(c) \/ CpuAvanza(c) \/ CpuEntorno(c)
        PROVE  caido' = caido
    BY <2>5
    DEF PcpMensaje, PcpOciosa, PcpMideReady, PcpTermina, PcpEntradaSalida, PcpDesconexion,
        CpuAvanza, CpuEntorno, CpuAnuncia, CpuRecibe, CpuQuantum, CpuTermina, CpuEntradaSalida,
        CpuConecta, CpuSale, CpuMuere, Devuelve
  <2>6. ASSUME NEW d \in Dispositivos, HiloIO(d) PROVE caido' = caido
    BY <2>6 DEF HiloIO, IOToma, IOMideReady, IOInserta
  <2>7. CASE UNCHANGED vars
    BY <2>1, <2>7 DEF vars, WtNarEncuentra
  <2>8. QED
    BY <2>1, <2>3, <2>4, <2>5, <2>6, <2>7 DEF Next, WtNarEncuentra
<1>3. QED
  BY <1>1, <1>2, TipoCorrecto, InvNewSiempre, PTL DEF Spec

-----------------------------------------------------------------------------
(* What brings the dispatcher down for lack of a PCB *)

\* The dispatcher finds Ready empty, after it has taken a token of
\* s_ready_nuevo, only if an insertion in Ready was ignored before.
THEOREM DispatcherSinPcb == Spec => []SinPcbPorDescarte
<1>1. Init => SinPcbPorDescarte
  BY DEF Init, SinPcbPorDescarte
<1>2. TypeOK /\ FichasDeReady /\ SinPcbPorDescarte /\ [Next]_vars => SinPcbPorDescarte'
  <2>1. SUFFICES ASSUME TypeOK, FichasDeReady, SinPcbPorDescarte, [Next]_vars
                 PROVE  SinPcbPorDescarte'
    OBVIOUS
  <2>t. descartes \in Nat /\ sReadyNuevo \in Nat
    BY <2>1 DEF TypeOK, TipoProgramas, TipoSemaforos
  <2>2. CASE DispTomaPcb
    <3>1. UNCHANGED descartes /\ dispatcher.pc = "toma_pcb"
      BY <2>2 DEF DispTomaPcb, historia
    <3>2. CASE colaReady = <<>>
      <4>1. Len(colaReady) = 0
        BY <3>2
      <4>2. descartes > 0
        BY <2>1, <2>t, <3>1, <4>1 DEF FichasDeReady
      <4>3. QED
        BY <3>1, <4>2 DEF SinPcbPorDescarte
    <3>3. CASE colaReady # <<>>
      BY <2>1, <2>2, <3>1, <3>3 DEF DispTomaPcb, SinPcbPorDescarte
    <3>4. QED
      BY <3>2, <3>3
  <2>3. CASE PcpInserta
    BY <2>1, <2>t, <2>3 DEF PcpInserta, InsertarEnReady, historia, SinPcbPorDescarte
  <2>4. ASSUME NEW d \in Dispositivos, HiloIO(d) PROVE SinPcbPorDescarte'
    BY <2>1, <2>t, <2>4
    DEF HiloIO, IOToma, IOMideReady, IOInserta, InsertarEnReady, historia, SinPcbPorDescarte
  <2>5. ASSUME \/ Plp \/ VaciarExit
               \/ DispEsperaPcb \/ DispEsperaCpu \/ DispTomaCpu \/ DispEnvia
               \/ PcpLibera \/ PcpBusca \/ PcpQuita \/ PcpCierra
        PROVE  UNCHANGED descartes /\ (caido' = "dispatcher_pcb" => caido = "dispatcher_pcb")
    BY <2>5
    DEF Plp, PlpInterno, AceptarPrograma, RechazarPrograma, ProbarReadyMax, PlpAReady, PlpANew,
        OrdenarNew, MedirNew, MostrarNew, DispEsperaPcb, DispEsperaCpu, DispTomaCpu, DispEnvia,
        PcpLibera, PcpBusca, PcpQuita, PcpCierra, VaciarExit, VaciarDespierta, VaciarQuita, historia
  <2>6. ASSUME NEW w \in Programas, WtNar(w)
        PROVE  UNCHANGED descartes /\ (caido' = "dispatcher_pcb" => caido = "dispatcher_pcb")
    BY <2>6 DEF WtNar, WorkerLugar, WorkerSaca, WorkerEncola, historia
  <2>7. ASSUME NEW c \in CPUs, PcpMensaje(c) \/ CpuAvanza(c) \/ CpuEntorno(c)
        PROVE  UNCHANGED <<descartes, caido>>
    BY <2>7
    DEF PcpMensaje, PcpOciosa, PcpMideReady, PcpTermina, PcpEntradaSalida, PcpDesconexion,
        CpuAvanza, CpuEntorno, CpuAnuncia, CpuRecibe, CpuQuantum, CpuTermina, CpuEntradaSalida,
        CpuConecta, CpuSale, CpuMuere, Devuelve, historia
  <2>8. CASE UNCHANGED vars
    BY <2>1, <2>8 DEF vars, historia, SinPcbPorDescarte
  <2>9. QED
    BY <2>1, <2>2, <2>3, <2>4, <2>5, <2>6, <2>7, <2>8
    DEF Next, Dispatcher, PcpInterno, SinPcbPorDescarte
<1>3. QED
  BY <1>1, <1>2, TipoCorrecto, FichasDeReadyCorrectas, PTL DEF Spec
=============================================================================
