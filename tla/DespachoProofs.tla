--------------------------- MODULE DespachoProofs ---------------------------
(***************************************************************************)
(* The idle CPUs, the semaphore that counts them and the CPUs that leave:  *)
(* how far s_hay_cpus can be from the list of idle CPUs, why the kernel    *)
(* can only fall for lack of a CPU after one has left, and why no PCB is   *)
(* sent to a CPU process that is not waiting for one unless its socket has *)
(* the number of one that was closed while the kernel still held it.       *)
(*                                                                         *)
(* With them the scheduler implements CicloDeVida: what the life cycle     *)
(* sees of a program is a function of the place its PCB is in              *)
(* (LugaresProofs), so that every step of a thread is a step of the cycle  *)
(* or none; a program is admitted only while Cupos leaves a place, and the *)
(* PCBs lost with a connection are all in the same state.                  *)
(***************************************************************************)
EXTENDS LugaresProofs

-----------------------------------------------------------------------------
(* The CPUs that leave *)

\* The CPU processes that left or died, those of them whose connection the PCP
\* has closed, and those whose last message it has not received.
Salidos == {c \in CPUs : cpu[c].pc = "salio"}
Hechos == {c \in Salidos : socket[c] = Nada}
ConFin(c) == \E i \in DOMAIN mensajes[c] : mensajes[c][i].tipo = "fin"

\* The PCP is closing the connection of a CPU, between quitar_cpu and FD_CLR.
Quitando == pcp.pc \in {"busca", "quita", "cierra"}

\* A CPU that leaves is counted once; only one that left says so, and only the
\* connection of such a one is closed.  Until it is, the CPU has a socket, and
\* no two CPUs have the same.
InvBajas ==
    /\ Cardinality(Salidos) = bajas
    /\ \A c \in CPUs : ConFin(c) => c \in Salidos
    /\ Quitando => \E c \in Salidos : socket[c] = pcp.cpu
    /\ \A c \in CPUs : cpu[c].pc \notin {"apagada", "salio"} => socket[c] # Nada
    /\ \A b, c \in CPUs : socket[b] = socket[c] /\ socket[b] # Nada => b = c

\* There are finitely many of both, and no more closed than gone.
LEMMA SalidosFinitos ==
    ASSUME TypeOK, InvBajas
    PROVE  /\ IsFiniteSet(Salidos) /\ Cardinality(Salidos) \in Nat
           /\ IsFiniteSet(Hechos) /\ Cardinality(Hechos) \in Nat
           /\ Cardinality(Hechos) + (IF Quitando THEN 1 ELSE 0) <= bajas
<1>1. Salidos \subseteq CPUs /\ Hechos \subseteq Salidos
  BY DEF Salidos, Hechos
<1>2. IsFiniteSet(Salidos) /\ IsFiniteSet(Hechos)
  BY <1>1, ConstantesSupuestas, FS_Subset
<1>3. /\ Cardinality(Salidos) \in Nat /\ Cardinality(Hechos) \in Nat
      /\ Cardinality(Hechos) <= Cardinality(Salidos)
  BY <1>1, <1>2, FS_CardinalityType, FS_Subset
<1>4. CASE Quitando
  <2>1. PICK c \in Salidos : socket[c] = pcp.cpu
    BY <1>4 DEF InvBajas
  <2>2. c \notin Hechos
    BY <1>4, <2>1, ConstantesSupuestas DEF Hechos, Quitando, TypeOK, TipoPcp
  <2>3. Cardinality(Hechos \cup {c}) = Cardinality(Hechos) + 1
    BY <1>2, <2>2, FS_AddElement
  <2>4. Hechos \cup {c} \subseteq Salidos
    BY <1>1, <2>1
  <2>5. Cardinality(Hechos \cup {c}) <= Cardinality(Salidos)
    BY <1>2, <2>4, FS_Subset
  <2>6. QED
    BY <1>2, <1>3, <1>4, <2>3, <2>5 DEF InvBajas
<1>5. QED
  BY <1>2, <1>3, <1>4 DEF InvBajas

\* The steps of the kernel that close no connection.
LEMMA BajasQuietas ==
    ASSUME InvBajas, UNCHANGED <<cpu, bajas, socket>>,
           \A c \in CPUs : ConFin(c)' => ConFin(c),
           Quitando' => \E c \in Salidos : socket[c] = pcp'.cpu
    PROVE  InvBajas' /\ Hechos' = Hechos
<1>1. Salidos' = Salidos
  BY DEF Salidos
<1>2. InvBajas'
  BY <1>1 DEF InvBajas
<1>3. QED
  BY <1>1, <1>2 DEF Hechos

\* The PCP receives a message: what is left of that CPU has no other last one.
LEMMA BajasRecibe ==
    ASSUME TypeOK, NEW c \in CPUs, NEW t, Recibe(c, t)
    PROVE  /\ \A b \in CPUs : ConFin(b)' => ConFin(b)
           /\ Head(mensajes[c]).tipo = "fin" => ConFin(c)
<1> DEFINE s == mensajes[c]
           u == Tail(s)
<1>1. s \in Seq(Mensaje) /\ s # <<>>
  BY DEF Recibe, TypeOK, TipoMensajes
<1>2. mensajes'[c] = u /\ \A b \in CPUs : b # c => mensajes'[b] = mensajes[b]
  BY DEF Recibe, TypeOK, TipoMensajes
<1>3. /\ Len(s) \in Nat /\ Len(s) > 0 /\ DOMAIN s = 1..Len(s) /\ Head(s) = s[1]
      /\ DOMAIN u = 1..Len(s) - 1
      /\ \A i \in 1..Len(s) - 1 : u[i] = s[i + 1] /\ i + 1 \in 1..Len(s)
  BY <1>1, LenProperties, HeadTailProperties
<1> HIDE DEF s, u
<1>4. ConFin(c) <=> \E i \in 1..Len(s) : s[i].tipo = "fin"
  BY <1>3 DEF ConFin, s
<1>5. ConFin(c)' <=> \E i \in 1..Len(s) - 1 : u[i].tipo = "fin"
  BY <1>2, <1>3 DEF ConFin
<1>6. ConFin(c)' => ConFin(c)
  BY <1>3, <1>4, <1>5
<1>7. Head(s).tipo = "fin" => ConFin(c)
  BY <1>3, <1>4
<1>8. \A b \in CPUs : b # c => (ConFin(b)' <=> ConFin(b))
  BY <1>2 DEF ConFin
<1>9. QED
  BY <1>6, <1>7, <1>8 DEF s

\* A CPU that is there sends messages that are not its last, or leaves.
LEMMA BajasEnvia ==
    ASSUME TypeOK, InvBajas, NEW c \in CPUs, cpu[c].pc \notin {"apagada", "salio"},
           pcp' = pcp, socket' = socket,
           \A b \in CPUs : b # c => cpu'[b] = cpu[b] /\ mensajes'[b] = mensajes[b],
           \/ ~ConFin(c)' /\ cpu'[c].pc \notin {"apagada", "salio"} /\ bajas' = bajas
           \/ cpu'[c].pc = "salio" /\ bajas' = bajas + 1
    PROVE  InvBajas' /\ Hechos' = Hechos
<1>1. c \notin Salidos /\ c \notin Hechos /\ socket[c] # Nada
  BY DEF Salidos, Hechos, InvBajas
<1>2. \A b \in CPUs : b # c => (ConFin(b)' <=> ConFin(b)) /\ (b \in Salidos' <=> b \in Salidos)
  BY DEF ConFin, Salidos
<1>3. Salidos \subseteq CPUs /\ Salidos' \subseteq CPUs
  BY DEF Salidos
<1>4. Hechos' = Hechos
  BY <1>1, <1>2, <1>3 DEF Hechos
<1>5. \A b \in CPUs : cpu'[b].pc \notin {"apagada", "salio"} => socket'[b] # Nada
  BY <1>1 DEF InvBajas
<1>6. CASE ~ConFin(c)' /\ cpu'[c].pc \notin {"apagada", "salio"} /\ bajas' = bajas
  <2>1. c \notin Salidos'
    BY <1>6 DEF Salidos
  <2>2. Salidos' = Salidos
    BY <1>1, <1>2, <1>3, <2>1
  <2>3. Quitando' => \E b \in Salidos' : socket'[b] = pcp'.cpu
    BY <2>2 DEF InvBajas, Quitando
  <2>4. \A b \in CPUs : ConFin(b)' => b \in Salidos'
    BY <1>2, <1>6, <2>2 DEF InvBajas
  <2>5. QED
    BY <1>4, <1>5, <1>6, <2>2, <2>3, <2>4 DEF InvBajas
<1>7. CASE cpu'[c].pc = "salio" /\ bajas' = bajas + 1
  <2>1. c \in Salidos'
    BY <1>7 DEF Salidos
  <2>2. Salidos' = Salidos \cup {c}
    BY <1>2, <1>3, <2>1
  <2>3. Cardinality(Salidos') = bajas + 1
    BY <1>1, <2>2, SalidosFinitos, FS_AddElement DEF InvBajas
  <2>4. Quitando' => \E b \in Salidos' : socket'[b] = pcp'.cpu
    BY <2>2 DEF InvBajas, Quitando
  <2>5. \A b \in CPUs : ConFin(b)' => b \in Salidos'
    BY <1>2, <2>2 DEF InvBajas
  <2>6. QED
    BY <1>4, <1>5, <1>7, <2>3, <2>4, <2>5 DEF InvBajas
<1>8. QED
  BY <1>6, <1>7

\* A CPU connects with a socket that no other has.
LEMMA BajasConecta ==
    ASSUME TypeOK, InvBajas, NEW c \in CPUs, CpuConecta(c)
    PROVE  InvBajas' /\ Hechos' = Hechos
<1>1. PICK s \in Sockets : (\A d \in CPUs : socket[d] # s) /\ socket' = [socket EXCEPT ![c] = s]
  BY DEF CpuConecta
<1>2. /\ cpu[c].pc = "apagada" /\ cpu'[c].pc = "libre" /\ pcp' = pcp /\ mensajes' = mensajes
      /\ bajas' = bajas /\ \A b \in CPUs : b # c => cpu'[b] = cpu[b]
  BY DEF CpuConecta, CpuLibre, TypeOK, TipoCpu
<1>3. socket'[c] = s /\ s # Nada /\ \A b \in CPUs : b # c => socket'[b] = socket[b] /\ socket[b] # s
  BY <1>1, ConstantesSupuestas DEF TypeOK, TipoOciosas
<1>4. Salidos' = Salidos /\ c \notin Salidos
  BY <1>2 DEF Salidos
<1>5. \A b \in CPUs : ConFin(b)' <=> ConFin(b)
  BY <1>2 DEF ConFin
<1>6. \A b \in Salidos : b \in CPUs /\ socket'[b] = socket[b]
  BY <1>3, <1>4 DEF Salidos
<1>7. Quitando' => \E b \in Salidos' : socket'[b] = pcp'.cpu
  BY <1>2, <1>4, <1>6 DEF InvBajas, Quitando
<1>8. InvBajas'
  BY <1>2, <1>3, <1>4, <1>5, <1>7 DEF InvBajas
<1>9. QED
  BY <1>4, <1>6, <1>8 DEF Hechos

\* A message that is not the last leaves a CPU that is there without one.
LEMMA SinFin ==
    ASSUME TypeOK, InvBajas, NEW c \in CPUs, cpu[c].pc # "salio"
    PROVE  /\ ~ConFin(c)
           /\ \A m \in Mensaje :
                 m.tipo # "fin" /\ mensajes'[c] = Append(mensajes[c], m) => ~ConFin(c)'
<1> DEFINE s == mensajes[c]
<1>1. s \in Seq(Mensaje)
  BY DEF TypeOK, TipoMensajes
<1>2. ~ConFin(c)
  BY DEF InvBajas, Salidos
<1>3. \A i \in DOMAIN s : s[i].tipo # "fin"
  BY <1>2 DEF ConFin
<1> HIDE DEF s
<1>4. ASSUME NEW m \in Mensaje, m.tipo # "fin", mensajes'[c] = Append(s, m) PROVE ~ConFin(c)'
  <2> DEFINE u == Append(s, m)
  <2>1. /\ u \in Seq(Mensaje) /\ Len(u) = Len(s) + 1 /\ Len(s) \in Nat /\ DOMAIN s = 1..Len(s)
        /\ \A i \in 1..Len(s) : u[i] = s[i]
        /\ u[Len(s) + 1] = m
    BY <1>1, LenProperties, AppendProperties
  <2>2. DOMAIN u = 1..Len(s) + 1
    BY <2>1, LenProperties
  <2> HIDE DEF u
  <2>3. \A i \in DOMAIN u : u[i].tipo # "fin"
    BY <1>3, <1>4, <2>1, <2>2
  <2>4. mensajes'[c] = u
    BY <1>4 DEF u
  <2>5. QED
    BY <2>3, <2>4 DEF ConFin
<1>5. QED
  BY <1>2, <1>4 DEF s

\* Every step keeps InvBajas, and only closing a connection adds to the CPUs
\* the PCP is done with.
LEMMA BajasPaso ==
    ASSUME TypeOK, InvBajas, [Next]_vars
    PROVE  /\ InvBajas'
           /\ Hechos' = Hechos \/ PcpCierra
           /\ PcpCierra => \E c : c \notin Hechos /\ Hechos' = Hechos \cup {c}
<1> DEFINE Meta == InvBajas' /\ Hechos' = Hechos
<1>1. CASE PcpCierra
  <2>1. UNCHANGED <<cpu, bajas, mensajes>> /\ pcp.pc = "cierra" /\ ~Quitando'
    BY <1>1 DEF PcpCierra, Quitando, PcpOcioso, cpuLado
  <2>2. PICK c \in CPUs : socket[c] = pcp.cpu /\ socket' = [socket EXCEPT ![c] = Nada]
    BY <1>1 DEF PcpCierra
  <2>3. pcp.cpu # Nada /\ Quitando
    BY <2>1, ConstantesSupuestas DEF Quitando, TypeOK, TipoPcp
  <2>4. c \in Salidos
    BY <2>2, <2>3 DEF InvBajas, Salidos
  <2>5. socket'[c] = Nada /\ \A b \in CPUs : b # c => socket'[b] = socket[b]
    BY <2>2 DEF TypeOK, TipoOciosas
  <2>6. Salidos' = Salidos /\ \A b \in CPUs : ConFin(b)' <=> ConFin(b)
    BY <2>1 DEF Salidos, ConFin
  <2>7. \A b \in CPUs : cpu[b].pc \notin {"apagada", "salio"} => socket'[b] # Nada
    BY <2>4, <2>5 DEF InvBajas, Salidos
  <2>8. \A a, b \in CPUs : socket'[a] = socket'[b] /\ socket'[a] # Nada => a = b
    BY <2>5 DEF InvBajas
  <2>9. InvBajas'
    BY <2>1, <2>6, <2>7, <2>8 DEF InvBajas
  <2>10. c \notin Hechos
    BY <2>2, <2>3 DEF Hechos
  <2>11. Hechos' = Hechos \cup {c}
    BY <2>4, <2>5, <2>6 DEF Hechos, Salidos
  <2>12. QED
    BY <1>1, <2>9, <2>10, <2>11
<1>q. ASSUME UNCHANGED <<cpu, bajas, mensajes, socket>>, pcp' = pcp PROVE Meta
  <2>1. \A c \in CPUs : ConFin(c)' <=> ConFin(c)
    BY <1>q DEF ConFin
  <2>2. Quitando' => \E c \in Salidos : socket[c] = pcp'.cpu
    BY <1>q DEF InvBajas, Quitando
  <2>3. QED
    BY <1>q, <2>1, <2>2, BajasQuietas
<1>2. ASSUME PcpInserta \/ PcpLibera \/ PcpBusca \/ PcpQuita PROVE Meta
  <2>1. UNCHANGED <<cpu, bajas, mensajes, socket>>
    BY <1>2 DEF PcpInserta, PcpLibera, PcpBusca, PcpQuita, cpuLado
  <2>2. \A c \in CPUs : ConFin(c)' <=> ConFin(c)
    BY <2>1 DEF ConFin
  <2>3. CASE PcpInserta \/ PcpLibera
    <3>1. ~Quitando'
      BY <2>3 DEF PcpInserta, PcpLibera, Quitando, PcpOcioso
    <3>2. QED
      BY <2>1, <2>2, <3>1, BajasQuietas
  <2>4. CASE PcpBusca \/ PcpQuita
    <3>1. pcp' \in {pcp, [pcp EXCEPT !.pc = "quita"], [pcp EXCEPT !.pc = "cierra"],
                    [pcp EXCEPT !.i = @ + 1]}
      BY <2>4 DEF PcpBusca, PcpQuita
    <3>2. pcp.pc \in {"busca", "quita"}
      BY <2>4 DEF PcpBusca, PcpQuita
    <3>3. Quitando /\ pcp'.cpu = pcp.cpu
      BY <3>1, <3>2 DEF Quitando, TypeOK, TipoPcp
    <3>4. \E c \in Salidos : socket[c] = pcp'.cpu
      BY <3>3 DEF InvBajas
    <3>5. QED
      BY <2>1, <2>2, <3>4, BajasQuietas
  <2>5. QED
    BY <1>2, <2>3, <2>4
<1>3. ASSUME NEW c \in CPUs, PcpMensaje(c) PROVE Meta
  <2>1. UNCHANGED <<cpu, bajas, socket>>
    BY <1>3 DEF PcpMensaje, PcpOciosa, PcpMideReady, PcpTermina, PcpEntradaSalida, PcpDesconexion,
                cpuLado
  <2>2. CASE PcpDesconexion(c)
    <3>1. Recibe(c, {"fin"}) /\ Head(mensajes[c]).tipo = "fin" /\ pcp'.cpu = socket[c]
      BY <2>2 DEF PcpDesconexion, Recibe, PcpOcioso
    <3>2. c \in Salidos /\ \A b \in CPUs : ConFin(b)' => ConFin(b)
      BY <3>1, BajasRecibe DEF InvBajas
    <3>3. QED
      BY <2>1, <3>1, <3>2, BajasQuietas
  <2>3. CASE PcpOciosa(c) \/ PcpMideReady(c) \/ PcpTermina(c) \/ PcpEntradaSalida(c)
    <3>1. PICK t \in {{"O"}, {"Q", "X"}, {"F", "E"}, {"S"}} : Recibe(c, t)
      BY <2>3 DEF PcpOciosa, PcpMideReady, PcpTermina, PcpEntradaSalida
    <3>2. pcp.pc = "select" /\ \A b \in CPUs : ConFin(b)' => ConFin(b)
      BY <3>1, BajasRecibe DEF Recibe
    <3>3. pcp' = pcp \/ pcp'.pc \in {"inserta", "libera"}
      BY <2>3 DEF PcpOciosa, PcpMideReady, PcpTermina, PcpEntradaSalida, PcpOcioso
    <3>4. ~Quitando'
      BY <3>2, <3>3 DEF Quitando
    <3>5. QED
      BY <2>1, <3>2, <3>4, BajasQuietas
  <2>4. QED
    BY <1>3, <2>2, <2>3 DEF PcpMensaje
<1>4. ASSUME NEW c \in CPUs, CpuConecta(c) PROVE Meta
  BY <1>4, BajasConecta
<1>5. ASSUME NEW c \in CPUs, NEW m \in Mensaje, m.tipo # "fin",
             cpu[c].pc \notin {"apagada", "salio"}, cpu'[c].pc \notin {"apagada", "salio"},
             UNCHANGED <<pcp, socket, bajas>>, \A b \in CPUs : b # c => cpu'[b] = cpu[b],
             mensajes' = mensajes \/ mensajes' = [mensajes EXCEPT ![c] = Append(@, m)]
      PROVE  Meta
  <2>1. /\ mensajes'[c] = mensajes[c] \/ mensajes'[c] = Append(mensajes[c], m)
        /\ \A b \in CPUs : b # c => mensajes'[b] = mensajes[b]
    BY <1>5 DEF TypeOK, TipoMensajes
  <2>2. ~ConFin(c)'
    <3>1. mensajes'[c] = mensajes[c] => (ConFin(c)' <=> ConFin(c))
      BY DEF ConFin
    <3>2. QED
      BY <1>5, <2>1, <3>1, SinFin
  <2>3. QED
    BY <1>5, <2>1, <2>2, BajasEnvia
<1>6. ASSUME NEW c \in CPUs, CpuRecibe(c) \/ CpuAnuncia(c) PROVE Meta
  <2> DEFINE m == Msj("O", Nada, Nada)
  <2>1. m \in Mensaje /\ m.tipo # "fin"
    BY DEF Msj, Mensaje
  <2>2. mensajes' = mensajes \/ mensajes' = [mensajes EXCEPT ![c] = Append(@, m)]
    BY <1>6 DEF CpuRecibe, CpuAnuncia
  <2> HIDE DEF m
  <2>3. /\ cpu[c].pc \notin {"apagada", "salio"} /\ cpu'[c].pc \notin {"apagada", "salio"}
        /\ UNCHANGED <<pcp, socket, bajas>> /\ \A b \in CPUs : b # c => cpu'[b] = cpu[b]
    BY <1>6 DEF CpuRecibe, CpuAnuncia, TypeOK, TipoCpu
  <2>4. QED
    BY <1>5, <2>1, <2>2, <2>3
<1>7. ASSUME NEW c \in CPUs, NEW t \in {"S", "Q", "F", "E"}, NEW e \in NombresES \cup {Nada},
             Devuelve(c, t, e)
      PROVE  Meta
  <2> DEFINE m == Msj(t, cpu[c].pcb, e)
  <2>1. m \in Mensaje /\ m.tipo # "fin"
    BY <1>7 DEF Devuelve, Msj, Mensaje, TypeOK, TipoCpu
  <2>2. mensajes' = [mensajes EXCEPT ![c] = Append(@, m)]
    BY <1>7 DEF Devuelve
  <2> HIDE DEF m
  <2>3. /\ cpu[c].pc \notin {"apagada", "salio"} /\ cpu'[c].pc \notin {"apagada", "salio"}
        /\ UNCHANGED <<pcp, socket, bajas>> /\ \A b \in CPUs : b # c => cpu'[b] = cpu[b]
    BY <1>7 DEF Devuelve, CpuLibre, TypeOK, TipoCpu
  <2>4. QED
    BY <1>5, <2>1, <2>2, <2>3
<1>8. ASSUME NEW c \in CPUs, CpuSale(c) \/ CpuMuere(c) PROVE Meta
  <2>1. /\ cpu[c].pc \notin {"apagada", "salio"} /\ cpu'[c].pc = "salio"
        /\ pcp' = pcp /\ socket' = socket /\ bajas' = bajas + 1
        /\ \A b \in CPUs : b # c => cpu'[b] = cpu[b] /\ mensajes'[b] = mensajes[b]
    BY <1>8 DEF CpuSale, CpuMuere, TypeOK, TipoCpu, TipoMensajes
  <2>2. QED
    BY <2>1, BajasEnvia
<1>9. ASSUME Plp \/ (\E w \in Programas : WtNar(w)) PROVE Meta
  BY <1>9, <1>q
  DEF Plp, AceptarPrograma, RechazarPrograma, PlpInterno, ProbarReadyMax, PlpAReady, PlpANew,
      OrdenarNew, MedirNew, MostrarNew, WtNar, WorkerLugar, WorkerSaca, WorkerEncola, cpuLado
<1>10. ASSUME Dispatcher \/ (\E d \in Dispositivos : HiloIO(d)) \/ VaciarExit PROVE Meta
  BY <1>10, <1>q
  DEF Dispatcher, DispEsperaPcb, DispEsperaCpu, DispTomaCpu, DispTomaPcb, DispEnvia, HiloIO, IOToma,
      IOMideReady, IOInserta, VaciarExit, VaciarDespierta, VaciarQuita, cpuLado
<1>11. ASSUME UNCHANGED vars PROVE Meta
  <2>1. UNCHANGED <<cpu, bajas, mensajes, socket>> /\ pcp' = pcp
    BY <1>11 DEF vars, cpuLado
  <2>2. QED
    BY <1>q, <2>1
<1>12. ASSUME NEW c \in CPUs, CpuAvanza(c) \/ CpuEntorno(c) PROVE Meta
  <2>1. CASE CpuQuantum(c) \/ CpuTermina(c) \/ CpuEntradaSalida(c)
    <3>1. PICK t \in {"S", "Q", "F", "E"}, e \in NombresES \cup {Nada} : Devuelve(c, t, e)
      BY <2>1 DEF CpuQuantum, CpuTermina, CpuEntradaSalida
    <3>2. QED
      BY <1>7, <3>1
  <2>2. QED
    BY <1>4, <1>6, <1>8, <1>12, <2>1 DEF CpuAvanza, CpuEntorno
<1>13. Meta \/ PcpCierra
  BY <1>2, <1>3, <1>9, <1>10, <1>11, <1>12 DEF Next, PcpInterno
<1>14. QED
  BY <1>1, <1>13

-----------------------------------------------------------------------------
(* s_hay_cpus and the list of idle CPUs *)

\* How far the tokens are from the CPUs they count.
Diferencia == sHayCpus + (IF dispatcher.pc = "toma_cpu" THEN 1 ELSE 0) - Len(cpusOciosas)

\* Each CPU the PCP is done with may have put them one apart, in either
\* direction; between list_remove and sem_trywait one more CPU has left the list.
InvFichas ==
    /\ Diferencia >= -Cardinality(Hechos)
    /\ Diferencia <= Cardinality(Hechos) + (IF pcp.pc = "cierra" THEN 1 ELSE 0)

\* Both counts are numbers.
LEMMA DiferenciaTipo ==
    ASSUME TypeOK
    PROVE  /\ sHayCpus \in Nat /\ Len(cpusOciosas) \in Nat /\ cpusOciosas \in Seq(Sockets)
           /\ Diferencia \in Int
<1>1. sHayCpus \in Nat /\ Len(cpusOciosas) \in Nat /\ cpusOciosas \in Seq(Sockets)
  BY LenProperties DEF TypeOK, TipoSemaforos, TipoOciosas
<1>2. QED
  BY <1>1 DEF Diferencia

\* Only quitar_cpu and what follows it change the difference.
LEMMA DiferenciaPaso ==
    ASSUME TypeOK, [Next]_vars, ~PcpCierra
    PROVE  \/ Diferencia' = Diferencia /\ (pcp.pc = "cierra" => pcp'.pc = "cierra")
           \/ Diferencia' = Diferencia + 1 /\ pcp.pc # "cierra" /\ pcp'.pc = "cierra"
<1> DEFINE Igual == Diferencia' = Diferencia /\ (pcp.pc = "cierra" => pcp'.pc = "cierra")
<1>t. sHayCpus \in Nat /\ Len(cpusOciosas) \in Nat /\ cpusOciosas \in Seq(Sockets)
  BY DiferenciaTipo
<1>q. ASSUME UNCHANGED <<sHayCpus, cpusOciosas, dispatcher, pcp>> PROVE Igual
  BY <1>q DEF Diferencia
<1>r. ASSUME UNCHANGED <<sHayCpus, cpusOciosas, dispatcher>>, pcp.pc # "cierra" PROVE Igual
  BY <1>r DEF Diferencia
<1>1. CASE DispEsperaCpu
  <2>1. /\ dispatcher.pc = "pide_cpu" /\ dispatcher'.pc = "toma_cpu" /\ sHayCpus' = sHayCpus - 1
        /\ cpusOciosas' = cpusOciosas /\ pcp' = pcp
    BY <1>1 DEF DispEsperaCpu, TypeOK, TipoDispatcher
  <2>2. QED
    BY <1>t, <2>1 DEF Diferencia
<1>2. CASE DispTomaCpu
  <2>1. CASE cpusOciosas # <<>>
    <3>1. /\ dispatcher.pc = "toma_cpu" /\ dispatcher'.pc = "toma_pcb" /\ sHayCpus' = sHayCpus
          /\ cpusOciosas' = Tail(cpusOciosas) /\ pcp' = pcp
      BY <1>2, <2>1 DEF DispTomaCpu, TypeOK, TipoDispatcher, sems
    <3>2. Len(cpusOciosas') = Len(cpusOciosas) - 1
      BY <1>t, <2>1, <3>1, HeadTailProperties
    <3>3. dispatcher.pc = "toma_cpu" /\ dispatcher'.pc = "toma_pcb" /\ sHayCpus' = sHayCpus /\ pcp' = pcp
      BY <3>1
    <3>4. Diferencia' = Diferencia
      BY <1>t, <3>2, <3>3 DEF Diferencia
    <3>5. QED
      BY <3>3, <3>4
  <2>2. CASE cpusOciosas = <<>>
    BY <1>2, <1>q, <2>2 DEF DispTomaCpu, sems
  <2>3. QED
    BY <2>1, <2>2
<1>3. ASSUME DispEsperaPcb \/ DispTomaPcb \/ DispEnvia PROVE Igual
  <2>1. UNCHANGED <<sHayCpus, cpusOciosas, pcp>>
    BY <1>3 DEF DispEsperaPcb, DispTomaPcb, DispEnvia, sems
  <2>2. dispatcher.pc # "toma_cpu" /\ dispatcher'.pc # "toma_cpu"
    <3>1. CASE DispEsperaPcb
      BY <3>1 DEF DispEsperaPcb, TypeOK, TipoDispatcher
    <3>2. CASE DispTomaPcb
      BY <3>2 DEF DispTomaPcb, TypeOK, TipoDispatcher
    <3>3. CASE DispEnvia
      BY <3>3 DEF DispEnvia, DispEspera
    <3>4. QED
      BY <1>3, <3>1, <3>2, <3>3
  <2>3. QED
    BY <1>t, <2>1, <2>2 DEF Diferencia
<1>4. ASSUME NEW c \in CPUs, PcpOciosa(c) PROVE Igual
  <2>1. /\ sHayCpus' = sHayCpus + 1 /\ cpusOciosas' = Append(cpusOciosas, socket[c])
        /\ dispatcher' = dispatcher /\ pcp' = pcp
    BY <1>4 DEF PcpOciosa
  <2>2. Len(cpusOciosas') = Len(cpusOciosas) + 1
    <3>1. socket[c] \in Sockets
      BY <1>4 DEF PcpOciosa, Recibe, TypeOK, TipoOciosas, Cpu
    <3>2. QED
      BY <1>t, <2>1, <3>1, AppendProperties
  <2>3. QED
    BY <1>t, <2>1, <2>2 DEF Diferencia
<1>5. ASSUME NEW c \in CPUs, PcpMideReady(c) \/ PcpTermina(c) \/ PcpEntradaSalida(c) \/ PcpDesconexion(c)
      PROVE  Igual
  BY <1>5, <1>r DEF PcpMideReady, PcpTermina, PcpEntradaSalida, PcpDesconexion, Recibe, sems
<1>6. ASSUME PcpInserta \/ PcpLibera \/ PcpBusca PROVE Igual
  BY <1>6, <1>r DEF PcpInserta, PcpLibera, PcpBusca, sems
<1>7. CASE PcpQuita
  <2>1. UNCHANGED <<sHayCpus, dispatcher>> /\ pcp.pc = "quita"
    BY <1>7 DEF PcpQuita, sems
  <2>2. CASE pcp.i = 0 /\ cpusOciosas = <<>>
    BY <1>7, <1>r, <2>1, <2>2 DEF PcpQuita
  <2>3. CASE (pcp.i > 0 \/ cpusOciosas # <<>>) /\ pcp.i < Len(cpusOciosas)
    <3>1. cpusOciosas' = RemoveAt(cpusOciosas, pcp.i + 1) /\ pcp' = [pcp EXCEPT !.pc = "cierra"]
      BY <1>7, <2>3 DEF PcpQuita
    <3>2. pcp.i + 1 \in 1..Len(cpusOciosas) /\ pcp'.pc = "cierra"
      BY <1>t, <2>3, <3>1 DEF TypeOK, TipoPcp
    <3>3. Len(cpusOciosas') = Len(cpusOciosas) - 1
      BY <1>t, <3>1, <3>2, RemoveAtTipo
    <3>4. QED
      BY <1>t, <2>1, <3>2, <3>3 DEF Diferencia
  <2>4. CASE (pcp.i > 0 \/ cpusOciosas # <<>>) /\ ~(pcp.i < Len(cpusOciosas))
    BY <1>7, <1>r, <2>1, <2>4 DEF PcpQuita
  <2>5. pcp.i = 0 \/ pcp.i > 0
    BY DEF TypeOK, TipoPcp
  <2>6. QED
    BY <2>2, <2>3, <2>4, <2>5
<1>8. ASSUME Plp \/ (\E w \in Programas : WtNar(w)) PROVE Igual
  BY <1>8, <1>q
  DEF Plp, AceptarPrograma, RechazarPrograma, PlpInterno, ProbarReadyMax, PlpAReady, PlpANew,
      OrdenarNew, MedirNew, MostrarNew, WtNar, WorkerLugar, WorkerSaca, WorkerEncola, sems
<1>9. ASSUME (\E d \in Dispositivos : HiloIO(d)) \/ VaciarExit PROVE Igual
  BY <1>9, <1>q
  DEF HiloIO, IOToma, IOMideReady, IOInserta, VaciarExit, VaciarDespierta, VaciarQuita, sems
<1>10. ASSUME NEW c \in CPUs, CpuAvanza(c) \/ CpuEntorno(c) PROVE Igual
  BY <1>10, <1>q
  DEF CpuAvanza, CpuEntorno, CpuAnuncia, CpuRecibe, CpuQuantum, CpuTermina, CpuEntradaSalida,
      CpuConecta, CpuSale, CpuMuere, Devuelve, sems
<1>11. CASE UNCHANGED vars
  BY <1>11, <1>q DEF vars, sems
<1>12. QED
  BY <1>1, <1>2, <1>3, <1>4, <1>5, <1>6, <1>7, <1>8, <1>9, <1>10, <1>11
  DEF Next, Dispatcher, PcpMensaje, PcpInterno

\* Every step keeps the difference within the number of CPUs the PCP is done
\* with: what sem_trywait gives back or takes too much, another departure pays.
LEMMA InvFichasPaso == TypeOK /\ InvBajas /\ InvFichas /\ [Next]_vars => InvFichas'
<1> SUFFICES ASSUME TypeOK, InvBajas, InvFichas, [Next]_vars PROVE InvFichas'
  OBVIOUS
<1>t. Diferencia \in Int /\ Cardinality(Hechos) \in Nat /\ sHayCpus \in Nat
  BY DiferenciaTipo, SalidosFinitos
<1>1. CASE PcpCierra
  <2>1. /\ pcp.pc = "cierra" /\ pcp'.pc = "select"
        /\ sHayCpus' = (IF sHayCpus > 0 THEN sHayCpus - 1 ELSE 0)
        /\ UNCHANGED <<cpusOciosas, dispatcher>>
    BY <1>1 DEF PcpCierra, PcpOcioso
  <2>2. Diferencia' = Diferencia \/ Diferencia' = Diferencia - 1
    BY <1>t, <2>1, DiferenciaTipo DEF Diferencia
  <2>3. PICK c : c \notin Hechos /\ Hechos' = Hechos \cup {c}
    BY <1>1, BajasPaso
  <2>4. Cardinality(Hechos') = Cardinality(Hechos) + 1
    BY <2>3, SalidosFinitos, FS_AddElement
  <2>5. QED
    BY <1>t, <2>1, <2>2, <2>4 DEF InvFichas
<1>2. CASE ~PcpCierra
  <2>1. Hechos' = Hechos
    BY <1>2, BajasPaso
  <2>2. QED
    BY <1>t, <1>2, <2>1, DiferenciaPaso DEF InvFichas
<1>3. QED
  BY <1>1, <1>2

\* The two invariants always hold.
LEMMA InvFichasSiempre == Spec => [](InvBajas /\ InvFichas)
<1>1. Init => InvBajas /\ InvFichas
  <2>1. SUFFICES ASSUME Init PROVE InvBajas /\ InvFichas
    OBVIOUS
  <2>2. /\ Salidos = {} /\ Hechos = {} /\ pcp.pc = "select"
        /\ \A c \in CPUs : ~ConFin(c) /\ cpu[c].pc = "apagada" /\ socket[c] = Nada
    BY <2>1 DEF Init, Salidos, Hechos, PcpOcioso, ConFin
  <2>3. Cardinality(Salidos) = 0 /\ Cardinality(Hechos) = 0
    BY <2>2, FS_EmptySet
  <2>4. InvBajas
    BY <2>1, <2>2, <2>3 DEF Init, InvBajas, Quitando
  <2>5. Diferencia = 0
    BY <2>1 DEF Init, Diferencia, DispEspera
  <2>6. QED
    BY <2>2, <2>3, <2>4, <2>5 DEF InvFichas
<1>2. TypeOK /\ InvBajas /\ InvFichas /\ [Next]_vars => InvBajas' /\ InvFichas'
  BY BajasPaso, InvFichasPaso
<1>3. QED
  BY <1>1, <1>2, TipoCorrecto, PTL DEF Spec

\* The tokens of s_hay_cpus and the list of idle CPUs differ by no more than the
\* CPUs that have left, however many CPUs there are and whenever they leave.
THEOREM FichasDeCpuCorrectas == Spec => []FichasDeCpu
<1>1. TypeOK /\ InvBajas /\ InvFichas => FichasDeCpu
  <2>1. SUFFICES ASSUME TypeOK, InvBajas, InvFichas PROVE FichasDeCpu
    OBVIOUS
  <2>2. /\ Diferencia \in Int /\ Cardinality(Hechos) \in Nat /\ bajas \in Nat
        /\ Cardinality(Hechos) + (IF Quitando THEN 1 ELSE 0) <= bajas
    BY <2>1, DiferenciaTipo, SalidosFinitos DEF TypeOK, TipoProgramas
  <2>3. pcp.pc = "cierra" => Quitando
    BY DEF Quitando
  <2>4. Diferencia >= -bajas /\ Diferencia <= bajas
    BY <2>1, <2>2, <2>3 DEF InvFichas
  <2>5. Diferencia \in -bajas..bajas
    BY <2>2, <2>4
  <2>6. QED
    BY <2>1, <2>5, DiferenciaTipo DEF FichasDeCpu, Diferencia
<1>2. QED
  BY <1>1, InvFichasSiempre, TipoCorrecto, PTL

\* The dispatcher and quitar_cpu only look for a CPU in vain after one has left.
LEMMA SinCpuPaso ==
    TypeOK /\ InvBajas /\ InvFichas /\ SinCpuPorBaja /\ [Next]_vars => SinCpuPorBaja'
<1> SUFFICES ASSUME TypeOK, InvBajas, InvFichas, SinCpuPorBaja, [Next]_vars PROVE SinCpuPorBaja'
  OBVIOUS
<1> USE DEF SinCpuPorBaja
<1>t. bajas \in Nat
  BY DEF TypeOK, TipoProgramas
<1>q. ASSUME bajas' = bajas, caido' = caido \/ caido' \notin {"dispatcher_cpu", "quitar_cpu"}
      PROVE  SinCpuPorBaja'
  BY <1>q
<1>r. ASSUME bajas' = bajas, bajas > 0 PROVE SinCpuPorBaja'
  BY <1>r
<1>1. CASE DispTomaCpu
  <2>1. CASE cpusOciosas # <<>>
    BY <1>1, <1>q, <2>1 DEF DispTomaCpu, cpuLado
  <2>2. CASE cpusOciosas = <<>>
    <3>1. dispatcher.pc = "toma_cpu" /\ bajas' = bajas /\ Len(cpusOciosas) = 0
      BY <1>1, <2>2 DEF DispTomaCpu, cpuLado
    <3>2. Diferencia >= 1
      BY <3>1, DiferenciaTipo DEF Diferencia
    <3>3. pcp.pc = "cierra" => Quitando
      BY DEF Quitando
    <3>4. bajas > 0
      BY <1>t, <3>2, <3>3, DiferenciaTipo, SalidosFinitos DEF InvFichas
    <3>5. QED
      BY <1>r, <3>1, <3>4
  <2>3. QED
    BY <2>1, <2>2
<1>2. CASE PcpBusca \/ PcpQuita
  <2>1. Quitando /\ bajas' = bajas
    BY <1>2 DEF PcpBusca, PcpQuita, Quitando, cpuLado
  <2>2. bajas > 0
    BY <1>t, <2>1, SalidosFinitos
  <2>3. QED
    BY <1>r, <2>1, <2>2
<1>3. ASSUME NEW c \in CPUs, CpuSale(c) \/ CpuMuere(c) PROVE SinCpuPorBaja'
  <2>1. bajas' = bajas + 1
    BY <1>3 DEF CpuSale, CpuMuere
  <2>2. QED
    BY <1>t, <2>1
<1>4. ASSUME Plp \/ (\E w \in Programas : WtNar(w)) PROVE SinCpuPorBaja'
  BY <1>4, <1>q
  DEF Plp, AceptarPrograma, RechazarPrograma, PlpInterno, ProbarReadyMax, PlpAReady, PlpANew,
      OrdenarNew, MedirNew, MostrarNew, WtNar, WorkerLugar, WorkerSaca, WorkerEncola, cpuLado
<1>5. ASSUME DispEsperaPcb \/ DispEsperaCpu \/ DispTomaPcb \/ DispEnvia PROVE SinCpuPorBaja'
  BY <1>5, <1>q DEF DispEsperaPcb, DispEsperaCpu, DispTomaPcb, DispEnvia, cpuLado
<1>6. ASSUME (\E d \in Dispositivos : HiloIO(d)) \/ VaciarDespierta \/ VaciarQuita
      PROVE  SinCpuPorBaja'
  BY <1>6, <1>q DEF HiloIO, IOToma, IOMideReady, IOInserta, VaciarDespierta, VaciarQuita, cpuLado
<1>7. ASSUME (\E c \in CPUs : PcpMensaje(c)) \/ PcpInserta \/ PcpLibera \/ PcpCierra
      PROVE  SinCpuPorBaja'
  BY <1>7, <1>q
  DEF PcpMensaje, PcpOciosa, PcpMideReady, PcpTermina, PcpEntradaSalida, PcpDesconexion, PcpInserta,
      PcpLibera, PcpCierra, cpuLado
<1>8. ASSUME NEW c \in CPUs, CpuAvanza(c) \/ CpuConecta(c) PROVE SinCpuPorBaja'
  BY <1>8, <1>q
  DEF CpuAvanza, CpuAnuncia, CpuRecibe, CpuQuantum, CpuTermina, CpuEntradaSalida, CpuConecta, Devuelve
<1>9. CASE UNCHANGED vars
  BY <1>9, <1>q DEF vars, cpuLado
<1>10. QED
  BY <1>1, <1>2, <1>3, <1>4, <1>5, <1>6, <1>7, <1>8, <1>9
  DEF Next, Dispatcher, PcpInterno, VaciarExit, CpuEntorno

\* No thread of the scheduler falls but for the causes named: wt_nar never, the
\* dispatcher for lack of a PCB only after an ignored insertion, and it or
\* quitar_cpu for lack of a CPU only after a CPU has left.
THEOREM CausasDeCaidaCorrectas == Spec => []CausasDeCaida
<1>1. Init => SinCpuPorBaja
  BY DEF Init, SinCpuPorBaja
<1>2. Spec => []SinCpuPorBaja
  BY <1>1, TipoCorrecto, InvFichasSiempre, SinCpuPaso, PTL DEF Spec
<1>3. WtNarEncuentra /\ SinPcbPorDescarte /\ SinCpuPorBaja => CausasDeCaida
  BY DEF CausasDeCaida
<1>4. QED
  BY <1>2, <1>3, WtNarNuncaCae, DispatcherSinPcb, PTL

-----------------------------------------------------------------------------
(* A CPU that waits has announced itself once *)

\* What the announcement of a CPU turns into on its way: a message in its
\* socket, an entry in the list of idle CPUs, the dispatcher's choice, and the
\* PCB in its socket.
Aviso == Msj("O", Nada, Nada)
EnSocket(c) == Veces(mensajes[c], Aviso)
EnLista(c) == Veces(cpusOciosas, socket[c])
EnMano(c) == IF dispatcher.cpu = socket[c] THEN 1 ELSE 0
EnCanal(c) == Len(canal[c])
Espera(c) == IF cpu[c].pc = "recibe" THEN 1 ELSE 0

\* The socket of the CPU is open and its number is not one the kernel still held
\* when it was closed.
Propia(c) == socket[c] \notin {Nada} \cup vencidos

\* DespachoAOciosa, said with them.
Bien(c) ==
    /\ EnSocket(c) + EnLista(c) + EnMano(c) + EnCanal(c) <= Espera(c)
    /\ bajas = 0 => EnSocket(c) + EnLista(c) + EnMano(c) + EnCanal(c) = Espera(c)
InvDespacho == \A c \in CPUs : Propia(c) /\ cpu[c].pc # "salio" => Bien(c)

\* The dispatcher holds a CPU only between choosing it and sending the PCB; of the
\* sockets no CPU has, the kernel holds only numbers that were noted as expired;
\* and a CPU that has not connected has no socket and nothing on its way.
InvConexion ==
    /\ dispatcher.pc \notin {"toma_pcb", "envia"} => dispatcher.cpu = Nada
    /\ \A s \in Sockets : (\A c \in CPUs : socket[c] # s)
                            /\ (s \in ToSet(cpusOciosas) \/ s = dispatcher.cpu) => s \in vencidos
    /\ \A c \in CPUs : cpu[c].pc = "apagada" =>
                          socket[c] = Nada /\ mensajes[c] = <<>> /\ canal[c] = <<>>

\* The steps that put no number in the kernel's hands and move nothing of a CPU
\* that has not connected.
LEMMA ConexionQuieta ==
    ASSUME InvConexion, UNCHANGED <<socket, vencidos>>,
           dispatcher'.pc \notin {"toma_pcb", "envia"} => dispatcher'.cpu = Nada,
           \A s \in Sockets :
               s \in ToSet(cpusOciosas') \/ s = dispatcher'.cpu =>
                   \/ s \in ToSet(cpusOciosas) \/ s = dispatcher.cpu
                   \/ \E c \in CPUs : socket[c] = s,
           \A c \in CPUs : cpu'[c].pc = "apagada" =>
               cpu[c].pc = "apagada" /\ mensajes'[c] = mensajes[c] /\ canal'[c] = canal[c]
    PROVE  InvConexion'
<1>1. \A s \in Sockets : (\A c \in CPUs : socket'[c] # s)
                         /\ (s \in ToSet(cpusOciosas)' \/ s = dispatcher'.cpu) => s \in vencidos'
  <2>1. ToSet(cpusOciosas)' = ToSet(cpusOciosas')
    BY DEF ToSet
  <2>2. QED
    BY <2>1 DEF InvConexion
<1>2. QED
  BY <1>1 DEF InvConexion

\* Every step keeps the connections: a number is in the kernel's hands only as
\* long as a CPU has it, or expired.
LEMMA InvConexionPaso == TypeOK /\ InvConexion /\ [Next]_vars => InvConexion'
<1> SUFFICES ASSUME TypeOK, InvConexion, [Next]_vars PROVE InvConexion'
  OBVIOUS
<1>t. /\ cpusOciosas \in Seq(Sockets) /\ Len(cpusOciosas) \in Nat
      /\ \A c \in CPUs : mensajes[c] \in Seq(Mensaje) /\ canal[c] \in Seq(Programas)
  BY LenProperties DEF TypeOK, TipoOciosas, TipoMensajes, TipoCpu
<1>d. dispatcher.pc \notin {"toma_pcb", "envia"} => dispatcher.cpu = Nada
  BY DEF InvConexion
<1>q. ASSUME UNCHANGED <<dispatcher, cpusOciosas, cpu, socket, vencidos, canal, mensajes>>
      PROVE  InvConexion'
  BY <1>q, <1>d, ConexionQuieta
<1>1. CASE Dispatcher
  <2>1. UNCHANGED <<cpu, socket, vencidos, mensajes>>
    BY <1>1 DEF Dispatcher, DispEsperaPcb, DispEsperaCpu, DispTomaCpu, DispTomaPcb, DispEnvia,
                cpuLado, historia
  <2>2. CASE DispEsperaPcb \/ DispEsperaCpu \/ DispTomaPcb
    <3>1. UNCHANGED <<cpusOciosas, canal>>
      BY <2>2 DEF DispEsperaPcb, DispEsperaCpu, DispTomaPcb
    <3>2. /\ dispatcher'.cpu = dispatcher.cpu
          /\ dispatcher'.pc \notin {"toma_pcb", "envia"} => dispatcher.pc \notin {"toma_pcb", "envia"}
      <4>1. CASE DispEsperaPcb \/ DispEsperaCpu
        BY <4>1 DEF DispEsperaPcb, DispEsperaCpu, TypeOK, TipoDispatcher
      <4>2. CASE DispTomaPcb
        BY <4>2 DEF DispTomaPcb, TypeOK, TipoDispatcher
      <4>3. QED
        BY <2>2, <4>1, <4>2
    <3>3. QED
      BY <1>d, <2>1, <3>1, <3>2, ConexionQuieta
  <2>3. CASE DispTomaCpu
    <3>1. canal' = canal
      BY <2>3 DEF DispTomaCpu
    <3>2. CASE cpusOciosas # <<>>
      <4>1. /\ cpusOciosas' = Tail(cpusOciosas) /\ dispatcher'.cpu = Head(cpusOciosas)
            /\ dispatcher'.pc = "toma_pcb"
        BY <2>3, <3>2 DEF DispTomaCpu, TypeOK, TipoDispatcher
      <4>2. ToSet(cpusOciosas) = ToSet(Tail(cpusOciosas)) \cup {Head(cpusOciosas)}
        BY <1>t, <3>2, TailElementos
      <4>3. \A s : s \in ToSet(cpusOciosas') \/ s = dispatcher'.cpu => s \in ToSet(cpusOciosas)
        BY <4>1, <4>2
      <4>4. QED
        BY <2>1, <3>1, <4>1, <4>3, ConexionQuieta
    <3>3. CASE cpusOciosas = <<>>
      BY <1>q, <2>1, <2>3, <3>1, <3>3 DEF DispTomaCpu
    <3>4. QED
      BY <3>2, <3>3
  <2>4. CASE DispEnvia
    <3>1. /\ cpusOciosas' = cpusOciosas /\ dispatcher'.cpu = Nada
          /\ dispatcher.pc = "envia"
      BY <2>4 DEF DispEnvia, DispEspera
    <3>2. \A c \in CPUs : cpu[c].pc = "apagada" => canal'[c] = canal[c]
      <4>1. \A c \in CPUs : cpu[c].pc = "apagada" => socket[c] # dispatcher.cpu
        BY <3>1, ConstantesSupuestas DEF InvConexion, TypeOK, TipoDispatcher
      <4>2. \/ canal' = canal
            \/ \E c \in CPUs : /\ socket[c] = dispatcher.cpu
                               /\ canal' = [canal EXCEPT ![c] = Append(@, dispatcher.pcb)]
        BY <2>4 DEF DispEnvia
      <4>3. QED
        BY <4>1, <4>2 DEF TypeOK, TipoCpu
    <3>3. \A s \in Sockets : s \in ToSet(cpusOciosas') \/ s = dispatcher'.cpu => s \in ToSet(cpusOciosas)
      BY <3>1, ConstantesSupuestas
    <3>4. QED
      BY <2>1, <3>1, <3>2, <3>3, ConexionQuieta
  <2>5. QED
    BY <1>1, <2>2, <2>3, <2>4 DEF Dispatcher
<1>2. CASE PcpCierra
  <2>1. PICK b \in CPUs : /\ socket[b] = pcp.cpu /\ socket' = [socket EXCEPT ![b] = Nada]
                          /\ canal' = [canal EXCEPT ![b] = <<>>]
    BY <1>2 DEF PcpCierra
  <2>2. /\ UNCHANGED <<dispatcher, cpu, cpusOciosas, mensajes>>
        /\ vencidos' = vencidos \cup ({pcp.cpu} \cap (ToSet(cpusOciosas) \cup {dispatcher.cpu}))
        /\ pcp.cpu \in Sockets
    BY <1>2 DEF PcpCierra, cpuLado, TypeOK, TipoPcp
  <2>3. /\ socket'[b] = Nada /\ canal'[b] = <<>>
        /\ \A c \in CPUs : c # b => socket'[c] = socket[c] /\ canal'[c] = canal[c]
    BY <2>1 DEF TypeOK, TipoOciosas, TipoCpu
  <2>4. ToSet(cpusOciosas)' = ToSet(cpusOciosas)
    BY <2>2 DEF ToSet
  <2>5. ASSUME NEW s \in Sockets, \A c \in CPUs : socket'[c] # s,
               s \in ToSet(cpusOciosas) \/ s = dispatcher.cpu
        PROVE  s \in vencidos'
    <3>1. CASE s = pcp.cpu
      BY <2>2, <2>5, <3>1
    <3>2. CASE s # pcp.cpu
      <4>1. \A c \in CPUs : socket[c] # s
        BY <2>1, <2>3, <2>5, <3>2
      <4>2. QED
        BY <2>2, <2>5, <4>1 DEF InvConexion
    <3>3. QED
      BY <3>1, <3>2
  <2>6. \A c \in CPUs : cpu'[c].pc = "apagada" =>
                           socket'[c] = Nada /\ mensajes'[c] = <<>> /\ canal'[c] = <<>>
    BY <2>2, <2>3 DEF InvConexion
  <2>7. QED
    BY <1>d, <2>2, <2>4, <2>5, <2>6 DEF InvConexion
<1>3. ASSUME NEW c \in CPUs, CpuConecta(c) PROVE InvConexion'
  <2>1. PICK s \in Sockets : socket' = [socket EXCEPT ![c] = s]
    BY <1>3 DEF CpuConecta
  <2>2. /\ UNCHANGED <<dispatcher, cpusOciosas, mensajes, canal, vencidos>>
        /\ cpu[c].pc = "apagada" /\ cpu'[c].pc = "libre" /\ \A b \in CPUs : b # c => cpu'[b] = cpu[b]
    BY <1>3 DEF CpuConecta, CpuLibre, historia, TypeOK, TipoCpu
  <2>3. socket'[c] = s /\ socket[c] = Nada /\ \A b \in CPUs : b # c => socket'[b] = socket[b]
    BY <2>1, <2>2 DEF InvConexion, TypeOK, TipoOciosas
  <2>4. ToSet(cpusOciosas)' = ToSet(cpusOciosas)
    BY <2>2 DEF ToSet
  <2>5. \A z \in Sockets : (\A b \in CPUs : socket'[b] # z) => \A b \in CPUs : socket[b] # z
    BY <2>3, ConstantesSupuestas
  <2>6. QED
    BY <2>2, <2>3, <2>4, <2>5 DEF InvConexion
<1>4. ASSUME NEW c \in CPUs, CpuAvanza(c) \/ CpuSale(c) \/ CpuMuere(c) PROVE InvConexion'
  <2>1. UNCHANGED <<dispatcher, cpusOciosas, socket, vencidos>>
    BY <1>4
    DEF CpuAvanza, CpuAnuncia, CpuRecibe, CpuQuantum, CpuTermina, CpuEntradaSalida, CpuSale, CpuMuere,
        Devuelve, historia
  <2>2. /\ cpu'[c].pc # "apagada"
        /\ \A b \in CPUs : b # c => cpu'[b] = cpu[b] /\ mensajes'[b] = mensajes[b] /\ canal'[b] = canal[b]
    BY <1>4
    DEF CpuAvanza, CpuAnuncia, CpuRecibe, CpuQuantum, CpuTermina, CpuEntradaSalida, CpuSale, CpuMuere,
        Devuelve, CpuLibre, TypeOK, TipoCpu, TipoMensajes
  <2>3. QED
    BY <1>d, <2>1, <2>2, ConexionQuieta
<1>5. ASSUME NEW c \in CPUs, PcpMensaje(c) PROVE InvConexion'
  <2>1. UNCHANGED <<dispatcher, cpu, socket, vencidos, canal>>
    BY <1>5 DEF PcpMensaje, PcpOciosa, PcpMideReady, PcpTermina, PcpEntradaSalida, PcpDesconexion,
                cpuLado, historia
  <2>2. PICK t : Recibe(c, t)
    BY <1>5 DEF PcpMensaje, PcpOciosa, PcpMideReady, PcpTermina, PcpEntradaSalida, PcpDesconexion
  <2>3. mensajes[c] # <<>> /\ socket[c] # Nada /\ \A b \in CPUs : b # c => mensajes'[b] = mensajes[b]
    BY <2>2 DEF Recibe, TypeOK, TipoMensajes
  <2>4. \A b \in CPUs : cpu[b].pc = "apagada" => mensajes'[b] = mensajes[b]
    BY <2>3 DEF InvConexion
  <2>5. cpusOciosas' = cpusOciosas \/ cpusOciosas' = Append(cpusOciosas, socket[c])
    BY <1>5 DEF PcpMensaje, PcpOciosa, PcpMideReady, PcpTermina, PcpEntradaSalida, PcpDesconexion
  <2>6. \A z \in Sockets : ToSet(Append(cpusOciosas, z)) = ToSet(cpusOciosas) \cup {z}
    BY <1>t, AppendElementos
  <2>7. socket[c] \in Sockets
    BY <2>3 DEF TypeOK, TipoOciosas, Cpu
  <2>8. \A s : s \in ToSet(cpusOciosas') => s \in ToSet(cpusOciosas) \/ s = socket[c]
    BY <2>5, <2>6, <2>7
  <2>9. QED
    BY <1>d, <2>1, <2>4, <2>8, ConexionQuieta
<1>6. CASE PcpQuita
  <2>1. UNCHANGED <<dispatcher, cpu, socket, vencidos, canal, mensajes>>
    BY <1>6 DEF PcpQuita, cpuLado, historia
  <2>2. CASE cpusOciosas' = cpusOciosas
    BY <1>q, <2>1, <2>2
  <2>3. CASE pcp.i < Len(cpusOciosas) /\ cpusOciosas' = RemoveAt(cpusOciosas, pcp.i + 1)
    <3>1. pcp.i + 1 \in 1..Len(cpusOciosas)
      BY <1>t, <2>3 DEF TypeOK, TipoPcp
    <3>2. \A i \in 1..Len(cpusOciosas) :
             ToSet(cpusOciosas) = ToSet(RemoveAt(cpusOciosas, i)) \cup {cpusOciosas[i]}
      BY <1>t, RemoveAtElementos
    <3>3. \A s : s \in ToSet(cpusOciosas') => s \in ToSet(cpusOciosas)
      BY <2>3, <3>1, <3>2
    <3>4. QED
      BY <1>d, <2>1, <3>3, ConexionQuieta
  <2>4. QED
    BY <1>6, <2>2, <2>3 DEF PcpQuita
<1>7. ASSUME Plp \/ (\E w \in Programas : WtNar(w)) PROVE InvConexion'
  BY <1>7, <1>q
  DEF Plp, AceptarPrograma, RechazarPrograma, PlpInterno, ProbarReadyMax, PlpAReady, PlpANew,
      OrdenarNew, MedirNew, MostrarNew, WtNar, WorkerLugar, WorkerSaca, WorkerEncola, cpuLado, historia
<1>8. ASSUME PcpInserta \/ PcpLibera \/ PcpBusca PROVE InvConexion'
  <2>1. UNCHANGED <<dispatcher, cpusOciosas, cpu, socket, vencidos, canal, mensajes>>
    BY <1>8 DEF PcpInserta, InsertarEnReady, PcpLibera, PcpBusca, cpuLado, historia
  <2>2. QED
    BY <1>q, <2>1
<1>9. ASSUME (\E d \in Dispositivos : HiloIO(d)) \/ VaciarExit PROVE InvConexion'
  <2>1. UNCHANGED <<dispatcher, cpusOciosas, cpu, socket, vencidos, canal, mensajes>>
    BY <1>9
    DEF HiloIO, IOToma, IOMideReady, IOInserta, InsertarEnReady, VaciarExit, VaciarDespierta,
        VaciarQuita, cpuLado, historia
  <2>2. QED
    BY <1>q, <2>1
<1>10. CASE UNCHANGED vars
  BY <1>10, <1>q DEF vars, cpuLado, historia
<1>11. QED
  BY <1>1, <1>2, <1>3, <1>4, <1>5, <1>6, <1>7, <1>8, <1>9, <1>10 DEF Next, PcpInterno, CpuEntorno

\* A CPU keeps its socket until it is closed, and only a closed number expires.
LEMMA SocketPaso ==
    ASSUME TypeOK, [Next]_vars, NEW c \in CPUs, Propia(c)'
    PROVE  CpuConecta(c) \/ (Propia(c) /\ socket'[c] = socket[c])
<1> USE DEF Propia
<1>q. ASSUME UNCHANGED <<socket, vencidos>> PROVE Propia(c) /\ socket'[c] = socket[c]
  BY <1>q
<1>1. CASE PcpCierra
  <2>1. PICK b \in CPUs : socket' = [socket EXCEPT ![b] = Nada]
    BY <1>1 DEF PcpCierra
  <2>2. c # b => socket'[c] = socket[c]
    BY <2>1 DEF TypeOK, TipoOciosas
  <2>3. c # b
    BY <2>1 DEF TypeOK, TipoOciosas
  <2>4. vencidos \subseteq vencidos'
    BY <1>1 DEF PcpCierra
  <2>5. QED
    BY <2>2, <2>3, <2>4
<1>2. ASSUME NEW b \in CPUs, CpuConecta(b), b # c PROVE Propia(c) /\ socket'[c] = socket[c]
  BY <1>2 DEF CpuConecta, historia, TypeOK, TipoOciosas
<1>3. ASSUME Plp \/ (\E w \in Programas : WtNar(w)) PROVE Propia(c) /\ socket'[c] = socket[c]
  BY <1>3, <1>q
  DEF Plp, AceptarPrograma, RechazarPrograma, PlpInterno, ProbarReadyMax, PlpAReady, PlpANew,
      OrdenarNew, MedirNew, MostrarNew, WtNar, WorkerLugar, WorkerSaca, WorkerEncola, historia
<1>4. ASSUME Dispatcher PROVE Propia(c) /\ socket'[c] = socket[c]
  BY <1>4, <1>q
  DEF Dispatcher, DispEsperaPcb, DispEsperaCpu, DispTomaCpu, DispTomaPcb, DispEnvia, historia
<1>5. ASSUME PcpInserta \/ PcpLibera \/ PcpBusca \/ PcpQuita PROVE Propia(c) /\ socket'[c] = socket[c]
  BY <1>5, <1>q DEF PcpInserta, InsertarEnReady, PcpLibera, PcpBusca, PcpQuita, historia
<1>6. ASSUME NEW b \in CPUs, PcpMensaje(b) PROVE Propia(c) /\ socket'[c] = socket[c]
  BY <1>6, <1>q
  DEF PcpMensaje, PcpOciosa, PcpMideReady, PcpTermina, PcpEntradaSalida, PcpDesconexion, historia
<1>7. ASSUME (\E d \in Dispositivos : HiloIO(d)) \/ VaciarExit
      PROVE  Propia(c) /\ socket'[c] = socket[c]
  BY <1>7, <1>q
  DEF HiloIO, IOToma, IOMideReady, IOInserta, InsertarEnReady, VaciarExit, VaciarDespierta,
      VaciarQuita, historia
<1>8. ASSUME NEW b \in CPUs, CpuAvanza(b) \/ CpuSale(b) \/ CpuMuere(b)
      PROVE  Propia(c) /\ socket'[c] = socket[c]
  BY <1>8, <1>q
  DEF CpuAvanza, CpuAnuncia, CpuRecibe, CpuQuantum, CpuTermina, CpuEntradaSalida, CpuSale, CpuMuere,
      Devuelve, historia
<1>9. CASE UNCHANGED vars
  BY <1>9, <1>q DEF vars, historia
<1>10. QED
  BY <1>1, <1>2, <1>3, <1>4, <1>5, <1>6, <1>7, <1>8, <1>9 DEF Next, PcpInterno, CpuEntorno

\* The five counts are numbers.
LEMMA AvisosTipo ==
    ASSUME TypeOK, NEW c \in CPUs
    PROVE  /\ EnSocket(c) \in Nat /\ EnLista(c) \in Nat /\ EnMano(c) \in Nat /\ EnCanal(c) \in Nat
           /\ Espera(c) \in Nat
           /\ mensajes[c] \in Seq(Mensaje) /\ cpusOciosas \in Seq(Sockets) /\ canal[c] \in Seq(Programas)
<1>1. mensajes[c] \in Seq(Mensaje) /\ cpusOciosas \in Seq(Sockets) /\ canal[c] \in Seq(Programas)
  BY DEF TypeOK, TipoMensajes, TipoOciosas, TipoCpu
<1>2. EnSocket(c) \in Nat /\ EnLista(c) \in Nat
  BY <1>1, VecesTipo DEF EnSocket, EnLista
<1>3. EnCanal(c) \in Nat
  BY <1>1, LenProperties DEF EnCanal
<1>4. QED
  BY <1>1, <1>2, <1>3 DEF EnMano, Espera

\* Only the message 'O' of a CPU announces it.
LEMMA SoloAvisos == \A m \in Mensaje : m.tipo = "O" <=> m = Aviso
BY DEF Mensaje, Aviso, Msj

\* The message 'O' is one message of its kind.
LEMMA AvisoTipo == Aviso \in Mensaje
BY DEF Mensaje, Aviso, Msj

\* The steps after which the counts of a CPU and whether it waits are the same.
LEMMA BienQuieta ==
    ASSUME NEW c \in CPUs, Bien(c), bajas' = bajas, socket'[c] = socket[c],
           mensajes'[c] = mensajes[c], cpusOciosas' = cpusOciosas, dispatcher'.cpu = dispatcher.cpu,
           canal'[c] = canal[c], cpu'[c].pc = "recibe" <=> cpu[c].pc = "recibe"
    PROVE  Bien(c)'
<1>1. /\ EnSocket(c)' = EnSocket(c) /\ EnLista(c)' = EnLista(c) /\ EnMano(c)' = EnMano(c)
      /\ EnCanal(c)' = EnCanal(c) /\ Espera(c)' = Espera(c)
  BY DEF EnSocket, EnLista, EnMano, EnCanal, Espera
<1>2. QED
  BY <1>1 DEF Bien

\* Receiving a message that is not an announcement changes no count.
LEMMA BienRecibe ==
    ASSUME TypeOK, NEW b \in CPUs, NEW t, Recibe(b, t), "O" \notin t, NEW c \in CPUs
    PROVE  EnSocket(c)' = EnSocket(c)
<1>1. mensajes'[b] = Tail(mensajes[b]) /\ \A a \in CPUs : a # b => mensajes'[a] = mensajes[a]
  BY DEF Recibe, TypeOK, TipoMensajes
<1>2. mensajes[b] \in Seq(Mensaje) /\ mensajes[b] # <<>> /\ Head(mensajes[b]) # Aviso
  BY MensajeRecibido, SoloAvisos DEF Recibe, TypeOK, TipoMensajes
<1>3. CASE c = b
  <2>1. Tail(mensajes[b]) \in Seq(Mensaje)
    BY <1>2, HeadTailProperties
  <2>2. Veces(mensajes[b], Aviso) \in Nat /\ Veces(Tail(mensajes[b]), Aviso) \in Nat
    BY <1>2, <2>1, VecesTipo
  <2>3. Veces(mensajes[b], Aviso)
            = Veces(Tail(mensajes[b]), Aviso) + (IF Head(mensajes[b]) = Aviso THEN 1 ELSE 0)
    BY <1>2, VecesTail
  <2>4. Veces(Tail(mensajes[b]), Aviso) = Veces(mensajes[b], Aviso)
    BY <1>2, <2>2, <2>3
  <2>5. QED
    BY <1>1, <1>3, <2>4 DEF EnSocket
<1>4. CASE c # b
  BY <1>1, <1>4 DEF EnSocket
<1>5. QED
  BY <1>3, <1>4

\* Every step keeps the counts of every CPU that has not left: an announcement
\* moves on, or the CPU stops waiting as it takes the PCB.
LEMMA InvDespachoPaso ==
    TypeOK /\ InvBajas /\ InvConexion /\ InvDespacho /\ [Next]_vars => InvDespacho'
<1> SUFFICES ASSUME TypeOK, InvBajas, InvConexion, InvDespacho, [Next]_vars,
                    NEW c \in CPUs, Propia(c)', cpu'[c].pc # "salio"
             PROVE  Bien(c)'
  BY DEF InvDespacho
<1>s. CpuConecta(c) \/ (Propia(c) /\ socket'[c] = socket[c])
  BY SocketPaso
<1>t. /\ EnSocket(c) \in Nat /\ EnLista(c) \in Nat /\ EnMano(c) \in Nat /\ EnCanal(c) \in Nat
      /\ Espera(c) \in Nat /\ bajas \in Nat
      /\ mensajes[c] \in Seq(Mensaje) /\ cpusOciosas \in Seq(Sockets) /\ canal[c] \in Seq(Programas)
  BY AvisosTipo DEF TypeOK, TipoProgramas
<1>c. CASE CpuConecta(c)
  <2>1. PICK s \in Sockets : (\A d \in CPUs : socket[d] # s) /\ socket' = [socket EXCEPT ![c] = s]
    BY <1>c DEF CpuConecta
  <2>2. /\ UNCHANGED <<bajas, mensajes, cpusOciosas, canal, dispatcher, vencidos>>
        /\ cpu[c].pc = "apagada" /\ cpu'[c].pc = "libre"
    BY <1>c DEF CpuConecta, CpuLibre, historia, TypeOK, TipoCpu
  <2>3. socket'[c] = s /\ s \notin vencidos
    BY <2>1, <2>2 DEF Propia, TypeOK, TipoOciosas
  <2>4. s \notin ToSet(cpusOciosas) /\ s # dispatcher.cpu
    BY <2>1, <2>3 DEF InvConexion
  <2>5. mensajes[c] = <<>> /\ canal[c] = <<>>
    BY <2>2 DEF InvConexion
  <2>6. EnLista(c)' = 0
    <3>1. \A k \in DOMAIN cpusOciosas : cpusOciosas[k] # s
      BY <2>4 DEF ToSet
    <3>2. Veces(cpusOciosas, s) = 0
      BY <3>1, VecesNinguna
    <3>3. EnLista(c)' = Veces(cpusOciosas, s)
      BY <2>2, <2>3 DEF EnLista
    <3>4. QED
      BY <3>2, <3>3
  <2>7. EnSocket(c)' = 0
    <3>1. Veces(mensajes[c], Aviso) = 0
      BY <2>5, VecesNinguna
    <3>2. EnSocket(c)' = Veces(mensajes[c], Aviso)
      BY <2>2 DEF EnSocket
    <3>3. QED
      BY <3>1, <3>2
  <2>8. EnMano(c)' = 0 /\ EnCanal(c)' = 0 /\ Espera(c)' = 0
    BY <2>2, <2>3, <2>4, <2>5 DEF EnMano, EnCanal, Espera
  <2>9. QED
    BY <2>6, <2>7, <2>8 DEF Bien
<1>n. SUFFICES ASSUME ~CpuConecta(c) PROVE Bien(c)'
  BY <1>c
<1>v. ASSUME cpu[c].pc # "salio" PROVE Bien(c) /\ socket'[c] = socket[c] /\ socket[c] \in Sockets
  <2>1. Propia(c) /\ socket'[c] = socket[c]
    BY <1>s, <1>n
  <2>2. socket[c] \in Sockets
    BY <2>1 DEF Propia, TypeOK, TipoOciosas, Cpu
  <2>3. QED
    BY <1>v, <2>1, <2>2 DEF InvDespacho
<1>q. ASSUME UNCHANGED <<bajas, mensajes, cpusOciosas, canal, cpu>>, dispatcher'.cpu = dispatcher.cpu
      PROVE  Bien(c)'
  BY <1>q, <1>v, BienQuieta
<1>1. ASSUME DispEsperaPcb \/ DispEsperaCpu \/ DispTomaPcb PROVE Bien(c)'
  <2>1. UNCHANGED <<bajas, mensajes, cpusOciosas, canal, cpu>>
    BY <1>1 DEF DispEsperaPcb, DispEsperaCpu, DispTomaPcb, cpuLado
  <2>2. dispatcher'.cpu = dispatcher.cpu
    <3>1. CASE DispEsperaPcb \/ DispEsperaCpu
      BY <3>1 DEF DispEsperaPcb, DispEsperaCpu, TypeOK, TipoDispatcher
    <3>2. CASE DispTomaPcb
      BY <3>2 DEF DispTomaPcb, TypeOK, TipoDispatcher
    <3>3. QED
      BY <1>1, <3>1, <3>2
  <2>3. QED
    BY <1>q, <2>1, <2>2
<1>2. CASE DispTomaCpu
  <2>1. UNCHANGED <<bajas, mensajes, canal, cpu>> /\ dispatcher.pc = "toma_cpu"
    BY <1>2 DEF DispTomaCpu, cpuLado
  <2>2. CASE cpusOciosas = <<>>
    BY <1>2, <1>q, <2>1, <2>2 DEF DispTomaCpu
  <2>3. CASE cpusOciosas # <<>>
    <3>1. /\ cpusOciosas' = Tail(cpusOciosas) /\ dispatcher'.cpu = Head(cpusOciosas)
          /\ dispatcher.cpu = Nada
          /\ socket'[c] = socket[c] /\ socket[c] \in Sockets
      BY <1>2, <1>v, <2>1, <2>3 DEF DispTomaCpu, InvConexion, TypeOK, TipoDispatcher
    <3>2. EnLista(c) = Veces(Tail(cpusOciosas), socket[c])
                         + (IF Head(cpusOciosas) = socket[c] THEN 1 ELSE 0)
      BY <1>t, <2>3, VecesTail DEF EnLista
    <3>3. EnLista(c)' = Veces(Tail(cpusOciosas), socket[c]) /\ Tail(cpusOciosas) \in Seq(Sockets)
      BY <1>t, <2>3, <3>1, HeadTailProperties DEF EnLista
    <3>4. EnLista(c)' \in Nat
      BY <3>3, VecesTipo
    <3>5. EnMano(c) = 0 /\ EnMano(c)' = IF Head(cpusOciosas) = socket[c] THEN 1 ELSE 0
      BY <3>1, ConstantesSupuestas DEF EnMano
    <3>6. EnSocket(c)' = EnSocket(c) /\ EnCanal(c)' = EnCanal(c) /\ Espera(c)' = Espera(c)
      BY <2>1 DEF EnSocket, EnCanal, Espera
    <3>7. EnLista(c)' + EnMano(c)' = EnLista(c) + EnMano(c) /\ EnMano(c)' \in Nat
      BY <1>t, <3>2, <3>3, <3>4, <3>5
    <3>8. Bien(c)
      BY <1>v, <2>1
    <3>9. QED
      BY <1>t, <2>1, <3>4, <3>6, <3>7, <3>8 DEF Bien
  <2>4. QED
    BY <2>2, <2>3
<1>3. CASE DispEnvia
  <2>1. /\ UNCHANGED <<bajas, mensajes, cpusOciosas, cpu>> /\ dispatcher'.cpu = Nada
        /\ dispatcher.pcb \in Programas /\ dispatcher.cpu \in Sockets
    BY <1>3 DEF DispEnvia, DispEspera, cpuLado, TypeOK, TipoDispatcher
  <2>2. /\ cpu[c].pc # "salio" /\ Bien(c)
        /\ socket'[c] = socket[c] /\ socket[c] \in Sockets
    BY <1>v, <2>1
  <2>3. /\ EnSocket(c)' = EnSocket(c) /\ EnLista(c)' = EnLista(c) /\ Espera(c)' = Espera(c)
        /\ EnMano(c)' = 0
    BY <2>1, <2>2, ConstantesSupuestas DEF EnSocket, EnLista, Espera, EnMano
  <2>4. CASE dispatcher.cpu = socket[c]
    <3>1. EnMano(c) = 1
      BY <2>4 DEF EnMano
    <3>2. canal' = [canal EXCEPT ![c] = Append(@, dispatcher.pcb)]
      <4>1. \A b \in CPUs : socket[b] = dispatcher.cpu => b = c
        BY <2>2, <2>4, ConstantesSupuestas DEF InvBajas
      <4>2. ~\A b \in CPUs : socket[b] = dispatcher.cpu => cpu[b].pc = "salio"
        BY <2>2, <2>4
      <4>3. QED
        BY <1>3, <4>1, <4>2 DEF DispEnvia
    <3>3. canal'[c] = Append(canal[c], dispatcher.pcb)
      BY <3>2 DEF TypeOK, TipoCpu
    <3>4. EnCanal(c)' = EnCanal(c) + 1
      BY <1>t, <2>1, <3>3, AppendProperties DEF EnCanal
    <3>5. /\ EnMano(c)' + EnCanal(c)' = EnMano(c) + EnCanal(c)
          /\ EnMano(c)' \in Nat /\ EnCanal(c)' \in Nat
      BY <1>t, <2>3, <3>1, <3>4
    <3>6. QED
      BY <1>t, <2>1, <2>2, <2>3, <3>5 DEF Bien
  <2>5. CASE dispatcher.cpu # socket[c]
    <3>1. EnMano(c) = 0
      BY <2>5 DEF EnMano
    <3>2. canal'[c] = canal[c]
      BY <1>3, <2>5 DEF DispEnvia, TypeOK, TipoCpu
    <3>3. EnCanal(c)' = EnCanal(c)
      BY <3>2 DEF EnCanal
    <3>4. QED
      BY <1>t, <2>1, <2>2, <2>3, <3>1, <3>3 DEF Bien
  <2>6. QED
    BY <2>4, <2>5
<1>4. ASSUME NEW b \in CPUs, PcpOciosa(b) PROVE Bien(c)'
  <2>1. /\ UNCHANGED <<bajas, canal, cpu, dispatcher>> /\ Recibe(b, {"O"})
        /\ cpusOciosas' = Append(cpusOciosas, socket[b])
        /\ socket[b] \in Sockets /\ socket[c] \in Sockets /\ socket'[c] = socket[c]
    BY <1>4, <1>v DEF PcpOciosa, cpuLado, Recibe, TypeOK, TipoOciosas, Cpu
  <2>2. EnMano(c)' = EnMano(c) /\ EnCanal(c)' = EnCanal(c) /\ Espera(c)' = Espera(c) /\ Bien(c)
    BY <1>v, <2>1 DEF EnMano, EnCanal, Espera
  <2>3. EnLista(c)' = EnLista(c) + (IF b = c THEN 1 ELSE 0)
    <3>1. socket[b] = socket[c] <=> b = c
      BY <2>1, ConstantesSupuestas DEF InvBajas
    <3>2. EnLista(c)' = EnLista(c) + (IF socket[b] = socket[c] THEN 1 ELSE 0)
      BY <1>t, <2>1, VecesAppend DEF EnLista
    <3>3. QED
      BY <3>1, <3>2
  <2>4. CASE b = c
    <3>1. mensajes'[c] = Tail(mensajes[c]) /\ mensajes[c] # <<>> /\ Head(mensajes[c]).tipo = "O"
      BY <2>1, <2>4 DEF Recibe, TypeOK, TipoMensajes
    <3>2. Head(mensajes[c]) = Aviso
      BY <2>1, <2>4, <3>1, MensajeRecibido, SoloAvisos DEF TypeOK
    <3>3. EnSocket(c) = Veces(Tail(mensajes[c]), Aviso) + 1
      BY <1>t, <3>1, <3>2, VecesTail DEF EnSocket
    <3>4. Tail(mensajes[c]) \in Seq(Mensaje)
      BY <1>t, <3>1, HeadTailProperties
    <3>5. EnSocket(c)' = Veces(Tail(mensajes[c]), Aviso) /\ EnSocket(c)' \in Nat
      BY <3>1, <3>4, VecesTipo DEF EnSocket
    <3>6. EnSocket(c) = EnSocket(c)' + 1 /\ EnLista(c)' = EnLista(c) + 1
      BY <2>3, <2>4, <3>3, <3>5
    <3>7. EnSocket(c)' \in Nat /\ EnLista(c) \in Nat /\ EnSocket(c) \in Nat
      BY <1>t, <3>5
    <3>8. EnSocket(c)' + EnLista(c)' = EnSocket(c) + EnLista(c)
      BY <3>6, <3>7
    <3>9. bajas' = bajas
      BY <2>1
    <3>10. QED
      BY <2>2, <3>8, <3>9 DEF Bien
  <2>5. CASE b # c
    <3>1. EnSocket(c)' = EnSocket(c) /\ EnLista(c)' = EnLista(c)
      BY <1>t, <2>1, <2>3, <2>5 DEF EnSocket, Recibe, TypeOK, TipoMensajes
    <3>2. QED
      BY <2>1, <2>2, <3>1 DEF Bien
  <2>6. QED
    BY <2>4, <2>5
<1>5. ASSUME NEW b \in CPUs,
             PcpMideReady(b) \/ PcpTermina(b) \/ PcpEntradaSalida(b) \/ PcpDesconexion(b)
      PROVE  Bien(c)'
  <2>1. UNCHANGED <<bajas, canal, cpu, dispatcher, cpusOciosas>>
    BY <1>5 DEF PcpMideReady, PcpTermina, PcpEntradaSalida, PcpDesconexion, cpuLado
  <2>2. PICK t \in {{"Q", "X"}, {"F", "E"}, {"S"}, {"fin"}} : Recibe(b, t)
    BY <1>5 DEF PcpMideReady, PcpTermina, PcpEntradaSalida, PcpDesconexion
  <2>3. EnSocket(c)' = EnSocket(c)
    BY <2>2, BienRecibe
  <2>4. /\ EnLista(c)' = EnLista(c) /\ EnMano(c)' = EnMano(c) /\ EnCanal(c)' = EnCanal(c)
        /\ Espera(c)' = Espera(c) /\ Bien(c)
    BY <1>v, <2>1 DEF EnLista, EnMano, EnCanal, Espera
  <2>5. QED
    BY <2>1, <2>3, <2>4 DEF Bien
<1>6. CASE PcpQuita
  <2>1. UNCHANGED <<bajas, mensajes, canal, cpu, dispatcher>> /\ Quitando
    BY <1>6 DEF PcpQuita, Quitando, cpuLado
  <2>2. bajas > 0
    BY <1>t, <2>1, SalidosFinitos
  <2>3. EnLista(c)' <= EnLista(c) /\ EnLista(c)' \in Nat
    <3> USE <1>v, <2>1
    <3>1. CASE cpusOciosas' = cpusOciosas
      BY <1>t, <3>1 DEF EnLista
    <3>2. CASE pcp.i < Len(cpusOciosas) /\ cpusOciosas' = RemoveAt(cpusOciosas, pcp.i + 1)
      <4>1. pcp.i + 1 \in 1..Len(cpusOciosas)
        BY <1>t, <3>2, LenProperties DEF TypeOK, TipoPcp
      <4>2. /\ cpusOciosas' \in Seq(Sockets)
            /\ EnLista(c) = Veces(cpusOciosas', socket[c])
                              + (IF cpusOciosas[pcp.i + 1] = socket[c] THEN 1 ELSE 0)
        BY <1>t, <3>2, <4>1, RemoveAtTipo, VecesRemoveAt DEF EnLista
      <4>3. Veces(cpusOciosas', socket[c]) \in Nat
        BY <4>2, VecesTipo
      <4>4. QED
        BY <1>t, <4>2, <4>3 DEF EnLista
    <3>3. QED
      BY <1>6, <3>1, <3>2 DEF PcpQuita
  <2>4. /\ EnSocket(c)' = EnSocket(c) /\ EnMano(c)' = EnMano(c) /\ EnCanal(c)' = EnCanal(c)
        /\ Espera(c)' = Espera(c) /\ Bien(c)
    BY <1>v, <2>1 DEF EnSocket, EnMano, EnCanal, Espera
  <2>5. QED
    BY <1>t, <2>1, <2>2, <2>3, <2>4 DEF Bien
<1>7. ASSUME PcpInserta \/ PcpLibera \/ PcpBusca PROVE Bien(c)'
  BY <1>7, <1>q DEF PcpInserta, PcpLibera, PcpBusca, cpuLado
<1>12. CASE PcpCierra
  <2>1. UNCHANGED <<bajas, mensajes, cpusOciosas, cpu, dispatcher>>
    BY <1>12 DEF PcpCierra, cpuLado
  <2>2. PICK b \in CPUs : /\ socket' = [socket EXCEPT ![b] = Nada]
                          /\ canal' = [canal EXCEPT ![b] = <<>>]
    BY <1>12 DEF PcpCierra
  <2>3. b # c
    BY <1>v, <2>1, <2>2, ConstantesSupuestas DEF TypeOK, TipoOciosas
  <2>4. canal'[c] = canal[c]
    BY <2>2, <2>3 DEF TypeOK, TipoCpu
  <2>5. QED
    BY <1>v, <2>1, <2>4, BienQuieta
<1>8. ASSUME Plp \/ (\E w \in Programas : WtNar(w)) PROVE Bien(c)'
  BY <1>8, <1>q
  DEF Plp, AceptarPrograma, RechazarPrograma, PlpInterno, ProbarReadyMax, PlpAReady, PlpANew,
      OrdenarNew, MedirNew, MostrarNew, WtNar, WorkerLugar, WorkerSaca, WorkerEncola, cpuLado
<1>9. ASSUME (\E d \in Dispositivos : HiloIO(d)) \/ VaciarExit PROVE Bien(c)'
  BY <1>9, <1>q
  DEF HiloIO, IOToma, IOMideReady, IOInserta, VaciarExit, VaciarDespierta, VaciarQuita, cpuLado
<1>10. ASSUME NEW b \in CPUs, CpuSale(b) \/ CpuMuere(b) PROVE Bien(c)'
  <2>1. /\ cpu'[b].pc = "salio" /\ bajas' = bajas + 1 /\ dispatcher' = dispatcher
        /\ cpusOciosas' = cpusOciosas
        /\ \A a \in CPUs : a # b => mensajes'[a] = mensajes[a] /\ canal'[a] = canal[a] /\ cpu'[a] = cpu[a]
    BY <1>10 DEF CpuSale, CpuMuere, TypeOK, TipoCpu, TipoMensajes
  <2>2. c # b
    BY <2>1
  <2>3. /\ EnSocket(c)' = EnSocket(c) /\ EnLista(c)' = EnLista(c) /\ EnMano(c)' = EnMano(c)
        /\ EnCanal(c)' = EnCanal(c) /\ Espera(c)' = Espera(c) /\ cpu[c].pc # "salio"
    BY <1>v, <2>1, <2>2 DEF EnSocket, EnLista, EnMano, EnCanal, Espera
  <2>4. QED
    BY <1>t, <1>v, <2>1, <2>3 DEF Bien
<1>11. ASSUME NEW b \in CPUs, b # c, CpuAvanza(b) \/ CpuConecta(b) PROVE Bien(c)'
  <2>1. /\ bajas' = bajas /\ dispatcher' = dispatcher /\ cpusOciosas' = cpusOciosas
        /\ mensajes'[c] = mensajes[c] /\ canal'[c] = canal[c] /\ cpu'[c] = cpu[c]
    BY <1>11
    DEF CpuAvanza, CpuAnuncia, CpuRecibe, CpuQuantum, CpuTermina, CpuEntradaSalida, CpuConecta,
        Devuelve, TypeOK, TipoCpu, TipoMensajes
  <2>2. QED
    BY <1>v, <2>1, BienQuieta
<1>13. CASE CpuAnuncia(c)
  <2>1. /\ UNCHANGED <<bajas, cpusOciosas, canal, dispatcher>>
        /\ cpu[c].pc = "libre" /\ cpu'[c].pc = "recibe" /\ mensajes'[c] = Append(mensajes[c], Aviso)
    BY <1>13 DEF CpuAnuncia, Aviso, TypeOK, TipoCpu, TipoMensajes
  <2>2. EnSocket(c)' = EnSocket(c) + 1
    BY <1>t, <2>1, AvisoTipo, VecesAppend DEF EnSocket
  <2>3. Espera(c) = 0 /\ Espera(c)' = 1
    BY <2>1 DEF Espera
  <2>4. EnLista(c)' = EnLista(c) /\ EnMano(c)' = EnMano(c) /\ EnCanal(c)' = EnCanal(c) /\ Bien(c)
    BY <1>v, <2>1 DEF EnLista, EnMano, EnCanal
  <2>5. QED
    BY <1>t, <2>1, <2>2, <2>3, <2>4 DEF Bien
<1>14. CASE CpuRecibe(c)
  <2>1. /\ UNCHANGED <<bajas, cpusOciosas, mensajes, dispatcher>> /\ canal[c] # <<>>
        /\ cpu[c].pc = "recibe" /\ cpu'[c].pc = "ejecuta" /\ canal'[c] = Tail(canal[c])
    BY <1>14 DEF CpuRecibe, TypeOK, TipoCpu
  <2>2. EnCanal(c)' = EnCanal(c) - 1
    BY <1>t, <2>1, HeadTailProperties DEF EnCanal
  <2>3. Espera(c) = 1 /\ Espera(c)' = 0
    BY <2>1 DEF Espera
  <2>4. EnLista(c)' = EnLista(c) /\ EnMano(c)' = EnMano(c) /\ EnSocket(c)' = EnSocket(c) /\ Bien(c)
    BY <1>v, <2>1 DEF EnLista, EnMano, EnSocket
  <2>5. QED
    BY <1>t, <2>1, <2>2, <2>3, <2>4 DEF Bien
<1>15. CASE CpuQuantum(c) \/ CpuTermina(c) \/ CpuEntradaSalida(c)
  <2>1. PICK t \in {"S", "Q", "F", "E"}, e \in NombresES \cup {Nada} : Devuelve(c, t, e)
    BY <1>15 DEF CpuQuantum, CpuTermina, CpuEntradaSalida
  <2> DEFINE m == Msj(t, cpu[c].pcb, e)
  <2>2. m \in Mensaje /\ m # Aviso
    BY <2>1 DEF Devuelve, Msj, Mensaje, Aviso, TypeOK, TipoCpu
  <2>3. /\ UNCHANGED <<bajas, cpusOciosas, canal, dispatcher>>
        /\ cpu[c].pc = "ejecuta" /\ cpu'[c].pc = "libre" /\ mensajes'[c] = Append(mensajes[c], m)
    BY <2>1 DEF Devuelve, CpuLibre, TypeOK, TipoCpu, TipoMensajes
  <2> HIDE DEF m
  <2>4. EnSocket(c)' = EnSocket(c)
    BY <1>t, <2>2, <2>3, VecesAppend DEF EnSocket
  <2>5. /\ EnLista(c)' = EnLista(c) /\ EnMano(c)' = EnMano(c) /\ EnCanal(c)' = EnCanal(c)
        /\ Espera(c)' = Espera(c) /\ Bien(c)
    BY <1>v, <2>3 DEF EnLista, EnMano, EnCanal, Espera
  <2>6. QED
    BY <2>3, <2>4, <2>5 DEF Bien
<1>16. CASE UNCHANGED vars
  BY <1>16, <1>q DEF vars, cpuLado
<1>17. QED
  BY <1>n, <1>1, <1>2, <1>3, <1>4, <1>5, <1>6, <1>7, <1>8, <1>9, <1>10, <1>11, <1>12, <1>13, <1>14,
     <1>15, <1>16
  DEF Next, Dispatcher, PcpMensaje, PcpInterno, CpuAvanza, CpuEntorno

\* The counts always hold.
LEMMA InvDespachoSiempre == Spec => [](InvConexion /\ InvDespacho)
<1>1. Init => InvConexion
  <2>1. SUFFICES ASSUME Init PROVE InvConexion
    OBVIOUS
  <2>2. cpusOciosas = <<>> /\ dispatcher.cpu = Nada /\ ToSet(cpusOciosas) = {}
    BY <2>1 DEF Init, DispEspera, ToSet
  <2>3. \A s \in Sockets : s \notin ToSet(cpusOciosas) /\ s # dispatcher.cpu
    BY <2>2, ConstantesSupuestas
  <2>4. QED
    BY <2>1, <2>2, <2>3 DEF Init, InvConexion
<1>2. Init => InvDespacho
  BY DEF Init, InvDespacho, Propia
<1>3. QED
  BY <1>1, <1>2, TipoCorrecto, InvFichasSiempre, InvConexionPaso, InvDespachoPaso, PTL DEF Spec

\* A CPU process that waits has announced itself at most once, exactly once while
\* no CPU has left, and no PCB goes to one that is not waiting: with any number of
\* CPUs, programs and sockets the dispatcher sends no second PCB to a busy CPU,
\* unless the socket of that CPU has a number that was closed while the list of
\* idle CPUs or the dispatcher still held it.
THEOREM DespachoSoloAOciosa == Spec => []DespachoAOciosa
<1>1. TypeOK /\ InvDespacho => DespachoAOciosa
  <2>1. SUFFICES ASSUME TypeOK, InvDespacho, NEW c \in CPUs, Propia(c), cpu[c].pc # "salio"
                 PROVE  Avisos(c) <= Espera(c) /\ (bajas = 0 => Avisos(c) = Espera(c))
    BY DEF DespachoAOciosa, Propia, Espera
  <2>2. \A i \in DOMAIN mensajes[c] : mensajes[c][i] \in Mensaje
    <3> DEFINE q == mensajes[c]
    <3>1. q \in Seq(Mensaje)
      BY <2>1 DEF TypeOK, TipoMensajes
    <3>2. HIDE DEF q
    <3>3. DOMAIN q = 1..Len(q)
      BY <3>1, LenProperties
    <3>4. \A i \in 1..Len(q) : q[i] \in Mensaje
      BY <3>1, ElementOfSeq
    <3>5. \A i \in DOMAIN q : q[i] \in Mensaje
      BY <3>3, <3>4
    <3>6. QED
      BY <3>5 DEF q
  <2>3. {i \in DOMAIN mensajes[c] : mensajes[c][i].tipo = "O"}
            = {i \in DOMAIN mensajes[c] : mensajes[c][i] = Aviso}
    BY <2>2, SoloAvisos
  <2>4. EnSocket(c) = Cardinality({i \in DOMAIN mensajes[c] : mensajes[c][i].tipo = "O"})
    BY <2>3 DEF EnSocket, Veces
  <2>5. Avisos(c) = EnSocket(c) + EnLista(c) + EnMano(c) + EnCanal(c)
    BY <2>4 DEF Avisos, EnLista, EnMano, EnCanal, Veces
  <2>6. Bien(c)
    BY <2>1 DEF InvDespacho
  <2>7. QED
    BY <2>5, <2>6 DEF Bien
<1>2. QED
  BY <1>1, TipoCorrecto, InvDespachoSiempre, PTL

-----------------------------------------------------------------------------
(* Places and states *)

\* The state of a program whose PCB is in a place of kind k.
EstadoEn(k) ==
    CASE k \in {"new", "ready", "exit", "perdido", "destruido"} -> k
      [] k = "plp" -> IF plp.pc = "a_ready" THEN "ready" ELSE "new"
      [] k \in {"worker", "dispatcher"} -> "ready"
      [] k \in {"io", "hilo_io"} -> "block"
      [] k \in {"pcp", "canal", "mensaje", "cpu"} -> "exec"

\* The state CicloDeVida sees is that of the place the PCB is in.
LEMMA EstadoPorLugar ==
    ASSUME TypeOK, InvLugares, NEW p \in Programas, NEW k \in Clases, NEW x \in Indices,
           Esta(p, k, x)
    PROVE  EstadoDe(p) = EstadoEn(k)
<1> USE ConstantesSupuestas, Nombrados DEF InvLugares
<1>1. \A j \in Clases : \A y \in Indices : Esta(p, j, y) => j = k
  BY DEF UnSoloLugar
<1>2. /\ p \in destruidos <=> k = "destruido"
      /\ p \in ToSet(colaExit) <=> k = "exit"
      /\ p \in perdidos <=> k = "perdido"
      /\ p \in ToSet(colaNew) <=> k = "new"
      /\ p \in ToSet(colaReady) <=> k = "ready"
  BY <1>1 DEF Esta
<1>3. /\ plp.pcb = p /\ plp.pc # "ordena" <=> k = "plp"
      /\ dispatcher.pcb = p <=> k = "dispatcher"
  BY <1>1 DEF Esta
<1>4. (\E w \in Programas : worker[w].pcb = p) <=> k = "worker"
  BY <1>1 DEF Esta
<1>5. (\E d \in Dispositivos : hiloIO[d].pcb = p \/ p \in ToSet(colaIO[d])) <=> k \in {"io", "hilo_io"}
  <2>1. \A d \in Dispositivos : /\ hiloIO[d].pcb = p => k = "hilo_io"
                                /\ p \in ToSet(colaIO[d]) => k = "io"
    BY <1>1 DEF Esta
  <2>2. k \in {"io", "hilo_io"} => \E d \in Dispositivos : hiloIO[d].pcb = p \/ p \in ToSet(colaIO[d])
    BY DEF Esta
  <2>3. QED
    BY <2>1, <2>2
<1>6. programa[p] # "afuera"
  BY DEF AlgunLugar
<1>7. k = "plp" => plp.pc \in {"admision", "a_new", "a_ready"}
  BY <1>3 DEF TypeOK, TipoPlp, HilosPlp, ManosVacias
<1>8. QED
  BY <1>2, <1>3, <1>4, <1>5, <1>6, <1>7 DEF EstadoDe, EstadoEn, Clases

\* A program that has not arrived has no PCB.
LEMMA EstadoAfuera ==
    ASSUME InvLugares, NEW p \in Programas, programa[p] = "afuera"
    PROVE  EstadoDe(p) = "afuera"
<1>1. \A k \in Clases : \A x \in Indices : ~Esta(p, k, x)
  BY DEF InvLugares, AlgunLugar
<1>2. p \notin destruidos /\ p \notin ToSet(colaExit) /\ p \notin perdidos
  BY <1>1, Nombrados DEF Esta
<1>3. /\ p \notin ToSet(colaNew) /\ p \notin ToSet(colaReady) /\ dispatcher.pcb # p
      /\ plp.pcb # p \/ plp.pc = "ordena"
      /\ \A w \in Programas : worker[w].pcb # p
      /\ \A d \in Dispositivos : hiloIO[d].pcb # p /\ p \notin ToSet(colaIO[d])
  BY <1>1, Nombrados DEF Esta
<1>4. QED
  BY <1>2, <1>3 DEF EstadoDe

\* Every program is in the state of its place, or has not arrived.
EstadoSegunLugar ==
    /\ \A p \in Programas : \A k \in Clases : \A x \in Indices :
           Esta(p, k, x) => EstadoDe(p) = EstadoEn(k)
    /\ \A p \in Programas : programa[p] = "afuera" => EstadoDe(p) = "afuera"

\* In a reachable state every program is so.
LEMMA EstadosPorLugar == TypeOK /\ InvLugares => EstadoSegunLugar
BY EstadoPorLugar, EstadoAfuera DEF EstadoSegunLugar

\* When PCBs are taken to a place their programs take its state, and the others
\* keep theirs, if what the PLP is at changes for no other PCB.
LEMMA EstadosLlevados ==
    ASSUME TypeOK, TypeOK', InvLugares, InvLugares',
           NEW S, NEW k1 \in Clases, NEW x1 \in Indices, LlevaTodos(S, k1, x1),
           \A p \in Programas \ S :
               Esta(p, "plp", Nada) => (plp'.pc = "a_ready" <=> plp.pc = "a_ready")
    PROVE  \A p \in Programas : EstadoDe(p)' = IF p \in S THEN EstadoEn(k1)' ELSE EstadoDe(p)
<1>s. EstadoSegunLugar'
  BY EstadosPorLugar, PTL
<1>1. /\ \A p \in Programas : \A k \in Clases : \A x \in Indices :
             Esta(p, k, x)' => EstadoDe(p)' = EstadoEn(k)'
      /\ \A p \in Programas : programa'[p] = "afuera" => EstadoDe(p)' = "afuera"
  BY <1>s DEF EstadoSegunLugar
<1>2. ASSUME NEW p \in Programas, p \in S PROVE EstadoDe(p)' = EstadoEn(k1)'
  BY <1>1, <1>2 DEF LlevaTodos
<1>3. ASSUME NEW p \in Programas, p \notin S PROVE EstadoDe(p)' = EstadoDe(p)
  <2>1. CASE programa[p] = "afuera"
    <3>1. \A k \in Clases : \A x \in Indices : ~Esta(p, k, x)'
      BY <1>3, <2>1 DEF LlevaTodos, InvLugares, AlgunLugar
    <3>2. programa'[p] = "afuera"
      BY <3>1 DEF InvLugares, AlgunLugar
    <3>3. QED
      BY <1>1, <2>1, <3>2, EstadosPorLugar DEF EstadoSegunLugar
  <2>2. CASE programa[p] # "afuera"
    <3>1. PICK k \in Clases, x \in Indices : Esta(p, k, x)
      BY <2>2 DEF InvLugares, AlgunLugar
    <3>2. Esta(p, k, x)'
      BY <1>3, <3>1 DEF LlevaTodos
    <3>3. EstadoDe(p)' = EstadoEn(k)' /\ EstadoDe(p) = EstadoEn(k)
      BY <1>1, <3>1, <3>2, EstadosPorLugar DEF EstadoSegunLugar
    <3>4. k = "plp" => x = Nada /\ (plp'.pc = "a_ready" <=> plp.pc = "a_ready")
      BY <1>3, <3>1 DEF Esta
    <3>5. EstadoEn(k)' = EstadoEn(k)
      BY <3>4 DEF EstadoEn
    <3>6. QED
      BY <3>3, <3>5
  <2>3. QED
    BY <2>1, <2>2
<1>4. QED
  BY <1>2, <1>3

-----------------------------------------------------------------------------
(* Steps and steps of the cycle *)

Estados == [p \in Programas |-> EstadoDe(p)]

\* A step that moves no PCB is none of the cycle, if what the PLP is at does not
\* change for the PCB it holds.
LEMMA QuietaEnElCiclo ==
    ASSUME TypeOK, TypeOK', InvLugares, InvLugares', NadaSeMueve,
           plp'.pc = "a_ready" <=> plp.pc = "a_ready"
    PROVE  Estados' = Estados
<1>1. LlevaTodos({}, "new", Nada)
  BY DEF NadaSeMueve, LlevaTodos
<1>2. \A p \in Programas : EstadoDe(p)' = EstadoDe(p)
  BY <1>1, EstadosLlevados, Nombrados
<1>3. QED
  BY <1>2 DEF Estados

\* A step that takes a PCB from a place to another passes its program from the
\* state of the one to that of the other.
LEMMA LlevadaEnElCiclo ==
    ASSUME TypeOK, TypeOK', InvLugares, InvLugares',
           NEW q \in Programas, NEW k1 \in Clases, NEW x1 \in Indices, Lleva(q, k1, x1),
           \A p \in Programas \ {q} :
               Esta(p, "plp", Nada) => (plp'.pc = "a_ready" <=> plp.pc = "a_ready")
    PROVE  Estados' = [Estados EXCEPT ![q] = EstadoEn(k1)']
<1>1. LlevaTodos({q}, k1, x1)
  BY DEF Lleva
<1>2. \A p \in Programas : EstadoDe(p)' = IF p \in {q} THEN EstadoEn(k1)' ELSE EstadoDe(p)
  BY <1>1, EstadosLlevados
<1>3. QED
  BY <1>2 DEF Estados

\* Such a step is one of the cycle when the cycle allows the passage.
LEMMA PasaEnElCiclo ==
    ASSUME TypeOK, TypeOK', InvLugares, InvLugares',
           NEW q \in Programas, NEW k0 \in Clases, NEW x0 \in Indices, Esta(q, k0, x0),
           NEW k1 \in Clases, NEW x1 \in Indices, Lleva(q, k1, x1),
           plp' = plp \/ plp.pcb = q \/ plp.pcb = Nada,
           NEW desde, EstadoEn(k0) \in desde, NEW hacia, EstadoEn(k1)' = hacia
    PROVE  Ciclo!Pasa(q, desde, hacia)
<1>1. \A p \in Programas \ {q} :
         Esta(p, "plp", Nada) => (plp'.pc = "a_ready" <=> plp.pc = "a_ready")
  BY ConstantesSupuestas DEF Esta
<1>2. Estados' = [Estados EXCEPT ![q] = hacia]
  BY <1>1, LlevadaEnElCiclo
<1>3. EstadoDe(q) = EstadoEn(k0)
  BY EstadosPorLugar DEF EstadoSegunLugar
<1>4. Estados[q] \in desde
  BY <1>3 DEF Estados
<1>5. QED
  BY <1>2, <1>4 DEF Ciclo!Pasa, Estados

\* The passage of one program to "perdido" is the loss of a set of one.
LEMMA PierdeUno ==
    ASSUME NEW q \in Programas, Ciclo!Pasa(q, {"ready", "exec", "block"}, "perdido")
    PROVE  Ciclo!Next
<1>1. Ciclo!Pierden({q})
  BY DEF Ciclo!Pasa, Ciclo!Pierden
<1>2. {q} \in SUBSET Programas
  OBVIOUS
<1>3. QED
  BY <1>1, <1>2 DEF Ciclo!Next

\* PCBs that are lost together from one place are a step of the cycle.
LEMMA PierdenEnElCiclo ==
    ASSUME TypeOK, TypeOK', InvLugares, InvLugares', plp' = plp,
           NEW S \in SUBSET Programas, NEW k0 \in Clases, NEW x0 \in Indices,
           \A p \in S : Esta(p, k0, x0), EstadoEn(k0) \in {"ready", "exec", "block"},
           LlevaTodos(S, "perdido", Nada)
    PROVE  Ciclo!Next
<1>1. EstadoEn("perdido")' = "perdido"
  BY DEF EstadoEn
<1>2. \A p \in Programas : EstadoDe(p)' = IF p \in S THEN "perdido" ELSE EstadoDe(p)
  BY <1>1, EstadosLlevados, Nombrados
<1>3. \A p \in S : EstadoDe(p) \in {"ready", "exec", "block"}
  BY EstadosPorLugar DEF EstadoSegunLugar
<1>4. Ciclo!Pierden(S)
  BY <1>2, <1>3 DEF Ciclo!Pierden
<1>5. QED
  BY <1>4 DEF Ciclo!Next

\* The programs between New and Exit are those that hold a place of s_ready_max.
LEMMA ActivosTitulares == TypeOK /\ InvLugares => Ciclo!Activos = Titulares
<1> SUFFICES ASSUME TypeOK, InvLugares PROVE Ciclo!Activos = Titulares
  OBVIOUS
<1>1. \A p \in Programas : p \in Ciclo!Activos <=> EstadoDe(p) \in {"ready", "exec", "block", "perdido"}
  BY DEF Ciclo!Activos
<1>2. \A k \in Clases : EstadoEn(k) \in {"ready", "exec", "block", "perdido"} <=> ConCupo(k)
  BY DEF Clases, EstadoEn, ConCupo
<1>3. ASSUME NEW p \in Programas PROVE p \in Ciclo!Activos <=> p \in Titulares
  <2>1. CASE programa[p] = "afuera"
    <3>1. p \notin Titulares
      BY <2>1 DEF Titulares, InvLugares, AlgunLugar
    <3>2. EstadoDe(p) = "afuera"
      BY <2>1, EstadosPorLugar DEF EstadoSegunLugar
    <3>3. QED
      BY <1>1, <3>1, <3>2
  <2>2. CASE programa[p] # "afuera"
    <3>1. PICK k \in Clases, x \in Indices : Esta(p, k, x)
      BY <2>2 DEF InvLugares, AlgunLugar
    <3>2. EstadoDe(p) = EstadoEn(k)
      BY <3>1, EstadosPorLugar DEF EstadoSegunLugar
    <3>3. p \in Titulares <=> ConCupo(k)
      BY <3>1, TitularPorLugar DEF InvLugares
    <3>4. QED
      BY <1>1, <1>2, <3>2, <3>3
  <2>3. QED
    BY <2>1, <2>2
<1>4. Ciclo!Activos \subseteq Programas /\ Titulares \subseteq Programas
  BY DEF Ciclo!Activos, Titulares
<1>5. QED
  BY <1>3, <1>4

\* CicloDeVida counts as the standard module does.
LEMMA CuentaDelCiclo == \A S : Ciclo!Cardinality(S) = Cardinality(S)
BY DEF Ciclo!Cardinality, Cardinality

\* While the PLP or a worker has a place of s_ready_max for a program, the cycle
\* has room for it.
LEMMA HayLugar ==
    ASSUME TypeOK, InvLugares, Cupos, sReadyMax > 0 \/ Sacan # {}
    PROVE  Cardinality(Ciclo!Activos) < Multiprogramacion
<1> DEFINE n == Cardinality(Titulares)
           m == Cardinality(Sacan)
<1>1. n \in Nat /\ m \in Nat /\ sReadyMax \in Nat /\ Multiprogramacion \in Nat
  BY CuposFinitos, ConstantesSupuestas DEF TypeOK, TipoSemaforos
<1>2. m = 0 => Sacan = {}
  BY CuposFinitos, FS_EmptySet
<1>3. Ciclo!Activos = Titulares
  BY ActivosTitulares
<1>4. sReadyMax + n + m + (IF pcp.pc = "libera" THEN 1 ELSE 0) = Multiprogramacion
  BY DEF Cupos
<1> HIDE DEF n, m
<1>5. n < Multiprogramacion
  BY <1>1, <1>2, <1>4
<1>6. QED
  BY <1>3, <1>5 DEF n

\* Between two places of the same state the cycle stands still.
LEMMA SigueEnElCiclo ==
    ASSUME TypeOK, TypeOK', InvLugares, InvLugares',
           NEW q \in Programas, NEW k0 \in Clases, NEW x0 \in Indices, Esta(q, k0, x0),
           NEW k1 \in Clases, NEW x1 \in Indices, Lleva(q, k1, x1),
           plp' = plp \/ plp.pcb = q \/ plp.pcb = Nada,
           EstadoEn(k1)' = EstadoEn(k0)
    PROVE  Estados' = Estados
<1>1. \A p \in Programas \ {q} :
         Esta(p, "plp", Nada) => (plp'.pc = "a_ready" <=> plp.pc = "a_ready")
  BY ConstantesSupuestas DEF Esta
<1>2. Estados' = [Estados EXCEPT ![q] = EstadoEn(k0)]
  BY <1>1, LlevadaEnElCiclo
<1>3. EstadoDe(q) = EstadoEn(k0)
  BY EstadosPorLugar DEF EstadoSegunLugar
<1>4. QED
  BY <1>2, <1>3 DEF Estados

\* The states of the places; only that of the PLP depends on what it is doing.
LEMMA EstadosFijos ==
    /\ \A k \in {"new", "ready", "exit", "perdido", "destruido"} : EstadoEn(k) = k /\ EstadoEn(k)' = k
    /\ \A k \in {"worker", "dispatcher"} : EstadoEn(k) = "ready" /\ EstadoEn(k)' = "ready"
    /\ \A k \in {"io", "hilo_io"} : EstadoEn(k) = "block" /\ EstadoEn(k)' = "block"
    /\ \A k \in {"pcp", "canal", "mensaje", "cpu"} : EstadoEn(k) = "exec" /\ EstadoEn(k)' = "exec"
    /\ EstadoEn("plp") = IF plp.pc = "a_ready" THEN "ready" ELSE "new"
    /\ EstadoEn("plp")' = IF plp'.pc = "a_ready" THEN "ready" ELSE "new"
BY DEF EstadoEn

InvCiclo == TypeOK /\ InvNew /\ InvLugares /\ Cupos

\* The steps of the PLP: a program arrives, is rejected or is admitted.
LEMMA CicloPlp ==
    ASSUME InvCiclo, InvCiclo', Plp
    PROVE  Ciclo!Next \/ Estados' = Estados
<1> USE Nombrados, EstadosFijos DEF InvCiclo
<1>1. ASSUME NEW p \in Programas, AceptarPrograma(p) PROVE Ciclo!Llega(p)
  <2>1. Lleva(p, "plp", Nada)
    BY <1>1, LugarAceptarPrograma
  <2>2. plp.pc = "select" /\ plp'.pc = "admision" /\ programa[p] = "afuera"
    BY <1>1 DEF AceptarPrograma, PlpOcioso
  <2>3. \A u \in Programas : ~Esta(u, "plp", Nada)
    BY <2>2, ConstantesSupuestas DEF Esta, InvLugares, ManosVacias
  <2>4. Estados' = [Estados EXCEPT ![p] = EstadoEn("plp")']
    BY <2>1, <2>3, LlevadaEnElCiclo
  <2>5. EstadoEn("plp")' = "new" /\ EstadoDe(p) = "afuera"
    BY <2>2, EstadosPorLugar DEF EstadoSegunLugar
  <2>6. QED
    BY <2>4, <2>5 DEF Ciclo!Llega, Ciclo!Pasa, Estados
<1>2. ASSUME NEW p \in Programas, RechazarPrograma(p) PROVE Ciclo!Rebota(p)
  <2>1. Lleva(p, "exit", Nada)
    BY <1>2, LugarRechazarPrograma
  <2>2. plp' = plp /\ programa[p] = "afuera"
    BY <1>2 DEF RechazarPrograma
  <2>3. Estados' = [Estados EXCEPT ![p] = EstadoEn("exit")']
    BY <2>1, <2>2, LlevadaEnElCiclo
  <2>4. EstadoEn("exit")' = "exit" /\ EstadoDe(p) = "afuera"
    BY <2>2, EstadosPorLugar DEF EstadoSegunLugar
  <2>5. QED
    BY <2>3, <2>4 DEF Ciclo!Rebota, Ciclo!Pasa, Estados
<1>3. CASE ProbarReadyMax
  <2> DEFINE q == plp.pcb
  <2>1. NadaSeMueve /\ plp.pc = "admision" /\ q \in Programas
    BY <1>3, QuietaPlp DEF Quieta, ProbarReadyMax, TypeOK, TipoPlp
  <2>2. CASE sReadyMax > 0 /\ plp' = [plp EXCEPT !.pc = "a_ready"]
    <3>1. plp'.pc = "a_ready" /\ Esta(q, "plp", Nada) /\ plp.pcb = q
      BY <2>1, <2>2 DEF Esta, TypeOK, TipoPlp
    <3> HIDE DEF q
    <3>2. Lleva(q, "plp", Nada)
      <4>1. \A k \in Clases : \A x \in Indices : Esta(q, k, x) <=> k = "plp" /\ x = Nada
        BY <2>1, <3>1 DEF InvLugares, UnSoloLugar
      <4>2. QED
        BY <2>1, <4>1 DEF NadaSeMueve, Lleva, LlevaTodos
    <3>3. EstadoEn("plp") \in {"new"} /\ EstadoEn("plp")' = "ready"
      BY <2>1, <3>1
    <3>4. Ciclo!Pasa(q, {"new"}, "ready")
      BY <2>1, <3>1, <3>2, <3>3, PasaEnElCiclo
    <3>5. Cardinality(Ciclo!Activos) < Multiprogramacion
      BY <2>2, HayLugar
    <3>6. Ciclo!Admite(q)
      BY <3>4, <3>5, CuentaDelCiclo DEF Ciclo!Admite
    <3>7. QED
      BY <2>1, <3>6 DEF Ciclo!Next
  <2>3. CASE plp' = [plp EXCEPT !.pc = "a_new"]
    <3>1. plp'.pc = "a_new"
      BY <2>3 DEF TypeOK, TipoPlp
    <3>2. QED
      BY <2>1, <3>1, QuietaEnElCiclo
  <2>4. QED
    BY <1>3, <2>2, <2>3 DEF ProbarReadyMax
<1>4. CASE PlpAReady
  <2>1. plp.pc = "a_ready"
    BY <1>4 DEF PlpAReady
  <2>2. EstadoEn("ready")' = EstadoEn("plp")
    BY <2>1
  <2>3. QED
    BY <1>4, <2>2, LugarPlpAReady, SigueEnElCiclo
<1>5. CASE PlpANew
  <2>1. plp.pc = "a_new"
    BY <1>5 DEF PlpANew
  <2>2. EstadoEn("new")' = EstadoEn("plp")
    BY <2>1
  <2>3. QED
    BY <1>5, <2>2, LugarPlpANew, SigueEnElCiclo
<1>6. CASE OrdenarNew \/ MedirNew \/ MostrarNew
  <2>1. NadaSeMueve
    BY <1>6, QuietaPlp DEF Quieta
  <2>2. plp.pc # "a_ready" /\ plp'.pc # "a_ready"
    <3>1. CASE OrdenarNew
      BY <3>1 DEF OrdenarNew, PlpMide, PlpOcioso
    <3>2. CASE MedirNew
      BY <3>2 DEF MedirNew, PlpOcioso
    <3>3. CASE MostrarNew
      <4>1. plp.pc = "muestra" /\ plp' \in {plp, PlpOcioso, [plp EXCEPT !.i = @ + 1]}
        BY <3>3 DEF MostrarNew
      <4>2. QED
        BY <4>1 DEF PlpOcioso, TypeOK, TipoPlp
    <3>4. QED
      BY <1>6, <3>1, <3>2, <3>3
  <2>3. QED
    BY <2>1, <2>2, QuietaEnElCiclo
<1>7. QED
  BY <1>1, <1>2, <1>3, <1>4, <1>5, <1>6 DEF Plp, PlpInterno, Ciclo!Next

\* The steps of a worker: it admits the first program of New.
LEMMA CicloWorker ==
    ASSUME InvCiclo, InvCiclo', NEW w \in Programas, WtNar(w)
    PROVE  Ciclo!Next \/ Estados' = Estados
<1> USE Nombrados, EstadosFijos DEF InvCiclo
<1>1. plp' = plp
  BY DEF WtNar, WorkerLugar, WorkerSaca, WorkerEncola
<1>2. CASE WorkerLugar(w) \/ (WorkerSaca(w) /\ colaNew = <<>>)
  BY <1>1, <1>2, QuietaWorker, QuietaEnElCiclo DEF Quieta
<1>3. CASE WorkerSaca(w) /\ colaNew # <<>>
  <2>1. EstadoEn("new") \in {"new"} /\ EstadoEn("worker")' = "ready"
    OBVIOUS
  <2>2. Head(colaNew) \in Programas /\ Ciclo!Pasa(Head(colaNew), {"new"}, "ready")
    BY <1>1, <1>3, <2>1, LugarWorkerSaca, PasaEnElCiclo
  <2>3. Sacan # {}
    BY <1>3 DEF WorkerSaca, Sacan
  <2>4. Cardinality(Ciclo!Activos) < Multiprogramacion
    BY <2>3, HayLugar
  <2>5. Ciclo!Admite(Head(colaNew))
    BY <2>2, <2>4, CuentaDelCiclo DEF Ciclo!Admite
  <2>6. QED
    BY <2>2, <2>5 DEF Ciclo!Next
<1>4. CASE WorkerEncola(w)
  <2>1. EstadoEn("ready")' = EstadoEn("worker")
    OBVIOUS
  <2>2. QED
    BY <1>1, <1>4, <2>1, LugarWorkerEncola, SigueEnElCiclo
<1>5. QED
  BY <1>2, <1>3, <1>4 DEF WtNar

\* The steps of the dispatcher: a program goes to a CPU, or its PCB is lost.
LEMMA CicloDispatcher ==
    ASSUME InvCiclo, InvCiclo', Dispatcher
    PROVE  Ciclo!Next \/ Estados' = Estados
<1> USE Nombrados, EstadosFijos DEF InvCiclo
<1>1. plp' = plp
  BY DEF Dispatcher, DispEsperaPcb, DispEsperaCpu, DispTomaCpu, DispTomaPcb, DispEnvia
<1>2. CASE \/ DispEsperaPcb \/ DispEsperaCpu \/ DispTomaCpu \/ (DispTomaPcb /\ colaReady = <<>>)
  BY <1>1, <1>2, QuietaDispatcher, QuietaEnElCiclo DEF Quieta
<1>3. CASE DispTomaPcb /\ colaReady # <<>>
  <2>1. EstadoEn("dispatcher")' = EstadoEn("ready")
    OBVIOUS
  <2>2. QED
    BY <1>1, <1>3, <2>1, LugarDispTomaPcb, SigueEnElCiclo
<1>4. CASE DispEnvia
  <2> DEFINE q == dispatcher.pcb
  <2>1. /\ q \in Programas /\ Esta(q, "dispatcher", Nada)
        /\ (\E c \in CPUs : Lleva(q, "canal", c)) \/ Lleva(q, "perdido", Nada)
    BY <1>4, LugarDispEnvia
  <2> HIDE DEF q
  <2>2. ASSUME NEW c \in CPUs, Lleva(q, "canal", c) PROVE Ciclo!Despacha(q)
    <3>1. EstadoEn("dispatcher") \in {"ready"} /\ EstadoEn("canal")' = "exec"
      OBVIOUS
    <3>2. QED
      BY <1>1, <2>1, <2>2, <3>1, PasaEnElCiclo DEF Ciclo!Despacha
  <2>3. ASSUME Lleva(q, "perdido", Nada) PROVE Ciclo!Next
    <3>1. EstadoEn("dispatcher") \in {"ready", "exec", "block"} /\ EstadoEn("perdido")' = "perdido"
      OBVIOUS
    <3>2. QED
      BY <1>1, <2>1, <2>3, <3>1, PasaEnElCiclo, PierdeUno
  <2>4. QED
    BY <2>1, <2>2, <2>3 DEF Ciclo!Next
<1>5. QED
  BY <1>2, <1>3, <1>4 DEF Dispatcher

\* The steps of the PCP on a message: a program ends, waits for a device or is
\* lost asking for one that does not exist.
LEMMA CicloPcpMensaje ==
    ASSUME InvCiclo, InvCiclo', NEW c \in CPUs, PcpMensaje(c)
    PROVE  Ciclo!Next \/ Estados' = Estados
<1> USE Nombrados, EstadosFijos DEF InvCiclo
<1> DEFINE q == Head(mensajes[c]).pcb
<1>1. plp' = plp
  BY DEF PcpMensaje, PcpOciosa, PcpMideReady, PcpTermina, PcpEntradaSalida, PcpDesconexion
<1>2. CASE PcpOciosa(c) \/ PcpDesconexion(c)
  BY <1>1, <1>2, QuietaPcpMensaje, QuietaEnElCiclo DEF Quieta
<1>3. CASE PcpMideReady(c)
  <2>1. EstadoEn("pcp")' = EstadoEn("mensaje")
    OBVIOUS
  <2>2. QED
    BY <1>1, <1>3, <2>1, LugarPcpMideReady, SigueEnElCiclo
<1>4. CASE PcpTermina(c)
  <2>1. q \in Programas /\ Esta(q, "mensaje", c) /\ Lleva(q, "exit", Nada)
    BY <1>4, LugarPcpTermina
  <2> HIDE DEF q
  <2>2. EstadoEn("mensaje") \in {"exec"} /\ EstadoEn("exit")' = "exit"
    OBVIOUS
  <2>3. Ciclo!Termina(q)
    BY <1>1, <2>1, <2>2, PasaEnElCiclo DEF Ciclo!Termina
  <2>4. QED
    BY <2>1, <2>3 DEF Ciclo!Next
<1>5. CASE PcpEntradaSalida(c)
  <2>1. /\ q \in Programas /\ Esta(q, "mensaje", c)
        /\ (\E d \in Dispositivos : Lleva(q, "io", d)) \/ Lleva(q, "perdido", Nada)
    BY <1>5, LugarPcpEntradaSalida
  <2> HIDE DEF q
  <2>2. ASSUME NEW d \in Dispositivos, Lleva(q, "io", d) PROVE Ciclo!Bloquea(q)
    <3>1. EstadoEn("mensaje") \in {"exec"} /\ EstadoEn("io")' = "block"
      OBVIOUS
    <3>2. QED
      BY <1>1, <2>1, <2>2, <3>1, PasaEnElCiclo DEF Ciclo!Bloquea
  <2>3. ASSUME Lleva(q, "perdido", Nada) PROVE Ciclo!Next
    <3>1. EstadoEn("mensaje") \in {"ready", "exec", "block"} /\ EstadoEn("perdido")' = "perdido"
      OBVIOUS
    <3>2. QED
      BY <1>1, <2>1, <2>3, <3>1, PasaEnElCiclo, PierdeUno
  <2>4. QED
    BY <2>1, <2>2, <2>3 DEF Ciclo!Next
<1>6. QED
  BY <1>2, <1>3, <1>4, <1>5 DEF PcpMensaje

\* The other steps of the PCP: the PCB of a quantum goes to Ready, or is lost, as
\* those are that a CPU had not read when its connection is closed.
LEMMA CicloPcpInterno ==
    ASSUME InvCiclo, InvCiclo', PcpInterno
    PROVE  Ciclo!Next \/ Estados' = Estados
<1> USE Nombrados, EstadosFijos DEF InvCiclo
<1>1. plp' = plp
  BY DEF PcpInterno, PcpInserta, PcpLibera, PcpBusca, PcpQuita, PcpCierra
<1>2. CASE PcpLibera \/ PcpBusca \/ PcpQuita
  BY <1>1, <1>2, QuietaPcpInterno, QuietaEnElCiclo DEF Quieta
<1>3. CASE PcpInserta
  <2> DEFINE q == pcp.pcb
  <2>1. /\ q \in Programas /\ Esta(q, "pcp", Nada)
        /\ Lleva(q, "ready", Nada) \/ Lleva(q, "perdido", Nada)
    BY <1>3, LugarPcpInserta
  <2> HIDE DEF q
  <2>2. ASSUME Lleva(q, "ready", Nada) PROVE Ciclo!Desaloja(q)
    <3>1. EstadoEn("pcp") \in {"exec"} /\ EstadoEn("ready")' = "ready"
      OBVIOUS
    <3>2. QED
      BY <1>1, <2>1, <2>2, <3>1, PasaEnElCiclo DEF Ciclo!Desaloja
  <2>3. ASSUME Lleva(q, "perdido", Nada) PROVE Ciclo!Next
    <3>1. EstadoEn("pcp") \in {"ready", "exec", "block"} /\ EstadoEn("perdido")' = "perdido"
      OBVIOUS
    <3>2. QED
      BY <1>1, <2>1, <2>3, <3>1, PasaEnElCiclo, PierdeUno
  <2>4. QED
    BY <2>1, <2>2, <2>3 DEF Ciclo!Next
<1>4. CASE PcpCierra
  <2>1. PICK c \in CPUs : /\ \A p \in Programas : p \in ToSet(canal[c]) <=> Esta(p, "canal", c)
                          /\ LlevaTodos(ToSet(canal[c]), "perdido", Nada)
    BY <1>4, LugarPcpCierra
  <2>2. ToSet(canal[c]) \in SUBSET Programas
    <3>1. canal[c] \in Seq(Programas)
      BY DEF TypeOK, TipoCpu
    <3>2. QED
      BY <3>1, LenProperties, ElementOfSeq DEF ToSet
  <2>3. EstadoEn("canal") \in {"ready", "exec", "block"}
    OBVIOUS
  <2>4. QED
    BY <1>1, <2>1, <2>2, <2>3, PierdenEnElCiclo
<1>5. QED
  BY <1>2, <1>3, <1>4 DEF PcpInterno

\* The steps of a device thread: a program leaves the device for Ready, or is lost.
LEMMA CicloIO ==
    ASSUME InvCiclo, InvCiclo', NEW d \in Dispositivos, HiloIO(d)
    PROVE  Ciclo!Next \/ Estados' = Estados
<1> USE Nombrados, EstadosFijos DEF InvCiclo
<1>1. plp' = plp
  BY DEF HiloIO, IOToma, IOMideReady, IOInserta
<1>2. CASE IOMideReady(d)
  BY <1>1, <1>2, QuietaIOyVaciar, QuietaEnElCiclo DEF Quieta
<1>3. CASE IOToma(d)
  <2>1. EstadoEn("hilo_io")' = EstadoEn("io")
    OBVIOUS
  <2>2. QED
    BY <1>1, <1>3, <2>1, LugarIOToma, SigueEnElCiclo
<1>4. CASE IOInserta(d)
  <2> DEFINE q == hiloIO[d].pcb
  <2>1. /\ q \in Programas /\ Esta(q, "hilo_io", d)
        /\ Lleva(q, "ready", Nada) \/ Lleva(q, "perdido", Nada)
    BY <1>4, LugarIOInserta
  <2> HIDE DEF q
  <2>2. ASSUME Lleva(q, "ready", Nada) PROVE Ciclo!Desbloquea(q)
    <3>1. EstadoEn("hilo_io") \in {"block"} /\ EstadoEn("ready")' = "ready"
      OBVIOUS
    <3>2. QED
      BY <1>1, <2>1, <2>2, <3>1, PasaEnElCiclo DEF Ciclo!Desbloquea
  <2>3. ASSUME Lleva(q, "perdido", Nada) PROVE Ciclo!Next
    <3>1. EstadoEn("hilo_io") \in {"ready", "exec", "block"} /\ EstadoEn("perdido")' = "perdido"
      OBVIOUS
    <3>2. QED
      BY <1>1, <2>1, <2>3, <3>1, PasaEnElCiclo, PierdeUno
  <2>4. QED
    BY <2>1, <2>2, <2>3 DEF Ciclo!Next
<1>5. QED
  BY <1>2, <1>3, <1>4 DEF HiloIO

\* The steps of vaciar_exit: the segments of a program are destroyed.
LEMMA CicloVaciar ==
    ASSUME InvCiclo, InvCiclo', VaciarExit
    PROVE  Ciclo!Next \/ Estados' = Estados
<1> USE Nombrados, EstadosFijos DEF InvCiclo
<1>1. plp' = plp
  BY DEF VaciarExit, VaciarDespierta, VaciarQuita
<1>2. CASE VaciarDespierta \/ (VaciarQuita /\ vaciar.i >= Len(colaExit))
  BY <1>1, <1>2, QuietaIOyVaciar, QuietaEnElCiclo DEF Quieta
<1>3. CASE VaciarQuita /\ vaciar.i < Len(colaExit)
  <2> DEFINE q == colaExit[vaciar.i + 1]
  <2>1. q \in Programas /\ Esta(q, "exit", Nada) /\ Lleva(q, "destruido", Nada)
    BY <1>3, LugarVaciarQuita
  <2> HIDE DEF q
  <2>2. EstadoEn("exit") \in {"exit"} /\ EstadoEn("destruido")' = "destruido"
    OBVIOUS
  <2>3. Ciclo!Destruye(q)
    BY <1>1, <2>1, <2>2, PasaEnElCiclo DEF Ciclo!Destruye
  <2>4. QED
    BY <2>1, <2>3 DEF Ciclo!Next
<1>4. vaciar.i \in Nat /\ Len(colaExit) \in Nat
  BY LenProperties DEF TypeOK, TipoVaciar, TipoColas
<1>5. QED
  BY <1>2, <1>3, <1>4 DEF VaciarExit

\* The steps of a CPU that goes on: its program stays on it.
LEMMA CicloCpu ==
    ASSUME InvCiclo, InvCiclo', NEW c \in CPUs, CpuAvanza(c) \/ CpuConecta(c) \/ CpuSale(c)
    PROVE  Estados' = Estados
<1> USE Nombrados, EstadosFijos DEF InvCiclo
<1>1. plp' = plp
  BY DEF CpuAvanza, CpuAnuncia, CpuRecibe, CpuQuantum, CpuTermina, CpuEntradaSalida, Devuelve,
         CpuConecta, CpuSale
<1>2. CASE CpuConecta(c) \/ CpuAnuncia(c)
  BY <1>1, <1>2, QuietaCpu, QuietaEnElCiclo DEF Quieta
<1>3. CASE CpuRecibe(c)
  <2>1. EstadoEn("cpu")' = EstadoEn("canal")
    OBVIOUS
  <2>2. QED
    BY <1>1, <1>3, <2>1, LugarCpuRecibe, SigueEnElCiclo
<1>4. EstadoEn("mensaje")' = EstadoEn("cpu")
  OBVIOUS
<1>5. CASE CpuQuantum(c) \/ CpuTermina(c) \/ CpuEntradaSalida(c)
  <2>1. PICK t \in {"S", "Q", "F", "E"}, e \in NombresES \cup {Nada} : Devuelve(c, t, e)
    BY <1>5 DEF CpuQuantum, CpuTermina, CpuEntradaSalida
  <2>2. QED
    BY <1>1, <1>4, <2>1, LugarDevuelve, SigueEnElCiclo
<1>6. CASE CpuSale(c)
  BY <1>1, <1>4, <1>6, LugarCpuSale, SigueEnElCiclo
<1>7. QED
  BY <1>2, <1>3, <1>5, <1>6 DEF CpuAvanza

\* Every step of the scheduler is a step of the cycle or none.
LEMMA CicloPaso ==
    ASSUME InvCiclo, InvCiclo', [Next]_vars
    PROVE  Ciclo!Next \/ Estados' = Estados
<1> USE Nombrados DEF InvCiclo
<1>1. ASSUME NEW c \in CPUs, CpuMuere(c) PROVE Ciclo!Next
  <2>1. plp' = plp
    BY <1>1 DEF CpuMuere
  <2>2. /\ LlevaTodos(PcbsDeCpu(c), "perdido", Nada)
        /\ \A p \in Programas : p \in PcbsDeCpu(c) <=> Esta(p, "cpu", c)
    BY <1>1, LugarCpuMuere
  <2>3. PcbsDeCpu(c) \in SUBSET Programas
    BY DEF PcbsDeCpu, TypeOK, TipoCpu, Pcb
  <2>4. EstadoEn("cpu") \in {"ready", "exec", "block"}
    BY EstadosFijos
  <2>5. QED
    BY <2>1, <2>2, <2>3, <2>4, PierdenEnElCiclo
<1>2. CASE UNCHANGED vars
  <2>1. plp' = plp
    BY <1>2 DEF vars
  <2>2. QED
    BY <1>2, <2>1, QuietaTartamudeo, QuietaEnElCiclo DEF Quieta
<1>3. QED
  BY <1>1, <1>2, CicloPlp, CicloWorker, CicloDispatcher, CicloPcpMensaje, CicloPcpInterno, CicloIO,
     CicloVaciar, CicloCpu
  DEF Next, CpuEntorno

\* The scheduler implements the life cycle: whatever the threads, the programs
\* and the CPUs do, every program goes through the states of CicloDeVida in its
\* order, and no more than Multiprogramacion are between New and Exit.
THEOREM ElCicloSeCumple == Spec => CumpleCiclo
<1>1. Init => Ciclo!Init
  <2>1. ASSUME Init, NEW p \in Programas PROVE EstadoDe(p) = "afuera"
    <3>1. InvLugares /\ programa[p] = "afuera"
      BY <2>1, LugaresInicial DEF Init
    <3>2. QED
      BY <3>1, EstadoAfuera
  <2>2. QED
    BY <2>1 DEF Ciclo!Init
<1>2. TypeOK /\ InvLugares /\ CuposConservados => Cupos
  BY ConLugarPorLugar DEF Cupos, CuposConservados, Sacan
<1>3. Spec => []InvCiclo
  BY <1>2, TipoCorrecto, InvNewSiempre, InvLugaresSiempre, CuposSiempreConservados,
     PTL DEF InvCiclo
<1>4. InvCiclo /\ InvCiclo' /\ [Next]_vars => [Ciclo!Next]_([p \in Programas |-> EstadoDe(p)])
  BY CicloPaso DEF Estados
<1>5. QED
  BY <1>1, <1>3, <1>4, PTL DEF Spec, CumpleCiclo, Ciclo!Spec
=============================================================================
