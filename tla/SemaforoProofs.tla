--------------------------- MODULE SemaforoProofs ---------------------------
(***************************************************************************)
(* The semaphores of the scripts, for any number of processes, semaphores  *)
(* and calls: a process is in one place, a question has one answer, every  *)
(* variable has its type, and the value of a semaphore is accounted for.   *)
(* The first three hold only together: a second copy of a process could    *)
(* ask a second question before the first is answered, and the answer to   *)
(* the one could block the process on the semaphore of the other.          *)
(***************************************************************************)
EXTENDS PropsSemaforo, ListasProofs

-----------------------------------------------------------------------------
(* The places of a process *)

Clases == {"cpu", "mensaje", "pcp", "wait", "hilo", "ready", "perdido"}
Indices == Semaforos \cup {Nadie}

\* How many of the messages s are of kind t.
DeTipo(s, t) == Cardinality({i \in DOMAIN s : s[i].tipo = t})

\* Process p is in place x of kind k.
Esta(p, k, x) ==
    \/ k = "cpu" /\ x = Nadie /\ proc[p].pc # "fuera"
    \/ k = "mensaje" /\ x = Nadie /\ DeTipo(mensajes[p], "wait") > 0
    \/ k = "pcp" /\ x = Nadie /\ pcp.pc = "encola" /\ pcp.p = p
    \/ k = "wait" /\ x \in Semaforos /\ p \in ToSet(enWait[x])
    \/ k = "hilo" /\ x \in Semaforos /\ hilo[x].p = p
    \/ k = "ready" /\ x = Nadie /\ p \in ToSet(colaReady)
    \/ k = "perdido" /\ x = Nadie /\ p \in perdidos

\* Every process is in a place, and in no other.
UnSoloLugar ==
    \A p \in Procesos :
        /\ \E k \in Clases : \E x \in Indices : Esta(p, k, x)
        /\ \A k, j \in Clases : \A x, y \in Indices : Esta(p, k, x) /\ Esta(p, j, y) => k = j /\ x = y

\* No list has a process twice, nor a socket two PCBs, and a thread that has not
\* taken a process yet holds none.
SinCopias ==
    /\ \A s \in Semaforos : SinRepetir(enWait[s])
    /\ SinRepetir(colaReady)
    /\ \A p \in Procesos : DeTipo(mensajes[p], "wait") <= 1
    /\ \A s \in Semaforos : hilo[s].pc \notin {"mide", "inserta"} => hilo[s].p = Nadie

\* A question is about the semaphore its process waits for, and only a process
\* that is to block on a semaphore that exists is told no or sends its PCB.
MismoNombre ==
    \A p \in Procesos :
        /\ \A i \in DOMAIN mensajes[p] :
               /\ mensajes[p][i].tipo = "wait?" => mensajes[p][i].s = proc[p].s
               /\ mensajes[p][i].tipo = "wait" => mensajes[p][i].s \in Semaforos
        /\ respuesta[p] = "no" => proc[p].s \in Semaforos

\* The inductive invariant.
InvSemaforo == TypeOK /\ UnSoloLugar /\ SinCopias /\ UnaRespuesta /\ MismoNombre

-----------------------------------------------------------------------------
(* Messages *)

\* Counting the messages of a kind when one is sent...
LEMMA DeTipoAppend ==
    ASSUME NEW s \in Seq(Mensaje), NEW m \in Mensaje, NEW t
    PROVE  /\ DeTipo(s, t) \in Nat /\ Append(s, m) \in Seq(Mensaje)
           /\ DeTipo(Append(s, m), t) = DeTipo(s, t) + (IF m.tipo = t THEN 1 ELSE 0)
           /\ \A i \in DOMAIN Append(s, m) : Append(s, m)[i] = m \/ \E j \in DOMAIN s : Append(s, m)[i] = s[j]
<1> DEFINE T == {"wait?", "wait", "signal"}
           r == [i \in 1..Len(s) |-> s[i].tipo]
           u == Append(s, m)
           v == [i \in 1..Len(u) |-> u[i].tipo]
<1>1. /\ u \in Seq(Mensaje) /\ Len(s) \in Nat /\ Len(u) = Len(s) + 1 /\ DOMAIN s = 1..Len(s)
      /\ DOMAIN u = 1..Len(u) /\ u[Len(s) + 1] = m /\ \A i \in 1..Len(s) : u[i] = s[i]
      /\ \A i \in 1..Len(s) : s[i] \in Mensaje
  BY AppendProperties, LenProperties, ElementOfSeq
<1>2. m.tipo \in T /\ \A i \in 1..Len(s) : s[i].tipo \in T
  BY <1>1 DEF Mensaje
<1> HIDE DEF u, T
<1>3. r \in Seq(T) /\ Len(r) = Len(s) /\ DOMAIN r = 1..Len(s)
  BY <1>1, <1>2, IsASeq, LenProperties
<1>4. v = Append(r, m.tipo)
  <2>1. /\ Append(r, m.tipo) \in Seq(T) /\ Len(Append(r, m.tipo)) = Len(s) + 1
        /\ Append(r, m.tipo)[Len(s) + 1] = m.tipo
        /\ \A i \in 1..Len(s) : Append(r, m.tipo)[i] = r[i]
    BY <1>2, <1>3, AppendProperties
  <2>2. v \in Seq(T) /\ Len(v) = Len(s) + 1
    BY <1>1, <1>2, IsASeq, LenProperties
  <2>3. \A i \in 1..Len(s) + 1 : v[i] = Append(r, m.tipo)[i]
    BY <1>1, <2>1
  <2> HIDE DEF v, r
  <2>4. QED
    BY <2>1, <2>2, <2>3, SeqEqual
<1>5. DeTipo(s, t) = Veces(r, t) /\ DeTipo(u, t) = Veces(v, t)
  <2>1. {i \in DOMAIN s : s[i].tipo = t} = {i \in DOMAIN r : r[i] = t}
    BY <1>1, <1>3
  <2>2. DOMAIN v = DOMAIN u
    BY <1>1
  <2>3. {i \in DOMAIN u : u[i].tipo = t} = {i \in DOMAIN v : v[i] = t}
    BY <1>1, <2>2
  <2> HIDE DEF v, r
  <2>4. QED
    BY <2>1, <2>3 DEF DeTipo, Veces
<1> HIDE DEF v, r
<1>6. Veces(r, t) \in Nat /\ Veces(v, t) = Veces(r, t) + (IF m.tipo = t THEN 1 ELSE 0)
  <2>1. Veces(r, t) \in Nat
    BY <1>3, VecesTipo
  <2>2. \A y \in T : Veces(Append(r, y), t) = Veces(r, t) + (IF y = t THEN 1 ELSE 0)
    BY <1>3, VecesAppend
  <2>3. QED
    BY <1>2, <1>4, <2>1, <2>2
<1>7. \A i \in DOMAIN u : u[i] = m \/ \E j \in DOMAIN s : u[i] = s[j]
  <2>1. \A i \in 1..Len(u) : i = Len(s) + 1 \/ i \in 1..Len(s)
    BY <1>1
  <2>2. QED
    BY <1>1, <2>1
<1>8. QED
  BY <1>1, <1>5, <1>6, <1>7 DEF u

\* ... and when one is received.
LEMMA DeTipoTail ==
    ASSUME NEW s \in Seq(Mensaje), s # <<>>, NEW t
    PROVE  /\ Head(s) \in Mensaje /\ Tail(s) \in Seq(Mensaje) /\ DeTipo(Tail(s), t) \in Nat
           /\ DeTipo(s, t) = DeTipo(Tail(s), t) + (IF Head(s).tipo = t THEN 1 ELSE 0)
           /\ \A i \in DOMAIN Tail(s) : \E j \in DOMAIN s : Tail(s)[i] = s[j]
           /\ \E j \in DOMAIN s : Head(s) = s[j]
<1> DEFINE T == {"wait?", "wait", "signal"}
           r == [i \in 1..Len(s) |-> s[i].tipo]
           u == Tail(s)
           v == [i \in 1..Len(u) |-> u[i].tipo]
<1>1. /\ u \in Seq(Mensaje) /\ Len(s) \in Nat /\ Len(s) > 0 /\ Len(u) = Len(s) - 1
      /\ DOMAIN s = 1..Len(s) /\ DOMAIN u = 1..Len(u) /\ Head(s) = s[1]
      /\ \A i \in 1..Len(u) : u[i] = s[i + 1]
      /\ \A i \in 1..Len(s) : s[i] \in Mensaje
  BY HeadTailProperties, LenProperties, ElementOfSeq
<1>2. \A i \in 1..Len(s) : s[i].tipo \in T
  BY <1>1 DEF Mensaje
<1> HIDE DEF u, T
<1>3. r \in Seq(T) /\ Len(r) = Len(s) /\ DOMAIN r = 1..Len(s)
  BY <1>1, <1>2, IsASeq, LenProperties
<1>4. r # <<>> /\ Head(r) = s[1].tipo
  BY <1>1, <1>3, EmptySeq, HeadTailProperties
<1>5. v = Tail(r)
  <2>1. /\ Tail(r) \in Seq(T) /\ Len(Tail(r)) = Len(s) - 1
        /\ \A i \in 1..Len(s) - 1 : Tail(r)[i] = r[i + 1]
    BY <1>3, <1>4, HeadTailProperties
  <2>2. \A i \in 1..Len(u) : u[i].tipo \in T
    BY <1>1, <1>2
  <2>3. v \in Seq(T) /\ Len(v) = Len(s) - 1
    BY <1>1, <2>2, IsASeq, LenProperties
  <2>4. \A i \in 1..Len(s) - 1 : v[i] = Tail(r)[i]
    BY <1>1, <2>1
  <2> HIDE DEF v, r
  <2>5. QED
    BY <2>1, <2>3, <2>4, SeqEqual
<1>6. DeTipo(s, t) = Veces(r, t) /\ DeTipo(u, t) = Veces(v, t)
  <2>1. {i \in DOMAIN s : s[i].tipo = t} = {i \in DOMAIN r : r[i] = t}
    BY <1>1, <1>3
  <2>2. DOMAIN v = DOMAIN u
    BY <1>1
  <2>3. {i \in DOMAIN u : u[i].tipo = t} = {i \in DOMAIN v : v[i] = t}
    BY <1>1, <2>2
  <2> HIDE DEF v, r
  <2>4. QED
    BY <2>1, <2>3 DEF DeTipo, Veces
<1>7. Tail(r) \in Seq(T)
  BY <1>3, <1>4, HeadTailProperties
<1> HIDE DEF v, r
<1>8. Veces(v, t) \in Nat /\ Veces(r, t) = Veces(v, t) + (IF s[1].tipo = t THEN 1 ELSE 0)
  BY <1>3, <1>4, <1>5, <1>7, VecesTipo, VecesTail
<1>9. \A i \in DOMAIN u : \E j \in DOMAIN s : u[i] = s[j]
  <2>1. \A i \in 1..Len(u) : i + 1 \in 1..Len(s)
    BY <1>1
  <2>2. QED
    BY <1>1, <2>1
<1>10. QED
  BY <1>1, <1>6, <1>8, <1>9 DEF u

\* The PCP receives the first message of a CPU.
LEMMA MensajeRecibido ==
    ASSUME TypeOK, NEW p \in Procesos, NEW t, Recibe(p, t)
    PROVE  /\ pcp.pc = "select" /\ Head(mensajes[p]) \in Mensaje
           /\ Head(mensajes[p]).tipo = t /\ Head(mensajes[p]).s \in Nombres
           /\ \E j \in DOMAIN mensajes[p] : Head(mensajes[p]) = mensajes[p][j]
           /\ mensajes' \in [Procesos -> Seq(Mensaje)]
           /\ \A q \in Procesos : q # p => mensajes'[q] = mensajes[q]
           /\ \A u : /\ DeTipo(mensajes'[p], u) \in Nat
                     /\ DeTipo(mensajes[p], u) = DeTipo(mensajes'[p], u) + (IF t = u THEN 1 ELSE 0)
           /\ \A i \in DOMAIN mensajes'[p] : \E j \in DOMAIN mensajes[p] : mensajes'[p][i] = mensajes[p][j]
<1>1. /\ pcp.pc = "select" /\ mensajes[p] # <<>> /\ Head(mensajes[p]).tipo = t
      /\ mensajes \in [Procesos -> Seq(Mensaje)] /\ mensajes[p] \in Seq(Mensaje)
      /\ mensajes' = [mensajes EXCEPT ![p] = Tail(mensajes[p])]
  BY DEF Recibe, TypeOK, TipoSistema
<1>2. /\ Head(mensajes[p]) \in Mensaje /\ Tail(mensajes[p]) \in Seq(Mensaje)
      /\ \A i \in DOMAIN Tail(mensajes[p]) : \E j \in DOMAIN mensajes[p] : Tail(mensajes[p])[i] = mensajes[p][j]
      /\ \E j \in DOMAIN mensajes[p] : Head(mensajes[p]) = mensajes[p][j]
  BY <1>1, DeTipoTail
<1>3. \A u : /\ DeTipo(Tail(mensajes[p]), u) \in Nat
             /\ DeTipo(mensajes[p], u) = DeTipo(Tail(mensajes[p]), u) + (IF t = u THEN 1 ELSE 0)
  BY <1>1, DeTipoTail
<1>4. /\ mensajes' \in [Procesos -> Seq(Mensaje)] /\ mensajes'[p] = Tail(mensajes[p])
      /\ \A q \in Procesos : q # p => mensajes'[q] = mensajes[q]
  BY <1>1, <1>2
<1>5. Head(mensajes[p]).s \in Nombres
  BY <1>2 DEF Mensaje
<1>6. QED
  BY <1>1, <1>2, <1>3, <1>4, <1>5

\* A CPU sends one.
LEMMA MensajeEnviado ==
    ASSUME TypeOK, NEW p \in Procesos, NEW m \in Mensaje,
           mensajes' = [mensajes EXCEPT ![p] = Append(@, m)]
    PROVE  /\ mensajes' \in [Procesos -> Seq(Mensaje)]
           /\ \A q \in Procesos : q # p => mensajes'[q] = mensajes[q]
           /\ \A u : /\ DeTipo(mensajes[p], u) \in Nat
                     /\ DeTipo(mensajes'[p], u) = DeTipo(mensajes[p], u) + (IF m.tipo = u THEN 1 ELSE 0)
           /\ \A i \in DOMAIN mensajes'[p] :
                  mensajes'[p][i] = m \/ \E j \in DOMAIN mensajes[p] : mensajes'[p][i] = mensajes[p][j]
<1>1. /\ mensajes \in [Procesos -> Seq(Mensaje)] /\ mensajes[p] \in Seq(Mensaje)
      /\ mensajes' = [mensajes EXCEPT ![p] = Append(mensajes[p], m)]
  BY DEF TypeOK, TipoSistema
<1>2. /\ Append(mensajes[p], m) \in Seq(Mensaje)
      /\ \A i \in DOMAIN Append(mensajes[p], m) :
             Append(mensajes[p], m)[i] = m \/ \E j \in DOMAIN mensajes[p] : Append(mensajes[p], m)[i] = mensajes[p][j]
  BY <1>1, DeTipoAppend
<1>3. \A u : /\ DeTipo(mensajes[p], u) \in Nat
             /\ DeTipo(Append(mensajes[p], m), u) = DeTipo(mensajes[p], u) + (IF m.tipo = u THEN 1 ELSE 0)
  BY <1>1, DeTipoAppend
<1>4. /\ mensajes' \in [Procesos -> Seq(Mensaje)] /\ mensajes'[p] = Append(mensajes[p], m)
      /\ \A q \in Procesos : q # p => mensajes'[q] = mensajes[q]
  BY <1>1, <1>2
<1>5. QED
  BY <1>2, <1>3, <1>4

-----------------------------------------------------------------------------
(* TypeOK *)

\* What a PCB that is received names, and what a blocked process waits for, is a
\* semaphore of the kernel.
LEMMA NombreConocido ==
    ASSUME InvSemaforo, NEW p \in Procesos
    PROVE  /\ Recibe(p, "wait") => Head(mensajes[p]).s \in Semaforos
           /\ respuesta[p] = "no" => proc[p].s \in Semaforos
<1>1. ASSUME Recibe(p, "wait") PROVE Head(mensajes[p]).s \in Semaforos
  <2>1. TypeOK /\ MismoNombre
    BY DEF InvSemaforo
  <2>2. /\ Head(mensajes[p]).tipo = "wait"
        /\ \E j \in DOMAIN mensajes[p] : Head(mensajes[p]) = mensajes[p][j]
    BY <1>1, <2>1, MensajeRecibido
  <2>3. QED
    BY <2>1, <2>2 DEF MismoNombre
<1>2. QED
  BY <1>1 DEF InvSemaforo, MismoNombre

\* Every step keeps the types.
LEMMA TipoPaso == InvSemaforo /\ [Next]_vars => TypeOK'
<1> SUFFICES ASSUME InvSemaforo, [Next]_vars PROVE TypeOK'
  OBVIOUS
<1>c. Semaforos \subseteq Nombres /\ MaxOps \in Nat
  BY SupuestosSemaforo
<1>t. TipoSistema /\ TipoValores /\ TipoHilos /\ TipoHistoria /\ TypeOK
  BY DEF InvSemaforo, TypeOK
<1>m. \A p \in Procesos : \A s \in Nombres : \A t \in {"wait?", "wait", "signal"} : Msj(t, s) \in Mensaje
  BY DEF Msj, Mensaje
<1>1. ASSUME NEW p \in Procesos, Script(p) PROVE TypeOK'
  <2>1. PICK s \in Nombres : Pregunta(p, s) \/ Senial(p, s)
    BY <1>1 DEF Script
  <2>2. PICK t \in {"wait?", "signal"} : Llama(p, t, s)
    BY <2>1 DEF Pregunta, Senial
  <2>3. mensajes' \in [Procesos -> Seq(Mensaje)]
    BY <1>t, <1>m, <2>2, MensajeEnviado DEF Llama
  <2>4. TipoSistema'
    <3>1. ops' \in [Procesos -> 0..MaxOps] /\ respuesta' = respuesta
      BY <1>c, <1>t, <2>1, <2>2 DEF Pregunta, Senial, Llama, TipoSistema
    <3>2. proc' = proc \/ proc' = [proc EXCEPT ![p] = [pc |-> "pregunta", s |-> s]]
      BY <2>1 DEF Pregunta, Senial
    <3>3. proc' \in [Procesos -> [pc : {"corre", "pregunta", "fuera"}, s : Nombres \cup {Nadie}]]
      <4>1. proc \in [Procesos -> [pc : {"corre", "pregunta", "fuera"}, s : Nombres \cup {Nadie}]]
        BY <1>t DEF TipoSistema
      <4>2. [pc |-> "pregunta", s |-> s] \in [pc : {"corre", "pregunta", "fuera"}, s : Nombres \cup {Nadie}]
        OBVIOUS
      <4>3. QED
        BY <3>2, <4>1, <4>2
    <3>4. QED
      BY <1>t, <2>3, <3>1, <3>3 DEF TipoSistema
  <2>5. TipoValores' /\ TipoHilos' /\ TipoHistoria'
    BY <1>t, <2>1 DEF Pregunta, Senial, TipoValores, TipoHilos, TipoHistoria, ready, cuentas
  <2>6. QED
    BY <2>4, <2>5 DEF TypeOK
<1>2. ASSUME NEW p \in Procesos, Cpu(p) PROVE TypeOK'
  <2>1. mensajes' \in [Procesos -> Seq(Mensaje)]
    <3>1. CASE Sigue(p)
      BY <1>t, <3>1 DEF Sigue, TipoSistema
    <3>2. CASE SeBloquea(p)
      <4>1. proc[p].s \in Nombres
        BY <1>c, <3>2, NombreConocido DEF SeBloquea
      <4>2. QED
        BY <1>t, <1>m, <3>2, <4>1, MensajeEnviado DEF SeBloquea
    <3>3. QED
      BY <1>2, <3>1, <3>2 DEF Cpu
  <2>2. TipoSistema'
    <3>1. /\ ops' = ops /\ respuesta' = [respuesta EXCEPT ![p] = "nada"]
          /\ \E c \in {"corre", "fuera"} : proc' = [proc EXCEPT ![p] = [pc |-> c, s |-> Nadie]]
      BY <1>2 DEF Cpu, Sigue, SeBloquea
    <3>2. proc' \in [Procesos -> [pc : {"corre", "pregunta", "fuera"}, s : Nombres \cup {Nadie}]]
      BY <1>t, <3>1 DEF TipoSistema
    <3>3. QED
      BY <1>t, <2>1, <3>1, <3>2 DEF TipoSistema
  <2>3. TipoValores' /\ TipoHilos' /\ TipoHistoria'
    BY <1>2, <1>t DEF Cpu, Sigue, SeBloquea, TipoValores, TipoHilos, TipoHistoria, ready, cuentas
  <2>4. QED
    BY <2>2, <2>3 DEF TypeOK
<1>3. CASE Despacha
  <2>1. CASE colaReady = <<>>
    <3>1. TipoSistema' /\ TipoValores' /\ TipoHilos' /\ TipoHistoria'
      BY <1>3, <1>t, <2>1 DEF Despacha, TipoSistema, TipoValores, TipoHilos, TipoHistoria, ready, cuentas
    <3>2. QED
      BY <3>1 DEF TypeOK
  <2>2. CASE colaReady # <<>>
    <3>1. Head(colaReady) \in Procesos /\ Tail(colaReady) \in Seq(Procesos)
      BY <1>t, <2>2, HeadTailProperties DEF TipoHistoria
    <3>2. TipoSistema'
      BY <1>3, <1>t, <2>2, <3>1 DEF Despacha, TipoSistema
    <3>3. TipoHistoria'
      <4>1. colaReady' = Tail(colaReady) /\ sReadyNuevo' = sReadyNuevo - 1 /\ sReadyNuevo > 0
        BY <1>3, <2>2 DEF Despacha
      <4>2. UNCHANGED <<perdidos, pases, seniales, tcudap, desvio, caido>>
        BY <1>3, <2>2 DEF Despacha, cuentas
      <4>3. sReadyNuevo' \in Nat
        BY <1>t, <4>1 DEF TipoHistoria
      <4>4. QED
        BY <1>t, <3>1, <4>1, <4>2, <4>3 DEF TipoHistoria
    <3>4. TipoValores' /\ TipoHilos'
      BY <1>3, <1>t DEF Despacha, TipoValores, TipoHilos
    <3>5. QED
      BY <3>2, <3>3, <3>4 DEF TypeOK
  <2>3. QED
    BY <2>1, <2>2
<1>4. ASSUME NEW p \in Procesos, PcpMensaje(p) PROVE TypeOK'
  <2>1. PICK t \in {"wait?", "wait", "signal"} : Recibe(p, t)
    BY <1>4 DEF PcpMensaje, PcpSignal, PcpDesconocido, PcpNiega, PcpLeeValor, PcpMideBloqueados
  <2>2. mensajes' \in [Procesos -> Seq(Mensaje)] /\ pcp.pc = "select"
    BY <1>t, <2>1, MensajeRecibido
  <2>3. CASE PcpSignal(p)
    <3>1. TipoSistema' /\ TipoHilos'
      BY <1>t, <2>2, <2>3 DEF PcpSignal, TipoSistema, TipoHilos
    <3>2. TipoValores' /\ TipoHistoria'
      <4> DEFINE s == Head(mensajes[p]).s
      <4>1. UNCHANGED <<valor, enWait, colaReady, sReadyNuevo, perdidos, pases, tcudap, desvio, caido>>
        BY <2>3 DEF PcpSignal, ready
      <4>2. \/ /\ s \in Semaforos /\ liberar' = [liberar EXCEPT ![s] = @ + 1]
               /\ seniales' = [seniales EXCEPT ![s] = @ + 1]
            \/ UNCHANGED <<liberar, seniales>>
        BY <2>3 DEF PcpSignal
      <4> HIDE DEF s
      <4>3. liberar' \in [Semaforos -> Nat] /\ seniales' \in [Semaforos -> Nat]
        <5>1. liberar \in [Semaforos -> Nat] /\ seniales \in [Semaforos -> Nat]
          BY <1>t DEF TipoValores, TipoHistoria
        <5>2. QED
          BY <4>2, <5>1
      <4>4. QED
        BY <1>t, <4>1, <4>3 DEF TipoValores, TipoHistoria
    <3>3. QED
      BY <3>1, <3>2 DEF TypeOK
  <2>4. CASE PcpDesconocido(p) \/ PcpNiega(p)
    <3>1. TipoSistema'
      BY <1>t, <2>2, <2>4 DEF PcpDesconocido, PcpNiega, TipoSistema
    <3>2. TipoValores' /\ TipoHilos' /\ TipoHistoria'
      BY <1>t, <2>4 DEF PcpDesconocido, PcpNiega, TipoValores, TipoHilos, TipoHistoria, ready, cuentas
    <3>3. QED
      BY <3>1, <3>2 DEF TypeOK
  <2>5. CASE PcpLeeValor(p)
    <3>1. TipoSistema' /\ TipoValores' /\ TipoHistoria'
      BY <1>t, <2>2, <2>5 DEF PcpLeeValor, TipoSistema, TipoValores, TipoHistoria, ready, cuentas
    <3>2. TipoHilos'
      BY <1>t, <2>5 DEF PcpLeeValor, TipoValores, TipoHilos, PcpOcioso
    <3>3. QED
      BY <3>1, <3>2 DEF TypeOK
  <2>6. CASE PcpMideBloqueados(p)
    <3>1. TipoSistema' /\ TipoValores' /\ TipoHistoria'
      BY <1>t, <2>2, <2>6 DEF PcpMideBloqueados, TipoSistema, TipoValores, TipoHistoria, ready, cuentas
    <3>2. Head(mensajes[p]).s \in Semaforos
      BY <2>6, NombreConocido DEF PcpMideBloqueados
    <3>3. Len(enWait[Head(mensajes[p]).s]) \in Nat
      BY <1>t, <3>2, LenProperties DEF TipoValores
    <3>4. TipoHilos'
      BY <1>t, <2>6, <3>2, <3>3 DEF PcpMideBloqueados, TipoHilos, PcpOcioso
    <3>5. QED
      BY <3>1, <3>4 DEF TypeOK
  <2>7. QED
    BY <1>4, <2>3, <2>4, <2>5, <2>6 DEF PcpMensaje
<1>5. CASE PcpResta
  <2>1. pcp.pc = "resta" /\ pcp.s \in Semaforos /\ pcp.p \in Procesos /\ pcp.n - 1 \in Nat
    BY <1>5, <1>t DEF PcpResta, TipoHilos
  <2>2. TipoSistema'
    BY <1>5, <1>t, <2>1 DEF PcpResta, TipoSistema
  <2>3. TipoValores'
    BY <1>5, <1>t, <2>1 DEF PcpResta, TipoValores
  <2>4. TipoHilos'
    BY <1>5, <1>t DEF PcpResta, TipoHilos, PcpOcioso
  <2>5. TipoHistoria'
    <3>1. pcp.n \in Nat /\ valor[pcp.s] \in Nat
      BY <1>t, <2>1 DEF TipoHilos, TipoValores
    <3>2. QED
      <4>1. /\ desvio' = [desvio EXCEPT ![pcp.s] = @ + pcp.n - valor[pcp.s]]
            /\ pases' = [pases EXCEPT ![pcp.s] = @ + 1]
            /\ UNCHANGED <<colaReady, sReadyNuevo, perdidos, seniales, tcudap, caido>>
        BY <1>5 DEF PcpResta, ready
      <4>2. desvio' \in [Semaforos -> Int] /\ pases' \in [Semaforos -> Nat]
        <5>1. desvio \in [Semaforos -> Int] /\ pases \in [Semaforos -> Nat]
          BY <1>t DEF TipoHistoria
        <5>2. pcp.n - valor[pcp.s] \in Int /\ pcp.s \in Semaforos /\ pcp.n \in Int /\ valor[pcp.s] \in Int
          BY <2>1, <3>1
        <5>3. pases' \in [Semaforos -> Nat]
          BY <4>1, <5>1, <5>2
        <5>4. desvio' \in [Semaforos -> Int]
          BY <4>1, <5>1, <5>2
        <5>5. QED
          BY <5>3, <5>4
      <4>3. QED
        BY <1>t, <4>1, <4>2 DEF TipoHistoria
  <2>6. QED
    BY <2>2, <2>3, <2>4, <2>5 DEF TypeOK
<1>6. CASE PcpEncola
  <2> DEFINE n == ListAddInIndex(enWait[pcp.s], pcp.n, pcp.p)
  <2>1. pcp.s \in Semaforos /\ pcp.p \in Procesos /\ pcp.n \in Nat /\ enWait[pcp.s] \in Seq(Procesos)
    BY <1>6, <1>t DEF PcpEncola, TipoHilos, TipoValores
  <2>2. n \in Seq(Procesos) /\ (enWait[pcp.s] # <<>> => n # <<>>)
    <3>1. /\ n \in Seq(Procesos)
          /\ Len(n) = IF pcp.n <= Len(enWait[pcp.s]) THEN Len(enWait[pcp.s]) + 1 ELSE Len(enWait[pcp.s])
      BY <2>1, ListAddInIndexTipo
    <3>2. enWait[pcp.s] # <<>> => Len(enWait[pcp.s]) \in Nat \ {0}
      BY <2>1, EmptySeq
    <3>3. Len(<<>>) = 0
      BY EmptySeq
    <3> HIDE DEF n
    <3>4. QED
      BY <3>1, <3>2, <3>3
  <2>3. enWait' = [enWait EXCEPT ![pcp.s] = n]
    BY <1>6, <1>t, <2>1 DEF PcpEncola, TipoValores
  <2> HIDE DEF n
  <2>4. TipoValores'
    BY <1>6, <1>t, <2>2, <2>3 DEF PcpEncola, TipoValores
  <2>5. TipoHilos'
    <3>1. pcp' = [PcpOcioso EXCEPT !.pc = "mide", !.s = pcp.s] /\ hilo' = hilo
      BY <1>6 DEF PcpEncola
    <3>2. \A s \in Semaforos : enWait[s] # <<>> => enWait'[s] # <<>>
      BY <1>t, <2>1, <2>2, <2>3 DEF TipoValores
    <3>3. QED
      BY <1>t, <2>1, <3>1, <3>2 DEF TipoHilos, PcpOcioso
  <2>6. TipoSistema' /\ TipoHistoria'
    BY <1>6, <1>t, <2>1 DEF PcpEncola, TipoSistema, TipoHistoria, sistema, ready, cuentas
  <2>7. QED
    BY <2>4, <2>5, <2>6 DEF TypeOK
<1>7. CASE PcpMide \/ PcpMuestra
  <2>1. pcp.s \in Semaforos /\ Len(enWait[pcp.s]) \in Nat
    BY <1>7, <1>t, LenProperties DEF PcpMide, PcpMuestra, TipoHilos, TipoValores
  <2>2. TipoHilos'
    <3>1. hilo' = hilo /\ enWait' = enWait /\ pcp.pc \in {"mide", "muestra"}
      BY <1>7 DEF PcpMide, PcpMuestra
    <3>2. \/ pcp' = pcp
          \/ \E c \in {"mira", "muestra"} : pcp' = [pcp EXCEPT !.n = Len(enWait[pcp.s]), !.pc = c]
          \/ \E c \in {"mira", "muestra"} : pcp' = [pcp EXCEPT !.i = pcp.i + 1, !.pc = c]
      BY <1>7 DEF PcpMide, PcpMuestra
    <3> DEFINE T == [pc : {"select", "resta", "encola", "mide", "muestra", "mira"},
                     p : Procesos \cup {Nadie}, s : Semaforos \cup {Nadie}, i : Nat, n : Nat]
    <3>3. pcp \in T
      BY <1>t DEF TipoHilos
    <3>4. pcp' \in T /\ pcp'.s = pcp.s /\ pcp'.pc \in {"mide", "mira", "muestra"}
      <4>1. CASE pcp' = pcp
        BY <3>1, <3>3, <4>1
      <4>2. ASSUME NEW c \in {"mira", "muestra"}, pcp' = [pcp EXCEPT !.n = Len(enWait[pcp.s]), !.pc = c]
            PROVE  pcp' \in T /\ pcp'.s = pcp.s /\ pcp'.pc = c
        BY <2>1, <3>3, <4>2
      <4>3. ASSUME NEW c \in {"mira", "muestra"}, pcp' = [pcp EXCEPT !.i = pcp.i + 1, !.pc = c]
            PROVE  pcp' \in T /\ pcp'.s = pcp.s /\ pcp'.pc = c
        <5>1. pcp.i + 1 \in Nat
          BY <3>3
        <5>2. QED
          BY <3>3, <4>3, <5>1
      <4> HIDE DEF T
      <4>4. QED
        BY <3>2, <4>1, <4>2, <4>3
    <3>5. QED
      BY <1>t, <2>1, <3>1, <3>4 DEF TipoHilos
  <2>3. TipoSistema' /\ TipoValores' /\ TipoHistoria'
    BY <1>7, <1>t DEF PcpMide, PcpMuestra, TipoSistema, TipoValores, TipoHistoria, sistema, ready, cuentas
  <2>4. QED
    BY <2>2, <2>3 DEF TypeOK
<1>8. CASE PcpMiraValor
  <2>1. pcp.s \in Semaforos
    BY <1>8, <1>t DEF PcpMiraValor, TipoHilos
  <2>2. TipoHilos'
    BY <1>8, <1>t DEF PcpMiraValor, TipoHilos, PcpOcioso
  <2>3. TipoValores' /\ TipoHistoria'
    <3>1. UNCHANGED <<valor, enWait, colaReady, sReadyNuevo, perdidos, pases, seniales, desvio, caido>>
      BY <1>8 DEF PcpMiraValor, ready
    <3>2. \/ /\ liberar' = [liberar EXCEPT ![pcp.s] = @ + 1]
             /\ tcudap' = [tcudap EXCEPT ![pcp.s] = @ + 1]
          \/ UNCHANGED <<liberar, tcudap>>
      BY <1>8 DEF PcpMiraValor
    <3>3. liberar' \in [Semaforos -> Nat] /\ tcudap' \in [Semaforos -> Nat]
      <4>1. liberar \in [Semaforos -> Nat] /\ tcudap \in [Semaforos -> Nat]
        BY <1>t DEF TipoValores, TipoHistoria
      <4>2. QED
        BY <2>1, <3>2, <4>1
    <3>4. QED
      BY <1>t, <3>1, <3>3 DEF TipoValores, TipoHistoria
  <2>4. TipoSistema'
    BY <1>8, <1>t DEF PcpMiraValor, TipoSistema, sistema
  <2>5. QED
    BY <2>2, <2>3, <2>4 DEF TypeOK
<1>9. ASSUME NEW s \in Semaforos, Hilo(s) PROVE TypeOK'
  <2>1. CASE HiloDespierta(s)
    <3>1. TipoValores' /\ TipoHilos'
      <4>1. /\ liberar[s] > 0 /\ liberar' = [liberar EXCEPT ![s] = @ - 1]
            /\ hilo' = [hilo EXCEPT ![s].pc = IF enWait[s] = <<>> THEN "lee" ELSE "libera"]
            /\ UNCHANGED <<valor, enWait, pcp>>
        BY <2>1 DEF HiloDespierta
      <4>2. liberar' \in [Semaforos -> Nat]
        <5>1. liberar \in [Semaforos -> Nat] /\ liberar[s] - 1 \in Nat
          BY <1>t, <4>1 DEF TipoValores
        <5>2. QED
          BY <4>1, <5>1
      <4>3. TipoValores'
        BY <1>t, <4>1, <4>2 DEF TipoValores
      <4>4. QED
        BY <1>t, <4>1, <4>3 DEF TipoHilos
    <3>2. TipoSistema' /\ TipoHistoria'
      BY <1>t, <2>1 DEF HiloDespierta, TipoSistema, TipoHistoria, sistema, ready, cuentas
    <3>3. QED
      BY <3>1, <3>2 DEF TypeOK
  <2>2. CASE HiloLee(s)
    <3>1. TipoHilos'
      BY <1>t, <2>2 DEF HiloLee, TipoValores, TipoHilos
    <3>2. TipoSistema' /\ TipoValores' /\ TipoHistoria'
      BY <1>t, <2>2 DEF HiloLee, TipoSistema, TipoValores, TipoHistoria, sistema, ready, cuentas
    <3>3. QED
      BY <3>1, <3>2 DEF TypeOK
  <2>3. CASE HiloSuma(s)
    <3>1. hilo[s].n \in Nat /\ valor[s] \in Nat
      BY <1>t DEF TipoHilos, TipoValores
    <3>2. TipoValores'
      BY <1>t, <2>3, <3>1 DEF HiloSuma, TipoValores
    <3>2b. TipoHilos'
      BY <1>t, <2>3 DEF HiloSuma, TipoHilos, HiloEspera
    <3>3. TipoSistema' /\ TipoHistoria'
      <4>1. TipoSistema'
        BY <1>t, <2>3 DEF HiloSuma, TipoSistema, sistema
      <4>2. /\ desvio' = [desvio EXCEPT ![s] = @ + hilo[s].n - valor[s]]
            /\ UNCHANGED <<colaReady, sReadyNuevo, perdidos, pases, seniales, tcudap, caido>>
        BY <2>3 DEF HiloSuma, ready
      <4>3. desvio' \in [Semaforos -> Int]
        <5>1. desvio \in [Semaforos -> Int]
          BY <1>t DEF TipoHistoria
        <5>2. desvio[s] + hilo[s].n - valor[s] \in Int
          BY <3>1, <5>1
        <5>3. QED
          BY <4>2, <5>1, <5>2
      <4>4. TipoHistoria'
        BY <1>t, <4>2, <4>3 DEF TipoHistoria
      <4>5. QED
        BY <4>1, <4>4
    <3>4. QED
      BY <3>2, <3>2b, <3>3 DEF TypeOK
  <2>4. CASE HiloLibera(s)
    <3>1. Head(enWait[s]) \in Procesos /\ Tail(enWait[s]) \in Seq(Procesos)
      BY <1>t, <2>4, HeadTailProperties DEF HiloLibera, TipoValores, TipoHilos
    <3>2. TipoValores' /\ TipoHilos'
      BY <1>t, <2>4, <3>1 DEF HiloLibera, TipoValores, TipoHilos
    <3>3. TipoSistema' /\ TipoHistoria'
      BY <1>t, <2>4 DEF HiloLibera, TipoSistema, TipoHistoria, sistema, ready, cuentas
    <3>4. QED
      BY <3>2, <3>3 DEF TypeOK
  <2>5. CASE HiloMideReady(s)
    <3>1. Len(colaReady) \in Nat
      BY <1>t, LenProperties DEF TipoHistoria
    <3>2. TipoHilos'
      BY <1>t, <2>5, <3>1 DEF HiloMideReady, TipoHilos
    <3>3. TipoSistema' /\ TipoValores' /\ TipoHistoria'
      BY <1>t, <2>5 DEF HiloMideReady, TipoSistema, TipoValores, TipoHistoria, sistema, ready, cuentas
    <3>4. QED
      BY <3>2, <3>3 DEF TypeOK
  <2>6. CASE HiloInserta(s)
    <3>1. hilo[s].p \in Procesos /\ hilo[s].n \in Nat
      BY <1>t, <2>6 DEF HiloInserta, TipoHilos
    <3>2. ListAddInIndex(colaReady, hilo[s].n, hilo[s].p) \in Seq(Procesos)
      BY <1>t, <3>1, ListAddInIndexTipo DEF TipoHistoria
    <3>3. TipoHistoria'
      BY <1>t, <2>6, <3>1, <3>2 DEF HiloInserta, TipoHistoria
    <3>4. TipoSistema' /\ TipoValores' /\ TipoHilos'
      BY <1>t, <2>6 DEF HiloInserta, TipoSistema, TipoValores, TipoHilos, sistema, HiloEspera
    <3>5. QED
      BY <3>3, <3>4 DEF TypeOK
  <2>7. QED
    BY <1>9, <2>1, <2>2, <2>3, <2>4, <2>5, <2>6 DEF Hilo
<1>10. CASE UNCHANGED vars
  BY <1>10, <1>t
  DEF TypeOK, TipoSistema, TipoValores, TipoHilos, TipoHistoria, vars, sistema, ready, cuentas
<1>11. QED
  BY <1>1, <1>2, <1>3, <1>4, <1>5, <1>6, <1>7, <1>8, <1>9, <1>10 DEF Next, PcpInterno

-----------------------------------------------------------------------------
(* Where the processes are *)

\* Every kind is one of Clases and every index one of Indices.
LEMMA Nombrados ==
    /\ "cpu" \in Clases /\ "mensaje" \in Clases /\ "pcp" \in Clases /\ "wait" \in Clases
    /\ "hilo" \in Clases /\ "ready" \in Clases /\ "perdido" \in Clases
    /\ Nadie \in Indices /\ Semaforos \subseteq Indices
BY DEF Clases, Indices

\* If q leaves one place for another, the two places change by it and no other
\* place changes, every process still is in one place.
LEMMA Mudanza ==
    ASSUME UnSoloLugar, NEW q \in Procesos,
           NEW k0 \in Clases, NEW x0 \in Indices, NEW k1 \in Clases, NEW x1 \in Indices,
           k0 # k1, Esta(q, k0, x0),
           \A p \in Procesos : Esta(p, k0, x0)' <=> Esta(p, k0, x0) /\ p # q,
           \A p \in Procesos : Esta(p, k1, x1)' <=> Esta(p, k1, x1) \/ p = q,
           \A p \in Procesos : \A k \in Clases : \A x \in Indices :
               ~(k = k0 /\ x = x0) /\ ~(k = k1 /\ x = x1) => (Esta(p, k, x)' <=> Esta(p, k, x))
    PROVE  UnSoloLugar'
<1>1. \A p \in Procesos : \A k \in Clases : \A x \in Indices :
         Esta(p, k, x)' <=> IF p = q THEN k = k1 /\ x = x1 ELSE Esta(p, k, x)
  <2> SUFFICES ASSUME NEW p \in Procesos, NEW k \in Clases, NEW x \in Indices
               PROVE  Esta(p, k, x)' <=> IF p = q THEN k = k1 /\ x = x1 ELSE Esta(p, k, x)
    OBVIOUS
  <2>1. Esta(q, k, x) => k = k0 /\ x = x0
    BY DEF UnSoloLugar
  <2>2. QED
    BY <2>1
<1>2. QED
  BY <1>1 DEF UnSoloLugar

\* If nothing that says where a process is changes, everyone is where it was.
LEMMA Quietos ==
    ASSUME InvSemaforo,
           \A p \in Procesos : /\ proc'[p].pc = "fuera" <=> proc[p].pc = "fuera"
                               /\ DeTipo(mensajes'[p], "wait") = DeTipo(mensajes[p], "wait")
                               /\ (pcp'.pc = "encola" /\ pcp'.p = p) <=> (pcp.pc = "encola" /\ pcp.p = p),
           \A s \in Semaforos : /\ hilo'[s].p = hilo[s].p
                                /\ hilo'[s].pc \in {"mide", "inserta"} <=> hilo[s].pc \in {"mide", "inserta"},
           enWait' = enWait, colaReady' = colaReady, perdidos' = perdidos
    PROVE  UnSoloLugar' /\ SinCopias'
<1>1. \A p \in Procesos : \A k \in Clases : \A x \in Indices : Esta(p, k, x)' <=> Esta(p, k, x)
  BY DEF Esta
<1>2. UnSoloLugar'
  BY <1>1 DEF InvSemaforo, UnSoloLugar
<1>3. SinCopias'
  BY DEF InvSemaforo, SinCopias
<1>4. QED
  BY <1>2, <1>3

\* A question and its answer, with the count of messages by its name.
LEMMA UnaPregunta ==
    ASSUME InvSemaforo, NEW p \in Procesos
    PROVE  /\ DeTipo(mensajes[p], "wait?") \in Nat /\ DeTipo(mensajes[p], "wait") \in Nat
           /\ Uno(proc[p].pc = "pregunta") =
                  DeTipo(mensajes[p], "wait?") + Uno(pcp.pc = "resta" /\ pcp.p = p) + Uno(respuesta[p] # "nada")
<1>1. mensajes[p] \in Seq(Mensaje)
  BY DEF InvSemaforo, TypeOK, TipoSistema
<1>2. \A t : DeTipo(mensajes[p], t) \in Nat
  <2> TAKE t
  <2>1. DOMAIN mensajes[p] = 1..Len(mensajes[p]) /\ Len(mensajes[p]) \in Nat
    BY <1>1, LenProperties
  <2>2. IsFiniteSet({i \in DOMAIN mensajes[p] : mensajes[p][i].tipo = t})
    <3>1. IsFiniteSet(DOMAIN mensajes[p])
      BY <2>1, FS_Interval
    <3>2. {i \in DOMAIN mensajes[p] : mensajes[p][i].tipo = t} \subseteq DOMAIN mensajes[p]
      OBVIOUS
    <3>3. QED
      BY <3>1, <3>2, FS_Subset
  <2>3. QED
    BY <2>2, FS_CardinalityType DEF DeTipo
<1>3. QED
  BY <1>2 DEF InvSemaforo, UnaRespuesta, DeTipo

\* A CPU that reads an answer had asked, and nothing else of its question is on
\* its way.
LEMMA Contestado ==
    ASSUME InvSemaforo, NEW p \in Procesos, respuesta[p] # "nada"
    PROVE  proc[p].pc = "pregunta" /\ DeTipo(mensajes[p], "wait?") = 0 /\ ~(pcp.pc = "resta" /\ pcp.p = p)
BY UnaPregunta DEF Uno

\* A process that is told no sends its PCB: from its CPU to the message.
LEMMA LugarSeBloquea ==
    ASSUME InvSemaforo, NEW q \in Procesos, SeBloquea(q)
    PROVE  UnSoloLugar' /\ SinCopias'
<1>1. TypeOK /\ UnSoloLugar /\ SinCopias /\ proc[q].pc = "pregunta" /\ proc[q].s \in Nombres
  BY Contestado, NombreConocido, SupuestosSemaforo DEF SeBloquea, InvSemaforo
<1>2. /\ proc'[q].pc = "fuera" /\ \A p \in Procesos : p # q => proc'[p] = proc[p]
  BY <1>1 DEF SeBloquea, TypeOK, TipoSistema
<1>3. Msj("wait", proc[q].s) \in Mensaje /\ Msj("wait", proc[q].s).tipo = "wait"
  BY <1>1 DEF Msj, Mensaje
<1>4. /\ \A p \in Procesos : p # q => mensajes'[p] = mensajes[p]
      /\ DeTipo(mensajes[q], "wait") \in Nat /\ DeTipo(mensajes'[q], "wait") = DeTipo(mensajes[q], "wait") + 1
  <2> DEFINE m == Msj("wait", proc[q].s)
  <2>1. mensajes' = [mensajes EXCEPT ![q] = Append(@, m)]
    BY DEF SeBloquea
  <2>m. m \in Mensaje /\ m.tipo = "wait"
    BY <1>3
  <2> HIDE DEF m
  <2>2. /\ \A p \in Procesos : p # q => mensajes'[p] = mensajes[p]
        /\ \A u : /\ DeTipo(mensajes[q], u) \in Nat
                  /\ DeTipo(mensajes'[q], u) = DeTipo(mensajes[q], u) + (IF m.tipo = u THEN 1 ELSE 0)
    BY <1>1, <2>m, <2>1, MensajeEnviado
  <2>3. QED
    BY <2>m, <2>2
<1>5. Esta(q, "cpu", Nadie)
  BY <1>1 DEF Esta
<1>6. DeTipo(mensajes[q], "wait") = 0
  <2>1. ~Esta(q, "mensaje", Nadie)
    BY <1>1, <1>5, Nombrados DEF UnSoloLugar
  <2>2. QED
    BY <1>4, <2>1 DEF Esta
<1>7. \A p \in Procesos : Esta(p, "cpu", Nadie)' <=> Esta(p, "cpu", Nadie) /\ p # q
  BY <1>2 DEF Esta
<1>8. \A p \in Procesos : Esta(p, "mensaje", Nadie)' <=> Esta(p, "mensaje", Nadie) \/ p = q
  BY <1>4, <1>6 DEF Esta, Uno
<1>9. \A p \in Procesos : \A k \in Clases : \A x \in Indices :
         ~(k = "cpu" /\ x = Nadie) /\ ~(k = "mensaje" /\ x = Nadie) => (Esta(p, k, x)' <=> Esta(p, k, x))
  BY DEF SeBloquea, Esta, ready
<1>10. UnSoloLugar'
  <2>1. "cpu" \in Clases /\ "mensaje" \in Clases /\ Nadie \in Indices /\ UnSoloLugar
    BY <1>1, Nombrados
  <2>2. QED
    BY <1>5, <1>7, <1>8, <1>9, <2>1, Mudanza
<1>11. \A p \in Procesos : DeTipo(mensajes'[p], "wait") <= 1
  BY <1>1, <1>4, <1>6 DEF SinCopias, Uno
<1>12. SinCopias'
  BY <1>1, <1>11 DEF SeBloquea, SinCopias, ready
<1>13. QED
  BY <1>10, <1>12

\* The PCP receives it.
LEMMA LugarPcpMideBloqueados ==
    ASSUME InvSemaforo, NEW q \in Procesos, PcpMideBloqueados(q)
    PROVE  UnSoloLugar' /\ SinCopias'
<1>1. TypeOK /\ UnSoloLugar /\ SinCopias /\ Recibe(q, "wait")
  BY DEF PcpMideBloqueados, InvSemaforo
<1>2. /\ pcp.pc = "select"
      /\ \A p \in Procesos : p # q => mensajes'[p] = mensajes[p]
      /\ DeTipo(mensajes'[q], "wait") \in Nat /\ DeTipo(mensajes[q], "wait") = DeTipo(mensajes'[q], "wait") + 1
  <2>1. /\ pcp.pc = "select" /\ \A p \in Procesos : p # q => mensajes'[p] = mensajes[p]
        /\ \A u : /\ DeTipo(mensajes'[q], u) \in Nat
                  /\ DeTipo(mensajes[q], u) = DeTipo(mensajes'[q], u) + (IF "wait" = u THEN 1 ELSE 0)
    BY <1>1, MensajeRecibido
  <2>2. /\ DeTipo(mensajes'[q], "wait") \in Nat
        /\ DeTipo(mensajes[q], "wait") = DeTipo(mensajes'[q], "wait") + 1
    BY <2>1
  <2>3. QED
    BY <2>1, <2>2
<1>3. pcp'.pc = "encola" /\ pcp'.p = q
  BY DEF PcpMideBloqueados, PcpOcioso
<1>4. DeTipo(mensajes[q], "wait") = 1 /\ DeTipo(mensajes'[q], "wait") = 0
  BY <1>1, <1>2 DEF SinCopias, Uno
<1>5. Esta(q, "mensaje", Nadie)
  BY <1>4 DEF Esta
<1>6. \A p \in Procesos : Esta(p, "mensaje", Nadie)' <=> Esta(p, "mensaje", Nadie) /\ p # q
  BY <1>2, <1>4 DEF Esta
<1>7. \A p \in Procesos : Esta(p, "pcp", Nadie)' <=> Esta(p, "pcp", Nadie) \/ p = q
  BY <1>2, <1>3 DEF Esta
<1>8. \A p \in Procesos : \A k \in Clases : \A x \in Indices :
         ~(k = "mensaje" /\ x = Nadie) /\ ~(k = "pcp" /\ x = Nadie) => (Esta(p, k, x)' <=> Esta(p, k, x))
  BY DEF PcpMideBloqueados, Esta, ready
<1>9. UnSoloLugar'
  <2>1. "mensaje" \in Clases /\ "pcp" \in Clases /\ Nadie \in Indices /\ UnSoloLugar
    BY <1>1, Nombrados
  <2>2. QED
    BY <1>5, <1>6, <1>7, <1>8, <2>1, Mudanza
<1>10. \A p \in Procesos : DeTipo(mensajes'[p], "wait") <= 1
  BY <1>1, <1>2, <1>4 DEF SinCopias
<1>11. SinCopias'
  BY <1>1, <1>10 DEF PcpMideBloqueados, SinCopias, ready
<1>12. QED
  BY <1>9, <1>11

\* And puts it in pcbs_en_wait, or past its end, where it is left out.
LEMMA LugarPcpEncola ==
    ASSUME InvSemaforo, PcpEncola
    PROVE  UnSoloLugar' /\ SinCopias'
<1>0. pcp.p \in Procesos /\ pcp.s \in Semaforos
  BY DEF PcpEncola, InvSemaforo, TypeOK, TipoHilos
<1>q. PICK q \in Procesos : q = pcp.p
  BY <1>0
<1>s. PICK s \in Semaforos : s = pcp.s
  BY <1>0
<1> DEFINE lista == ListAddInIndex(enWait[s], pcp.n, q)
<1>1. /\ UnSoloLugar /\ SinCopias /\ pcp.pc = "encola" /\ pcp.p = q /\ pcp.n \in Nat
      /\ enWait \in [Semaforos -> Seq(Procesos)] /\ Len(enWait[s]) \in Nat
  BY <1>q, <1>s, LenProperties DEF PcpEncola, InvSemaforo, TypeOK, TipoHilos, TipoValores
<1>2. /\ enWait'[s] = lista /\ \A u \in Semaforos : u # s => enWait'[u] = enWait[u]
      /\ pcp'.pc = "mide"
      /\ perdidos' = IF pcp.n <= Len(enWait[s]) THEN perdidos ELSE perdidos \cup {q}
  BY <1>1, <1>q, <1>s DEF PcpEncola, PcpOcioso
<1>3. /\ ToSet(lista) = IF pcp.n <= Len(enWait[s]) THEN ToSet(enWait[s]) \cup {q} ELSE ToSet(enWait[s])
      /\ SinRepetir(enWait[s]) /\ q \notin ToSet(enWait[s]) => SinRepetir(lista)
  <2>1. enWait[s] \in Seq(Procesos) /\ pcp.n \in Nat
    BY <1>1
  <2>2. QED
    BY <2>1, ListAddInIndexElementos
<1>4. Esta(q, "pcp", Nadie)
  BY <1>1 DEF Esta
<1>5. q \notin ToSet(enWait[s])
  <2>1. ~Esta(q, "wait", s)
    BY <1>1, <1>4, Nombrados DEF UnSoloLugar
  <2>2. QED
    BY <1>1, <2>1 DEF Esta
<1>6. \A p \in Procesos : Esta(p, "pcp", Nadie)' <=> Esta(p, "pcp", Nadie) /\ p # q
  BY <1>1, <1>2 DEF Esta
<1> HIDE DEF lista
<1>7. SinCopias'
  BY <1>1, <1>2, <1>3, <1>5 DEF PcpEncola, SinCopias, sistema, ready
<1>8. CASE pcp.n <= Len(enWait[s])
  <2>1. \A p \in Procesos : Esta(p, "wait", s)' <=> Esta(p, "wait", s) \/ p = q
    <3>1. ToSet(enWait'[s]) = ToSet(enWait[s]) \cup {q}
      BY <1>2, <1>3, <1>8
    <3>2. QED
      BY <1>1, <3>1 DEF Esta
  <2>2. \A p \in Procesos : \A k \in Clases : \A x \in Indices :
           ~(k = "pcp" /\ x = Nadie) /\ ~(k = "wait" /\ x = s) => (Esta(p, k, x)' <=> Esta(p, k, x))
    BY <1>2, <1>8 DEF PcpEncola, Esta, sistema, ready
  <2>3. UnSoloLugar'
    <3>1. "pcp" \in Clases /\ "wait" \in Clases /\ Nadie \in Indices /\ s \in Indices /\ UnSoloLugar
      BY <1>1, Nombrados
    <3>2. QED
      BY <1>1, <1>4, <1>6, <2>1, <2>2, <3>1, Mudanza
  <2>4. QED
    BY <1>7, <2>3
<1>9. CASE ~(pcp.n <= Len(enWait[s]))
  <2>1. \A p \in Procesos : Esta(p, "perdido", Nadie)' <=> Esta(p, "perdido", Nadie) \/ p = q
    BY <1>2, <1>9 DEF Esta
  <2>2. \A u \in Semaforos : ToSet(enWait'[u]) = ToSet(enWait[u])
    BY <1>2, <1>3, <1>9
  <2>3. \A p \in Procesos : \A k \in Clases : \A x \in Indices :
           ~(k = "pcp" /\ x = Nadie) /\ ~(k = "perdido" /\ x = Nadie) => (Esta(p, k, x)' <=> Esta(p, k, x))
    BY <2>2 DEF PcpEncola, Esta, sistema, ready
  <2>4. UnSoloLugar'
    <3>1. "pcp" \in Clases /\ "perdido" \in Clases /\ Nadie \in Indices /\ UnSoloLugar
      BY <1>1, Nombrados
    <3>2. QED
      BY <1>1, <1>4, <1>6, <2>1, <2>3, <3>1, Mudanza
  <2>5. QED
    BY <1>7, <2>4
<1>10. QED
  BY <1>8, <1>9

\* The thread of the semaphore takes the first that is blocked.
LEMMA LugarHiloLibera ==
    ASSUME InvSemaforo, NEW s \in Semaforos, HiloLibera(s)
    PROVE  UnSoloLugar' /\ SinCopias'
<1> DEFINE q == Head(enWait[s])
<1>1. /\ UnSoloLugar /\ SinCopias /\ hilo[s].pc = "libera" /\ hilo[s].p = Nadie
      /\ enWait \in [Semaforos -> Seq(Procesos)] /\ enWait[s] # <<>> /\ q \in Procesos
  BY HeadTailProperties DEF HiloLibera, InvSemaforo, TypeOK, TipoHilos, TipoValores, SinCopias
<1>2. /\ enWait'[s] = Tail(enWait[s]) /\ \A u \in Semaforos : u # s => enWait'[u] = enWait[u]
      /\ hilo'[s].pc = "mide" /\ hilo'[s].p = q /\ \A u \in Semaforos : u # s => hilo'[u] = hilo[u]
  BY <1>1 DEF HiloLibera, InvSemaforo, TypeOK, TipoHilos
<1>3. /\ ToSet(enWait[s]) = ToSet(enWait'[s]) \cup {q}
      /\ SinRepetir(enWait'[s]) /\ q \notin ToSet(enWait'[s])
  BY <1>1, <1>2, TailElementos DEF SinCopias
<1> HIDE DEF q
<1>4. Esta(q, "wait", s)
  BY <1>3 DEF Esta
<1>5. \A p \in Procesos : Esta(p, "wait", s)' <=> Esta(p, "wait", s) /\ p # q
  BY <1>3 DEF Esta
<1>6. \A p \in Procesos : Esta(p, "hilo", s)' <=> Esta(p, "hilo", s) \/ p = q
  BY <1>1, <1>2, SupuestosSemaforo DEF Esta
<1>7. \A p \in Procesos : \A k \in Clases : \A x \in Indices :
         ~(k = "wait" /\ x = s) /\ ~(k = "hilo" /\ x = s) => (Esta(p, k, x)' <=> Esta(p, k, x))
  <2>1. UNCHANGED <<proc, mensajes, pcp, colaReady, perdidos>>
    BY DEF HiloLibera, sistema, ready
  <2>2. QED
    BY <1>2, <2>1 DEF Esta
<1>8. UnSoloLugar'
  <2>1. "wait" \in Clases /\ "hilo" \in Clases /\ s \in Indices /\ UnSoloLugar
    BY <1>1, Nombrados
  <2>2. QED
    BY <1>1, <1>4, <1>5, <1>6, <1>7, <2>1, Mudanza
<1>9. SinCopias'
  BY <1>1, <1>2, <1>3 DEF HiloLibera, SinCopias, sistema, ready
<1>10. QED
  BY <1>8, <1>9

\* And puts it in Ready, or past its end.
LEMMA LugarHiloInserta ==
    ASSUME InvSemaforo, NEW s \in Semaforos, HiloInserta(s)
    PROVE  UnSoloLugar' /\ SinCopias'
<1> DEFINE q == hilo[s].p
           lista == ListAddInIndex(colaReady, hilo[s].n, q)
<1>1. /\ UnSoloLugar /\ SinCopias /\ hilo[s].pc = "inserta" /\ q \in Procesos /\ hilo[s].n \in Nat
      /\ colaReady \in Seq(Procesos) /\ Len(colaReady) \in Nat
  BY LenProperties DEF HiloInserta, InvSemaforo, TypeOK, TipoHilos, TipoHistoria
<1>2. /\ colaReady' = lista
      /\ hilo'[s].pc = "espera" /\ hilo'[s].p = Nadie /\ \A u \in Semaforos : u # s => hilo'[u] = hilo[u]
      /\ perdidos' = IF hilo[s].n <= Len(colaReady) THEN perdidos ELSE perdidos \cup {q}
  BY DEF HiloInserta, HiloEspera, InvSemaforo, TypeOK, TipoHilos
<1>3. /\ ToSet(lista) = IF hilo[s].n <= Len(colaReady) THEN ToSet(colaReady) \cup {q} ELSE ToSet(colaReady)
      /\ SinRepetir(colaReady) /\ q \notin ToSet(colaReady) => SinRepetir(lista)
  BY <1>1, ListAddInIndexElementos
<1>4. Esta(q, "hilo", s)
  BY DEF Esta
<1>5. q \notin ToSet(colaReady)
  <2>1. ~Esta(q, "ready", Nadie)
    BY <1>1, <1>4, Nombrados DEF UnSoloLugar
  <2>2. QED
    BY <2>1 DEF Esta
<1>6. \A p \in Procesos : Esta(p, "hilo", s)' <=> Esta(p, "hilo", s) /\ p # q
  BY <1>1, <1>2, SupuestosSemaforo DEF Esta
<1> HIDE DEF q, lista
<1>7. SinCopias'
  BY <1>1, <1>2, <1>3, <1>5 DEF HiloInserta, SinCopias, sistema
<1>8. CASE hilo[s].n <= Len(colaReady)
  <2>1. \A p \in Procesos : Esta(p, "ready", Nadie)' <=> Esta(p, "ready", Nadie) \/ p = q
    BY <1>2, <1>3, <1>8 DEF Esta
  <2>2. \A p \in Procesos : \A k \in Clases : \A x \in Indices :
           ~(k = "hilo" /\ x = s) /\ ~(k = "ready" /\ x = Nadie) => (Esta(p, k, x)' <=> Esta(p, k, x))
    BY <1>2, <1>8 DEF HiloInserta, Esta, sistema
  <2>3. UnSoloLugar'
    <3>1. "hilo" \in Clases /\ "ready" \in Clases /\ Nadie \in Indices /\ s \in Indices /\ UnSoloLugar
      BY <1>1, Nombrados
    <3>2. QED
      BY <1>1, <1>4, <1>6, <2>1, <2>2, <3>1, Mudanza
  <2>4. QED
    BY <1>7, <2>3
<1>9. CASE ~(hilo[s].n <= Len(colaReady))
  <2>1. \A p \in Procesos : Esta(p, "perdido", Nadie)' <=> Esta(p, "perdido", Nadie) \/ p = q
    BY <1>2, <1>9 DEF Esta
  <2>2. \A p \in Procesos : \A k \in Clases : \A x \in Indices :
           ~(k = "hilo" /\ x = s) /\ ~(k = "perdido" /\ x = Nadie) => (Esta(p, k, x)' <=> Esta(p, k, x))
    BY <1>2, <1>3, <1>9 DEF HiloInserta, Esta, sistema
  <2>3. UnSoloLugar'
    <3>1. "hilo" \in Clases /\ "perdido" \in Clases /\ Nadie \in Indices /\ s \in Indices /\ UnSoloLugar
      BY <1>1, Nombrados
    <3>2. QED
      BY <1>1, <1>4, <1>6, <2>1, <2>2, <3>1, Mudanza
  <2>4. QED
    BY <1>7, <2>3
<1>10. QED
  BY <1>8, <1>9

\* The dispatcher gives it a CPU again.
LEMMA LugarDespacha ==
    ASSUME InvSemaforo, Despacha, colaReady # <<>>
    PROVE  /\ Head(colaReady) \in Procesos /\ proc[Head(colaReady)].pc = "fuera"
           /\ UnSoloLugar' /\ SinCopias'
<1> DEFINE q == Head(colaReady)
<1>1. /\ UnSoloLugar /\ SinCopias /\ colaReady \in Seq(Procesos) /\ q \in Procesos /\ colaReady' = Tail(colaReady)
  BY HeadTailProperties DEF Despacha, InvSemaforo, TypeOK, TipoHistoria
<1>2. proc'[q].pc = "corre" /\ \A p \in Procesos : p # q => proc'[p] = proc[p]
  BY <1>1 DEF Despacha, InvSemaforo, TypeOK, TipoSistema
<1>3. /\ ToSet(colaReady) = ToSet(colaReady') \cup {q}
      /\ SinRepetir(colaReady') /\ q \notin ToSet(colaReady')
  BY <1>1, TailElementos DEF SinCopias
<1> HIDE DEF q
<1>4. Esta(q, "ready", Nadie)
  BY <1>3 DEF Esta
<1>5. \A p \in Procesos : Esta(p, "ready", Nadie)' <=> Esta(p, "ready", Nadie) /\ p # q
  BY <1>3 DEF Esta
<1>6. \A p \in Procesos : Esta(p, "cpu", Nadie)' <=> Esta(p, "cpu", Nadie) \/ p = q
  BY <1>1, <1>2 DEF Esta
<1>7. \A p \in Procesos : \A k \in Clases : \A x \in Indices :
         ~(k = "ready" /\ x = Nadie) /\ ~(k = "cpu" /\ x = Nadie) => (Esta(p, k, x)' <=> Esta(p, k, x))
  BY DEF Despacha, Esta
<1>8. UnSoloLugar'
  <2>1. "ready" \in Clases /\ "cpu" \in Clases /\ Nadie \in Indices /\ UnSoloLugar
    BY <1>1, Nombrados
  <2>2. QED
    BY <1>1, <1>4, <1>5, <1>6, <1>7, <2>1, Mudanza
<1>9. SinCopias'
  BY <1>1, <1>3 DEF Despacha, SinCopias
<1>10. proc[q].pc = "fuera"
  <2>1. ~Esta(q, "cpu", Nadie)
    BY <1>1, <1>4, Nombrados DEF UnSoloLugar
  <2>2. QED
    BY <2>1 DEF Esta
<1>11. QED
  BY <1>1, <1>8, <1>9, <1>10 DEF q

-----------------------------------------------------------------------------
(* Steps that leave everyone where they were *)

\* The calls of the scripts and the answers that let them go on.
LEMMA QuietaScript ==
    ASSUME InvSemaforo, NEW q \in Procesos, Script(q) \/ Sigue(q)
    PROVE  UnSoloLugar' /\ SinCopias'
<1>1. \A p \in Procesos : DeTipo(mensajes'[p], "wait") = DeTipo(mensajes[p], "wait")
  <2>1. CASE Script(q)
    <3>1. PICK s \in Nombres, t \in {"wait?", "signal"} : Llama(q, t, s)
      BY <2>1 DEF Script, Pregunta, Senial
    <3> DEFINE m == Msj(t, s)
    <3>2. m \in Mensaje /\ m.tipo # "wait" /\ mensajes' = [mensajes EXCEPT ![q] = Append(@, m)]
      BY <3>1 DEF Llama, Msj, Mensaje
    <3> HIDE DEF m
    <3>3. /\ \A p \in Procesos : p # q => mensajes'[p] = mensajes[p]
          /\ \A u : /\ DeTipo(mensajes[q], u) \in Nat
                    /\ DeTipo(mensajes'[q], u) = DeTipo(mensajes[q], u) + (IF m.tipo = u THEN 1 ELSE 0)
      BY <3>2, MensajeEnviado DEF InvSemaforo
    <3>4. DeTipo(mensajes'[q], "wait") = DeTipo(mensajes[q], "wait")
      BY <3>2, <3>3
    <3>5. QED
      BY <3>3, <3>4
  <2>2. CASE Sigue(q)
    BY <2>2 DEF Sigue
  <2>3. QED
    BY <2>1, <2>2
<1>2. /\ \E a \in {"corre", "pregunta"}, s \in Nombres \cup {Nadie} :
              proc' = proc \/ proc' = [proc EXCEPT ![q] = [pc |-> a, s |-> s]]
      /\ UNCHANGED <<pcp, hilo, enWait, colaReady, perdidos>>
  BY DEF Script, Pregunta, Senial, Sigue, ready
<1>3. proc[q].pc # "fuera"
  <2>1. CASE Script(q)
    BY <2>1 DEF Script, Pregunta, Senial, Llama
  <2>2. CASE Sigue(q)
    BY <2>2, Contestado DEF Sigue
  <2>3. QED
    BY <2>1, <2>2
<1>4. \A p \in Procesos : proc'[p].pc = "fuera" <=> proc[p].pc = "fuera"
  <2>1. proc \in [Procesos -> [pc : {"corre", "pregunta", "fuera"}, s : Nombres \cup {Nadie}]]
    BY DEF InvSemaforo, TypeOK, TipoSistema
  <2>2. QED
    BY <1>2, <1>3, <2>1
<1>5. QED
  BY <1>1, <1>2, <1>4, Quietos

\* The messages without a PCB that the PCP serves.
LEMMA QuietaPcpMensaje ==
    ASSUME InvSemaforo, NEW q \in Procesos,
           PcpSignal(q) \/ PcpDesconocido(q) \/ PcpNiega(q) \/ PcpLeeValor(q)
    PROVE  UnSoloLugar' /\ SinCopias'
<1>1. PICK t \in {"wait?", "signal"} : Recibe(q, t)
  BY DEF PcpSignal, PcpDesconocido, PcpNiega, PcpLeeValor
<1>2. /\ pcp.pc = "select" /\ \A p \in Procesos : p # q => mensajes'[p] = mensajes[p]
      /\ \A u : /\ DeTipo(mensajes'[q], u) \in Nat
                /\ DeTipo(mensajes[q], u) = DeTipo(mensajes'[q], u) + (IF t = u THEN 1 ELSE 0)
  BY <1>1, MensajeRecibido DEF InvSemaforo
<1>3. DeTipo(mensajes'[q], "wait") = DeTipo(mensajes[q], "wait")
  BY <1>2
<1>4. UNCHANGED <<proc, hilo, enWait, colaReady, perdidos>> /\ pcp'.pc \in {"select", "resta"}
  BY <1>2 DEF PcpSignal, PcpDesconocido, PcpNiega, PcpLeeValor, PcpOcioso, ready
<1>5. QED
  BY <1>2, <1>3, <1>4, Quietos

\* The rest of the PCP, a dispatcher that finds nothing, and a step of nobody.
LEMMA QuietaPcpInterno ==
    ASSUME InvSemaforo,
           \/ PcpResta \/ PcpMide \/ PcpMuestra \/ PcpMiraValor
           \/ (Despacha /\ colaReady = <<>>) \/ UNCHANGED vars
    PROVE  UnSoloLugar' /\ SinCopias'
<1>1. UNCHANGED <<proc, mensajes, hilo, enWait, colaReady, perdidos>>
  BY DEF PcpResta, PcpMide, PcpMuestra, PcpMiraValor, Despacha, vars, sistema, ready
<1>2. pcp \in [pc : {"select", "resta", "encola", "mide", "muestra", "mira"},
               p : Procesos \cup {Nadie}, s : Semaforos \cup {Nadie}, i : Nat, n : Nat]
  BY DEF InvSemaforo, TypeOK, TipoHilos
<1>3. pcp' = pcp \/ (pcp.pc # "encola" /\ pcp'.pc # "encola")
  <2>1. CASE PcpResta \/ PcpMiraValor
    BY <2>1 DEF PcpResta, PcpMiraValor, PcpOcioso
  <2>2. CASE PcpMide
    BY <1>2, <2>2 DEF PcpMide
  <2>3. CASE PcpMuestra
    BY <1>2, <2>3 DEF PcpMuestra
  <2>4. CASE Despacha \/ UNCHANGED vars
    BY <2>4 DEF Despacha, vars
  <2>5. QED
    BY <2>1, <2>2, <2>3, <2>4
<1>4. QED
  BY <1>1, <1>3, Quietos

\* The thread of a semaphore with no process in its hands, and when it measures
\* Ready.
LEMMA QuietaHilo ==
    ASSUME InvSemaforo, NEW s \in Semaforos,
           HiloDespierta(s) \/ HiloLee(s) \/ HiloSuma(s) \/ HiloMideReady(s)
    PROVE  UnSoloLugar' /\ SinCopias'
<1>1. UNCHANGED <<proc, mensajes, pcp, enWait, colaReady, perdidos>>
  BY DEF HiloDespierta, HiloLee, HiloSuma, HiloMideReady, sistema, ready
<1>2. /\ hilo \in [Semaforos -> [pc : {"espera", "lee", "suma", "libera", "mide", "inserta"},
                                 p : Procesos \cup {Nadie}, n : Nat]]
      /\ hilo[s].pc \notin {"mide", "inserta"} => hilo[s].p = Nadie
  BY DEF InvSemaforo, TypeOK, TipoHilos, SinCopias
<1>3. \A u \in Semaforos : u # s => hilo'[u] = hilo[u]
  BY <1>2 DEF HiloDespierta, HiloLee, HiloSuma, HiloMideReady
<1>4. /\ hilo'[s].p = hilo[s].p
      /\ hilo'[s].pc \in {"mide", "inserta"} <=> hilo[s].pc \in {"mide", "inserta"}
  <2>1. CASE HiloDespierta(s)
    BY <1>2, <2>1 DEF HiloDespierta
  <2>2. CASE HiloLee(s)
    BY <1>2, <2>2 DEF HiloLee
  <2>3. CASE HiloSuma(s)
    BY <1>2, <2>3 DEF HiloSuma, HiloEspera
  <2>4. CASE HiloMideReady(s)
    BY <1>2, <2>4 DEF HiloMideReady
  <2>5. QED
    BY <2>1, <2>2, <2>3, <2>4
<1>5. QED
  BY <1>1, <1>3, <1>4, Quietos

\* Every step keeps every process in one place.
LEMMA LugarPaso == InvSemaforo /\ [Next]_vars => UnSoloLugar' /\ SinCopias'
<1> SUFFICES ASSUME InvSemaforo, [Next]_vars PROVE UnSoloLugar' /\ SinCopias'
  OBVIOUS
<1>1. ASSUME NEW p \in Procesos, Script(p) \/ Cpu(p) PROVE UnSoloLugar' /\ SinCopias'
  BY <1>1, QuietaScript, LugarSeBloquea DEF Cpu
<1>2. ASSUME NEW p \in Procesos, PcpMensaje(p) PROVE UnSoloLugar' /\ SinCopias'
  BY <1>2, QuietaPcpMensaje, LugarPcpMideBloqueados DEF PcpMensaje
<1>3. CASE PcpInterno
  BY <1>3, QuietaPcpInterno, LugarPcpEncola DEF PcpInterno
<1>4. CASE Despacha
  <2>1. CASE colaReady = <<>>
    BY <1>4, <2>1, QuietaPcpInterno
  <2>2. CASE colaReady # <<>>
    BY <1>4, <2>2, LugarDespacha
  <2>3. QED
    BY <2>1, <2>2
<1>5. ASSUME NEW s \in Semaforos, Hilo(s) PROVE UnSoloLugar' /\ SinCopias'
  BY <1>5, QuietaHilo, LugarHiloLibera, LugarHiloInserta DEF Hilo
<1>6. CASE UNCHANGED vars
  BY <1>6, QuietaPcpInterno
<1>7. QED
  BY <1>1, <1>2, <1>3, <1>4, <1>5, <1>6 DEF Next

-----------------------------------------------------------------------------
(* One question, one answer *)

\* With the messages counted by name, for the values of a state and of the next.
LEMMA RespuestaPorNombre ==
    /\ UnaRespuesta <=> \A p \in Procesos : Uno(proc[p].pc = "pregunta") =
           DeTipo(mensajes[p], "wait?") + Uno(pcp.pc = "resta" /\ pcp.p = p) + Uno(respuesta[p] # "nada")
    /\ UnaRespuesta' <=> \A p \in Procesos : Uno(proc'[p].pc = "pregunta") =
           DeTipo(mensajes'[p], "wait?") + Uno(pcp'.pc = "resta" /\ pcp'.p = p) + Uno(respuesta'[p] # "nada")
BY DEF UnaRespuesta, DeTipo

\* A script that asks has one question on its way, and no other step of its CPU
\* but the reading of the answer ends the wait.
LEMMA RespuestaCpu ==
    ASSUME InvSemaforo, NEW q \in Procesos, Script(q) \/ Cpu(q)
    PROVE  UnaRespuesta'
<1>t. /\ TypeOK /\ proc \in [Procesos -> [pc : {"corre", "pregunta", "fuera"}, s : Nombres \cup {Nadie}]]
      /\ respuesta \in [Procesos -> {"nada", "si", "no", "no_existe"}]
  BY DEF InvSemaforo, TypeOK, TipoSistema
<1>0. /\ \A p \in Procesos : p # q => /\ proc'[p] = proc[p] /\ mensajes'[p] = mensajes[p]
                                      /\ respuesta'[p] = respuesta[p]
      /\ pcp' = pcp
  BY <1>t DEF Script, Cpu, Pregunta, Senial, Sigue, SeBloquea, Llama, TypeOK, TipoSistema
<1>1. \A p \in Procesos : DeTipo(mensajes[p], "wait?") \in Nat /\ Uno(proc[p].pc = "pregunta") =
          DeTipo(mensajes[p], "wait?") + Uno(pcp.pc = "resta" /\ pcp.p = p) + Uno(respuesta[p] # "nada")
  BY UnaPregunta
<1> DEFINE Bien == Uno(proc'[q].pc = "pregunta") =
               DeTipo(mensajes'[q], "wait?") + Uno(pcp'.pc = "resta" /\ pcp'.p = q) + Uno(respuesta'[q] # "nada")
<1>2. ASSUME NEW s \in Nombres, Pregunta(q, s) PROVE Bien
  <2> DEFINE m == Msj("wait?", s)
  <2>1. m \in Mensaje /\ m.tipo = "wait?" /\ mensajes' = [mensajes EXCEPT ![q] = Append(@, m)]
    BY <1>2 DEF Pregunta, Llama, Msj, Mensaje
  <2> HIDE DEF m
  <2>2. \A u : /\ DeTipo(mensajes[q], u) \in Nat
               /\ DeTipo(mensajes'[q], u) = DeTipo(mensajes[q], u) + (IF m.tipo = u THEN 1 ELSE 0)
    BY <1>t, <2>1, MensajeEnviado
  <2>3. DeTipo(mensajes'[q], "wait?") = DeTipo(mensajes[q], "wait?") + 1
    BY <2>1, <2>2
  <2>4. proc[q].pc = "corre" /\ proc'[q].pc = "pregunta" /\ respuesta' = respuesta
    BY <1>t, <1>2 DEF Pregunta, Llama
  <2>5. QED
    BY <1>0, <1>1, <2>3, <2>4 DEF Uno
<1>3. ASSUME NEW s \in Nombres, Senial(q, s) PROVE Bien
  <2> DEFINE m == Msj("signal", s)
  <2>1. m \in Mensaje /\ m.tipo = "signal" /\ mensajes' = [mensajes EXCEPT ![q] = Append(@, m)]
    BY <1>3 DEF Senial, Llama, Msj, Mensaje
  <2> HIDE DEF m
  <2>2. \A u : /\ DeTipo(mensajes[q], u) \in Nat
               /\ DeTipo(mensajes'[q], u) = DeTipo(mensajes[q], u) + (IF m.tipo = u THEN 1 ELSE 0)
    BY <1>t, <2>1, MensajeEnviado
  <2>3. DeTipo(mensajes'[q], "wait?") = DeTipo(mensajes[q], "wait?")
    BY <2>1, <2>2
  <2>4. proc' = proc /\ respuesta' = respuesta
    BY <1>3 DEF Senial
  <2>5. QED
    BY <1>0, <1>1, <2>3, <2>4
<1>4. ASSUME Sigue(q) PROVE Bien
  <2>1. respuesta[q] # "nada" /\ respuesta'[q] = "nada" /\ proc'[q].pc = "corre" /\ mensajes' = mensajes
    BY <1>t, <1>4 DEF Sigue
  <2>2. DeTipo(mensajes[q], "wait?") = 0 /\ ~(pcp.pc = "resta" /\ pcp.p = q)
    BY <2>1, Contestado
  <2>3. QED
    BY <1>0, <2>1, <2>2 DEF Uno
<1>5. ASSUME SeBloquea(q) PROVE Bien
  <2> DEFINE m == Msj("wait", proc[q].s)
  <2>1. /\ respuesta[q] # "nada" /\ respuesta'[q] = "nada" /\ proc'[q].pc = "fuera"
        /\ mensajes' = [mensajes EXCEPT ![q] = Append(@, m)]
    BY <1>t, <1>5 DEF SeBloquea
  <2>2. m \in Mensaje /\ m.tipo = "wait"
    BY <1>5, NombreConocido, SupuestosSemaforo DEF SeBloquea, Msj, Mensaje
  <2> HIDE DEF m
  <2>3. \A u : /\ DeTipo(mensajes[q], u) \in Nat
               /\ DeTipo(mensajes'[q], u) = DeTipo(mensajes[q], u) + (IF m.tipo = u THEN 1 ELSE 0)
    BY <1>t, <2>1, <2>2, MensajeEnviado
  <2>4. DeTipo(mensajes'[q], "wait?") = DeTipo(mensajes[q], "wait?")
    BY <2>2, <2>3
  <2>5. DeTipo(mensajes[q], "wait?") = 0 /\ ~(pcp.pc = "resta" /\ pcp.p = q)
    BY <2>1, Contestado
  <2>6. QED
    BY <1>0, <2>1, <2>4, <2>5 DEF Uno
<1> HIDE DEF Bien
<1>6. Bien
  BY <1>2, <1>3, <1>4, <1>5 DEF Script, Cpu
<1>7. \A p \in Procesos : Uno(proc'[p].pc = "pregunta") =
          DeTipo(mensajes'[p], "wait?") + Uno(pcp'.pc = "resta" /\ pcp'.p = p) + Uno(respuesta'[p] # "nada")
  <2> SUFFICES ASSUME NEW p \in Procesos, p # q
               PROVE  Uno(proc'[p].pc = "pregunta") =
                          DeTipo(mensajes'[p], "wait?") + Uno(pcp'.pc = "resta" /\ pcp'.p = p) + Uno(respuesta'[p] # "nada")
    BY <1>6 DEF Bien
  <2>1. /\ proc'[p] = proc[p] /\ mensajes'[p] = mensajes[p] /\ respuesta'[p] = respuesta[p] /\ pcp' = pcp
    BY <1>0
  <2>2. QED
    BY <1>1, <2>1
<1>8. QED
  BY <1>7, RespuestaPorNombre

\* The PCP turns a question into an answer.
LEMMA RespuestaPcpMensaje ==
    ASSUME InvSemaforo, NEW q \in Procesos, PcpMensaje(q)
    PROVE  UnaRespuesta'
<1>t. TypeOK /\ respuesta \in [Procesos -> {"nada", "si", "no", "no_existe"}]
  BY DEF InvSemaforo, TypeOK, TipoSistema
<1>r. PICK t \in {"wait?", "wait", "signal"} : Recibe(q, t)
  BY DEF PcpMensaje, PcpSignal, PcpDesconocido, PcpNiega, PcpLeeValor, PcpMideBloqueados
<1>0. /\ pcp.pc = "select" /\ Head(mensajes[q]).tipo = t
      /\ \A p \in Procesos : p # q => mensajes'[p] = mensajes[p]
      /\ \A u : /\ DeTipo(mensajes'[q], u) \in Nat
                /\ DeTipo(mensajes[q], u) = DeTipo(mensajes'[q], u) + (IF t = u THEN 1 ELSE 0)
  BY <1>t, <1>r, MensajeRecibido
<1>1. \A p \in Procesos : DeTipo(mensajes[p], "wait?") \in Nat /\ Uno(proc[p].pc = "pregunta") =
          DeTipo(mensajes[p], "wait?") + Uno(pcp.pc = "resta" /\ pcp.p = p) + Uno(respuesta[p] # "nada")
  BY UnaPregunta
<1>2. \A p \in Procesos : Uno(proc'[p].pc = "pregunta") =
          DeTipo(mensajes'[p], "wait?") + Uno(pcp'.pc = "resta" /\ pcp'.p = p) + Uno(respuesta'[p] # "nada")
  <2> SUFFICES ASSUME NEW p \in Procesos
               PROVE  Uno(proc'[p].pc = "pregunta") =
                          DeTipo(mensajes'[p], "wait?") + Uno(pcp'.pc = "resta" /\ pcp'.p = p) + Uno(respuesta'[p] # "nada")
    OBVIOUS
  <2>0. /\ DeTipo(mensajes[p], "wait?") \in Nat
        /\ Uno(proc[p].pc = "pregunta") = DeTipo(mensajes[p], "wait?") + 0 + Uno(respuesta[p] # "nada")
    BY <1>0, <1>1 DEF Uno
  <2>1. CASE PcpSignal(q) \/ PcpMideBloqueados(q)
    <3>1. t # "wait?" /\ proc' = proc /\ respuesta' = respuesta /\ pcp'.pc # "resta"
      BY <1>0, <2>1 DEF PcpSignal, PcpMideBloqueados, Recibe, PcpOcioso
    <3>2. DeTipo(mensajes'[p], "wait?") = DeTipo(mensajes[p], "wait?")
      BY <1>0, <3>1
    <3>3. QED
      BY <2>0, <3>1, <3>2 DEF Uno
  <2>2. CASE PcpDesconocido(q) \/ PcpNiega(q)
    <3>1. /\ t = "wait?" /\ proc' = proc /\ pcp' = pcp /\ respuesta'[q] \in {"no_existe", "no"}
          /\ \A u \in Procesos : u # q => respuesta'[u] = respuesta[u]
      BY <1>t, <1>0, <2>2 DEF PcpDesconocido, PcpNiega, Recibe
    <3>2. CASE p = q
      <4>1. DeTipo(mensajes[q], "wait?") = DeTipo(mensajes'[q], "wait?") + 1 /\ DeTipo(mensajes'[q], "wait?") \in Nat
        BY <1>0, <3>1
      <4>2. QED
        BY <1>0, <2>0, <3>1, <3>2, <4>1 DEF Uno
    <3>3. CASE p # q
      <4>1. mensajes'[p] = mensajes[p] /\ respuesta'[p] = respuesta[p]
        BY <1>0, <3>1, <3>3
      <4>2. QED
        BY <1>0, <2>0, <3>1, <4>1 DEF Uno
    <3>4. QED
      BY <3>2, <3>3
  <2>3. CASE PcpLeeValor(q)
    <3>1. t = "wait?" /\ proc' = proc /\ respuesta' = respuesta /\ pcp'.pc = "resta" /\ pcp'.p = q
      BY <1>0, <2>3 DEF PcpLeeValor, Recibe, PcpOcioso
    <3>2. CASE p = q
      <4>1. DeTipo(mensajes[q], "wait?") = DeTipo(mensajes'[q], "wait?") + 1 /\ DeTipo(mensajes'[q], "wait?") \in Nat
        BY <1>0, <3>1
      <4>2. QED
        BY <2>0, <3>1, <3>2, <4>1 DEF Uno
    <3>3. CASE p # q
      <4>1. mensajes'[p] = mensajes[p]
        BY <1>0, <3>3
      <4>2. QED
        BY <2>0, <3>1, <3>3, <4>1 DEF Uno
    <3>4. QED
      BY <3>2, <3>3
  <2>4. QED
    BY <2>1, <2>2, <2>3 DEF PcpMensaje
<1>3. QED
  BY <1>2, RespuestaPorNombre

\* Of the rest only the end of a wait that is let through answers.
LEMMA RespuestaResto ==
    ASSUME InvSemaforo,
           PcpInterno \/ Despacha \/ (\E s \in Semaforos : Hilo(s)) \/ UNCHANGED vars
    PROVE  UnaRespuesta'
<1>t. /\ respuesta \in [Procesos -> {"nada", "si", "no", "no_existe"}]
      /\ proc \in [Procesos -> [pc : {"corre", "pregunta", "fuera"}, s : Nombres \cup {Nadie}]]
      /\ pcp \in [pc : {"select", "resta", "encola", "mide", "muestra", "mira"},
                  p : Procesos \cup {Nadie}, s : Semaforos \cup {Nadie}, i : Nat, n : Nat]
      /\ pcp.pc = "resta" => pcp.p \in Procesos
  BY DEF InvSemaforo, TypeOK, TipoSistema, TipoHilos
<1>m. mensajes' = mensajes
  BY DEF PcpInterno, PcpResta, PcpEncola, PcpMide, PcpMuestra, PcpMiraValor, Despacha, Hilo, HiloDespierta,
         HiloLee, HiloSuma, HiloLibera, HiloMideReady, HiloInserta, vars, sistema
<1>1. \A p \in Procesos : DeTipo(mensajes[p], "wait?") \in Nat /\ Uno(proc[p].pc = "pregunta") =
          DeTipo(mensajes[p], "wait?") + Uno(pcp.pc = "resta" /\ pcp.p = p) + Uno(respuesta[p] # "nada")
  BY UnaPregunta
<1>2. \A p \in Procesos : Uno(proc'[p].pc = "pregunta") =
          DeTipo(mensajes'[p], "wait?") + Uno(pcp'.pc = "resta" /\ pcp'.p = p) + Uno(respuesta'[p] # "nada")
  <2> SUFFICES ASSUME NEW p \in Procesos
               PROVE  Uno(proc'[p].pc = "pregunta") =
                          DeTipo(mensajes'[p], "wait?") + Uno(pcp'.pc = "resta" /\ pcp'.p = p) + Uno(respuesta'[p] # "nada")
    OBVIOUS
  <2>0. DeTipo(mensajes[p], "wait?") \in Nat /\ Uno(proc[p].pc = "pregunta") =
            DeTipo(mensajes[p], "wait?") + Uno(pcp.pc = "resta" /\ pcp.p = p) + Uno(respuesta[p] # "nada")
    BY <1>1
  <2>1. CASE PcpResta
    <3>1. /\ pcp.pc = "resta" /\ pcp'.pc = "select" /\ proc' = proc
          /\ respuesta'[pcp.p] = "si" /\ \A u \in Procesos : u # pcp.p => respuesta'[u] = respuesta[u]
      BY <1>t, <2>1 DEF PcpResta, PcpOcioso
    <3>2. CASE p = pcp.p
      BY <1>m, <2>0, <3>1, <3>2 DEF Uno
    <3>3. CASE p # pcp.p
      BY <1>m, <2>0, <3>1, <3>3 DEF Uno
    <3>4. QED
      BY <3>2, <3>3
  <2>2. CASE Despacha
    <3>1. respuesta' = respuesta /\ pcp' = pcp
      BY <2>2 DEF Despacha
    <3>2. proc'[p].pc = "pregunta" <=> proc[p].pc = "pregunta"
      <4>1. CASE colaReady = <<>>
        BY <2>2, <4>1 DEF Despacha
      <4>2. CASE colaReady # <<>>
        BY <1>t, <2>2, <4>2, LugarDespacha DEF Despacha
      <4>3. QED
        BY <4>1, <4>2
    <3>3. QED
      BY <1>m, <2>0, <3>1, <3>2 DEF Uno
  <2>3. CASE PcpEncola \/ PcpMide \/ PcpMuestra \/ PcpMiraValor
    <3>1. proc' = proc /\ respuesta' = respuesta
      BY <2>3 DEF PcpEncola, PcpMide, PcpMuestra, PcpMiraValor, sistema
    <3>2. pcp.pc # "resta"
      BY <2>3 DEF PcpEncola, PcpMide, PcpMuestra, PcpMiraValor
    <3>3. pcp'.pc # "resta"
      <4>1. CASE PcpEncola \/ PcpMiraValor
        <5>1. CASE PcpEncola
          BY <5>1 DEF PcpEncola, PcpOcioso
        <5>2. CASE PcpMiraValor
          BY <5>2 DEF PcpMiraValor, PcpOcioso
        <5>3. QED
          BY <4>1, <5>1, <5>2
      <4>2. CASE PcpMide
        BY <1>t, <4>2 DEF PcpMide
      <4>3. CASE PcpMuestra
        BY <1>t, <4>3 DEF PcpMuestra
      <4>4. QED
        BY <2>3, <4>1, <4>2, <4>3
    <3>4. QED
      BY <1>m, <2>0, <3>1, <3>2, <3>3 DEF Uno
  <2>4. CASE (\E s \in Semaforos : Hilo(s)) \/ UNCHANGED vars
    <3>1. proc' = proc /\ respuesta' = respuesta /\ pcp' = pcp
      BY <2>4 DEF Hilo, HiloDespierta, HiloLee, HiloSuma, HiloLibera, HiloMideReady, HiloInserta, vars, sistema
    <3>2. QED
      BY <1>m, <2>0, <3>1
  <2>5. QED
    BY <2>1, <2>2, <2>3, <2>4 DEF PcpInterno
<1>3. QED
  BY <1>2, RespuestaPorNombre

-----------------------------------------------------------------------------
(* The semaphore a message is about *)

\* With no message of a kind on its way none of them is of that kind.
LEMMA DeTipoCero ==
    ASSUME NEW s \in Seq(Mensaje), NEW t, DeTipo(s, t) = 0
    PROVE  \A i \in DOMAIN s : s[i].tipo # t
<1>1. IsFiniteSet(DOMAIN s)
  BY LenProperties, FS_Interval
<1>2. {i \in DOMAIN s : s[i].tipo = t} \subseteq DOMAIN s
  OBVIOUS
<1>3. IsFiniteSet({i \in DOMAIN s : s[i].tipo = t})
  BY <1>1, <1>2, FS_Subset
<1>4. {i \in DOMAIN s : s[i].tipo = t} = {}
  BY <1>3, FS_EmptySet DEF DeTipo
<1>5. QED
  BY <1>4

\* What MismoNombre says of one process.
BienNombrado(p) ==
    /\ \A i \in DOMAIN mensajes[p] :
           /\ mensajes[p][i].tipo = "wait?" => mensajes[p][i].s = proc[p].s
           /\ mensajes[p][i].tipo = "wait" => mensajes[p][i].s \in Semaforos
    /\ respuesta[p] = "no" => proc[p].s \in Semaforos

\* A script waits for the semaphore it asks for, and a CPU that has read the
\* answer has no other question on its way.
LEMMA NombreCpu ==
    ASSUME InvSemaforo, NEW q \in Procesos, Script(q) \/ Cpu(q)
    PROVE  MismoNombre'
<1>t. /\ TypeOK /\ proc \in [Procesos -> [pc : {"corre", "pregunta", "fuera"}, s : Nombres \cup {Nadie}]]
      /\ respuesta \in [Procesos -> {"nada", "si", "no", "no_existe"}] /\ mensajes[q] \in Seq(Mensaje)
  BY DEF InvSemaforo, TypeOK, TipoSistema
<1>0. \A p \in Procesos : p # q => /\ proc'[p] = proc[p] /\ mensajes'[p] = mensajes[p]
                                   /\ respuesta'[p] = respuesta[p]
  BY <1>t DEF Script, Cpu, Pregunta, Senial, Sigue, SeBloquea, Llama, TypeOK, TipoSistema
<1>1. \A p \in Procesos : BienNombrado(p)
  BY DEF InvSemaforo, MismoNombre, BienNombrado
<1>c. ASSUME proc[q].pc = "corre" \/ respuesta[q] # "nada"
      PROVE  \A i \in DOMAIN mensajes[q] : mensajes[q][i].tipo # "wait?"
  <2>1. DeTipo(mensajes[q], "wait?") = 0
    BY <1>c, UnaPregunta, Contestado DEF Uno
  <2>2. QED
    BY <1>t, <2>1, DeTipoCero
<1>2. ASSUME NEW s \in Nombres, Pregunta(q, s) PROVE BienNombrado(q)'
  <2> DEFINE m == Msj("wait?", s)
  <2>1. /\ m \in Mensaje /\ m.tipo = "wait?" /\ m.s = s /\ mensajes' = [mensajes EXCEPT ![q] = Append(@, m)]
        /\ proc[q].pc = "corre" /\ proc'[q].s = s /\ respuesta' = respuesta
    BY <1>t, <1>2 DEF Pregunta, Llama, Msj, Mensaje
  <2> HIDE DEF m
  <2>2. \A i \in DOMAIN mensajes'[q] :
           mensajes'[q][i] = m \/ \E j \in DOMAIN mensajes[q] : mensajes'[q][i] = mensajes[q][j]
    BY <1>t, <2>1, MensajeEnviado
  <2>3. \A j \in DOMAIN mensajes[q] : /\ mensajes[q][j].tipo # "wait?"
                                      /\ mensajes[q][j].tipo = "wait" => mensajes[q][j].s \in Semaforos
    BY <1>1, <1>c, <2>1 DEF BienNombrado
  <2>4. respuesta'[q] # "no"
    BY <2>1, UnaPregunta DEF Uno
  <2>5. QED
    BY <2>1, <2>2, <2>3, <2>4 DEF BienNombrado
<1>3. ASSUME NEW s \in Nombres, Senial(q, s) PROVE BienNombrado(q)'
  <2> DEFINE m == Msj("signal", s)
  <2>1. /\ m \in Mensaje /\ m.tipo = "signal" /\ mensajes' = [mensajes EXCEPT ![q] = Append(@, m)]
        /\ proc' = proc /\ respuesta' = respuesta
    BY <1>3 DEF Senial, Llama, Msj, Mensaje
  <2> HIDE DEF m
  <2>2. \A i \in DOMAIN mensajes'[q] :
           mensajes'[q][i] = m \/ \E j \in DOMAIN mensajes[q] : mensajes'[q][i] = mensajes[q][j]
    BY <1>t, <2>1, MensajeEnviado
  <2>3. QED
    BY <1>1, <2>1, <2>2 DEF BienNombrado
<1>4. ASSUME Sigue(q) PROVE BienNombrado(q)'
  <2>1. respuesta[q] # "nada" /\ respuesta'[q] = "nada" /\ mensajes' = mensajes
    BY <1>t, <1>4 DEF Sigue
  <2>2. \A i \in DOMAIN mensajes[q] : mensajes[q][i].tipo # "wait?"
    BY <1>c, <2>1
  <2>3. QED
    BY <1>1, <2>1, <2>2 DEF BienNombrado
<1>5. ASSUME SeBloquea(q) PROVE BienNombrado(q)'
  <2> DEFINE m == Msj("wait", proc[q].s)
  <2>1. /\ respuesta[q] # "nada" /\ respuesta'[q] = "nada"
        /\ mensajes' = [mensajes EXCEPT ![q] = Append(@, m)]
    BY <1>t, <1>5 DEF SeBloquea
  <2>2. m \in Mensaje /\ m.tipo = "wait" /\ m.s \in Semaforos
    BY <1>5, NombreConocido, SupuestosSemaforo DEF SeBloquea, Msj, Mensaje
  <2> HIDE DEF m
  <2>3. \A i \in DOMAIN mensajes'[q] :
           mensajes'[q][i] = m \/ \E j \in DOMAIN mensajes[q] : mensajes'[q][i] = mensajes[q][j]
    BY <1>t, <2>1, <2>2, MensajeEnviado
  <2>4. \A j \in DOMAIN mensajes[q] : /\ mensajes[q][j].tipo # "wait?"
                                      /\ mensajes[q][j].tipo = "wait" => mensajes[q][j].s \in Semaforos
    BY <1>1, <1>c, <2>1 DEF BienNombrado
  <2>5. QED
    BY <2>1, <2>2, <2>3, <2>4 DEF BienNombrado
<1>6. BienNombrado(q)'
  BY <1>2, <1>3, <1>4, <1>5 DEF Script, Cpu
<1>7. \A p \in Procesos : BienNombrado(p)'
  BY <1>0, <1>1, <1>6 DEF BienNombrado
<1>8. QED
  BY <1>7 DEF MismoNombre, BienNombrado

\* Only a process that asked for a semaphore of the kernel is told no.
LEMMA NombrePcpMensaje ==
    ASSUME InvSemaforo, NEW q \in Procesos, PcpMensaje(q)
    PROVE  MismoNombre'
<1>t. TypeOK /\ respuesta \in [Procesos -> {"nada", "si", "no", "no_existe"}]
  BY DEF InvSemaforo, TypeOK, TipoSistema
<1>r. PICK t \in {"wait?", "wait", "signal"} : Recibe(q, t)
  BY DEF PcpMensaje, PcpSignal, PcpDesconocido, PcpNiega, PcpLeeValor, PcpMideBloqueados
<1>0. /\ \A p \in Procesos : p # q => mensajes'[p] = mensajes[p]
      /\ \A i \in DOMAIN mensajes'[q] : \E j \in DOMAIN mensajes[q] : mensajes'[q][i] = mensajes[q][j]
      /\ \E j \in DOMAIN mensajes[q] : Head(mensajes[q]) = mensajes[q][j]
      /\ Head(mensajes[q]).tipo = t
  BY <1>t, <1>r, MensajeRecibido
<1>1. \A p \in Procesos : BienNombrado(p)
  BY DEF InvSemaforo, MismoNombre, BienNombrado
<1>2. proc' = proc
  BY DEF PcpMensaje, PcpSignal, PcpDesconocido, PcpNiega, PcpLeeValor, PcpMideBloqueados
<1>3. \A p \in Procesos : respuesta'[p] = "no" => proc[p].s \in Semaforos
  <2>1. CASE PcpNiega(q)
    <3>1. /\ t = "wait?" /\ Head(mensajes[q]).s \in Semaforos
          /\ \A p \in Procesos : p # q => respuesta'[p] = respuesta[p]
      BY <1>t, <1>0, <2>1 DEF PcpNiega, Recibe
    <3>2. proc[q].s \in Semaforos
      BY <1>0, <1>1, <3>1 DEF BienNombrado
    <3>3. QED
      BY <1>1, <3>1, <3>2 DEF BienNombrado
  <2>2. CASE PcpDesconocido(q)
    BY <1>t, <1>1, <2>2 DEF PcpDesconocido, BienNombrado
  <2>3. CASE PcpSignal(q) \/ PcpLeeValor(q) \/ PcpMideBloqueados(q)
    BY <1>1, <2>3 DEF PcpSignal, PcpLeeValor, PcpMideBloqueados, BienNombrado
  <2>4. QED
    BY <2>1, <2>2, <2>3 DEF PcpMensaje
<1>4. \A p \in Procesos : BienNombrado(p)'
  <2> SUFFICES ASSUME NEW p \in Procesos PROVE BienNombrado(p)'
    OBVIOUS
  <2>1. CASE p = q
    BY <1>0, <1>1, <1>2, <1>3, <2>1 DEF BienNombrado
  <2>2. CASE p # q
    BY <1>0, <1>1, <1>2, <1>3, <2>2 DEF BienNombrado
  <2>3. QED
    BY <2>1, <2>2
<1>5. QED
  BY <1>4 DEF MismoNombre, BienNombrado

\* Nobody else touches a message or a name, nor says no.
LEMMA NombreResto ==
    ASSUME InvSemaforo,
           PcpInterno \/ Despacha \/ (\E s \in Semaforos : Hilo(s)) \/ UNCHANGED vars
    PROVE  MismoNombre'
<1>t. /\ respuesta \in [Procesos -> {"nada", "si", "no", "no_existe"}]
      /\ proc \in [Procesos -> [pc : {"corre", "pregunta", "fuera"}, s : Nombres \cup {Nadie}]]
      /\ MismoNombre
  BY DEF InvSemaforo, TypeOK, TipoSistema
<1>1. mensajes' = mensajes
  BY DEF PcpInterno, PcpResta, PcpEncola, PcpMide, PcpMuestra, PcpMiraValor, Despacha, Hilo, HiloDespierta,
         HiloLee, HiloSuma, HiloLibera, HiloMideReady, HiloInserta, vars, sistema
<1>2. \A p \in Procesos : proc'[p].s = proc[p].s
  <2>1. CASE Despacha
    <3>1. CASE colaReady = <<>>
      BY <2>1, <3>1 DEF Despacha
    <3>2. CASE colaReady # <<>>
      BY <1>t, <2>1, <3>2, LugarDespacha DEF Despacha
    <3>3. QED
      BY <3>1, <3>2
  <2>2. CASE PcpInterno \/ (\E s \in Semaforos : Hilo(s)) \/ UNCHANGED vars
    BY <2>2 DEF PcpInterno, PcpResta, PcpEncola, PcpMide, PcpMuestra, PcpMiraValor, Hilo, HiloDespierta,
         HiloLee, HiloSuma, HiloLibera, HiloMideReady, HiloInserta, vars, sistema
  <2>3. QED
    BY <2>1, <2>2
<1>3. \A p \in Procesos : respuesta'[p] = "no" => respuesta[p] = "no"
  <2>1. CASE PcpResta
    BY <1>t, <2>1 DEF PcpResta
  <2>2. CASE ~PcpResta
    BY <2>2 DEF PcpInterno, PcpEncola, PcpMide, PcpMuestra, PcpMiraValor, Despacha, Hilo, HiloDespierta,
         HiloLee, HiloSuma, HiloLibera, HiloMideReady, HiloInserta, vars, sistema
  <2>3. QED
    BY <2>1, <2>2
<1>4. QED
  BY <1>t, <1>1, <1>2, <1>3 DEF MismoNombre

-----------------------------------------------------------------------------
(* The invariant *)

\* It holds when the kernel starts...
LEMMA SemaforoInicial == Init => InvSemaforo
<1> SUFFICES ASSUME Init PROVE InvSemaforo
  OBVIOUS
<1>1. TypeOK
  <2>1. TipoSistema
    BY SupuestosSemaforo DEF Init, TipoSistema
  <2>2. TipoValores
    BY SupuestosSemaforo DEF Init, TipoValores
  <2>3. TipoHilos
    BY DEF Init, TipoHilos, PcpOcioso, HiloEspera
  <2>4. TipoHistoria
    BY DEF Init, TipoHistoria
  <2>5. QED
    BY <2>1, <2>2, <2>3, <2>4 DEF TypeOK
<1>2. \A t : DeTipo(<<>>, t) = 0
  <2> TAKE t
  <2>1. {i \in DOMAIN <<>> : <<>>[i].tipo = t} = {}
    BY EmptySeq
  <2>2. QED
    BY <2>1, FS_EmptySet DEF DeTipo
<1>3. \A p \in Procesos : mensajes[p] = <<>> /\ proc[p].pc = "corre" /\ respuesta[p] = "nada"
  BY DEF Init
<1>4. ToSet(<<>>) = {} /\ SinRepetir(<<>>)
  BY EmptySeq DEF ToSet, SinRepetir
<1>5. \A p \in Procesos : \A k \in Clases : \A x \in Indices : Esta(p, k, x) <=> k = "cpu" /\ x = Nadie
  <2> SUFFICES ASSUME NEW p \in Procesos PROVE \A k \in Clases : \A x \in Indices : Esta(p, k, x) <=> k = "cpu" /\ x = Nadie
    OBVIOUS
  <2>1. /\ proc[p].pc # "fuera" /\ DeTipo(mensajes[p], "wait") = 0 /\ pcp.pc # "encola" /\ perdidos = {}
        /\ ToSet(colaReady) = {} /\ \A s \in Semaforos : ToSet(enWait[s]) = {} /\ hilo[s].p = Nadie
    BY <1>2, <1>3, <1>4 DEF Init, PcpOcioso, HiloEspera
  <2>2. p # Nadie
    BY SupuestosSemaforo
  <2>3. QED
    BY <2>1, <2>2 DEF Esta
<1>6. UnSoloLugar
  BY <1>5, Nombrados DEF UnSoloLugar
<1>7. SinCopias
  BY <1>2, <1>3, <1>4 DEF Init, SinCopias, HiloEspera
<1>8. UnaRespuesta
  <2>1. pcp.pc # "resta" /\ \A p \in Procesos : DeTipo(mensajes[p], "wait?") = 0
    BY <1>2, <1>3 DEF Init, PcpOcioso
  <2>2. QED
    BY <1>3, <2>1, RespuestaPorNombre DEF Uno
<1>9. MismoNombre
  <2>1. \A p \in Procesos : DOMAIN mensajes[p] = {}
    BY <1>3, EmptySeq
  <2>2. QED
    BY <1>3, <2>1 DEF MismoNombre
<1>10. QED
  BY <1>1, <1>6, <1>7, <1>8, <1>9 DEF InvSemaforo

\* ... and every step keeps it.
LEMMA SemaforoPaso == InvSemaforo /\ [Next]_vars => InvSemaforo'
<1> SUFFICES ASSUME InvSemaforo, [Next]_vars PROVE InvSemaforo'
  OBVIOUS
<1>1. TypeOK' /\ UnSoloLugar' /\ SinCopias'
  BY TipoPaso, LugarPaso
<1>2. UnaRespuesta' /\ MismoNombre'
  <2>1. CASE \E p \in Procesos : Script(p) \/ Cpu(p)
    BY <2>1, RespuestaCpu, NombreCpu
  <2>2. CASE \E p \in Procesos : PcpMensaje(p)
    BY <2>2, RespuestaPcpMensaje, NombrePcpMensaje
  <2>3. CASE PcpInterno \/ Despacha \/ (\E s \in Semaforos : Hilo(s)) \/ UNCHANGED vars
    BY <2>3, RespuestaResto, NombreResto
  <2>4. QED
    BY <2>1, <2>2, <2>3 DEF Next
<1>3. QED
  BY <1>1, <1>2 DEF InvSemaforo

\* So it always holds.
LEMMA SemaforoSiempre == Spec => []InvSemaforo
BY SemaforoInicial, SemaforoPaso, PTL DEF Spec

\* Every variable always has its type: in particular the value of a semaphore
\* never goes below zero, whatever updates of it overlap, and hilo_semaforo never
\* takes a process from an empty list.
THEOREM TipoSemaforoCorrecto == Spec => []TypeOK
<1>1. InvSemaforo => TypeOK
  BY DEF InvSemaforo
<1>2. QED
  BY <1>1, SemaforoSiempre, PTL

\* A CPU that waits for an answer always has exactly one coming and no other CPU
\* has any.
THEOREM SiempreUnaRespuesta == Spec => []UnaRespuesta
<1>1. InvSemaforo => UnaRespuesta
  BY DEF InvSemaforo
<1>2. QED
  BY <1>1, SemaforoSiempre, PTL

-----------------------------------------------------------------------------
(* One place, counted *)

\* A set with a member and no other has one element.
LEMMA UnSoloElemento == ASSUME NEW S, NEW x \in S, \A y \in S : y = x PROVE Cardinality(S) = 1
<1>1. S = {x}
  OBVIOUS
<1>2. QED
  BY <1>1, FS_Singleton

\* A process is always in one place only: no wait and no wake-up makes a second
\* copy of it, and none is dropped but those list_add_in_index leaves out.
THEOREM ProcesoSiempreEnUnLugar == Spec => []ProcesoEnUnLugar
<1>1. InvSemaforo => ProcesoEnUnLugar
  <2> SUFFICES ASSUME InvSemaforo, NEW p \in Procesos
               PROVE  Uno(proc[p].pc # "fuera")
                        + Cardinality({i \in DOMAIN mensajes[p] : mensajes[p][i].tipo = "wait"})
                        + Uno(pcp.pc = "encola" /\ pcp.p = p)
                        + Cardinality(UNION {{s} \X Posiciones(p, enWait[s]) : s \in Semaforos})
                        + Cardinality({s \in Semaforos : hilo[s].p = p})
                        + Cardinality(Posiciones(p, colaReady)) + Uno(p \in perdidos) = 1
    BY DEF ProcesoEnUnLugar
  <2> DEFINE Hay(k) == \E x \in Indices : Esta(p, k, x)
             Bloqueados == UNION {{s} \X Posiciones(p, enWait[s]) : s \in Semaforos}
             EnHilos == {s \in Semaforos : hilo[s].p = p}
             EnReady == Posiciones(p, colaReady)
  <2>1. UnSoloLugar /\ SinCopias /\ TypeOK
    BY DEF InvSemaforo
  <2>2. Uno(proc[p].pc # "fuera") = IF Hay("cpu") THEN 1 ELSE 0
    BY Nombrados DEF Esta, Uno
  <2>3. Cardinality({i \in DOMAIN mensajes[p] : mensajes[p][i].tipo = "wait"}) = IF Hay("mensaje") THEN 1 ELSE 0
    <3>1. DeTipo(mensajes[p], "wait") \in Nat /\ DeTipo(mensajes[p], "wait") <= 1
      BY <2>1, UnaPregunta DEF SinCopias
    <3>2. Hay("mensaje") <=> DeTipo(mensajes[p], "wait") > 0
      BY Nombrados DEF Esta
    <3>3. DeTipo(mensajes[p], "wait") = IF Hay("mensaje") THEN 1 ELSE 0
      BY <3>1, <3>2
    <3>4. QED
      BY <3>3 DEF DeTipo
  <2>4. Uno(pcp.pc = "encola" /\ pcp.p = p) = IF Hay("pcp") THEN 1 ELSE 0
    BY Nombrados DEF Esta, Uno
  <2>5. Cardinality(Bloqueados) = IF Hay("wait") THEN 1 ELSE 0
    <3>1. \A s \in Semaforos : \A i : i \in Posiciones(p, enWait[s]) <=> i \in DOMAIN enWait[s] /\ enWait[s][i] = p
      BY DEF Posiciones
    <3>2. CASE Hay("wait")
      <4>1. PICK s \in Semaforos : Esta(p, "wait", s)
        BY <3>2 DEF Esta
      <4>2. PICK i \in DOMAIN enWait[s] : enWait[s][i] = p
        BY <4>1 DEF Esta, ToSet
      <4>3. <<s, i>> \in Bloqueados
        BY <3>1, <4>2
      <4>4. ASSUME NEW y \in Bloqueados PROVE y = <<s, i>>
        <5>1. PICK u \in Semaforos : y \in {u} \X Posiciones(p, enWait[u])
          OBVIOUS
        <5>2. PICK j \in Posiciones(p, enWait[u]) : y = <<u, j>>
          BY <5>1
        <5>3. j \in DOMAIN enWait[u] /\ enWait[u][j] = p
          BY <3>1, <5>2
        <5>4. Esta(p, "wait", u)
          BY <5>3 DEF Esta, ToSet
        <5>5. u = s
          BY <2>1, <4>1, <5>4, Nombrados DEF UnSoloLugar
        <5>6. SinRepetir(enWait[s])
          BY <2>1 DEF SinCopias
        <5>7. j = i
          BY <4>2, <5>3, <5>5, <5>6 DEF SinRepetir
        <5>8. QED
          BY <5>2, <5>5, <5>7
      <4> HIDE DEF Bloqueados
      <4>5. Cardinality(Bloqueados) = 1
        BY <4>3, <4>4, UnSoloElemento
      <4>6. QED
        BY <3>2, <4>5
    <3>3. CASE ~Hay("wait")
      <4>1. \A s \in Semaforos : ~Esta(p, "wait", s)
        BY <3>3, Nombrados
      <4>2. \A s \in Semaforos : Posiciones(p, enWait[s]) = {}
        BY <4>1 DEF Esta, ToSet, Posiciones
      <4>3. Bloqueados = {}
        BY <4>2
      <4> HIDE DEF Bloqueados
      <4>4. Cardinality(Bloqueados) = 0
        BY <4>3, FS_EmptySet
      <4>5. QED
        BY <3>3, <4>4
    <3>4. QED
      BY <3>2, <3>3
  <2>6. Cardinality(EnHilos) = IF Hay("hilo") THEN 1 ELSE 0
    <3>1. CASE Hay("hilo")
      <4>1. PICK s \in Semaforos : hilo[s].p = p
        BY <3>1 DEF Esta
      <4>2. \A u \in EnHilos : u = s
        BY <2>1, <4>1, Nombrados DEF UnSoloLugar, Esta
      <4>3. s \in EnHilos
        BY <4>1
      <4> HIDE DEF EnHilos
      <4>4. Cardinality(EnHilos) = 1
        BY <4>2, <4>3, UnSoloElemento
      <4>5. QED
        BY <3>1, <4>4
    <3>2. CASE ~Hay("hilo")
      <4>1. EnHilos = {}
        BY <3>2, Nombrados DEF Esta
      <4> HIDE DEF EnHilos
      <4>2. Cardinality(EnHilos) = 0
        BY <4>1, FS_EmptySet
      <4>3. QED
        BY <3>2, <4>2
    <3>3. QED
      BY <3>1, <3>2
  <2>7. Cardinality(EnReady) = IF Hay("ready") THEN 1 ELSE 0
    <3>1. CASE Hay("ready")
      <4>1. PICK i \in DOMAIN colaReady : colaReady[i] = p
        BY <3>1 DEF Esta, ToSet
      <4>2. i \in EnReady /\ \A j \in EnReady : j = i
        BY <2>1, <4>1 DEF Posiciones, SinCopias, SinRepetir
      <4> HIDE DEF EnReady
      <4>3. Cardinality(EnReady) = 1
        BY <4>2, UnSoloElemento
      <4>4. QED
        BY <3>1, <4>3
    <3>2. CASE ~Hay("ready")
      <4>1. EnReady = {}
        BY <3>2, Nombrados DEF Esta, ToSet, Posiciones
      <4> HIDE DEF EnReady
      <4>2. Cardinality(EnReady) = 0
        BY <4>1, FS_EmptySet
      <4>3. QED
        BY <3>2, <4>2
    <3>3. QED
      BY <3>1, <3>2
  <2>8. Uno(p \in perdidos) = IF Hay("perdido") THEN 1 ELSE 0
    BY Nombrados DEF Esta, Uno
  <2>9. (\E k \in Clases : Hay(k)) /\ \A k, j \in Clases : Hay(k) /\ Hay(j) => k = j
    BY <2>1 DEF UnSoloLugar
  <2> HIDE DEF Hay, Bloqueados, EnHilos, EnReady
  <2>10. PICK k \in Clases : Hay(k) /\ \A j \in Clases : Hay(j) <=> j = k
    BY <2>9
  <2>11. /\ Uno(proc[p].pc # "fuera") = Uno(k = "cpu")
         /\ Cardinality({i \in DOMAIN mensajes[p] : mensajes[p][i].tipo = "wait"}) = Uno(k = "mensaje")
         /\ Uno(pcp.pc = "encola" /\ pcp.p = p) = Uno(k = "pcp")
         /\ Cardinality(Bloqueados) = Uno(k = "wait") /\ Cardinality(EnHilos) = Uno(k = "hilo")
         /\ Cardinality(EnReady) = Uno(k = "ready") /\ Uno(p \in perdidos) = Uno(k = "perdido")
    BY <2>2, <2>3, <2>4, <2>5, <2>6, <2>7, <2>8, <2>10, Nombrados DEF Uno
  <2>12. Uno(k = "cpu") + Uno(k = "mensaje") + Uno(k = "pcp") + Uno(k = "wait") + Uno(k = "hilo")
            + Uno(k = "ready") + Uno(k = "perdido") = 1
    BY DEF Clases, Uno
  <2>13. QED
    BY <2>11, <2>12 DEF Bloqueados, EnHilos, EnReady
<1>2. QED
  BY <1>1, SemaforoSiempre, PTL

-----------------------------------------------------------------------------
(* What the value of a semaphore accounts for *)

\* The two sides of the account of semaphore s.
Debe(s) == pases[s] + valor[s] + liberar[s] + Uno(hilo[s].pc # "espera")
Haber(s) == ValorInicial[s] + seniales[s] + tcudap[s] + desvio[s]

\* Every step changes both sides of it alike.
LEMMA CuentaPaso == InvSemaforo /\ CuentaDelSemaforo /\ [Next]_vars => CuentaDelSemaforo'
<1> SUFFICES ASSUME InvSemaforo, CuentaDelSemaforo, [Next]_vars, NEW s \in Semaforos
             PROVE  Debe(s)' = Haber(s)'
  BY DEF CuentaDelSemaforo, Debe, Haber
<1>c. Debe(s) = Haber(s)
  BY DEF CuentaDelSemaforo, Debe, Haber
<1>t. /\ pases \in [Semaforos -> Nat] /\ valor \in [Semaforos -> Nat] /\ liberar \in [Semaforos -> Nat]
      /\ seniales \in [Semaforos -> Nat] /\ tcudap \in [Semaforos -> Nat] /\ desvio \in [Semaforos -> Int]
      /\ ValorInicial[s] \in Nat
      /\ hilo \in [Semaforos -> [pc : {"espera", "lee", "suma", "libera", "mide", "inserta"},
                                 p : Procesos \cup {Nadie}, n : Nat]]
  BY SupuestosSemaforo DEF InvSemaforo, TypeOK, TipoValores, TipoHistoria, TipoHilos
<1>h. /\ pases[s] \in Nat /\ valor[s] \in Nat /\ liberar[s] \in Nat /\ seniales[s] \in Nat
      /\ tcudap[s] \in Nat /\ desvio[s] \in Int /\ ValorInicial[s] \in Nat
  BY <1>t
<1>i. ASSUME UNCHANGED <<pases, valor, liberar, seniales, tcudap, desvio, hilo>> PROVE Debe(s)' = Haber(s)'
  BY <1>c, <1>i DEF Debe, Haber
<1>1. CASE \E p \in Procesos : Script(p) \/ Cpu(p)
  BY <1>1, <1>i DEF Script, Pregunta, Senial, Cpu, Sigue, SeBloquea, cuentas
<1>2. ASSUME NEW p \in Procesos, PcpMensaje(p) PROVE Debe(s)' = Haber(s)'
  <2>1. CASE PcpSignal(p)
    <3> DEFINE u == Head(mensajes[p]).s
    <3>1. UNCHANGED <<valor, pases, tcudap, desvio, hilo>>
      BY <2>1 DEF PcpSignal
    <3>2. \/ u \in Semaforos /\ liberar' = [liberar EXCEPT ![u] = @ + 1] /\ seniales' = [seniales EXCEPT ![u] = @ + 1]
          \/ UNCHANGED <<liberar, seniales>>
      BY <2>1 DEF PcpSignal
    <3> HIDE DEF u
    <3>3. \/ liberar'[s] = liberar[s] + 1 /\ seniales'[s] = seniales[s] + 1
          \/ liberar'[s] = liberar[s] /\ seniales'[s] = seniales[s]
      BY <1>t, <3>2
    <3>4. CASE liberar'[s] = liberar[s] + 1 /\ seniales'[s] = seniales[s] + 1
      BY <1>c, <1>h, <3>1, <3>4 DEF Debe, Haber, Uno
    <3>5. CASE liberar'[s] = liberar[s] /\ seniales'[s] = seniales[s]
      BY <1>c, <3>1, <3>5 DEF Debe, Haber
    <3>6. QED
      BY <3>3, <3>4, <3>5
  <2>2. CASE PcpDesconocido(p) \/ PcpNiega(p) \/ PcpLeeValor(p) \/ PcpMideBloqueados(p)
    BY <2>2, <1>i DEF PcpDesconocido, PcpNiega, PcpLeeValor, PcpMideBloqueados, cuentas
  <2>3. QED
    BY <1>2, <2>1, <2>2 DEF PcpMensaje
<1>3. CASE PcpResta
  <2>0. pcp.s \in Semaforos /\ pcp.n \in Nat
    BY <1>3 DEF PcpResta, InvSemaforo, TypeOK, TipoHilos
  <2>1. PICK n \in Nat : n = pcp.n
    BY <2>0
  <2>2. UNCHANGED <<liberar, seniales, tcudap, hilo>>
    BY <1>3 DEF PcpResta
  <2>3. CASE s = pcp.s
    <3>1. valor'[s] = n - 1 /\ desvio'[s] = desvio[s] + n - valor[s] /\ pases'[s] = pases[s] + 1
      BY <1>3, <1>t, <2>1, <2>3 DEF PcpResta
    <3>2. liberar'[s] = liberar[s] /\ seniales'[s] = seniales[s] /\ tcudap'[s] = tcudap[s] /\ hilo'[s] = hilo[s]
      BY <2>2
    <3>3. QED
      BY <1>c, <1>h, <3>1, <3>2 DEF Debe, Haber, Uno
  <2>4. CASE s # pcp.s
    <3>1. valor'[s] = valor[s] /\ desvio'[s] = desvio[s] /\ pases'[s] = pases[s]
      BY <1>3, <1>t, <2>4 DEF PcpResta
    <3>2. QED
      BY <1>c, <2>2, <3>1 DEF Debe, Haber
  <2>5. QED
    BY <2>3, <2>4
<1>4. CASE PcpMiraValor
  <2>1. UNCHANGED <<pases, valor, seniales, desvio, hilo>>
    BY <1>4 DEF PcpMiraValor
  <2>2. \/ liberar' = [liberar EXCEPT ![pcp.s] = @ + 1] /\ tcudap' = [tcudap EXCEPT ![pcp.s] = @ + 1]
        \/ UNCHANGED <<liberar, tcudap>>
    BY <1>4 DEF PcpMiraValor
  <2>3. \/ liberar'[s] = liberar[s] + 1 /\ tcudap'[s] = tcudap[s] + 1
        \/ liberar'[s] = liberar[s] /\ tcudap'[s] = tcudap[s]
    BY <1>t, <2>2
  <2>4. CASE liberar'[s] = liberar[s] + 1 /\ tcudap'[s] = tcudap[s] + 1
    BY <1>c, <1>h, <2>1, <2>4 DEF Debe, Haber, Uno
  <2>5. CASE liberar'[s] = liberar[s] /\ tcudap'[s] = tcudap[s]
    BY <1>c, <2>1, <2>5 DEF Debe, Haber
  <2>6. QED
    BY <2>3, <2>4, <2>5
<1>5. CASE PcpEncola \/ PcpMide \/ PcpMuestra \/ Despacha \/ UNCHANGED vars
  BY <1>5, <1>i DEF PcpEncola, PcpMide, PcpMuestra, Despacha, vars, cuentas
<1>6. ASSUME NEW u \in Semaforos, Hilo(u) PROVE Debe(s)' = Haber(s)'
  <2>1. CASE HiloDespierta(u)
    <3>1. UNCHANGED <<pases, valor, seniales, tcudap, desvio>>
      BY <2>1 DEF HiloDespierta, cuentas
    <3>2. \/ liberar'[s] = liberar[s] - 1 /\ hilo[s].pc = "espera" /\ hilo'[s].pc # "espera"
          \/ liberar'[s] = liberar[s] /\ hilo'[s] = hilo[s]
      BY <1>t, <2>1 DEF HiloDespierta
    <3>3. CASE liberar'[s] = liberar[s] - 1 /\ hilo[s].pc = "espera" /\ hilo'[s].pc # "espera"
      <4>1. Uno(hilo[s].pc # "espera") = 0 /\ Uno(hilo'[s].pc # "espera") = 1
        BY <3>3 DEF Uno
      <4>2. QED
        BY <1>c, <1>h, <3>1, <3>3, <4>1 DEF Debe, Haber
    <3>4. CASE hilo'[s] = hilo[s] /\ liberar'[s] = liberar[s]
      BY <1>c, <1>h, <3>1, <3>4 DEF Debe, Haber, Uno
    <3>5. QED
      BY <3>2, <3>3, <3>4
  <2>2. CASE HiloLee(u) \/ HiloLibera(u) \/ HiloMideReady(u)
    <3>1. UNCHANGED <<pases, valor, liberar, seniales, tcudap, desvio>>
      BY <2>2 DEF HiloLee, HiloLibera, HiloMideReady, cuentas
    <3>2. hilo'[s].pc = "espera" <=> hilo[s].pc = "espera"
      <4>1. \E c \in {"suma", "mide", "inserta"} : hilo'[u].pc = c
        BY <1>t, <2>2 DEF HiloLee, HiloLibera, HiloMideReady
      <4>2. hilo[u].pc # "espera" /\ (s # u => hilo'[s] = hilo[s])
        BY <1>t, <2>2 DEF HiloLee, HiloLibera, HiloMideReady
      <4>3. QED
        BY <4>1, <4>2
    <3>3. QED
      BY <1>h, <1>c, <3>1, <3>2 DEF Debe, Haber, Uno
  <2>3. CASE HiloSuma(u)
    <3>1. UNCHANGED <<pases, liberar, seniales, tcudap>>
      BY <2>3 DEF HiloSuma
    <3>2. \/ /\ valor'[s] = hilo[s].n + 1 /\ desvio'[s] = desvio[s] + hilo[s].n - valor[s] /\ hilo[s].n \in Nat
             /\ hilo[s].pc # "espera" /\ hilo'[s].pc = "espera"
          \/ valor'[s] = valor[s] /\ desvio'[s] = desvio[s] /\ hilo'[s] = hilo[s]
      BY <1>t, <2>3 DEF HiloSuma, HiloEspera
    <3>3. QED
      BY <1>h, <1>c, <3>1, <3>2 DEF Debe, Haber, Uno
  <2>4. CASE HiloInserta(u)
    <3>1. UNCHANGED <<valor, liberar, seniales, tcudap, desvio>>
      BY <2>4 DEF HiloInserta
    <3>2. \/ pases'[s] = pases[s] + 1 /\ hilo[s].pc # "espera" /\ hilo'[s].pc = "espera"
          \/ pases'[s] = pases[s] /\ hilo'[s] = hilo[s]
      BY <1>t, <2>4 DEF HiloInserta, HiloEspera
    <3>3. CASE pases'[s] = pases[s] + 1 /\ hilo[s].pc # "espera" /\ hilo'[s].pc = "espera"
      <4>1. Uno(hilo[s].pc # "espera") = 1 /\ Uno(hilo'[s].pc # "espera") = 0
        BY <3>3 DEF Uno
      <4>2. QED
        BY <1>c, <1>h, <3>1, <3>3, <4>1 DEF Debe, Haber
    <3>4. CASE hilo'[s] = hilo[s] /\ pases'[s] = pases[s]
      BY <1>c, <1>h, <3>1, <3>4 DEF Debe, Haber, Uno
    <3>5. QED
      BY <3>2, <3>3, <3>4
  <2>5. QED
    BY <1>6, <2>1, <2>2, <2>3, <2>4 DEF Hilo
<1>7. QED
  BY <1>1, <1>2, <1>3, <1>4, <1>5, <1>6 DEF Next, PcpInterno

\* The waits let through, the value and the wake-ups to come are always what the
\* semaphore began with and the signals, plus the wake-ups syscall_wait adds and
\* what overlapping updates lost: nothing else wakes a process or stops one.
THEOREM CuentaSiempreCierra == Spec => []CuentaDelSemaforo
<1>1. Init => CuentaDelSemaforo
  <2> SUFFICES ASSUME Init, NEW s \in Semaforos PROVE Debe(s) = Haber(s)
    BY DEF CuentaDelSemaforo, Debe, Haber
  <2>1. /\ pases[s] = 0 /\ liberar[s] = 0 /\ hilo[s].pc = "espera" /\ seniales[s] = 0 /\ tcudap[s] = 0
        /\ desvio[s] = 0 /\ valor[s] = ValorInicial[s] /\ ValorInicial[s] \in Nat
    BY SupuestosSemaforo DEF Init, HiloEspera
  <2>2. QED
    BY <2>1 DEF Debe, Haber, Uno
<1>2. QED
  BY <1>1, CuentaPaso, SemaforoSiempre, PTL DEF Spec
=============================================================================
