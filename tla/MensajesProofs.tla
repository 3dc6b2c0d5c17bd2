---------------------------- MODULE MensajesProofs ----------------------------
(***************************************************************************)
(* The invariant behind what a program may count on, and its proof: the    *)
(* orders a program obeys are those its process caused, in the order of    *)
(* its script, although two threads write to its socket and the CPUs that  *)
(* run it change; and it obeys those of another only when that one's       *)
(* program had gone before its process ended.                              *)
(***************************************************************************)
EXTENDS PropsMensajes, FiniteSetTheorems, SequenceTheorems, WellFoundedInduction, TLAPS

-----------------------------------------------------------------------------
(* The invariant *)

Pcb == [socket : Sockets, linea : Nat]
Corrida == [proc : Programas, resta : Nat]
Lectura == [socket : Sockets, faltan : Nat, trozos : Nat]
Paquete == [tipo : {"imprimir", "imprimirTexto", "Q", "F"}, proc : Programas, linea : Nat]

Tipos ==
    /\ programa \in [Programas -> {"fuera", "envia", "recibe", "termino", "salio"}]
    /\ porEnviar \in [Programas -> Nat] /\ llegaron \in [Programas -> Nat]
    /\ hacia \in [Programas -> Seq(Ordenes)] /\ recibidos \in [Programas -> Seq(Ordenes)]
    /\ fd \in [Sockets -> Programas \cup CPUs \cup {Nada}] /\ atendidos \subseteq Programas
    /\ plp \in Lectura \cup {Nada}
    /\ pcb \in [Programas -> Pcb \cup {Nada}]
    /\ estado \in [Programas -> {"no", "ready", "cpu", "fin", "perdido"}]
    /\ cpu \in [CPUs -> Corrida \cup {Nada}]
    /\ canal \in [CPUs -> Seq(Paquete)]
    /\ trama \in [CPUs -> {"bien", "corrida", "perdida"}]

\* A program has one socket while it is there, and it is the one in its PCB:
\* the PLP closes no other.  The orders to a program that left are lost.
Conexion ==
    /\ \A s, t \in Sockets : fd[s] # Nada /\ fd[s] = fd[t] => s = t
    /\ \A s \in Sockets : fd[s] \in Programas => fd[s] \in atendidos
    /\ \A p \in atendidos :
          programa[p] # "fuera" /\ (Conectado(p) => \E s \in Sockets : fd[s] = p)
    /\ plp # Nada => fd[plp.socket] \in Programas
    /\ \A p \in Programas : estado[p] # "no" /\ Conectado(p) => fd[pcb[p].socket] = p
    /\ \A p \in Programas : hacia[p] # <<>> => Conectado(p)

\* The orders a program has obeyed and those on their way.
Flujo(p) == recibidos[p] \o hacia[p]

\* A program whose script the kernel has not read to the end.
SinLeer(p) == porEnviar[p] + llegaron[p]
Leyendo(p) == plp # Nada /\ fd[plp.socket] = p
Nuevo(p) == programa[p] = "fuera" \/ SinLeer(p) # 0 \/ Leyendo(p)

\* No order is about a process before its script is read, which happens once.
SinOrdenes(p) == \A q \in Programas : \A i \in 1..Len(Flujo(q)) : Flujo(q)[i].de # p
Guiones ==
    \A p \in Programas :
        /\ programa[p] = "fuera" => SinLeer(p) = 0
        /\ Leyendo(p) => SinLeer(p) = plp.faltan /\ plp.faltan <= Cuerpo
        /\ ~ Leyendo(p) => SinLeer(p) \in {0, Cuerpo + 1}
        /\ Nuevo(p) => estado[p] = "no" /\ SinOrdenes(p)

\* The process a CPU has, or whose PCB closes what it has sent the PCP.
Tiene(c, p) ==
    \/ cpu[c] # Nada /\ cpu[c].proc = p
    \/ cpu[c] = Nada /\ canal[c] # <<>> /\ canal[c][Len(canal[c])].proc = p

\* What a CPU has sent is about one process, and the PCB comes last.
Canales ==
    \A c \in CPUs : \A i \in 1..Len(canal[c]) :
        /\ Tiene(c, canal[c][i].proc)
        /\ canal[c][i].tipo \in {"Q", "F"} <=> cpu[c] = Nada /\ i = Len(canal[c])

Cpus ==
    /\ \A c \in CPUs, p \in Programas : Tiene(c, p) => estado[p] = "cpu"
    /\ \A c, d \in CPUs, p \in Programas : Tiene(c, p) /\ Tiene(d, p) => c = d
    /\ \A p \in Programas : estado[p] = "cpu" => \E c \in CPUs : Tiene(c, p)

\* The prints of a CPU that the PCP has not read: the last lines executed.
Impresas(c) == IF cpu[c] = Nada THEN Len(canal[c]) - 1 ELSE Len(canal[c])
Lineas ==
    /\ \A p \in Programas :
          estado[p] # "no" => pcb[p] \in Pcb /\ pcb[p].linea \in 1..Len(Guion[p]) + 1
    /\ \A c \in CPUs, p \in Programas : Tiene(c, p) =>
          \A i \in 1..Len(canal[c]) :
             /\ i <= Impresas(c) => canal[c][i].linea = pcb[p].linea - Impresas(c) + i - 1
             /\ canal[c][i].tipo = "F" => pcb[p].linea = Len(Guion[p]) + 1

\* How many orders about p are in its flow, and how many there are to be.
Dichas(p) == Propias(Flujo(p), p, Len(Flujo(p)))
Cuenta(p) ==
    Conectado(p) =>
        /\ estado[p] = "ready" => Dichas(p) = pcb[p].linea
        /\ estado[p] = "fin" => Dichas(p) = Len(Guion[p]) + 2
        /\ \A c \in CPUs : Tiene(c, p) => Dichas(p) = pcb[p].linea - Impresas(c)
Ordenadas ==
    \A p \in Programas \ rotos :
        IF estado[p] = "no" THEN Sigue(Flujo(p), p, Rechazo(p))
        ELSE Sigue(Flujo(p), p, Historia(p)) /\ Cuenta(p)

\* An order only goes to another program when its own had gone before its end.
SinFinal(p) == \A j \in 1..Len(recibidos[p]) : recibidos[p][j] # Orden("FINALIZAR", p, 0)
Ajenas ==
    \A q \in Programas : \A i \in 1..Len(Flujo(q)) :
        Flujo(q)[i].de # q => SeFue(Flujo(q)[i].de) /\ SinFinal(Flujo(q)[i].de)

\* A program that was told to end has no process, or one that has ended.
Finales ==
    \A p \in Programas : \A i \in 1..Len(Flujo(p)) :
        Flujo(p)[i] = Orden("FINALIZAR", p, 0) => estado[p] \in {"no", "fin"}

InvMensajes ==
    Tipos /\ Conexion /\ Guiones /\ Canales /\ Cpus /\ Lineas /\ Ordenadas /\ Ajenas /\ Finales

-----------------------------------------------------------------------------
(* Counting the orders of a sequence *)

\* A flow is a sequence of orders: those obeyed, then those on their way.
LEMMA FlujoTipo ==
    ASSUME Tipos, NEW p \in Programas
    PROVE  /\ Flujo(p) \in Seq(Ordenes) /\ Len(Flujo(p)) = Len(recibidos[p]) + Len(hacia[p])
           /\ \A i \in 1..Len(Flujo(p)) :
                 Flujo(p)[i] = IF i <= Len(recibidos[p]) THEN recibidos[p][i]
                               ELSE hacia[p][i - Len(recibidos[p])]
<1>1. recibidos[p] \in Seq(Ordenes) /\ hacia[p] \in Seq(Ordenes)
  BY DEF Tipos
<1>2. PICK r, h : r = recibidos[p] /\ h = hacia[p] /\ Flujo(p) = r \o h
  BY DEF Flujo
<1>3. r \in Seq(Ordenes) /\ h \in Seq(Ordenes) /\ Len(r) \in Nat /\ Len(h) \in Nat
  BY <1>1, <1>2, LenProperties
<1>4. /\ r \o h \in Seq(Ordenes) /\ Len(r \o h) = Len(r) + Len(h)
      /\ \A i \in 1..Len(r) + Len(h) : (r \o h)[i] = IF i <= Len(r) THEN r[i] ELSE h[i - Len(r)]
  BY <1>3, ConcatProperties
<1>5. Flujo(p) \in Seq(Ordenes) /\ Len(Flujo(p)) = Len(recibidos[p]) + Len(hacia[p])
  BY <1>2, <1>4
<1>6. \A i \in 1..Len(Flujo(p)) : Flujo(p)[i] = IF i <= Len(r) THEN r[i] ELSE h[i - Len(r)]
  BY <1>2, <1>4
<1>7. QED
  BY <1>2, <1>5, <1>6, Zenon

\* The beginning of a sequence.
Comienza(t, s) == Len(t) <= Len(s) /\ \A i \in 1..Len(t) : t[i] = s[i]

\* Propias counts.
LEMMA PropiasNat ==
    ASSUME NEW s, NEW p, NEW i \in Nat
    PROVE  Propias(s, p, i) \in Nat
<1>1. IsFiniteSet(1..i)
  BY FS_Interval
<1>2. {j \in 1..i : s[j].de = p} \in SUBSET (1..i)
  OBVIOUS
<1>3. QED
  BY <1>1, <1>2, FS_Subset, FS_CardinalityType DEF Propias

\* One more position counts one more order, or none.
LEMMA PropiasAgrega ==
    ASSUME NEW s, NEW p, NEW i \in Nat
    PROVE  Propias(s, p, i + 1) = IF s[i + 1].de = p THEN Propias(s, p, i) + 1 ELSE Propias(s, p, i)
<1> DEFINE A == {j \in 1..i : s[j].de = p}
           B == {j \in 1..i + 1 : s[j].de = p}
<1>1. IsFiniteSet(A)
  <2>1. IsFiniteSet(1..i)
    BY FS_Interval
  <2>2. A \in SUBSET (1..i)
    OBVIOUS
  <2>3. QED
    BY <2>1, <2>2, FS_Subset
<1>2. CASE s[i + 1].de = p
  <2>1. B = A \cup {i + 1} /\ i + 1 \notin A
    BY <1>2
  <2>2. Cardinality(B) = Cardinality(A) + 1
    <3> HIDE DEF A, B
    <3>1. QED
      BY <1>1, <2>1, FS_AddElement
  <2>3. QED
    BY <1>2, <2>2 DEF Propias
<1>3. CASE s[i + 1].de # p
  <2>1. B = A
    BY <1>3
  <2>2. QED
    BY <1>3, <2>1 DEF Propias
<1>4. QED
  BY <1>2, <1>3

\* The count only looks at the beginning.
LEMMA PropiasComienza ==
    ASSUME NEW s, NEW t, NEW p, NEW n \in Nat, \A i \in 1..n : t[i] = s[i]
    PROVE  Propias(t, p, n) = Propias(s, p, n)
<1>1. {j \in 1..n : t[j].de = p} = {j \in 1..n : s[j].de = p}
  OBVIOUS
<1>2. QED
  BY <1>1 DEF Propias

\* None of them is about p.
LEMMA PropiasCero ==
    ASSUME NEW s, NEW p, NEW n \in Nat, \A i \in 1..n : s[i].de # p
    PROVE  Propias(s, p, n) = 0
<1>1. {j \in 1..n : s[j].de = p} = {}
  OBVIOUS
<1>2. QED
  BY <1>1, FS_EmptySet DEF Propias

\* The beginning of a flow in order is in order.
LEMMA SigueComienzo ==
    ASSUME NEW s \in Seq(Ordenes), NEW t \in Seq(Ordenes), Comienza(t, s), NEW p, NEW h, Sigue(s, p, h)
    PROVE  Sigue(t, p, h)
<1> SUFFICES ASSUME NEW i \in 1..Len(t), t[i].de = p
             PROVE  Propias(t, p, i) <= Len(h) /\ t[i] = h[Propias(t, p, i)]
  BY DEF Sigue
<1>1. Len(t) \in Nat /\ Len(s) \in Nat
  BY LenProperties
<1>2. i \in 1..Len(s) /\ t[i] = s[i] /\ \A j \in 1..i : t[j] = s[j]
  BY <1>1 DEF Comienza
<1>3. Propias(t, p, i) = Propias(s, p, i)
  BY <1>2, PropiasComienza
<1>4. QED
  BY <1>2, <1>3 DEF Sigue

\* An order about another process, at the end.
LEMMA SigueAjena ==
    ASSUME NEW s \in Seq(Ordenes), NEW m \in Ordenes, NEW p, NEW h, Sigue(s, p, h), m.de # p
    PROVE  /\ Sigue(Append(s, m), p, h)
           /\ Propias(Append(s, m), p, Len(Append(s, m))) = Propias(s, p, Len(s))
<1> DEFINE t == Append(s, m)
<1>1. Len(s) \in Nat /\ Len(t) = Len(s) + 1 /\ t[Len(s) + 1] = m /\ \A i \in 1..Len(s) : t[i] = s[i]
  BY AppendProperties, LenProperties
<1> HIDE DEF t
<1>2. \A i \in 0..Len(s) : Propias(t, p, i) = Propias(s, p, i)
  BY <1>1, PropiasComienza
<1>3. Sigue(t, p, h)
  <2> SUFFICES ASSUME NEW i \in 1..Len(t), t[i].de = p
               PROVE  Propias(t, p, i) <= Len(h) /\ t[i] = h[Propias(t, p, i)]
    BY DEF Sigue
  <2>1. i \in 1..Len(s)
    BY <1>1
  <2>2. QED
    BY <1>1, <1>2, <2>1 DEF Sigue
<1>4. Propias(t, p, Len(t)) = Propias(s, p, Len(s))
  <2>1. Propias(t, p, Len(s) + 1) = Propias(t, p, Len(s))
    BY <1>1, PropiasAgrega
  <2>2. QED
    BY <1>1, <1>2, <2>1
<1>5. QED
  BY <1>3, <1>4 DEF t

\* The next one of h.
LEMMA SiguePropia ==
    ASSUME NEW s \in Seq(Ordenes), NEW m \in Ordenes, NEW p, NEW h, Sigue(s, p, h), m.de = p,
           Len(h) \in Nat,
           Propias(s, p, Len(s)) + 1 <= Len(h), m = h[Propias(s, p, Len(s)) + 1]
    PROVE  /\ Sigue(Append(s, m), p, h)
           /\ Propias(Append(s, m), p, Len(Append(s, m))) = Propias(s, p, Len(s)) + 1
<1> DEFINE t == Append(s, m)
<1>1. Len(s) \in Nat /\ Len(t) = Len(s) + 1 /\ t[Len(s) + 1] = m /\ \A i \in 1..Len(s) : t[i] = s[i]
  BY AppendProperties, LenProperties
<1> HIDE DEF t
<1>2. \A i \in 0..Len(s) : Propias(t, p, i) = Propias(s, p, i)
  BY <1>1, PropiasComienza
<1>3. Propias(t, p, Len(t)) = Propias(s, p, Len(s)) + 1
  <2>1. Propias(t, p, Len(s) + 1) = Propias(t, p, Len(s)) + 1
    BY <1>1, PropiasAgrega
  <2>2. QED
    BY <1>1, <1>2, <2>1
<1>4. Sigue(t, p, h)
  <2> SUFFICES ASSUME NEW i \in 1..Len(t), t[i].de = p
               PROVE  Propias(t, p, i) <= Len(h) /\ t[i] = h[Propias(t, p, i)]
    BY DEF Sigue
  <2>1. CASE i \in 1..Len(s)
    BY <1>1, <1>2, <2>1 DEF Sigue
  <2>2. CASE i = Len(t)
    BY <1>1, <1>3, <2>2
  <2>3. QED
    BY <1>1, <2>1, <2>2
<1>5. QED
  BY <1>3, <1>4 DEF t

-----------------------------------------------------------------------------
(* Sending an order, and obeying one *)

\* The lesser of two numbers, of which recv returns at most.
LEMMA MinDeDos ==
    ASSUME NEW a \in Nat, NEW b \in Nat
    PROVE  Min({a, b}) \in Nat /\ Min({a, b}) <= a /\ Min({a, b}) <= b
<1>1. \E x \in {a, b} : \A y \in {a, b} : x <= y
  BY SMT
<1>2. Min({a, b}) = CHOOSE x \in {a, b} : \A y \in {a, b} : x <= y
  BY DEF Min
<1>3. Min({a, b}) \in {a, b} /\ \A y \in {a, b} : Min({a, b}) <= y
  BY <1>1, <1>2
<1>4. QED
  BY <1>3

\* A set of descriptors has a lowest one.
LEMMA MinLibre ==
    ASSUME NEW T, T \subseteq Nat, T # {}
    PROVE  Min(T) \in T
<1> DEFINE R == OpToRel(<, Nat)
<1>1. IsWellFoundedOn(R, Nat)
  BY NatLessThanWellFounded
<1>2. \A x, y \in Nat : <<y, x>> \in R <=> y < x
  BY DEF OpToRel
<1> HIDE DEF R
<1>3. PICK x \in T : \A y \in T : ~ (<<y, x>> \in R)
  BY <1>1, WFMin
<1>4. ASSUME NEW y \in T
      PROVE  x <= y
  <2>1. ~ (y < x)
    BY <1>2, <1>3
  <2>2. QED
    BY <2>1
<1>5. \E z \in T : \A y \in T : z <= y
  BY <1>4
<1>6. Min(T) = CHOOSE z \in T : \A y \in T : z <= y
  BY DEF Min
<1>7. QED
  BY <1>5, <1>6

\* accept gives a descriptor that is free.
LEMMA LibreTipo ==
    ASSUME Libres # {}
    PROVE  Min(Libres) \in Sockets /\ fd[Min(Libres)] = Nada
<1>1. Libres \subseteq Nat
  BY SupuestosMensajes DEF Libres
<1>2. Min(Libres) \in Libres
  BY <1>1, MinLibre
<1>3. QED
  BY <1>2 DEF Libres

\* What the kernel writes to a socket reaches the program at its other end, if
\* there is one.
LEMMA Envio ==
    ASSUME Tipos, NEW s \in Sockets, NEW m \in Ordenes, EnviarMensaje(s, m)
    PROVE  \/ hacia' = hacia /\ (fd[s] \in Programas => ~ Conectado(fd[s]))
           \/ /\ fd[s] \in Programas /\ Conectado(fd[s])
              /\ hacia' = [hacia EXCEPT ![fd[s]] = Append(hacia[fd[s]], m)]
<1>1. CASE fd[s] \notin Programas
  BY <1>1 DEF EnviarMensaje
<1>2. CASE fd[s] \in Programas /\ Conectado(fd[s])
  BY <1>2 DEF EnviarMensaje
<1>3. CASE fd[s] \in Programas /\ ~ Conectado(fd[s])
  BY <1>3 DEF EnviarMensaje, AlQueSeFue
<1>4. QED
  BY <1>1, <1>2, <1>3

\* A send leaves each CPU's stream as it was, or out of step.
LEMMA EnvioTrama ==
    ASSUME Tipos, NEW s, NEW m, EnviarMensaje(s, m)
    PROVE  trama' \in [CPUs -> {"bien", "corrida", "perdida"}]
BY DEF Tipos, EnviarMensaje

\* What is on its way after a send are orders.
LEMMA EnvioTipo ==
    ASSUME Tipos, NEW s \in Sockets, NEW m \in Ordenes, EnviarMensaje(s, m)
    PROVE  hacia' \in [Programas -> Seq(Ordenes)]
<1>1. hacia \in [Programas -> Seq(Ordenes)]
  BY DEF Tipos
<1>2. CASE hacia' = hacia
  BY <1>1, <1>2
<1>3. CASE fd[s] \in Programas /\ hacia' = [hacia EXCEPT ![fd[s]] = Append(hacia[fd[s]], m)]
  <2>1. Append(hacia[fd[s]], m) \in Seq(Ordenes)
    BY <1>1, <1>3, AppendProperties
  <2>2. QED
    BY <1>1, <1>3, <2>1
<1>4. QED
  BY <1>2, <1>3, Envio

\* Obeying an order takes it from those on their way.
LEMMA ObedeceTipo ==
    ASSUME Tipos, NEW p \in Programas, hacia[p] # <<>>, Obedece(p, Head(hacia[p]))
    PROVE  /\ programa' \in [Programas -> {"fuera", "envia", "recibe", "termino", "salio"}]
           /\ hacia' \in [Programas -> Seq(Ordenes)] /\ recibidos' \in [Programas -> Seq(Ordenes)]
<1>1. /\ hacia \in [Programas -> Seq(Ordenes)] /\ recibidos \in [Programas -> Seq(Ordenes)]
      /\ programa \in [Programas -> {"fuera", "envia", "recibe", "termino", "salio"}]
  BY DEF Tipos
<1>2. Head(hacia[p]) \in Ordenes /\ Tail(hacia[p]) \in Seq(Ordenes) /\ <<>> \in Seq(Ordenes)
  BY <1>1, HeadTailProperties, EmptySeq
<1>3. Append(recibidos[p], Head(hacia[p])) \in Seq(Ordenes)
  BY <1>1, <1>2, AppendProperties
<1>4. recibidos' = [recibidos EXCEPT ![p] = Append(recibidos[p], Head(hacia[p]))]
  BY DEF Obedece
<1>5. recibidos' \in [Programas -> Seq(Ordenes)]
  BY <1>1, <1>3, <1>4
<1>6. hacia' = [hacia EXCEPT ![p] = <<>>] \/ hacia' = [hacia EXCEPT ![p] = Tail(hacia[p])]
  BY DEF Obedece
<1>7. hacia' \in [Programas -> Seq(Ordenes)]
  BY <1>1, <1>2, <1>6
<1>8. programa' = programa \/ programa' = [programa EXCEPT ![p] = "termino"]
  BY DEF Obedece
<1>9. QED
  BY <1>1, <1>5, <1>7, <1>8

-----------------------------------------------------------------------------
(* Whom the packets of a CPU are about *)

\* The process a CPU is running.
LEMMA CpuTiene ==
    ASSUME Tipos, Cpus, Lineas, NEW c \in CPUs, cpu[c] # Nada
    PROVE  /\ cpu[c] \in Corrida /\ cpu[c].proc \in Programas /\ Tiene(c, cpu[c].proc)
           /\ estado[cpu[c].proc] = "cpu" /\ pcb[cpu[c].proc] \in Pcb
           /\ pcb[cpu[c].proc].linea \in 1..Len(Guion[cpu[c].proc]) + 1
<1>1. cpu[c] \in Corrida
  BY DEF Tipos
<1>2. cpu[c].proc \in Programas /\ Tiene(c, cpu[c].proc)
  BY <1>1 DEF Corrida, Tiene
<1>3. QED
  BY <1>1, <1>2 DEF Cpus, Lineas

\* The first packet the PCP has to read.
LEMMA PaqueteDe ==
    ASSUME Tipos, Canales, Cpus, Lineas, NEW c \in CPUs, canal[c] # <<>>
    PROVE  /\ Head(canal[c]) = canal[c][1] /\ Len(canal[c]) \in Nat \ {0}
           /\ Head(canal[c]) \in Paquete /\ Head(canal[c]).proc \in Programas
           /\ Tiene(c, Head(canal[c]).proc) /\ estado[Head(canal[c]).proc] = "cpu"
           /\ pcb[Head(canal[c]).proc] \in Pcb
           /\ pcb[Head(canal[c]).proc].linea \in 1..Len(Guion[Head(canal[c]).proc]) + 1
<1>1. canal[c] \in Seq(Paquete)
  BY DEF Tipos
<1>2. Head(canal[c]) = canal[c][1] /\ Len(canal[c]) \in Nat \ {0} /\ Head(canal[c]) \in Paquete
  BY <1>1, EmptySeq, HeadTailProperties DEF Head
<1>3. Head(canal[c]).proc \in Programas
  BY <1>2 DEF Paquete
<1>4. Tiene(c, Head(canal[c]).proc)
  BY <1>2 DEF Canales
<1>5. QED
  BY <1>2, <1>3, <1>4 DEF Cpus, Lineas

\* The orders are of their kind.
LEMMA OrdenTipo ==
    ASSUME NEW o \in {"INFORMAR", "FINALIZAR"}, NEW p \in Programas, NEW n \in Nat
    PROVE  Orden(o, p, n) \in Ordenes /\ Orden(o, p, n).de = p
BY DEF Orden, Ordenes

-----------------------------------------------------------------------------
(* The types are kept *)

\* What a program does keeps them.
LEMMA TiposPrograma ==
    ASSUME Tipos, NEW p \in Programas,
           Conecta(p) \/ EnviarDatos(p) \/ Abandona(p) \/ ProgRecibe(p) \/ ProgRecibeRoto(p)
    PROVE  Tipos'
<1> USE SupuestosMensajes
<1>1. CASE Conecta(p)
  <2>1. porEnviar' \in [Programas -> Nat]
    BY <1>1 DEF Conecta, Tipos
  <2>2. QED
    BY <1>1, <2>1 DEF Conecta, Tipos, descriptores, procesos
<1>2. CASE EnviarDatos(p)
  <2>1. PICK n \in 1..porEnviar[p] :
          porEnviar' = [porEnviar EXCEPT ![p] = @ - n] /\ llegaron' = [llegaron EXCEPT ![p] = @ + n]
    BY <1>2 DEF EnviarDatos
  <2>2. porEnviar[p] \in Nat /\ llegaron[p] \in Nat
    BY DEF Tipos
  <2>3. porEnviar[p] - n \in Nat /\ llegaron[p] + n \in Nat
    BY <2>2
  <2>4. porEnviar' \in [Programas -> Nat] /\ llegaron' \in [Programas -> Nat]
    BY <2>1, <2>3 DEF Tipos
  <2>5. programa' \in [Programas -> {"fuera", "envia", "recibe", "termino", "salio"}]
    BY <1>2 DEF EnviarDatos, Tipos
  <2>6. QED
    BY <1>2, <2>4, <2>5 DEF EnviarDatos, Tipos, descriptores, procesos
<1>3. CASE Abandona(p)
  <2>1. <<>> \in Seq(Ordenes)
    BY EmptySeq
  <2>2. hacia' \in [Programas -> Seq(Ordenes)]
    BY <1>3, <2>1 DEF Abandona, Tipos
  <2>3. QED
    BY <1>3, <2>2 DEF Abandona, Tipos, descriptores, procesos
<1>4. CASE ProgRecibe(p)
  <2>1. /\ programa' \in [Programas -> {"fuera", "envia", "recibe", "termino", "salio"}]
        /\ hacia' \in [Programas -> Seq(Ordenes)] /\ recibidos' \in [Programas -> Seq(Ordenes)]
    BY <1>4, ObedeceTipo DEF ProgRecibe
  <2>2. QED
    BY <1>4, <2>1 DEF ProgRecibe, Tipos, descriptores, procesos
<1>5. CASE ProgRecibeRoto(p)
  <2>1. CASE Obedece(p, Head(hacia[p]))
    <3>1. /\ programa' \in [Programas -> {"fuera", "envia", "recibe", "termino", "salio"}]
          /\ hacia' \in [Programas -> Seq(Ordenes)] /\ recibidos' \in [Programas -> Seq(Ordenes)]
      BY <1>5, <2>1, ObedeceTipo DEF ProgRecibeRoto
    <3>2. QED
      BY <1>5, <3>1 DEF ProgRecibeRoto, Tipos, descriptores, procesos
  <2>2. CASE ~ Obedece(p, Head(hacia[p]))
    <3>1. hacia[p] \in Seq(Ordenes) /\ hacia[p] # <<>>
      BY <1>5 DEF ProgRecibeRoto, Tipos
    <3>2. Tail(hacia[p]) \in Seq(Ordenes) /\ <<>> \in Seq(Ordenes)
      BY <3>1, HeadTailProperties, EmptySeq
    <3>3. /\ hacia' = [hacia EXCEPT ![p] = <<>>] \/ hacia' = [hacia EXCEPT ![p] = Tail(@)]
          /\ programa' = [programa EXCEPT ![p] = "salio"] \/ programa' = programa
          /\ recibidos' = recibidos
      BY <1>5, <2>2 DEF ProgRecibeRoto
    <3>4. hacia' \in [Programas -> Seq(Ordenes)]
      BY <3>2, <3>3 DEF Tipos
    <3>5. programa' \in [Programas -> {"fuera", "envia", "recibe", "termino", "salio"}]
      BY <3>3 DEF Tipos
    <3>6. QED
      BY <1>5, <3>3, <3>4, <3>5 DEF ProgRecibeRoto, Tipos, descriptores, procesos
  <2>3. QED
    BY <2>1, <2>2
<1>6. QED
  BY <1>1, <1>2, <1>3, <1>4, <1>5

\* What the PLP does keeps them.
LEMMA TiposPlp ==
    ASSUME Tipos, Conexion,
           \/ \E p \in Programas : Acepta(p)
           \/ \E c \in CPUs : AceptaCpu(c)
           \/ \E s \in Sockets : PlpLee(s) \/ PlpCierra(s)
           \/ PlpRecibe \/ PlpAtiende
    PROVE  Tipos'
<1> USE SupuestosMensajes
<1>0. ASSUME NEW x \in Programas \cup CPUs, Libres # {}, fd' = [fd EXCEPT ![Min(Libres)] = x]
      PROVE  fd' \in [Sockets -> Programas \cup CPUs \cup {Nada}]
  <2>1. Min(Libres) \in Sockets
    BY <1>0, LibreTipo
  <2>2. QED
    BY <1>0, <2>1 DEF Tipos
<1>1. ASSUME NEW p \in Programas, Acepta(p)
      PROVE  Tipos'
  <2>1. fd' \in [Sockets -> Programas \cup CPUs \cup {Nada}] /\ atendidos' = atendidos \cup {p}
    BY <1>0, <1>1 DEF Acepta
  <2>2. QED
    BY <1>1, <2>1 DEF Acepta, Tipos, red, procesos
<1>2. ASSUME NEW s \in Sockets, PlpLee(s)
      PROVE  Tipos'
  <2>1. fd[s] \in Programas
    BY <1>2 DEF PlpLee, Tipos
  <2>2. llegaron[fd[s]] - 1 \in Nat
    <3>1. llegaron[fd[s]] \in Nat
      BY <2>1 DEF Tipos
    <3>2. llegaron[fd[s]] > 0
      BY <1>2 DEF PlpLee
    <3>3. QED
      BY <3>1, <3>2
  <2>3. llegaron' \in [Programas -> Nat]
    BY <1>2, <2>1, <2>2 DEF PlpLee, Tipos
  <2>4. plp' \in Lectura
    BY <1>2 DEF PlpLee, PorRecibir, Lectura
  <2>5. QED
    BY <1>2, <2>3, <2>4 DEF PlpLee, Tipos, procesos
<1>3. ASSUME NEW s \in Sockets, PlpCierra(s)
      PROVE  Tipos'
  <2>1. fd' \in [Sockets -> Programas \cup CPUs \cup {Nada}]
    BY <1>3 DEF PlpCierra, Tipos
  <2>2. QED
    BY <1>3, <2>1 DEF PlpCierra, Tipos, red, procesos
<1>4. ASSUME PlpRecibe
      PROVE  Tipos'
  <2> DEFINE q == fd[plp.socket]
             n == Min({llegaron[q], plp.faltan})
  <2>1. plp \in Lectura /\ plp.socket \in Sockets /\ plp.faltan \in Nat /\ plp.trozos \in Nat
    BY <1>4 DEF PlpRecibe, Tipos, Lectura
  <2>2. q \in Programas
    BY <1>4, <2>1 DEF PlpRecibe, Conexion, Tipos
  <2>3. llegaron[q] \in Nat
    BY <2>2 DEF Tipos
  <2>4. n \in Nat /\ n <= llegaron[q] /\ n <= plp.faltan
    BY <2>1, <2>3, MinDeDos
  <2>5. /\ llegaron' = [llegaron EXCEPT ![q] = @ - n]
        /\ plp' = [plp EXCEPT !.faltan = @ - n, !.trozos = @ + 1]
    BY <1>4 DEF PlpRecibe
  <2> HIDE DEF n
  <2>6. llegaron' \in [Programas -> Nat]
    <3>1. llegaron[q] - n \in Nat
      BY <2>3, <2>4
    <3>2. QED
      BY <2>2, <2>5, <3>1 DEF Tipos
  <2>7. plp' \in Lectura
    <3>1. plp.faltan - n \in Nat /\ plp.trozos + 1 \in Nat
      BY <2>1, <2>4
    <3>2. QED
      BY <2>1, <2>5, <3>1 DEF Lectura
  <2>8. QED
    BY <1>4, <2>6, <2>7 DEF PlpRecibe, Tipos, procesos
<1>5. ASSUME PlpAtiende
      PROVE  Tipos'
  <2> DEFINE s == plp.socket
             p == fd[s]
  <2>1. s \in Sockets /\ p \in Programas
    BY <1>5 DEF PlpAtiende, Conexion, Tipos, Lectura
  <2>2. hacia' = hacia \/ \E m \in Ordenes : EnviarMensaje(s, m)
    <3>1. Orden("INFORMAR", p, 0) \in Ordenes /\ Orden("FINALIZAR", p, 0) \in Ordenes
      BY <2>1, OrdenTipo
    <3>2. QED
      BY <1>5, <3>1 DEF PlpAtiende, Admite, Rechaza
  <2>3. hacia' \in [Programas -> Seq(Ordenes)]
    BY <2>1, <2>2, EnvioTipo DEF Tipos
  <2>4. /\ pcb' = pcb \/ pcb' = [pcb EXCEPT ![p] = [socket |-> s, linea |-> 1]]
        /\ estado' = estado \/ estado' = [estado EXCEPT ![p] = "ready"]
    BY <1>5 DEF PlpAtiende, Admite, Rechaza
  <2>5. pcb' \in [Programas -> Pcb \cup {Nada}]
    <3>1. [socket |-> s, linea |-> 1] \in Pcb
      BY <2>1 DEF Pcb
    <3>2. pcb \in [Programas -> Pcb \cup {Nada}]
      BY DEF Tipos
    <3>3. QED
      BY <2>1, <2>4, <3>1, <3>2
  <2>6. estado' \in [Programas -> {"no", "ready", "cpu", "fin", "perdido"}]
    BY <2>4 DEF Tipos
  <2>7. trama' \in [CPUs -> {"bien", "corrida", "perdida"}]
    <3>1. trama' = trama \/ \E m : EnviarMensaje(s, m)
      BY <1>5 DEF PlpAtiende, Admite, Rechaza
    <3>2. QED
      BY <3>1, EnvioTrama DEF Tipos
  <2>8. QED
    BY <1>5, <2>3, <2>5, <2>6, <2>7 DEF PlpAtiende, Tipos, red
<1>6. ASSUME NEW c \in CPUs, AceptaCpu(c)
      PROVE  Tipos'
  <2>1. fd' \in [Sockets -> Programas \cup CPUs \cup {Nada}]
    BY <1>0, <1>6 DEF AceptaCpu
  <2>2. QED
    BY <1>6, <2>1 DEF AceptaCpu, Tipos, red, procesos
<1>7. QED
  BY <1>1, <1>2, <1>3, <1>4, <1>5, <1>6

\* What a CPU or the PCP does changes the process the CPU has, or had.
LEMMA TiposCpu ==
    ASSUME Tipos, Canales, Cpus, Lineas, NEW c \in CPUs,
           \/ \E p \in Programas : Despacha(c, p)
           \/ Imprimir(c) \/ ImprimirTexto(c) \/ EnviarPcbProcesado(c)
           \/ PcpImprime(c) \/ PcpQuantum(c) \/ PcpTermina(c)
    PROVE  Tipos'
<1> USE SupuestosMensajes
<1>1. ASSUME NEW p \in Programas, Despacha(c, p)
      PROVE  Tipos'
  <2>1. [proc |-> p, resta |-> Quantum] \in Corrida
    BY DEF Corrida
  <2>2. cpu' \in [CPUs -> Corrida \cup {Nada}]
    <3>1. cpu' = cpu \/ cpu' = [cpu EXCEPT ![c] = [proc |-> p, resta |-> Quantum]]
      BY <1>1 DEF Despacha, Recibe
    <3>2. QED
      BY <2>1, <3>1 DEF Tipos
  <2>3. estado' \in [Programas -> {"no", "ready", "cpu", "fin", "perdido"}]
    <3>1. estado' = [estado EXCEPT ![p] = "cpu"] \/ estado' = [estado EXCEPT ![p] = "perdido"]
      BY <1>1 DEF Despacha, Recibe
    <3>2. QED
      BY <3>1 DEF Tipos
  <2>4. trama' \in [CPUs -> {"bien", "corrida", "perdida"}]
    <3>1. trama' = trama \/ \E t \in {"corrida", "perdida"} : trama' = [trama EXCEPT ![c] = t]
      BY <1>1 DEF Despacha, Recibe
    <3>2. QED
      BY <3>1 DEF Tipos
  <2>5. QED
    BY <1>1, <2>2, <2>3, <2>4 DEF Despacha, Tipos, red, descriptores
<1>2. ASSUME NEW t \in {"imprimir", "imprimirTexto", "Q", "F"}, NEW p \in Programas,
             pcb[p] \in Pcb, Manda(c, t, p)
      PROVE  canal' \in [CPUs -> Seq(Paquete)]
  <2> DEFINE m == [tipo |-> t, proc |-> p, linea |-> pcb[p].linea]
  <2>1. m \in Paquete
    BY <1>2 DEF Paquete, Pcb
  <2>2. canal' = [canal EXCEPT ![c] = Append(canal[c], m)]
    BY <1>2 DEF Manda
  <2> HIDE DEF m
  <2>3. Append(canal[c], m) \in Seq(Paquete)
    BY <2>1, AppendProperties DEF Tipos
  <2>4. QED
    BY <2>2, <2>3 DEF Tipos
<1>3. ASSUME NEW t \in {"imprimir", "imprimirTexto"}, Imprime(c, t)
      PROVE  Tipos'
  <2> DEFINE p == cpu[c].proc
  <2>1. cpu[c] \in Corrida /\ p \in Programas /\ pcb[p] \in Pcb
    BY <1>3, CpuTiene DEF Imprime
  <2>2. /\ Manda(c, t, p) /\ pcb' = [pcb EXCEPT ![p].linea = @ + 1]
        /\ cpu' = [cpu EXCEPT ![c].resta = @ - 1] /\ cpu[c].resta > 0
    BY <1>3 DEF Imprime
  <2>3. canal' \in [CPUs -> Seq(Paquete)]
    BY <1>2, <2>1, <2>2
  <2>4. pcb' \in [Programas -> Pcb \cup {Nada}]
    <3>1. PICK r \in Pcb : r = pcb[p]
      BY <2>1
    <3>2. r.linea + 1 \in Nat
      BY <3>1 DEF Pcb
    <3>3. [r EXCEPT !.linea = @ + 1] \in Pcb
      BY <3>1, <3>2 DEF Pcb
    <3>4. pcb \in [Programas -> Pcb \cup {Nada}] /\ pcb' = [pcb EXCEPT ![p] = [r EXCEPT !.linea = @ + 1]]
      BY <2>2, <3>1 DEF Tipos
    <3>5. QED
      BY <2>1, <3>3, <3>4
  <2>5. cpu' \in [CPUs -> Corrida \cup {Nada}]
    <3>1. cpu[c].resta - 1 \in Nat
      BY <2>1, <2>2 DEF Corrida
    <3>2. [cpu[c] EXCEPT !.resta = @ - 1] \in Corrida
      BY <2>1, <3>1 DEF Corrida
    <3>3. QED
      BY <2>2, <3>2 DEF Tipos
  <2>6. QED
    BY <1>3, <2>3, <2>4, <2>5 DEF Imprime, Tipos, red, descriptores
<1>4. ASSUME EnviarPcbProcesado(c)
      PROVE  Tipos'
  <2> DEFINE p == cpu[c].proc
  <2>1. p \in Programas /\ pcb[p] \in Pcb
    BY <1>4, CpuTiene DEF EnviarPcbProcesado
  <2>2. Manda(c, "Q", p) \/ Manda(c, "F", p)
    BY <1>4 DEF EnviarPcbProcesado
  <2>3. canal' \in [CPUs -> Seq(Paquete)]
    BY <1>2, <2>1, <2>2
  <2>4. QED
    BY <1>4, <2>3 DEF EnviarPcbProcesado, Tipos, red, descriptores
<1>5. ASSUME PcpImprime(c) \/ PcpQuantum(c) \/ PcpTermina(c)
      PROVE  Tipos'
  <2> DEFINE m == Head(canal[c])
             p == m.proc
  <2>1. /\ canal[c] # <<>> /\ canal' = [canal EXCEPT ![c] = Tail(@)]
        /\ UNCHANGED <<red, descriptores, pcb, cpu, recibidos, rotos>>
    BY <1>5 DEF PcpImprime, PcpQuantum, PcpTermina, PcpLee
  <2>2. m \in Paquete /\ p \in Programas /\ pcb[p] \in Pcb
    BY <2>1, PaqueteDe
  <2>3. canal' \in [CPUs -> Seq(Paquete)]
    <3>1. Tail(canal[c]) \in Seq(Paquete)
      BY <2>1, HeadTailProperties DEF Tipos
    <3>2. QED
      BY <2>1, <3>1 DEF Tipos
  <2>4. hacia' = hacia \/ \E s \in Sockets, o \in Ordenes : EnviarMensaje(s, o)
    <3>1. pcb[p].socket \in Sockets /\ m.linea \in Nat
      BY <2>2 DEF Pcb, Paquete
    <3>2. Orden("INFORMAR", p, m.linea) \in Ordenes /\ Orden("FINALIZAR", p, 0) \in Ordenes
      BY <2>2, <3>1, OrdenTipo
    <3>3. QED
      BY <1>5, <3>1, <3>2 DEF PcpImprime, PcpQuantum, PcpTermina
  <2>5. hacia' \in [Programas -> Seq(Ordenes)]
    BY <2>4, EnvioTipo DEF Tipos
  <2>6. estado' \in [Programas -> {"no", "ready", "cpu", "fin", "perdido"}]
    <3>1. \/ estado' = estado \/ estado' = [estado EXCEPT ![p] = "ready"]
          \/ estado' = [estado EXCEPT ![p] = "fin"]
      BY <1>5 DEF PcpImprime, PcpQuantum, PcpTermina
    <3>2. QED
      BY <3>1 DEF Tipos
  <2>7. trama' \in [CPUs -> {"bien", "corrida", "perdida"}]
    <3>1. trama' = trama \/ \E s, o : EnviarMensaje(s, o)
      BY <1>5 DEF PcpImprime, PcpQuantum, PcpTermina
    <3>2. QED
      BY <3>1, EnvioTrama DEF Tipos
  <2>8. QED
    BY <2>1, <2>3, <2>5, <2>6, <2>7 DEF Tipos, red, descriptores
<1>6. QED
  BY <1>1, <1>3, <1>4, <1>5 DEF Imprimir, ImprimirTexto

\* And so does every step.
LEMMA TiposPaso ==
    ASSUME Tipos, Conexion, Canales, Cpus, Lineas, Next
    PROVE  Tipos'
BY TiposPrograma, TiposPlp, TiposCpu DEF Next, Avanza

-----------------------------------------------------------------------------
(* A flow is two sequences *)

\* The concatenation, position by position.
LEMMA Partes ==
    ASSUME NEW S, NEW r \in Seq(S), NEW h \in Seq(S)
    PROVE  /\ r \o h \in Seq(S) /\ Len(r) \in Nat /\ Len(h) \in Nat /\ Len(r \o h) = Len(r) + Len(h)
           /\ \A i \in 1..Len(r) : (r \o h)[i] = r[i]
           /\ \A i \in 1..Len(h) : (r \o h)[Len(r) + i] = h[i]
<1>1. PICK n \in Nat : n = Len(r)
  BY LenProperties
<1>2. PICK k \in Nat : k = Len(h)
  BY LenProperties
<1>3. /\ r \o h \in Seq(S) /\ Len(r \o h) = n + k
      /\ \A i \in 1..n + k : (r \o h)[i] = IF i <= n THEN r[i] ELSE h[i - n]
  BY <1>1, <1>2, ConcatProperties
<1>4. ASSUME NEW i \in 1..n
      PROVE  (r \o h)[i] = r[i]
  <2>1. i \in 1..n + k /\ i <= n
    OBVIOUS
  <2>2. QED
    BY <1>3, <2>1
<1>5. ASSUME NEW i \in 1..k
      PROVE  (r \o h)[n + i] = h[i]
  <2>1. n + i \in 1..n + k /\ ~ (n + i <= n) /\ (n + i) - n = i
    OBVIOUS
  <2>2. QED
    BY <1>3, <2>1
<1>6. QED
  BY <1>1, <1>2, <1>3, <1>4, <1>5

\* Taking the head of the second to the end of the first changes nothing.
LEMMA PasaCabeza ==
    ASSUME NEW S, NEW r \in Seq(S), NEW h \in Seq(S), h # <<>>
    PROVE  Append(r, Head(h)) \o Tail(h) = r \o h
<1>1. Head(h) \in S /\ Tail(h) \in Seq(S)
  BY HeadTailProperties
<1>2. Append(r, Head(h)) = r \o <<Head(h)>>
  BY <1>1, AppendIsConcat
<1>3. <<Head(h)>> \in Seq(S)
  BY <1>1
<1>4. (r \o <<Head(h)>>) \o Tail(h) = r \o (<<Head(h)>> \o Tail(h))
  BY <1>1, <1>3, ConcatAssociative
<1>5. <<Head(h)>> \o Tail(h) = h
  <2>1. Len(h) \in Nat \ {0}
    BY EmptySeq
  <2>2. SubSeq(h, 1, Len(h)) = <<h[1]>> \o SubSeq(h, 1 + 1, Len(h))
    BY <2>1, SubSeqRecursiveFirst
  <2>3. SubSeq(h, 1, Len(h)) = h /\ Tail(h) = SubSeq(h, 2, Len(h)) /\ 1 + 1 = 2 /\ Head(h) = h[1]
    BY <2>1, SubSeqFull, TailIsSubSeq
  <2>4. QED
    BY <2>2, <2>3
<1>6. QED
  BY <1>2, <1>4, <1>5

\* The first of two sequences is a beginning of both together.
LEMMA ComienzaParte ==
    ASSUME NEW S, NEW r \in Seq(S), NEW h \in Seq(S)
    PROVE  Comienza(r \o <<>>, r \o h)
<1>1. r \o <<>> = r
  BY ConcatEmptySeq
<1>2. PICK n \in Nat, k \in Nat : n = Len(r) /\ k = Len(h)
  BY LenProperties
<1>3. Len(r \o h) = n + k /\ \A i \in 1..n : (r \o h)[i] = r[i]
  BY <1>2, Partes
<1>4. QED
  BY <1>1, <1>2, <1>3 DEF Comienza

\* A sequence begins with itself.
LEMMA ComienzaIgual ==
    ASSUME NEW S, NEW s \in Seq(S)
    PROVE  Comienza(s, s)
<1>1. Len(s) \in Nat
  BY LenProperties
<1>2. QED
  BY <1>1 DEF Comienza

\* Dropping everything after the head.
LEMMA ComienzaCabeza ==
    ASSUME NEW S, NEW r \in Seq(S), NEW h \in Seq(S), h # <<>>
    PROVE  Comienza(Append(r, Head(h)) \o <<>>, r \o h)
<1>1. Head(h) \in S /\ Tail(h) \in Seq(S)
  BY HeadTailProperties
<1>2. Append(r, Head(h)) \in Seq(S)
  BY <1>1, AppendProperties
<1>3. Comienza(Append(r, Head(h)) \o <<>>, Append(r, Head(h)) \o Tail(h))
  BY <1>1, <1>2, ComienzaParte
<1>4. QED
  BY <1>3, PasaCabeza

\* Everything in t is in s.
Cabe(t, s) == \A i \in 1..Len(t) : \E j \in 1..Len(s) : t[i] = s[j]

\* What is left when the head of the second is lost was there.
LEMMA PierdeCabeza ==
    ASSUME NEW S, NEW r \in Seq(S), NEW h \in Seq(S), h # <<>>
    PROVE  Cabe(r \o Tail(h), r \o h)
<1> SUFFICES ASSUME NEW i \in 1..Len(r \o Tail(h))
             PROVE  \E j \in 1..Len(r \o h) : (r \o Tail(h))[i] = (r \o h)[j]
  BY DEF Cabe
<1>1. PICK n \in Nat, k \in Nat \ {0} : n = Len(r) /\ k = Len(h)
  BY LenProperties, EmptySeq
<1>2. /\ Tail(h) \in Seq(S) /\ Len(Tail(h)) = k - 1
      /\ \A j \in 1..k - 1 : Tail(h)[j] = h[j + 1]
  BY <1>1, HeadTailProperties
<1>3. /\ Len(r \o h) = n + k /\ \A j \in 1..n : (r \o h)[j] = r[j]
      /\ \A j \in 1..k : (r \o h)[n + j] = h[j]
  BY <1>1, Partes
<1>4. /\ Len(r \o Tail(h)) = n + (k - 1) /\ \A j \in 1..n : (r \o Tail(h))[j] = r[j]
      /\ \A j \in 1..k - 1 : (r \o Tail(h))[n + j] = Tail(h)[j]
  BY <1>1, <1>2, Partes
<1>5. CASE i <= n
  <2>1. i \in 1..n /\ i \in 1..n + k
    BY <1>4, <1>5
  <2>2. QED
    BY <1>3, <1>4, <2>1
<1>6. CASE i > n
  <2>1. PICK j \in 1..k - 1 : i = n + j
    <3>1. i - n \in 1..k - 1 /\ i = n + (i - n)
      BY <1>4, <1>6
    <3>2. QED
      BY <3>1
  <2>2. j + 1 \in 1..k /\ n + (j + 1) \in 1..n + k
    OBVIOUS
  <2>3. (r \o Tail(h))[i] = h[j + 1] /\ (r \o h)[n + (j + 1)] = h[j + 1]
    BY <1>2, <1>3, <1>4, <2>1, <2>2
  <2>4. QED
    BY <1>3, <2>2, <2>3
<1>7. QED
  BY <1>4, <1>5, <1>6

\* A new order at the end of the second is at the end of the flow.
LEMMA AgregaParte ==
    ASSUME NEW S, NEW r \in Seq(S), NEW h \in Seq(S), NEW m \in S
    PROVE  r \o Append(h, m) = Append(r \o h, m)
<1>1. r \o h \in Seq(S) /\ <<m>> \in Seq(S)
  BY ConcatProperties
<1>2. Append(h, m) = h \o <<m>> /\ Append(r \o h, m) = (r \o h) \o <<m>>
  BY <1>1, AppendIsConcat
<1>3. (r \o h) \o <<m>> = r \o (h \o <<m>>)
  BY <1>1, ConcatAssociative
<1>4. QED
  BY <1>2, <1>3

-----------------------------------------------------------------------------
(* How the flows change *)

\* The flow after a step is one of orders too.
LEMMA FlujoTipoLuego ==
    ASSUME Tipos', NEW p \in Programas
    PROVE  Flujo(p)' \in Seq(Ordenes)
<1>1. recibidos'[p] \in Seq(Ordenes) /\ hacia'[p] \in Seq(Ordenes)
  BY DEF Tipos
<1>2. QED
  BY <1>1, ConcatProperties DEF Flujo

\* No order comes into the flow of q.
Menos(q) == Cabe(Flujo(q)', Flujo(q))

\* A flow that stays has no new order.
LEMMA IgualEsMenos == ASSUME NEW q, Flujo(q)' = Flujo(q) PROVE Menos(q)
BY DEF Menos, Cabe

\* A beginning has no other orders.
LEMMA ComienzoEsMenos ==
    ASSUME Tipos, Tipos', NEW q \in Programas, Comienza(Flujo(q)', Flujo(q))
    PROVE  Menos(q)
<1>1. PICK n \in Nat, k \in Nat : n = Len(Flujo(q)) /\ k = Len(Flujo(q)')
  <2>1. Flujo(q) \in Seq(Ordenes) /\ Flujo(q)' \in Seq(Ordenes)
    BY FlujoTipo, FlujoTipoLuego
  <2>2. Len(Flujo(q)) \in Nat /\ Len(Flujo(q)') \in Nat
    BY <2>1, LenProperties
  <2>3. QED
    BY <2>2
<1>2. k <= n /\ \A i \in 1..k : Flujo(q)'[i] = Flujo(q)[i]
  BY <1>1 DEF Comienza
<1>3. \A i \in 1..k : i \in 1..n
  BY <1>2
<1>4. QED
  BY <1>1, <1>2, <1>3 DEF Menos, Cabe

\* A program obeys an order: its flow is the same, or ends there.
LEMMA FlujoObedece ==
    ASSUME Tipos, NEW p \in Programas, hacia[p] # <<>>, Obedece(p, Head(hacia[p]))
    PROVE  /\ Comienza(Flujo(p)', Flujo(p))
           /\ Flujo(p)' = Flujo(p) \/ SeFue(p)'
<1>1. recibidos[p] \in Seq(Ordenes) /\ hacia[p] \in Seq(Ordenes)
  BY DEF Tipos
<1>2. recibidos'[p] = Append(recibidos[p], Head(hacia[p]))
  BY DEF Obedece, Tipos
<1>3. CASE Head(hacia[p]).orden = "FINALIZAR"
  <2>1. hacia'[p] = <<>> /\ SeFue(p)'
    BY <1>3 DEF Obedece, SeFue, Tipos
  <2>2. Flujo(p)' = Append(recibidos[p], Head(hacia[p])) \o <<>>
    BY <1>2, <2>1 DEF Flujo
  <2>3. Comienza(Flujo(p)', Flujo(p))
    BY <1>1, <2>2, ComienzaCabeza DEF Flujo
  <2>4. QED
    BY <2>1, <2>3
<1>4. CASE Head(hacia[p]).orden # "FINALIZAR"
  <2>1. hacia'[p] = Tail(hacia[p])
    BY <1>4 DEF Obedece, Tipos
  <2>2. Flujo(p)' = Append(recibidos[p], Head(hacia[p])) \o Tail(hacia[p])
    BY <1>2, <2>1 DEF Flujo
  <2>3. Flujo(p)' = Flujo(p)
    BY <1>1, <2>2, PasaCabeza DEF Flujo
  <2>4. Comienza(Flujo(p)', Flujo(p))
    BY <2>3, FlujoTipo, ComienzaIgual
  <2>5. QED
    BY <2>3, <2>4
<1>5. QED
  BY <1>3, <1>4

\* A program that leaves keeps what it had obeyed.
LEMMA FlujoCorta ==
    ASSUME Tipos, NEW p \in Programas, hacia'[p] = <<>>, recibidos'[p] = recibidos[p]
    PROVE  Comienza(Flujo(p)', Flujo(p))
<1>1. recibidos[p] \in Seq(Ordenes) /\ hacia[p] \in Seq(Ordenes)
  BY DEF Tipos
<1>2. Flujo(p)' = recibidos[p] \o <<>>
  BY DEF Flujo
<1>3. QED
  BY <1>1, <1>2, ComienzaParte DEF Flujo

\* One that does not understand an order loses it.
LEMMA FlujoPierde ==
    ASSUME Tipos, NEW p \in Programas, hacia[p] # <<>>,
           hacia'[p] = Tail(hacia[p]), recibidos'[p] = recibidos[p]
    PROVE  Menos(p)
<1>1. PICK r, h : r = recibidos[p] /\ h = hacia[p] /\ r \in Seq(Ordenes) /\ h \in Seq(Ordenes)
  BY DEF Tipos
<1>2. h # <<>>
  BY <1>1
<1>3. Cabe(r \o Tail(h), r \o h)
  BY <1>1, <1>2, PierdeCabeza
<1>4. QED
  BY <1>1, <1>3 DEF Menos, Flujo

\* What one program does leaves the flows of the others, and puts nothing in its
\* own; if nothing came cut, what is left of it is a beginning.
LEMMA FlujosPrograma ==
    ASSUME Tipos, Tipos', NEW p \in Programas,
           Conecta(p) \/ EnviarDatos(p) \/ Abandona(p) \/ ProgRecibe(p) \/ ProgRecibeRoto(p)
    PROVE  /\ Menos(p)
           /\ \A q \in Programas \ {p} : Flujo(q)' = Flujo(q) /\ recibidos'[q] = recibidos[q]
           /\ p \notin rotos' => Comienza(Flujo(p)', Flujo(p)) /\ (Flujo(p)' = Flujo(p) \/ SeFue(p)')
<1>0. /\ hacia \in [Programas -> Seq(Ordenes)] /\ recibidos \in [Programas -> Seq(Ordenes)]
  BY DEF Tipos
<1>1. CASE Conecta(p) \/ EnviarDatos(p)
  <2>1. hacia' = hacia /\ recibidos' = recibidos
    BY <1>1 DEF Conecta, EnviarDatos
  <2>2. \A q \in Programas : Flujo(q)' = Flujo(q)
    BY <2>1 DEF Flujo
  <2>3. Comienza(Flujo(p)', Flujo(p))
    BY <2>2, FlujoTipo, ComienzaIgual
  <2>4. QED
    BY <2>1, <2>2, <2>3, IgualEsMenos
<1>2. CASE Abandona(p)
  <2>1. hacia' = [hacia EXCEPT ![p] = <<>>] /\ recibidos' = recibidos
    BY <1>2 DEF Abandona
  <2>2. SeFue(p)'
    BY <1>2 DEF Abandona, SeFue, Tipos
  <2>3. hacia'[p] = <<>> /\ \A q \in Programas \ {p} : hacia'[q] = hacia[q]
    BY <1>0, <2>1
  <2>4. Comienza(Flujo(p)', Flujo(p))
    BY <2>1, <2>3, FlujoCorta
  <2>5. \A q \in Programas \ {p} : Flujo(q)' = Flujo(q)
    BY <2>1, <2>3 DEF Flujo
  <2>6. QED
    BY <2>1, <2>2, <2>4, <2>5, ComienzoEsMenos
<1>3. CASE (ProgRecibe(p) \/ ProgRecibeRoto(p)) /\ Obedece(p, Head(hacia[p]))
  <2>1. hacia[p] # <<>>
    BY <1>3 DEF ProgRecibe, ProgRecibeRoto
  <2>2. Comienza(Flujo(p)', Flujo(p)) /\ (Flujo(p)' = Flujo(p) \/ SeFue(p)')
    BY <1>3, <2>1, FlujoObedece
  <2>3. /\ hacia' = [hacia EXCEPT ![p] = <<>>] \/ hacia' = [hacia EXCEPT ![p] = Tail(@)]
        /\ recibidos' = [recibidos EXCEPT ![p] = Append(@, Head(hacia[p]))]
    BY <1>3 DEF Obedece
  <2>4. \A q \in Programas \ {p} : hacia'[q] = hacia[q] /\ recibidos'[q] = recibidos[q]
    BY <1>0, <2>3
  <2>5. \A q \in Programas \ {p} : Flujo(q)' = Flujo(q)
    BY <2>4 DEF Flujo
  <2>6. QED
    BY <2>2, <2>4, <2>5, ComienzoEsMenos
<1>4. CASE ProgRecibeRoto(p) /\ ~ Obedece(p, Head(hacia[p]))
  <2>1. /\ hacia[p] # <<>> /\ recibidos' = recibidos /\ p \in rotos'
        /\ hacia' = [hacia EXCEPT ![p] = <<>>] \/ hacia' = [hacia EXCEPT ![p] = Tail(@)]
    BY <1>4 DEF ProgRecibeRoto
  <2>2. /\ hacia'[p] = <<>> \/ hacia'[p] = Tail(hacia[p])
        /\ \A q \in Programas \ {p} : hacia'[q] = hacia[q]
    BY <1>0, <2>1
  <2>3. \A q \in Programas \ {p} : Flujo(q)' = Flujo(q)
    BY <2>1, <2>2 DEF Flujo
  <2>4. Menos(p)
    BY <2>1, <2>2, FlujoCorta, FlujoPierde, ComienzoEsMenos
  <2>5. QED
    BY <2>1, <2>3, <2>4
<1>5. QED
  BY <1>1, <1>2, <1>3, <1>4 DEF ProgRecibe

\* An order sent goes to the end of the flow of one program, or is lost.
LEMMA FlujosEnvio ==
    ASSUME Tipos, NEW s \in Sockets, NEW m \in Ordenes, EnviarMensaje(s, m), recibidos' = recibidos
    PROVE  \A q \in Programas :
               Flujo(q)' = IF q = fd[s] /\ Conectado(q) THEN Append(Flujo(q), m) ELSE Flujo(q)
<1>0. /\ hacia \in [Programas -> Seq(Ordenes)] /\ recibidos \in [Programas -> Seq(Ordenes)]
  BY DEF Tipos
<1>1. CASE hacia' = hacia /\ (fd[s] \in Programas => ~ Conectado(fd[s]))
  <2>1. \A q \in Programas : Flujo(q)' = Flujo(q)
    BY <1>1 DEF Flujo
  <2>2. QED
    BY <1>1, <2>1
<1>2. CASE /\ fd[s] \in Programas /\ Conectado(fd[s])
           /\ hacia' = [hacia EXCEPT ![fd[s]] = Append(hacia[fd[s]], m)]
  <2>1. PICK p \in Programas : p = fd[s]
    BY <1>2
  <2>2. hacia'[p] = Append(hacia[p], m) /\ \A q \in Programas \ {p} : hacia'[q] = hacia[q]
    BY <1>0, <1>2, <2>1
  <2>3. \A q \in Programas \ {p} : Flujo(q)' = Flujo(q)
    BY <2>2 DEF Flujo
  <2>4. Flujo(p)' = recibidos[p] \o Append(hacia[p], m)
    <3>1. Flujo(p)' = recibidos'[p] \o hacia'[p]
      BY DEF Flujo
    <3>2. QED
      BY <2>2, <3>1
  <2>5. Flujo(p)' = Append(Flujo(p), m)
    BY <1>0, <2>4, AgregaParte DEF Flujo
  <2>6. QED
    BY <1>2, <2>1, <2>3, <2>5
<1>3. QED
  BY <1>1, <1>2, Envio

-----------------------------------------------------------------------------
(* Whom an order is about *)

\* The PLP has read the whole packet of a program, and answers it.
LEMMA PlpHabla ==
    ASSUME Tipos, Conexion, Guiones, PlpAtiende
    PROVE  \E p \in Programas :
              /\ p = fd[plp.socket] /\ plp.socket \in Sockets /\ p \in atendidos /\ programa[p] # "fuera"
              /\ Leyendo(p) /\ SinLeer(p) = 0 /\ Nuevo(p) /\ estado[p] = "no" /\ SinOrdenes(p)
<1>1. plp \in Lectura /\ plp # Nada /\ plp.socket \in Sockets /\ plp.faltan = 0
  BY DEF PlpAtiende, Tipos, Lectura
<1>2. fd[plp.socket] \in Programas
  BY <1>1 DEF Conexion
<1>3. PICK p \in Programas : p = fd[plp.socket]
  BY <1>2
<1>4. p \in atendidos /\ programa[p] # "fuera"
  BY <1>1, <1>2, <1>3 DEF Conexion
<1>5. Leyendo(p) /\ Nuevo(p)
  BY <1>1, <1>3 DEF Leyendo, Nuevo
<1>6. SinLeer(p) = 0 /\ estado[p] = "no" /\ SinOrdenes(p)
  BY <1>1, <1>5 DEF Guiones
<1>7. QED
  BY <1>1, <1>3, <1>4, <1>5, <1>6

\* What the PLP sends is about the program it has read, and it is there that it
\* goes.
LEMMA FlujosPlp ==
    ASSUME Tipos, PlpAtiende, NEW p \in Programas, p = fd[plp.socket], plp.socket \in Sockets
    PROVE  /\ \A q \in Programas \ {p} : Flujo(q)' = Flujo(q)
           /\ \/ Flujo(p)' = Flujo(p)
              \/ \E m \in Ordenes : m.de = p /\ Flujo(p)' = Append(Flujo(p), m)
<1>1. recibidos' = recibidos
  BY DEF PlpAtiende
<1>2. CASE hacia' = hacia
  BY <1>1, <1>2 DEF Flujo
<1>3. CASE \E m \in Ordenes : m.de = p /\ EnviarMensaje(plp.socket, m)
  <2>1. PICK m \in Ordenes : m.de = p /\ EnviarMensaje(plp.socket, m)
    BY <1>3
  <2>2. \A q \in Programas :
            Flujo(q)' = IF q = fd[plp.socket] /\ Conectado(q) THEN Append(Flujo(q), m) ELSE Flujo(q)
    BY <1>1, <2>1, FlujosEnvio
  <2>3. QED
    BY <2>1, <2>2
<1>4. QED
  <2>1. /\ Orden("INFORMAR", p, 0) \in Ordenes /\ Orden("INFORMAR", p, 0).de = p
        /\ Orden("FINALIZAR", p, 0) \in Ordenes /\ Orden("FINALIZAR", p, 0).de = p
    BY OrdenTipo
  <2>2. \/ hacia' = hacia \/ EnviarMensaje(plp.socket, Orden("INFORMAR", p, 0))
        \/ EnviarMensaje(plp.socket, Orden("FINALIZAR", p, 0))
    BY DEF PlpAtiende, Admite, Rechaza
  <2>3. QED
    BY <1>2, <1>3, <2>1, <2>2

\* What the PCP sends is about the process of a CPU.
LEMMA FlujosPcp ==
    ASSUME Tipos, Canales, Cpus, Lineas, NEW c \in CPUs, PcpImprime(c) \/ PcpTermina(c)
    PROVE  \E p \in Programas, m \in Ordenes :
              /\ p = Head(canal[c]).proc /\ m.de = p /\ estado[p] = "cpu" /\ pcb[p].socket \in Sockets
              /\ PcpImprime(c) => m = Orden("INFORMAR", p, Head(canal[c]).linea)
              /\ PcpTermina(c) => m = Orden("FINALIZAR", p, 0)
              /\ \A q \in Programas :
                    Flujo(q)' = IF q = fd[pcb[p].socket] /\ Conectado(q) THEN Append(Flujo(q), m)
                                ELSE Flujo(q)
<1>1. canal[c] # <<>> /\ recibidos' = recibidos
  BY DEF PcpImprime, PcpTermina, PcpLee
<1>2. PICK p \in Programas : p = Head(canal[c]).proc
  BY <1>1, PaqueteDe
<1>3. estado[p] = "cpu" /\ pcb[p] \in Pcb /\ Head(canal[c]) \in Paquete
  BY <1>1, <1>2, PaqueteDe
<1>4. pcb[p].socket \in Sockets /\ Head(canal[c]).linea \in Nat
  BY <1>3 DEF Pcb, Paquete
<1>5. PICK m \in Ordenes :
          /\ m.de = p /\ EnviarMensaje(pcb[p].socket, m)
          /\ PcpImprime(c) => m = Orden("INFORMAR", p, Head(canal[c]).linea)
          /\ PcpTermina(c) => m = Orden("FINALIZAR", p, 0)
  <2>1. /\ Orden("INFORMAR", p, Head(canal[c]).linea) \in Ordenes
        /\ Orden("INFORMAR", p, Head(canal[c]).linea).de = p
        /\ Orden("FINALIZAR", p, 0) \in Ordenes /\ Orden("FINALIZAR", p, 0).de = p
    BY <1>4, OrdenTipo
  <2>2. ~ (PcpImprime(c) /\ PcpTermina(c))
    BY DEF PcpImprime, PcpTermina, PcpLee
  <2>3. CASE PcpImprime(c)
    <3>1. EnviarMensaje(pcb[p].socket, Orden("INFORMAR", p, Head(canal[c]).linea))
      BY <1>2, <2>3 DEF PcpImprime
    <3>2. QED
      BY <2>1, <2>2, <2>3, <3>1
  <2>4. CASE PcpTermina(c)
    <3>1. EnviarMensaje(pcb[p].socket, Orden("FINALIZAR", p, 0))
      BY <1>2, <2>4 DEF PcpTermina
    <3>2. QED
      BY <2>1, <2>2, <2>4, <3>1
  <2>5. QED
    BY <2>3, <2>4
<1>6. \A q \in Programas :
          Flujo(q)' = IF q = fd[pcb[p].socket] /\ Conectado(q) THEN Append(Flujo(q), m) ELSE Flujo(q)
  BY <1>1, <1>4, <1>5, FlujosEnvio
<1>7. QED
  BY <1>2, <1>3, <1>4, <1>5, <1>6

\* A CPU that connects takes a free descriptor from no program.
LEMMA AceptaCpuHace ==
    ASSUME Tipos, NEW c \in CPUs, AceptaCpu(c)
    PROVE  /\ UNCHANGED <<programa, porEnviar, llegaron, hacia, recibidos, rotos, atendidos, plp,
                         pcb, estado, cpu, canal, trama>>
           /\ \E k \in Sockets : fd[k] = Nada /\ fd'[k] = c /\ \A s \in Sockets : s # k => fd'[s] = fd[s]
           /\ \A s \in Sockets : fd[s] # c
           /\ \A s \in Sockets, q \in Programas : fd'[s] = q <=> fd[s] = q
<1>1. /\ UNCHANGED <<programa, porEnviar, llegaron, hacia, recibidos, rotos, atendidos, plp,
                     pcb, estado, cpu, canal, trama>>
      /\ \A s \in Sockets : fd[s] # c
  BY DEF AceptaCpu, red, procesos
<1>2. PICK k \in Sockets : fd[k] = Nada /\ fd' = [fd EXCEPT ![k] = c]
  BY LibreTipo DEF AceptaCpu
<1>3. fd'[k] = c /\ \A s \in Sockets : s # k => fd'[s] = fd[s]
  BY <1>2 DEF Tipos
<1>4. c \notin Programas /\ Nada \notin Programas
  BY SupuestosMensajes
<1>5. QED
  BY <1>1, <1>2, <1>3, <1>4

\* Nothing else touches them.
LEMMA FlujosQuietos ==
    ASSUME \/ \E p \in Programas : Acepta(p)
           \/ \E s \in Sockets : PlpLee(s) \/ PlpCierra(s)
           \/ PlpRecibe
           \/ \E c \in CPUs :
                 \/ AceptaCpu(c)
                 \/ \E p \in Programas : Despacha(c, p)
                 \/ Imprimir(c) \/ ImprimirTexto(c) \/ EnviarPcbProcesado(c) \/ PcpQuantum(c),
           NEW q
    PROVE  Flujo(q)' = Flujo(q)
<1>1. hacia' = hacia /\ recibidos' = recibidos
  BY DEF Acepta, AceptaCpu, PlpLee, PlpCierra, PlpRecibe, Despacha, Imprimir, ImprimirTexto, Imprime,
         EnviarPcbProcesado, PcpQuantum, PcpLee, red
<1>2. QED
  BY <1>1 DEF Flujo

-----------------------------------------------------------------------------
(* The scripts *)

\* An order that comes into a flow is the one appended.
LEMMA OrdenNueva ==
    ASSUME NEW s \in Seq(Ordenes), NEW m \in Ordenes, NEW i \in 1..Len(Append(s, m))
    PROVE  Append(s, m)[i] = m \/ (i \in 1..Len(s) /\ Append(s, m)[i] = s[i])
<1>1. PICK n \in Nat : n = Len(s)
  BY LenProperties
<1>2. /\ Len(Append(s, m)) = n + 1 /\ Append(s, m)[n + 1] = m
      /\ \A j \in 1..n : Append(s, m)[j] = s[j]
  BY <1>1, AppendProperties
<1>3. i \in 1..n \/ i = n + 1
  BY <1>2
<1>4. QED
  BY <1>1, <1>2, <1>3

\* There are still no orders about x if only orders about others come in.
LEMMA SinOrdenesSigue ==
    ASSUME Tipos, NEW x, SinOrdenes(x),
           \A q \in Programas :
               Menos(q) \/ \E m \in Ordenes : m.de # x /\ Flujo(q)' = Append(Flujo(q), m)
    PROVE  SinOrdenes(x)'
<1> SUFFICES ASSUME NEW q \in Programas, NEW i \in 1..Len(Flujo(q)')
             PROVE  Flujo(q)'[i].de # x
  BY DEF SinOrdenes
<1>1. CASE Menos(q)
  <2>1. PICK j \in 1..Len(Flujo(q)) : Flujo(q)'[i] = Flujo(q)[j]
    BY <1>1 DEF Menos, Cabe
  <2>2. QED
    BY <2>1 DEF SinOrdenes
<1>2. CASE \E m \in Ordenes : m.de # x /\ Flujo(q)' = Append(Flujo(q), m)
  <2>1. PICK m \in Ordenes : m.de # x /\ Flujo(q)' = Append(Flujo(q), m)
    BY <1>2
  <2>2. Flujo(q) \in Seq(Ordenes)
    BY FlujoTipo
  <2>3. Flujo(q)'[i] = m \/ (i \in 1..Len(Flujo(q)) /\ Flujo(q)'[i] = Flujo(q)[i])
    BY <2>1, <2>2, OrdenNueva
  <2>4. QED
    BY <2>1, <2>3 DEF SinOrdenes
<1>3. QED
  BY <1>1, <1>2

\* What Guiones says of one program.
GuionBien(p) ==
    /\ programa[p] = "fuera" => SinLeer(p) = 0
    /\ Leyendo(p) => SinLeer(p) = plp.faltan /\ plp.faltan <= Cuerpo
    /\ ~ Leyendo(p) => SinLeer(p) \in {0, Cuerpo + 1}
    /\ Nuevo(p) => estado[p] = "no" /\ SinOrdenes(p)

\* A script is new until its program connects, and sending it moves its pieces.
LEMMA GuionesPrograma ==
    ASSUME Tipos, Tipos', Conexion, Guiones, NEW p \in Programas, NEW x \in Programas,
           Conecta(p) \/ EnviarDatos(p) \/ Abandona(p) \/ ProgRecibe(p) \/ ProgRecibeRoto(p)
    PROVE  GuionBien(x)'
<1> USE SupuestosMensajes
<1>1. plp' = plp /\ fd' = fd /\ estado' = estado
  BY DEF Conecta, EnviarDatos, Abandona, ProgRecibe, ProgRecibeRoto, descriptores, procesos
<1>2. Leyendo(x)' = Leyendo(x)
  BY <1>1 DEF Leyendo
<1>3. SinOrdenes(x) => SinOrdenes(x)'
  BY FlujosPrograma, IgualEsMenos, SinOrdenesSigue
<1>4. GuionBien(x)
  BY DEF Guiones, GuionBien
<1>5. porEnviar[x] \in Nat /\ llegaron[x] \in Nat
  BY DEF Tipos
<1>6. CASE x = p /\ Conecta(p)
  <2>1. ~ Leyendo(p)
    <3>1. programa[p] = "fuera"
      BY <1>6 DEF Conecta
    <3>2. p \notin atendidos
      BY <3>1 DEF Conexion
    <3>3. plp # Nada => plp.socket \in Sockets
      BY DEF Tipos, Lectura
    <3>4. QED
      BY <3>2, <3>3 DEF Conexion, Leyendo
  <2>2. programa'[p] # "fuera" /\ porEnviar'[p] = Cuerpo + 1 /\ llegaron'[p] = llegaron[p]
    BY <1>6 DEF Conecta, Tipos
  <2>3. Nuevo(p) /\ SinLeer(p) = 0
    BY <1>4, <1>6 DEF Conecta, Nuevo, GuionBien
  <2>4. SinLeer(p)' = Cuerpo + 1
    BY <1>5, <1>6, <2>2, <2>3 DEF SinLeer
  <2>5. QED
    BY <1>1, <1>2, <1>3, <1>4, <1>6, <2>1, <2>2, <2>3, <2>4 DEF GuionBien
<1>7. CASE ~ (x = p /\ Conecta(p))
  <2>1. SinLeer(x)' = SinLeer(x)
    <3>1. CASE porEnviar' = porEnviar /\ llegaron' = llegaron
      BY <3>1 DEF SinLeer
    <3>2. CASE EnviarDatos(p)
      <4>1. PICK n \in 1..porEnviar[p] : porEnviar' = [porEnviar EXCEPT ![p] = @ - n]
                                         /\ llegaron' = [llegaron EXCEPT ![p] = @ + n]
        BY <3>2 DEF EnviarDatos
      <4>2. CASE x = p
        <5>1. porEnviar'[x] = porEnviar[x] - n /\ llegaron'[x] = llegaron[x] + n
          BY <4>1, <4>2 DEF Tipos
        <5>2. n \in Nat
          BY <1>5, <4>2
        <5>3. QED
          BY <1>5, <5>1, <5>2 DEF SinLeer
      <4>3. CASE x # p
        BY <4>1, <4>3 DEF SinLeer, Tipos
      <4>4. QED
        BY <4>2, <4>3
    <3>3. CASE Conecta(p)
      BY <1>7, <3>3 DEF Conecta, SinLeer, Tipos
    <3>4. QED
      BY <3>1, <3>2, <3>3 DEF Abandona, ProgRecibe, ProgRecibeRoto
  <2>2. programa'[x] = "fuera" => programa[x] = "fuera"
    <3>1. CASE x # p
      <4>1. programa' = programa \/ \E e : programa' = [programa EXCEPT ![p] = e]
        BY DEF Conecta, EnviarDatos, Abandona, ProgRecibe, ProgRecibeRoto, Obedece
      <4>2. DOMAIN programa = Programas
        BY DEF Tipos
      <4>3. QED
        BY <3>1, <4>1, <4>2
    <3>2. CASE x = p
      <4>1. programa[p] # "fuera"
        BY <1>7, <3>2 DEF EnviarDatos, Abandona, Conectado, ProgRecibe, ProgRecibeRoto
      <4>2. \/ programa' = programa
            \/ \E e \in {"recibe", "salio", "termino"} : programa' = [programa EXCEPT ![p] = e]
        BY <1>7, <3>2 DEF EnviarDatos, Abandona, ProgRecibe, ProgRecibeRoto, Obedece
      <4>3. QED
        BY <3>2, <4>1, <4>2 DEF Tipos
    <3>3. QED
      BY <3>1, <3>2
  <2>3. Nuevo(x)' => Nuevo(x)
    BY <1>2, <2>1, <2>2 DEF Nuevo
  <2>4. QED
    BY <1>1, <1>2, <1>3, <1>4, <2>1, <2>2, <2>3 DEF GuionBien
<1>8. QED
  BY <1>6, <1>7

\* Of what is left to read, the length.
LEMMA UnaMenos ==
    ASSUME NEW a \in Nat, NEW b \in Nat, NEW n \in Nat, a + b = n + 1
    PROVE  a + (b - 1) = n
OBVIOUS

\* Reading moves them too; when none is left the script is not new any more.
LEMMA GuionesPlp ==
    ASSUME Tipos, Tipos', Conexion, Guiones, NEW x \in Programas,
           \/ \E p \in Programas : Acepta(p)
           \/ \E c \in CPUs : AceptaCpu(c)
           \/ \E s \in Sockets : PlpLee(s) \/ PlpCierra(s)
           \/ PlpRecibe \/ PlpAtiende
    PROVE  GuionBien(x)'
<1> USE SupuestosMensajes
<1>1. GuionBien(x)
  BY DEF Guiones, GuionBien
<1>2. porEnviar[x] \in Nat /\ llegaron[x] \in Nat
  BY DEF Tipos
<1>3. programa' = programa /\ porEnviar' = porEnviar
  BY DEF Acepta, AceptaCpu, PlpLee, PlpCierra, PlpRecibe, PlpAtiende, red
<1>4. CASE (\E p \in Programas : Acepta(p)) \/ (\E s \in Sockets : PlpCierra(s))
  <2>1. plp = Nada /\ plp' = Nada /\ llegaron' = llegaron /\ estado' = estado
    BY <1>4 DEF Acepta, PlpCierra, EnSelect, red, procesos
  <2>2. SinOrdenes(x)' = SinOrdenes(x)
    <3>1. \A q \in Programas : Flujo(q)' = Flujo(q)
      BY <1>4, FlujosQuietos
    <3>2. QED
      BY <3>1 DEF SinOrdenes
  <2>3. ~ Leyendo(x) /\ ~ Leyendo(x)' /\ SinLeer(x)' = SinLeer(x) /\ Nuevo(x)' = Nuevo(x)
    BY <1>3, <2>1 DEF Leyendo, SinLeer, Nuevo
  <2>4. QED
    BY <1>1, <1>3, <2>1, <2>2, <2>3 DEF GuionBien
<1>5. ASSUME NEW s \in Sockets, PlpLee(s)
      PROVE  GuionBien(x)'
  <2>1. /\ plp = Nada /\ plp' # Nada /\ plp'.socket = s /\ plp'.faltan = Cuerpo
        /\ fd' = fd /\ estado' = estado /\ fd[s] \in Programas
    <3>1. plp' = [socket |-> s, faltan |-> Cuerpo, trozos |-> 0] /\ plp = Nada
      BY <1>5 DEF PlpLee, EnSelect, PorRecibir
    <3>2. plp' \in Lectura /\ Nada \notin Lectura
      BY <3>1 DEF Lectura
    <3>3. QED
      BY <1>5, <3>1, <3>2 DEF PlpLee, procesos, Tipos
  <2>2. SinOrdenes(x)' = SinOrdenes(x)
    <3>1. \A q \in Programas : Flujo(q)' = Flujo(q)
      BY <1>5, FlujosQuietos
    <3>2. QED
      BY <3>1 DEF SinOrdenes
  <2>3. CASE x = fd[s]
    <3>1. ~ Leyendo(x) /\ Leyendo(x)'
      BY <2>1, <2>3 DEF Leyendo
    <3>2. llegaron[x] > 0 /\ llegaron'[x] = llegaron[x] - 1
      BY <1>5, <2>3 DEF PlpLee, Tipos
    <3>3. SinLeer(x) = Cuerpo + 1
      <4>1. SinLeer(x) \in {0, Cuerpo + 1}
        BY <1>1, <3>1 DEF GuionBien
      <4>2. SinLeer(x) # 0
        BY <1>2, <3>2 DEF SinLeer
      <4>3. QED
        BY <4>1, <4>2
    <3>4. SinLeer(x)' = Cuerpo
      <4>1. porEnviar[x] + llegaron[x] = Cuerpo + 1
        BY <3>3 DEF SinLeer
      <4>2. porEnviar[x] + (llegaron[x] - 1) = Cuerpo
        <5>1. Cuerpo \in Nat
          OBVIOUS
        <5>2. QED
          BY <1>2, <4>1, <5>1, UnaMenos
      <4>3. SinLeer(x)' = porEnviar'[x] + llegaron'[x]
        BY DEF SinLeer
      <4>4. QED
        BY <1>3, <3>2, <4>2, <4>3
    <3>5. Nuevo(x) /\ programa[x] # "fuera"
      BY <1>1, <3>3 DEF Nuevo, GuionBien
    <3>6. QED
      BY <1>1, <1>3, <2>1, <2>2, <3>1, <3>4, <3>5 DEF GuionBien
  <2>4. CASE x # fd[s]
    <3>1. ~ Leyendo(x) /\ ~ Leyendo(x)'
      BY <2>1, <2>4 DEF Leyendo
    <3>2. llegaron'[x] = llegaron[x]
      BY <1>5, <2>4 DEF PlpLee, Tipos
    <3>3. SinLeer(x)' = SinLeer(x) /\ Nuevo(x)' = Nuevo(x)
      BY <1>3, <3>1, <3>2 DEF SinLeer, Nuevo
    <3>4. QED
      BY <1>1, <1>3, <2>1, <2>2, <3>1, <3>3 DEF GuionBien
  <2>5. QED
    BY <2>3, <2>4
<1>6. CASE PlpRecibe
  <2>1. PICK n \in Nat : /\ n <= llegaron[fd[plp.socket]] /\ n <= plp.faltan
                         /\ llegaron' = [llegaron EXCEPT ![fd[plp.socket]] = @ - n]
                         /\ plp' = [plp EXCEPT !.faltan = @ - n, !.trozos = @ + 1]
    <3>1. plp \in Lectura /\ plp # Nada /\ plp.socket \in Sockets /\ plp.faltan \in Nat
      BY <1>6 DEF PlpRecibe, Tipos, Lectura
    <3>2. llegaron[fd[plp.socket]] \in Nat
      BY <3>1 DEF Conexion, Tipos
    <3>3. /\ Min({llegaron[fd[plp.socket]], plp.faltan}) \in Nat
          /\ Min({llegaron[fd[plp.socket]], plp.faltan}) <= llegaron[fd[plp.socket]]
          /\ Min({llegaron[fd[plp.socket]], plp.faltan}) <= plp.faltan
      BY <3>1, <3>2, MinDeDos
    <3>4. QED
      BY <1>6, <3>3 DEF PlpRecibe
  <2>2. /\ plp \in Lectura /\ plp # Nada /\ plp' \in Lectura /\ plp' # Nada /\ plp'.socket = plp.socket
        /\ plp.faltan \in Nat /\ plp'.faltan = plp.faltan - n
    <3>1. plp \in Lectura /\ plp # Nada /\ Nada \notin Lectura
      BY <1>6 DEF PlpRecibe, Tipos, Lectura
    <3>2. plp.faltan \in Nat /\ plp.trozos \in Nat /\ plp.socket \in Sockets
      BY <3>1 DEF Lectura
    <3>3. plp.faltan - n \in Nat /\ plp.trozos + 1 \in Nat
      BY <2>1, <3>2
    <3>4. plp' \in Lectura /\ plp'.socket = plp.socket /\ plp'.faltan = plp.faltan - n
      BY <2>1, <3>1, <3>3 DEF Lectura
    <3>5. QED
      BY <3>1, <3>2, <3>4
  <2>3. fd' = fd /\ estado' = estado
    BY <1>6 DEF PlpRecibe, procesos
  <2>4. SinOrdenes(x)' = SinOrdenes(x)
    <3>1. \A q \in Programas : Flujo(q)' = Flujo(q)
      BY <1>6, FlujosQuietos
    <3>2. QED
      BY <3>1 DEF SinOrdenes
  <2>5. Leyendo(x)' = Leyendo(x)
    BY <2>2, <2>3 DEF Leyendo
  <2>6. CASE Leyendo(x)
    <3>1. llegaron'[x] = llegaron[x] - n
      BY <2>1, <2>6 DEF Leyendo, Tipos
    <3>2. SinLeer(x) = plp.faltan /\ plp.faltan <= Cuerpo
      BY <1>1, <2>6 DEF GuionBien
    <3>3. SinLeer(x)' = plp'.faltan /\ plp'.faltan <= Cuerpo
      <4>1. porEnviar[x] + llegaron[x] = plp.faltan
        BY <3>2 DEF SinLeer
      <4>2. porEnviar[x] + (llegaron[x] - n) = plp.faltan - n
        BY <1>2, <2>1, <2>2, <4>1
      <4>3. SinLeer(x)' = porEnviar'[x] + llegaron'[x]
        BY DEF SinLeer
      <4>4. SinLeer(x)' = plp'.faltan
        BY <1>3, <2>2, <3>1, <4>2, <4>3
      <4>5. plp.faltan - n <= Cuerpo
        BY <2>1, <2>2, <3>2, SupuestosMensajes
      <4>6. QED
        BY <2>2, <4>4, <4>5
    <3>4. Nuevo(x) /\ programa[x] # "fuera"
      <4>1. x \in atendidos
        <5>1. plp.socket \in Sockets
          BY <2>2 DEF Lectura
        <5>2. QED
          BY <2>6, <5>1 DEF Leyendo, Conexion
      <4>2. QED
        BY <2>6, <4>1 DEF Nuevo, Conexion
    <3>5. QED
      BY <1>1, <1>3, <2>3, <2>4, <2>5, <2>6, <3>3, <3>4 DEF GuionBien
  <2>7. CASE ~ Leyendo(x)
    <3>1. llegaron'[x] = llegaron[x]
      BY <2>1, <2>2, <2>7 DEF Leyendo, Tipos
    <3>2. SinLeer(x)' = SinLeer(x) /\ Nuevo(x)' = Nuevo(x)
      BY <1>3, <2>5, <3>1 DEF SinLeer, Nuevo
    <3>3. QED
      BY <1>1, <1>3, <2>3, <2>4, <2>5, <2>7, <3>2 DEF GuionBien
  <2>8. QED
    BY <2>6, <2>7
<1>7. CASE PlpAtiende
  <2>1. PICK p \in Programas :
          /\ p = fd[plp.socket] /\ plp.socket \in Sockets /\ programa[p] # "fuera"
          /\ SinLeer(p) = 0 /\ SinOrdenes(p)
    BY <1>7, PlpHabla
  <2>2. plp' = Nada /\ llegaron' = llegaron
    BY <1>7 DEF PlpAtiende, red
  <2>3. ~ Leyendo(x)' /\ SinLeer(x)' = SinLeer(x)
    BY <1>3, <2>2 DEF Leyendo, SinLeer
  <2>4. CASE x = p
    BY <1>3, <2>1, <2>3, <2>4 DEF GuionBien, Nuevo
  <2>5. CASE x # p
    <3>1. ~ Leyendo(x)
      BY <2>1, <2>5 DEF Leyendo
    <3>2. Nuevo(x)' = Nuevo(x)
      BY <1>3, <2>3, <3>1 DEF Nuevo
    <3>3. estado'[x] = estado[x]
      <4>1. estado' = estado \/ estado' = [estado EXCEPT ![p] = "ready"]
        BY <1>7, <2>1 DEF PlpAtiende, Admite, Rechaza
      <4>2. QED
        <5>1. estado \in [Programas -> {"no", "ready", "cpu", "fin", "perdido"}]
          BY DEF Tipos
        <5>2. QED
          BY <2>5, <4>1, <5>1
    <3>4. SinOrdenes(x) => SinOrdenes(x)'
      BY <1>7, <2>1, <2>5, FlujosPlp, IgualEsMenos, SinOrdenesSigue
    <3>5. QED
      BY <1>1, <1>3, <2>3, <3>1, <3>2, <3>3, <3>4 DEF GuionBien
  <2>6. QED
    BY <2>4, <2>5
<1>8. ASSUME NEW c \in CPUs, AceptaCpu(c)
      PROVE  GuionBien(x)'
  <2>1. /\ llegaron' = llegaron /\ plp' = plp /\ estado' = estado
        /\ \A s \in Sockets : fd'[s] = x <=> fd[s] = x
    BY <1>8, AceptaCpuHace
  <2>2. plp # Nada => plp.socket \in Sockets
    BY DEF Tipos, Lectura
  <2>3. Leyendo(x)' = Leyendo(x) /\ SinLeer(x)' = SinLeer(x)
    BY <1>3, <2>1, <2>2 DEF Leyendo, SinLeer
  <2>4. SinOrdenes(x)' = SinOrdenes(x)
    <3>1. \A q \in Programas : Flujo(q)' = Flujo(q)
      BY <1>8, FlujosQuietos
    <3>2. QED
      BY <3>1 DEF SinOrdenes
  <2>5. QED
    BY <1>1, <1>3, <2>1, <2>3, <2>4 DEF GuionBien, Nuevo
<1>9. QED
  BY <1>4, <1>5, <1>6, <1>7, <1>8

\* A PCB that is sent reaches the CPU, or is read out of step.
LEMMA DespachaEstado ==
    ASSUME NEW c, NEW p, Despacha(c, p)
    PROVE  /\ estado[p] = "ready"
           /\ estado' = [estado EXCEPT ![p] = "cpu"] \/ estado' = [estado EXCEPT ![p] = "perdido"]
BY DEF Despacha, Recibe

\* A process that moves was let in.
LEMMA GuionesCpu ==
    ASSUME Tipos, Guiones, Canales, Cpus, Lineas, NEW x \in Programas, NEW c \in CPUs,
           \/ \E p \in Programas : Despacha(c, p)
           \/ Imprimir(c) \/ ImprimirTexto(c) \/ EnviarPcbProcesado(c)
           \/ PcpImprime(c) \/ PcpQuantum(c) \/ PcpTermina(c)
    PROVE  GuionBien(x)'
<1>1. GuionBien(x)
  BY DEF Guiones, GuionBien
<1>2. programa' = programa /\ porEnviar' = porEnviar /\ llegaron' = llegaron /\ plp' = plp /\ fd' = fd
  BY DEF Despacha, Imprimir, ImprimirTexto, Imprime, EnviarPcbProcesado, PcpImprime, PcpQuantum,
         PcpTermina, PcpLee, red, descriptores
<1>3. Leyendo(x)' = Leyendo(x) /\ SinLeer(x)' = SinLeer(x) /\ Nuevo(x)' = Nuevo(x)
  BY <1>2 DEF Leyendo, SinLeer, Nuevo
<1>4. estado[x] = "no" => estado'[x] = "no"
  <2>1. CASE estado' = estado
    BY <2>1
  <2>2. CASE \E p \in Programas : Despacha(c, p)
    BY <2>2, DespachaEstado DEF Tipos
  <2>3. CASE PcpQuantum(c) \/ PcpTermina(c)
    <3>1. PICK p \in Programas : p = Head(canal[c]).proc /\ estado[p] = "cpu"
      BY <2>3, PaqueteDe DEF PcpQuantum, PcpTermina, PcpLee
    <3>2. estado' = [estado EXCEPT ![p] = "ready"] \/ estado' = [estado EXCEPT ![p] = "fin"]
      BY <2>3, <3>1 DEF PcpQuantum, PcpTermina
    <3>3. QED
      BY <3>1, <3>2 DEF Tipos
  <2>4. QED
    BY <2>1, <2>2, <2>3 DEF Imprimir, ImprimirTexto, Imprime, EnviarPcbProcesado, PcpImprime
<1>5. estado[x] = "no" /\ SinOrdenes(x) => SinOrdenes(x)'
  <2>1. CASE \A q \in Programas : Flujo(q)' = Flujo(q)
    BY <2>1, IgualEsMenos, SinOrdenesSigue
  <2>2. CASE PcpImprime(c) \/ PcpTermina(c)
    <3>1. PICK p \in Programas, m \in Ordenes :
            /\ m.de = p /\ estado[p] = "cpu"
            /\ \A q \in Programas :
                  Flujo(q)' = IF q = fd[pcb[p].socket] /\ Conectado(q) THEN Append(Flujo(q), m)
                              ELSE Flujo(q)
      BY <2>2, FlujosPcp
    <3>2. QED
      BY <3>1, IgualEsMenos, SinOrdenesSigue
  <2>3. QED
    BY <2>1, <2>2, FlujosQuietos
<1>6. QED
  BY <1>1, <1>2, <1>3, <1>4, <1>5 DEF GuionBien

\* Every step keeps what is known of the scripts.
LEMMA GuionesPaso ==
    ASSUME Tipos, Tipos', Conexion, Guiones, Canales, Cpus, Lineas, Next
    PROVE  Guiones'
<1>1. \A x \in Programas : GuionBien(x)'
  BY GuionesPrograma, GuionesPlp, GuionesCpu DEF Next, Avanza
<1>2. QED
  BY <1>1 DEF Guiones, GuionBien

-----------------------------------------------------------------------------
(* The sockets *)

\* What is on its way to a program was, or the program is there to read it.
LEMMA HaciaEnvio ==
    ASSUME Tipos, NEW s \in Sockets, NEW m \in Ordenes, EnviarMensaje(s, m), NEW q \in Programas,
           hacia'[q] # <<>>
    PROVE  hacia[q] # <<>> \/ Conectado(q)
<1>1. hacia \in [Programas -> Seq(Ordenes)]
  BY DEF Tipos
<1>2. CASE hacia' = hacia
  BY <1>2
<1>3. CASE /\ fd[s] \in Programas /\ Conectado(fd[s])
           /\ hacia' = [hacia EXCEPT ![fd[s]] = Append(hacia[fd[s]], m)]
  <2>1. CASE q = fd[s]
    BY <1>3, <2>1
  <2>2. CASE q # fd[s]
    BY <1>1, <1>3, <2>2
  <2>3. QED
    BY <2>1, <2>2
<1>4. QED
  BY <1>2, <1>3, Envio

\* A program that connects has no socket in the kernel; one that leaves keeps it.
LEMMA ConexionPrograma ==
    ASSUME Tipos, Tipos', Conexion, Guiones, NEW p \in Programas,
           Conecta(p) \/ EnviarDatos(p) \/ Abandona(p) \/ ProgRecibe(p) \/ ProgRecibeRoto(p)
    PROVE  Conexion'
<1>1. /\ plp' = plp /\ fd' = fd /\ atendidos' = atendidos /\ estado' = estado /\ pcb' = pcb
      /\ programa \in [Programas -> {"fuera", "envia", "recibe", "termino", "salio"}]
      /\ hacia \in [Programas -> Seq(Ordenes)]
  BY DEF Conecta, EnviarDatos, Abandona, ProgRecibe, ProgRecibeRoto, descriptores, procesos, Tipos
<1>2. CASE Conecta(p)
  <2>1. programa' = [programa EXCEPT ![p] = "envia"] /\ programa[p] = "fuera" /\ hacia' = hacia
    BY <1>2 DEF Conecta
  <2>2. estado[p] = "no" /\ p \notin atendidos
    BY <2>1 DEF Guiones, Nuevo, Conexion
  <2>3. \A q \in Programas : q # p => Conectado(q)' = Conectado(q) /\ programa'[q] = programa[q]
    BY <1>1, <2>1 DEF Conectado
  <2>4. Conectado(p)'
    BY <1>1, <2>1 DEF Conectado
  <2>5. atendidos \subseteq Programas
    BY DEF Tipos
  <2>6. QED
    BY <1>1, <2>1, <2>2, <2>3, <2>4, <2>5 DEF Conexion
<1>3. CASE ~ Conecta(p)
  <2>1. programa[p] # "fuera" /\ Conectado(p)
    BY <1>3 DEF EnviarDatos, Abandona, ProgRecibe, ProgRecibeRoto, Conectado
  <2>2. \/ programa' = programa \/ programa' = [programa EXCEPT ![p] = "recibe"]
        \/ programa' = [programa EXCEPT ![p] = "salio"] \/ programa' = [programa EXCEPT ![p] = "termino"]
    BY <1>3 DEF EnviarDatos, Abandona, ProgRecibe, ProgRecibeRoto, Obedece
  <2>3. programa'[p] # "fuera" /\ \A q \in Programas : q # p => programa'[q] = programa[q]
    BY <1>1, <2>1, <2>2
  <2>4. \A q \in Programas : (programa'[q] = "fuera" => programa[q] = "fuera")
                             /\ (Conectado(q)' => Conectado(q))
    BY <2>1, <2>3 DEF Conectado
  <2>5. ASSUME NEW q \in Programas, hacia'[q] # <<>>
        PROVE  Conectado(q)'
    <3>1. CASE q # p
      <4>1. hacia'[q] = hacia[q]
        <5>1. \/ hacia' = hacia \/ hacia' = [hacia EXCEPT ![p] = <<>>]
              \/ hacia' = [hacia EXCEPT ![p] = Tail(@)]
          BY <1>3 DEF EnviarDatos, Abandona, ProgRecibe, ProgRecibeRoto, Obedece
        <5>2. QED
          BY <1>1, <3>1, <5>1
      <4>2. QED
        BY <2>3, <2>5, <3>1, <4>1 DEF Conexion, Conectado
    <3>2. CASE q = p
      <4>1. hacia' # [hacia EXCEPT ![p] = <<>>]
        BY <1>1, <2>5, <3>2
      <4>2. programa' = programa \/ programa' = [programa EXCEPT ![p] = "recibe"]
        BY <1>3, <4>1 DEF EnviarDatos, Abandona, ProgRecibe, ProgRecibeRoto, Obedece
      <4>3. QED
        BY <1>1, <2>1, <3>2, <4>2 DEF Conectado
    <3>3. QED
      BY <3>1, <3>2
  <2>6. atendidos \subseteq Programas
    BY DEF Tipos
  <2>7. QED
    BY <1>1, <2>4, <2>5, <2>6 DEF Conexion
<1>4. QED
  BY <1>2, <1>3

\* accept gives a free socket to a program without one, and close is only for
\* that of a program that left.
LEMMA ConexionPlp ==
    ASSUME Tipos, Tipos', Conexion, Guiones, Lineas,
           \/ \E p \in Programas : Acepta(p)
           \/ \E c \in CPUs : AceptaCpu(c)
           \/ \E s \in Sockets : PlpLee(s) \/ PlpCierra(s)
           \/ PlpRecibe \/ PlpAtiende
    PROVE  Conexion'
<1>0. /\ fd \in [Sockets -> Programas \cup CPUs \cup {Nada}] /\ Nada \notin Programas
      /\ atendidos \subseteq Programas
  BY SupuestosMensajes DEF Tipos
<1>1. programa' = programa
  BY DEF Acepta, AceptaCpu, PlpLee, PlpCierra, PlpRecibe, PlpAtiende, red
<1>2. \A q \in Programas : (Conectado(q)' <=> Conectado(q))
  BY <1>1 DEF Conectado
<1>3. ASSUME NEW p \in Programas, Acepta(p)
      PROVE  Conexion'
  <2>1. PICK k \in Sockets : fd[k] = Nada /\ fd' = [fd EXCEPT ![k] = p]
    BY <1>3, LibreTipo DEF Acepta
  <2>2. /\ atendidos' = atendidos \cup {p} /\ p \notin atendidos /\ programa[p] # "fuera"
        /\ plp = Nada /\ plp' = Nada /\ estado' = estado /\ pcb' = pcb /\ hacia' = hacia
    BY <1>3 DEF Acepta, EnSelect, procesos
  <2>3. fd'[k] = p /\ \A s \in Sockets : s # k => fd'[s] = fd[s]
    BY <1>0, <2>1
  <2>4. \A s \in Sockets : fd[s] # p
    BY <1>0, <2>2 DEF Conexion
  <2>5. \A s, t \in Sockets : fd'[s] # Nada /\ fd'[s] = fd'[t] => s = t
    BY <2>3, <2>4 DEF Conexion
  <2>6. \A s \in Sockets : fd'[s] \in Programas => fd'[s] \in atendidos'
    BY <2>2, <2>3 DEF Conexion
  <2>7. ASSUME NEW q \in atendidos'
        PROVE  programa'[q] # "fuera" /\ (Conectado(q)' => \E s \in Sockets : fd'[s] = q)
    <3>1. CASE q = p
      BY <1>1, <2>2, <2>3, <3>1
    <3>2. CASE q # p
      <4>1. q \in atendidos /\ q \in Programas /\ q # Nada
        BY <1>0, <2>2, <3>2
      <4>2. programa[q] # "fuera" /\ (Conectado(q) => \E s \in Sockets : fd[s] = q)
        BY <4>1 DEF Conexion
      <4>3. QED
        BY <1>1, <1>2, <2>1, <2>3, <4>1, <4>2
    <3>3. QED
      BY <3>1, <3>2
  <2>8. ASSUME NEW q \in Programas, estado[q] # "no", Conectado(q)
        PROVE  fd'[pcb[q].socket] = q
    <3>1. pcb[q].socket \in Sockets /\ fd[pcb[q].socket] = q
      BY <2>8 DEF Conexion, Lineas, Pcb
    <3>2. QED
      BY <1>0, <2>1, <2>3, <3>1
  <2>9. QED
    BY <1>1, <1>2, <2>2, <2>5, <2>6, <2>7, <2>8 DEF Conexion
<1>4. ASSUME NEW s \in Sockets, PlpLee(s)
      PROVE  Conexion'
  <2>1. /\ fd' = fd /\ atendidos' = atendidos /\ estado' = estado /\ pcb' = pcb /\ hacia' = hacia
        /\ plp'.socket = s /\ fd[s] \in Programas
    BY <1>4 DEF PlpLee, procesos
  <2>2. fd'[plp'.socket] \in Programas
    BY <2>1
  <2>3. QED
    BY <1>0, <1>1, <1>2, <2>1, <2>2 DEF Conexion
<1>5. ASSUME NEW s \in Sockets, PlpCierra(s)
      PROVE  Conexion'
  <2>1. /\ fd' = [fd EXCEPT ![s] = Nada] /\ SeFue(fd[s]) /\ plp = Nada /\ plp' = Nada
        /\ atendidos' = atendidos /\ estado' = estado /\ pcb' = pcb /\ hacia' = hacia
    BY <1>5 DEF PlpCierra, EnSelect, procesos
  <2>2. ~ Conectado(fd[s])
    BY <2>1 DEF SeFue, Conectado
  <2>3. fd'[s] = Nada /\ \A t \in Sockets : t # s => fd'[t] = fd[t]
    BY <1>0, <2>1
  <2>4. \A q \in Programas : \A t \in Sockets : Conectado(q) /\ fd[t] = q => fd'[t] = q
    BY <2>2, <2>3
  <2>5. \A t, u \in Sockets : fd'[t] # Nada /\ fd'[t] = fd'[u] => t = u
    BY <2>3 DEF Conexion
  <2>6. \A t \in Sockets : fd'[t] \in Programas => fd'[t] \in atendidos'
    BY <1>0, <2>1, <2>3 DEF Conexion
  <2>7. ASSUME NEW q \in atendidos'
        PROVE  programa'[q] # "fuera" /\ (Conectado(q)' => \E t \in Sockets : fd'[t] = q)
    <3>1. q \in Programas /\ programa[q] # "fuera" /\ (Conectado(q) => \E t \in Sockets : fd[t] = q)
      BY <1>0, <2>1, <2>7 DEF Conexion
    <3>2. QED
      BY <1>1, <1>2, <2>4, <3>1
  <2>8. ASSUME NEW q \in Programas, estado[q] # "no", Conectado(q)
        PROVE  fd'[pcb[q].socket] = q
    <3>1. pcb[q].socket \in Sockets /\ fd[pcb[q].socket] = q
      BY <2>8 DEF Conexion, Lineas, Pcb
    <3>2. QED
      BY <2>4, <2>8, <3>1
  <2>9. QED
    BY <1>1, <1>2, <2>1, <2>5, <2>6, <2>7, <2>8 DEF Conexion
<1>6. CASE PlpRecibe
  <2>1. /\ fd' = fd /\ atendidos' = atendidos /\ estado' = estado /\ pcb' = pcb /\ hacia' = hacia
    BY <1>6 DEF PlpRecibe, procesos
  <2>2. plp # Nada /\ plp'.socket = plp.socket
    <3>1. plp \in Lectura /\ plp # Nada
      BY <1>6 DEF PlpRecibe, Tipos
    <3>2. \E x, y : plp' = [plp EXCEPT !.faltan = x, !.trozos = y]
      BY <1>6 DEF PlpRecibe
    <3>3. QED
      BY <3>1, <3>2 DEF Lectura
  <2>3. QED
    BY <1>0, <1>1, <1>2, <2>1, <2>2 DEF Conexion
<1>7. CASE PlpAtiende
  <2>1. PICK p \in Programas : p = fd[plp.socket] /\ plp.socket \in Sockets
    BY <1>7, PlpHabla
  <2>2. fd' = fd /\ atendidos' = atendidos /\ plp' = Nada
    BY <1>7 DEF PlpAtiende
  <2>3. \/ pcb' = pcb /\ estado' = estado
        \/ /\ pcb' = [pcb EXCEPT ![p] = [socket |-> plp.socket, linea |-> 1]]
           /\ estado' = [estado EXCEPT ![p] = "ready"]
    BY <1>7, <2>1 DEF PlpAtiende, Admite, Rechaza
  <2>4. ASSUME NEW q \in Programas, estado'[q] # "no", Conectado(q)
        PROVE  fd[pcb'[q].socket] = q
    <3>1. CASE estado'[q] = estado[q] /\ pcb'[q] = pcb[q]
      BY <2>4, <3>1 DEF Conexion
    <3>2. CASE q = p /\ pcb'[q] = [socket |-> plp.socket, linea |-> 1]
      BY <2>1, <3>2
    <3>3. pcb \in [Programas -> Pcb \cup {Nada}] /\ DOMAIN estado = Programas
      BY DEF Tipos
    <3>4. QED
      BY <2>3, <3>1, <3>2, <3>3
  <2>5. ASSUME NEW q \in Programas, hacia'[q] # <<>>
        PROVE  Conectado(q)
    <3>1. hacia' = hacia \/ \E m \in Ordenes : EnviarMensaje(plp.socket, m)
      <4>1. Orden("INFORMAR", p, 0) \in Ordenes /\ Orden("FINALIZAR", p, 0) \in Ordenes
        BY OrdenTipo
      <4>2. QED
        BY <1>7, <2>1, <4>1 DEF PlpAtiende, Admite, Rechaza
    <3>2. hacia[q] # <<>> \/ Conectado(q)
      BY <2>1, <2>5, <3>1, HaciaEnvio
    <3>3. QED
      BY <3>2 DEF Conexion
  <2>6. QED
    BY <1>0, <1>1, <1>2, <2>2, <2>4, <2>5 DEF Conexion
<1>8. ASSUME NEW c \in CPUs, AceptaCpu(c)
      PROVE  Conexion'
  <2>1. /\ atendidos' = atendidos /\ plp' = plp /\ estado' = estado /\ pcb' = pcb /\ hacia' = hacia
        /\ \A s \in Sockets, q \in Programas : fd'[s] = q <=> fd[s] = q
    BY <1>8, AceptaCpuHace
  <2>2. PICK k \in Sockets :
          /\ fd[k] = Nada /\ fd'[k] = c /\ \A s \in Sockets : s # k => fd'[s] = fd[s]
          /\ \A s \in Sockets : fd[s] # c
    BY <1>8, AceptaCpuHace
  <2>3. \A s, t \in Sockets : fd'[s] # Nada /\ fd'[s] = fd'[t] => s = t
    BY <2>2 DEF Conexion
  <2>4. \A s \in Sockets : fd'[s] \in Programas => fd'[s] \in atendidos'
    BY <2>1 DEF Conexion
  <2>5. \A q \in atendidos' :
          programa'[q] # "fuera" /\ (Conectado(q)' => \E s \in Sockets : fd'[s] = q)
    BY <1>0, <1>1, <1>2, <2>1 DEF Conexion
  <2>6. plp' # Nada => fd'[plp'.socket] \in Programas
    <3>1. plp # Nada => plp.socket \in Sockets
      BY DEF Tipos, Lectura
    <3>2. QED
      BY <2>1, <3>1 DEF Conexion
  <2>7. ASSUME NEW q \in Programas, estado[q] # "no", Conectado(q)
        PROVE  fd'[pcb[q].socket] = q
    <3>1. pcb[q].socket \in Sockets /\ fd[pcb[q].socket] = q
      BY <2>7 DEF Conexion, Lineas, Pcb
    <3>2. QED
      BY <2>1, <3>1
  <2>8. QED
    BY <1>2, <2>1, <2>3, <2>4, <2>5, <2>6, <2>7 DEF Conexion
<1>9. QED
  BY <1>3, <1>4, <1>5, <1>6, <1>7, <1>8

\* What a step of a CPU or of the PCP leaves alone.
LEMMA CpuQuieto ==
    ASSUME Tipos, Canales, Cpus, Lineas, NEW c \in CPUs,
           \/ \E p \in Programas : Despacha(c, p)
           \/ Imprimir(c) \/ ImprimirTexto(c) \/ EnviarPcbProcesado(c)
           \/ PcpImprime(c) \/ PcpQuantum(c) \/ PcpTermina(c)
    PROVE  /\ programa' = programa /\ fd' = fd /\ atendidos' = atendidos /\ plp' = plp
           /\ recibidos' = recibidos /\ rotos' = rotos
           /\ \A q \in Programas : estado'[q] = "no" <=> estado[q] = "no"
           /\ \A q \in Programas : estado[q] # "no" => pcb'[q].socket = pcb[q].socket
           /\ \A q \in Programas : hacia'[q] # <<>> => hacia[q] # <<>> \/ Conectado(q)
<1>1. /\ programa' = programa /\ fd' = fd /\ atendidos' = atendidos /\ plp' = plp
      /\ recibidos' = recibidos /\ rotos' = rotos
  BY DEF Despacha, Imprimir, ImprimirTexto, Imprime, EnviarPcbProcesado, PcpImprime, PcpQuantum,
         PcpTermina, PcpLee, red, descriptores
<1>2. ASSUME NEW q \in Programas
      PROVE  estado'[q] = "no" <=> estado[q] = "no"
  <2>1. CASE estado' = estado
    BY <2>1
  <2>2. CASE \E p \in Programas : Despacha(c, p)
    BY <2>2, DespachaEstado DEF Tipos
  <2>3. CASE PcpQuantum(c) \/ PcpTermina(c)
    <3>1. PICK p \in Programas : p = Head(canal[c]).proc /\ estado[p] = "cpu"
      BY <2>3, PaqueteDe DEF PcpQuantum, PcpTermina, PcpLee
    <3>2. estado' = [estado EXCEPT ![p] = "ready"] \/ estado' = [estado EXCEPT ![p] = "fin"]
      BY <2>3, <3>1 DEF PcpQuantum, PcpTermina
    <3>3. QED
      BY <3>1, <3>2 DEF Tipos
  <2>4. QED
    BY <2>1, <2>2, <2>3 DEF Imprimir, ImprimirTexto, Imprime, EnviarPcbProcesado, PcpImprime
<1>3. ASSUME NEW q \in Programas, estado[q] # "no"
      PROVE  pcb'[q].socket = pcb[q].socket
  <2>1. CASE pcb' = pcb
    BY <2>1
  <2>2. CASE Imprimir(c) \/ ImprimirTexto(c)
    <3>1. cpu[c] # Nada /\ pcb' = [pcb EXCEPT ![cpu[c].proc].linea = @ + 1]
      BY <2>2 DEF Imprimir, ImprimirTexto, Imprime
    <3>2. pcb[q] \in Pcb
      BY <1>3 DEF Lineas
    <3>3. QED
      BY <3>1, <3>2 DEF Pcb, Tipos
  <2>3. QED
    BY <2>1, <2>2 DEF Despacha, EnviarPcbProcesado, PcpImprime, PcpQuantum, PcpTermina, PcpLee
<1>4. ASSUME NEW q \in Programas, hacia'[q] # <<>>
      PROVE  hacia[q] # <<>> \/ Conectado(q)
  <2>1. CASE hacia' = hacia
    BY <1>4, <2>1
  <2>2. CASE PcpImprime(c) \/ PcpTermina(c)
    <3>1. canal[c] # <<>>
      BY <2>2 DEF PcpImprime, PcpTermina, PcpLee
    <3>2. PICK p \in Programas, m \in Paquete : p = m.proc /\ m = Head(canal[c]) /\ pcb[p] \in Pcb
      BY <3>1, PaqueteDe
    <3>3. pcb[p].socket \in Sockets /\ m.linea \in Nat
      BY <3>2 DEF Pcb, Paquete
    <3>4. Orden("INFORMAR", p, m.linea) \in Ordenes /\ Orden("FINALIZAR", p, 0) \in Ordenes
      BY <3>3, OrdenTipo
    <3>5. \/ EnviarMensaje(pcb[p].socket, Orden("INFORMAR", p, m.linea))
          \/ EnviarMensaje(pcb[p].socket, Orden("FINALIZAR", p, 0))
      BY <2>2, <3>2 DEF PcpImprime, PcpTermina
    <3>6. QED
      BY <1>4, <3>3, <3>4, <3>5, HaciaEnvio
  <2>3. QED
    BY <2>1, <2>2 DEF Despacha, Imprimir, ImprimirTexto, Imprime, EnviarPcbProcesado, PcpQuantum
<1>5. QED
  BY <1>1, <1>2, <1>3, <1>4

\* Every step keeps the sockets.
LEMMA ConexionPaso ==
    ASSUME Tipos, Tipos', Conexion, Guiones, Canales, Cpus, Lineas, Next
    PROVE  Conexion'
<1>1. ASSUME NEW c \in CPUs,
             \/ \E p \in Programas : Despacha(c, p)
             \/ Imprimir(c) \/ ImprimirTexto(c) \/ EnviarPcbProcesado(c)
             \/ PcpImprime(c) \/ PcpQuantum(c) \/ PcpTermina(c)
      PROVE  Conexion'
  <2>1. /\ programa' = programa /\ fd' = fd /\ atendidos' = atendidos /\ plp' = plp
        /\ \A q \in Programas : estado'[q] = "no" <=> estado[q] = "no"
        /\ \A q \in Programas : estado[q] # "no" => pcb'[q].socket = pcb[q].socket
        /\ \A q \in Programas : hacia'[q] # <<>> => hacia[q] # <<>> \/ Conectado(q)
    BY <1>1, CpuQuieto
  <2>2. \A q \in Programas : (Conectado(q)' <=> Conectado(q))
    BY <2>1 DEF Conectado
  <2>3. atendidos \subseteq Programas
    BY DEF Tipos
  <2>4. QED
    BY <2>1, <2>2, <2>3 DEF Conexion
<1>2. QED
  BY <1>1, ConexionPrograma, ConexionPlp DEF Next, Avanza

-----------------------------------------------------------------------------
(* What each step of a CPU does to the processes of the CPUs *)

\* The process of a CPU is one.
LEMMA TieneUno ==
    ASSUME Tipos, NEW c \in CPUs, NEW p, NEW q, Tiene(c, p), Tiene(c, q)
    PROVE  p = q
BY DEF Tiene

\* A CPU that does nothing has the process it had.
LEMMA TieneIgual ==
    ASSUME NEW d, NEW q, cpu'[d] = cpu[d], canal'[d] = canal[d]
    PROVE  Tiene(d, q)' <=> Tiene(d, q)
BY DEF Tiene

\* A CPU without packets to be read gets a process that was ready.
LEMMA DespachaHace ==
    ASSUME Tipos, NEW c \in CPUs, NEW p \in Programas, Despacha(c, p), trama[c] = "bien"
    PROVE  /\ cpu[c] = Nada /\ canal[c] = <<>> /\ canal' = canal /\ pcb' = pcb
           /\ cpu'[c] # Nada /\ cpu'[c].proc = p /\ \A d \in CPUs : d # c => cpu'[d] = cpu[d]
           /\ estado[p] = "ready" /\ estado' = [estado EXCEPT ![p] = "cpu"]
           /\ \A q : ~ Tiene(c, q)
           /\ \A d \in CPUs, q \in Programas :
                 Tiene(d, q)' <=> IF d = c THEN q = p ELSE Tiene(d, q)
<1>1. /\ cpu[c] = Nada /\ canal[c] = <<>> /\ canal' = canal /\ pcb' = pcb /\ estado[p] = "ready"
      /\ estado' = [estado EXCEPT ![p] = "cpu"]
      /\ cpu' = [cpu EXCEPT ![c] = [proc |-> p, resta |-> Quantum]]
  BY DEF Despacha, Recibe
<1>2. [proc |-> p, resta |-> Quantum] # Nada
  <2>1. [proc |-> p, resta |-> Quantum] \in [proc : Programas, resta : Nat]
    BY SupuestosMensajes
  <2>2. Nada \notin [proc : Programas, resta : Nat]
    BY SupuestosMensajes
  <2>3. QED
    BY <2>1, <2>2
<1>3. /\ cpu'[c] = [proc |-> p, resta |-> Quantum]
      /\ \A d \in CPUs : d # c => cpu'[d] = cpu[d]
  BY <1>1 DEF Tipos
<1>4. cpu'[c] # Nada /\ cpu'[c].proc = p
  BY <1>2, <1>3
<1>5. \A q : ~ Tiene(c, q)
  BY <1>1 DEF Tiene
<1>6. ASSUME NEW d \in CPUs, NEW q \in Programas
      PROVE  Tiene(d, q)' <=> IF d = c THEN q = p ELSE Tiene(d, q)
  <2>1. CASE d = c
    BY <1>4, <2>1 DEF Tiene
  <2>2. CASE d # c
    BY <1>1, <1>3, <2>2, TieneIgual
  <2>3. QED
    BY <2>1, <2>2
<1>7. QED
  BY <1>1, <1>3, <1>4, <1>5, <1>6

\* The PCB sent to one that reads out of step is lost, and its process with it.
LEMMA DespachaPierde ==
    ASSUME NEW c, NEW p, Despacha(c, p), trama[c] # "bien"
    PROVE  /\ cpu' = cpu /\ canal' = canal /\ pcb' = pcb /\ estado[p] = "ready"
           /\ estado' = [estado EXCEPT ![p] = "perdido"]
           /\ \A d \in CPUs, q \in Programas : Tiene(d, q)' <=> Tiene(d, q)
BY DEF Despacha, Recibe, Tiene

\* A packet about p goes to the end of what CPU c has sent.
LEMMA MandaHace ==
    ASSUME Tipos, NEW c \in CPUs, NEW p \in Programas, pcb[p] \in Pcb,
           NEW t \in {"imprimir", "imprimirTexto", "Q", "F"}, Manda(c, t, p)
    PROVE  \E m \in Paquete :
              /\ m.tipo = t /\ m.proc = p /\ m.linea = pcb[p].linea
              /\ canal'[c] = Append(canal[c], m) /\ \A d \in CPUs : d # c => canal'[d] = canal[d]
<1> DEFINE r == [tipo |-> t, proc |-> p, linea |-> pcb[p].linea]
<1>1. r \in Paquete /\ r.tipo = t /\ r.proc = p /\ r.linea = pcb[p].linea
  BY DEF Paquete, Pcb
<1>2. canal' = [canal EXCEPT ![c] = Append(canal[c], r)]
  BY DEF Manda
<1> HIDE DEF r
<1>3. canal'[c] = Append(canal[c], r) /\ \A d \in CPUs : d # c => canal'[d] = canal[d]
  BY <1>2 DEF Tipos
<1>4. QED
  BY <1>1, <1>3

\* A CPU that prints sends the line its process is at, and the process goes on.
LEMMA ImprimeHace ==
    ASSUME Tipos, Cpus, Lineas, NEW c \in CPUs, NEW t \in {"imprimir", "imprimirTexto"}, Imprime(c, t)
    PROVE  \E p \in Programas, m \in Paquete :
              /\ m.tipo = t /\ m.proc = p /\ m.linea = pcb[p].linea /\ Tiene(c, p)
              /\ pcb[p] \in Pcb /\ pcb[p].linea \in 1..Len(Guion[p])
              /\ cpu[c] # Nada /\ cpu'[c] # Nada /\ \A d \in CPUs : d # c => cpu'[d] = cpu[d]
              /\ canal'[c] = Append(canal[c], m) /\ \A d \in CPUs : d # c => canal'[d] = canal[d]
              /\ pcb'[p] \in Pcb /\ pcb'[p].linea = pcb[p].linea + 1
              /\ \A q \in Programas : q # p => pcb'[q] = pcb[q]
              /\ estado' = estado
              /\ \A d \in CPUs, q \in Programas : Tiene(d, q)' <=> Tiene(d, q)
<1>1. cpu[c] # Nada
  BY DEF Imprime
<1>2. PICK p \in Programas : p = cpu[c].proc
  BY <1>1, CpuTiene
<1>3. /\ cpu[c] \in Corrida /\ Tiene(c, p) /\ pcb[p] \in Pcb /\ pcb[p].linea \in 1..Len(Guion[p]) + 1
  BY <1>1, <1>2, CpuTiene
<1>4. /\ cpu[c].resta > 0 /\ pcb[p].linea <= Len(Guion[p]) /\ Manda(c, t, p)
      /\ pcb' = [pcb EXCEPT ![p].linea = @ + 1] /\ cpu' = [cpu EXCEPT ![c].resta = @ - 1]
      /\ estado' = estado
  BY <1>2 DEF Imprime
<1>5. PICK m \in Paquete :
        /\ m.tipo = t /\ m.proc = p /\ m.linea = pcb[p].linea
        /\ canal'[c] = Append(canal[c], m) /\ \A d \in CPUs : d # c => canal'[d] = canal[d]
  BY <1>3, <1>4, MandaHace
<1>6. pcb[p].linea \in 1..Len(Guion[p])
  <2>1. Guion[p] \in Seq({"imprimir", "imprimirTexto"})
    BY SupuestosMensajes
  <2>2. Len(Guion[p]) \in Nat
    BY <2>1, LenProperties
  <2>3. QED
    BY <1>3, <1>4, <2>2
<1>7. /\ pcb'[p] \in Pcb /\ pcb'[p].linea = pcb[p].linea + 1
      /\ \A q \in Programas : q # p => pcb'[q] = pcb[q]
  <2>1. pcb'[p] = [pcb[p] EXCEPT !.linea = @ + 1]
    BY <1>4 DEF Tipos
  <2>2. pcb'[p] \in Pcb /\ pcb'[p].linea = pcb[p].linea + 1
    BY <1>3, <2>1 DEF Pcb
  <2>3. QED
    BY <1>4, <2>2 DEF Tipos
<1>8. cpu'[c] # Nada /\ cpu'[c].proc = p /\ \A d \in CPUs : d # c => cpu'[d] = cpu[d]
  <2>1. cpu'[c] = [cpu[c] EXCEPT !.resta = @ - 1]
    BY <1>4 DEF Tipos
  <2>2. cpu[c].resta - 1 \in Nat
    BY <1>3, <1>4 DEF Corrida
  <2>3. cpu'[c] \in Corrida /\ cpu'[c].proc = p
    BY <1>2, <1>3, <2>1, <2>2 DEF Corrida
  <2>4. Nada \notin Corrida
    BY SupuestosMensajes DEF Corrida
  <2>5. QED
    BY <1>4, <2>3, <2>4 DEF Tipos
<1>9. ASSUME NEW d \in CPUs, NEW q \in Programas
      PROVE  Tiene(d, q)' <=> Tiene(d, q)
  <2>1. CASE d = c
    BY <1>1, <1>2, <1>8, <2>1 DEF Tiene
  <2>2. CASE d # c
    BY <1>5, <1>8, <2>2, TieneIgual
  <2>3. QED
    BY <2>1, <2>2
<1>10. QED
  BY <1>1, <1>3, <1>4, <1>5, <1>6, <1>7, <1>8, <1>9

\* A CPU that sends its PCB back has its process until the PCP reads it.
LEMMA EnviarPcbHace ==
    ASSUME Tipos, Cpus, Lineas, NEW c \in CPUs, EnviarPcbProcesado(c)
    PROVE  \E p \in Programas, m \in Paquete :
              /\ m.tipo \in {"Q", "F"} /\ m.proc = p /\ Tiene(c, p)
              /\ m.tipo = "F" => pcb[p].linea = Len(Guion[p]) + 1
              /\ cpu[c] # Nada /\ cpu'[c] = Nada /\ \A d \in CPUs : d # c => cpu'[d] = cpu[d]
              /\ canal'[c] = Append(canal[c], m) /\ \A d \in CPUs : d # c => canal'[d] = canal[d]
              /\ estado' = estado /\ pcb' = pcb
              /\ \A d \in CPUs, q \in Programas : Tiene(d, q)' <=> Tiene(d, q)
<1>1. cpu[c] # Nada
  BY DEF EnviarPcbProcesado
<1>2. PICK p \in Programas : p = cpu[c].proc
  BY <1>1, CpuTiene
<1>3. Tiene(c, p) /\ pcb[p] \in Pcb /\ pcb[p].linea \in 1..Len(Guion[p]) + 1
  BY <1>1, <1>2, CpuTiene
<1>4. /\ Manda(c, "Q", p) \/ (pcb[p].linea > Len(Guion[p]) /\ Manda(c, "F", p))
      /\ cpu' = [cpu EXCEPT ![c] = Nada] /\ estado' = estado /\ pcb' = pcb
  BY <1>2 DEF EnviarPcbProcesado
<1>5. PICK m \in Paquete :
        /\ m.tipo \in {"Q", "F"} /\ m.proc = p /\ (m.tipo = "F" => pcb[p].linea > Len(Guion[p]))
        /\ canal'[c] = Append(canal[c], m) /\ \A d \in CPUs : d # c => canal'[d] = canal[d]
  <2>1. CASE Manda(c, "Q", p)
    BY <1>3, <2>1, MandaHace
  <2>2. CASE pcb[p].linea > Len(Guion[p]) /\ Manda(c, "F", p)
    BY <1>3, <2>2, MandaHace
  <2>3. QED
    BY <1>4, <2>1, <2>2
<1>6. m.tipo = "F" => pcb[p].linea = Len(Guion[p]) + 1
  <2>1. Guion[p] \in Seq({"imprimir", "imprimirTexto"})
    BY SupuestosMensajes
  <2>2. Len(Guion[p]) \in Nat
    BY <2>1, LenProperties
  <2>3. QED
    BY <1>3, <1>5, <2>2
<1>7. cpu'[c] = Nada /\ \A d \in CPUs : d # c => cpu'[d] = cpu[d]
  BY <1>4 DEF Tipos
<1>8. canal'[c] # <<>> /\ canal'[c][Len(canal'[c])] = m
  <2>1. PICK s \in Seq(Paquete) : s = canal[c]
    BY DEF Tipos
  <2>2. Append(s, m) # <<>> /\ Append(s, m)[Len(Append(s, m))] = m
    BY AppendProperties
  <2>3. QED
    BY <1>5, <2>1, <2>2
<1>9. ASSUME NEW d \in CPUs, NEW q \in Programas
      PROVE  Tiene(d, q)' <=> Tiene(d, q)
  <2>1. CASE d = c
    BY <1>1, <1>2, <1>5, <1>7, <1>8, <2>1 DEF Tiene
  <2>2. CASE d # c
    BY <1>5, <1>7, <2>2, TieneIgual
  <2>3. QED
    BY <2>1, <2>2
<1>10. QED
  BY <1>1, <1>3, <1>4, <1>5, <1>6, <1>7, <1>9

\* The PCP reads a packet of c: a print leaves the process where it was, and the
\* PCB is the last.
LEMMA PcpLeeHace ==
    ASSUME Tipos, Canales, NEW c \in CPUs, PcpImprime(c) \/ PcpQuantum(c) \/ PcpTermina(c)
    PROVE  /\ canal[c] \in Seq(Paquete) /\ canal[c] # <<>> /\ canal'[c] = Tail(canal[c])
           /\ \A d \in CPUs : d # c => canal'[d] = canal[d]
           /\ cpu' = cpu /\ pcb' = pcb
           /\ PcpImprime(c) =>
                 /\ canal[c][1].tipo \notin {"Q", "F"}
                 /\ cpu[c] = Nada => Len(canal[c]) > 1
                 /\ estado' = estado
                 /\ \A d \in CPUs, q \in Programas : Tiene(d, q)' <=> Tiene(d, q)
           /\ ~ PcpImprime(c) =>
                 /\ cpu[c] = Nada /\ Len(canal[c]) = 1
                 /\ PcpTermina(c) => canal[c][1].tipo = "F"
                 /\ \A d \in CPUs, q \in Programas : Tiene(d, q)' <=> d # c /\ Tiene(d, q)
<1>1. /\ canal[c] # <<>> /\ canal' = [canal EXCEPT ![c] = Tail(@)] /\ cpu' = cpu /\ pcb' = pcb
      /\ PcpImprime(c) => Head(canal[c]).tipo \in {"imprimir", "imprimirTexto"} /\ estado' = estado
      /\ ~ PcpImprime(c) => Head(canal[c]).tipo \in {"Q", "F"}
      /\ PcpTermina(c) => Head(canal[c]).tipo = "F"
  BY DEF PcpImprime, PcpQuantum, PcpTermina, PcpLee
<1>2. canal[c] \in Seq(Paquete) /\ canal'[c] = Tail(canal[c])
      /\ \A d \in CPUs : d # c => canal'[d] = canal[d]
  BY <1>1 DEF Tipos
<1>3. PICK n \in Nat \ {0} : n = Len(canal[c])
  BY <1>1, <1>2, EmptySeq
<1>4. Head(canal[c]) = canal[c][1] /\ 1 \in 1..n
  BY <1>1, <1>3
<1>5. canal[c][1].tipo \in {"Q", "F"} <=> (cpu[c] = Nada /\ n = 1)
  BY <1>3, <1>4 DEF Canales
<1>6. \A d \in CPUs, q \in Programas : d # c => (Tiene(d, q)' <=> Tiene(d, q))
  BY <1>1, <1>2, TieneIgual
<1>7. Tail(canal[c]) \in Seq(Paquete) /\ Len(Tail(canal[c])) = n - 1
      /\ \A i \in 1..n - 1 : Tail(canal[c])[i] = canal[c][i + 1]
  BY <1>1, <1>2, <1>3, HeadTailProperties
<1>8. CASE PcpImprime(c)
  <2>1. canal[c][1].tipo \notin {"Q", "F"} /\ (cpu[c] = Nada => n > 1)
    <3>1. canal[c][1].tipo \in {"imprimir", "imprimirTexto"}
      BY <1>1, <1>4, <1>8
    <3>2. canal[c][1].tipo \notin {"Q", "F"}
      BY <3>1
    <3>3. ~ (cpu[c] = Nada /\ n = 1)
      BY <1>5, <3>2
    <3>4. QED
      BY <3>2, <3>3
  <2>2. ASSUME NEW q \in Programas
        PROVE  Tiene(c, q)' <=> Tiene(c, q)
    <3>1. CASE cpu[c] # Nada
      BY <1>1, <3>1 DEF Tiene
    <3>2. CASE cpu[c] = Nada
      <4>1. n - 1 \in 1..n - 1 /\ n - 1 + 1 = n
        BY <2>1, <3>2
      <4>2. canal'[c] # <<>> /\ canal'[c][Len(canal'[c])] = canal[c][Len(canal[c])]
        <5>1. Tail(canal[c])[n - 1] = canal[c][n]
          BY <1>7, <4>1
        <5>2. Len(Tail(canal[c])) # 0
          BY <1>7, <4>1
        <5>3. Tail(canal[c]) # <<>>
          BY <5>2, EmptySeq
        <5>4. QED
          BY <1>2, <1>3, <1>7, <5>1, <5>3
      <4>3. QED
        BY <1>1, <3>2, <4>2 DEF Tiene
    <3>3. QED
      BY <3>1, <3>2
  <2>3. QED
    BY <1>1, <1>2, <1>3, <1>6, <1>8, <2>1, <2>2
<1>9. CASE ~ PcpImprime(c)
  <2>1. cpu[c] = Nada /\ n = 1
    BY <1>1, <1>4, <1>5, <1>9
  <2>2. canal'[c] = <<>>
    <3>1. PICK s \in Seq(Paquete) : s = Tail(canal[c]) /\ Len(s) = n - 1
      BY <1>7
    <3>2. Len(s) = 0
      BY <2>1, <3>1
    <3>3. s = <<>>
      BY <3>2, EmptySeq
    <3>4. QED
      BY <1>2, <3>1, <3>3
  <2>3. \A q \in Programas : ~ Tiene(c, q)'
    BY <1>1, <2>1, <2>2 DEF Tiene
  <2>4. QED
    BY <1>1, <1>2, <1>3, <1>4, <1>6, <1>9, <2>1, <2>3
<1>10. QED
  BY <1>8, <1>9

\* What the programs and the PLP do to the processes: at most, one comes in.
LEMMA ProcesosFuera ==
    ASSUME Tipos, Conexion, Guiones,
           \/ \E p \in Programas : Conecta(p) \/ EnviarDatos(p) \/ Abandona(p) \/ ProgRecibe(p)
                                   \/ ProgRecibeRoto(p) \/ Acepta(p)
           \/ \E c \in CPUs : AceptaCpu(c)
           \/ \E s \in Sockets : PlpLee(s) \/ PlpCierra(s)
           \/ PlpRecibe \/ PlpAtiende
    PROVE  /\ cpu' = cpu /\ canal' = canal
           /\ \A d, q : Tiene(d, q)' <=> Tiene(d, q)
           /\ \A q \in Programas :
                 \/ estado'[q] = estado[q] /\ pcb'[q] = pcb[q]
                 \/ estado[q] = "no" /\ estado'[q] = "ready" /\ pcb'[q] \in Pcb /\ pcb'[q].linea = 1
<1>1. cpu' = cpu /\ canal' = canal
  BY DEF Conecta, EnviarDatos, Abandona, ProgRecibe, ProgRecibeRoto, Acepta, AceptaCpu, PlpLee, PlpCierra,
         PlpRecibe, PlpAtiende, procesos
<1>2. \A d, q : Tiene(d, q)' <=> Tiene(d, q)
  BY <1>1 DEF Tiene
<1>3. CASE ~ PlpAtiende
  <2>1. estado' = estado /\ pcb' = pcb
    BY <1>3 DEF Conecta, EnviarDatos, Abandona, ProgRecibe, ProgRecibeRoto, Acepta, AceptaCpu, PlpLee,
                PlpCierra, PlpRecibe, procesos
  <2>2. QED
    BY <1>1, <1>2, <2>1
<1>4. CASE PlpAtiende
  <2>1. PICK p \in Programas : p = fd[plp.socket] /\ plp.socket \in Sockets /\ estado[p] = "no"
    BY <1>4, PlpHabla
  <2>2. \/ pcb' = pcb /\ estado' = estado
        \/ /\ pcb' = [pcb EXCEPT ![p] = [socket |-> plp.socket, linea |-> 1]]
           /\ estado' = [estado EXCEPT ![p] = "ready"]
    BY <1>4, <2>1 DEF PlpAtiende, Admite, Rechaza
  <2>3. CASE pcb' = pcb /\ estado' = estado
    BY <1>1, <1>2, <2>3
  <2>4. CASE /\ pcb' = [pcb EXCEPT ![p] = [socket |-> plp.socket, linea |-> 1]]
             /\ estado' = [estado EXCEPT ![p] = "ready"]
    <3>1. PICK b \in Pcb : b = [socket |-> plp.socket, linea |-> 1] /\ b.linea = 1
      <4>1. [socket |-> plp.socket, linea |-> 1] \in Pcb
        BY <2>1 DEF Pcb
      <4>2. [socket |-> plp.socket, linea |-> 1].linea = 1
        OBVIOUS
      <4>3. QED
        BY <4>1, <4>2
    <3>2. pcb'[p] = b /\ estado'[p] = "ready"
      BY <2>4, <3>1 DEF Tipos
    <3>3. \A q \in Programas : q # p => pcb'[q] = pcb[q] /\ estado'[q] = estado[q]
      BY <2>4 DEF Tipos
    <3>4. QED
      BY <1>1, <1>2, <2>1, <3>1, <3>2, <3>3
  <2>5. QED
    BY <2>2, <2>3, <2>4
<1>5. QED
  BY <1>3, <1>4

\* When the PCP reads the PCB of a process, its CPU has it no more.
LEMMA PcpCambia ==
    ASSUME Tipos, Canales, Cpus, Lineas, NEW c \in CPUs, PcpQuantum(c) \/ PcpTermina(c)
    PROVE  \E p \in Programas :
              /\ p = Head(canal[c]).proc /\ Tiene(c, p) /\ estado[p] = "cpu"
              /\ PcpQuantum(c) => estado' = [estado EXCEPT ![p] = "ready"]
              /\ PcpTermina(c) => estado' = [estado EXCEPT ![p] = "fin"]
              /\ estado'[p] \in {"ready", "fin"} /\ \A q \in Programas : q # p => estado'[q] = estado[q]
              /\ pcb' = pcb /\ cpu' = cpu /\ cpu[c] = Nada
              /\ canal'[c] = <<>> /\ \A d \in CPUs : d # c => canal'[d] = canal[d]
              /\ \A d \in CPUs, q \in Programas : Tiene(d, q)' <=> d # c /\ Tiene(d, q)
<1>1. canal[c] # <<>>
  BY DEF PcpQuantum, PcpTermina, PcpLee
<1>2. PICK p \in Programas : p = Head(canal[c]).proc /\ Tiene(c, p) /\ estado[p] = "cpu"
  BY <1>1, PaqueteDe
<1>3. /\ PcpQuantum(c) => estado' = [estado EXCEPT ![p] = "ready"]
      /\ PcpTermina(c) => estado' = [estado EXCEPT ![p] = "fin"]
  BY <1>2 DEF PcpQuantum, PcpTermina
<1>4. estado'[p] \in {"ready", "fin"} /\ \A q \in Programas : q # p => estado'[q] = estado[q]
  BY <1>3 DEF Tipos
<1>5. ~ PcpImprime(c)
  BY DEF PcpImprime, PcpQuantum, PcpTermina, PcpLee
<1>6. /\ pcb' = pcb /\ cpu' = cpu /\ cpu[c] = Nada /\ Len(canal[c]) = 1
      /\ canal[c] \in Seq(Paquete) /\ canal'[c] = Tail(canal[c])
      /\ \A d \in CPUs : d # c => canal'[d] = canal[d]
      /\ \A d \in CPUs, q \in Programas : Tiene(d, q)' <=> d # c /\ Tiene(d, q)
  BY <1>5, PcpLeeHace
<1>7. canal'[c] = <<>>
  <2>1. PICK s \in Seq(Paquete) : s = canal[c] /\ Len(s) = 1
    BY <1>6
  <2>2. Tail(s) \in Seq(Paquete) /\ Len(Tail(s)) = 0
    BY <2>1
  <2>3. Tail(s) = <<>>
    BY <2>2, EmptySeq
  <2>4. QED
    BY <1>6, <2>1, <2>3
<1>8. QED
  BY <1>2, <1>3, <1>4, <1>6, <1>7

\* A process is in one CPU, or its PCB on its way, while its state says so.
LEMMA CpusPaso ==
    ASSUME Tipos, Conexion, Guiones, Canales, Cpus, Lineas, Next
    PROVE  Cpus'
<1>1. ASSUME \/ \E p \in Programas : Conecta(p) \/ EnviarDatos(p) \/ Abandona(p) \/ ProgRecibe(p)
                                     \/ ProgRecibeRoto(p) \/ Acepta(p)
             \/ \E c \in CPUs : AceptaCpu(c)
             \/ \E s \in Sockets : PlpLee(s) \/ PlpCierra(s)
             \/ PlpRecibe \/ PlpAtiende
      PROVE  Cpus'
  <2>1. /\ \A d, q : Tiene(d, q)' <=> Tiene(d, q)
        /\ \A q \in Programas : estado'[q] = "cpu" <=> estado[q] = "cpu"
    BY <1>1, ProcesosFuera
  <2>2. QED
    BY <2>1 DEF Cpus
<1>2. ASSUME NEW c \in CPUs, NEW p \in Programas, Despacha(c, p), trama[c] = "bien"
      PROVE  Cpus'
  <2>1. /\ estado[p] = "ready" /\ estado' = [estado EXCEPT ![p] = "cpu"]
        /\ \A q : ~ Tiene(c, q)
        /\ \A d \in CPUs, q \in Programas : Tiene(d, q)' <=> IF d = c THEN q = p ELSE Tiene(d, q)
    BY <1>2, DespachaHace
  <2>2. estado'[p] = "cpu" /\ \A q \in Programas : q # p => estado'[q] = estado[q]
    BY <2>1 DEF Tipos
  <2>3. \A d \in CPUs : ~ Tiene(d, p)
    BY <2>1 DEF Cpus
  <2>4. \A d \in CPUs, q \in Programas : Tiene(d, q)' => estado'[q] = "cpu"
    BY <2>1, <2>2 DEF Cpus
  <2>5. \A d, e \in CPUs, q \in Programas : Tiene(d, q)' /\ Tiene(e, q)' => d = e
    BY <2>1, <2>3 DEF Cpus
  <2>6. \A q \in Programas : estado'[q] = "cpu" => \E d \in CPUs : Tiene(d, q)'
    BY <2>1, <2>2 DEF Cpus
  <2>7. QED
    BY <2>4, <2>5, <2>6 DEF Cpus
<1>3. ASSUME NEW c \in CPUs, Imprimir(c) \/ ImprimirTexto(c) \/ EnviarPcbProcesado(c) \/ PcpImprime(c)
      PROVE  Cpus'
  <2>1. estado' = estado /\ \A d \in CPUs, q \in Programas : Tiene(d, q)' <=> Tiene(d, q)
    BY <1>3, ImprimeHace, EnviarPcbHace, PcpLeeHace DEF Imprimir, ImprimirTexto
  <2>2. QED
    BY <2>1 DEF Cpus
<1>4. ASSUME NEW c \in CPUs, PcpQuantum(c) \/ PcpTermina(c)
      PROVE  Cpus'
  <2>1. PICK p \in Programas :
          /\ Tiene(c, p) /\ estado[p] = "cpu" /\ estado'[p] \in {"ready", "fin"}
          /\ \A q \in Programas : q # p => estado'[q] = estado[q]
          /\ \A d \in CPUs, q \in Programas : Tiene(d, q)' <=> d # c /\ Tiene(d, q)
    BY <1>4, PcpCambia
  <2>2. \A d \in CPUs, q \in Programas : Tiene(d, q)' => estado'[q] = "cpu"
    BY <2>1 DEF Cpus
  <2>3. \A d, e \in CPUs, q \in Programas : Tiene(d, q)' /\ Tiene(e, q)' => d = e
    BY <2>1 DEF Cpus
  <2>4. ASSUME NEW q \in Programas, estado'[q] = "cpu"
        PROVE  \E d \in CPUs : Tiene(d, q)'
    <3>1. q # p /\ estado[q] = "cpu"
      BY <2>1, <2>4
    <3>2. PICK d \in CPUs : Tiene(d, q)
      BY <3>1 DEF Cpus
    <3>3. d # c
      BY <2>1, <3>1, <3>2, TieneUno
    <3>4. QED
      BY <2>1, <3>2, <3>3
  <2>5. QED
    BY <2>2, <2>3, <2>4 DEF Cpus
<1>5. ASSUME NEW c \in CPUs, NEW p \in Programas, Despacha(c, p), trama[c] # "bien"
      PROVE  Cpus'
  <2>1. /\ estado[p] = "ready" /\ estado' = [estado EXCEPT ![p] = "perdido"]
        /\ \A d \in CPUs, q \in Programas : Tiene(d, q)' <=> Tiene(d, q)
    BY <1>5, DespachaPierde
  <2>2. \A q \in Programas : estado'[q] = "cpu" <=> estado[q] = "cpu"
    BY <2>1 DEF Tipos
  <2>3. QED
    BY <2>1, <2>2 DEF Cpus
<1>6. QED
  BY <1>1, <1>2, <1>3, <1>4, <1>5 DEF Next, Avanza

\* A packet at the end of a sequence.
LEMMA Agregado ==
    ASSUME NEW S, NEW s \in Seq(S), NEW m \in S, NEW n \in Nat, n = Len(s)
    PROVE  /\ Append(s, m) \in Seq(S) /\ Len(Append(s, m)) = n + 1 /\ Append(s, m)[n + 1] = m
           /\ \A i \in 1..n : Append(s, m)[i] = s[i]
BY AppendProperties

\* A sequence without its head.
LEMMA Quitado ==
    ASSUME NEW S, NEW s \in Seq(S), NEW n \in Nat \ {0}, n = Len(s)
    PROVE  /\ Tail(s) \in Seq(S) /\ Len(Tail(s)) = n - 1
           /\ \A i \in 1..n - 1 : Tail(s)[i] = s[i + 1]
<1>1. s # <<>>
  BY EmptySeq
<1>2. QED
  BY <1>1, HeadTailProperties

\* What Canales says of one CPU, and Lineas of one and its process.
CanalBien(c) ==
    \A i \in 1..Len(canal[c]) :
        /\ Tiene(c, canal[c][i].proc)
        /\ canal[c][i].tipo \in {"Q", "F"} <=> cpu[c] = Nada /\ i = Len(canal[c])
LineasBien(c, p) ==
    Tiene(c, p) =>
        \A i \in 1..Len(canal[c]) :
           /\ i <= Impresas(c) => canal[c][i].linea = pcb[p].linea - Impresas(c) + i - 1
           /\ canal[c][i].tipo = "F" => pcb[p].linea = Len(Guion[p]) + 1

\* A CPU that does nothing keeps what it had sent.
LEMMA CanalIgual ==
    ASSUME NEW d, CanalBien(d), cpu'[d] = cpu[d], canal'[d] = canal[d]
    PROVE  CanalBien(d)' /\ Impresas(d)' = Impresas(d)
BY DEF CanalBien, Tiene, Impresas

\* The prints of a CPU that has printed once more, and of one that has ended.
LEMMA CanalImprime ==
    ASSUME Tipos, Canales, Cpus, Lineas, NEW c \in CPUs, NEW t \in {"imprimir", "imprimirTexto"},
           Imprime(c, t)
    PROVE  CanalBien(c)'
<1>1. PICK p \in Programas, m \in Paquete :
        /\ m.tipo = t /\ m.proc = p /\ Tiene(c, p) /\ cpu[c] # Nada /\ cpu'[c] # Nada
        /\ canal'[c] = Append(canal[c], m)
        /\ \A d \in CPUs, q \in Programas : Tiene(d, q)' <=> Tiene(d, q)
  BY ImprimeHace
<1>2. PICK s \in Seq(Paquete), n \in Nat : s = canal[c] /\ n = Len(s)
  <2>1. canal[c] \in Seq(Paquete)
    BY DEF Tipos
  <2>2. QED
    BY <2>1, LenProperties
<1>3. /\ Len(canal'[c]) = n + 1 /\ canal'[c][n + 1] = m
      /\ \A i \in 1..n : canal'[c][i] = s[i] /\ s[i] \in Paquete
  BY <1>1, <1>2, Agregado, ElementOfSeq
<1>4. \A i \in 1..n : Tiene(c, s[i].proc) /\ s[i].tipo \notin {"Q", "F"} /\ s[i].proc \in Programas
  BY <1>1, <1>2, <1>3 DEF Canales, Paquete
<1>5. ASSUME NEW i \in 1..n + 1
      PROVE  /\ \E x \in Programas : x = canal'[c][i].proc /\ Tiene(c, x)'
             /\ canal'[c][i].tipo \notin {"Q", "F"}
  <2>1. CASE i = n + 1
    <3>1. t \notin {"Q", "F"}
      OBVIOUS
    <3>2. QED
      BY <1>1, <1>3, <2>1, <3>1
  <2>2. CASE i \in 1..n
    BY <1>1, <1>3, <1>4, <2>2
  <2>3. QED
    BY <2>1, <2>2
<1>6. QED
  BY <1>1, <1>3, <1>5 DEF CanalBien, Tiene

\* The PCB comes last.
LEMMA CanalEnviar ==
    ASSUME Tipos, Canales, Cpus, Lineas, NEW c \in CPUs, EnviarPcbProcesado(c)
    PROVE  CanalBien(c)'
<1>1. PICK p \in Programas, m \in Paquete :
        /\ m.tipo \in {"Q", "F"} /\ m.proc = p /\ Tiene(c, p) /\ cpu[c] # Nada /\ cpu'[c] = Nada
        /\ canal'[c] = Append(canal[c], m)
        /\ \A d \in CPUs, q \in Programas : Tiene(d, q)' <=> Tiene(d, q)
  BY EnviarPcbHace
<1>2. PICK s \in Seq(Paquete), n \in Nat : s = canal[c] /\ n = Len(s)
  <2>1. canal[c] \in Seq(Paquete)
    BY DEF Tipos
  <2>2. QED
    BY <2>1, LenProperties
<1>3. /\ Len(canal'[c]) = n + 1 /\ canal'[c][n + 1] = m
      /\ \A i \in 1..n : canal'[c][i] = s[i] /\ s[i] \in Paquete
  BY <1>1, <1>2, Agregado, ElementOfSeq
<1>4. \A i \in 1..n : Tiene(c, s[i].proc) /\ s[i].tipo \notin {"Q", "F"} /\ s[i].proc \in Programas
  BY <1>1, <1>2, <1>3 DEF Canales, Paquete
<1>5. ASSUME NEW i \in 1..n + 1
      PROVE  /\ \E x \in Programas : x = canal'[c][i].proc /\ Tiene(c, x)'
             /\ canal'[c][i].tipo \in {"Q", "F"} <=> i = n + 1
  <2>1. CASE i = n + 1
    BY <1>1, <1>3, <2>1
  <2>2. CASE i \in 1..n
    <3>1. i # n + 1
      BY <2>2
    <3>2. QED
      BY <1>1, <1>3, <1>4, <2>2, <3>1
  <2>3. QED
    BY <2>1, <2>2
<1>6. QED
  BY <1>1, <1>3, <1>5 DEF CanalBien, Tiene

\* The PCP takes a packet from the front.
LEMMA CanalPcpImprime ==
    ASSUME Tipos, Canales, NEW c \in CPUs, PcpImprime(c)
    PROVE  CanalBien(c)'
<1>1. /\ canal[c] \in Seq(Paquete) /\ canal[c] # <<>> /\ canal'[c] = Tail(canal[c]) /\ cpu' = cpu
      /\ \A d \in CPUs, q \in Programas : Tiene(d, q)' <=> Tiene(d, q)
  BY PcpLeeHace
<1>2. PICK s \in Seq(Paquete), n \in Nat \ {0} : s = canal[c] /\ n = Len(s)
  BY <1>1, EmptySeq, LenProperties
<1>3. Len(canal'[c]) = n - 1 /\ \A i \in 1..n - 1 : canal'[c][i] = s[i + 1]
  BY <1>1, <1>2, Quitado
<1>4. ASSUME NEW i \in 1..n - 1
      PROVE  /\ \E x \in Programas : x = canal'[c][i].proc /\ Tiene(c, x)'
             /\ canal'[c][i].tipo \in {"Q", "F"} <=> cpu'[c] = Nada /\ i = n - 1
  <2>1. i + 1 \in 1..n /\ (i = n - 1 <=> i + 1 = n)
    OBVIOUS
  <2>2. s[i + 1] \in Paquete /\ s[i + 1].proc \in Programas
    <3>1. s[i + 1] \in Paquete
      BY <1>2, <2>1, ElementOfSeq
    <3>2. QED
      BY <3>1 DEF Paquete
  <2>3. Tiene(c, s[i + 1].proc) /\ (s[i + 1].tipo \in {"Q", "F"} <=> cpu[c] = Nada /\ i + 1 = n)
    BY <1>2, <2>1 DEF Canales
  <2>4. QED
    BY <1>1, <1>3, <2>1, <2>2, <2>3
<1>5. QED
  BY <1>3, <1>4 DEF CanalBien, Tiene

\* Every step keeps what the CPUs have sent in order.
LEMMA CanalesPaso ==
    ASSUME Tipos, Conexion, Guiones, Canales, Cpus, Lineas, Next
    PROVE  Canales'
<1>0. \A d \in CPUs : CanalBien(d)
  BY DEF Canales, CanalBien
<1>1. ASSUME \/ \E p \in Programas : Conecta(p) \/ EnviarDatos(p) \/ Abandona(p) \/ ProgRecibe(p)
                                     \/ ProgRecibeRoto(p) \/ Acepta(p)
             \/ \E c \in CPUs : AceptaCpu(c)
             \/ \E s \in Sockets : PlpLee(s) \/ PlpCierra(s)
             \/ PlpRecibe \/ PlpAtiende
      PROVE  \A d \in CPUs : CanalBien(d)'
  <2>1. cpu' = cpu /\ canal' = canal
    BY <1>1, ProcesosFuera
  <2>2. QED
    BY <1>0, <2>1, CanalIgual
<1>2. ASSUME NEW c \in CPUs, NEW p \in Programas, Despacha(c, p)
      PROVE  \A d \in CPUs : CanalBien(d)'
  <2>1. /\ canal[c] = <<>> /\ canal' = canal /\ \A d \in CPUs : d # c => cpu'[d] = cpu[d]
    <3>1. canal[c] = <<>>
      BY <1>2 DEF Despacha
    <3>2. QED
      BY <1>2, <3>1, DespachaHace, DespachaPierde
  <2>2. CanalBien(c)'
    BY <2>1, EmptySeq DEF CanalBien
  <2>3. QED
    BY <1>0, <2>1, <2>2, CanalIgual
<1>3. ASSUME NEW c \in CPUs, Imprimir(c) \/ ImprimirTexto(c) \/ EnviarPcbProcesado(c)
      PROVE  \A d \in CPUs : CanalBien(d)'
  <2>1. CanalBien(c)'
    BY <1>3, CanalImprime, CanalEnviar DEF Imprimir, ImprimirTexto
  <2>2. \A d \in CPUs : d # c => cpu'[d] = cpu[d] /\ canal'[d] = canal[d]
    BY <1>3, ImprimeHace, EnviarPcbHace DEF Imprimir, ImprimirTexto
  <2>3. QED
    BY <1>0, <2>1, <2>2, CanalIgual
<1>4. ASSUME NEW c \in CPUs, PcpImprime(c) \/ PcpQuantum(c) \/ PcpTermina(c)
      PROVE  \A d \in CPUs : CanalBien(d)'
  <2>1. CanalBien(c)'
    <3>1. CASE PcpImprime(c)
      BY <3>1, CanalPcpImprime
    <3>2. CASE PcpQuantum(c) \/ PcpTermina(c)
      <4>1. canal'[c] = <<>>
        BY <3>2, PcpCambia
      <4>2. QED
        BY <4>1, EmptySeq DEF CanalBien
    <3>3. QED
      BY <1>4, <3>1, <3>2
  <2>2. cpu' = cpu /\ \A d \in CPUs : d # c => canal'[d] = canal[d]
    BY <1>4, PcpLeeHace
  <2>3. QED
    BY <1>0, <2>1, <2>2, CanalIgual
<1>5. \A d \in CPUs : CanalBien(d)'
  BY <1>1, <1>2, <1>3, <1>4 DEF Next, Avanza
<1>6. QED
  BY <1>5 DEF Canales, CanalBien

\* A CPU that does nothing keeps the lines of its prints.
LEMMA LineasIgual ==
    ASSUME NEW d, NEW q, LineasBien(d, q), cpu'[d] = cpu[d], canal'[d] = canal[d],
           Tiene(d, q) => pcb'[q] = pcb[q]
    PROVE  LineasBien(d, q)'
BY DEF LineasBien, Tiene, Impresas

\* The line a CPU prints is the one its process was at, and the next is one more.
LEMMA LineasImprime ==
    ASSUME Tipos, Canales, Cpus, Lineas, NEW c \in CPUs, NEW t \in {"imprimir", "imprimirTexto"},
           Imprime(c, t), NEW d \in CPUs, NEW q \in Programas
    PROVE  LineasBien(d, q)'
<1>1. PICK p \in Programas, m \in Paquete :
        /\ m.tipo = t /\ m.linea = pcb[p].linea /\ Tiene(c, p) /\ cpu[c] # Nada /\ cpu'[c] # Nada
        /\ pcb[p].linea \in 1..Len(Guion[p]) /\ pcb'[p].linea = pcb[p].linea + 1
        /\ \A x \in Programas : x # p => pcb'[x] = pcb[x]
        /\ canal'[c] = Append(canal[c], m)
        /\ \A e \in CPUs : e # c => canal'[e] = canal[e]
        /\ \A e \in CPUs : e # c => cpu'[e] = cpu[e]
        /\ \A e \in CPUs, x \in Programas : Tiene(e, x)' <=> Tiene(e, x)
  BY ImprimeHace
<1>2. LineasBien(d, q)
  BY DEF Lineas, LineasBien
<1>3. CASE d # c
  <2>1. Tiene(d, q) => q # p
    BY <1>1, <1>3 DEF Cpus
  <2>2. QED
    BY <1>1, <1>2, <1>3, <2>1, LineasIgual
<1>4. CASE d = c /\ Tiene(c, q)'
  <2>1. q = p
    BY <1>1, <1>4, TieneUno
  <2>2. PICK s \in Seq(Paquete), n \in Nat, l \in Nat : s = canal[c] /\ n = Len(s) /\ l = pcb[p].linea
    <3>1. canal[c] \in Seq(Paquete) /\ Len(canal[c]) \in Nat
      BY LenProperties DEF Tipos
    <3>2. pcb[p].linea \in Nat
      BY <1>1
    <3>3. QED
      BY <3>1, <3>2
  <2>3. /\ Len(canal'[c]) = n + 1 /\ canal'[c][n + 1] = m /\ \A i \in 1..n : canal'[c][i] = s[i]
    BY <1>1, <2>2, Agregado
  <2>4. Impresas(c) = n /\ Impresas(c)' = n + 1
    BY <1>1, <2>2, <2>3 DEF Impresas
  <2>5. \A i \in 1..n : s[i].linea = l - n + i - 1 /\ s[i].tipo \notin {"Q", "F"}
    <3>1. \A i \in 1..n : i <= n => s[i].linea = l - n + i - 1
      BY <1>1, <2>2, <2>4 DEF Lineas
    <3>2. \A i \in 1..n : s[i].tipo \notin {"Q", "F"}
      BY <1>1, <2>2 DEF Canales
    <3>3. QED
      BY <3>1, <3>2
  <2>6. ASSUME NEW i \in 1..n + 1
        PROVE  canal'[c][i].linea = (l + 1) - (n + 1) + i - 1 /\ canal'[c][i].tipo # "F"
    <3>1. CASE i \in 1..n
      <4>1. l - n + i - 1 = (l + 1) - (n + 1) + i - 1
        OBVIOUS
      <4>2. QED
        BY <2>3, <2>5, <3>1, <4>1
    <3>2. CASE i = n + 1
      <4>1. l = (l + 1) - (n + 1) + i - 1
        BY <3>2
      <4>2. QED
        BY <1>1, <2>2, <2>3, <3>2, <4>1
    <3>3. QED
      BY <3>1, <3>2
  <2>7. QED
    BY <1>1, <1>4, <2>1, <2>2, <2>3, <2>4, <2>6 DEF LineasBien
<1>5. QED
  BY <1>3, <1>4 DEF LineasBien

\* Its PCB comes after its prints, and the process has ended if it says so.
LEMMA LineasEnviar ==
    ASSUME Tipos, Canales, Cpus, Lineas, NEW c \in CPUs, EnviarPcbProcesado(c),
           NEW d \in CPUs, NEW q \in Programas
    PROVE  LineasBien(d, q)'
<1>1. PICK p \in Programas, m \in Paquete :
        /\ Tiene(c, p) /\ m.tipo = "F" => pcb[p].linea = Len(Guion[p]) + 1
        /\ cpu[c] # Nada /\ cpu'[c] = Nada /\ Tiene(c, p)
        /\ canal'[c] = Append(canal[c], m) /\ pcb' = pcb
        /\ \A e \in CPUs : e # c => canal'[e] = canal[e]
        /\ \A e \in CPUs : e # c => cpu'[e] = cpu[e]
        /\ \A e \in CPUs, x \in Programas : Tiene(e, x)' <=> Tiene(e, x)
  BY EnviarPcbHace
<1>2. LineasBien(d, q)
  BY DEF Lineas, LineasBien
<1>3. CASE d # c
  BY <1>1, <1>2, <1>3, LineasIgual
<1>4. CASE d = c /\ Tiene(c, q)'
  <2>1. q = p
    BY <1>1, <1>4, TieneUno
  <2>2. PICK s \in Seq(Paquete), n \in Nat : s = canal[c] /\ n = Len(s)
    BY LenProperties DEF Tipos
  <2>3. /\ Len(canal'[c]) = n + 1 /\ canal'[c][n + 1] = m /\ \A i \in 1..n : canal'[c][i] = s[i]
    BY <1>1, <2>2, Agregado
  <2>4. Impresas(c) = n /\ Impresas(c)' = n
    BY <1>1, <2>2, <2>3 DEF Impresas
  <2>5. \A i \in 1..n : s[i].linea = pcb[p].linea - n + i - 1 /\ s[i].tipo # "F"
    <3>1. \A i \in 1..n : i <= n => s[i].linea = pcb[p].linea - n + i - 1
      BY <1>1, <2>2, <2>4 DEF Lineas
    <3>2. \A i \in 1..n : s[i].tipo \notin {"Q", "F"}
      BY <1>1, <2>2 DEF Canales
    <3>3. QED
      BY <3>1, <3>2
  <2>6. ASSUME NEW i \in 1..n + 1
        PROVE  /\ i <= n => canal'[c][i].linea = pcb[p].linea - n + i - 1
               /\ canal'[c][i].tipo = "F" => pcb[p].linea = Len(Guion[p]) + 1
    <3>1. CASE i \in 1..n
      BY <2>3, <2>5, <3>1
    <3>2. CASE i = n + 1
      <4>1. ~ (i <= n)
        BY <3>2
      <4>2. QED
        BY <1>1, <2>3, <3>2, <4>1
    <3>3. QED
      BY <3>1, <3>2
  <2>7. QED
    BY <1>1, <1>4, <2>1, <2>3, <2>4, <2>6 DEF LineasBien
<1>5. QED
  BY <1>3, <1>4 DEF LineasBien

\* The PCP has one print less to read.
LEMMA LineasPcpImprime ==
    ASSUME Tipos, Canales, Cpus, Lineas, NEW c \in CPUs, PcpImprime(c),
           NEW d \in CPUs, NEW q \in Programas
    PROVE  LineasBien(d, q)'
<1>1. /\ canal[c] \in Seq(Paquete) /\ canal[c] # <<>> /\ canal'[c] = Tail(canal[c])
      /\ cpu' = cpu /\ pcb' = pcb
      /\ \A e \in CPUs : e # c => canal'[e] = canal[e]
      /\ \A e \in CPUs, x \in Programas : Tiene(e, x)' <=> Tiene(e, x)
  BY PcpLeeHace
<1>2. LineasBien(d, q)
  BY DEF Lineas, LineasBien
<1>3. CASE d # c
  BY <1>1, <1>2, <1>3, LineasIgual
<1>4. CASE d = c /\ Tiene(c, q)'
  <2>1. PICK s \in Seq(Paquete), n \in Nat \ {0} : s = canal[c] /\ n = Len(s)
    BY <1>1, EmptySeq, LenProperties
  <2>2. Len(canal'[c]) = n - 1 /\ \A i \in 1..n - 1 : canal'[c][i] = s[i + 1]
    BY <1>1, <2>1, Quitado
  <2>3. PICK k \in Int : Impresas(c) = k /\ Impresas(c)' = k - 1
    <3>1. CASE cpu[c] = Nada
      <4>1. Impresas(c) = n - 1 /\ Impresas(c)' = n - 1 - 1
        BY <1>1, <2>1, <2>2, <3>1 DEF Impresas
      <4>2. QED
        BY <4>1
    <3>2. CASE cpu[c] # Nada
      <4>1. Impresas(c) = n /\ Impresas(c)' = n - 1
        BY <1>1, <2>1, <2>2, <3>2 DEF Impresas
      <4>2. QED
        BY <4>1
    <3>3. QED
      BY <3>1, <3>2
  <2>4. pcb[q].linea \in Nat
    <3>1. estado[q] = "cpu"
      BY <1>1, <1>4 DEF Cpus
    <3>2. pcb[q] \in Pcb
      BY <3>1 DEF Lineas
    <3>3. QED
      BY <3>2 DEF Pcb
  <2>5. PICK l \in Nat : l = pcb[q].linea
    BY <2>4
  <2>6. \A i \in 1..n : /\ i <= k => s[i].linea = l - k + i - 1
                        /\ s[i].tipo = "F" => l = Len(Guion[q]) + 1
    BY <1>1, <1>4, <2>1, <2>3, <2>5 DEF Lineas
  <2>7. ASSUME NEW i \in 1..n - 1
        PROVE  /\ i <= k - 1 => canal'[c][i].linea = l - (k - 1) + i - 1
               /\ canal'[c][i].tipo = "F" => l = Len(Guion[q]) + 1
    <3>1. i + 1 \in 1..n /\ (i <= k - 1 => i + 1 <= k) /\ l - k + (i + 1) - 1 = l - (k - 1) + i - 1
      OBVIOUS
    <3>2. QED
      BY <2>2, <2>6, <3>1
  <2>8. QED
    BY <1>1, <1>4, <2>2, <2>3, <2>5, <2>7 DEF LineasBien
<1>5. QED
  BY <1>3, <1>4 DEF LineasBien

\* Every step keeps the lines that are told those that were executed.
LEMMA LineasPaso ==
    ASSUME Tipos, Conexion, Guiones, Canales, Cpus, Lineas, Next
    PROVE  Lineas'
<1> DEFINE Marca(q) == estado[q] # "no" => pcb[q] \in Pcb /\ pcb[q].linea \in 1..Len(Guion[q]) + 1
<1>0. \A q \in Programas : Marca(q) /\ (\A d \in CPUs : LineasBien(d, q)) /\ Len(Guion[q]) \in Nat
  <2>1. \A q \in Programas : Guion[q] \in Seq({"imprimir", "imprimirTexto"})
    BY SupuestosMensajes
  <2>2. \A q \in Programas : Len(Guion[q]) \in Nat
    BY <2>1, LenProperties
  <2>3. QED
    BY <2>2 DEF Lineas, LineasBien
<1>1. ASSUME \/ \E p \in Programas : Conecta(p) \/ EnviarDatos(p) \/ Abandona(p) \/ ProgRecibe(p)
                                     \/ ProgRecibeRoto(p) \/ Acepta(p)
             \/ \E c \in CPUs : AceptaCpu(c)
             \/ \E s \in Sockets : PlpLee(s) \/ PlpCierra(s)
             \/ PlpRecibe \/ PlpAtiende,
             NEW q \in Programas
      PROVE  Marca(q)' /\ \A d \in CPUs : LineasBien(d, q)'
  <2>1. /\ cpu' = cpu /\ canal' = canal
        /\ \/ estado'[q] = estado[q] /\ pcb'[q] = pcb[q]
           \/ estado[q] = "no" /\ estado'[q] = "ready" /\ pcb'[q] \in Pcb /\ pcb'[q].linea = 1
    BY <1>1, ProcesosFuera
  <2>2. Marca(q)'
    <3>1. 1 \in 1..Len(Guion[q]) + 1
      BY <1>0
    <3>2. QED
      BY <1>0, <2>1, <3>1
  <2>3. \A d \in CPUs : Tiene(d, q) => pcb'[q] = pcb[q]
    BY <2>1 DEF Cpus
  <2>4. QED
    BY <1>0, <2>1, <2>2, <2>3, LineasIgual
<1>2. ASSUME NEW c \in CPUs, NEW p \in Programas, Despacha(c, p), NEW q \in Programas
      PROVE  Marca(q)' /\ \A d \in CPUs : LineasBien(d, q)'
  <2>1. /\ canal[c] = <<>> /\ canal' = canal /\ pcb' = pcb /\ \A d \in CPUs : d # c => cpu'[d] = cpu[d]
    <3>1. canal[c] = <<>>
      BY <1>2 DEF Despacha
    <3>2. QED
      BY <1>2, <3>1, DespachaHace, DespachaPierde
  <2>2. Marca(q)'
    <3>1. estado'[q] = "no" <=> estado[q] = "no"
      BY <1>2, DespachaEstado DEF Tipos
    <3>2. QED
      BY <1>0, <2>1, <3>1
  <2>3. LineasBien(c, q)'
    BY <2>1, EmptySeq DEF LineasBien
  <2>4. QED
    BY <1>0, <2>1, <2>2, <2>3, LineasIgual
<1>3. ASSUME NEW c \in CPUs, NEW t \in {"imprimir", "imprimirTexto"}, Imprime(c, t), NEW q \in Programas
      PROVE  Marca(q)' /\ \A d \in CPUs : LineasBien(d, q)'
  <2>1. \A d \in CPUs : LineasBien(d, q)'
    BY <1>3, LineasImprime
  <2>2. PICK p \in Programas :
          /\ pcb[p].linea \in 1..Len(Guion[p]) /\ pcb'[p] \in Pcb /\ pcb'[p].linea = pcb[p].linea + 1
          /\ estado' = estado /\ \A x \in Programas : x # p => pcb'[x] = pcb[x]
    BY <1>3, ImprimeHace
  <2>3. pcb'[p].linea \in 1..Len(Guion[p]) + 1
    BY <1>0, <2>2
  <2>4. QED
    BY <1>0, <2>1, <2>2, <2>3
<1>4. ASSUME NEW c \in CPUs, EnviarPcbProcesado(c) \/ PcpImprime(c), NEW q \in Programas
      PROVE  Marca(q)' /\ \A d \in CPUs : LineasBien(d, q)'
  <2>1. \A d \in CPUs : LineasBien(d, q)'
    BY <1>4, LineasEnviar, LineasPcpImprime
  <2>2. estado' = estado /\ pcb' = pcb
    BY <1>4, EnviarPcbHace, PcpLeeHace
  <2>3. QED
    BY <1>0, <2>1, <2>2
<1>5. ASSUME NEW c \in CPUs, PcpQuantum(c) \/ PcpTermina(c), NEW q \in Programas
      PROVE  Marca(q)' /\ \A d \in CPUs : LineasBien(d, q)'
  <2>1. PICK p \in Programas :
          /\ estado[p] = "cpu" /\ \A x \in Programas : x # p => estado'[x] = estado[x]
          /\ pcb' = pcb /\ cpu' = cpu /\ canal'[c] = <<>>
          /\ \A d \in CPUs : d # c => canal'[d] = canal[d]
    BY <1>5, PcpCambia
  <2>2. Marca(q)'
    BY <1>0, <2>1
  <2>3. LineasBien(c, q)'
    BY <2>1, EmptySeq DEF LineasBien
  <2>4. QED
    BY <1>0, <2>1, <2>2, <2>3, LineasIgual
<1>6. \A q \in Programas : Marca(q)' /\ \A d \in CPUs : LineasBien(d, q)'
  BY <1>1, <1>2, <1>3, <1>4, <1>5 DEF Next, Avanza, Imprimir, ImprimirTexto
<1>7. QED
  BY <1>6 DEF Lineas, LineasBien

-----------------------------------------------------------------------------
(* The orders of a program, in order *)

\* What Ordenadas says of one program.
OrdenBien(p) ==
    IF estado[p] = "no" THEN Sigue(Flujo(p), p, Rechazo(p))
    ELSE Sigue(Flujo(p), p, Historia(p)) /\ Cuenta(p)

\* The orders a process causes, one by one.
LEMMA HistoriaEs ==
    ASSUME NEW p \in Programas
    PROVE  /\ Len(Guion[p]) \in Nat /\ Len(Historia(p)) = Len(Guion[p]) + 2
           /\ Historia(p)[Len(Guion[p]) + 2] = Orden("FINALIZAR", p, 0)
           /\ \A i \in 1..Len(Guion[p]) + 1 : Historia(p)[i] = Orden("INFORMAR", p, i - 1)
           /\ Len(Rechazo(p)) = 1 /\ Rechazo(p)[1] = Orden("FINALIZAR", p, 0)
<1>1. Guion[p] \in Seq({"imprimir", "imprimirTexto"})
  BY SupuestosMensajes
<1>2. PICK n \in Nat : n = Len(Guion[p])
  BY <1>1, LenProperties
<1>3. Historia(p) = [i \in 1..n + 2 |-> IF i = n + 2 THEN Orden("FINALIZAR", p, 0)
                                        ELSE Orden("INFORMAR", p, i - 1)]
  BY <1>2 DEF Historia
<1>4. Len(Historia(p)) = n + 2
  <2>1. DOMAIN Historia(p) = 1..n + 2 /\ n + 2 \in Nat
    BY <1>3
  <2>2. Historia(p) \in [1..n + 2 -> {Historia(p)[i] : i \in 1..n + 2}]
    BY <1>3
  <2>3. Historia(p) \in Seq({Historia(p)[i] : i \in 1..n + 2})
    BY <2>1, <2>2, SeqDef
  <2>4. DOMAIN Historia(p) = 1..Len(Historia(p)) /\ Len(Historia(p)) \in Nat
    BY <2>3, LenProperties
  <2>5. QED
    BY <2>1, <2>4
<1>5. /\ Historia(p)[n + 2] = Orden("FINALIZAR", p, 0)
      /\ \A i \in 1..n + 1 : Historia(p)[i] = Orden("INFORMAR", p, i - 1)
  BY <1>3
<1>6. Len(Rechazo(p)) = 1 /\ Rechazo(p)[1] = Orden("FINALIZAR", p, 0)
  BY DEF Rechazo
<1>7. QED
  BY <1>2, <1>4, <1>5, <1>6

\* The flow of q grows by no order about its own process.
Quieto(q) ==
    \/ Flujo(q)' = Flujo(q)
    \/ \E m \in Ordenes : m.de # q /\ Flujo(q)' = Append(Flujo(q), m)

\* Then what was in order is, and as much has been said.
LEMMA QuietoSigue ==
    ASSUME Tipos, NEW q \in Programas, Quieto(q)
    PROVE  /\ Dichas(q)' = Dichas(q) /\ Dichas(q) \in Nat
           /\ \A h : Sigue(Flujo(q), q, h) => Sigue(Flujo(q)', q, h)
<1>1. PICK s \in Seq(Ordenes) : s = Flujo(q)
  BY FlujoTipo
<1>2. Dichas(q) \in Nat
  <2>1. Len(s) \in Nat
    BY LenProperties
  <2>2. QED
    BY <1>1, <2>1, PropiasNat DEF Dichas
<1>3. CASE Flujo(q)' = Flujo(q)
  BY <1>2, <1>3 DEF Dichas
<1>4. CASE \E m \in Ordenes : m.de # q /\ Flujo(q)' = Append(Flujo(q), m)
  <2>1. PICK m \in Ordenes : m.de # q /\ Flujo(q)' = Append(s, m)
    BY <1>1, <1>4
  <2>2. \A h : Sigue(s, q, h) => Sigue(Append(s, m), q, h)
    BY <2>1, SigueAjena
  <2>3. Propias(Append(s, m), q, Len(Append(s, m))) = Propias(s, q, Len(s))
    <3>1. PICK n \in Nat : n = Len(s)
      BY LenProperties
    <3>2. PICK t : t = Append(s, m)
      OBVIOUS
    <3>3. Len(t) = n + 1 /\ t[n + 1] = m /\ \A i \in 1..n : t[i] = s[i]
      BY <3>1, <3>2, Agregado
    <3>4. Propias(t, q, n + 1) = Propias(t, q, n)
      BY <2>1, <3>3, PropiasAgrega
    <3>5. Propias(t, q, n) = Propias(s, q, n)
      BY <3>3, PropiasComienza
    <3>6. QED
      BY <3>1, <3>2, <3>3, <3>4, <3>5
  <2>4. Dichas(q)' = Dichas(q)
    BY <1>1, <2>1, <2>3 DEF Dichas
  <2>5. QED
    BY <1>1, <1>2, <2>1, <2>2, <2>4
<1>5. QED
  BY <1>3, <1>4 DEF Quieto

\* The next order about the process of p goes to its program.
LEMMA DiceSigue ==
    ASSUME Tipos, NEW p \in Programas, NEW m \in Ordenes, m.de = p, Flujo(p)' = Append(Flujo(p), m),
           NEW h, Sigue(Flujo(p), p, h), Len(h) \in Nat, Dichas(p) + 1 <= Len(h),
           m = h[Dichas(p) + 1]
    PROVE  Sigue(Flujo(p)', p, h) /\ Dichas(p)' = Dichas(p) + 1
<1>1. PICK s \in Seq(Ordenes) : s = Flujo(p)
  BY FlujoTipo
<1>2. Dichas(p) = Propias(s, p, Len(s))
  BY <1>1 DEF Dichas
<1>3. Sigue(Append(s, m), p, h) /\ Propias(Append(s, m), p, Len(Append(s, m))) = Propias(s, p, Len(s)) + 1
  BY <1>1, <1>2, SiguePropia
<1>4. QED
  BY <1>1, <1>2, <1>3 DEF Dichas

\* A program whose process is not the one that moves.
LEMMA OrdenIgual ==
    ASSUME Tipos, NEW q \in Programas, OrdenBien(q), Quieto(q),
           estado'[q] = estado[q], Conectado(q)' => Conectado(q) \/ estado[q] = "no",
           estado[q] = "ready" => pcb'[q] = pcb[q],
           \A d \in CPUs : Tiene(d, q)' =>
               Tiene(d, q) /\ pcb'[q].linea - Impresas(d)' = pcb[q].linea - Impresas(d)
    PROVE  OrdenBien(q)'
<1>1. Dichas(q)' = Dichas(q) /\ \A h : Sigue(Flujo(q), q, h) => Sigue(Flujo(q)', q, h)
  BY QuietoSigue
<1>2. CASE estado[q] = "no"
  BY <1>1, <1>2 DEF OrdenBien
<1>3. CASE estado[q] # "no"
  <2>1. Sigue(Flujo(q)', q, Historia(q))
    BY <1>1, <1>3 DEF OrdenBien
  <2>2. Cuenta(q)'
    BY <1>1, <1>3 DEF OrdenBien, Cuenta
  <2>3. QED
    BY <1>3, <2>1, <2>2 DEF OrdenBien
<1>4. QED
  BY <1>2, <1>3

\* No order about p has been sent.
LEMMA SinOrdenesCero ==
    ASSUME Tipos, NEW p \in Programas, SinOrdenes(p)
    PROVE  Dichas(p) = 0 /\ \A h : Sigue(Flujo(p), p, h)
<1>1. PICK s \in Seq(Ordenes), n \in Nat : s = Flujo(p) /\ n = Len(s)
  BY FlujoTipo, LenProperties
<1>2. \A i \in 1..n : s[i].de # p
  BY <1>1 DEF SinOrdenes
<1>3. Propias(s, p, n) = 0
  BY <1>2, PropiasCero
<1>4. QED
  BY <1>1, <1>2, <1>3 DEF Dichas, Sigue

\* A program that moves: what is left of its flow is a beginning of it, and one
\* that connects has no process yet.
LEMMA OrdenPrograma ==
    ASSUME Tipos, Tipos', Guiones, NEW p \in Programas, NEW x \in Programas, OrdenBien(x), x \notin rotos',
           Conecta(p) \/ EnviarDatos(p) \/ Abandona(p) \/ ProgRecibe(p) \/ ProgRecibeRoto(p)
    PROVE  OrdenBien(x)'
<1>1. /\ estado' = estado /\ pcb' = pcb /\ cpu' = cpu /\ canal' = canal
      /\ programa \in [Programas -> {"fuera", "envia", "recibe", "termino", "salio"}]
  BY DEF Conecta, EnviarDatos, Abandona, ProgRecibe, ProgRecibeRoto, procesos, Tipos
<1>2. \A d \in CPUs : (Tiene(d, x)' <=> Tiene(d, x)) /\ Impresas(d)' = Impresas(d)
  BY <1>1 DEF Tiene, Impresas
<1>3. Conectado(x)' => Conectado(x) \/ estado[x] = "no"
  <2>1. CASE Conecta(p)
    <3>1. programa' = [programa EXCEPT ![p] = "envia"] /\ programa[p] = "fuera"
      BY <2>1 DEF Conecta
    <3>2. estado[p] = "no"
      BY <3>1 DEF Guiones, Nuevo
    <3>3. QED
      BY <1>1, <3>1, <3>2 DEF Conectado
  <2>2. CASE ~ Conecta(p)
    <3>1. Conectado(p)
      BY <2>2 DEF EnviarDatos, Abandona, ProgRecibe, ProgRecibeRoto, Conectado
    <3>2. \/ programa' = programa \/ programa' = [programa EXCEPT ![p] = "recibe"]
          \/ programa' = [programa EXCEPT ![p] = "salio"] \/ programa' = [programa EXCEPT ![p] = "termino"]
      BY <2>2 DEF EnviarDatos, Abandona, ProgRecibe, ProgRecibeRoto, Obedece
    <3>3. x # p => programa'[x] = programa[x]
      BY <1>1, <3>2
    <3>4. QED
      BY <3>1, <3>3 DEF Conectado
  <2>3. QED
    BY <2>1, <2>2
<1>4. CASE Quieto(x)
  BY <1>1, <1>2, <1>3, <1>4, OrdenIgual
<1>5. CASE ~ Quieto(x)
  <2>1. x = p /\ Comienza(Flujo(x)', Flujo(x)) /\ SeFue(x)'
    BY <1>5, FlujosPrograma DEF Quieto
  <2>2. \A h : Sigue(Flujo(x), x, h) => Sigue(Flujo(x)', x, h)
    <3>1. Flujo(x) \in Seq(Ordenes) /\ Flujo(x)' \in Seq(Ordenes)
      BY FlujoTipo, FlujoTipoLuego
    <3>2. QED
      BY <2>1, <3>1, SigueComienzo
  <2>3. ~ Conectado(x)'
    BY <2>1 DEF Conectado, SeFue
  <2>4. QED
    BY <1>1, <2>2, <2>3 DEF OrdenBien, Cuenta
<1>6. QED
  BY <1>4, <1>5

\* The first order is the answer to the script.
LEMMA OrdenPlp ==
    ASSUME Tipos, Conexion, Guiones, Cpus, NEW x \in Programas, OrdenBien(x), x \notin rotos', PlpAtiende
    PROVE  OrdenBien(x)'
<1>1. PICK p \in Programas :
        /\ p = fd[plp.socket] /\ plp.socket \in Sockets /\ estado[p] = "no" /\ SinOrdenes(p)
  BY PlpHabla
<1>2. /\ programa' = programa /\ recibidos' = recibidos /\ cpu' = cpu /\ canal' = canal
      /\ \A d \in CPUs : (Tiene(d, x)' <=> Tiene(d, x)) /\ Impresas(d)' = Impresas(d)
  BY DEF PlpAtiende, red, Tiene, Impresas
<1>3. Conectado(x)' <=> Conectado(x)
  BY <1>2 DEF Conectado
<1>4. CASE x # p
  <2>1. estado'[x] = estado[x] /\ pcb'[x] = pcb[x]
    <3>1. \/ pcb' = pcb /\ estado' = estado
          \/ /\ pcb' = [pcb EXCEPT ![p] = [socket |-> plp.socket, linea |-> 1]]
             /\ estado' = [estado EXCEPT ![p] = "ready"]
      BY <1>1 DEF PlpAtiende, Admite, Rechaza
    <3>2. QED
      BY <1>4, <3>1 DEF Tipos
  <2>2. Quieto(x)
    BY <1>1, <1>4, FlujosPlp DEF Quieto
  <2>3. QED
    BY <1>2, <1>3, <2>1, <2>2, OrdenIgual
<1>5. CASE x = p
  <2>1. Admite(p, plp.socket) \/ Rechaza(p, plp.socket)
    <3>1. ~ (plp.trozos > 1)
      BY <1>1, <1>5 DEF PlpAtiende
    <3>2. QED
      BY <1>1, <3>1 DEF PlpAtiende
  <2>2. /\ Len(Guion[p]) \in Nat /\ Len(Historia(p)) \in Nat /\ 1 <= Len(Historia(p))
        /\ Historia(p)[1] = Orden("INFORMAR", p, 0)
        /\ Len(Rechazo(p)) = 1 /\ Rechazo(p)[1] = Orden("FINALIZAR", p, 0)
    <3>1. Len(Guion[p]) \in Nat
      BY HistoriaEs
    <3>2. 1 \in 1..Len(Guion[p]) + 1 /\ 1 - 1 = 0 /\ Len(Guion[p]) + 2 \in Nat /\ 1 <= Len(Guion[p]) + 2
      BY <3>1
    <3>3. QED
      BY <3>2, HistoriaEs
  <2>3. Dichas(p) = 0 /\ \A h : Sigue(Flujo(p), p, h)
    BY <1>1, SinOrdenesCero
  <2>4. \A d \in CPUs : ~ Tiene(d, p)
    BY <1>1 DEF Cpus
  <2>5. CASE Admite(p, plp.socket)
    <3>1. PICK m \in Ordenes : m = Orden("INFORMAR", p, 0) /\ m.de = p
      BY OrdenTipo
    <3>2. Flujo(p)' = IF Conectado(p) THEN Append(Flujo(p), m) ELSE Flujo(p)
      BY <1>1, <1>2, <2>5, <3>1, FlujosEnvio DEF Admite
    <3>3. estado'[p] = "ready" /\ pcb'[p].linea = 1
      BY <2>5 DEF Admite, Tipos
    <3>4. CASE Conectado(p)
      <4>1. Dichas(p) + 1 = 1 /\ m = Historia(p)[Dichas(p) + 1] /\ Dichas(p) + 1 <= Len(Historia(p))
        BY <2>2, <2>3, <3>1
      <4>2. Sigue(Flujo(p), p, Historia(p)) /\ Flujo(p)' = Append(Flujo(p), m)
        BY <2>3, <3>2, <3>4
      <4>3. Sigue(Flujo(p)', p, Historia(p)) /\ Dichas(p)' = 1
        BY <2>2, <3>1, <4>1, <4>2, DiceSigue
      <4>4. QED
        BY <1>2, <1>5, <2>4, <3>3, <4>3 DEF OrdenBien, Cuenta
    <3>5. CASE ~ Conectado(p)
      BY <1>3, <1>5, <2>3, <3>2, <3>3, <3>5 DEF OrdenBien, Cuenta
    <3>6. QED
      BY <3>4, <3>5
  <2>6. CASE Rechaza(p, plp.socket)
    <3>1. PICK m \in Ordenes : m = Orden("FINALIZAR", p, 0) /\ m.de = p
      BY OrdenTipo
    <3>2. Flujo(p)' = IF Conectado(p) THEN Append(Flujo(p), m) ELSE Flujo(p)
      BY <1>1, <1>2, <2>6, <3>1, FlujosEnvio DEF Rechaza
    <3>3. estado'[p] = "no"
      BY <1>1, <2>6 DEF Rechaza
    <3>4. Sigue(Flujo(p)', p, Rechazo(p))
      <4>1. CASE Conectado(p)
        <5>1. Dichas(p) + 1 = 1 /\ m = Rechazo(p)[Dichas(p) + 1] /\ Dichas(p) + 1 <= Len(Rechazo(p))
          BY <2>2, <2>3, <3>1
        <5>2. Sigue(Flujo(p), p, Rechazo(p)) /\ Flujo(p)' = Append(Flujo(p), m) /\ Len(Rechazo(p)) \in Nat
          BY <2>2, <2>3, <3>2, <4>1
        <5>3. QED
          BY <3>1, <5>1, <5>2, DiceSigue
      <4>2. CASE ~ Conectado(p)
        BY <2>3, <3>2, <4>2
      <4>3. QED
        BY <4>1, <4>2
    <3>5. QED
      BY <1>5, <3>3, <3>4 DEF OrdenBien
  <2>7. QED
    BY <2>1, <2>5, <2>6
<1>6. QED
  BY <1>4, <1>5

\* The steps of the CPUs, and the quantum: what is to be said does not change.
LEMMA OrdenCpu ==
    ASSUME Tipos, Canales, Cpus, Lineas, NEW c \in CPUs, NEW x \in Programas, OrdenBien(x),
           \/ \E p \in Programas : Despacha(c, p)
           \/ Imprimir(c) \/ ImprimirTexto(c) \/ EnviarPcbProcesado(c) \/ PcpQuantum(c)
    PROVE  OrdenBien(x)'
<1>1. Quieto(x) /\ Flujo(x)' = Flujo(x)
  BY FlujosQuietos DEF Quieto
<1>2. Conectado(x)' <=> Conectado(x)
  BY CpuQuieto DEF Conectado
<1>3. Dichas(x)' = Dichas(x) /\ \A h : Sigue(Flujo(x), x, h) => Sigue(Flujo(x)', x, h)
  BY <1>1, QuietoSigue
<1>4. ASSUME NEW p \in Programas, Despacha(c, p), trama[c] = "bien"
      PROVE  OrdenBien(x)'
  <2>1. /\ canal[c] = <<>> /\ canal' = canal /\ pcb' = pcb /\ cpu'[c] # Nada
        /\ \A d \in CPUs : d # c => cpu'[d] = cpu[d]
        /\ estado[p] = "ready" /\ estado' = [estado EXCEPT ![p] = "cpu"]
        /\ \A d \in CPUs, q \in Programas : Tiene(d, q)' <=> IF d = c THEN q = p ELSE Tiene(d, q)
    BY <1>4, DespachaHace
  <2>2. estado'[p] = "cpu" /\ \A q \in Programas : q # p => estado'[q] = estado[q]
    BY <2>1 DEF Tipos
  <2>3. \A d \in CPUs : d # c => Impresas(d)' = Impresas(d)
    BY <2>1 DEF Impresas
  <2>4. Impresas(c)' = 0
    BY <2>1, EmptySeq DEF Impresas
  <2>5. CASE x # p
    BY <1>1, <1>2, <2>1, <2>2, <2>3, <2>5, OrdenIgual
  <2>6. CASE x = p
    <3>1. \A d \in CPUs : Tiene(d, p)' => d = c
      BY <2>1 DEF Cpus
    <3>2. pcb[p].linea - 0 = pcb[p].linea
      <4>1. pcb[p] \in Pcb
        BY <2>1 DEF Lineas
      <4>2. pcb[p].linea \in Nat
        BY <4>1 DEF Pcb
      <4>3. QED
        BY <4>2
    <3>3. Sigue(Flujo(p), p, Historia(p)) /\ (Conectado(p) => Dichas(p) = pcb[p].linea)
      BY <2>1, <2>6 DEF OrdenBien, Cuenta
    <3>4. QED
      BY <1>2, <1>3, <2>1, <2>2, <2>4, <2>6, <3>1, <3>2, <3>3 DEF OrdenBien, Cuenta
  <2>7. QED
    BY <2>5, <2>6
<1>5. ASSUME NEW t \in {"imprimir", "imprimirTexto"}, Imprime(c, t)
      PROVE  OrdenBien(x)'
  <2>1. PICK p \in Programas, m \in Paquete :
          /\ Tiene(c, p) /\ pcb[p].linea \in 1..Len(Guion[p]) /\ pcb'[p].linea = pcb[p].linea + 1
          /\ cpu[c] # Nada /\ cpu'[c] # Nada /\ canal'[c] = Append(canal[c], m)
          /\ \A d \in CPUs : d # c => canal'[d] = canal[d]
          /\ \A d \in CPUs : d # c => cpu'[d] = cpu[d]
          /\ estado' = estado /\ \A q \in Programas : q # p => pcb'[q] = pcb[q]
          /\ \A d \in CPUs, q \in Programas : Tiene(d, q)' <=> Tiene(d, q)
    BY <1>5, ImprimeHace
  <2>2. PICK n \in Nat : Impresas(c) = n /\ Impresas(c)' = n + 1
    <3>1. PICK s \in Seq(Paquete), n \in Nat : s = canal[c] /\ n = Len(s)
      BY LenProperties DEF Tipos
    <3>2. Len(canal'[c]) = n + 1
      BY <2>1, <3>1, Agregado
    <3>3. Impresas(c) = n /\ Impresas(c)' = n + 1
      BY <2>1, <3>1, <3>2 DEF Impresas
    <3>4. QED
      BY <3>3
  <2>3. \A d \in CPUs : d # c => Impresas(d)' = Impresas(d)
    BY <2>1 DEF Impresas
  <2>4. ASSUME NEW d \in CPUs, Tiene(d, x)'
        PROVE  Tiene(d, x) /\ pcb'[x].linea - Impresas(d)' = pcb[x].linea - Impresas(d)
    <3>1. Tiene(d, x)
      BY <2>1, <2>4
    <3>2. CASE d = c
      <4>1. x = p
        BY <2>1, <3>1, <3>2, TieneUno
      <4>2. PICK l \in Int : l = pcb[p].linea
        BY <2>1
      <4>3. (l + 1) - (n + 1) = l - n
        BY <2>2
      <4>4. QED
        BY <2>1, <2>2, <3>1, <3>2, <4>1, <4>2, <4>3
    <3>3. CASE d # c
      <4>1. x # p
        BY <2>1, <3>1, <3>3 DEF Cpus
      <4>2. QED
        BY <2>1, <2>3, <3>1, <3>3, <4>1
    <3>4. QED
      BY <3>2, <3>3
  <2>5. estado[x] = "ready" => pcb'[x] = pcb[x]
    <3>1. estado[p] = "cpu"
      BY <2>1 DEF Cpus
    <3>2. QED
      BY <2>1, <3>1
  <2>6. QED
    BY <1>1, <1>2, <2>1, <2>4, <2>5, OrdenIgual
<1>6. CASE EnviarPcbProcesado(c)
  <2>1. PICK m \in Paquete :
          /\ cpu[c] # Nada /\ cpu'[c] = Nada /\ \A d \in CPUs : d # c => cpu'[d] = cpu[d]
          /\ canal'[c] = Append(canal[c], m) /\ \A d \in CPUs : d # c => canal'[d] = canal[d]
          /\ estado' = estado /\ pcb' = pcb
          /\ \A d \in CPUs, q \in Programas : Tiene(d, q)' <=> Tiene(d, q)
    BY <1>6, EnviarPcbHace
  <2>2. Impresas(c)' = Impresas(c)
    <3>1. PICK s \in Seq(Paquete), n \in Nat : s = canal[c] /\ n = Len(s)
      BY LenProperties DEF Tipos
    <3>2. Len(canal'[c]) = n + 1
      BY <2>1, <3>1, Agregado
    <3>3. n + 1 - 1 = n
      OBVIOUS
    <3>4. QED
      BY <2>1, <3>1, <3>2, <3>3 DEF Impresas
  <2>3. \A d \in CPUs : Impresas(d)' = Impresas(d)
    BY <2>1, <2>2 DEF Impresas
  <2>4. QED
    BY <1>1, <1>2, <2>1, <2>3, OrdenIgual
<1>7. CASE PcpQuantum(c)
  <2>1. PICK p \in Programas :
          /\ Tiene(c, p) /\ estado[p] = "cpu" /\ estado' = [estado EXCEPT ![p] = "ready"]
          /\ pcb' = pcb /\ cpu' = cpu
          /\ \A d \in CPUs : d # c => canal'[d] = canal[d]
          /\ \A d \in CPUs, q \in Programas : Tiene(d, q)' <=> d # c /\ Tiene(d, q)
    BY <1>7, PcpCambia
  <2>2. estado'[p] = "ready" /\ \A q \in Programas : q # p => estado'[q] = estado[q]
    BY <2>1 DEF Tipos
  <2>3. \A d \in CPUs : d # c => Impresas(d)' = Impresas(d)
    BY <2>1 DEF Impresas
  <2>4. CASE x # p
    BY <1>1, <1>2, <2>1, <2>2, <2>3, <2>4, OrdenIgual
  <2>5. CASE x = p
    <3>1. Impresas(c) = 0
      <4>1. ~ PcpImprime(c)
        BY <1>7 DEF PcpImprime, PcpQuantum, PcpLee
      <4>2. cpu[c] = Nada /\ Len(canal[c]) = 1
        BY <1>7, <4>1, PcpLeeHace
      <4>3. QED
        BY <4>2 DEF Impresas
    <3>2. \A d \in CPUs : ~ Tiene(d, p)'
      BY <2>1 DEF Cpus
    <3>3. Sigue(Flujo(p), p, Historia(p)) /\ (Conectado(p) => Dichas(p) = pcb[p].linea - 0)
      BY <2>1, <2>5, <3>1 DEF OrdenBien, Cuenta
    <3>4. pcb[p].linea - 0 = pcb[p].linea
      <4>1. pcb[p] \in Pcb
        BY <2>1 DEF Lineas
      <4>2. pcb[p].linea \in Nat
        BY <4>1 DEF Pcb
      <4>3. QED
        BY <4>2
    <3>5. QED
      BY <1>2, <1>3, <2>1, <2>2, <2>5, <3>2, <3>3, <3>4 DEF OrdenBien, Cuenta
  <2>6. QED
    BY <2>4, <2>5
<1>8. ASSUME NEW p \in Programas, Despacha(c, p), trama[c] # "bien"
      PROVE  OrdenBien(x)'
  <2>1. /\ canal' = canal /\ pcb' = pcb /\ cpu' = cpu
        /\ estado[p] = "ready" /\ estado' = [estado EXCEPT ![p] = "perdido"]
        /\ \A d \in CPUs, q \in Programas : Tiene(d, q)' <=> Tiene(d, q)
    BY <1>8, DespachaPierde
  <2>2. estado'[p] = "perdido" /\ \A q \in Programas : q # p => estado'[q] = estado[q]
    BY <2>1 DEF Tipos
  <2>3. \A d \in CPUs : Impresas(d)' = Impresas(d)
    BY <2>1 DEF Impresas
  <2>4. CASE x # p
    BY <1>1, <1>2, <2>1, <2>2, <2>3, <2>4, OrdenIgual
  <2>5. CASE x = p
    <3>1. \A d \in CPUs : ~ Tiene(d, p)'
      BY <2>1 DEF Cpus
    <3>2. Sigue(Flujo(p)', p, Historia(p))
      BY <1>1, <2>1, <2>5 DEF OrdenBien
    <3>3. QED
      BY <2>2, <2>5, <3>1, <3>2 DEF OrdenBien, Cuenta
  <2>6. QED
    BY <2>4, <2>5
<1>9. QED
  BY <1>4, <1>5, <1>6, <1>7, <1>8 DEF Imprimir, ImprimirTexto

\* A print the PCP reads is the next line to be told, and the program it is told
\* to, while it is there, is the one whose process printed it.
LEMMA OrdenPcpImprime ==
    ASSUME Tipos, Conexion, Canales, Cpus, Lineas, NEW c \in CPUs, NEW x \in Programas, OrdenBien(x),
           PcpImprime(c)
    PROVE  OrdenBien(x)'
<1>1. PICK p \in Programas, m \in Ordenes :
        /\ p = Head(canal[c]).proc /\ m.de = p /\ estado[p] = "cpu"
        /\ m = Orden("INFORMAR", p, Head(canal[c]).linea)
        /\ \A q \in Programas :
              Flujo(q)' = IF q = fd[pcb[p].socket] /\ Conectado(q) THEN Append(Flujo(q), m) ELSE Flujo(q)
  BY FlujosPcp
<1>2. /\ canal[c] \in Seq(Paquete) /\ canal[c] # <<>> /\ canal'[c] = Tail(canal[c])
      /\ cpu' = cpu /\ pcb' = pcb /\ estado' = estado
      /\ canal[c][1].tipo \notin {"Q", "F"} /\ (cpu[c] = Nada => Len(canal[c]) > 1)
      /\ \A d \in CPUs : d # c => canal'[d] = canal[d]
      /\ \A d \in CPUs, q \in Programas : Tiene(d, q)' <=> Tiene(d, q)
  BY PcpLeeHace
<1>3. Tiene(c, p) /\ Head(canal[c]) = canal[c][1]
  BY <1>1, <1>2, PaqueteDe
<1>4. Conectado(x)' <=> Conectado(x)
  BY CpuQuieto DEF Conectado
<1>5. \A d \in CPUs : d # c => Impresas(d)' = Impresas(d)
  BY <1>2 DEF Impresas
<1>6. CASE x # p
  <2>1. Quieto(x)
    BY <1>1, <1>6 DEF Quieto
  <2>2. \A d \in CPUs : Tiene(d, x) => d # c
    BY <1>3, <1>6, TieneUno
  <2>3. QED
    BY <1>2, <1>4, <1>5, <2>1, <2>2, OrdenIgual
<1>7. CASE x = p /\ ~ Conectado(p)
  <2>1. Flujo(p)' = Flujo(p)
    BY <1>1, <1>7
  <2>2. QED
    BY <1>1, <1>2, <1>4, <1>7, <2>1 DEF OrdenBien, Cuenta
<1>8. CASE x = p /\ Conectado(p)
  <2>1. Flujo(p)' = Append(Flujo(p), m)
    BY <1>1, <1>8 DEF Conexion
  <2>2. PICK s \in Seq(Paquete), k \in Nat \ {0} : s = canal[c] /\ k = Len(s)
    BY <1>2, EmptySeq, LenProperties
  <2>3. Len(canal'[c]) = k - 1
    BY <1>2, <2>2, Quitado
  <2>4. PICK n \in Nat \ {0} : Impresas(c) = n /\ Impresas(c)' = n - 1
    <3>1. CASE cpu[c] = Nada
      <4>1. k > 1 /\ Impresas(c) = k - 1 /\ Impresas(c)' = k - 1 - 1
        BY <1>2, <2>2, <2>3, <3>1 DEF Impresas
      <4>2. k - 1 \in Nat \ {0}
        BY <4>1
      <4>3. QED
        BY <4>1, <4>2
    <3>2. CASE cpu[c] # Nada
      <4>1. Impresas(c) = k /\ Impresas(c)' = k - 1
        BY <1>2, <2>2, <2>3, <3>2 DEF Impresas
      <4>2. QED
        BY <4>1
    <3>3. QED
      BY <3>1, <3>2
  <2>5. PICK g \in Nat, l \in Nat : g = Len(Guion[p]) /\ l = pcb[p].linea /\ l <= g + 1
    <3>1. Len(Guion[p]) \in Nat
      BY HistoriaEs
    <3>2. pcb[p].linea \in 1..Len(Guion[p]) + 1
      BY <1>1 DEF Lineas
    <3>3. pcb[p].linea \in Nat /\ pcb[p].linea <= Len(Guion[p]) + 1
      BY <3>1, <3>2
    <3>4. QED
      BY <3>1, <3>3
  <2>6. s[1].linea = l - n + 1 - 1
    <3>1. 1 \in 1..k /\ 1 <= n
      BY <2>2, <2>4
    <3>2. QED
      BY <1>3, <2>2, <2>4, <2>5, <3>1 DEF Lineas
  <2>7. Sigue(Flujo(p), p, Historia(p)) /\ Dichas(p) = l - n
    BY <1>1, <1>3, <1>8, <2>4, <2>5 DEF OrdenBien, Cuenta
  <2>8. Dichas(p) \in Nat
    <3>1. PICK w \in Seq(Ordenes), z \in Nat : w = Flujo(p) /\ z = Len(w)
      BY FlujoTipo, LenProperties
    <3>2. QED
      BY <3>1, PropiasNat DEF Dichas
  <2>9. PICK y \in 1..g + 1 : /\ y = Dichas(p) + 1 /\ y - 1 = s[1].linea
                              /\ y = l - (n - 1) /\ y <= g + 2
    <3>1. l - n + 1 \in 1..g + 1
      <4>1. l - n \in Nat
        BY <2>7, <2>8
      <4>2. QED
        BY <2>5, <4>1
    <3>2. l - n + 1 = l - (n - 1) /\ l - n + 1 <= g + 2
      BY <1>3, <2>5, <3>1
    <3>3. l - n + 1 = Dichas(p) + 1 /\ (l - n + 1) - 1 = s[1].linea
      BY <2>6, <2>7
    <3>4. QED
      BY <3>1, <3>2, <3>3, Zenon
  <2>10. m = Historia(p)[y] /\ Len(Historia(p)) = g + 2 /\ g + 2 \in Nat
    <3>1. Historia(p)[y] = Orden("INFORMAR", p, y - 1) /\ Len(Historia(p)) = g + 2
      BY <2>5, HistoriaEs
    <3>2. QED
      BY <1>1, <1>3, <2>2, <2>9, <3>1
  <2>11. Sigue(Flujo(p)', p, Historia(p)) /\ Dichas(p)' = l - (n - 1)
    <3>1. Len(Historia(p)) \in Nat /\ Dichas(p) + 1 <= Len(Historia(p)) /\ m = Historia(p)[Dichas(p) + 1]
      BY <2>9, <2>10
    <3>2. Sigue(Flujo(p)', p, Historia(p)) /\ Dichas(p)' = Dichas(p) + 1
      BY <1>1, <2>1, <2>7, <3>1, DiceSigue
    <3>3. QED
      BY <2>9, <3>2
  <2>12. \A d \in CPUs : Tiene(d, p)' => d = c
    BY <1>2, <1>3 DEF Cpus
  <2>13. Cuenta(p)'
    BY <1>1, <1>2, <2>4, <2>5, <2>11, <2>12 DEF Cuenta
  <2>14. QED
    BY <1>1, <1>2, <1>8, <2>11, <2>13 DEF OrdenBien
<1>9. QED
  BY <1>6, <1>7, <1>8

\* Its end comes when everything it printed has been told.
LEMMA OrdenPcpTermina ==
    ASSUME Tipos, Conexion, Canales, Cpus, Lineas, NEW c \in CPUs, NEW x \in Programas, OrdenBien(x),
           PcpTermina(c)
    PROVE  OrdenBien(x)'
<1>1. PICK p \in Programas, m \in Ordenes :
        /\ p = Head(canal[c]).proc /\ m.de = p /\ estado[p] = "cpu" /\ m = Orden("FINALIZAR", p, 0)
        /\ \A q \in Programas :
              Flujo(q)' = IF q = fd[pcb[p].socket] /\ Conectado(q) THEN Append(Flujo(q), m) ELSE Flujo(q)
  BY FlujosPcp
<1>2. /\ Tiene(c, p) /\ estado' = [estado EXCEPT ![p] = "fin"]
      /\ pcb' = pcb /\ cpu' = cpu /\ cpu[c] = Nada
      /\ \A d \in CPUs : d # c => canal'[d] = canal[d]
      /\ \A d \in CPUs, q \in Programas : Tiene(d, q)' <=> d # c /\ Tiene(d, q)
  BY <1>1, PcpCambia
<1>3. estado'[p] = "fin" /\ \A q \in Programas : q # p => estado'[q] = estado[q]
  BY <1>2 DEF Tipos
<1>4. Conectado(x)' <=> Conectado(x)
  BY CpuQuieto DEF Conectado
<1>5. \A d \in CPUs : d # c => Impresas(d)' = Impresas(d)
  BY <1>2 DEF Impresas
<1>6. CASE x # p
  <2>1. Quieto(x)
    BY <1>1, <1>6 DEF Quieto
  <2>2. QED
    BY <1>2, <1>3, <1>4, <1>5, <1>6, <2>1, OrdenIgual
<1>7. CASE x = p /\ ~ Conectado(p)
  <2>1. Flujo(p)' = Flujo(p)
    BY <1>1, <1>7
  <2>2. QED
    BY <1>1, <1>3, <1>4, <1>7, <2>1 DEF OrdenBien, Cuenta
<1>8. CASE x = p /\ Conectado(p)
  <2>1. Flujo(p)' = Append(Flujo(p), m)
    BY <1>1, <1>8 DEF Conexion
  <2>2. Len(canal[c]) = 1 /\ canal[c][1].tipo = "F" /\ canal[c] # <<>>
    <3>1. ~ PcpImprime(c)
      BY DEF PcpImprime, PcpTermina, PcpLee
    <3>2. QED
      BY <3>1, PcpLeeHace
  <2>3. Impresas(c) = 0
    BY <1>2, <2>2 DEF Impresas
  <2>4. PICK g \in Nat : g = Len(Guion[p])
    BY HistoriaEs
  <2>5. pcb[p].linea = g + 1
    <3>1. 1 \in 1..Len(canal[c])
      BY <2>2
    <3>2. QED
      BY <1>2, <2>2, <2>4, <3>1 DEF Lineas
  <2>6. Sigue(Flujo(p), p, Historia(p)) /\ Dichas(p) = (g + 1) - 0
    BY <1>1, <1>2, <1>8, <2>3, <2>5 DEF OrdenBien, Cuenta
  <2>7. Dichas(p) + 1 = g + 2 /\ g + 2 \in Nat /\ g + 2 <= g + 2
    BY <2>6
  <2>8. m = Historia(p)[g + 2] /\ Len(Historia(p)) = g + 2
    BY <1>1, <2>4, HistoriaEs
  <2>9. Sigue(Flujo(p)', p, Historia(p)) /\ Dichas(p)' = g + 2
    <3>1. Len(Historia(p)) \in Nat /\ Dichas(p) + 1 <= Len(Historia(p)) /\ m = Historia(p)[Dichas(p) + 1]
      BY <2>7, <2>8
    <3>2. Sigue(Flujo(p)', p, Historia(p)) /\ Dichas(p)' = Dichas(p) + 1
      BY <1>1, <2>1, <2>6, <3>1, DiceSigue
    <3>3. QED
      BY <2>7, <3>2
  <2>10. \A d \in CPUs : ~ Tiene(d, p)'
    BY <1>2 DEF Cpus
  <2>11. Cuenta(p)'
    BY <1>3, <2>4, <2>9, <2>10 DEF Cuenta
  <2>12. QED
    BY <1>3, <1>8, <2>9, <2>11 DEF OrdenBien
<1>9. QED
  BY <1>6, <1>7, <1>8

\* Every step keeps the orders of a program in the order of its script.
LEMMA OrdenadasPaso ==
    ASSUME Tipos, Tipos', Conexion, Guiones, Canales, Cpus, Lineas, Ordenadas, Next
    PROVE  Ordenadas'
<1> SUFFICES ASSUME NEW x \in Programas, x \notin rotos'
             PROVE  OrdenBien(x)'
  BY DEF Ordenadas, OrdenBien
<1>1. rotos \subseteq rotos'
  BY DEF Next, Avanza, Conecta, EnviarDatos, Abandona, ProgRecibe, ProgRecibeRoto, Acepta, AceptaCpu, PlpLee,
         PlpCierra, PlpRecibe, PlpAtiende, Despacha, Imprimir, ImprimirTexto, Imprime,
         EnviarPcbProcesado, PcpImprime, PcpQuantum, PcpTermina, PcpLee
<1>2. OrdenBien(x)
  BY <1>1 DEF Ordenadas, OrdenBien
<1>3. CASE \/ \E p \in Programas : Acepta(p)
           \/ \E c \in CPUs : AceptaCpu(c)
           \/ \E s \in Sockets : PlpLee(s) \/ PlpCierra(s)
           \/ PlpRecibe
  <2>1. programa' = programa /\ estado' = estado /\ pcb' = pcb /\ cpu' = cpu /\ canal' = canal
    BY <1>3 DEF Acepta, AceptaCpu, PlpLee, PlpCierra, PlpRecibe, red, procesos
  <2>2. Quieto(x)
    BY <1>3, FlujosQuietos DEF Quieto
  <2>3. \A d \in CPUs : (Tiene(d, x)' <=> Tiene(d, x)) /\ Impresas(d)' = Impresas(d)
    BY <2>1 DEF Tiene, Impresas
  <2>4. Conectado(x)' <=> Conectado(x)
    BY <2>1 DEF Conectado
  <2>5. QED
    BY <1>2, <2>1, <2>2, <2>3, <2>4, OrdenIgual
<1>4. ASSUME NEW p \in Programas,
             Conecta(p) \/ EnviarDatos(p) \/ Abandona(p) \/ ProgRecibe(p) \/ ProgRecibeRoto(p)
      PROVE  OrdenBien(x)'
  BY <1>2, <1>4, OrdenPrograma
<1>5. CASE PlpAtiende
  BY <1>2, <1>5, OrdenPlp
<1>6. ASSUME NEW c \in CPUs,
             \/ \E p \in Programas : Despacha(c, p)
             \/ Imprimir(c) \/ ImprimirTexto(c) \/ EnviarPcbProcesado(c)
             \/ PcpImprime(c) \/ PcpQuantum(c) \/ PcpTermina(c)
      PROVE  OrdenBien(x)'
  BY <1>2, <1>6, OrdenCpu, OrdenPcpImprime, OrdenPcpTermina
<1>7. QED
  BY <1>3, <1>4, <1>5, <1>6 DEF Next, Avanza

-----------------------------------------------------------------------------
(* The orders that go to another program *)

\* What Ajenas and Finales say of one.
IdaBien(p) == SeFue(p) /\ SinFinal(p)
FinalBien(p) ==
    \A i \in 1..Len(Flujo(p)) : Flujo(p)[i] = Orden("FINALIZAR", p, 0) => estado[p] \in {"no", "fin"}

\* A program that left does nothing more.
LEMMA IdaQueda ==
    ASSUME Tipos, Tipos', Canales, Cpus, Lineas, NEW p \in Programas, SeFue(p), Next
    PROVE  SeFue(p)' /\ recibidos'[p] = recibidos[p]
<1>1. programa'[p] = programa[p] /\ recibidos'[p] = recibidos[p]
  <2>1. ASSUME NEW r \in Programas,
               Conecta(r) \/ EnviarDatos(r) \/ Abandona(r) \/ ProgRecibe(r) \/ ProgRecibeRoto(r)
        PROVE  programa'[p] = programa[p] /\ recibidos'[p] = recibidos[p]
    <3>1. r # p
      BY <2>1 DEF SeFue, Conectado, Conecta, EnviarDatos, Abandona, ProgRecibe, ProgRecibeRoto
    <3>2. recibidos'[p] = recibidos[p]
      BY <2>1, <3>1, FlujosPrograma
    <3>3. programa' = programa \/ \E e : programa' = [programa EXCEPT ![r] = e]
      BY <2>1 DEF Conecta, EnviarDatos, Abandona, ProgRecibe, ProgRecibeRoto, Obedece
    <3>4. QED
      BY <3>1, <3>2, <3>3 DEF Tipos
  <2>2. CASE \/ \E r \in Programas : Acepta(r)
             \/ \E c \in CPUs : AceptaCpu(c)
             \/ \E s \in Sockets : PlpLee(s) \/ PlpCierra(s)
             \/ PlpRecibe \/ PlpAtiende
    BY <2>2 DEF Acepta, AceptaCpu, PlpLee, PlpCierra, PlpRecibe, PlpAtiende, red
  <2>3. ASSUME NEW c \in CPUs,
               \/ \E r \in Programas : Despacha(c, r)
               \/ Imprimir(c) \/ ImprimirTexto(c) \/ EnviarPcbProcesado(c)
               \/ PcpImprime(c) \/ PcpQuantum(c) \/ PcpTermina(c)
        PROVE  programa'[p] = programa[p] /\ recibidos'[p] = recibidos[p]
    BY <2>3, CpuQuieto
  <2>4. QED
    BY <2>1, <2>2, <2>3 DEF Next, Avanza
<1>2. QED
  BY <1>1 DEF SeFue

\* Nor has it been told to end, if it had not.
LEMMA IdaSigue ==
    ASSUME Tipos, Tipos', Canales, Cpus, Lineas, NEW p \in Programas, IdaBien(p), Next
    PROVE  IdaBien(p)'
BY IdaQueda DEF IdaBien, SinFinal

\* The orders obeyed are the first of the flow.
LEMMA ObedecidasEnFlujo ==
    ASSUME Tipos, NEW p \in Programas
    PROVE  /\ Comienza(recibidos[p], Flujo(p))
           /\ \A j \in 1..Len(recibidos[p]) : j \in 1..Len(Flujo(p)) /\ Flujo(p)[j] = recibidos[p][j]
<1>1. PICK a \in Nat, b \in Nat : a = Len(recibidos[p]) /\ b = Len(hacia[p])
  BY LenProperties DEF Tipos
<1>2. Len(Flujo(p)) = a + b /\ \A i \in 1..a + b : i <= a => Flujo(p)[i] = recibidos[p][i]
  BY <1>1, FlujoTipo
<1>3. \A j \in 1..a : j \in 1..a + b /\ j <= a
  OBVIOUS
<1>4. \A j \in 1..a : j \in 1..a + b /\ Flujo(p)[j] = recibidos[p][j]
  BY <1>2, <1>3
<1>5. \A j \in 1..Len(recibidos[p]) : j \in 1..Len(Flujo(p)) /\ Flujo(p)[j] = recibidos[p][j]
  BY <1>1, <1>2, <1>4
<1>6. a <= a + b
  OBVIOUS
<1>7. Len(recibidos[p]) <= Len(Flujo(p))
  BY <1>1, <1>2, <1>6
<1>8. QED
  BY <1>5, <1>7 DEF Comienza

\* The process of a CPU has an order sent elsewhere only after its program left.
LEMMA IdaNueva ==
    ASSUME Tipos, Conexion, Guiones, Finales, NEW p \in Programas, estado[p] = "cpu",
           fd[pcb[p].socket] # p
    PROVE  IdaBien(p)
<1>1. ~ Conectado(p)
  BY DEF Conexion
<1>2. programa[p] # "fuera"
  BY DEF Guiones, Nuevo
<1>3. SeFue(p)
  BY <1>1, <1>2 DEF Tipos, Conectado, SeFue
<1>4. SinFinal(p)
  <2> SUFFICES ASSUME NEW j \in 1..Len(recibidos[p]), recibidos[p][j] = Orden("FINALIZAR", p, 0)
               PROVE  FALSE
    BY DEF SinFinal
  <2>1. j \in 1..Len(Flujo(p)) /\ Flujo(p)[j] = recibidos[p][j]
    BY ObedecidasEnFlujo
  <2>2. QED
    BY <2>1 DEF Finales
<1>5. QED
  BY <1>3, <1>4 DEF IdaBien

\* What an order that comes into the flow of q is about.
LEMMA Entra ==
    ASSUME Tipos, Tipos', Conexion, Guiones, Canales, Cpus, Lineas, Next, NEW q \in Programas
    PROVE  \/ Menos(q)
           \/ \E p \in Programas, m \in Ordenes :
                 /\ m.de = p /\ Flujo(q)' = Append(Flujo(q), m)
                 /\ (p = q /\ estado[p] = "no" /\ SinOrdenes(p))
                    \/ (estado[p] = "cpu" /\ q = fd[pcb[p].socket])
<1>1. CASE \E p \in Programas :
              Conecta(p) \/ EnviarDatos(p) \/ Abandona(p) \/ ProgRecibe(p) \/ ProgRecibeRoto(p)
  BY <1>1, FlujosPrograma, IgualEsMenos
<1>2. CASE PlpAtiende
  <2>1. PICK p \in Programas :
          /\ p = fd[plp.socket] /\ plp.socket \in Sockets /\ estado[p] = "no" /\ SinOrdenes(p)
    BY <1>2, PlpHabla
  <2>2. QED
    BY <1>2, <2>1, FlujosPlp, IgualEsMenos
<1>3. ASSUME NEW c \in CPUs, PcpImprime(c) \/ PcpTermina(c)
      PROVE  \/ Menos(q)
             \/ \E p \in Programas, m \in Ordenes :
                   /\ m.de = p /\ Flujo(q)' = Append(Flujo(q), m)
                   /\ estado[p] = "cpu" /\ q = fd[pcb[p].socket]
  <2>1. PICK p \in Programas, m \in Ordenes :
          /\ m.de = p /\ estado[p] = "cpu"
          /\ \A x \in Programas :
                Flujo(x)' = IF x = fd[pcb[p].socket] /\ Conectado(x) THEN Append(Flujo(x), m)
                            ELSE Flujo(x)
    BY <1>3, FlujosPcp
  <2>2. QED
    BY <2>1, IgualEsMenos
<1>4. CASE \/ \E p \in Programas : Acepta(p)
           \/ \E c \in CPUs : AceptaCpu(c)
           \/ \E s \in Sockets : PlpLee(s) \/ PlpCierra(s)
           \/ PlpRecibe
           \/ \E c \in CPUs :
                 \/ \E p \in Programas : Despacha(c, p)
                 \/ Imprimir(c) \/ ImprimirTexto(c) \/ EnviarPcbProcesado(c) \/ PcpQuantum(c)
  BY <1>4, FlujosQuietos, IgualEsMenos
<1>5. QED
  BY <1>1, <1>2, <1>3, <1>4 DEF Next, Avanza

\* Every step sends the orders to their program, or after it has gone.
LEMMA AjenasPaso ==
    ASSUME Tipos, Tipos', Conexion, Guiones, Canales, Cpus, Lineas, Ajenas, Finales, Next
    PROVE  Ajenas'
<1>1. ASSUME NEW q \in Programas, NEW i \in 1..Len(Flujo(q)')
      PROVE  \E p \in Programas : p = Flujo(q)'[i].de /\ (p # q => IdaBien(p)')
  <2>1. CASE Menos(q)
    <3>1. PICK j \in 1..Len(Flujo(q)) : Flujo(q)'[i] = Flujo(q)[j]
      BY <1>1, <2>1 DEF Menos, Cabe
    <3>2. PICK p \in Programas : p = Flujo(q)[j].de
      <4>1. Flujo(q)[j] \in Ordenes
        BY FlujoTipo, ElementOfSeq
      <4>2. QED
        BY <4>1 DEF Ordenes
    <3>3. p # q => IdaBien(p)
      BY <3>2 DEF Ajenas, IdaBien
    <3>4. QED
      BY <3>1, <3>2, <3>3, IdaSigue
  <2>2. ASSUME NEW p \in Programas, NEW m \in Ordenes, m.de = p, Flujo(q)' = Append(Flujo(q), m),
               p = q \/ (estado[p] = "cpu" /\ q = fd[pcb[p].socket])
        PROVE  \E x \in Programas : x = Flujo(q)'[i].de /\ (x # q => IdaBien(x)')
    <3>1. Flujo(q)'[i] = m \/ (i \in 1..Len(Flujo(q)) /\ Flujo(q)'[i] = Flujo(q)[i])
      BY <2>2, FlujoTipo, OrdenNueva
    <3>2. CASE Flujo(q)'[i] = m
      <4>1. p # q => IdaBien(p)'
        BY <2>2, IdaNueva, IdaSigue
      <4>2. QED
        BY <2>2, <3>2, <4>1
    <3>3. CASE i \in 1..Len(Flujo(q)) /\ Flujo(q)'[i] = Flujo(q)[i]
      <4>1. PICK x \in Programas : x = Flujo(q)[i].de
        <5>1. Flujo(q)[i] \in Ordenes
          BY <3>3, FlujoTipo, ElementOfSeq
        <5>2. QED
          BY <5>1 DEF Ordenes
      <4>2. x # q => IdaBien(x)
        BY <3>3, <4>1 DEF Ajenas, IdaBien
      <4>3. QED
        BY <3>3, <4>1, <4>2, IdaSigue
    <3>4. QED
      BY <3>1, <3>2, <3>3
  <2>3. QED
    BY <2>1, <2>2, Entra
<1>2. QED
  BY <1>1 DEF Ajenas, IdaBien, SeFue, SinFinal

\* What is told to end has no process that goes on.
LEMMA FinalSigue ==
    ASSUME Tipos, NEW q \in Programas, FinalBien(q), estado[q] \in {"no", "fin"} => estado'[q] \in {"no", "fin"},
           \/ Menos(q)
           \/ \E m \in Ordenes : /\ Flujo(q)' = Append(Flujo(q), m)
                                 /\ m = Orden("FINALIZAR", q, 0) => estado'[q] \in {"no", "fin"}
    PROVE  FinalBien(q)'
<1> SUFFICES ASSUME NEW i \in 1..Len(Flujo(q)'), Flujo(q)'[i] = Orden("FINALIZAR", q, 0)
             PROVE  estado'[q] \in {"no", "fin"}
  BY DEF FinalBien
<1>1. CASE Menos(q)
  BY <1>1 DEF Menos, Cabe, FinalBien
<1>2. CASE ~ Menos(q)
  <2>1. PICK m \in Ordenes : /\ Flujo(q)' = Append(Flujo(q), m)
                             /\ m = Orden("FINALIZAR", q, 0) => estado'[q] \in {"no", "fin"}
    BY <1>2
  <2>2. Flujo(q)'[i] = m \/ (i \in 1..Len(Flujo(q)) /\ Flujo(q)'[i] = Flujo(q)[i])
    BY <2>1, FlujoTipo, OrdenNueva
  <2>3. QED
    BY <2>1, <2>2 DEF FinalBien
<1>3. QED
  BY <1>1, <1>2

\* Every step keeps it: FINALIZAR is sent when the process is rejected or ends.
LEMMA FinalesPaso ==
    ASSUME Tipos, Tipos', Conexion, Guiones, Canales, Cpus, Lineas, Finales, Next
    PROVE  Finales'
<1> SUFFICES ASSUME NEW q \in Programas
             PROVE  FinalBien(q)'
  BY DEF Finales, FinalBien
<1>1. FinalBien(q)
  BY DEF Finales, FinalBien
<1>2. Orden("FINALIZAR", q, 0).de = q /\ \A p \in Programas, n \in Nat : Orden("INFORMAR", p, n) # Orden("FINALIZAR", q, 0)
  BY DEF Orden
<1>3. CASE \/ \E p \in Programas : Conecta(p) \/ EnviarDatos(p) \/ Abandona(p) \/ ProgRecibe(p)
                                     \/ ProgRecibeRoto(p) \/ Acepta(p)
           \/ \E c \in CPUs : AceptaCpu(c)
           \/ \E s \in Sockets : PlpLee(s) \/ PlpCierra(s)
           \/ PlpRecibe
  <2>1. estado' = estado
    BY <1>3 DEF Conecta, EnviarDatos, Abandona, ProgRecibe, ProgRecibeRoto, Acepta, AceptaCpu, PlpLee,
                PlpCierra, PlpRecibe, procesos
  <2>2. Menos(q)
    BY <1>3, FlujosPrograma, FlujosQuietos, IgualEsMenos
  <2>3. QED
    BY <1>1, <2>1, <2>2, FinalSigue
<1>4. CASE PlpAtiende
  <2>1. PICK p \in Programas :
          /\ p = fd[plp.socket] /\ plp.socket \in Sockets /\ estado[p] = "no" /\ SinOrdenes(p)
    BY <1>4, PlpHabla
  <2>2. CASE q # p
    <3>1. estado' = estado \/ estado' = [estado EXCEPT ![p] = "ready"]
      BY <1>4, <2>1 DEF PlpAtiende, Admite, Rechaza
    <3>2. estado'[q] = estado[q]
      BY <2>2, <3>1 DEF Tipos
    <3>3. Menos(q)
      BY <1>4, <2>1, <2>2, FlujosPlp, IgualEsMenos
    <3>4. QED
      BY <1>1, <3>2, <3>3, FinalSigue
  <2>3. CASE q = p /\ estado' = estado
    <3>1. Flujo(q)' = Flujo(q) \/ \E m \in Ordenes : Flujo(q)' = Append(Flujo(q), m)
      BY <1>4, <2>1, <2>3, FlujosPlp
    <3>2. estado'[q] \in {"no", "fin"}
      BY <2>1, <2>3
    <3>3. QED
      BY <1>1, <3>1, <3>2, IgualEsMenos, FinalSigue
  <2>4. CASE q = p /\ Admite(p, plp.socket)
    <3>1. PICK m \in Ordenes : m = Orden("INFORMAR", p, 0)
      BY OrdenTipo
    <3>2. recibidos' = recibidos
      BY <1>4 DEF PlpAtiende
    <3>3. Flujo(q)' = Flujo(q) \/ Flujo(q)' = Append(Flujo(q), m)
      BY <2>1, <2>4, <3>1, <3>2, FlujosEnvio DEF Admite
    <3>4. m # Orden("FINALIZAR", q, 0)
      BY <1>2, <3>1
    <3>5. ASSUME NEW i \in 1..Len(Flujo(q)'), Flujo(q)'[i] = Orden("FINALIZAR", q, 0)
          PROVE  FALSE
      <4>1. i \in 1..Len(Flujo(q)) /\ Flujo(q)'[i] = Flujo(q)[i]
        BY <3>3, <3>4, <3>5, FlujoTipo, OrdenNueva
      <4>2. QED
        BY <1>2, <2>1, <2>4, <3>5, <4>1 DEF SinOrdenes
    <3>6. QED
      BY <3>5 DEF FinalBien
  <2>5. QED
    BY <1>4, <2>1, <2>2, <2>3, <2>4 DEF PlpAtiende, Rechaza
<1>5. ASSUME NEW c \in CPUs,
             \/ \E p \in Programas : Despacha(c, p)
             \/ Imprimir(c) \/ ImprimirTexto(c) \/ EnviarPcbProcesado(c) \/ PcpQuantum(c)
      PROVE  FinalBien(q)'
  <2>1. Menos(q)
    BY <1>5, FlujosQuietos, IgualEsMenos
  <2>2. estado[q] \in {"no", "fin"} => estado'[q] \in {"no", "fin"}
    <3>1. CASE \E p \in Programas : Despacha(c, p)
      BY <3>1, DespachaEstado DEF Tipos
    <3>2. CASE PcpQuantum(c)
      BY <3>2, PcpCambia
    <3>3. CASE estado' = estado
      BY <3>3
    <3>4. QED
      BY <1>5, <3>1, <3>2, <3>3 DEF Imprimir, ImprimirTexto, Imprime, EnviarPcbProcesado
  <2>3. QED
    BY <1>1, <2>1, <2>2, FinalSigue
<1>6. ASSUME NEW c \in CPUs, PcpImprime(c) \/ PcpTermina(c)
      PROVE  FinalBien(q)'
  <2>1. PICK p \in Programas, m \in Ordenes :
          /\ p = Head(canal[c]).proc /\ m.de = p /\ estado[p] = "cpu"
          /\ PcpImprime(c) => m = Orden("INFORMAR", p, Head(canal[c]).linea)
          /\ \A x \in Programas :
                Flujo(x)' = IF x = fd[pcb[p].socket] /\ Conectado(x) THEN Append(Flujo(x), m)
                            ELSE Flujo(x)
    BY <1>6, FlujosPcp
  <2>2. estado[q] \in {"no", "fin"} => estado'[q] \in {"no", "fin"}
    <3>1. CASE PcpImprime(c)
      BY <3>1 DEF PcpImprime
    <3>2. CASE PcpTermina(c)
      BY <3>2, PcpCambia
    <3>3. QED
      BY <1>6, <3>1, <3>2
  <2>3. m = Orden("FINALIZAR", q, 0) => estado'[q] \in {"no", "fin"}
    <3>1. CASE PcpImprime(c)
      <4>1. Orden("INFORMAR", p, Head(canal[c]).linea) # Orden("FINALIZAR", q, 0)
        BY DEF Orden
      <4>2. QED
        BY <2>1, <3>1, <4>1
    <3>2. CASE PcpTermina(c)
      <4>1. estado'[p] = "fin"
        <5>1. estado' = [estado EXCEPT ![p] = "fin"]
          BY <2>1, <3>2, PcpCambia
        <5>2. QED
          BY <5>1 DEF Tipos
      <4>2. m = Orden("FINALIZAR", q, 0) => q = p
        BY <1>2, <2>1
      <4>3. QED
        BY <4>1, <4>2
    <3>3. QED
      BY <1>6, <3>1, <3>2
  <2>4. Flujo(q)' = Flujo(q) \/ Flujo(q)' = Append(Flujo(q), m)
    BY <2>1
  <2>5. QED
    BY <1>1, <2>2, <2>3, <2>4, IgualEsMenos, FinalSigue
<1>7. QED
  BY <1>3, <1>4, <1>5, <1>6 DEF Next, Avanza

-----------------------------------------------------------------------------
(* The theorems *)

\* No program has connected.
LEMMA MensajesInicial == Init => InvMensajes
<1> SUFFICES ASSUME Init
             PROVE  InvMensajes
  OBVIOUS
<1>1. <<>> \in Seq(Ordenes) /\ <<>> \in Seq(Paquete) /\ Len(<<>>) = 0 /\ 1..0 = {}
  BY EmptySeq
<1>2. Tipos
  BY <1>1 DEF Init, Tipos
<1>3. \A p \in Programas : Flujo(p) = <<>> /\ recibidos[p] = <<>>
  <2>1. <<>> \o <<>> = <<>>
    BY <1>1, ConcatEmptySeq
  <2>2. QED
    BY <2>1 DEF Init, Flujo
<1>4. \A c \in CPUs : \A p : ~ Tiene(c, p)
  BY DEF Init, Tiene
<1>5. Conexion
  BY SupuestosMensajes DEF Init, Conexion
<1>6. Guiones
  BY <1>1, <1>3 DEF Init, Guiones, SinLeer, Leyendo, Nuevo, SinOrdenes
<1>7. Canales /\ Cpus /\ Lineas
  BY <1>1, <1>4 DEF Init, Canales, Cpus, Lineas
<1>8. Ordenadas /\ Ajenas /\ Finales
  BY <1>1, <1>3 DEF Init, Ordenadas, Ajenas, Finales, Sigue
<1>9. QED
  BY <1>2, <1>5, <1>6, <1>7, <1>8 DEF InvMensajes

\* The invariant is inductive.
LEMMA MensajesPaso == InvMensajes /\ [Next]_vars => InvMensajes'
<1> SUFFICES ASSUME InvMensajes, [Next]_vars
             PROVE  InvMensajes'
  OBVIOUS
<1>1. CASE Next
  <2>1. Tipos'
    BY <1>1, TiposPaso DEF InvMensajes
  <2>2. Conexion' /\ Guiones' /\ Canales' /\ Cpus' /\ Lineas'
    BY <1>1, <2>1, ConexionPaso, GuionesPaso, CanalesPaso, CpusPaso, LineasPaso DEF InvMensajes
  <2>3. Ordenadas' /\ Ajenas' /\ Finales'
    BY <1>1, <2>1, OrdenadasPaso, AjenasPaso, FinalesPaso DEF InvMensajes
  <2>4. QED
    BY <2>1, <2>2, <2>3 DEF InvMensajes
<1>2. CASE UNCHANGED vars
  <2> USE DEF vars
  <2>1. Tipos' /\ Conexion'
    BY <1>2 DEF InvMensajes, Tipos, Conexion, Conectado
  <2>2. \A p : /\ Flujo(p)' = Flujo(p) /\ (Leyendo(p)' <=> Leyendo(p)) /\ SinLeer(p)' = SinLeer(p)
               /\ \A c : (Tiene(c, p)' <=> Tiene(c, p)) /\ Impresas(c)' = Impresas(c)
    BY <1>2 DEF Flujo, Leyendo, SinLeer, Tiene, Impresas
  <2>3. Guiones'
    BY <1>2, <2>2 DEF InvMensajes, Guiones, Nuevo, SinOrdenes
  <2>4. Canales' /\ Cpus' /\ Lineas'
    BY <1>2 DEF InvMensajes, Canales, Cpus, Lineas, Tiene, Impresas
  <2>5. Ordenadas'
    BY <1>2, <2>2 DEF InvMensajes, Ordenadas, Cuenta, Dichas, Conectado
  <2>6. Ajenas' /\ Finales'
    BY <1>2 DEF InvMensajes, Ajenas, Finales, SinFinal, SeFue, Flujo
  <2>7. QED
    BY <2>1, <2>3, <2>4, <2>5, <2>6 DEF InvMensajes
<1>3. QED
  BY <1>1, <1>2

\* It holds in every state of every behaviour.
LEMMA MensajesSiempre == Spec => []InvMensajes
BY MensajesInicial, MensajesPaso, PTL DEF Spec

\* A process is in one CPU, or its PCB in what one has sent, while it runs.
LEMMA UnaCpu ==
    ASSUME InvMensajes, NEW p \in Programas
    PROVE  Cardinality({c \in CPUs : cpu[c] # Nada /\ cpu[c].proc = p})
             + Cardinality({c \in CPUs : \E i \in 1..Len(canal[c]) :
                               canal[c][i].tipo \in {"Q", "F"} /\ canal[c][i].proc = p})
           = (IF estado[p] = "cpu" THEN 1 ELSE 0)
<1> DEFINE A == {c \in CPUs : cpu[c] # Nada /\ cpu[c].proc = p}
           B == {c \in CPUs : \E i \in 1..Len(canal[c]) :
                    canal[c][i].tipo \in {"Q", "F"} /\ canal[c][i].proc = p}
<1>1. \A c \in CPUs : c \in A <=> cpu[c] # Nada /\ Tiene(c, p)
  BY DEF Tiene
<1>2. ASSUME NEW c \in CPUs
      PROVE  c \in B <=> cpu[c] = Nada /\ Tiene(c, p)
  <2>1. PICK s \in Seq(Paquete), n \in Nat : s = canal[c] /\ n = Len(s)
    BY LenProperties DEF InvMensajes, Tipos
  <2>2. \A i \in 1..n : s[i].tipo \in {"Q", "F"} <=> cpu[c] = Nada /\ i = n
    BY <2>1 DEF InvMensajes, Canales
  <2>3. ASSUME c \in B
        PROVE  cpu[c] = Nada /\ Tiene(c, p)
    <3>1. PICK i \in 1..n : s[i].tipo \in {"Q", "F"} /\ s[i].proc = p
      BY <2>1, <2>3
    <3>2. cpu[c] = Nada /\ i = n
      BY <2>2, <3>1
    <3>3. Tiene(c, s[i].proc)
      BY <2>1 DEF InvMensajes, Canales
    <3>4. QED
      BY <3>1, <3>2, <3>3
  <2>4. ASSUME cpu[c] = Nada, Tiene(c, p)
        PROVE  c \in B
    <3>1. s # <<>> /\ s[n].proc = p
      BY <2>1, <2>4 DEF Tiene
    <3>2. n \in 1..n
      <4>1. n # 0
        BY <2>1, <3>1, EmptySeq
      <4>2. QED
        BY <4>1
    <3>3. s[n].tipo \in {"Q", "F"}
      BY <2>2, <2>4, <3>2
    <3>4. QED
      BY <2>1, <3>1, <3>2, <3>3
  <2>5. QED
    BY <2>3, <2>4
<1>3. Cardinality({}) = 0 /\ \A c : Cardinality({c}) = 1
  BY FS_EmptySet, FS_Singleton
<1>4. A \subseteq CPUs /\ B \subseteq CPUs
  OBVIOUS
<1> HIDE DEF A, B
<1>5. CASE estado[p] # "cpu"
  <2>1. \A c \in CPUs : ~ Tiene(c, p)
    BY <1>5 DEF InvMensajes, Cpus
  <2>2. A = {} /\ B = {}
    BY <1>1, <1>2, <1>4, <2>1
  <2>3. Cardinality(A) = 0 /\ Cardinality(B) = 0
    BY <1>3, <2>2
  <2>4. Cardinality(A) + Cardinality(B) = (IF estado[p] = "cpu" THEN 1 ELSE 0)
    BY <1>5, <2>3
  <2>5. QED
    BY <2>4 DEF A, B
<1>6. CASE estado[p] = "cpu"
  <2>1. PICK c \in CPUs : Tiene(c, p) /\ \A d \in CPUs : Tiene(d, p) => d = c
    BY <1>6 DEF InvMensajes, Cpus
  <2>2. (A = {c} /\ B = {}) \/ (A = {} /\ B = {c})
    <3>1. CASE cpu[c] = Nada
      BY <1>1, <1>2, <1>4, <2>1, <3>1
    <3>2. CASE cpu[c] # Nada
      BY <1>1, <1>2, <1>4, <2>1, <3>2
    <3>3. QED
      BY <3>1, <3>2
  <2>3. \/ Cardinality(A) = 1 /\ Cardinality(B) = 0
        \/ Cardinality(A) = 0 /\ Cardinality(B) = 1
    BY <1>3, <2>2
  <2>4. Cardinality(A) + Cardinality(B) = (IF estado[p] = "cpu" THEN 1 ELSE 0)
    BY <1>6, <2>3
  <2>5. QED
    BY <2>4 DEF A, B
<1>7. QED
  BY <1>5, <1>6

\* The packets are of their kind, the PLP reads no more of one than its body, a
\* program is at one socket of the kernel, and a process in one CPU or its PCB
\* on its way to the PCP, exactly while it is running.
THEOREM TipoMensajesCorrecto == Spec => []TypeOK
<1>1. InvMensajes => TypeOK
  <2> SUFFICES ASSUME InvMensajes
               PROVE  TypeOK
    OBVIOUS
  <2>1. ASSUME NEW p \in Programas
        PROVE  /\ programa[p] \in {"fuera", "envia", "recibe", "termino", "salio"}
               /\ porEnviar[p] + llegaron[p] \in 0..Cuerpo + 1
               /\ \A m \in ToSet(hacia[p]) \cup ToSet(recibidos[p]) : m \in Ordenes
               /\ Cardinality({s \in Sockets : fd[s] = p}) <= (IF p \in atendidos THEN 1 ELSE 0)
    <3>1. programa[p] \in {"fuera", "envia", "recibe", "termino", "salio"}
      BY DEF InvMensajes, Tipos
    <3>2. porEnviar[p] + llegaron[p] \in 0..Cuerpo + 1
      <4>1. Cuerpo \in Nat
        BY SupuestosMensajes
      <4>2. CASE Leyendo(p)
        <5>1. porEnviar[p] + llegaron[p] = plp.faltan /\ plp.faltan <= Cuerpo
          BY <4>2 DEF InvMensajes, Guiones, SinLeer
        <5>2. plp.faltan \in Nat
          BY <4>2 DEF InvMensajes, Tipos, Leyendo, Lectura
        <5>3. QED
          BY <4>1, <5>1, <5>2
      <4>3. CASE ~ Leyendo(p)
        <5>1. porEnviar[p] + llegaron[p] \in {0, Cuerpo + 1}
          BY <4>3 DEF InvMensajes, Guiones, SinLeer
        <5>2. QED
          BY <4>1, <5>1
      <4>4. QED
        BY <4>2, <4>3
    <3>3. ASSUME NEW m \in ToSet(hacia[p]) \cup ToSet(recibidos[p])
          PROVE  m \in Ordenes
      <4>1. hacia[p] \in Seq(Ordenes) /\ recibidos[p] \in Seq(Ordenes)
        BY DEF InvMensajes, Tipos
      <4>2. \A s \in Seq(Ordenes) : \A i \in DOMAIN s : s[i] \in Ordenes
        BY ElementOfSeq, LenProperties
      <4>3. QED
        BY <4>1, <4>2 DEF ToSet
    <3>4. Cardinality({s \in Sockets : fd[s] = p}) <= (IF p \in atendidos THEN 1 ELSE 0)
      <4>1. PICK S : S = {s \in Sockets : fd[s] = p}
        OBVIOUS
      <4>2. p # Nada
        BY SupuestosMensajes
      <4>3. \A s, t \in S : s = t
        BY <4>1, <4>2 DEF InvMensajes, Conexion
      <4>4. S # {} => p \in atendidos
        BY <4>1, <4>2 DEF InvMensajes, Conexion
      <4>5. CASE S = {}
        <5>1. Cardinality(S) = 0
          BY <4>5, FS_EmptySet
        <5>2. QED
          BY <4>1, <5>1
      <4>6. CASE S # {}
        <5>1. PICK t \in S : S = {t}
          BY <4>3, <4>6
        <5>2. Cardinality(S) = 1
          BY <5>1, FS_Singleton
        <5>3. QED
          BY <4>1, <4>4, <4>6, <5>2
      <4>7. QED
        BY <4>5, <4>6
    <3>5. QED
      BY <3>1, <3>2, <3>3, <3>4
  <2>2. ASSUME plp # Nada
        PROVE  plp.faltan \in 0..Cuerpo /\ fd[plp.socket] \in Programas
    <3>1. plp.faltan \in Nat /\ fd[plp.socket] \in Programas
      BY <2>2 DEF InvMensajes, Tipos, Lectura, Conexion
    <3>2. plp.faltan <= Cuerpo
      BY <2>2, <3>1 DEF InvMensajes, Guiones, Leyendo
    <3>3. QED
      BY <3>1, <3>2, SupuestosMensajes
  <2>3. trama \in [CPUs -> {"bien", "corrida", "perdida"}]
    BY DEF InvMensajes, Tipos
  <2>4. QED
    BY <2>1, <2>2, <2>3, UnaCpu DEF TypeOK
<1>2. QED
  BY <1>1, MensajesSiempre, PTL

\* Whatever the number of programs, CPUs and sockets, a program obeys the orders
\* of its own process, in order, unless one came cut; an order about another
\* process reaches it only when the program of that one had gone, and not
\* because it had been told to end.
THEOREM SiempreRecibeLoSuyo == Spec => []RecibeLoSuyo
<1>1. InvMensajes => RecibeLoSuyo
  <2> SUFFICES ASSUME InvMensajes, NEW p \in Programas
               PROVE  /\ p \notin rotos => \/ Sigue(recibidos[p], p, Historia(p))
                                           \/ Sigue(recibidos[p], p, Rechazo(p))
                      /\ \A m \in ToSet(recibidos[p]) : m.de # p =>
                            SeFue(m.de) /\ Orden("FINALIZAR", m.de, 0) \notin ToSet(recibidos[m.de])
    BY DEF RecibeLoSuyo
  <2>0. Tipos
    BY DEF InvMensajes
  <2>1. ASSUME p \notin rotos
        PROVE  Sigue(recibidos[p], p, Historia(p)) \/ Sigue(recibidos[p], p, Rechazo(p))
    <3>1. Sigue(Flujo(p), p, Historia(p)) \/ Sigue(Flujo(p), p, Rechazo(p))
      BY <2>1 DEF InvMensajes, Ordenadas
    <3>2. recibidos[p] \in Seq(Ordenes) /\ Flujo(p) \in Seq(Ordenes)
      BY <2>0, FlujoTipo DEF Tipos
    <3>3. Comienza(recibidos[p], Flujo(p))
      BY <2>0, ObedecidasEnFlujo
    <3>4. QED
      BY <3>1, <3>2, <3>3, SigueComienzo
  <2>2. ASSUME NEW m \in ToSet(recibidos[p]), m.de # p
        PROVE  SeFue(m.de) /\ Orden("FINALIZAR", m.de, 0) \notin ToSet(recibidos[m.de])
    <3>1. \A q \in Programas : recibidos[q] \in Seq(Ordenes) /\ DOMAIN recibidos[q] = 1..Len(recibidos[q])
      BY <2>0, LenProperties DEF Tipos
    <3>2. PICK j \in 1..Len(recibidos[p]) : m = recibidos[p][j]
      BY <3>1 DEF ToSet
    <3>3. j \in 1..Len(Flujo(p)) /\ Flujo(p)[j] = m
      BY <2>0, <3>2, ObedecidasEnFlujo
    <3>4. SeFue(m.de) /\ SinFinal(m.de)
      BY <2>2, <3>3 DEF InvMensajes, Ajenas
    <3>5. PICK q \in Programas : q = m.de
      <4>1. m \in Ordenes
        BY <3>1, <3>2, ElementOfSeq
      <4>2. QED
        BY <4>1 DEF Ordenes
    <3>6. \A i \in DOMAIN recibidos[q] : recibidos[q][i] # Orden("FINALIZAR", q, 0)
      BY <3>1, <3>4, <3>5 DEF SinFinal
    <3>7. QED
      BY <3>4, <3>5, <3>6 DEF ToSet
  <2>3. QED
    BY <2>1, <2>2
<1>2. QED
  BY <1>1, MensajesSiempre, PTL

-----------------------------------------------------------------------------
(* The CPUs that read out of step *)

\* A CPU keeps its descriptor.
LEMMA FdDeCpu ==
    ASSUME Tipos, Canales, Cpus, Lineas, Next, NEW s \in Sockets, fd[s] \in CPUs
    PROVE  fd'[s] = fd[s]
<1>0. /\ fd \in [Sockets -> Programas \cup CPUs \cup {Nada}]
      /\ fd[s] \notin Programas /\ fd[s] # Nada
  BY SupuestosMensajes DEF Tipos
<1>1. ASSUME NEW p \in Programas, Acepta(p)
      PROVE  fd'[s] = fd[s]
  <2>1. PICK k \in Sockets : fd[k] = Nada /\ fd' = [fd EXCEPT ![k] = p]
    BY <1>1, LibreTipo DEF Acepta
  <2>2. QED
    BY <1>0, <2>1
<1>2. ASSUME NEW t \in Sockets, PlpCierra(t)
      PROVE  fd'[s] = fd[s]
  <2>1. fd[t] \in Programas /\ fd' = [fd EXCEPT ![t] = Nada]
    BY <1>2 DEF PlpCierra
  <2>2. QED
    BY <1>0, <2>1
<1>3. ASSUME NEW c \in CPUs, AceptaCpu(c)
      PROVE  fd'[s] = fd[s]
  BY <1>0, <1>3, AceptaCpuHace
<1>4. ASSUME NEW c \in CPUs,
             \/ \E p \in Programas : Despacha(c, p)
             \/ Imprimir(c) \/ ImprimirTexto(c) \/ EnviarPcbProcesado(c)
             \/ PcpImprime(c) \/ PcpQuantum(c) \/ PcpTermina(c)
      PROVE  fd'[s] = fd[s]
  BY <1>4, CpuQuieto
<1>5. CASE \/ \E p \in Programas : Conecta(p) \/ EnviarDatos(p) \/ Abandona(p) \/ ProgRecibe(p)
                                   \/ ProgRecibeRoto(p)
           \/ \E t \in Sockets : PlpLee(t)
           \/ PlpRecibe \/ PlpAtiende
  BY <1>5 DEF Conecta, EnviarDatos, Abandona, ProgRecibe, ProgRecibeRoto, PlpLee, PlpRecibe,
              PlpAtiende, descriptores
<1>6. QED
  BY <1>1, <1>2, <1>3, <1>4, <1>5 DEF Next, Avanza

\* A process that was let in names the same socket for ever.
LEMMA SocketDelPcb ==
    ASSUME Tipos, Conexion, Guiones, Canales, Cpus, Lineas, Next, NEW p \in Programas, estado[p] # "no"
    PROVE  estado'[p] # "no" /\ pcb'[p].socket = pcb[p].socket
<1>1. ASSUME NEW c \in CPUs,
             \/ \E q \in Programas : Despacha(c, q)
             \/ Imprimir(c) \/ ImprimirTexto(c) \/ EnviarPcbProcesado(c)
             \/ PcpImprime(c) \/ PcpQuantum(c) \/ PcpTermina(c)
      PROVE  estado'[p] # "no" /\ pcb'[p].socket = pcb[p].socket
  BY <1>1, CpuQuieto
<1>2. CASE \/ \E q \in Programas : Conecta(q) \/ EnviarDatos(q) \/ Abandona(q) \/ ProgRecibe(q)
                                   \/ ProgRecibeRoto(q) \/ Acepta(q)
           \/ \E c \in CPUs : AceptaCpu(c)
           \/ \E s \in Sockets : PlpLee(s) \/ PlpCierra(s)
           \/ PlpRecibe \/ PlpAtiende
  <2>1. estado'[p] = estado[p] /\ pcb'[p] = pcb[p]
    BY <1>2, ProcesosFuera
  <2>2. QED
    BY <2>1
<1>3. QED
  BY <1>1, <1>2 DEF Next, Avanza

\* What puts a CPU's stream out of step is a send about a process that runs, to
\* the socket its PCB names.
LEMMA TramaCambia ==
    ASSUME Tipos, Conexion, Canales, Cpus, Lineas, Next, NEW c \in CPUs,
           trama[c] = "bien", trama'[c] # "bien"
    PROVE  \E p \in Programas : estado[p] = "cpu" /\ fd[pcb[p].socket] = c
<1>1. trama \in [CPUs -> {"bien", "corrida", "perdida"}]
  BY DEF Tipos
<1>2. ASSUME NEW s, NEW m, EnviarMensaje(s, m)
      PROVE  fd[s] = c
  BY <1>2 DEF EnviarMensaje
<1>3. ASSUME NEW d \in CPUs, NEW p \in Programas, Despacha(d, p)
      PROVE  FALSE
  BY <1>1, <1>3 DEF Despacha, Recibe
<1>4. CASE PlpAtiende
  <2>1. plp # Nada /\ fd[plp.socket] \notin CPUs
    BY <1>4, SupuestosMensajes DEF PlpAtiende, Conexion
  <2>2. \E m : EnviarMensaje(plp.socket, m)
    BY <1>4 DEF PlpAtiende, Admite, Rechaza
  <2>3. QED
    BY <1>2, <2>1, <2>2
<1>5. ASSUME NEW d \in CPUs, PcpImprime(d) \/ PcpTermina(d)
      PROVE  \E p \in Programas : estado[p] = "cpu" /\ fd[pcb[p].socket] = c
  <2>1. canal[d] # <<>>
    BY <1>5 DEF PcpImprime, PcpTermina, PcpLee
  <2>2. PICK p \in Programas : p = Head(canal[d]).proc /\ estado[p] = "cpu"
    BY <2>1, PaqueteDe
  <2>3. \E m : EnviarMensaje(pcb[p].socket, m)
    BY <1>5, <2>2 DEF PcpImprime, PcpTermina
  <2>4. QED
    BY <1>2, <2>2, <2>3
<1>6. CASE \/ \E p \in Programas : Conecta(p) \/ EnviarDatos(p) \/ Abandona(p) \/ ProgRecibe(p)
                                   \/ ProgRecibeRoto(p) \/ Acepta(p)
           \/ \E d \in CPUs : AceptaCpu(d) \/ Imprimir(d) \/ ImprimirTexto(d) \/ EnviarPcbProcesado(d)
                              \/ PcpQuantum(d)
           \/ \E s \in Sockets : PlpLee(s) \/ PlpCierra(s)
           \/ PlpRecibe
  <2>1. trama' = trama
    BY <1>6 DEF Conecta, EnviarDatos, Abandona, ProgRecibe, ProgRecibeRoto, Acepta, AceptaCpu, Imprimir,
                ImprimirTexto, Imprime, EnviarPcbProcesado, PcpQuantum, PlpLee, PlpCierra, PlpRecibe
  <2>2. QED
    BY <2>1
<1>7. QED
  BY <1>3, <1>4, <1>5, <1>6 DEF Next, Avanza

\* The process whose orders a CPU reads goes on naming it, and its program is gone.
LEMMA TramaPaso == InvMensajes /\ TramaPorReuso /\ [Next]_vars => TramaPorReuso'
<1> SUFFICES ASSUME InvMensajes, TramaPorReuso, [Next]_vars, NEW c \in CPUs, trama'[c] # "bien"
             PROVE  \E p \in Programas : SeFue(p)' /\ estado'[p] # "no" /\ fd'[pcb'[p].socket] = c
  BY DEF TramaPorReuso
<1> USE DEF InvMensajes
<1>1. CASE Next
  <2>1. PICK p \in Programas : SeFue(p) /\ estado[p] # "no" /\ fd[pcb[p].socket] = c
    <3>1. CASE trama[c] # "bien"
      BY <3>1 DEF TramaPorReuso
    <3>2. CASE trama[c] = "bien"
      <4>1. PICK p \in Programas : estado[p] = "cpu" /\ fd[pcb[p].socket] = c
        BY <1>1, <3>2, TramaCambia
      <4>2. c # p
        BY SupuestosMensajes
      <4>3. SeFue(p)
        BY <4>1, <4>2, IdaNueva DEF IdaBien
      <4>4. QED
        BY <4>1, <4>3
    <3>3. QED
      BY <3>1, <3>2
  <2>2. estado'[p] # "no" /\ pcb'[p].socket = pcb[p].socket /\ pcb[p].socket \in Sockets
    BY <1>1, <2>1, SocketDelPcb DEF Lineas, Pcb
  <2>3. fd'[pcb[p].socket] = c
    BY <1>1, <2>1, <2>2, FdDeCpu
  <2>4. SeFue(p)'
    BY <1>1, <2>1, TiposPaso, IdaQueda
  <2>5. QED
    BY <2>2, <2>3, <2>4
<1>2. CASE UNCHANGED vars
  BY <1>2 DEF vars, TramaPorReuso, SeFue
<1>3. QED
  BY <1>1, <1>2

\* Whatever the number of programs, CPUs and sockets, a CPU reads its PCBs out of
\* step only if it was given the number of a program that had gone: the kernel
\* sends the orders of a process to a CPU in no other way.
THEOREM SoloTramasPorReuso == Spec => []TramaPorReuso
<1>1. Init => TramaPorReuso
  BY DEF Init, TramaPorReuso
<1>2. QED
  BY <1>1, TramaPaso, MensajesSiempre, PTL DEF Spec
=============================================================================
