---------------------------- MODULE LugaresProofs ----------------------------
(***************************************************************************)
(* Where the PCBs are, step by step: every step of the scheduler leaves    *)
(* every PCB where it was or moves one PCB (the PCP that closes a socket,  *)
(* all that were in it) from one place to another.  From that, the PCB of a program is in one   *)
(* place only, the places of s_ready_max are conserved, and a program that *)
(* was told it ended is in Exit or destroyed.                              *)
(***************************************************************************)
EXTENDS PlanificadorProofs

-----------------------------------------------------------------------------
(* The places and the invariant *)

Clases == {"new", "ready", "exit", "plp", "pcp", "dispatcher", "worker", "canal", "mensaje",
           "cpu", "io", "hilo_io", "perdido", "destruido"}
Indices == Programas \cup CPUs \cup Dispositivos \cup {Nada}

\* The PCBs that go in a sequence of messages, Nada among them.
Pcbs(s) == {s[i].pcb : i \in DOMAIN s}
PcbsSinRepetir(s) == \A i, j \in DOMAIN s : s[i].pcb = s[j].pcb /\ s[i].pcb # Nada => i = j

\* The PCB of p is in place x of kind k.  While the PLP orders New the PCB it
\* holds is in New already.
Esta(p, k, x) ==
    \/ k = "new" /\ x = Nada /\ p \in ToSet(colaNew)
    \/ k = "ready" /\ x = Nada /\ p \in ToSet(colaReady)
    \/ k = "exit" /\ x = Nada /\ p \in ToSet(colaExit)
    \/ k = "plp" /\ x = Nada /\ plp.pc # "ordena" /\ plp.pcb = p
    \/ k = "pcp" /\ x = Nada /\ pcp.pcb = p
    \/ k = "dispatcher" /\ x = Nada /\ dispatcher.pcb = p
    \/ k = "worker" /\ x \in Programas /\ worker[x].pcb = p
    \/ k = "canal" /\ x \in CPUs /\ p \in ToSet(canal[x])
    \/ k = "mensaje" /\ x \in CPUs /\ p \in Pcbs(mensajes[x])
    \/ k = "cpu" /\ x \in CPUs /\ cpu[x].pcb = p
    \/ k = "io" /\ x \in Dispositivos /\ p \in ToSet(colaIO[x])
    \/ k = "hilo_io" /\ x \in Dispositivos /\ hiloIO[x].pcb = p
    \/ k = "perdido" /\ x = Nada /\ p \in perdidos
    \/ k = "destruido" /\ x = Nada /\ p \in destruidos

\* A thread or a CPU that has no use for a PCB holds none.
ManosVacias ==
    /\ plp.pc \in {"select", "mide", "muestra"} => plp.pcb = Nada
    /\ pcp.pc # "inserta" => pcp.pcb = Nada
    /\ dispatcher.pc # "envia" => dispatcher.pcb = Nada
    /\ \A w \in Programas : worker[w].pc # "encola" => worker[w].pcb = Nada
    /\ \A c \in CPUs : cpu[c].pc # "ejecuta" => cpu[c].pcb = Nada
    /\ \A d \in Dispositivos : hiloIO[d].pc = "espera" => hiloIO[d].pcb = Nada

\* No list and no socket has the same PCB twice.
ListasSinRepetir ==
    /\ SinRepetir(colaNew) /\ SinRepetir(colaReady) /\ SinRepetir(colaExit)
    /\ \A c \in CPUs : SinRepetir(canal[c]) /\ PcbsSinRepetir(mensajes[c])
    /\ \A d \in Dispositivos : SinRepetir(colaIO[d])

\* No PCB is in two places.
UnSoloLugar ==
    \A p \in Programas : \A k, j \in Clases : \A x, y \in Indices :
        Esta(p, k, x) /\ Esta(p, j, y) => k = j /\ x = y

\* A program that was received has its PCB somewhere, and no other has one.
AlgunLugar ==
    \A p \in Programas :
        programa[p] # "afuera" <=> \E k \in Clases : \E x \in Indices : Esta(p, k, x)

\* The inductive invariant behind PcbEnUnLugar.
InvLugares == ManosVacias /\ ListasSinRepetir /\ UnSoloLugar /\ AlgunLugar

-----------------------------------------------------------------------------
(* What a step may do with the places *)

\* Nothing.
NadaSeMueve ==
    \A p \in Programas : \A k \in Clases : \A x \in Indices : Esta(p, k, x)' <=> Esta(p, k, x)

\* Takes the PCBs of S, wherever they are, to a place.
LlevaTodos(S, k1, x1) ==
    \A p \in Programas : \A k \in Clases : \A x \in Indices :
        Esta(p, k, x)' <=> IF p \in S THEN k = k1 /\ x = x1 ELSE Esta(p, k, x)

\* Takes the PCB of q, wherever it is, to a place.
Lleva(q, k1, x1) == LlevaTodos({q}, k1, x1)

\* A PCB leaves one place for another if the two change by it and no other
\* place changes.
LEMMA Mudanza ==
    ASSUME UnSoloLugar, NEW q \in Programas,
           NEW k0 \in Clases, NEW x0 \in Indices, NEW k1 \in Clases, NEW x1 \in Indices,
           k0 # k1, Esta(q, k0, x0),
           \A p \in Programas : Esta(p, k0, x0)' <=> Esta(p, k0, x0) /\ p # q,
           \A p \in Programas : Esta(p, k1, x1)' <=> Esta(p, k1, x1) \/ p = q,
           \A p \in Programas : \A k \in Clases : \A x \in Indices :
               ~(k = k0 /\ x = x0) /\ ~(k = k1 /\ x = x1) => (Esta(p, k, x)' <=> Esta(p, k, x))
    PROVE  Lleva(q, k1, x1)
<1> SUFFICES ASSUME NEW p \in Programas, NEW k \in Clases, NEW x \in Indices
             PROVE  Esta(p, k, x)' <=> IF p = q THEN k = k1 /\ x = x1 ELSE Esta(p, k, x)
  BY DEF Lleva, LlevaTodos
<1>1. Esta(q, k, x) => k = k0 /\ x = x0
  BY DEF UnSoloLugar
<1>2. QED
  BY <1>1

\* All the PCBs of one place leave it for another if the two change by them and
\* no other place changes.
LEMMA Traslado ==
    ASSUME UnSoloLugar, NEW S,
           NEW k0 \in Clases, NEW x0 \in Indices, NEW k1 \in Clases, NEW x1 \in Indices,
           k0 # k1, \A p \in Programas : p \in S <=> Esta(p, k0, x0),
           \A p \in Programas : ~Esta(p, k0, x0)',
           \A p \in Programas : Esta(p, k1, x1)' <=> Esta(p, k1, x1) \/ p \in S,
           \A p \in Programas : \A k \in Clases : \A x \in Indices :
               ~(k = k0 /\ x = x0) /\ ~(k = k1 /\ x = x1) => (Esta(p, k, x)' <=> Esta(p, k, x))
    PROVE  LlevaTodos(S, k1, x1)
<1> SUFFICES ASSUME NEW p \in Programas, NEW k \in Clases, NEW x \in Indices
             PROVE  Esta(p, k, x)' <=> IF p \in S THEN k = k1 /\ x = x1 ELSE Esta(p, k, x)
  BY DEF LlevaTodos
<1>1. p \in S /\ Esta(p, k, x) => k = k0 /\ x = x0
  BY DEF UnSoloLugar
<1>2. QED
  BY <1>1

\* With every PCB where it was the invariant's parts about places hold.
LEMMA QuietosSiguen ==
    ASSUME UnSoloLugar, AlgunLugar, NadaSeMueve,
           \A p \in Programas : programa'[p] = "afuera" <=> programa[p] = "afuera"
    PROVE  UnSoloLugar' /\ AlgunLugar'
<1>1. UnSoloLugar'
  BY DEF UnSoloLugar, NadaSeMueve
<1>2. AlgunLugar'
  BY DEF AlgunLugar, NadaSeMueve
<1>3. QED
  BY <1>1, <1>2

\* So they do when PCBs are taken to a place, be they already in the kernel or
\* of programs that arrive.
LEMMA LlevadosSiguen ==
    ASSUME UnSoloLugar, AlgunLugar,
           NEW S, NEW k1 \in Clases, NEW x1 \in Indices, LlevaTodos(S, k1, x1),
           \A p \in Programas : programa'[p] = "afuera" <=> programa[p] = "afuera" /\ p \notin S
    PROVE  UnSoloLugar' /\ AlgunLugar'
<1>1. UnSoloLugar'
  BY DEF UnSoloLugar, LlevaTodos
<1>2. AlgunLugar'
  BY DEF AlgunLugar, LlevaTodos
<1>3. QED
  BY <1>1, <1>2

-----------------------------------------------------------------------------
(* Messages, and the names of the places *)

\* The PCBs of a sequence of messages without its first.
LEMMA PcbsTail ==
    ASSUME NEW s \in Seq(Mensaje), s # <<>>
    PROVE  /\ Pcbs(s) = Pcbs(Tail(s)) \cup {Head(s).pcb}
           /\ PcbsSinRepetir(s) => /\ PcbsSinRepetir(Tail(s))
                                   /\ Head(s).pcb # Nada => Head(s).pcb \notin Pcbs(Tail(s))
<1>1. /\ Len(s) \in Nat /\ Len(s) > 0 /\ DOMAIN s = 1..Len(s)
      /\ DOMAIN Tail(s) = 1..Len(s) - 1 /\ Head(s) = s[1]
      /\ \A i \in 1..Len(s) - 1 : Tail(s)[i] = s[i + 1]
  BY LenProperties, HeadTailProperties
<1>2. Pcbs(s) \subseteq Pcbs(Tail(s)) \cup {Head(s).pcb}
  <2>1. SUFFICES ASSUME NEW i \in 1..Len(s), i # 1 PROVE s[i].pcb \in Pcbs(Tail(s))
    BY <1>1 DEF Pcbs
  <2>2. i - 1 \in 1..Len(s) - 1 /\ Tail(s)[i - 1] = s[i]
    BY <1>1, <2>1
  <2>3. QED
    BY <1>1, <2>2 DEF Pcbs
<1>3. Pcbs(Tail(s)) \cup {Head(s).pcb} \subseteq Pcbs(s)
  BY <1>1 DEF Pcbs
<1>4. ASSUME PcbsSinRepetir(s)
      PROVE  /\ PcbsSinRepetir(Tail(s))
             /\ Head(s).pcb # Nada => Head(s).pcb \notin Pcbs(Tail(s))
  BY <1>1, <1>4 DEF PcbsSinRepetir, Pcbs
<1>5. QED
  BY <1>2, <1>3, <1>4

\* The PCBs of a sequence of messages with one more at its end.
LEMMA PcbsAppend ==
    ASSUME NEW s \in Seq(Mensaje), NEW m \in Mensaje
    PROVE  /\ Pcbs(Append(s, m)) = Pcbs(s) \cup {m.pcb}
           /\ PcbsSinRepetir(s) /\ (m.pcb = Nada \/ m.pcb \notin Pcbs(s))
                  => PcbsSinRepetir(Append(s, m))
<1>1. /\ Len(s) \in Nat /\ DOMAIN s = 1..Len(s)
      /\ DOMAIN Append(s, m) = 1..Len(s) + 1 /\ Append(s, m)[Len(s) + 1] = m
      /\ \A i \in 1..Len(s) : Append(s, m)[i] = s[i]
  BY LenProperties, AppendProperties
<1>2. Pcbs(Append(s, m)) = Pcbs(s) \cup {m.pcb}
  BY <1>1 DEF Pcbs
<1>3. ASSUME PcbsSinRepetir(s), m.pcb = Nada \/ m.pcb \notin Pcbs(s)
      PROVE  PcbsSinRepetir(Append(s, m))
  <2>1. \A i \in 1..Len(s) : s[i].pcb = m.pcb => m.pcb = Nada
    BY <1>1, <1>3 DEF Pcbs
  <2>2. QED
    BY <1>1, <1>3, <2>1 DEF PcbsSinRepetir
<1>4. QED
  BY <1>2, <1>3

\* Every kind is one of Clases and every index one of Indices.
LEMMA Nombrados ==
    /\ "new" \in Clases /\ "ready" \in Clases /\ "exit" \in Clases /\ "plp" \in Clases
    /\ "pcp" \in Clases /\ "dispatcher" \in Clases /\ "worker" \in Clases /\ "canal" \in Clases
    /\ "mensaje" \in Clases /\ "cpu" \in Clases /\ "io" \in Clases /\ "hilo_io" \in Clases
    /\ "perdido" \in Clases /\ "destruido" \in Clases
    /\ Nada \in Indices /\ Programas \subseteq Indices /\ CPUs \subseteq Indices
    /\ Dispositivos \subseteq Indices
BY DEF Clases, Indices

-----------------------------------------------------------------------------
(* The PLP *)

\* A program that arrives has its PCB with the PLP.
LEMMA LugarAceptarPrograma ==
    ASSUME TypeOK, InvLugares, NEW q \in Programas, AceptarPrograma(q)
    PROVE  Lleva(q, "plp", Nada) /\ ManosVacias' /\ ListasSinRepetir'
<1> USE ConstantesSupuestas DEF InvLugares
<1>1. /\ plp.pc = "select" /\ programa[q] = "afuera"
      /\ plp'.pc = "admision" /\ plp'.pcb = q
  BY DEF AceptarPrograma, PlpOcioso
<1>2. plp.pcb = Nada
  BY <1>1 DEF ManosVacias
<1>3. \A k \in Clases : \A x \in Indices : ~Esta(q, k, x)
  BY <1>1 DEF AlgunLugar
<1>4. \A p \in Programas : \A k \in Clases : \A x \in Indices :
         ~(k = "plp" /\ x = Nada) => (Esta(p, k, x)' <=> Esta(p, k, x))
  BY DEF AceptarPrograma, Esta, colas, cpuLado, io, historia
<1>5. \A p \in Programas : ~Esta(p, "plp", Nada) /\ (Esta(p, "plp", Nada)' <=> p = q)
  BY <1>1, <1>2 DEF Esta
<1>6. Lleva(q, "plp", Nada)
  BY <1>3, <1>4, <1>5 DEF Lleva, LlevaTodos
<1>7. ManosVacias'
  BY <1>1 DEF AceptarPrograma, ManosVacias, cpuLado, io
<1>8. ListasSinRepetir'
  BY DEF AceptarPrograma, ListasSinRepetir, colas, io
<1>9. QED
  BY <1>6, <1>7, <1>8

\* A program that is rejected has it in Exit.
LEMMA LugarRechazarPrograma ==
    ASSUME TypeOK, InvLugares, NEW q \in Programas, RechazarPrograma(q)
    PROVE  Lleva(q, "exit", Nada) /\ ManosVacias' /\ ListasSinRepetir'
<1> USE ConstantesSupuestas DEF InvLugares
<1>1. /\ programa[q] = "afuera" /\ colaExit' = Append(colaExit, q) /\ colaExit \in Seq(Programas)
  BY DEF RechazarPrograma, TypeOK, TipoColas
<1>2. \A k \in Clases : \A x \in Indices : ~Esta(q, k, x)
  BY <1>1 DEF AlgunLugar
<1>3. q \notin ToSet(colaExit)
  BY <1>2, Nombrados DEF Esta
<1>4. ToSet(colaExit') = ToSet(colaExit) \cup {q} /\ SinRepetir(colaExit')
  BY <1>1, <1>3, AppendElementos DEF ListasSinRepetir
<1>5. \A p \in Programas : \A k \in Clases : \A x \in Indices :
         ~(k = "exit" /\ x = Nada) => (Esta(p, k, x)' <=> Esta(p, k, x))
  BY DEF RechazarPrograma, Esta, cpuLado, io, historia
<1>6. \A p \in Programas : Esta(p, "exit", Nada)' <=> Esta(p, "exit", Nada) \/ p = q
  BY <1>4 DEF Esta
<1>7. Lleva(q, "exit", Nada)
  BY <1>2, <1>5, <1>6 DEF Lleva, LlevaTodos
<1>8. ManosVacias'
  BY DEF RechazarPrograma, ManosVacias, cpuLado, io
<1>9. ListasSinRepetir'
  BY <1>4 DEF RechazarPrograma, ListasSinRepetir, io
<1>10. QED
  BY <1>7, <1>8, <1>9

\* sem_trywait found room: the PCB goes from the PLP to Ready.
LEMMA LugarPlpAReady ==
    ASSUME TypeOK, InvLugares, PlpAReady
    PROVE  /\ plp.pcb \in Programas /\ Esta(plp.pcb, "plp", Nada) /\ Lleva(plp.pcb, "ready", Nada)
           /\ ManosVacias' /\ ListasSinRepetir'
<1> USE ConstantesSupuestas DEF InvLugares
<1> DEFINE q == plp.pcb
<1>1. /\ plp.pc = "a_ready" /\ q \in Programas /\ plp'.pc = "mide" /\ plp'.pcb = Nada
      /\ colaReady \in Seq(Programas) /\ colaReady' = Append(colaReady, q)
  BY DEF PlpAReady, PlpMide, PlpOcioso, TypeOK, TipoPlp, TipoColas
<1> HIDE DEF q
<1>2. Esta(q, "plp", Nada)
  BY <1>1 DEF Esta, q
<1>3. q \notin ToSet(colaReady)
  BY <1>1, <1>2, Nombrados DEF UnSoloLugar, Esta
<1>4. ToSet(colaReady') = ToSet(colaReady) \cup {q} /\ SinRepetir(colaReady')
  BY <1>1, <1>3, AppendElementos DEF ListasSinRepetir
<1>5. \A p \in Programas : \A k \in Clases : \A x \in Indices :
         ~(k = "plp" /\ x = Nada) /\ ~(k = "ready" /\ x = Nada) => (Esta(p, k, x)' <=> Esta(p, k, x))
  BY DEF PlpAReady, Esta, cpuLado, io, historia
<1>6. \A p \in Programas : Esta(p, "plp", Nada)' <=> Esta(p, "plp", Nada) /\ p # q
  BY <1>1 DEF Esta, q
<1>7. \A p \in Programas : Esta(p, "ready", Nada)' <=> Esta(p, "ready", Nada) \/ p = q
  BY <1>4 DEF Esta
<1>8. "plp" \in Clases /\ "ready" \in Clases /\ Nada \in Indices /\ UnSoloLugar
  BY Nombrados
<1>9. Lleva(q, "ready", Nada)
  BY <1>1, <1>2, <1>5, <1>6, <1>7, <1>8, Mudanza
<1>10. ManosVacias'
  BY <1>1 DEF PlpAReady, ManosVacias, cpuLado, io
<1>11. ListasSinRepetir'
  BY <1>4 DEF PlpAReady, ListasSinRepetir, io
<1>12. QED
  BY <1>1, <1>2, <1>9, <1>10, <1>11 DEF q

\* It found none: the PCB goes from the PLP to New.
LEMMA LugarPlpANew ==
    ASSUME TypeOK, InvLugares, PlpANew
    PROVE  /\ plp.pcb \in Programas /\ Esta(plp.pcb, "plp", Nada) /\ Lleva(plp.pcb, "new", Nada)
           /\ ManosVacias' /\ ListasSinRepetir'
<1> USE ConstantesSupuestas DEF InvLugares
<1> DEFINE q == plp.pcb
<1>1. /\ plp.pc = "a_new" /\ q \in Programas /\ plp'.pc = "ordena"
      /\ colaNew \in Seq(Programas) /\ colaNew' = Append(colaNew, q)
  BY DEF PlpANew, TypeOK, TipoPlp, TipoColas
<1> HIDE DEF q
<1>2. Esta(q, "plp", Nada)
  BY <1>1 DEF Esta, q
<1>3. q \notin ToSet(colaNew)
  BY <1>1, <1>2, Nombrados DEF UnSoloLugar, Esta
<1>4. ToSet(colaNew') = ToSet(colaNew) \cup {q} /\ SinRepetir(colaNew')
  BY <1>1, <1>3, AppendElementos DEF ListasSinRepetir
<1>5. \A p \in Programas : \A k \in Clases : \A x \in Indices :
         ~(k = "plp" /\ x = Nada) /\ ~(k = "new" /\ x = Nada) => (Esta(p, k, x)' <=> Esta(p, k, x))
  BY DEF PlpANew, Esta, cpuLado, io, historia
<1>6. \A p \in Programas : Esta(p, "plp", Nada)' <=> Esta(p, "plp", Nada) /\ p # q
  BY <1>1 DEF Esta, q
<1>7. \A p \in Programas : Esta(p, "new", Nada)' <=> Esta(p, "new", Nada) \/ p = q
  BY <1>4 DEF Esta
<1>8. "plp" \in Clases /\ "new" \in Clases /\ Nada \in Indices /\ UnSoloLugar
  BY Nombrados
<1>9. Lleva(q, "new", Nada)
  BY <1>1, <1>2, <1>5, <1>6, <1>7, <1>8, Mudanza
<1>10. ManosVacias'
  BY <1>1 DEF PlpANew, ManosVacias, cpuLado, io
<1>11. ListasSinRepetir'
  BY <1>4 DEF PlpANew, ListasSinRepetir, io
<1>12. QED
  BY <1>1, <1>2, <1>9, <1>10, <1>11 DEF q

-----------------------------------------------------------------------------
(* The wt_nar threads *)

\* The first PCB of New goes to the worker that takes it.
LEMMA LugarWorkerSaca ==
    ASSUME TypeOK, InvLugares, NEW w \in Programas, WorkerSaca(w), colaNew # <<>>
    PROVE  /\ Head(colaNew) \in Programas
           /\ Esta(Head(colaNew), "new", Nada) /\ Lleva(Head(colaNew), "worker", w)
           /\ ManosVacias' /\ ListasSinRepetir'
<1> USE ConstantesSupuestas DEF InvLugares
<1> DEFINE q == Head(colaNew)
<1>1. /\ worker[w].pc = "saca" /\ colaNew \in Seq(Programas) /\ q \in Programas
      /\ colaNew' = Tail(colaNew)
      /\ worker' = [worker EXCEPT ![w] = [pc |-> "encola", pcb |-> q]]
      /\ worker'[w].pc = "encola" /\ worker'[w].pcb = q
      /\ \A u \in Programas : u # w => worker'[u] = worker[u]
  BY HeadTailProperties DEF WorkerSaca, TypeOK, TipoWorkers, TipoColas
<1>2. /\ ToSet(colaNew) = ToSet(colaNew') \cup {q}
      /\ SinRepetir(colaNew') /\ q \notin ToSet(colaNew')
  BY <1>1, TailElementos DEF ListasSinRepetir
<1> HIDE DEF q
<1>3. worker[w].pcb = Nada
  BY <1>1 DEF ManosVacias
<1>4. Esta(q, "new", Nada)
  BY <1>2 DEF Esta
<1>5. \A p \in Programas : \A k \in Clases : \A x \in Indices :
         ~(k = "new" /\ x = Nada) /\ ~(k = "worker" /\ x = w) => (Esta(p, k, x)' <=> Esta(p, k, x))
  BY <1>1 DEF WorkerSaca, Esta, sems, cpuLado, io, historia
<1>6. \A p \in Programas : Esta(p, "new", Nada)' <=> Esta(p, "new", Nada) /\ p # q
  BY <1>2 DEF Esta
<1>7. \A p \in Programas : Esta(p, "worker", w)' <=> Esta(p, "worker", w) \/ p = q
  BY <1>1, <1>3 DEF Esta
<1>8. "new" \in Clases /\ "worker" \in Clases /\ Nada \in Indices /\ w \in Indices /\ UnSoloLugar
  BY Nombrados
<1>9. Lleva(q, "worker", w)
  BY <1>1, <1>4, <1>5, <1>6, <1>7, <1>8, Mudanza
<1>10. ManosVacias'
  BY <1>1 DEF WorkerSaca, ManosVacias, cpuLado, io
<1>11. ListasSinRepetir'
  BY <1>2 DEF WorkerSaca, ListasSinRepetir, io
<1>12. QED
  BY <1>1, <1>4, <1>9, <1>10, <1>11 DEF q

\* And from the worker to Ready.
LEMMA LugarWorkerEncola ==
    ASSUME TypeOK, InvLugares, NEW w \in Programas, WorkerEncola(w)
    PROVE  /\ worker[w].pcb \in Programas
           /\ Esta(worker[w].pcb, "worker", w) /\ Lleva(worker[w].pcb, "ready", Nada)
           /\ ManosVacias' /\ ListasSinRepetir'
<1> USE ConstantesSupuestas DEF InvLugares
<1> DEFINE q == worker[w].pcb
<1>1. /\ worker[w].pc = "encola" /\ q \in Programas
      /\ colaReady \in Seq(Programas) /\ colaReady' = Append(colaReady, q)
      /\ worker'[w].pc = "fin" /\ worker'[w].pcb = Nada
      /\ \A u \in Programas : u # w => worker'[u] = worker[u]
  BY DEF WorkerEncola, TypeOK, TipoWorkers, TipoColas
<1> HIDE DEF q
<1>2. Esta(q, "worker", w)
  BY <1>1 DEF Esta, q
<1>3. q \notin ToSet(colaReady)
  BY <1>1, <1>2, Nombrados DEF UnSoloLugar, Esta
<1>4. ToSet(colaReady') = ToSet(colaReady) \cup {q} /\ SinRepetir(colaReady')
  BY <1>1, <1>3, AppendElementos DEF ListasSinRepetir
<1>5. \A p \in Programas : \A k \in Clases : \A x \in Indices :
         ~(k = "worker" /\ x = w) /\ ~(k = "ready" /\ x = Nada) => (Esta(p, k, x)' <=> Esta(p, k, x))
  BY <1>1 DEF WorkerEncola, Esta, cpuLado, io, historia
<1>6. \A p \in Programas : Esta(p, "worker", w)' <=> Esta(p, "worker", w) /\ p # q
  BY <1>1 DEF Esta, q
<1>7. \A p \in Programas : Esta(p, "ready", Nada)' <=> Esta(p, "ready", Nada) \/ p = q
  BY <1>4 DEF Esta
<1>8. "worker" \in Clases /\ "ready" \in Clases /\ Nada \in Indices /\ w \in Indices /\ UnSoloLugar
  BY Nombrados
<1>9. Lleva(q, "ready", Nada)
  BY <1>1, <1>2, <1>5, <1>6, <1>7, <1>8, Mudanza
<1>10. ManosVacias'
  BY <1>1 DEF WorkerEncola, ManosVacias, cpuLado, io
<1>11. ListasSinRepetir'
  BY <1>4 DEF WorkerEncola, ListasSinRepetir, io
<1>12. QED
  BY <1>1, <1>2, <1>9, <1>10, <1>11 DEF q

-----------------------------------------------------------------------------
(* The dispatcher *)

\* The first PCB of Ready goes to the dispatcher.
LEMMA LugarDispTomaPcb ==
    ASSUME TypeOK, InvLugares, DispTomaPcb, colaReady # <<>>
    PROVE  /\ Head(colaReady) \in Programas
           /\ Esta(Head(colaReady), "ready", Nada) /\ Lleva(Head(colaReady), "dispatcher", Nada)
           /\ ManosVacias' /\ ListasSinRepetir'
<1> USE ConstantesSupuestas DEF InvLugares
<1> DEFINE q == Head(colaReady)
<1>1. /\ dispatcher.pc = "toma_pcb" /\ colaReady \in Seq(Programas) /\ q \in Programas
      /\ colaReady' = Tail(colaReady)
      /\ dispatcher'.pc = "envia" /\ dispatcher'.pcb = q
  BY HeadTailProperties DEF DispTomaPcb, TypeOK, TipoDispatcher, TipoColas
<1>2. /\ ToSet(colaReady) = ToSet(colaReady') \cup {q}
      /\ SinRepetir(colaReady') /\ q \notin ToSet(colaReady')
  BY <1>1, TailElementos DEF ListasSinRepetir
<1> HIDE DEF q
<1>3. dispatcher.pcb = Nada
  BY <1>1 DEF ManosVacias
<1>4. Esta(q, "ready", Nada)
  BY <1>2 DEF Esta
<1>5. \A p \in Programas : \A k \in Clases : \A x \in Indices :
         ~(k = "ready" /\ x = Nada) /\ ~(k = "dispatcher" /\ x = Nada)
            => (Esta(p, k, x)' <=> Esta(p, k, x))
  BY DEF DispTomaPcb, Esta, sems, cpuLado, io, historia
<1>6. \A p \in Programas : Esta(p, "ready", Nada)' <=> Esta(p, "ready", Nada) /\ p # q
  BY <1>2 DEF Esta
<1>7. \A p \in Programas : Esta(p, "dispatcher", Nada)' <=> Esta(p, "dispatcher", Nada) \/ p = q
  BY <1>1, <1>3 DEF Esta
<1>8. "ready" \in Clases /\ "dispatcher" \in Clases /\ Nada \in Indices /\ UnSoloLugar
  BY Nombrados
<1>9. Lleva(q, "dispatcher", Nada)
  BY <1>1, <1>4, <1>5, <1>6, <1>7, <1>8, Mudanza
<1>10. ManosVacias'
  BY <1>1 DEF DispTomaPcb, ManosVacias, cpuLado, io
<1>11. ListasSinRepetir'
  BY <1>2 DEF DispTomaPcb, ListasSinRepetir, io
<1>12. QED
  BY <1>1, <1>4, <1>9, <1>10, <1>11 DEF q

\* From the dispatcher it goes to the socket of the CPU that has the number now,
\* or it is lost.
LEMMA LugarDispEnvia ==
    ASSUME TypeOK, InvLugares, DispEnvia
    PROVE  /\ dispatcher.pcb \in Programas /\ Esta(dispatcher.pcb, "dispatcher", Nada)
           /\ \/ \E c \in CPUs : Lleva(dispatcher.pcb, "canal", c)
              \/ Lleva(dispatcher.pcb, "perdido", Nada)
           /\ ManosVacias' /\ ListasSinRepetir'
<1> USE ConstantesSupuestas DEF InvLugares
<1> DEFINE q == dispatcher.pcb
<1>1. /\ dispatcher.pc = "envia" /\ q \in Programas
      /\ dispatcher'.pc \in {"espera", "muerto"} /\ dispatcher'.pcb = Nada
      /\ canal \in [CPUs -> Seq(Programas)]
  BY DEF DispEnvia, DispEspera, TypeOK, TipoDispatcher, TipoCpu
<1>2. \/ perdidos' = perdidos \cup {q} /\ canal' = canal
      \/ \E c \in CPUs : perdidos' = perdidos /\ canal' = [canal EXCEPT ![c] = Append(@, q)]
  BY DEF DispEnvia
<1> HIDE DEF q
<1>3. Esta(q, "dispatcher", Nada)
  BY <1>1 DEF Esta, q
<1>4. \A p \in Programas : Esta(p, "dispatcher", Nada)' <=> Esta(p, "dispatcher", Nada) /\ p # q
  BY <1>1 DEF Esta, q
<1>5. /\ "dispatcher" \in Clases /\ "canal" \in Clases /\ "perdido" \in Clases
      /\ Nada \in Indices /\ UnSoloLugar
  BY <1>1, Nombrados
<1>6. CASE perdidos' = perdidos \cup {q} /\ canal' = canal
  <2>1. \A p \in Programas : \A k \in Clases : \A x \in Indices :
           ~(k = "dispatcher" /\ x = Nada) /\ ~(k = "perdido" /\ x = Nada)
              => (Esta(p, k, x)' <=> Esta(p, k, x))
    BY <1>6 DEF DispEnvia, Esta, colas, cpuLado, io
  <2>2. \A p \in Programas : Esta(p, "perdido", Nada)' <=> Esta(p, "perdido", Nada) \/ p = q
    BY <1>6 DEF Esta
  <2>3. Lleva(q, "perdido", Nada)
    BY <1>1, <1>3, <1>4, <1>5, <2>1, <2>2, Mudanza
  <2>4. ManosVacias'
    BY <1>1 DEF DispEnvia, ManosVacias, cpuLado, io
  <2>5. ListasSinRepetir'
    BY <1>6 DEF DispEnvia, ListasSinRepetir, colas, io
  <2>6. QED
    BY <1>1, <1>3, <2>3, <2>4, <2>5 DEF q
<1>7. ASSUME NEW c \in CPUs, perdidos' = perdidos, canal' = [canal EXCEPT ![c] = Append(@, q)]
      PROVE  /\ Lleva(q, "canal", c) /\ ManosVacias' /\ ListasSinRepetir'
  <2>1. canal'[c] = Append(canal[c], q) /\ \A b \in CPUs : b # c => canal'[b] = canal[b]
    BY <1>1, <1>7
  <2>2. q \notin ToSet(canal[c])
    BY <1>1, <1>3, <1>5, Nombrados DEF UnSoloLugar, Esta
  <2>3. ToSet(canal'[c]) = ToSet(canal[c]) \cup {q} /\ SinRepetir(canal'[c])
    BY <1>1, <2>1, <2>2, AppendElementos DEF ListasSinRepetir
  <2>4. \A p \in Programas : \A k \in Clases : \A x \in Indices :
           ~(k = "dispatcher" /\ x = Nada) /\ ~(k = "canal" /\ x = c)
              => (Esta(p, k, x)' <=> Esta(p, k, x))
    BY <1>7, <2>1 DEF DispEnvia, Esta, colas, cpuLado, io
  <2>5. \A p \in Programas : Esta(p, "canal", c)' <=> Esta(p, "canal", c) \/ p = q
    BY <1>1, <2>3 DEF Esta
  <2>6. Lleva(q, "canal", c)
    BY <1>1, <1>3, <1>4, <1>5, <2>4, <2>5, Nombrados, Mudanza
  <2>7. ManosVacias'
    BY <1>1 DEF DispEnvia, ManosVacias, cpuLado, io
  <2>8. ListasSinRepetir'
    BY <1>7, <2>1, <2>3 DEF DispEnvia, ListasSinRepetir, colas, io
  <2>9. QED
    BY <2>6, <2>7, <2>8
<1>8. QED
  BY <1>1, <1>2, <1>3, <1>6, <1>7 DEF q

-----------------------------------------------------------------------------
(* The PCP *)

\* A message with a PCB that the PCP receives: the PCB leaves the socket.
LEMMA PcbRecibido ==
    ASSUME TypeOK, InvLugares, NEW c \in CPUs, Recibe(c, {"S", "Q", "X", "F", "E"})
    PROVE  /\ Head(mensajes[c]).pcb \in Programas /\ Head(mensajes[c]) \in Mensaje
           /\ Esta(Head(mensajes[c]).pcb, "mensaje", c)
           /\ \A p \in Programas : Esta(p, "mensaje", c)'
                 <=> Esta(p, "mensaje", c) /\ p # Head(mensajes[c]).pcb
           /\ \A b \in CPUs : b # c => mensajes'[b] = mensajes[b]
           /\ \A b \in CPUs : PcbsSinRepetir(mensajes'[b])
<1> USE ConstantesSupuestas DEF InvLugares
<1> DEFINE m == Head(mensajes[c])
           s == mensajes[c]
<1>1. mensajes \in [CPUs -> Seq(Mensaje)] /\ s \in Seq(Mensaje) /\ s # <<>>
  BY DEF Recibe, TypeOK, TipoMensajes
<1>2. m \in Mensaje /\ m.tipo \in {"S", "Q", "X", "F", "E"}
  BY <1>1, HeadTailProperties DEF Recibe
<1>3. m.pcb \in Programas /\ m.pcb # Nada
  BY <1>2 DEF Mensaje
<1>4. mensajes'[c] = Tail(s) /\ \A b \in CPUs : b # c => mensajes'[b] = mensajes[b]
  BY <1>1 DEF Recibe
<1>5. \A b \in CPUs : PcbsSinRepetir(mensajes[b])
  BY DEF ListasSinRepetir
<1> HIDE DEF m, s
<1>6. /\ Pcbs(s) = Pcbs(Tail(s)) \cup {m.pcb}
      /\ PcbsSinRepetir(Tail(s)) /\ m.pcb \notin Pcbs(Tail(s))
  BY <1>1, <1>3, <1>5, PcbsTail DEF m, s
<1>7. Esta(m.pcb, "mensaje", c)
  BY <1>6 DEF Esta, s
<1>8. \A p \in Programas : Esta(p, "mensaje", c)' <=> Esta(p, "mensaje", c) /\ p # m.pcb
  BY <1>4, <1>6 DEF Esta, s
<1>9. \A b \in CPUs : PcbsSinRepetir(mensajes'[b])
  BY <1>4, <1>5, <1>6
<1>10. QED
  BY <1>2, <1>3, <1>4, <1>7, <1>8, <1>9 DEF m

\* 'Q' and 'X': the PCB goes from the socket to the PCP.
LEMMA LugarPcpMideReady ==
    ASSUME TypeOK, InvLugares, NEW c \in CPUs, PcpMideReady(c)
    PROVE  /\ Head(mensajes[c]).pcb \in Programas /\ Esta(Head(mensajes[c]).pcb, "mensaje", c)
           /\ Lleva(Head(mensajes[c]).pcb, "pcp", Nada)
           /\ ManosVacias' /\ ListasSinRepetir'
<1> USE ConstantesSupuestas DEF InvLugares
<1> DEFINE q == Head(mensajes[c]).pcb
<1>1. /\ q \in Programas /\ Esta(q, "mensaje", c)
      /\ \A p \in Programas : Esta(p, "mensaje", c)' <=> Esta(p, "mensaje", c) /\ p # q
      /\ \A b \in CPUs : b # c => mensajes'[b] = mensajes[b]
      /\ \A b \in CPUs : PcbsSinRepetir(mensajes'[b])
  <2>1. Recibe(c, {"S", "Q", "X", "F", "E"})
    BY DEF PcpMideReady, Recibe
  <2>2. QED
    BY <2>1, PcbRecibido
<1>2. pcp.pc = "select" /\ pcp'.pc = "inserta" /\ pcp'.pcb = q
  BY DEF PcpMideReady, Recibe, PcpOcioso
<1> HIDE DEF q
<1>3. pcp.pcb = Nada
  BY <1>2 DEF ManosVacias
<1>4. \A p \in Programas : \A k \in Clases : \A x \in Indices :
         ~(k = "mensaje" /\ x = c) /\ ~(k = "pcp" /\ x = Nada) => (Esta(p, k, x)' <=> Esta(p, k, x))
  BY <1>1 DEF PcpMideReady, Esta, colas, cpuLado, io, historia
<1>5. \A p \in Programas : Esta(p, "pcp", Nada)' <=> Esta(p, "pcp", Nada) \/ p = q
  BY <1>2, <1>3 DEF Esta
<1>6. "mensaje" \in Clases /\ "pcp" \in Clases /\ Nada \in Indices /\ c \in Indices /\ UnSoloLugar
  BY Nombrados
<1>7. Lleva(q, "pcp", Nada)
  BY <1>1, <1>4, <1>5, <1>6, Mudanza
<1>8. ManosVacias'
  BY <1>2 DEF PcpMideReady, ManosVacias, cpuLado, io
<1>9. ListasSinRepetir'
  BY <1>1 DEF PcpMideReady, ListasSinRepetir, colas, io
<1>10. QED
  BY <1>1, <1>7, <1>8, <1>9 DEF q

\* 'F' and 'E': from the socket to Exit.
LEMMA LugarPcpTermina ==
    ASSUME TypeOK, InvLugares, NEW c \in CPUs, PcpTermina(c)
    PROVE  /\ Head(mensajes[c]).pcb \in Programas /\ Esta(Head(mensajes[c]).pcb, "mensaje", c)
           /\ Lleva(Head(mensajes[c]).pcb, "exit", Nada)
           /\ ManosVacias' /\ ListasSinRepetir'
<1> USE ConstantesSupuestas DEF InvLugares
<1> DEFINE q == Head(mensajes[c]).pcb
<1>1. /\ q \in Programas /\ Esta(q, "mensaje", c)
      /\ \A p \in Programas : Esta(p, "mensaje", c)' <=> Esta(p, "mensaje", c) /\ p # q
      /\ \A b \in CPUs : b # c => mensajes'[b] = mensajes[b]
      /\ \A b \in CPUs : PcbsSinRepetir(mensajes'[b])
  <2>1. Recibe(c, {"S", "Q", "X", "F", "E"})
    BY DEF PcpTermina, Recibe
  <2>2. QED
    BY <2>1, PcbRecibido
<1>2. /\ colaExit \in Seq(Programas) /\ colaExit' = Append(colaExit, q)
      /\ pcp.pc = "select" /\ pcp'.pc = "libera" /\ pcp'.pcb = Nada
  BY DEF PcpTermina, Recibe, PcpOcioso, TypeOK, TipoColas
<1> HIDE DEF q
<1>3. q \notin ToSet(colaExit)
  BY <1>1, Nombrados DEF UnSoloLugar, Esta
<1>4. ToSet(colaExit') = ToSet(colaExit) \cup {q} /\ SinRepetir(colaExit')
  BY <1>1, <1>2, <1>3, AppendElementos DEF ListasSinRepetir
<1>5. pcp.pcb = Nada
  BY <1>2 DEF ManosVacias
<1>6. \A p \in Programas : \A k \in Clases : \A x \in Indices :
         ~(k = "mensaje" /\ x = c) /\ ~(k = "exit" /\ x = Nada) => (Esta(p, k, x)' <=> Esta(p, k, x))
  BY <1>1, <1>2, <1>5 DEF PcpTermina, Esta, cpuLado, io, historia
<1>7. \A p \in Programas : Esta(p, "exit", Nada)' <=> Esta(p, "exit", Nada) \/ p = q
  BY <1>4 DEF Esta
<1>8. "mensaje" \in Clases /\ "exit" \in Clases /\ Nada \in Indices /\ c \in Indices /\ UnSoloLugar
  BY Nombrados
<1>9. Lleva(q, "exit", Nada)
  BY <1>1, <1>6, <1>7, <1>8, Mudanza
<1>10. ManosVacias'
  BY <1>2 DEF PcpTermina, ManosVacias, cpuLado, io
<1>11. ListasSinRepetir'
  BY <1>1, <1>4 DEF PcpTermina, ListasSinRepetir, io
<1>12. QED
  BY <1>1, <1>9, <1>10, <1>11 DEF q

\* 'S': from the socket to the queue of the device, or it is lost because no
\* device has that name.
LEMMA LugarPcpEntradaSalida ==
    ASSUME TypeOK, InvLugares, NEW c \in CPUs, PcpEntradaSalida(c)
    PROVE  /\ Head(mensajes[c]).pcb \in Programas /\ Esta(Head(mensajes[c]).pcb, "mensaje", c)
           /\ \/ \E d \in Dispositivos : Lleva(Head(mensajes[c]).pcb, "io", d)
              \/ Lleva(Head(mensajes[c]).pcb, "perdido", Nada)
           /\ ManosVacias' /\ ListasSinRepetir'
<1> USE ConstantesSupuestas DEF InvLugares
<1> DEFINE q == Head(mensajes[c]).pcb
<1>0. PICK d : d = Head(mensajes[c]).disp
  OBVIOUS
<1>1. /\ q \in Programas /\ Esta(q, "mensaje", c)
      /\ \A p \in Programas : Esta(p, "mensaje", c)' <=> Esta(p, "mensaje", c) /\ p # q
      /\ \A b \in CPUs : b # c => mensajes'[b] = mensajes[b]
      /\ \A b \in CPUs : PcbsSinRepetir(mensajes'[b])
  <2>1. Recibe(c, {"S", "Q", "X", "F", "E"})
    BY DEF PcpEntradaSalida, Recibe
  <2>2. QED
    BY <2>1, PcbRecibido
<1>2. /\ colaIO \in [Dispositivos -> Seq(Programas)]
      /\ \/ /\ d \in Dispositivos
            /\ colaIO' = [colaIO EXCEPT ![d] = Append(@, q)] /\ perdidos' = perdidos
         \/ perdidos' = perdidos \cup {q} /\ colaIO' = colaIO
  BY <1>0 DEF PcpEntradaSalida, TypeOK, TipoIO
<1> HIDE DEF q
<1>3. /\ "mensaje" \in Clases /\ "io" \in Clases /\ "perdido" \in Clases /\ Nada \in Indices
      /\ c \in Indices /\ (d \in Dispositivos => d \in Indices) /\ UnSoloLugar
  BY Nombrados
<1>4. ManosVacias'
  BY DEF PcpEntradaSalida, ManosVacias, cpuLado
<1>5. CASE d \in Dispositivos /\ colaIO' = [colaIO EXCEPT ![d] = Append(@, q)] /\ perdidos' = perdidos
  <2>1. colaIO'[d] = Append(colaIO[d], q) /\ \A e \in Dispositivos : e # d => colaIO'[e] = colaIO[e]
    BY <1>2, <1>5
  <2>2. q \notin ToSet(colaIO[d])
    BY <1>1, <1>3, <1>5 DEF UnSoloLugar, Esta
  <2>3. ToSet(colaIO'[d]) = ToSet(colaIO[d]) \cup {q} /\ SinRepetir(colaIO'[d])
    BY <1>1, <1>2, <1>5, <2>1, <2>2, AppendElementos DEF ListasSinRepetir
  <2>4. \A p \in Programas : \A k \in Clases : \A x \in Indices :
           ~(k = "mensaje" /\ x = c) /\ ~(k = "io" /\ x = d) => (Esta(p, k, x)' <=> Esta(p, k, x))
    BY <1>1, <1>5, <2>1 DEF PcpEntradaSalida, Esta, colas, cpuLado
  <2>5. \A p \in Programas : Esta(p, "io", d)' <=> Esta(p, "io", d) \/ p = q
    BY <1>5, <2>3 DEF Esta
  <2>6. Lleva(q, "io", d)
    BY <1>1, <1>3, <1>5, <2>4, <2>5, Mudanza
  <2>7. ListasSinRepetir'
    BY <1>1, <2>1, <2>3 DEF PcpEntradaSalida, ListasSinRepetir, colas
  <2>8. QED
    BY <1>1, <1>4, <1>5, <2>6, <2>7 DEF q
<1>6. CASE perdidos' = perdidos \cup {q} /\ colaIO' = colaIO
  <2>1. \A p \in Programas : \A k \in Clases : \A x \in Indices :
           ~(k = "mensaje" /\ x = c) /\ ~(k = "perdido" /\ x = Nada)
              => (Esta(p, k, x)' <=> Esta(p, k, x))
    BY <1>1, <1>6 DEF PcpEntradaSalida, Esta, colas, cpuLado
  <2>2. \A p \in Programas : Esta(p, "perdido", Nada)' <=> Esta(p, "perdido", Nada) \/ p = q
    BY <1>6 DEF Esta
  <2>3. Lleva(q, "perdido", Nada)
    BY <1>1, <1>3, <2>1, <2>2, Mudanza
  <2>4. ListasSinRepetir'
    BY <1>1, <1>6 DEF PcpEntradaSalida, ListasSinRepetir, colas
  <2>5. QED
    BY <1>1, <1>4, <2>3, <2>4 DEF q
<1>7. QED
  BY <1>2, <1>5, <1>6

\* An insertion in Ready of a PCB that is in another place: it is in Ready, or
\* it is lost when list_add_in_index ignores the position.
LEMMA LugarInsertarEnReady ==
    ASSUME TypeOK, InvLugares, NEW pos \in Nat, NEW q \in Programas, InsertarEnReady(pos, q),
           NEW k0 \in Clases, NEW x0 \in Indices, k0 \notin {"ready", "perdido"}, Esta(q, k0, x0),
           \A p \in Programas : Esta(p, k0, x0)' <=> Esta(p, k0, x0) /\ p # q,
           \A p \in Programas : \A k \in Clases \ {"ready", "perdido"} : \A x \in Indices :
               ~(k = k0 /\ x = x0) => (Esta(p, k, x)' <=> Esta(p, k, x))
    PROVE  /\ SinRepetir(colaReady')
           /\ Lleva(q, "ready", Nada) \/ Lleva(q, "perdido", Nada)
<1> USE ConstantesSupuestas DEF InvLugares
<1>1. /\ colaReady \in Seq(Programas) /\ colaReady' = ListAddInIndex(colaReady, pos, q)
      /\ perdidos' = IF pos <= Len(colaReady) THEN perdidos ELSE perdidos \cup {q}
  BY DEF InsertarEnReady, historia, TypeOK, TipoColas
<1>2. q \notin ToSet(colaReady)
  BY Nombrados DEF UnSoloLugar, Esta
<1>3. /\ ToSet(colaReady') = IF pos <= Len(colaReady) THEN ToSet(colaReady) \cup {q}
                             ELSE ToSet(colaReady)
      /\ SinRepetir(colaReady')
  BY <1>1, <1>2, ListAddInIndexElementos DEF ListasSinRepetir
<1>4. "ready" \in Clases /\ "perdido" \in Clases /\ Nada \in Indices /\ UnSoloLugar
  BY Nombrados
<1>5. CASE pos <= Len(colaReady)
  <2>1. \A p \in Programas : Esta(p, "ready", Nada)' <=> Esta(p, "ready", Nada) \/ p = q
    BY <1>3, <1>5 DEF Esta
  <2>2. \A p \in Programas : \A x \in Indices : Esta(p, "perdido", x)' <=> Esta(p, "perdido", x)
    BY <1>1, <1>5 DEF Esta
  <2>3. \A p \in Programas : \A x \in Indices :
           x # Nada => (Esta(p, "ready", x)' <=> Esta(p, "ready", x))
    BY DEF Esta
  <2>4. \A p \in Programas : \A k \in Clases : \A x \in Indices :
           ~(k = k0 /\ x = x0) /\ ~(k = "ready" /\ x = Nada) => (Esta(p, k, x)' <=> Esta(p, k, x))
    BY <2>2, <2>3
  <2>5. Lleva(q, "ready", Nada)
    BY <1>4, <2>1, <2>4, Mudanza
  <2>6. QED
    BY <1>3, <2>5
<1>6. CASE ~(pos <= Len(colaReady))
  <2>1. \A p \in Programas : Esta(p, "perdido", Nada)' <=> Esta(p, "perdido", Nada) \/ p = q
    BY <1>1, <1>6 DEF Esta
  <2>2. \A p \in Programas : \A x \in Indices : Esta(p, "ready", x)' <=> Esta(p, "ready", x)
    BY <1>3, <1>6 DEF Esta
  <2>3. \A p \in Programas : \A x \in Indices :
           x # Nada => (Esta(p, "perdido", x)' <=> Esta(p, "perdido", x))
    BY DEF Esta
  <2>4. \A p \in Programas : \A k \in Clases : \A x \in Indices :
           ~(k = k0 /\ x = x0) /\ ~(k = "perdido" /\ x = Nada) => (Esta(p, k, x)' <=> Esta(p, k, x))
    BY <2>2, <2>3
  <2>5. Lleva(q, "perdido", Nada)
    BY <1>4, <2>1, <2>4, Mudanza
  <2>6. QED
    BY <1>3, <2>5
<1>7. QED
  BY <1>5, <1>6

\* The PCB of the PCP goes to Ready, or it is lost.
LEMMA LugarPcpInserta ==
    ASSUME TypeOK, InvLugares, PcpInserta
    PROVE  /\ pcp.pcb \in Programas /\ Esta(pcp.pcb, "pcp", Nada)
           /\ Lleva(pcp.pcb, "ready", Nada) \/ Lleva(pcp.pcb, "perdido", Nada)
           /\ ManosVacias' /\ ListasSinRepetir'
<1> USE ConstantesSupuestas DEF InvLugares
<1> DEFINE q == pcp.pcb
<1>1. /\ pcp.pc = "inserta" /\ q \in Programas /\ pcp.tam \in Nat
      /\ pcp'.pc = "select" /\ pcp'.pcb = Nada
  BY DEF PcpInserta, PcpOcioso, TypeOK, TipoPcp
<1>2. InsertarEnReady(pcp.tam, q)
  BY DEF PcpInserta
<1> HIDE DEF q
<1>3. Esta(q, "pcp", Nada)
  BY <1>1 DEF Esta, q
<1>4. \A p \in Programas : Esta(p, "pcp", Nada)' <=> Esta(p, "pcp", Nada) /\ p # q
  BY <1>1 DEF Esta, q
<1>5. \A p \in Programas : \A k \in Clases \ {"ready", "perdido"} : \A x \in Indices :
         ~(k = "pcp" /\ x = Nada) => (Esta(p, k, x)' <=> Esta(p, k, x))
  BY DEF PcpInserta, Esta, cpuLado, io
<1>6. "pcp" \in Clases /\ Nada \in Indices
  BY Nombrados
<1>7. SinRepetir(colaReady') /\ (Lleva(q, "ready", Nada) \/ Lleva(q, "perdido", Nada))
  BY <1>1, <1>2, <1>3, <1>4, <1>5, <1>6, LugarInsertarEnReady
<1>8. ManosVacias'
  BY <1>1 DEF PcpInserta, ManosVacias, cpuLado, io
<1>9. ListasSinRepetir'
  BY <1>7 DEF PcpInserta, ListasSinRepetir, io
<1>10. QED
  BY <1>1, <1>3, <1>7, <1>8, <1>9 DEF q

-----------------------------------------------------------------------------
(* The devices *)

\* The first PCB of the queue of a device goes to its thread.
LEMMA LugarIOToma ==
    ASSUME TypeOK, InvLugares, NEW d \in Dispositivos, IOToma(d)
    PROVE  /\ Head(colaIO[d]) \in Programas
           /\ Esta(Head(colaIO[d]), "io", d) /\ Lleva(Head(colaIO[d]), "hilo_io", d)
           /\ ManosVacias' /\ ListasSinRepetir'
<1> USE ConstantesSupuestas DEF InvLugares
<1> DEFINE q == Head(colaIO[d])
<1>1. /\ hiloIO[d].pc = "espera" /\ colaIO[d] \in Seq(Programas) /\ colaIO[d] # <<>>
      /\ q \in Programas /\ colaIO'[d] = Tail(colaIO[d])
      /\ \A e \in Dispositivos : e # d => colaIO'[e] = colaIO[e] /\ hiloIO'[e] = hiloIO[e]
      /\ hiloIO'[d].pc = "duerme" /\ hiloIO'[d].pcb = q
  BY HeadTailProperties DEF IOToma, TypeOK, TipoIO
<1>2. /\ ToSet(colaIO[d]) = ToSet(colaIO'[d]) \cup {q}
      /\ SinRepetir(colaIO'[d]) /\ q \notin ToSet(colaIO'[d])
  BY <1>1, TailElementos DEF ListasSinRepetir
<1> HIDE DEF q
<1>3. hiloIO[d].pcb = Nada
  BY <1>1 DEF ManosVacias
<1>4. Esta(q, "io", d)
  BY <1>2 DEF Esta
<1>5. \A p \in Programas : \A k \in Clases : \A x \in Indices :
         ~(k = "io" /\ x = d) /\ ~(k = "hilo_io" /\ x = d) => (Esta(p, k, x)' <=> Esta(p, k, x))
  BY <1>1 DEF IOToma, Esta, colas, cpuLado, historia
<1>6. \A p \in Programas : Esta(p, "io", d)' <=> Esta(p, "io", d) /\ p # q
  BY <1>2 DEF Esta
<1>7. \A p \in Programas : Esta(p, "hilo_io", d)' <=> Esta(p, "hilo_io", d) \/ p = q
  BY <1>1, <1>3 DEF Esta
<1>8. "io" \in Clases /\ "hilo_io" \in Clases /\ d \in Indices /\ UnSoloLugar
  BY Nombrados
<1>9. Lleva(q, "hilo_io", d)
  BY <1>1, <1>4, <1>5, <1>6, <1>7, <1>8, Mudanza
<1>10. ManosVacias'
  BY <1>1 DEF IOToma, ManosVacias, cpuLado
<1>11. ListasSinRepetir'
  BY <1>1, <1>2 DEF IOToma, ListasSinRepetir, colas
<1>12. QED
  BY <1>1, <1>4, <1>9, <1>10, <1>11 DEF q

\* And from the thread to Ready, or it is lost.
LEMMA LugarIOInserta ==
    ASSUME TypeOK, InvLugares, NEW d \in Dispositivos, IOInserta(d)
    PROVE  /\ hiloIO[d].pcb \in Programas /\ Esta(hiloIO[d].pcb, "hilo_io", d)
           /\ Lleva(hiloIO[d].pcb, "ready", Nada) \/ Lleva(hiloIO[d].pcb, "perdido", Nada)
           /\ ManosVacias' /\ ListasSinRepetir'
<1> USE ConstantesSupuestas DEF InvLugares
<1> DEFINE q == hiloIO[d].pcb
<1>1. /\ hiloIO[d].pc = "inserta" /\ q \in Programas /\ hiloIO[d].tam \in Nat
      /\ hiloIO'[d].pc = "espera" /\ hiloIO'[d].pcb = Nada
      /\ \A e \in Dispositivos : e # d => hiloIO'[e] = hiloIO[e]
  BY DEF IOInserta, TypeOK, TipoIO
<1>2. InsertarEnReady(hiloIO[d].tam, q)
  BY DEF IOInserta
<1> HIDE DEF q
<1>3. Esta(q, "hilo_io", d)
  BY <1>1 DEF Esta, q
<1>4. \A p \in Programas : Esta(p, "hilo_io", d)' <=> Esta(p, "hilo_io", d) /\ p # q
  BY <1>1 DEF Esta, q
<1>5. \A p \in Programas : \A k \in Clases \ {"ready", "perdido"} : \A x \in Indices :
         ~(k = "hilo_io" /\ x = d) => (Esta(p, k, x)' <=> Esta(p, k, x))
  BY <1>1 DEF IOInserta, Esta, cpuLado
<1>6. "hilo_io" \in Clases /\ d \in Indices
  BY Nombrados
<1>7. SinRepetir(colaReady') /\ (Lleva(q, "ready", Nada) \/ Lleva(q, "perdido", Nada))
  BY <1>1, <1>2, <1>3, <1>4, <1>5, <1>6, LugarInsertarEnReady
<1>8. ManosVacias'
  BY <1>1 DEF IOInserta, ManosVacias, cpuLado
<1>9. ListasSinRepetir'
  BY <1>7 DEF IOInserta, ListasSinRepetir
<1>10. QED
  BY <1>1, <1>3, <1>7, <1>8, <1>9 DEF q

-----------------------------------------------------------------------------
(* vaciar_exit *)

\* The PCB at the position of the loop goes from Exit to the destroyed.
LEMMA LugarVaciarQuita ==
    ASSUME TypeOK, InvLugares, VaciarQuita, vaciar.i < Len(colaExit)
    PROVE  /\ colaExit[vaciar.i + 1] \in Programas /\ Esta(colaExit[vaciar.i + 1], "exit", Nada)
           /\ Lleva(colaExit[vaciar.i + 1], "destruido", Nada)
           /\ ManosVacias' /\ ListasSinRepetir'
<1> USE ConstantesSupuestas DEF InvLugares
<1> DEFINE i == vaciar.i + 1
           q == colaExit[i]
<1>1. colaExit \in Seq(Programas) /\ i \in 1..Len(colaExit) /\ q \in Programas
  <2>1. colaExit \in Seq(Programas) /\ vaciar.i \in Nat /\ Len(colaExit) \in Nat
    BY LenProperties DEF TypeOK, TipoColas, TipoVaciar
  <2>2. i \in 1..Len(colaExit)
    BY <2>1
  <2>3. QED
    BY <2>1, <2>2, ElementOfSeq
<1>2. colaExit' = RemoveAt(colaExit, i) /\ destruidos' = destruidos \cup {q}
  <2>1. vaciar.i \in Nat /\ Len(colaExit) \in Nat
    BY <1>1, LenProperties DEF TypeOK, TipoVaciar
  <2>2. QED
    BY <2>1 DEF VaciarQuita
<1>3. /\ ToSet(colaExit) = ToSet(colaExit') \cup {q}
      /\ SinRepetir(colaExit') /\ q \notin ToSet(colaExit')
  BY <1>1, <1>2, RemoveAtElementos DEF ListasSinRepetir
<1> HIDE DEF q
<1>4. Esta(q, "exit", Nada)
  BY <1>3 DEF Esta
<1>5. \A p \in Programas : \A k \in Clases : \A x \in Indices :
         ~(k = "exit" /\ x = Nada) /\ ~(k = "destruido" /\ x = Nada)
            => (Esta(p, k, x)' <=> Esta(p, k, x))
  BY DEF VaciarQuita, Esta, cpuLado, io, historia
<1>6. \A p \in Programas : Esta(p, "exit", Nada)' <=> Esta(p, "exit", Nada) /\ p # q
  BY <1>3 DEF Esta
<1>7. \A p \in Programas : Esta(p, "destruido", Nada)' <=> Esta(p, "destruido", Nada) \/ p = q
  BY <1>2 DEF Esta
<1>8. "exit" \in Clases /\ "destruido" \in Clases /\ Nada \in Indices /\ UnSoloLugar
  BY Nombrados
<1>9. Lleva(q, "destruido", Nada)
  BY <1>1, <1>4, <1>5, <1>6, <1>7, <1>8, Mudanza
<1>10. ManosVacias'
  BY DEF VaciarQuita, ManosVacias, cpuLado, io
<1>11. ListasSinRepetir'
  BY <1>3 DEF VaciarQuita, ListasSinRepetir, io
<1>12. QED
  BY <1>1, <1>4, <1>9, <1>10, <1>11 DEF q

-----------------------------------------------------------------------------
(* The CPU processes *)

\* The first PCB of the socket of a CPU that waits goes to the CPU.
LEMMA LugarCpuRecibe ==
    ASSUME TypeOK, InvLugares, NEW c \in CPUs, CpuRecibe(c)
    PROVE  /\ Head(canal[c]) \in Programas
           /\ Esta(Head(canal[c]), "canal", c) /\ Lleva(Head(canal[c]), "cpu", c)
           /\ ManosVacias' /\ ListasSinRepetir'
<1> USE ConstantesSupuestas DEF InvLugares
<1> DEFINE q == Head(canal[c])
<1>1. /\ cpu[c].pc = "recibe" /\ canal[c] \in Seq(Programas) /\ canal[c] # <<>>
      /\ q \in Programas /\ canal'[c] = Tail(canal[c])
      /\ \A b \in CPUs : b # c => canal'[b] = canal[b] /\ cpu'[b] = cpu[b]
      /\ cpu'[c].pc = "ejecuta" /\ cpu'[c].pcb = q
  BY HeadTailProperties DEF CpuRecibe, TypeOK, TipoCpu
<1>2. /\ ToSet(canal[c]) = ToSet(canal'[c]) \cup {q}
      /\ SinRepetir(canal'[c]) /\ q \notin ToSet(canal'[c])
  BY <1>1, TailElementos DEF ListasSinRepetir
<1> HIDE DEF q
<1>3. cpu[c].pcb = Nada
  BY <1>1 DEF ManosVacias
<1>4. Esta(q, "canal", c)
  BY <1>2 DEF Esta
<1>5. \A p \in Programas : \A k \in Clases : \A x \in Indices :
         ~(k = "canal" /\ x = c) /\ ~(k = "cpu" /\ x = c) => (Esta(p, k, x)' <=> Esta(p, k, x))
  BY <1>1 DEF CpuRecibe, Esta, colas, io, historia
<1>6. \A p \in Programas : Esta(p, "canal", c)' <=> Esta(p, "canal", c) /\ p # q
  BY <1>2 DEF Esta
<1>7. \A p \in Programas : Esta(p, "cpu", c)' <=> Esta(p, "cpu", c) \/ p = q
  BY <1>1, <1>3 DEF Esta
<1>8. "canal" \in Clases /\ "cpu" \in Clases /\ c \in Indices /\ UnSoloLugar
  BY Nombrados
<1>9. Lleva(q, "cpu", c)
  BY <1>1, <1>4, <1>5, <1>6, <1>7, <1>8, Mudanza
<1>10. ManosVacias'
  BY <1>1 DEF CpuRecibe, ManosVacias, io
<1>11. ListasSinRepetir'
  BY <1>1, <1>2 DEF CpuRecibe, ListasSinRepetir, colas, io
<1>12. QED
  BY <1>1, <1>4, <1>9, <1>10, <1>11 DEF q

\* enviarPcbProcesado: the PCB of the CPU goes to its socket with the PCP.
LEMMA LugarDevuelve ==
    ASSUME TypeOK, InvLugares, NEW c \in CPUs,
           NEW t \in {"S", "Q", "F", "E"}, NEW e \in NombresES \cup {Nada}, Devuelve(c, t, e)
    PROVE  /\ cpu[c].pcb \in Programas /\ Esta(cpu[c].pcb, "cpu", c)
           /\ Lleva(cpu[c].pcb, "mensaje", c)
           /\ ManosVacias' /\ ListasSinRepetir'
<1> USE ConstantesSupuestas DEF InvLugares
<1> DEFINE q == cpu[c].pcb
           m == Msj(t, q, e)
<1>1. /\ cpu[c].pc = "ejecuta" /\ q \in Programas
      /\ cpu'[c].pc = "libre" /\ cpu'[c].pcb = Nada
      /\ \A b \in CPUs : b # c => cpu'[b] = cpu[b] /\ mensajes'[b] = mensajes[b]
      /\ mensajes[c] \in Seq(Mensaje) /\ mensajes'[c] = Append(mensajes[c], m)
  BY DEF Devuelve, CpuLibre, TypeOK, TipoCpu, TipoMensajes
<1>2. m \in Mensaje /\ m.pcb = q /\ q # Nada
  BY <1>1 DEF Mensaje, Msj
<1> HIDE DEF q, m
<1>3. Esta(q, "cpu", c)
  BY <1>1 DEF Esta, q
<1>4. q \notin Pcbs(mensajes[c])
  BY <1>1, <1>3, Nombrados DEF UnSoloLugar, Esta
<1>5. Pcbs(mensajes'[c]) = Pcbs(mensajes[c]) \cup {q} /\ PcbsSinRepetir(mensajes'[c])
  BY <1>1, <1>2, <1>4, PcbsAppend DEF ListasSinRepetir
<1>6. \A p \in Programas : \A k \in Clases : \A x \in Indices :
         ~(k = "cpu" /\ x = c) /\ ~(k = "mensaje" /\ x = c) => (Esta(p, k, x)' <=> Esta(p, k, x))
  BY <1>1 DEF Devuelve, Esta, colas, io, historia
<1>7. \A p \in Programas : Esta(p, "cpu", c)' <=> Esta(p, "cpu", c) /\ p # q
  BY <1>1 DEF Esta, q
<1>8. \A p \in Programas : Esta(p, "mensaje", c)' <=> Esta(p, "mensaje", c) \/ p = q
  BY <1>5 DEF Esta
<1>9. "cpu" \in Clases /\ "mensaje" \in Clases /\ c \in Indices /\ UnSoloLugar
  BY Nombrados
<1>10. Lleva(q, "mensaje", c)
  BY <1>1, <1>3, <1>6, <1>7, <1>8, <1>9, Mudanza
<1>11. ManosVacias'
  BY <1>1 DEF Devuelve, ManosVacias, io
<1>12. ListasSinRepetir'
  BY <1>1, <1>5 DEF Devuelve, ListasSinRepetir, colas, io
<1>13. QED
  BY <1>1, <1>3, <1>10, <1>11, <1>12 DEF q

\* A CPU that leaves gives its PCB back before it closes its socket.
LEMMA LugarCpuSale ==
    ASSUME TypeOK, InvLugares, NEW c \in CPUs, CpuSale(c)
    PROVE  /\ cpu[c].pcb \in Programas /\ Esta(cpu[c].pcb, "cpu", c)
           /\ Lleva(cpu[c].pcb, "mensaje", c)
           /\ ManosVacias' /\ ListasSinRepetir'
<1> USE ConstantesSupuestas DEF InvLugares
<1> DEFINE q == cpu[c].pcb
           m == Msj("X", q, Nada)
           n == Msj("fin", Nada, Nada)
           s == Append(mensajes[c], m)
<1>1. /\ cpu[c].pc = "ejecuta" /\ q \in Programas
      /\ cpu'[c].pc = "salio" /\ cpu'[c].pcb = Nada
      /\ \A b \in CPUs : b # c => cpu'[b] = cpu[b] /\ mensajes'[b] = mensajes[b]
      /\ mensajes[c] \in Seq(Mensaje)
  BY DEF CpuSale, TypeOK, TipoCpu, TipoMensajes
<1>2. m \in Mensaje /\ m.pcb = q /\ q # Nada /\ n \in Mensaje /\ n.pcb = Nada
  BY <1>1 DEF Mensaje, Msj
<1>3. mensajes'[c] = Append(s, n) /\ s \in Seq(Mensaje)
  <2>1. mensajes'[c] = mensajes[c] \o <<m, n>>
    BY DEF CpuSale, TypeOK, TipoMensajes
  <2>2. QED
    BY <1>1, <1>2, <2>1
<1> HIDE DEF q, m, n, s
<1>4. Esta(q, "cpu", c)
  BY <1>1 DEF Esta, q
<1>5. q \notin Pcbs(mensajes[c])
  BY <1>1, <1>4, Nombrados DEF UnSoloLugar, Esta
<1>6. Pcbs(s) = Pcbs(mensajes[c]) \cup {q} /\ PcbsSinRepetir(s)
  BY <1>1, <1>2, <1>5, PcbsAppend DEF ListasSinRepetir, s
<1>7. Pcbs(mensajes'[c]) = Pcbs(mensajes[c]) \cup {q, Nada} /\ PcbsSinRepetir(mensajes'[c])
  BY <1>2, <1>3, <1>6, PcbsAppend
<1>8. \A p \in Programas : \A k \in Clases : \A x \in Indices :
         ~(k = "cpu" /\ x = c) /\ ~(k = "mensaje" /\ x = c) => (Esta(p, k, x)' <=> Esta(p, k, x))
  BY <1>1 DEF CpuSale, Esta, colas, io, historia
<1>9. \A p \in Programas : Esta(p, "cpu", c)' <=> Esta(p, "cpu", c) /\ p # q
  BY <1>1 DEF Esta, q
<1>10. \A p \in Programas : Esta(p, "mensaje", c)' <=> Esta(p, "mensaje", c) \/ p = q
  BY <1>7 DEF Esta
<1>11. "cpu" \in Clases /\ "mensaje" \in Clases /\ c \in Indices /\ UnSoloLugar
  BY Nombrados
<1>12. Lleva(q, "mensaje", c)
  BY <1>1, <1>4, <1>8, <1>9, <1>10, <1>11, Mudanza
<1>13. ManosVacias'
  BY <1>1 DEF CpuSale, ManosVacias, io
<1>14. ListasSinRepetir'
  BY <1>1, <1>7 DEF CpuSale, ListasSinRepetir, colas, io
<1>15. QED
  BY <1>1, <1>4, <1>12, <1>13, <1>14 DEF q

\* What is lost with a CPU that dies: the PCB it runs, if any.
PcbsDeCpu(c) == {cpu[c].pcb} \ {Nada}

\* A CPU that dies takes along the PCB it had.
LEMMA LugarCpuMuere ==
    ASSUME TypeOK, InvLugares, NEW c \in CPUs, CpuMuere(c)
    PROVE  /\ \A p \in Programas : p \in PcbsDeCpu(c) <=> Esta(p, "cpu", c)
           /\ LlevaTodos(PcbsDeCpu(c), "perdido", Nada)
           /\ ManosVacias' /\ ListasSinRepetir'
<1> USE ConstantesSupuestas DEF InvLugares
<1> DEFINE S == PcbsDeCpu(c)
<1>1. /\ cpu'[c].pc = "salio" /\ cpu'[c].pcb = Nada
      /\ \A b \in CPUs : b # c => cpu'[b] = cpu[b] /\ mensajes'[b] = mensajes[b]
      /\ mensajes[c] \in Seq(Mensaje) /\ mensajes'[c] = Append(mensajes[c], Msj("fin", Nada, Nada))
      /\ perdidos' = perdidos \cup S
  BY DEF CpuMuere, TypeOK, TipoCpu, TipoMensajes, PcbsDeCpu
<1>2. Pcbs(mensajes'[c]) = Pcbs(mensajes[c]) \cup {Nada} /\ PcbsSinRepetir(mensajes'[c])
  <2>1. Msj("fin", Nada, Nada) \in Mensaje /\ Msj("fin", Nada, Nada).pcb = Nada
    BY DEF Msj, Mensaje
  <2>2. QED
    BY <1>1, <2>1, PcbsAppend DEF ListasSinRepetir
<1>3. \A p \in Programas : p \in S <=> Esta(p, "cpu", c)
  BY DEF Esta, PcbsDeCpu
<1> HIDE DEF S
<1>4. \A p \in Programas : \A k \in Clases : \A x \in Indices :
         ~(k = "cpu" /\ x = c) /\ ~(k = "perdido" /\ x = Nada) => (Esta(p, k, x)' <=> Esta(p, k, x))
  <2>1. \A p \in Programas : \A x \in Indices : Esta(p, "mensaje", x)' <=> Esta(p, "mensaje", x)
    <3>1. \A p \in Programas : \A b \in CPUs : p \in Pcbs(mensajes'[b]) <=> p \in Pcbs(mensajes[b])
      BY <1>1, <1>2
    <3>2. QED
      BY <3>1 DEF Esta, Pcbs
  <2>2. \A p \in Programas : \A k \in Clases \ {"mensaje"} : \A x \in Indices :
           ~(k = "cpu" /\ x = c) /\ ~(k = "perdido" /\ x = Nada) => (Esta(p, k, x)' <=> Esta(p, k, x))
    BY <1>1 DEF CpuMuere, Esta, colas, io
  <2>3. QED
    BY <2>1, <2>2
<1>5. \A p \in Programas : ~Esta(p, "cpu", c)'
  BY <1>1 DEF Esta
<1>6. \A p \in Programas : Esta(p, "perdido", Nada)' <=> Esta(p, "perdido", Nada) \/ p \in S
  BY <1>1 DEF Esta
<1>7. LlevaTodos(S, "perdido", Nada)
  BY <1>3, <1>4, <1>5, <1>6, Nombrados, Traslado
<1>8. ManosVacias'
  BY <1>1 DEF CpuMuere, ManosVacias, io
<1>9. ListasSinRepetir'
  BY <1>1, <1>2 DEF CpuMuere, ListasSinRepetir, colas, io
<1>10. QED
  BY <1>3, <1>7, <1>8, <1>9 DEF S

\* The PCBs that are still in a socket when the PCP closes it are lost.
LEMMA LugarPcpCierra ==
    ASSUME TypeOK, InvLugares, PcpCierra
    PROVE  /\ \E c \in CPUs : /\ \A p \in Programas : p \in ToSet(canal[c]) <=> Esta(p, "canal", c)
                             /\ LlevaTodos(ToSet(canal[c]), "perdido", Nada)
           /\ ManosVacias' /\ ListasSinRepetir'
<1> USE ConstantesSupuestas DEF InvLugares
<1>1. PICK c \in CPUs : /\ perdidos' = perdidos \cup ToSet(canal[c])
                        /\ canal' = [canal EXCEPT ![c] = <<>>]
  BY DEF PcpCierra
<1> DEFINE S == ToSet(canal[c])
<1>2. canal'[c] = <<>> /\ \A b \in CPUs : b # c => canal'[b] = canal[b]
  BY <1>1 DEF TypeOK, TipoCpu
<1>3. pcp.pcb = Nada /\ pcp'.pcb = Nada /\ pcp'.pc # "inserta"
  BY DEF PcpCierra, PcpOcioso, ManosVacias
<1>4. \A p \in Programas : p \in S <=> Esta(p, "canal", c)
  BY DEF Esta
<1>5. perdidos' = perdidos \cup S
  BY <1>1
<1> HIDE DEF S
<1>6. \A p \in Programas : \A k \in Clases : \A x \in Indices :
         ~(k = "canal" /\ x = c) /\ ~(k = "perdido" /\ x = Nada) => (Esta(p, k, x)' <=> Esta(p, k, x))
  BY <1>2, <1>3 DEF PcpCierra, Esta, colas, cpuLado, io
<1>7. \A p \in Programas : ~Esta(p, "canal", c)'
  BY <1>2 DEF Esta, ToSet
<1>8. \A p \in Programas : Esta(p, "perdido", Nada)' <=> Esta(p, "perdido", Nada) \/ p \in S
  BY <1>5 DEF Esta
<1>9. LlevaTodos(S, "perdido", Nada)
  BY <1>4, <1>6, <1>7, <1>8, Nombrados, Traslado
<1>10. ManosVacias'
  BY <1>3 DEF PcpCierra, ManosVacias, cpuLado, io
<1>11. ListasSinRepetir'
  <2>1. SinRepetir(<<>>)
    BY DEF SinRepetir
  <2>2. QED
    BY <1>2, <2>1 DEF PcpCierra, ListasSinRepetir, colas, io
<1>12. QED
  BY <1>4, <1>9, <1>10, <1>11 DEF S

-----------------------------------------------------------------------------
(* The steps that move no PCB *)

Quieta == NadaSeMueve /\ ManosVacias' /\ ListasSinRepetir' /\ programa' = programa

\* The PLP: while it tries s_ready_max, orders New and shows it.
LEMMA QuietaPlp ==
    ASSUME TypeOK, InvLugares, InvNew, ProbarReadyMax \/ OrdenarNew \/ MedirNew \/ MostrarNew
    PROVE  Quieta
<1> USE ConstantesSupuestas DEF InvLugares, Quieta
<1>1. CASE ProbarReadyMax
  <2>1. plp.pc = "admision" /\ plp'.pc \in {"a_ready", "a_new"} /\ plp'.pcb = plp.pcb
    BY <1>1 DEF ProbarReadyMax, TypeOK, TipoPlp
  <2>2. NadaSeMueve
    BY <1>1, <2>1 DEF ProbarReadyMax, NadaSeMueve, Esta, colas, cpuLado, io, historia
  <2>3. ManosVacias'
    BY <1>1, <2>1 DEF ProbarReadyMax, ManosVacias, cpuLado, io
  <2>4. ListasSinRepetir' /\ programa' = programa
    BY <1>1 DEF ProbarReadyMax, ListasSinRepetir, colas, io
  <2>5. QED
    BY <2>2, <2>3, <2>4
<1>2. CASE OrdenarNew
  <2>1. /\ plp.pc = "ordena" /\ plp'.pc = "mide" /\ plp'.pcb = Nada
        /\ colaNew \in Seq(Programas) /\ colaNew' \in ListSort(colaNew, Peso)
    BY <1>2 DEF OrdenarNew, PlpMide, PlpOcioso, TypeOK, TipoColas
  <2>2. ToSet(colaNew') = ToSet(colaNew) /\ SinRepetir(colaNew')
    BY <2>1, ListSortElementos DEF ListasSinRepetir
  <2>3. \A w \in Programas : \/ worker'[w].pcb = worker[w].pcb /\ worker'[w].pc # "encola"
                             \/ worker'[w] = worker[w]
    BY <1>2 DEF OrdenarNew, TypeOK, TipoWorkers
  <2>4. worker[plp.pcb].pc = "no" /\ plp.pcb \in Programas
    BY <2>1 DEF InvNew, TypeOK, TipoPlp
  <2>5. \A w \in Programas : worker'[w].pcb = worker[w].pcb
                              /\ (worker'[w].pc # "encola" => worker'[w].pcb = Nada)
    BY <1>2, <2>3, <2>4 DEF OrdenarNew, ManosVacias
  <2>6. NadaSeMueve
    BY <1>2, <2>1, <2>2, <2>5 DEF OrdenarNew, NadaSeMueve, Esta, sems, cpuLado, io, historia
  <2>7. ManosVacias'
    BY <1>2, <2>1, <2>5 DEF OrdenarNew, ManosVacias, cpuLado, io
  <2>8. ListasSinRepetir' /\ programa' = programa
    BY <1>2, <2>2 DEF OrdenarNew, ListasSinRepetir, io
  <2>9. QED
    BY <2>6, <2>7, <2>8
<1>3. CASE MedirNew
  <2>1. plp.pc = "mide" /\ plp'.pc \in {"select", "muestra"} /\ plp'.pcb = Nada /\ plp.pcb = Nada
    BY <1>3 DEF MedirNew, PlpOcioso, ManosVacias
  <2>2. NadaSeMueve
    BY <1>3, <2>1 DEF MedirNew, NadaSeMueve, Esta, colas, cpuLado, io, historia
  <2>3. ManosVacias'
    BY <1>3, <2>1 DEF MedirNew, ManosVacias, cpuLado, io
  <2>4. ListasSinRepetir' /\ programa' = programa
    BY <1>3 DEF MedirNew, ListasSinRepetir, colas, io
  <2>5. QED
    BY <2>2, <2>3, <2>4
<1>4. CASE MostrarNew
  <2>1. /\ plp.pc = "muestra" /\ plp'.pc \in {"select", "muestra"}
        /\ plp'.pcb = Nada /\ plp.pcb = Nada
    BY <1>4 DEF MostrarNew, PlpOcioso, ManosVacias, TypeOK, TipoPlp
  <2>2. NadaSeMueve
    BY <1>4, <2>1 DEF MostrarNew, NadaSeMueve, Esta, colas, cpuLado, io, historia
  <2>3. ManosVacias'
    BY <1>4, <2>1 DEF MostrarNew, ManosVacias, cpuLado, io
  <2>4. ListasSinRepetir' /\ programa' = programa
    BY <1>4 DEF MostrarNew, ListasSinRepetir, colas, io
  <2>5. QED
    BY <2>2, <2>3, <2>4
<1>5. QED
  BY <1>1, <1>2, <1>3, <1>4

\* A worker that takes a place, or that finds New empty.
LEMMA QuietaWorker ==
    ASSUME TypeOK, InvLugares, NEW w \in Programas,
           WorkerLugar(w) \/ (WorkerSaca(w) /\ colaNew = <<>>)
    PROVE  Quieta
<1> USE ConstantesSupuestas DEF InvLugares, Quieta
<1>1. \A u \in Programas : /\ worker'[u].pcb = worker[u].pcb
                           /\ worker'[u].pc # "encola" => worker'[u].pcb = Nada
  BY DEF WorkerLugar, WorkerSaca, ManosVacias, TypeOK, TipoWorkers
<1>2. NadaSeMueve
  BY <1>1 DEF WorkerLugar, WorkerSaca, NadaSeMueve, Esta, colas, cpuLado, io, historia
<1>3. ManosVacias'
  BY <1>1 DEF WorkerLugar, WorkerSaca, ManosVacias, cpuLado, io
<1>4. ListasSinRepetir' /\ programa' = programa
  BY DEF WorkerLugar, WorkerSaca, ListasSinRepetir, colas, io
<1>5. QED
  BY <1>2, <1>3, <1>4

\* The dispatcher while it waits for a PCB and a CPU, and when it lacks a PCB.
LEMMA QuietaDispatcher ==
    ASSUME TypeOK, InvLugares,
           DispEsperaPcb \/ DispEsperaCpu \/ DispTomaCpu \/ (DispTomaPcb /\ colaReady = <<>>)
    PROVE  Quieta
<1> USE ConstantesSupuestas DEF InvLugares, Quieta
<1>1. dispatcher'.pcb = dispatcher.pcb /\ dispatcher.pc # "envia"
  BY DEF DispEsperaPcb, DispEsperaCpu, DispTomaCpu, DispTomaPcb, TypeOK, TipoDispatcher
<1>2. dispatcher.pcb = Nada
  BY <1>1 DEF ManosVacias
<1>3. NadaSeMueve
  BY <1>1 DEF DispEsperaPcb, DispEsperaCpu, DispTomaCpu, DispTomaPcb, NadaSeMueve, Esta, colas,
              cpuLado, io, historia
<1>4. ManosVacias'
  BY <1>1, <1>2
  DEF DispEsperaPcb, DispEsperaCpu, DispTomaCpu, DispTomaPcb, ManosVacias, cpuLado, io
<1>5. ListasSinRepetir' /\ programa' = programa
  BY DEF DispEsperaPcb, DispEsperaCpu, DispTomaCpu, DispTomaPcb, ListasSinRepetir, colas, io
<1>6. QED
  BY <1>3, <1>4, <1>5

\* The PCP when it receives a message without a PCB.
LEMMA QuietaPcpMensaje ==
    ASSUME TypeOK, InvLugares, NEW c \in CPUs, PcpOciosa(c) \/ PcpDesconexion(c)
    PROVE  Quieta
<1> USE ConstantesSupuestas DEF InvLugares, Quieta
<1> DEFINE s == mensajes[c]
<1>1. /\ s \in Seq(Mensaje) /\ s # <<>> /\ mensajes'[c] = Tail(s)
      /\ \A b \in CPUs : b # c => mensajes'[b] = mensajes[b]
      /\ Head(s).tipo \in {"O", "fin"} /\ pcp.pc = "select"
  BY DEF PcpOciosa, PcpDesconexion, Recibe, TypeOK, TipoMensajes
<1> HIDE DEF s
<1>2. Head(s).pcb = Nada
  <2>1. Head(s) \in Mensaje
    BY <1>1, HeadTailProperties
  <2>2. QED
    BY <1>1, <2>1 DEF Mensaje
<1>3. Pcbs(s) = Pcbs(Tail(s)) \cup {Nada} /\ (PcbsSinRepetir(s) => PcbsSinRepetir(Tail(s)))
  BY <1>1, <1>2, PcbsTail
<1>4. \A p \in Programas : \A b \in CPUs : p \in Pcbs(mensajes'[b]) <=> p \in Pcbs(mensajes[b])
  BY <1>1, <1>3 DEF s
<1>5. \A b \in CPUs : PcbsSinRepetir(mensajes'[b])
  BY <1>1, <1>3 DEF ListasSinRepetir, s
<1>6. pcp.pcb = Nada /\ pcp'.pcb = Nada /\ pcp'.pc # "inserta"
  BY <1>1 DEF ManosVacias, PcpOciosa, PcpDesconexion, PcpOcioso
<1>7. NadaSeMueve
  <2>1. \A p \in Programas : \A x \in Indices : Esta(p, "mensaje", x)' <=> Esta(p, "mensaje", x)
    BY <1>4 DEF Esta, Pcbs
  <2>2. \A p \in Programas : \A k \in Clases \ {"mensaje"} : \A x \in Indices :
           Esta(p, k, x)' <=> Esta(p, k, x)
    BY <1>6 DEF PcpOciosa, PcpDesconexion, Esta, colas, cpuLado, io, historia
  <2>3. QED
    BY <2>1, <2>2 DEF NadaSeMueve
<1>8. ManosVacias'
  BY <1>6 DEF PcpOciosa, PcpDesconexion, ManosVacias, cpuLado, io
<1>9. ListasSinRepetir' /\ programa' = programa
  BY <1>5 DEF PcpOciosa, PcpDesconexion, ListasSinRepetir, colas, io
<1>10. QED
  BY <1>7, <1>8, <1>9

\* The PCP after a program has ended or a CPU has left.
LEMMA QuietaPcpInterno ==
    ASSUME TypeOK, InvLugares, PcpLibera \/ PcpBusca \/ PcpQuita
    PROVE  Quieta
<1> USE ConstantesSupuestas DEF InvLugares, Quieta
<1>1. pcp.pc \in {"libera", "busca", "quita"}
  BY DEF PcpLibera, PcpBusca, PcpQuita
<1>2. pcp.pcb = Nada
  BY <1>1 DEF ManosVacias
<1>3. pcp'.pcb = Nada /\ pcp'.pc # "inserta"
  BY <1>1, <1>2 DEF PcpLibera, PcpBusca, PcpQuita, PcpOcioso, TypeOK, TipoPcp
<1>4. NadaSeMueve
  BY <1>2, <1>3 DEF PcpLibera, PcpBusca, PcpQuita, NadaSeMueve, Esta, colas, cpuLado,
                    io, historia
<1>5. ManosVacias'
  BY <1>3 DEF PcpLibera, PcpBusca, PcpQuita, ManosVacias, cpuLado, io
<1>6. ListasSinRepetir' /\ programa' = programa
  BY DEF PcpLibera, PcpBusca, PcpQuita, ListasSinRepetir, colas, io
<1>7. QED
  BY <1>4, <1>5, <1>6

\* A device thread that reads its position, and vaciar_exit when it wakes up or
\* goes past the end of Exit.
LEMMA QuietaIOyVaciar ==
    ASSUME TypeOK, InvLugares,
           \/ \E d \in Dispositivos : IOMideReady(d)
           \/ VaciarDespierta \/ (VaciarQuita /\ vaciar.i >= Len(colaExit))
    PROVE  Quieta
<1> USE ConstantesSupuestas DEF InvLugares, Quieta
<1>1. ASSUME NEW d \in Dispositivos, IOMideReady(d) PROVE Quieta
  <2>1. \A e \in Dispositivos : /\ hiloIO'[e].pcb = hiloIO[e].pcb
                                /\ hiloIO'[e].pc = "espera" => hiloIO'[e].pcb = Nada
    BY <1>1 DEF IOMideReady, ManosVacias, TypeOK, TipoIO
  <2>2. NadaSeMueve
    <3>1. UNCHANGED <<colaNew, colaReady, colaExit, plp, pcp, dispatcher, worker, canal, mensajes,
                      cpu, colaIO, perdidos, destruidos>>
      BY <1>1 DEF IOMideReady, colas, cpuLado, historia
    <3>2. QED
      BY <2>1, <3>1 DEF NadaSeMueve, Esta, Pcbs
  <2>3. ManosVacias'
    BY <1>1, <2>1 DEF IOMideReady, ManosVacias, cpuLado
  <2>4. ListasSinRepetir' /\ programa' = programa
    BY <1>1 DEF IOMideReady, ListasSinRepetir, colas
  <2>5. QED
    BY <2>2, <2>3, <2>4
<1>2. ASSUME VaciarDespierta \/ (VaciarQuita /\ vaciar.i >= Len(colaExit)) PROVE Quieta
  <2>1. destruidos' = destruidos /\ colaExit' = colaExit
    <3>1. vaciar.i \in Nat /\ Len(colaExit) \in Nat
      BY LenProperties DEF TypeOK, TipoVaciar, TipoColas
    <3>2. QED
      BY <1>2, <3>1 DEF VaciarDespierta, VaciarQuita, colas
  <2>2. NadaSeMueve
    BY <1>2, <2>1 DEF VaciarDespierta, VaciarQuita, NadaSeMueve, Esta, colas, cpuLado, io, historia
  <2>3. ManosVacias'
    BY <1>2 DEF VaciarDespierta, VaciarQuita, ManosVacias, cpuLado, io
  <2>4. ListasSinRepetir' /\ programa' = programa
    BY <1>2, <2>1 DEF VaciarDespierta, VaciarQuita, ListasSinRepetir, colas, io
  <2>5. QED
    BY <2>2, <2>3, <2>4
<1>3. QED
  BY <1>1, <1>2

\* A CPU that connects or says it is idle.
LEMMA QuietaCpu ==
    ASSUME TypeOK, InvLugares, NEW c \in CPUs, CpuConecta(c) \/ CpuAnuncia(c)
    PROVE  Quieta
<1> USE ConstantesSupuestas DEF InvLugares, Quieta
<1>1. \A b \in CPUs : cpu'[b].pcb = cpu[b].pcb /\ (cpu'[b].pc # "ejecuta" => cpu'[b].pcb = Nada)
  <2>1. CASE CpuConecta(c)
    <3>1. cpu[c].pcb = Nada
      BY <2>1 DEF CpuConecta, ManosVacias
    <3>2. \A b \in CPUs : cpu'[b] = IF b = c THEN CpuLibre ELSE cpu[b]
      BY <2>1 DEF CpuConecta, TypeOK, TipoCpu
    <3>3. QED
      BY <3>1, <3>2 DEF CpuLibre, ManosVacias
  <2>2. CASE CpuAnuncia(c)
    <3>1. cpu[c].pcb = Nada
      BY <2>2 DEF CpuAnuncia, ManosVacias
    <3>2. QED
      BY <2>2, <3>1 DEF CpuAnuncia, ManosVacias, TypeOK, TipoCpu
  <2>3. QED
    BY <2>1, <2>2
<1>2. /\ \A p \in Programas : \A b \in CPUs : p \in Pcbs(mensajes'[b]) <=> p \in Pcbs(mensajes[b])
      /\ \A b \in CPUs : PcbsSinRepetir(mensajes'[b])
  <2>1. CASE CpuConecta(c)
    BY <2>1 DEF CpuConecta, ListasSinRepetir
  <2>2. CASE CpuAnuncia(c)
    <3> DEFINE m == Msj("O", Nada, Nada)
    <3>1. m \in Mensaje /\ m.pcb = Nada
      BY DEF Msj, Mensaje
    <3>2. /\ mensajes[c] \in Seq(Mensaje) /\ mensajes'[c] = Append(mensajes[c], m)
          /\ \A b \in CPUs : b # c => mensajes'[b] = mensajes[b]
      BY <2>2 DEF CpuAnuncia, TypeOK, TipoMensajes
    <3> HIDE DEF m
    <3>3. Pcbs(mensajes'[c]) = Pcbs(mensajes[c]) \cup {Nada} /\ PcbsSinRepetir(mensajes'[c])
      BY <3>1, <3>2, PcbsAppend DEF ListasSinRepetir
    <3>4. ASSUME NEW p \in Programas, NEW b \in CPUs
          PROVE  p \in Pcbs(mensajes'[b]) <=> p \in Pcbs(mensajes[b])
      <4>1. CASE b = c
        BY <3>3, <4>1
      <4>2. CASE b # c
        BY <3>2, <4>2
      <4>3. QED
        BY <4>1, <4>2
    <3>5. \A b \in CPUs : PcbsSinRepetir(mensajes'[b])
      BY <3>2, <3>3 DEF ListasSinRepetir
    <3>6. QED
      BY <3>4, <3>5
  <2>3. QED
    BY <2>1, <2>2
<1>3. NadaSeMueve
  <2>1. \A p \in Programas : \A x \in Indices : Esta(p, "mensaje", x)' <=> Esta(p, "mensaje", x)
    BY <1>2 DEF Esta, Pcbs
  <2>2. \A p \in Programas : \A k \in Clases \ {"mensaje"} : \A x \in Indices :
           Esta(p, k, x)' <=> Esta(p, k, x)
    BY <1>1 DEF CpuConecta, CpuAnuncia, Esta, colas, io, historia
  <2>3. QED
    BY <2>1, <2>2 DEF NadaSeMueve
<1>4. ManosVacias'
  BY <1>1 DEF CpuConecta, CpuAnuncia, ManosVacias, io
<1>5. ListasSinRepetir' /\ programa' = programa
  BY <1>2 DEF CpuConecta, CpuAnuncia, ListasSinRepetir, colas, io
<1>6. QED
  BY <1>3, <1>4, <1>5

\* Nothing at all.
LEMMA QuietaTartamudeo == ASSUME InvLugares, UNCHANGED vars PROVE Quieta
<1>1. NadaSeMueve /\ programa' = programa
  BY DEF vars, NadaSeMueve, Esta, colas, cpuLado, io, historia
<1>2. ManosVacias' /\ ListasSinRepetir'
  BY DEF InvLugares, vars, ManosVacias, ListasSinRepetir, colas, cpuLado, io
<1>3. QED
  BY <1>1, <1>2 DEF Quieta

-----------------------------------------------------------------------------
(* The invariant *)

\* No PCB exists before a program arrives.
LEMMA LugaresInicial == Init => InvLugares
<1> SUFFICES ASSUME Init PROVE InvLugares
  OBVIOUS
<1> USE ConstantesSupuestas
<1>1. \A p \in Programas : \A k \in Clases : \A x \in Indices : ~Esta(p, k, x)
  <2>1. \A p \in Programas : p \notin ToSet(<<>>) /\ p \notin Pcbs(<<>>)
    BY DEF ToSet, Pcbs
  <2>2. QED
    BY <2>1 DEF Init, Esta, PlpOcioso, PcpOcioso, DispEspera
<1>2. UnSoloLugar
  BY <1>1 DEF UnSoloLugar
<1>3. AlgunLugar
  BY <1>1 DEF AlgunLugar, Init
<1>4. ManosVacias
  BY DEF Init, ManosVacias, PlpOcioso, PcpOcioso, DispEspera
<1>5. ListasSinRepetir
  <2>1. SinRepetir(<<>>) /\ PcbsSinRepetir(<<>>)
    BY DEF SinRepetir, PcbsSinRepetir
  <2>2. QED
    BY <2>1 DEF Init, ListasSinRepetir
<1>6. QED
  BY <1>2, <1>3, <1>4, <1>5 DEF InvLugares

\* The invariant survives a step that moves no PCB...
LEMMA QuietaConserva == ASSUME InvLugares, Quieta PROVE InvLugares'
<1>1. \A p \in Programas : programa'[p] = "afuera" <=> programa[p] = "afuera"
  BY DEF Quieta
<1>2. UnSoloLugar' /\ AlgunLugar'
  BY <1>1, QuietosSiguen DEF InvLugares, Quieta
<1>3. QED
  BY <1>2 DEF InvLugares, Quieta

\* ... one that takes one PCB from a place to another...
LEMMA MovidaConserva ==
    ASSUME InvLugares, NEW q \in Programas, NEW k0 \in Clases, NEW x0 \in Indices,
           Esta(q, k0, x0), NEW k1 \in Clases, NEW x1 \in Indices, Lleva(q, k1, x1),
           programa' = programa, ManosVacias', ListasSinRepetir'
    PROVE  InvLugares'
<1>1. programa[q] # "afuera"
  BY DEF InvLugares, AlgunLugar
<1>2. \A p \in Programas : programa'[p] = "afuera" <=> programa[p] = "afuera" /\ p \notin {q}
  BY <1>1
<1>3. LlevaTodos({q}, k1, x1)
  BY DEF Lleva
<1>4. UnSoloLugar' /\ AlgunLugar'
  BY <1>2, <1>3, LlevadosSiguen DEF InvLugares
<1>5. QED
  BY <1>4 DEF InvLugares

\* ... or all those of a place...
LEMMA TrasladoConserva ==
    ASSUME InvLugares, NEW S, NEW k0 \in Clases, NEW x0 \in Indices,
           \A p \in Programas : p \in S <=> Esta(p, k0, x0),
           NEW k1 \in Clases, NEW x1 \in Indices, LlevaTodos(S, k1, x1),
           programa' = programa, ManosVacias', ListasSinRepetir'
    PROVE  InvLugares'
<1>1. \A p \in Programas : p \in S => programa[p] # "afuera"
  BY DEF InvLugares, AlgunLugar
<1>2. \A p \in Programas : programa'[p] = "afuera" <=> programa[p] = "afuera" /\ p \notin S
  BY <1>1
<1>3. UnSoloLugar' /\ AlgunLugar'
  BY <1>2, LlevadosSiguen DEF InvLugares
<1>4. QED
  BY <1>3 DEF InvLugares

\* ... and one of the PLP that gives a program its PCB.
LEMMA LlegadaConserva ==
    ASSUME TypeOK, InvLugares, NEW q \in Programas, AceptarPrograma(q) \/ RechazarPrograma(q)
    PROVE  InvLugares'
<1>1. \A p \in Programas : programa'[p] = "afuera" <=> programa[p] = "afuera" /\ p \notin {q}
  BY DEF AceptarPrograma, RechazarPrograma, TypeOK, TipoProgramas
<1>2. \E k1 \in Clases : Lleva(q, k1, Nada) /\ ManosVacias' /\ ListasSinRepetir'
  BY LugarAceptarPrograma, LugarRechazarPrograma, Nombrados
<1>3. PICK k1 \in Clases : LlevaTodos({q}, k1, Nada) /\ ManosVacias' /\ ListasSinRepetir'
  BY <1>2 DEF Lleva
<1>4. UnSoloLugar' /\ AlgunLugar'
  BY <1>1, <1>3, Nombrados, LlevadosSiguen DEF InvLugares
<1>5. QED
  BY <1>3, <1>4 DEF InvLugares

\* Every step keeps the PCB of a program in one place.
LEMMA InvLugaresPaso == TypeOK /\ InvNew /\ InvLugares /\ [Next]_vars => InvLugares'
<1> SUFFICES ASSUME TypeOK, InvNew, InvLugares, [Next]_vars PROVE InvLugares'
  OBVIOUS
<1> USE Nombrados
<1>1. ASSUME NEW p \in Programas, AceptarPrograma(p) \/ RechazarPrograma(p) PROVE InvLugares'
  BY <1>1, LlegadaConserva
<1>2. CASE PlpAReady
  <2>1. programa' = programa
    BY <1>2 DEF PlpAReady
  <2>2. QED
    BY <1>2, <2>1, LugarPlpAReady, MovidaConserva
<1>3. CASE PlpANew
  <2>1. programa' = programa
    BY <1>3 DEF PlpANew
  <2>2. QED
    BY <1>3, <2>1, LugarPlpANew, MovidaConserva
<1>4. CASE ProbarReadyMax \/ OrdenarNew \/ MedirNew \/ MostrarNew
  BY <1>4, QuietaPlp, QuietaConserva
<1>5. ASSUME NEW w \in Programas, WtNar(w) PROVE InvLugares'
  <2>1. CASE WorkerLugar(w) \/ (WorkerSaca(w) /\ colaNew = <<>>)
    BY <2>1, QuietaWorker, QuietaConserva
  <2>2. CASE WorkerSaca(w) /\ colaNew # <<>>
    <3>1. programa' = programa
      BY <2>2 DEF WorkerSaca
    <3>2. QED
      BY <2>2, <3>1, LugarWorkerSaca, MovidaConserva
  <2>3. CASE WorkerEncola(w)
    <3>1. programa' = programa
      BY <2>3 DEF WorkerEncola
    <3>2. QED
      BY <2>3, <3>1, LugarWorkerEncola, MovidaConserva
  <2>4. QED
    BY <1>5, <2>1, <2>2, <2>3 DEF WtNar
<1>6. CASE Dispatcher
  <2>1. CASE \/ DispEsperaPcb \/ DispEsperaCpu \/ DispTomaCpu
             \/ (DispTomaPcb /\ colaReady = <<>>)
    BY <2>1, QuietaDispatcher, QuietaConserva
  <2>2. CASE DispTomaPcb /\ colaReady # <<>>
    <3>1. programa' = programa
      BY <2>2 DEF DispTomaPcb
    <3>2. QED
      BY <2>2, <3>1, LugarDispTomaPcb, MovidaConserva
  <2>3. CASE DispEnvia
    <3>1. programa' = programa
      BY <2>3 DEF DispEnvia
    <3>2. \E k1 \in Clases : \E x1 \in Indices : Lleva(dispatcher.pcb, k1, x1)
      BY <2>3, LugarDispEnvia
    <3>3. QED
      BY <2>3, <3>1, <3>2, LugarDispEnvia, MovidaConserva
  <2>4. QED
    BY <1>6, <2>1, <2>2, <2>3 DEF Dispatcher
<1>7. ASSUME NEW c \in CPUs, PcpMensaje(c) PROVE InvLugares'
  <2>1. CASE PcpOciosa(c) \/ PcpDesconexion(c)
    BY <2>1, QuietaPcpMensaje, QuietaConserva
  <2>2. CASE PcpMideReady(c)
    <3>1. programa' = programa
      BY <2>2 DEF PcpMideReady
    <3>2. QED
      BY <2>2, <3>1, LugarPcpMideReady, MovidaConserva
  <2>3. CASE PcpTermina(c)
    <3> DEFINE q == Head(mensajes[c]).pcb
    <3>1. /\ q \in Programas /\ Esta(q, "mensaje", c) /\ LlevaTodos({q}, "exit", Nada)
          /\ ManosVacias' /\ ListasSinRepetir'
      BY <2>3, LugarPcpTermina DEF Lleva
    <3>2. programa[q] # "afuera"
      BY <3>1 DEF InvLugares, AlgunLugar
    <3>3. \A p \in Programas : programa'[p] = "afuera" <=> programa[p] = "afuera" /\ p \notin {q}
      BY <2>3, <3>1, <3>2 DEF PcpTermina, TypeOK, TipoProgramas
    <3> HIDE DEF q
    <3>4. UnSoloLugar' /\ AlgunLugar'
      BY <3>1, <3>3, LlevadosSiguen DEF InvLugares
    <3>5. QED
      BY <3>1, <3>4 DEF InvLugares
  <2>4. CASE PcpEntradaSalida(c)
    <3>1. programa' = programa
      BY <2>4 DEF PcpEntradaSalida
    <3>2. \E k1 \in Clases : \E x1 \in Indices : Lleva(Head(mensajes[c]).pcb, k1, x1)
      BY <2>4, LugarPcpEntradaSalida
    <3>3. QED
      BY <2>4, <3>1, <3>2, LugarPcpEntradaSalida, MovidaConserva
  <2>5. QED
    BY <1>7, <2>1, <2>2, <2>3, <2>4 DEF PcpMensaje
<1>8. CASE PcpInterno
  <2>1. CASE PcpInserta
    <3>1. programa' = programa
      BY <2>1 DEF PcpInserta
    <3>2. QED
      BY <2>1, <3>1, LugarPcpInserta, MovidaConserva
  <2>2. CASE PcpLibera \/ PcpBusca \/ PcpQuita
    BY <2>2, QuietaPcpInterno, QuietaConserva
  <2>3. CASE PcpCierra
    <3>1. programa' = programa
      BY <2>3 DEF PcpCierra
    <3>2. QED
      BY <2>3, <3>1, LugarPcpCierra, TrasladoConserva
  <2>4. QED
    BY <1>8, <2>1, <2>2, <2>3 DEF PcpInterno
<1>9. ASSUME NEW d \in Dispositivos, HiloIO(d) PROVE InvLugares'
  <2>1. CASE IOToma(d)
    <3>1. programa' = programa
      BY <2>1 DEF IOToma
    <3>2. QED
      BY <2>1, <3>1, LugarIOToma, MovidaConserva
  <2>2. CASE IOMideReady(d)
    BY <2>2, QuietaIOyVaciar, QuietaConserva
  <2>3. CASE IOInserta(d)
    <3>1. programa' = programa
      BY <2>3 DEF IOInserta
    <3>2. QED
      BY <2>3, <3>1, LugarIOInserta, MovidaConserva
  <2>4. QED
    BY <1>9, <2>1, <2>2, <2>3 DEF HiloIO
<1>10. CASE VaciarExit
  <2>1. CASE VaciarQuita /\ vaciar.i < Len(colaExit)
    <3>1. programa' = programa
      BY <2>1 DEF VaciarQuita
    <3>2. QED
      BY <2>1, <3>1, LugarVaciarQuita, MovidaConserva
  <2>2. CASE VaciarDespierta \/ (VaciarQuita /\ vaciar.i >= Len(colaExit))
    BY <2>2, QuietaIOyVaciar, QuietaConserva
  <2>3. vaciar.i \in Nat /\ Len(colaExit) \in Nat
    BY LenProperties DEF TypeOK, TipoVaciar, TipoColas
  <2>4. QED
    BY <1>10, <2>1, <2>2, <2>3 DEF VaciarExit
<1>11. ASSUME NEW c \in CPUs, CpuAvanza(c) \/ CpuEntorno(c) PROVE InvLugares'
  <2>1. CASE CpuConecta(c) \/ CpuAnuncia(c)
    BY <2>1, QuietaCpu, QuietaConserva
  <2>2. CASE CpuRecibe(c)
    <3>1. programa' = programa
      BY <2>2 DEF CpuRecibe
    <3>2. QED
      BY <2>2, <3>1, LugarCpuRecibe, MovidaConserva
  <2>3. CASE CpuQuantum(c) \/ CpuTermina(c) \/ CpuEntradaSalida(c)
    <3>1. PICK t \in {"S", "Q", "F", "E"}, e \in NombresES \cup {Nada} : Devuelve(c, t, e)
      BY <2>3 DEF CpuQuantum, CpuTermina, CpuEntradaSalida
    <3>2. programa' = programa
      BY <3>1 DEF Devuelve
    <3>3. QED
      BY <3>1, <3>2, LugarDevuelve, MovidaConserva
  <2>4. CASE CpuSale(c)
    <3>1. programa' = programa
      BY <2>4 DEF CpuSale
    <3>2. QED
      BY <2>4, <3>1, LugarCpuSale, MovidaConserva
  <2>5. CASE CpuMuere(c)
    <3>1. programa' = programa
      BY <2>5 DEF CpuMuere
    <3>2. QED
      BY <2>5, <3>1, LugarCpuMuere, TrasladoConserva
  <2>6. QED
    BY <1>11, <2>1, <2>2, <2>3, <2>4, <2>5 DEF CpuAvanza, CpuEntorno
<1>12. CASE UNCHANGED vars
  BY <1>12, QuietaTartamudeo, QuietaConserva
<1>13. QED
  BY <1>1, <1>2, <1>3, <1>4, <1>5, <1>6, <1>7, <1>8, <1>9, <1>10, <1>11, <1>12
  DEF Next, Plp, PlpInterno

\* In every reachable state the PCB of a program is in one place.
LEMMA InvLugaresSiempre == Spec => []InvLugares
<1>1. Init => InvLugares
  BY LugaresInicial
<1>2. QED
  BY <1>1, InvLugaresPaso, TipoCorrecto, InvNewSiempre, PTL DEF Spec

-----------------------------------------------------------------------------
(* PcbEnUnLugar *)

\* o is the entry of Ocupantes for the PCB of p in place x of kind k.
EsOcupante(o, p, k, x) ==
    \/ k = "new" /\ x = Nada /\ \E i \in DOMAIN colaNew : colaNew[i] = p /\ o = <<k, <<Nada, i>>, p>>
    \/ k = "ready" /\ x = Nada /\ \E i \in DOMAIN colaReady :
           colaReady[i] = p /\ o = <<k, <<Nada, i>>, p>>
    \/ k = "exit" /\ x = Nada /\ \E i \in DOMAIN colaExit :
           colaExit[i] = p /\ o = <<k, <<Nada, i>>, p>>
    \/ k = "plp" /\ x = Nada /\ plp.pc # "ordena" /\ plp.pcb = p /\ o = <<k, plp.pc, p>>
    \/ k = "pcp" /\ x = Nada /\ pcp.pcb = p /\ o = <<k, 0, p>>
    \/ k = "dispatcher" /\ x = Nada /\ dispatcher.pcb = p /\ o = <<k, 0, p>>
    \/ k = "worker" /\ x \in Programas /\ worker[x].pcb = p /\ o = <<k, x, p>>
    \/ k = "canal" /\ x \in CPUs /\ \E i \in DOMAIN canal[x] :
           canal[x][i] = p /\ o = <<k, <<x, i>>, p>>
    \/ k = "mensaje" /\ x \in CPUs /\ \E i \in DOMAIN mensajes[x] :
           mensajes[x][i].pcb = p /\ o = <<k, <<x, i>>, p>>
    \/ k = "cpu" /\ x \in CPUs /\ cpu[x].pcb = p /\ o = <<k, x, p>>
    \/ k = "io" /\ x \in Dispositivos /\ \E i \in DOMAIN colaIO[x] :
           colaIO[x][i] = p /\ o = <<k, <<x, i>>, p>>
    \/ k = "hilo_io" /\ x \in Dispositivos /\ hiloIO[x].pcb = p /\ o = <<k, x, p>>
    \/ k = "perdido" /\ x = Nada /\ p \in perdidos /\ o = <<k, 0, p>>
    \/ k = "destruido" /\ x = Nada /\ p \in destruidos /\ o = <<k, 0, p>>

\* The entries of Ocupantes with the PCB of p are those of its places.
LEMMA OcupantesPorLugar ==
    ASSUME NEW p \in Programas, NEW o
    PROVE  o \in Ocupantes /\ o[3] = p <=> \E k \in Clases : \E x \in Indices : EsOcupante(o, p, k, x)
<1> DEFINE enNew == Posiciones("new", Nada, colaNew)
           enReady == Posiciones("ready", Nada, colaReady)
           enExit == Posiciones("exit", Nada, colaExit)
           enPlp == { <<"plp", pc, plp.pcb>> : pc \in {plp.pc} \ {"ordena"} }
           enPcpODisp == { <<"pcp", 0, pcp.pcb>>, <<"dispatcher", 0, dispatcher.pcb>> }
           enWorkers == { <<"worker", w, worker[w].pcb>> : w \in Programas }
           enCanales == UNION { Posiciones("canal", c, canal[c]) : c \in CPUs }
           enMensajes == UNION { { <<"mensaje", <<c, i>>, mensajes[c][i].pcb>> : i \in DOMAIN mensajes[c] } : c \in CPUs }
           enCpus == { <<"cpu", c, cpu[c].pcb>> : c \in CPUs }
           enColasIO == UNION { Posiciones("io", d, colaIO[d]) : d \in Dispositivos }
           enHilosIO == { <<"hilo_io", d, hiloIO[d].pcb>> : d \in Dispositivos }
           enPerdidos == { <<"perdido", 0, u>> : u \in perdidos }
           enDestruidos == { <<"destruido", 0, u>> : u \in destruidos }
<1>0. Ocupantes = enNew \cup enReady \cup enExit \cup enPlp \cup enPcpODisp \cup enWorkers
                  \cup enCanales \cup enMensajes \cup enCpus \cup enColasIO \cup enHilosIO
                  \cup enPerdidos \cup enDestruidos
  BY DEF Ocupantes
<1> HIDE DEF enNew, enReady, enExit, enPlp, enPcpODisp, enWorkers, enCanales, enMensajes, enCpus,
             enColasIO, enHilosIO, enPerdidos, enDestruidos
<1>1. ASSUME o \in Ocupantes, o[3] = p
      PROVE  \E k \in Clases : \E x \in Indices : EsOcupante(o, p, k, x)
  <2>1. CASE o \in enNew
    BY <1>1, <2>1, Nombrados DEF enNew, Posiciones, EsOcupante
  <2>2. CASE o \in enReady
    BY <1>1, <2>2, Nombrados DEF enReady, Posiciones, EsOcupante
  <2>3. CASE o \in enExit
    BY <1>1, <2>3, Nombrados DEF enExit, Posiciones, EsOcupante
  <2>4. CASE o \in enPlp
    BY <1>1, <2>4, Nombrados DEF enPlp, EsOcupante
  <2>5. CASE o \in enPcpODisp
    BY <1>1, <2>5, Nombrados DEF enPcpODisp, EsOcupante
  <2>6. CASE o \in enWorkers
    BY <1>1, <2>6, Nombrados DEF enWorkers, EsOcupante
  <2>7. CASE o \in enCanales
    BY <1>1, <2>7, Nombrados DEF enCanales, Posiciones, EsOcupante
  <2>8. CASE o \in enMensajes
    BY <1>1, <2>8, Nombrados DEF enMensajes, EsOcupante
  <2>9. CASE o \in enCpus
    BY <1>1, <2>9, Nombrados DEF enCpus, EsOcupante
  <2>10. CASE o \in enColasIO
    BY <1>1, <2>10, Nombrados DEF enColasIO, Posiciones, EsOcupante
  <2>11. CASE o \in enHilosIO
    BY <1>1, <2>11, Nombrados DEF enHilosIO, EsOcupante
  <2>12. CASE o \in enPerdidos
    BY <1>1, <2>12, Nombrados DEF enPerdidos, EsOcupante
  <2>13. CASE o \in enDestruidos
    BY <1>1, <2>13, Nombrados DEF enDestruidos, EsOcupante
  <2>14. QED
    BY <1>0, <1>1, <2>1, <2>2, <2>3, <2>4, <2>5, <2>6, <2>7, <2>8, <2>9, <2>10, <2>11, <2>12, <2>13
<1>2. ASSUME NEW k \in Clases, NEW x \in Indices, EsOcupante(o, p, k, x)
      PROVE  o \in Ocupantes /\ o[3] = p
  <2>1. o[3] = p
    BY <1>2 DEF EsOcupante, enPerdidos, enDestruidos
  <2>2. CASE k \in {"new", "ready", "exit"}
    <3>1. \/ o \in enNew
          \/ o \in enReady
          \/ o \in enExit
      BY <1>2, <2>2 DEF EsOcupante, Posiciones, enNew, enReady, enExit
    <3>2. QED
      BY <2>1, <3>1, <1>0
  <2>3. CASE k \in {"plp", "pcp", "dispatcher"}
    <3>1. \/ o \in enPlp
          \/ o \in enPcpODisp
      BY <1>2, <2>3 DEF EsOcupante, enPlp, enPcpODisp
    <3>2. QED
      BY <2>1, <3>1, <1>0
  <2>4. CASE k \in {"worker", "cpu", "hilo_io"}
    <3>1. \/ o \in enWorkers
          \/ o \in enCpus
          \/ o \in enHilosIO
      BY <1>2, <2>4 DEF EsOcupante, enWorkers, enCpus, enHilosIO
    <3>2. QED
      BY <2>1, <3>1, <1>0
  <2>5. CASE k = "canal"
    <3>1. o \in enCanales
      BY <1>2, <2>5 DEF EsOcupante, Posiciones, enCanales
    <3>2. QED
      BY <2>1, <3>1, <1>0
  <2>6. CASE k = "mensaje"
    <3>1. o \in enMensajes
      BY <1>2, <2>6 DEF EsOcupante, enMensajes
    <3>2. QED
      BY <2>1, <3>1, <1>0
  <2>7. CASE k = "io"
    <3>1. o \in enColasIO
      BY <1>2, <2>7 DEF EsOcupante, Posiciones, enColasIO
    <3>2. QED
      BY <2>1, <3>1, <1>0
  <2>8. CASE k \in {"perdido", "destruido"}
    <3>1. \/ o \in enPerdidos
          \/ o \in enDestruidos
      BY <1>2, <2>8 DEF EsOcupante, enPerdidos, enDestruidos
    <3>2. QED
      BY <2>1, <3>1, <1>0
  <2>9. QED
    BY <2>2, <2>3, <2>4, <2>5, <2>6, <2>7, <2>8 DEF Clases
<1>3. QED
  BY <1>1, <1>2

\* A PCB that is in a place has an entry there, and only one.
LEMMA OcupanteUnico ==
    ASSUME ListasSinRepetir, NEW p \in Programas, NEW k \in Clases, NEW x \in Indices
    PROVE  /\ Esta(p, k, x) <=> \E o : EsOcupante(o, p, k, x)
           /\ \A o1, o2 : EsOcupante(o1, p, k, x) /\ EsOcupante(o2, p, k, x) => o1 = o2
<1> USE ConstantesSupuestas
<1>1. Esta(p, k, x) => \E o : EsOcupante(o, p, k, x)
  <2>1. CASE k \in {"new", "ready", "exit", "canal", "io"}
    BY <2>1 DEF Esta, EsOcupante, ToSet
  <2>2. CASE k = "mensaje"
    BY <2>2 DEF Esta, EsOcupante, Pcbs
  <2>3. CASE k \notin {"new", "ready", "exit", "canal", "io", "mensaje"}
    BY <2>3 DEF Esta, EsOcupante
  <2>4. QED
    BY <2>1, <2>2, <2>3
<1>2. ASSUME NEW o, EsOcupante(o, p, k, x) PROVE Esta(p, k, x)
  <2>1. CASE k \in {"new", "ready", "exit", "canal", "io"}
    BY <1>2, <2>1 DEF Esta, EsOcupante, ToSet
  <2>2. CASE k = "mensaje"
    BY <1>2, <2>2 DEF Esta, EsOcupante, Pcbs
  <2>3. CASE k \notin {"new", "ready", "exit", "canal", "io", "mensaje"}
    BY <1>2, <2>3 DEF Esta, EsOcupante
  <2>4. QED
    BY <2>1, <2>2, <2>3
<1>3. ASSUME NEW o1, NEW o2, EsOcupante(o1, p, k, x), EsOcupante(o2, p, k, x)
      PROVE  o1 = o2
  <2>1. CASE k \in {"new", "ready", "exit", "canal", "io"}
    BY <1>3, <2>1 DEF EsOcupante, ListasSinRepetir, SinRepetir
  <2>2. CASE k = "mensaje"
    BY <1>3, <2>2 DEF EsOcupante, ListasSinRepetir, PcbsSinRepetir
  <2>3. CASE k \notin {"new", "ready", "exit", "canal", "io", "mensaje"}
    BY <1>3, <2>3 DEF EsOcupante
  <2>4. QED
    BY <2>1, <2>2, <2>3
<1>4. QED
  BY <1>1, <1>2, <1>3

\* The PCB of a program that was received is in exactly one place and that of
\* any other in none: with any number of programs, CPUs and devices no step of
\* any thread copies a PCB, drops one without counting it as lost, or leaves one
\* in two queues.
THEOREM PcbSiempreEnUnLugar == Spec => []PcbEnUnLugar
<1>1. InvLugares => PcbEnUnLugar
  <2>1. SUFFICES ASSUME InvLugares, NEW p \in Programas
                 PROVE  Cardinality({o \in Ocupantes : o[3] = p})
                            = IF programa[p] = "afuera" THEN 0 ELSE 1
    BY DEF PcbEnUnLugar
  <2> DEFINE O == {o \in Ocupantes : o[3] = p}
  <2>2. \A o : o \in O <=> \E k \in Clases : \E x \in Indices : EsOcupante(o, p, k, x)
    BY OcupantesPorLugar
  <2> HIDE DEF O
  <2>3. CASE programa[p] = "afuera"
    <3>1. \A k \in Clases : \A x \in Indices : ~Esta(p, k, x)
      BY <2>1, <2>3 DEF InvLugares, AlgunLugar
    <3>2. O = {}
      BY <2>1, <2>2, <3>1, OcupanteUnico DEF InvLugares
    <3>3. QED
      BY <2>3, <3>2, FS_EmptySet DEF O
  <2>4. CASE programa[p] # "afuera"
    <3>1. PICK k \in Clases, x \in Indices : Esta(p, k, x)
      BY <2>1, <2>4 DEF InvLugares, AlgunLugar
    <3>2. PICK o : EsOcupante(o, p, k, x)
      BY <2>1, <3>1, OcupanteUnico DEF InvLugares
    <3>3. ASSUME NEW u \in O PROVE u = o
      <4>1. PICK j \in Clases, y \in Indices : EsOcupante(u, p, j, y)
        BY <2>2, <3>3
      <4>2. Esta(p, j, y)
        BY <2>1, <4>1, OcupanteUnico DEF InvLugares
      <4>3. j = k /\ y = x
        BY <2>1, <3>1, <4>2 DEF InvLugares, UnSoloLugar
      <4>4. QED
        BY <2>1, <3>2, <4>1, <4>3, OcupanteUnico DEF InvLugares
    <3>4. O = {o}
      BY <2>2, <3>2, <3>3
    <3>5. QED
      BY <2>4, <3>4, FS_Singleton DEF O
  <2>5. QED
    BY <2>3, <2>4 DEF O
<1>2. QED
  BY <1>1, InvLugaresSiempre, PTL

-----------------------------------------------------------------------------
(* The places of s_ready_max *)

\* The PCBs in a place of kind k hold a place of s_ready_max.
ConCupo(k) ==
    \/ k \in {"ready", "worker", "dispatcher", "canal", "cpu", "mensaje", "pcp", "io", "hilo_io",
              "perdido"}
    \/ k = "plp" /\ plp.pc = "a_ready"

Titulares == {p \in Programas : \E k \in Clases : \E x \in Indices : Esta(p, k, x) /\ ConCupo(k)}

Sacan == {w \in Programas : worker[w].pc = "saca"}

\* CuposConservados, said of the places of the PCBs.
Cupos == sReadyMax + Cardinality(Titulares) + Cardinality(Sacan)
             + (IF pcp.pc = "libera" THEN 1 ELSE 0) = Multiprogramacion

\* The sets the count is about are finite.
LEMMA CuposFinitos ==
    /\ IsFiniteSet(Titulares) /\ Cardinality(Titulares) \in Nat
    /\ IsFiniteSet(Sacan) /\ Cardinality(Sacan) \in Nat
<1>1. Titulares \subseteq Programas /\ Sacan \subseteq Programas
  BY DEF Titulares, Sacan
<1>2. IsFiniteSet(Titulares) /\ IsFiniteSet(Sacan)
  BY <1>1, ConstantesSupuestas, FS_Subset
<1>3. QED
  BY <1>2, FS_CardinalityType

\* The entries of Ocupantes carry the PCB of a program or none.
LEMMA OcupanteTipo == ASSUME TypeOK, NEW o \in Ocupantes PROVE o[3] \in Pcb
<1>1. \A s \in Seq(Programas) : \A l, x : \A u \in Posiciones(l, x, s) : u[3] \in Pcb
  BY ElementOfSeq, LenProperties DEF Posiciones, Pcb
<1>2. \A c \in CPUs : \A i \in DOMAIN mensajes[c] : mensajes[c][i].pcb \in Pcb
  <2>1. \A c \in CPUs : mensajes[c] \in Seq(Mensaje)
    BY DEF TypeOK, TipoMensajes
  <2>2. \A m \in Mensaje : m.pcb \in Pcb
    BY DEF Mensaje, Pcb
  <2>3. QED
    BY <2>1, <2>2, ElementOfSeq, LenProperties
<1>3. CASE o \in Posiciones("new", Nada, colaNew) \cup Posiciones("ready", Nada, colaReady)
               \cup Posiciones("exit", Nada, colaExit)
  BY <1>1, <1>3 DEF TypeOK, TipoColas
<1>4. CASE \/ o \in { <<"plp", pc, plp.pcb>> : pc \in {plp.pc} \ {"ordena"} }
           \/ o \in { <<"pcp", 0, pcp.pcb>>, <<"dispatcher", 0, dispatcher.pcb>> }
  BY <1>4 DEF TypeOK, TipoPlp, TipoPcp, TipoDispatcher
<1>5. CASE \/ o \in { <<"worker", w, worker[w].pcb>> : w \in Programas }
           \/ o \in { <<"cpu", c, cpu[c].pcb>> : c \in CPUs }
           \/ o \in { <<"hilo_io", d, hiloIO[d].pcb>> : d \in Dispositivos }
  BY <1>5 DEF TypeOK, TipoWorkers, TipoCpu, TipoIO
<1>6. CASE \/ o \in UNION { Posiciones("canal", c, canal[c]) : c \in CPUs }
           \/ o \in UNION { Posiciones("io", d, colaIO[d]) : d \in Dispositivos }
  BY <1>1, <1>6 DEF TypeOK, TipoCpu, TipoIO
<1>7. CASE o \in UNION { { <<"mensaje", <<c, i>>, mensajes[c][i].pcb>> : i \in DOMAIN mensajes[c] }
                         : c \in CPUs }
  BY <1>2, <1>7
<1>8. CASE \/ o \in { <<"perdido", 0, p>> : p \in perdidos }
           \/ o \in { <<"destruido", 0, p>> : p \in destruidos }
  BY <1>8 DEF TypeOK, TipoProgramas, Pcb
<1>9. QED
  BY <1>3, <1>4, <1>5, <1>6, <1>7, <1>8 DEF Ocupantes

\* The programs of ConLugar are those whose PCB is in a place that counts.
LEMMA ConLugarPorLugar == TypeOK /\ InvLugares => ConLugar = Titulares
<1> SUFFICES ASSUME TypeOK, InvLugares PROVE ConLugar = Titulares
  OBVIOUS
<1>1. \A o, p : \A k \in Clases : \A x \in Indices :
         EsOcupante(o, p, k, x) => o[1] = k /\ o[3] = p /\ (k = "plp" => o[2] = plp.pc)
  BY DEF EsOcupante
<1>2. ASSUME NEW p \in ConLugar PROVE p \in Titulares
  <2>1. PICK o \in Ocupantes :
           /\ o[3] = p /\ o[3] # Nada
           /\ \/ o[1] \in {"ready", "worker", "dispatcher", "canal", "cpu", "mensaje",
                           "pcp", "io", "hilo_io", "perdido"}
              \/ o[1] = "plp" /\ o[2] = "a_ready"
    BY <1>2 DEF ConLugar
  <2>2. p \in Programas
    BY <2>1, OcupanteTipo DEF Pcb
  <2>3. PICK k \in Clases, x \in Indices : EsOcupante(o, p, k, x)
    BY <2>1, <2>2, OcupantesPorLugar
  <2>4. Esta(p, k, x)
    BY <2>2, <2>3, OcupanteUnico DEF InvLugares
  <2>5. ConCupo(k)
    BY <1>1, <2>1, <2>3 DEF ConCupo
  <2>6. QED
    BY <2>2, <2>4, <2>5 DEF Titulares
<1>3. ASSUME NEW p \in Titulares PROVE p \in ConLugar
  <2>1. p \in Programas /\ p # Nada
    BY <1>3, ConstantesSupuestas DEF Titulares
  <2>2. PICK k \in Clases, x \in Indices : Esta(p, k, x) /\ ConCupo(k)
    BY <1>3 DEF Titulares
  <2>3. PICK o : EsOcupante(o, p, k, x)
    BY <2>1, <2>2, OcupanteUnico DEF InvLugares
  <2>4. o \in Ocupantes /\ o[3] = p
    BY <2>1, <2>3, OcupantesPorLugar
  <2>5. \/ o[1] \in {"ready", "worker", "dispatcher", "canal", "cpu", "mensaje",
                     "pcp", "io", "hilo_io", "perdido"}
        \/ o[1] = "plp" /\ o[2] = "a_ready"
    BY <1>1, <2>2, <2>3 DEF ConCupo
  <2>6. QED
    BY <2>1, <2>4, <2>5 DEF ConLugar
<1>4. QED
  BY <1>2, <1>3

\* The PCB in a place holds a place of s_ready_max if its kind does.
LEMMA TitularPorLugar ==
    ASSUME UnSoloLugar, NEW q \in Programas, NEW k \in Clases, NEW x \in Indices, Esta(q, k, x)
    PROVE  q \in Titulares <=> ConCupo(k)
BY DEF Titulares, UnSoloLugar

\* Taking PCBs to a place gives them a place of s_ready_max or takes theirs.
LEMMA TitularesLlevados ==
    ASSUME NEW S, NEW k1 \in Clases, NEW x1 \in Indices, LlevaTodos(S, k1, x1),
           plp'.pc = "a_ready" <=> plp.pc = "a_ready"
    PROVE  Titulares' = IF ConCupo(k1) THEN Titulares \cup (S \cap Programas) ELSE Titulares \ S
<1>1. \A k : ConCupo(k)' <=> ConCupo(k)
  BY DEF ConCupo
<1>2. \A p \in Programas :
         p \in Titulares' <=> \E k \in Clases : \E x \in Indices : Esta(p, k, x)' /\ ConCupo(k)
  BY <1>1 DEF Titulares
<1>3. \A p \in Programas \ S : p \in Titulares' <=> p \in Titulares
  BY <1>2 DEF LlevaTodos, Titulares
<1>4. \A p \in Programas \cap S : p \in Titulares' <=> ConCupo(k1)
  BY <1>2 DEF LlevaTodos
<1>5. Titulares \subseteq Programas /\ Titulares' \subseteq Programas
  BY DEF Titulares
<1>6. QED
  BY <1>3, <1>4, <1>5

\* Moving none changes nothing.
LEMMA TitularesQuietos ==
    ASSUME NadaSeMueve, plp'.pc = "a_ready" <=> plp.pc = "a_ready"
    PROVE  Titulares' = Titulares
<1>1. \A k : ConCupo(k)' <=> ConCupo(k)
  BY DEF ConCupo
<1>2. QED
  BY <1>1 DEF NadaSeMueve, Titulares

\* One PCB that goes from a place that counts to another, or from one that does
\* not to another.
LEMMA TitularesMismos ==
    ASSUME UnSoloLugar, NEW q \in Programas, NEW k0 \in Clases, NEW x0 \in Indices, Esta(q, k0, x0),
           NEW k1 \in Clases, NEW x1 \in Indices, Lleva(q, k1, x1),
           plp'.pc = "a_ready" <=> plp.pc = "a_ready", ConCupo(k1) <=> ConCupo(k0)
    PROVE  Titulares' = Titulares
<1>1. q \in Titulares <=> ConCupo(k0)
  BY TitularPorLugar
<1>2. LlevaTodos({q}, k1, x1)
  BY DEF Lleva
<1>3. Titulares' = IF ConCupo(k1) THEN Titulares \cup ({q} \cap Programas) ELSE Titulares \ {q}
  BY <1>2, TitularesLlevados
<1>4. QED
  BY <1>1, <1>3

\* All the PCBs of a place that counts, taken to another.
LEMMA TitularesTrasladados ==
    ASSUME NEW S, NEW k0 \in Clases, NEW x0 \in Indices,
           \A p \in Programas : p \in S <=> Esta(p, k0, x0),
           NEW k1 \in Clases, NEW x1 \in Indices, LlevaTodos(S, k1, x1),
           plp'.pc = "a_ready" <=> plp.pc = "a_ready", ConCupo(k0), ConCupo(k1)
    PROVE  Titulares' = Titulares
<1>1. S \cap Programas \subseteq Titulares
  BY DEF Titulares
<1>2. Titulares' = Titulares \cup (S \cap Programas)
  BY TitularesLlevados
<1>3. QED
  BY <1>1, <1>2

\* The steps that leave the four terms of the count alone.
CuposQuietos ==
    /\ Titulares' = Titulares /\ Sacan' = Sacan /\ sReadyMax' = sReadyMax
    /\ pcp'.pc = "libera" <=> pcp.pc = "libera"

\* Every step keeps the places of s_ready_max: who gets one takes it from the
\* semaphore, and only who goes to Exit gives it back.
LEMMA CuposPaso == TypeOK /\ InvNew /\ InvLugares /\ Cupos /\ [Next]_vars => Cupos'
<1> SUFFICES ASSUME TypeOK, InvNew, InvLugares, Cupos, [Next]_vars PROVE Cupos'
  OBVIOUS
<1> USE Nombrados, ConstantesSupuestas
<1>u. UnSoloLugar /\ AlgunLugar
  BY DEF InvLugares
<1>t. /\ sReadyMax \in Nat /\ IsFiniteSet(Titulares) /\ Cardinality(Titulares) \in Nat
      /\ IsFiniteSet(Sacan) /\ Cardinality(Sacan) \in Nat
  BY CuposFinitos DEF TypeOK, TipoSemaforos
<1>q. ASSUME CuposQuietos PROVE Cupos'
  BY <1>q DEF Cupos, CuposQuietos
<1>1. ASSUME NEW p \in Programas, AceptarPrograma(p) PROVE Cupos'
  <2>1. LlevaTodos({p}, "plp", Nada)
    BY <1>1, LugarAceptarPrograma DEF Lleva
  <2>2. plp.pc = "select" /\ plp'.pc = "admision" /\ programa[p] = "afuera"
    BY <1>1 DEF AceptarPrograma, PlpOcioso
  <2>3. p \notin Titulares
    BY <1>u, <2>2 DEF AlgunLugar, Titulares
  <2>4. Titulares' = Titulares
    <3>1. ~ConCupo("plp") /\ (plp'.pc = "a_ready" <=> plp.pc = "a_ready")
      BY <2>2 DEF ConCupo
    <3>2. Titulares' = Titulares \ {p}
      BY <2>1, <3>1, TitularesLlevados
    <3>3. QED
      BY <2>3, <3>2
  <2>5. QED
    BY <1>1, <1>q, <2>4 DEF AceptarPrograma, CuposQuietos, Sacan, sems
<1>2. ASSUME NEW p \in Programas, RechazarPrograma(p) PROVE Cupos'
  <2>1. LlevaTodos({p}, "exit", Nada)
    BY <1>2, LugarRechazarPrograma DEF Lleva
  <2>2. plp' = plp /\ programa[p] = "afuera"
    BY <1>2 DEF RechazarPrograma
  <2>3. p \notin Titulares
    BY <1>u, <2>2 DEF AlgunLugar, Titulares
  <2>4. Titulares' = Titulares
    <3>1. ~ConCupo("exit") /\ (plp'.pc = "a_ready" <=> plp.pc = "a_ready")
      BY <2>2 DEF ConCupo
    <3>2. Titulares' = Titulares \ {p}
      BY <2>1, <3>1, TitularesLlevados
    <3>3. QED
      BY <2>3, <3>2
  <2>5. QED
    BY <1>2, <1>q, <2>4 DEF RechazarPrograma, CuposQuietos, Sacan
<1>3. CASE ProbarReadyMax
  <2>1. NadaSeMueve /\ plp.pc = "admision" /\ plp.pcb \in Programas
    BY <1>3, QuietaPlp DEF Quieta, ProbarReadyMax, TypeOK, TipoPlp
  <2>2. pcp' = pcp /\ Sacan' = Sacan
    BY <1>3 DEF ProbarReadyMax, Sacan
  <2>3. CASE sReadyMax > 0 /\ sReadyMax' = sReadyMax - 1 /\ plp' = [plp EXCEPT !.pc = "a_ready"]
    <3>1. plp'.pc = "a_ready"
      BY <2>3 DEF TypeOK, TipoPlp
    <3>2. Esta(plp.pcb, "plp", Nada)
      BY <2>1 DEF Esta
    <3>3. plp.pcb \notin Titulares
      BY <1>u, <2>1, <3>2, TitularPorLugar DEF ConCupo
    <3>4. \A p \in Programas : \A x \in Indices : Esta(p, "plp", x) <=> p = plp.pcb /\ x = Nada
      BY <2>1 DEF Esta
    <3>5. \A k : ConCupo(k)' <=> ConCupo(k) \/ k = "plp"
      BY <2>1, <3>1 DEF ConCupo
    <3>6. \A p \in Programas : p \in Titulares' <=>
             \E k \in Clases : \E x \in Indices : Esta(p, k, x) /\ (ConCupo(k) \/ k = "plp")
      BY <2>1, <3>5 DEF NadaSeMueve, Titulares
    <3>7. \A p \in Programas : p \in Titulares' <=> p \in Titulares \/ p = plp.pcb
      BY <3>4, <3>6 DEF Titulares
    <3>8. Titulares' = Titulares \cup {plp.pcb}
      BY <2>1, <3>7 DEF Titulares
    <3>9. Cardinality(Titulares') = Cardinality(Titulares) + 1
      BY <1>t, <3>3, <3>8, FS_AddElement
    <3>10. QED
      BY <1>t, <2>2, <2>3, <3>9 DEF Cupos
  <2>4. CASE sReadyMax' = sReadyMax /\ plp' = [plp EXCEPT !.pc = "a_new"]
    <3>1. plp'.pc = "a_new"
      BY <2>4 DEF TypeOK, TipoPlp
    <3>2. Titulares' = Titulares
      BY <2>1, <3>1, TitularesQuietos
    <3>3. QED
      BY <1>q, <2>2, <2>4, <3>2 DEF CuposQuietos
  <2>5. QED
    BY <1>3, <2>3, <2>4 DEF ProbarReadyMax
<1>4. CASE PlpAReady
  <2>1. /\ plp.pcb \in Programas /\ Esta(plp.pcb, "plp", Nada)
        /\ LlevaTodos({plp.pcb}, "ready", Nada)
    BY <1>4, LugarPlpAReady DEF Lleva
  <2>2. plp.pc = "a_ready" /\ plp'.pc = "mide"
    BY <1>4 DEF PlpAReady, PlpMide, PlpOcioso
  <2>3. plp.pcb \in Titulares
    BY <1>u, <2>1, <2>2, TitularPorLugar DEF ConCupo
  <2>4. \A k : ConCupo(k)' <=> ConCupo(k) /\ k # "plp"
    BY <2>2 DEF ConCupo
  <2>5. \A p \in Programas : p \in Titulares' <=>
           \E k \in Clases : \E x \in Indices : Esta(p, k, x)' /\ ConCupo(k) /\ k # "plp"
    BY <2>4 DEF Titulares
  <2>6. \A p \in Programas : p # plp.pcb => \A x \in Indices : ~Esta(p, "plp", x)
    BY DEF Esta
  <2>7. \A p \in Programas : p # plp.pcb => (p \in Titulares' <=> p \in Titulares)
    BY <2>1, <2>5, <2>6 DEF LlevaTodos, Titulares
  <2>8. plp.pcb \in Titulares'
    BY <2>1, <2>5 DEF LlevaTodos, ConCupo
  <2>9. Titulares' = Titulares
    BY <2>3, <2>7, <2>8 DEF Titulares
  <2>10. QED
    BY <1>4, <1>q, <2>9 DEF PlpAReady, CuposQuietos, Sacan
<1>5. CASE PlpANew
  <2>1. plp.pc = "a_new" /\ plp'.pc = "ordena"
    BY <1>5 DEF PlpANew, TypeOK, TipoPlp
  <2>2. Titulares' = Titulares
    BY <1>5, <1>u, <2>1, LugarPlpANew, TitularesMismos DEF ConCupo
  <2>3. QED
    BY <1>5, <1>q, <2>2 DEF PlpANew, CuposQuietos, Sacan, sems
<1>6. CASE OrdenarNew \/ MedirNew \/ MostrarNew
  <2>1. NadaSeMueve
    BY <1>6, QuietaPlp DEF Quieta
  <2>2. plp.pc # "a_ready" /\ plp'.pc # "a_ready"
    <3>1. CASE OrdenarNew
      BY <3>1 DEF OrdenarNew, PlpMide, PlpOcioso
    <3>2. CASE MedirNew
      BY <3>2 DEF MedirNew, PlpOcioso
    <3>3. CASE MostrarNew
      <4>1. plp.pc = "muestra" /\ plp' \in {plp, PlpOcioso, [plp EXCEPT !.i = @ + 1]}
        BY <3>3 DEF MostrarNew
      <4>2. QED
        BY <4>1 DEF PlpOcioso, TypeOK, TipoPlp
    <3>4. QED
      BY <1>6, <3>1, <3>2, <3>3
  <2>3. Titulares' = Titulares
    BY <2>1, <2>2, TitularesQuietos
  <2>4. Sacan' = Sacan
    <3>1. CASE OrdenarNew
      <4>1. worker[plp.pcb].pc = "no" /\ worker' = [worker EXCEPT ![plp.pcb].pc = "espera"]
        BY <3>1 DEF OrdenarNew, InvNew
      <4>2. QED
        BY <4>1 DEF Sacan, TypeOK, TipoWorkers
    <3>2. CASE MedirNew \/ MostrarNew
      BY <3>2 DEF MedirNew, MostrarNew, Sacan
    <3>3. QED
      BY <1>6, <3>1, <3>2
  <2>5. QED
    BY <1>6, <1>q, <2>3, <2>4 DEF OrdenarNew, MedirNew, MostrarNew, CuposQuietos, sems
<1>7. ASSUME NEW w \in Programas, WorkerLugar(w) PROVE Cupos'
  <2>1. NadaSeMueve /\ plp' = plp /\ pcp' = pcp
    BY <1>7, QuietaWorker DEF Quieta, WorkerLugar
  <2>2. Titulares' = Titulares
    BY <2>1, TitularesQuietos
  <2>3. w \notin Sacan /\ Sacan' = Sacan \cup {w}
    BY <1>7 DEF WorkerLugar, Sacan, TypeOK, TipoWorkers
  <2>4. Cardinality(Sacan') = Cardinality(Sacan) + 1
    BY <1>t, <2>3, FS_AddElement
  <2>5. sReadyMax > 0 /\ sReadyMax' = sReadyMax - 1
    BY <1>7 DEF WorkerLugar
  <2>6. QED
    BY <1>t, <2>1, <2>2, <2>4, <2>5 DEF Cupos
<1>8. ASSUME NEW w \in Programas, WorkerSaca(w), colaNew # <<>> PROVE Cupos'
  <2> DEFINE q == Head(colaNew)
  <2>1. q \in Programas /\ Esta(q, "new", Nada) /\ LlevaTodos({q}, "worker", w)
    BY <1>8, LugarWorkerSaca DEF Lleva
  <2>2. plp' = plp /\ pcp' = pcp /\ sReadyMax' = sReadyMax
    BY <1>8 DEF WorkerSaca, sems
  <2>3. q \notin Titulares
    BY <1>u, <2>1, TitularPorLugar DEF ConCupo
  <2>4. w \in Sacan /\ Sacan' = Sacan \ {w}
    BY <1>8 DEF WorkerSaca, Sacan, TypeOK, TipoWorkers
  <2> HIDE DEF q
  <2>5. Titulares' = Titulares \cup {q}
    <3>1. ConCupo("worker")
      BY DEF ConCupo
    <3>2. w \in Indices /\ LlevaTodos({q}, "worker", w) /\ {q} \cap Programas = {q}
      BY <2>1 DEF Indices
    <3>3. plp'.pc = "a_ready" <=> plp.pc = "a_ready"
      BY <2>2
    <3>4. QED
      BY <3>1, <3>2, <3>3, TitularesLlevados
  <2>6. Cardinality(Titulares') = Cardinality(Titulares) + 1
    BY <1>t, <2>3, <2>5, FS_AddElement
  <2>7. Cardinality(Sacan') = Cardinality(Sacan) - 1
    BY <1>t, <2>4, FS_RemoveElement
  <2>8. QED
    BY <1>t, <2>2, <2>6, <2>7 DEF Cupos
<1>9. ASSUME NEW w \in Programas, WorkerSaca(w), colaNew = <<>> PROVE Cupos'
  BY <1>9 DEF WorkerSaca, Cupos, Titulares, Esta, ConCupo, Sacan, colas, sems, cpuLado, io, historia
<1>10. ASSUME NEW w \in Programas, WorkerEncola(w) PROVE Cupos'
  <2>1. plp' = plp /\ pcp' = pcp /\ sReadyMax' = sReadyMax
    BY <1>10 DEF WorkerEncola
  <2>2. Titulares' = Titulares
    BY <1>10, <1>u, <2>1, LugarWorkerEncola, TitularesMismos DEF ConCupo
  <2>3. Sacan' = Sacan
    BY <1>10 DEF WorkerEncola, Sacan, TypeOK, TipoWorkers
  <2>4. QED
    BY <1>q, <2>1, <2>2, <2>3 DEF CuposQuietos
<1>11. CASE Dispatcher
  <2>1. plp' = plp /\ pcp' = pcp /\ sReadyMax' = sReadyMax /\ Sacan' = Sacan
    BY <1>11 DEF Dispatcher, DispEsperaPcb, DispEsperaCpu, DispTomaCpu, DispTomaPcb, DispEnvia,
                 Sacan, sems
  <2>2. CASE \/ DispEsperaPcb \/ DispEsperaCpu \/ DispTomaCpu
             \/ (DispTomaPcb /\ colaReady = <<>>)
    BY <1>q, <2>1, <2>2, QuietaDispatcher, TitularesQuietos DEF Quieta, CuposQuietos
  <2>3. CASE DispTomaPcb /\ colaReady # <<>>
    <3>1. Titulares' = Titulares
      BY <1>u, <2>1, <2>3, LugarDispTomaPcb, TitularesMismos DEF ConCupo
    <3>2. QED
      BY <1>q, <2>1, <3>1 DEF CuposQuietos
  <2>4. CASE DispEnvia
    <3>1. \E k1 \in Clases : \E x1 \in Indices :
             Lleva(dispatcher.pcb, k1, x1) /\ (ConCupo(k1) <=> ConCupo("dispatcher"))
      BY <2>4, LugarDispEnvia DEF ConCupo
    <3>2. Titulares' = Titulares
      BY <1>u, <2>1, <2>4, <3>1, LugarDispEnvia, TitularesMismos
    <3>3. QED
      BY <1>q, <2>1, <3>2 DEF CuposQuietos
  <2>5. QED
    BY <1>11, <2>2, <2>3, <2>4 DEF Dispatcher
<1>12. ASSUME NEW c \in CPUs, PcpMensaje(c) PROVE Cupos'
  <2>1. plp' = plp /\ sReadyMax' = sReadyMax /\ Sacan' = Sacan
    BY <1>12 DEF PcpMensaje, PcpOciosa, PcpMideReady, PcpTermina, PcpEntradaSalida, PcpDesconexion,
                 Sacan, sems
  <2>2. CASE PcpOciosa(c) \/ PcpDesconexion(c)
    <3>1. Titulares' = Titulares
      BY <2>1, <2>2, QuietaPcpMensaje, TitularesQuietos DEF Quieta
    <3>2. pcp.pc # "libera" /\ pcp'.pc # "libera"
      BY <2>2 DEF PcpOciosa, PcpDesconexion, Recibe, PcpOcioso
    <3>3. QED
      BY <1>q, <2>1, <3>1, <3>2 DEF CuposQuietos
  <2>3. CASE PcpMideReady(c)
    <3>1. Titulares' = Titulares
      BY <1>u, <2>1, <2>3, LugarPcpMideReady, TitularesMismos DEF ConCupo
    <3>2. pcp.pc # "libera" /\ pcp'.pc # "libera"
      BY <2>3 DEF PcpMideReady, Recibe, PcpOcioso
    <3>3. QED
      BY <1>q, <2>1, <3>1, <3>2 DEF CuposQuietos
  <2>4. CASE PcpTermina(c)
    <3> DEFINE q == Head(mensajes[c]).pcb
    <3>1. q \in Programas /\ Esta(q, "mensaje", c) /\ LlevaTodos({q}, "exit", Nada)
      BY <2>4, LugarPcpTermina DEF Lleva
    <3> HIDE DEF q
    <3>2. q \in Titulares
      BY <1>u, <3>1, TitularPorLugar DEF ConCupo
    <3>3. Titulares' = Titulares \ {q}
      <4>1. ~ConCupo("exit")
        BY DEF ConCupo
      <4>2. QED
        BY <2>1, <3>1, <4>1, TitularesLlevados
    <3>4. Cardinality(Titulares') = Cardinality(Titulares) - 1
      BY <1>t, <3>2, <3>3, FS_RemoveElement
    <3>5. pcp.pc = "select" /\ pcp'.pc = "libera"
      BY <2>4 DEF PcpTermina, Recibe, PcpOcioso
    <3>6. QED
      BY <1>t, <2>1, <3>4, <3>5 DEF Cupos
  <2>5. CASE PcpEntradaSalida(c)
    <3>1. \E k1 \in Clases : \E x1 \in Indices :
             Lleva(Head(mensajes[c]).pcb, k1, x1) /\ (ConCupo(k1) <=> ConCupo("mensaje"))
      BY <2>5, LugarPcpEntradaSalida DEF ConCupo
    <3>2. Titulares' = Titulares
      BY <1>u, <2>1, <2>5, <3>1, LugarPcpEntradaSalida, TitularesMismos
    <3>3. QED
      BY <1>q, <2>1, <2>5, <3>2 DEF PcpEntradaSalida, CuposQuietos
  <2>6. QED
    BY <1>12, <2>2, <2>3, <2>4, <2>5 DEF PcpMensaje
<1>13. CASE PcpInserta
  <2>1. plp' = plp /\ sReadyMax' = sReadyMax /\ Sacan' = Sacan
    BY <1>13 DEF PcpInserta, Sacan
  <2>2. \E k1 \in Clases : \E x1 \in Indices :
           Lleva(pcp.pcb, k1, x1) /\ (ConCupo(k1) <=> ConCupo("pcp"))
    BY <1>13, LugarPcpInserta DEF ConCupo
  <2>3. Titulares' = Titulares
    BY <1>13, <1>u, <2>1, <2>2, LugarPcpInserta, TitularesMismos
  <2>4. pcp.pc # "libera" /\ pcp'.pc # "libera"
    BY <1>13 DEF PcpInserta, PcpOcioso
  <2>5. QED
    BY <1>q, <2>1, <2>3, <2>4 DEF CuposQuietos
<1>14. CASE PcpLibera
  <2>1. Titulares' = Titulares /\ Sacan' = Sacan
    BY <1>14, QuietaPcpInterno, TitularesQuietos DEF PcpLibera, Quieta, Sacan
  <2>2. pcp.pc = "libera" /\ pcp'.pc = "select" /\ sReadyMax' = sReadyMax + 1
    BY <1>14 DEF PcpLibera, PcpOcioso
  <2>3. QED
    BY <1>t, <2>1, <2>2 DEF Cupos
<1>15. CASE PcpBusca \/ PcpQuita \/ PcpCierra
  <2>1. plp' = plp /\ sReadyMax' = sReadyMax /\ Sacan' = Sacan
    BY <1>15 DEF PcpBusca, PcpQuita, PcpCierra, Sacan, sems
  <2>2. ASSUME PcpBusca \/ PcpQuita PROVE Titulares' = Titulares
    BY <2>1, <2>2, QuietaPcpInterno, TitularesQuietos DEF Quieta
  <2>3. ASSUME PcpCierra PROVE Titulares' = Titulares
    <3>1. PICK c \in CPUs : /\ \A p \in Programas : p \in ToSet(canal[c]) <=> Esta(p, "canal", c)
                            /\ LlevaTodos(ToSet(canal[c]), "perdido", Nada)
      BY <2>3, LugarPcpCierra
    <3>2. QED
      BY <2>1, <3>1, TitularesTrasladados DEF ConCupo
  <2>4. pcp.pc # "libera" /\ pcp'.pc # "libera"
    BY <1>15 DEF PcpBusca, PcpQuita, PcpCierra, PcpOcioso, TypeOK, TipoPcp
  <2>5. Titulares' = Titulares
    BY <1>15, <2>2, <2>3
  <2>6. QED
    BY <1>q, <2>1, <2>4, <2>5 DEF CuposQuietos
<1>16. ASSUME NEW d \in Dispositivos, HiloIO(d) PROVE Cupos'
  <2>1. plp' = plp /\ pcp' = pcp /\ sReadyMax' = sReadyMax /\ Sacan' = Sacan
    BY <1>16 DEF HiloIO, IOToma, IOMideReady, IOInserta, Sacan, sems
  <2>2. CASE IOToma(d)
    <3>1. Titulares' = Titulares
      BY <1>u, <2>1, <2>2, LugarIOToma, TitularesMismos DEF ConCupo
    <3>2. QED
      BY <1>q, <2>1, <3>1 DEF CuposQuietos
  <2>3. CASE IOMideReady(d)
    BY <1>q, <2>1, <2>3, QuietaIOyVaciar, TitularesQuietos DEF Quieta, CuposQuietos
  <2>4. CASE IOInserta(d)
    <3>1. \E k1 \in Clases : \E x1 \in Indices :
             Lleva(hiloIO[d].pcb, k1, x1) /\ (ConCupo(k1) <=> ConCupo("hilo_io"))
      BY <2>4, LugarIOInserta DEF ConCupo
    <3>2. Titulares' = Titulares
      BY <1>u, <2>1, <2>4, <3>1, LugarIOInserta, TitularesMismos
    <3>3. QED
      BY <1>q, <2>1, <3>2 DEF CuposQuietos
  <2>5. QED
    BY <1>16, <2>2, <2>3, <2>4 DEF HiloIO
<1>17. CASE VaciarExit
  <2>1. plp' = plp /\ pcp' = pcp /\ sReadyMax' = sReadyMax /\ Sacan' = Sacan
    BY <1>17 DEF VaciarExit, VaciarDespierta, VaciarQuita, Sacan, sems
  <2>2. CASE VaciarQuita /\ vaciar.i < Len(colaExit)
    <3>1. Titulares' = Titulares
      BY <1>u, <2>1, <2>2, LugarVaciarQuita, TitularesMismos DEF ConCupo
    <3>2. QED
      BY <1>q, <2>1, <3>1 DEF CuposQuietos
  <2>3. CASE VaciarDespierta \/ (VaciarQuita /\ vaciar.i >= Len(colaExit))
    BY <1>q, <2>1, <2>3, QuietaIOyVaciar, TitularesQuietos DEF Quieta, CuposQuietos
  <2>4. vaciar.i \in Nat /\ Len(colaExit) \in Nat
    BY LenProperties DEF TypeOK, TipoVaciar, TipoColas
  <2>5. QED
    BY <1>17, <2>2, <2>3, <2>4 DEF VaciarExit
<1>18. ASSUME NEW c \in CPUs, CpuAvanza(c) \/ CpuEntorno(c) PROVE Cupos'
  <2>1. plp' = plp /\ pcp' = pcp /\ sReadyMax' = sReadyMax /\ Sacan' = Sacan
    BY <1>18 DEF CpuAvanza, CpuEntorno, CpuAnuncia, CpuRecibe, CpuQuantum, CpuTermina,
                 CpuEntradaSalida, CpuConecta, CpuSale, CpuMuere, Devuelve, Sacan, sems
  <2>2. CASE CpuConecta(c) \/ CpuAnuncia(c)
    BY <1>q, <2>1, <2>2, QuietaCpu, TitularesQuietos DEF Quieta, CuposQuietos
  <2>3. CASE CpuRecibe(c)
    <3>1. Titulares' = Titulares
      BY <1>u, <2>1, <2>3, LugarCpuRecibe, TitularesMismos DEF ConCupo
    <3>2. QED
      BY <1>q, <2>1, <3>1 DEF CuposQuietos
  <2>4. CASE CpuQuantum(c) \/ CpuTermina(c) \/ CpuEntradaSalida(c)
    <3>1. PICK t \in {"S", "Q", "F", "E"}, e \in NombresES \cup {Nada} : Devuelve(c, t, e)
      BY <2>4 DEF CpuQuantum, CpuTermina, CpuEntradaSalida
    <3>2. Titulares' = Titulares
      BY <1>u, <2>1, <3>1, LugarDevuelve, TitularesMismos DEF ConCupo
    <3>3. QED
      BY <1>q, <2>1, <3>2 DEF CuposQuietos
  <2>5. CASE CpuSale(c)
    <3>1. Titulares' = Titulares
      BY <1>u, <2>1, <2>5, LugarCpuSale, TitularesMismos DEF ConCupo
    <3>2. QED
      BY <1>q, <2>1, <3>1 DEF CuposQuietos
  <2>6. CASE CpuMuere(c)
    <3>1. /\ \A p \in Programas : p \in PcbsDeCpu(c) <=> Esta(p, "cpu", c)
          /\ LlevaTodos(PcbsDeCpu(c), "perdido", Nada)
      BY <2>6, LugarCpuMuere
    <3>2. Titulares' = Titulares
      BY <2>1, <3>1, TitularesTrasladados DEF ConCupo
    <3>3. QED
      BY <1>q, <2>1, <3>2 DEF CuposQuietos
  <2>7. QED
    BY <1>18, <2>2, <2>3, <2>4, <2>5, <2>6 DEF CpuAvanza, CpuEntorno
<1>19. CASE UNCHANGED vars
  BY <1>q, <1>19, QuietaTartamudeo, TitularesQuietos DEF Quieta, CuposQuietos, vars, Sacan, sems
<1>20. QED
  BY <1>1, <1>2, <1>3, <1>4, <1>5, <1>6, <1>7, <1>8, <1>9, <1>10, <1>11, <1>12, <1>13, <1>14, <1>15,
     <1>16, <1>17, <1>18, <1>19
  DEF Next, Plp, PlpInterno, WtNar, PcpInterno

\* The places of s_ready_max are neither lost nor invented, whatever the level of
\* multiprogramming and however many programs are rejected and CPUs die.
THEOREM CuposSiempreConservados == Spec => []CuposConservados
<1>1. Init => Cupos
  <2>1. SUFFICES ASSUME Init PROVE Cupos
    OBVIOUS
  <2>2. InvLugares
    BY <2>1, LugaresInicial
  <2>3. Titulares = {}
    BY <2>1, <2>2 DEF Init, InvLugares, AlgunLugar, Titulares
  <2>4. Sacan = {}
    BY <2>1 DEF Init, Sacan
  <2>5. Cardinality(Titulares) = 0 /\ Cardinality(Sacan) = 0
    BY <2>3, <2>4, FS_EmptySet
  <2>6. QED
    BY <2>1, <2>5, ConstantesSupuestas DEF Init, Cupos, PcpOcioso
<1>2. TypeOK /\ InvLugares /\ Cupos => CuposConservados
  BY ConLugarPorLugar DEF Cupos, CuposConservados, Sacan
<1>3. QED
  BY <1>1, <1>2, CuposPaso, TipoCorrecto, InvNewSiempre, InvLugaresSiempre, PTL DEF Spec

-----------------------------------------------------------------------------
(* Programs that were told they ended *)

\* The four steps that tell a program, put its PCB in Exit or destroy it keep
\* the two in agreement; no other step changes either.
LEMMA FinalizadoPaso == TypeOK /\ InvLugares /\ FinalizadoAntes /\ [Next]_vars => FinalizadoAntes'
<1> SUFFICES ASSUME TypeOK, InvLugares, FinalizadoAntes, [Next]_vars PROVE FinalizadoAntes'
  OBVIOUS
<1> USE DEF FinalizadoAntes
<1>t. /\ programa \in [Programas -> {"afuera", "adentro", "finalizado"}]
      /\ colaExit \in Seq(Programas) /\ SinRepetir(colaExit)
  BY DEF TypeOK, TipoProgramas, TipoColas, InvLugares, ListasSinRepetir
<1>q. ASSUME UNCHANGED <<programa, colaExit, destruidos>> PROVE FinalizadoAntes'
  BY <1>q
<1>1. ASSUME NEW p \in Programas, AceptarPrograma(p) PROVE FinalizadoAntes'
  BY <1>1, <1>t DEF AceptarPrograma, colas
<1>2. ASSUME NEW p \in Programas, programa' = [programa EXCEPT ![p] = "finalizado"],
             colaExit' = Append(colaExit, p), destruidos' = destruidos
      PROVE  FinalizadoAntes'
  <2>1. ToSet(colaExit') = ToSet(colaExit) \cup {p}
    BY <1>2, <1>t, AppendElementos
  <2>2. QED
    BY <1>2, <1>t, <2>1
<1>3. ASSUME NEW p \in Programas, RechazarPrograma(p) PROVE FinalizadoAntes'
  BY <1>2, <1>3 DEF RechazarPrograma
<1>4. ASSUME NEW c \in CPUs, PcpTermina(c) PROVE FinalizadoAntes'
  <2>1. Head(mensajes[c]).pcb \in Programas
    BY <1>4, LugarPcpTermina DEF InvLugares
  <2>2. QED
    BY <1>2, <1>4, <2>1 DEF PcpTermina
<1>5. CASE VaciarQuita
  <2>1. CASE vaciar.i < Len(colaExit) /\ destruidos' = destruidos \cup {colaExit[vaciar.i + 1]}
             /\ colaExit' = RemoveAt(colaExit, vaciar.i + 1)
    <3>1. vaciar.i + 1 \in 1..Len(colaExit)
      BY <1>t, <2>1, LenProperties DEF TypeOK, TipoVaciar
    <3>2. ToSet(colaExit) = ToSet(colaExit') \cup {colaExit[vaciar.i + 1]}
      BY <1>t, <2>1, <3>1, RemoveAtElementos
    <3>3. programa' = programa
      BY <1>5 DEF VaciarQuita
    <3>4. QED
      BY <2>1, <3>2, <3>3
  <2>2. CASE UNCHANGED <<destruidos, colaExit, vaciar>>
    BY <1>5, <1>q, <2>2 DEF VaciarQuita
  <2>3. QED
    BY <1>5, <2>1, <2>2 DEF VaciarQuita
<1>6. ASSUME PlpInterno \/ (\E w \in Programas : WtNar(w)) \/ Dispatcher PROVE FinalizadoAntes'
  BY <1>6, <1>q
  DEF PlpInterno, ProbarReadyMax, PlpAReady, PlpANew, OrdenarNew, MedirNew, MostrarNew, WtNar,
      WorkerLugar, WorkerSaca, WorkerEncola, Dispatcher, DispEsperaPcb, DispEsperaCpu, DispTomaCpu,
      DispTomaPcb, DispEnvia, colas
<1>7. ASSUME NEW c \in CPUs, PcpOciosa(c) \/ PcpMideReady(c) \/ PcpEntradaSalida(c) \/ PcpDesconexion(c)
      PROVE  FinalizadoAntes'
  BY <1>7, <1>q DEF PcpOciosa, PcpMideReady, PcpEntradaSalida, PcpDesconexion, colas
<1>8. ASSUME PcpInterno \/ (\E d \in Dispositivos : HiloIO(d)) \/ VaciarDespierta
      PROVE  FinalizadoAntes'
  BY <1>8, <1>q
  DEF PcpInterno, PcpInserta, PcpLibera, PcpBusca, PcpQuita, PcpCierra, HiloIO, IOToma, IOMideReady,
      IOInserta, VaciarDespierta, colas
<1>9. ASSUME NEW c \in CPUs, CpuAvanza(c) \/ CpuEntorno(c) PROVE FinalizadoAntes'
  BY <1>9, <1>q
  DEF CpuAvanza, CpuEntorno, CpuAnuncia, CpuRecibe, CpuQuantum, CpuTermina, CpuEntradaSalida,
      CpuConecta, CpuSale, CpuMuere, Devuelve, colas
<1>10. CASE UNCHANGED vars
  BY <1>10, <1>q DEF vars, colas
<1>11. QED
  BY <1>1, <1>3, <1>4, <1>5, <1>6, <1>7, <1>8, <1>9, <1>10 DEF Next, Plp, PcpMensaje, VaciarExit

\* A program is told FINALIZAR no later than its PCB gets to Exit, it is nowhere
\* else from then on, and its segments are destroyed only after that.
THEOREM SiempreFinalizadoAntes == Spec => []FinalizadoAntes
<1>1. Init => FinalizadoAntes
  <2>1. SUFFICES ASSUME Init PROVE FinalizadoAntes
    OBVIOUS
  <2>2. ToSet(colaExit) = {}
    BY <2>1 DEF Init, ToSet
  <2>3. QED
    BY <2>1, <2>2 DEF Init, FinalizadoAntes
<1>2. QED
  BY <1>1, TipoCorrecto, InvLugaresSiempre, FinalizadoPaso, PTL DEF Spec

-----------------------------------------------------------------------------
(* New, by weight *)

\* New is in order of weight at every moment, but for the PCB the PLP has just
\* appended and not sorted yet.
NewOrdenada ==
    \A i, j \in DOMAIN colaNew :
        i < j /\ (plp.pc = "ordena" => colaNew[j] # plp.pcb)
            => Peso[colaNew[i]] <= Peso[colaNew[j]]

\* The PLP appends the one PCB that may be out of order and then sorts; a worker
\* takes the head and leaves the rest in order.
LEMMA NewOrdenadaPaso == TypeOK /\ NewOrdenada /\ [Next]_vars => NewOrdenada'
<1> SUFFICES ASSUME TypeOK, NewOrdenada, [Next]_vars PROVE NewOrdenada'
  OBVIOUS
<1> USE DEF NewOrdenada
<1>t. colaNew \in Seq(Programas) /\ Len(colaNew) \in Nat
  BY LenProperties DEF TypeOK, TipoColas
<1>q. ASSUME colaNew' = colaNew, plp.pc # "ordena" PROVE NewOrdenada'
  BY <1>q
<1>r. ASSUME colaNew' = colaNew, plp' = plp PROVE NewOrdenada'
  BY <1>r
<1>1. CASE PlpANew
  <2>1. /\ plp.pc = "a_new" /\ plp.pcb \in Programas /\ plp'.pcb = plp.pcb
        /\ plp'.pc = "ordena" /\ colaNew' = Append(colaNew, plp.pcb)
    BY <1>1 DEF PlpANew, TypeOK, TipoPlp
  <2>2. /\ DOMAIN colaNew = 1..Len(colaNew) /\ DOMAIN colaNew' = 1..Len(colaNew) + 1
        /\ \A i \in 1..Len(colaNew) : colaNew'[i] = colaNew[i]
        /\ colaNew'[Len(colaNew) + 1] = plp.pcb
    BY <1>t, <2>1, LenProperties, AppendProperties
  <2>3. ASSUME NEW i \in DOMAIN colaNew', NEW j \in DOMAIN colaNew', i < j, colaNew'[j] # plp.pcb
        PROVE  Peso[colaNew'[i]] <= Peso[colaNew'[j]]
    <3>1. i \in 1..Len(colaNew) /\ j \in 1..Len(colaNew)
      BY <1>t, <2>2, <2>3
    <3>2. QED
      BY <2>1, <2>2, <2>3, <3>1
  <2>4. QED
    BY <2>1, <2>3
<1>2. CASE OrdenarNew
  BY <1>2, <1>t, ListSortElementos DEF OrdenarNew
<1>3. ASSUME NEW w \in Programas, WorkerSaca(w) PROVE NewOrdenada'
  <2>1. CASE colaNew # <<>> /\ colaNew' = Tail(colaNew)
    <3>1. /\ DOMAIN colaNew = 1..Len(colaNew) /\ DOMAIN Tail(colaNew) = 1..Len(colaNew) - 1
          /\ \A i \in 1..Len(colaNew) - 1 : Tail(colaNew)[i] = colaNew[i + 1]
      BY <1>t, <2>1, LenProperties, HeadTailProperties
    <3>2. \A i \in 1..Len(colaNew) - 1 : i + 1 \in 1..Len(colaNew)
      BY <1>t
    <3>3. \A i, j \in 1..Len(colaNew) - 1 : i < j => i + 1 < j + 1
      BY <1>t
    <3>4. plp' = plp
      BY <1>3 DEF WorkerSaca
    <3>5. QED
      BY <2>1, <3>1, <3>2, <3>3, <3>4
  <2>2. CASE colaNew' = colaNew
    BY <1>3, <1>r, <2>2 DEF WorkerSaca
  <2>3. QED
    BY <1>3, <2>1, <2>2 DEF WorkerSaca
<1>4. CASE \/ \E p \in Programas : AceptarPrograma(p) \/ RechazarPrograma(p)
           \/ ProbarReadyMax \/ PlpAReady \/ MedirNew \/ MostrarNew
  BY <1>4, <1>q, <1>r
  DEF AceptarPrograma, RechazarPrograma, ProbarReadyMax, PlpAReady, MedirNew, MostrarNew, colas
<1>5. ASSUME (\E w \in Programas : WorkerLugar(w) \/ WorkerEncola(w)) \/ Dispatcher \/ VaciarExit
      PROVE  NewOrdenada'
  BY <1>5, <1>r
  DEF WorkerLugar, WorkerEncola, Dispatcher, DispEsperaPcb, DispEsperaCpu, DispTomaCpu, DispTomaPcb,
      DispEnvia, VaciarExit, VaciarDespierta, VaciarQuita, colas
<1>6. ASSUME \/ \E c \in CPUs : PcpMensaje(c)
             \/ PcpInterno
             \/ \E d \in Dispositivos : HiloIO(d)
      PROVE  NewOrdenada'
  BY <1>6, <1>r
  DEF PcpMensaje, PcpOciosa, PcpMideReady, PcpTermina, PcpEntradaSalida, PcpDesconexion, PcpInterno,
      PcpInserta, PcpLibera, PcpBusca, PcpQuita, PcpCierra, HiloIO, IOToma, IOMideReady, IOInserta,
      colas
<1>7. ASSUME NEW c \in CPUs, CpuAvanza(c) \/ CpuEntorno(c) PROVE NewOrdenada'
  BY <1>7, <1>r
  DEF CpuAvanza, CpuEntorno, CpuAnuncia, CpuRecibe, CpuQuantum, CpuTermina, CpuEntradaSalida,
      CpuConecta, CpuSale, CpuMuere, Devuelve, colas
<1>8. CASE UNCHANGED vars
  BY <1>8, <1>r DEF vars, colas
<1>9. QED
  BY <1>1, <1>2, <1>3, <1>4, <1>5, <1>6, <1>7, <1>8 DEF Next, Plp, PlpInterno, WtNar

\* The order of New in every reachable state.
LEMMA NewSiempreOrdenada == Spec => []NewOrdenada
<1>1. Init => NewOrdenada
  BY DEF Init, NewOrdenada
<1>2. QED
  BY <1>1, TipoCorrecto, NewOrdenadaPaso, PTL DEF Spec

\* Only list_remove takes a worker from "saca" to "encola".
LEMMA SoloWorkerSaca ==
    ASSUME TypeOK, [Next]_vars, NEW w \in Programas,
           worker[w].pc = "saca", worker'[w].pc = "encola"
    PROVE  WorkerSaca(w) /\ colaNew # <<>>
<1>q. worker'[w] # worker[w]
  OBVIOUS
<1>t. worker \in [Programas -> [pc : {"no", "espera", "saca", "encola", "fin"}, pcb : Pcb]]
  BY DEF TypeOK, TipoWorkers
<1>1. ~UNCHANGED worker
  BY <1>q
<1>2. ~OrdenarNew
  <2>1. SUFFICES ASSUME OrdenarNew PROVE FALSE
    OBVIOUS
  <2>2. worker' = [worker EXCEPT ![plp.pcb].pc = "espera"]
    BY <2>1 DEF OrdenarNew
  <2>3. QED
    BY <1>t, <2>2
<1>3. \E v \in Programas : WtNar(v)
  BY <1>1, <1>2
  DEF Next, vars, Plp, PlpInterno, AceptarPrograma, RechazarPrograma, ProbarReadyMax, PlpAReady,
      PlpANew, MedirNew, MostrarNew, Dispatcher, DispEsperaPcb, DispEsperaCpu, DispTomaCpu,
      DispTomaPcb, DispEnvia, PcpMensaje, PcpOciosa, PcpMideReady, PcpTermina, PcpEntradaSalida,
      PcpDesconexion, PcpInterno, PcpInserta, PcpLibera, PcpBusca, PcpQuita, PcpCierra, HiloIO,
      IOToma, IOMideReady, IOInserta, VaciarExit, VaciarDespierta, VaciarQuita, CpuAvanza,
      CpuEntorno, CpuAnuncia, CpuRecibe, CpuQuantum, CpuTermina, CpuEntradaSalida, CpuConecta,
      CpuSale, CpuMuere, Devuelve
<1>4. PICK v \in Programas : WtNar(v)
  BY <1>3
<1>5. ~WorkerLugar(v)
  <2>1. WorkerLugar(v) => worker' = [worker EXCEPT ![v].pc = "saca"]
    BY DEF WorkerLugar
  <2>2. QED
    BY <1>t, <2>1
<1>6. ~WorkerEncola(v)
  <2>1. WorkerEncola(v) => worker' = [worker EXCEPT ![v] = [pc |-> "fin", pcb |-> Nada]]
    BY DEF WorkerEncola
  <2>2. QED
    BY <1>t, <2>1
<1>7. WorkerSaca(v)
  BY <1>4, <1>5, <1>6 DEF WtNar
<1>8. /\ colaNew # <<>>
      /\ worker' = [worker EXCEPT ![v] = [pc |-> "encola", pcb |-> Head(colaNew)]]
  BY <1>1, <1>7 DEF WorkerSaca
<1>9. v = w
  BY <1>t, <1>q, <1>8
<1>10. QED
  BY <1>7, <1>8, <1>9

\* What a worker takes from New is a lightest of the PCBs in it, whatever the
\* weights and however arrivals and workers interleave; in the window between
\* list_add and list_sort, a lightest of all but the one just appended.
THEOREM SiempreElMasLiviano == Spec => SacaElMasLiviano
<1> DEFINE Liviano ==
      \A w \in Programas :
          worker[w].pc = "saca" /\ worker'[w].pc = "encola" =>
              \A q \in ToSet(colaNew) :
                  \/ Peso[worker'[w].pcb] <= Peso[q]
                  \/ plp.pc = "ordena" /\ q = plp.pcb
<1>1. TypeOK /\ NewOrdenada /\ [Next]_vars => [Liviano]_vars
  <2>1. SUFFICES ASSUME TypeOK, NewOrdenada, [Next]_vars,
                        NEW w \in Programas, worker[w].pc = "saca", worker'[w].pc = "encola",
                        NEW q \in ToSet(colaNew), ~(plp.pc = "ordena" /\ q = plp.pcb)
                 PROVE  Peso[worker'[w].pcb] <= Peso[q]
    OBVIOUS
  <2>2. WorkerSaca(w) /\ colaNew # <<>>
    BY <2>1, SoloWorkerSaca
  <2>3. worker'[w].pcb = Head(colaNew)
    <3>1. worker' = [worker EXCEPT ![w] = [pc |-> "encola", pcb |-> Head(colaNew)]]
      BY <2>2 DEF WorkerSaca
    <3>2. w \in DOMAIN worker
      BY <2>1 DEF TypeOK, TipoWorkers
    <3>3. QED
      BY <3>1, <3>2
  <2>4. colaNew \in Seq(Programas) /\ Len(colaNew) \in Nat /\ DOMAIN colaNew = 1..Len(colaNew)
    BY <2>1, LenProperties DEF TypeOK, TipoColas
  <2>5. 1 \in DOMAIN colaNew /\ Head(colaNew) = colaNew[1]
    BY <2>2, <2>4
  <2>6. PICK j \in DOMAIN colaNew : colaNew[j] = q
    BY DEF ToSet
  <2>7. CASE j = 1
    <3>1. Peso[q] \in Nat
      BY <2>4, <2>6, ConstantesSupuestas
    <3>2. QED
      BY <2>3, <2>5, <2>6, <2>7, <3>1
  <2>8. CASE j # 1
    <3>1. 1 < j
      BY <2>4, <2>8
    <3>2. Peso[colaNew[1]] <= Peso[colaNew[j]]
      BY <2>1, <2>5, <2>6, <3>1 DEF NewOrdenada
    <3>3. QED
      BY <2>3, <2>5, <2>6, <3>2
  <2>9. QED
    BY <2>7, <2>8
<1>2. QED
  BY <1>1, TipoCorrecto, NewSiempreOrdenada, PTL DEF Spec, SacaElMasLiviano
=============================================================================
