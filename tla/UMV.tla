--------------------------------- MODULE UMV ---------------------------------
(***************************************************************************)
(* The memory process and those who use it: main and its accept loop, one  *)
(* thread per connection, the console, the PLP that loads programs and     *)
(* vaciar_exit that destroys them (both on one socket), and the CPUs.      *)
(*                                                                         *)
(* Every operation on memory sleeps (nanosleep of the configured RETARDO)  *)
(* after it is entered: an operation is one step up to the sleep and one   *)
(* after it, and compaction one step per segment it moves.  op_atomica     *)
(* keeps the operations of connections apart, but each connection          *)
(* initialises it again when its thread starts, and the console does not   *)
(* use it.  It is a mutex of glibc: a word that is 0, 1 (held) or 2 (held, *)
(* and somebody may sleep on it), and the threads that sleep in the kernel *)
(* until an unlock that finds a 2 wakes one.  Inside a step the lists are  *)
(* taken to be used by one thread.                                         *)
(*                                                                         *)
(* Once two segments overlap what the code does depends on how list_sort   *)
(* leaves them: the model goes no further (Sana), nor once the process has *)
(* ended.  The operator creates and destroys segments of an id that no     *)
(* program has.                                                            *)
(***************************************************************************)
EXTENDS Segmentos, Sequences

CONSTANTS
    CPUs,
    Plp,         \* the kernel's connection
    Quit,        \* the connection the console makes to wake main up
    Consola,     \* the console's thread
    Nada,        \* no request, no answer, no program
    Carga,       \* the programs that arrive: bytes of code, stack, code index
                 \* and labels of each
    Configurado, \* ALGORITMO_COMPACTACION of the configuration
    Sorteo,      \* bound: what rand() may give for each of the four
    Offsets,     \* bound: offsets scripts reach
    TamOperador, \* bound: sizes the operator asks for
    MaxUsos      \* bound: accesses of programs and commands of the console

Programas == 1..Len(Carga)  \* the kernel numbers them as they arrive
Operador == Len(Carga) + 1  \* the id the operator gives to his segments

ASSUME SupuestosUMV ==
    /\ Carga \in Seq([1..4 -> Nat])
    /\ \A p \in Programas : \A k \in 1..3 : Carga[p][k] > 0
    /\ Configurado \in Algoritmos
    \* rand() % 100000 and a memory whose size is an int: no segment wraps
    /\ Sorteo \in [1..5 -> SUBSET (0..Palabra - TamMem)]
    /\ Offsets \subseteq Int
    /\ TamOperador \subseteq Nat \ {0} /\ MaxUsos \in Nat
    /\ Nada \notin Programas
    /\ Plp # Quit /\ {Plp, Quit} \cap CPUs = {} /\ Consola \notin CPUs \cup {Plp, Quit}

Conexiones == CPUs \cup {Plp, Quit}
Hilos == Conexiones \cup {Consola}

VARIABLES
    segs,        \* listaSegmentos
    mem,         \* mem_ppal: for whom each byte was written, 0 if cleared
    activo,      \* PROCESO_ACTIVO
    op_atomica,  \* the mutex: its word, the connections asleep on it and those woken
    main,        \* main: at the while, blocked in accept, or out
    noTerminar,
    hilo,        \* each thread: pc, request, free spaces found, compacted up to
    cola,        \* requests sent on each connection and not yet received
    resp,        \* answer not yet read by the client
    estado,      \* what has become of each program
    bases,       \* seg_cod, seg_stack, seg_idx_cod and seg_idx_etq of its PCB
    plp,         \* the PLP: pc, program, segment, bytes of the index written
    cpu,         \* the program each CPU runs
    usos,        \* accesses programs have made and commands the console has served
    caida,       \* the process died of an access outside its memory
    roto         \* history: what has broken into an operation

tabla    == <<segs, mem, activo>>
proceso  == <<main, noTerminar>>
clientes == <<estado, bases, plp, cpu>>
vars == <<tabla, op_atomica, proceso, hilo, cola, resp, clientes, usos, caida, roto>>

Sana == \A s, t \in segs : s # t => ~SeSolapan(s, t)

Quieto(pc) == [pc |-> pc, ped |-> Nada, libres |-> {}, hasta |-> 0]

Init ==
    /\ segs = {} /\ mem = [d \in 0..TamMem - 1 |-> 0] /\ activo = 0
    /\ op_atomica = [palabra |-> 0, dormidas |-> {}, despiertas |-> {}]
    /\ main = "while" /\ noTerminar = TRUE
    /\ hilo = [h \in Hilos |-> Quieto(IF h = Consola THEN "recv" ELSE "afuera")]
    /\ cola = [c \in Conexiones |-> <<>>]
    /\ resp = [c \in Conexiones |-> Nada]
    /\ estado = [p \in Programas |-> "nuevo"]
    /\ bases = [p \in Programas |-> [k \in 1..4 |-> 0]]
    /\ plp = [pc |-> "select", p |-> Nada, k |-> 0, i |-> 0]
    /\ cpu = [c \in CPUs |-> Nada]
    /\ usos = 0 /\ caida = FALSE /\ roto = {}

-----------------------------------------------------------------------------
(* main, and the birth and end of a connection's thread *)

MainWhile ==
    /\ main = "while"
    /\ main' = IF noTerminar THEN "accept" ELSE "fin"
    /\ UNCHANGED <<tabla, op_atomica, noTerminar, hilo, cola, resp,
                   clientes, usos, caida, roto>>

MainAcepta(c) ==
    /\ main = "accept" /\ hilo[c].pc = "encolada"
    /\ main' = IF noTerminar THEN "while" ELSE "fin"
    /\ hilo' = IF noTerminar THEN [hilo EXCEPT ![c].pc = "creado"] ELSE hilo
    /\ UNCHANGED <<tabla, op_atomica, noTerminar, cola, resp,
                   clientes, usos, caida, roto>>

Main == MainWhile \/ \E c \in Conexiones : MainAcepta(c)

ClienteConecta(c) ==
    /\ c # Quit /\ hilo[c].pc = "afuera"
    /\ hilo' = [hilo EXCEPT ![c].pc = "encolada"]
    /\ UNCHANGED <<tabla, op_atomica, proceso, cola, resp, clientes, usos, caida, roto>>

\* The thread starts: pthread_mutex_init clears the word of op_atomica, whoever
\* holds it.  Those asleep on it go on sleeping, and the unlock of the holder will
\* find nobody to wake.  The console's connection is closed at once.
HiloArranca(c) ==
    /\ hilo[c].pc = "creado"
    /\ hilo' = [hilo EXCEPT ![c].pc = IF c = Quit THEN "fin" ELSE "recv"]
    /\ op_atomica' = [op_atomica EXCEPT !.palabra = 0]
    /\ roto' = IF op_atomica.palabra = 0 THEN roto
               ELSE roto \cup {"reinicio"} \cup (IF op_atomica.dormidas = {} THEN {} ELSE {"olvido"})
    /\ UNCHANGED <<tabla, proceso, cola, resp, clientes, usos, caida>>

-----------------------------------------------------------------------------
(* An operation: entered, then served after its sleep *)

Adentro(h) == hilo[h].pc \in {"duerme", "compacta", "reintenta"}

\* What an operation of h breaks into, or is broken into by, when it begins.
RotoAlEntrar(h) ==
    IF \E g \in Hilos \ {h} : Adentro(g) /\ Consola \in {g, h}
    THEN roto \cup {"consola"} ELSE roto

\* Variant: handler_enviar_bytes and handler_solicitar_bytes trust the active
\* process that is set.
ActivarSinCambiar(ped) == activo

\* cambiar_proceso_activo, for the operations that need it.
Activar(ped) == IF ped.op \in {"enviar", "solicitar"} THEN ped.prog ELSE activo

Empieza(h, ped) ==
    /\ hilo' = [hilo EXCEPT ![h] =
          [pc |-> IF ped.op = "compactar" THEN "compacta" ELSE "duerme", ped |-> ped, hasta |-> 0,
           libres |-> IF ped.op = "crear" THEN EspaciosLibres(segs) ELSE {}]]
    /\ roto' = RotoAlEntrar(h)

\* recvAll and the command's handler, up to its pthread_mutex_lock.
PideCandado(c) ==
    hilo[c].pc = "recv" /\ cola[c] # <<>> /\ c \notin op_atomica.dormidas

\* The mutex is held: the thread leaves a 2 and sleeps.
Duerme(c) ==
    /\ PideCandado(c) /\ op_atomica.palabra # 0
    /\ op_atomica' = [palabra |-> 2, dormidas |-> op_atomica.dormidas \cup {c},
                      despiertas |-> op_atomica.despiertas \ {c}]
    /\ UNCHANGED <<tabla, proceso, hilo, cola, resp, clientes, usos, caida, roto>>

\* The mutex is free: one that has slept takes it with a 2, for others may sleep.
Entra(c) ==
    /\ PideCandado(c) /\ op_atomica.palabra = 0
    /\ op_atomica' = [op_atomica EXCEPT !.palabra = IF c \in op_atomica.despiertas THEN 2 ELSE 1,
                                        !.despiertas = @ \ {c}]
    /\ cola' = [cola EXCEPT ![c] = Tail(@)]
    /\ Empieza(c, Head(cola[c]))
    /\ activo' = Activar(Head(cola[c]))
    /\ UNCHANGED <<segs, mem, proceso, resp, clientes, usos, caida>>

\* pthread_mutex_unlock: only a 2 makes it wake one of those that sleep.
AlSoltar ==
    IF op_atomica.palabra = 2 /\ op_atomica.dormidas # {}
    THEN {[palabra |-> 0, dormidas |-> op_atomica.dormidas \ {d},
           despiertas |-> op_atomica.despiertas \cup {d}] : d \in op_atomica.dormidas}
    ELSE {[op_atomica EXCEPT !.palabra = 0]}

\* The thread unlocks and answers; the console only prints.
Sale(h, r) ==
    /\ hilo' = [hilo EXCEPT ![h] = Quieto("recv")]
    /\ op_atomica' \in IF h = Consola THEN {op_atomica} ELSE AlSoltar
    /\ resp' = IF h = Consola \/ r = Nada THEN resp ELSE [resp EXCEPT ![h] = r]

Codigo(n) == [cod |-> n, datos |-> <<>>]

-----------------------------------------------------------------------------
(* enviar_bytes and solicitar_bytes *)

\* Variant: the error path leaves op_atomica locked.
FallaSinSoltar(c, cod) ==
    /\ hilo' = [hilo EXCEPT ![c] = Quieto("recv")]
    /\ resp' = [resp EXCEPT ![c] = Codigo(cod)]
    /\ UNCHANGED <<tabla, op_atomica, proceso, cola, clientes, usos, caida, roto>>

\* A refused write is answered with its code; a refused read with the bytes of
\* the text "-1" or "-2", which the client cannot tell from what it asked for.
Falla(c, cod) ==
    /\ Sale(c, IF hilo[c].ped.op = "enviar" THEN Codigo(cod)
               ELSE [cod |-> hilo[c].ped.tam, datos |-> <<cod>>])
    /\ UNCHANGED <<tabla, proceso, cola, clientes, usos, caida, roto>>

\* The copy.  A negative offset lands before the segment if pointers have 32
\* bits, and may end the process.
Copia(c, s) ==
    LET ped == hilo[c].ped
        zona == s.pos + ped.off .. s.pos + ped.off + ped.tam - 1
    IN /\ roto' = roto \cup (IF zona \subseteq Direcciones(s) THEN {} ELSE {"fuera"})
                       \cup (IF c = Consola THEN {"operador"} ELSE {})
       /\ \/ /\ zona \subseteq 0..TamMem - 1
             /\ mem' = IF ped.op = "enviar" THEN [d \in 0..TamMem - 1 |->
                           IF d \in zona THEN ped.val ELSE mem[d]] ELSE mem
             /\ Sale(c, [cod |-> ped.tam, datos |-> IF ped.op = "enviar" THEN <<>>
                           ELSE [i \in 1..ped.tam |-> mem[s.pos + ped.off + i - 1]]])
             /\ UNCHANGED caida
          \/ /\ ~ (zona \subseteq Direcciones(s))
             /\ caida' = TRUE
             /\ UNCHANGED <<mem, hilo, op_atomica, resp>>

Accede(c) ==
    LET ped == hilo[c].ped
        mios == Solicitados(segs, activo, ped.base)
    IN /\ hilo[c].pc = "duerme" /\ ped.op \in {"enviar", "solicitar"}
       /\ \/ mios = {} /\ Falla(c, -1)
          \/ \E s \in mios :
                \/ ~ChequearLimites(s, ped.off, ped.tam) /\ Falla(c, -2)
                \/ /\ ChequearLimites(s, ped.off, ped.tam)
                   /\ Copia(c, s)
                   /\ UNCHANGED <<segs, activo, proceso, cola, clientes, usos>>

-----------------------------------------------------------------------------
(* crear_segmento, compactar and destruir_segmentos *)

AlgoritmosDe(h) == IF h = Consola THEN Algoritmos ELSE {Configurado}

\* Variant: the lack of space is answered without compacting.
NoCreadoSinCompactar(h) == Sale(h, Codigo(0))

\* After a first 0 memory is compacted and the free spaces are looked for again.
NoCreado(h) ==
    \/ /\ hilo[h].pc = "duerme"
       /\ hilo' = [hilo EXCEPT ![h].pc = "compacta", ![h].hasta = 0]
       /\ UNCHANGED <<op_atomica, resp>>
    \/ hilo[h].pc = "reintenta" /\ Sale(h, Codigo(0))

\* crearSegmento, and what its caller does with 0: a base drawn as 0 is taken
\* for a failure although the segment has been added.
Crea(h) ==
    LET ped == hilo[h].ped IN
    /\ hilo[h].pc \in {"duerme", "reintenta"} /\ ped.op = "crear"
    /\ \E a \in AlgoritmosDe(h) :
          LET lugares == Elegir(hilo[h].libres, ped.size, a) IN
          \/ lugares = {} /\ NoCreado(h) /\ UNCHANGED segs
          \/ \E l \in lugares :
             \E b \in DirInicio(segs, ped.prog, ped.size, Sorteo[ped.k]) :
                /\ segs' = segs \cup {[prog |-> ped.prog, inicio |-> b, size |-> ped.size, pos |-> l.dir]}
                /\ IF b = 0 THEN NoCreado(h) ELSE Sale(h, Codigo(b))
    /\ UNCHANGED <<mem, activo, proceso, cola, clientes, usos, caida, roto>>

PorMover(h) == {s \in segs : s.pos >= hilo[h].hasta}

\* Variant: the segment is moved and its bytes are not.
MovidosSinCopiar(s, aca) == mem

\* memmove of segment s to aca.
Movidos(s, aca) ==
    [d \in 0..TamMem - 1 |-> IF d \in aca .. aca + s.size - 1 THEN mem[s.pos + d - aca] ELSE mem[d]]

\* Variant: fin_seg_actual without the + 1.
SiguienteCorto(s, aca) == aca + s.size - 1

Siguiente(s, aca) == aca + s.size

\* compactar: the next segment goes to the end of the one before.
CompactaUno(h) ==
    /\ hilo[h].pc = "compacta"
    /\ \E s \in PorMover(h) :
          LET aca == hilo[h].hasta IN
          /\ \A t \in PorMover(h) : s.pos <= t.pos
          /\ segs' = (segs \ {s}) \cup {[s EXCEPT !.pos = aca]}
          /\ mem' = Movidos(s, aca)
          /\ hilo' = [hilo EXCEPT ![h].hasta = Siguiente(s, aca)]
    /\ UNCHANGED <<activo, op_atomica, proceso, cola, resp, clientes, usos, caida, roto>>

Compactado(h) ==
    /\ hilo[h].pc = "compacta" /\ PorMover(h) = {}
    /\ IF hilo[h].ped.op = "crear"
       THEN /\ hilo' = [hilo EXCEPT ![h].pc = "reintenta", ![h].libres = EspaciosLibres(segs), ![h].hasta = 0]
            /\ UNCHANGED <<op_atomica, resp>>
       ELSE Sale(h, Nada)
    /\ UNCHANGED <<tabla, proceso, cola, clientes, usos, caida, roto>>

\* Variant: the loop that marks begins at the second segment of the list.
MarcadosSinPrimero(p) == {s \in segs : s.prog = p /\ s.pos # 0}

Marcados(p) == {s \in segs : s.prog = p}

\* destruirSegmentos; the PLP is not answered.
Destruye(h) ==
    /\ hilo[h].pc = "duerme" /\ hilo[h].ped.op = "destruir"
    /\ segs' = segs \ Marcados(hilo[h].ped.prog)
    /\ Sale(h, Nada)
    /\ UNCHANGED <<mem, activo, proceso, cola, clientes, usos, caida, roto>>

Sirve(h) == Accede(h) \/ Crea(h) \/ CompactaUno(h) \/ Compactado(h) \/ Destruye(h)

-----------------------------------------------------------------------------
(* The console *)

\* crear-segmento, destruir-segmentos, compactar and enviar-bytes, without
\* op_atomica.
ConsolaComando ==
    /\ hilo[Consola].pc = "recv" /\ usos < MaxUsos
    /\ usos' = usos + 1
    /\ \/ \E n \in TamOperador : Empieza(Consola, [op |-> "crear", prog |-> Operador, size |-> n, k |-> 5])
       \/ Empieza(Consola, [op |-> "destruir", prog |-> Operador])
       \/ Empieza(Consola, [op |-> "compactar"])
       \/ \E s \in segs :
             /\ s.prog = activo
             /\ Empieza(Consola, [op |-> "enviar", prog |-> activo, base |-> s.inicio,
                                  off |-> 0, tam |-> 1, val |-> Operador])
    /\ UNCHANGED <<tabla, op_atomica, main, noTerminar, cola, resp, clientes, caida>>

\* cambiar-proceso-activo.
ConsolaActivo(p) ==
    /\ hilo[Consola].pc = "recv" /\ usos < MaxUsos
    /\ usos' = usos + 1
    /\ activo' = p
    /\ roto' = RotoAlEntrar(Consola)
    /\ UNCHANGED <<segs, mem, op_atomica, main, noTerminar, hilo, cola, resp, clientes, caida>>

\* comando_matar_umv: it connects, and only then lowers noTerminar.
ConsolaConecta ==
    /\ hilo[Consola].pc = "recv" /\ usos < MaxUsos
    /\ usos' = usos + 1
    /\ hilo' = [hilo EXCEPT ![Consola].pc = "conecto", ![Quit].pc = "encolada"]
    /\ UNCHANGED <<tabla, op_atomica, main, noTerminar, cola, resp, clientes, caida, roto>>

ConsolaApaga ==
    /\ hilo[Consola].pc = "conecto"
    /\ hilo' = [hilo EXCEPT ![Consola].pc = "fin"]
    /\ noTerminar' = FALSE
    /\ UNCHANGED <<tabla, op_atomica, main, cola, resp, clientes, usos, caida, roto>>

-----------------------------------------------------------------------------
(* The PLP and vaciar_exit, on the kernel's connection *)

Pedir(c, ped) == cola' = [cola EXCEPT ![c] = Append(@, ped)]
PedirCrear(p, k) == Pedir(Plp, [op |-> "crear", prog |-> p, size |-> Carga[p][k], k |-> k])
PedirEnviar(c, p, base, off, tam, val) ==
    Pedir(c, [op |-> "enviar", prog |-> p, base |-> base, off |-> off, tam |-> tam, val |-> val])

PlpPasa(pc, p, k, i) == plp' = [pc |-> pc, p |-> p, k |-> k, i |-> i]

\* A program arrives: crear_segmento_codigo asks first.
PlpAtiende(p) ==
    /\ plp.pc = "select" /\ hilo[Plp].pc # "afuera"
    /\ estado[p] = "nuevo" /\ (\A q \in 1..p - 1 : estado[q] # "nuevo")
    /\ estado' = [estado EXCEPT ![p] = "cargando"]
    /\ PlpPasa("crea", p, 1, 0) /\ PedirCrear(p, 1)
    /\ UNCHANGED <<tabla, op_atomica, proceso, hilo, resp, bases, cpu, usos, caida, roto>>

\* The next segment, or the end: a program without labels has no fourth one.
PlpSigue(p, k) ==
    IF k <= 3 \/ (k = 4 /\ Carga[p][4] > 0)
    THEN PlpPasa("crea", p, k, 0) /\ PedirCrear(p, k) /\ UNCHANGED estado
    ELSE /\ PlpPasa("select", Nada, 0, 0) /\ estado' = [estado EXCEPT ![p] = "listo"]
         /\ UNCHANGED cola

PlpRebota(p) ==
    /\ PlpPasa("select", Nada, 0, 0) /\ estado' = [estado EXCEPT ![p] = "saliente"]
    /\ UNCHANGED cola

\* The answer to crear_segmento: 0 is an error.  The stack is not written.
PlpCreado ==
    LET p == plp.p  k == plp.k  base == resp[Plp].cod IN
    /\ plp.pc = "crea" /\ resp[Plp] # Nada
    /\ resp' = [resp EXCEPT ![Plp] = Nada]
    /\ bases' = [bases EXCEPT ![p][k] = base]
    /\ IF base = 0 THEN PlpRebota(p)
       ELSE IF k = 2 THEN PlpSigue(p, 3)
       ELSE /\ PlpPasa("escribe", p, k, 0) /\ UNCHANGED estado
            /\ PedirEnviar(Plp, p, base, 0, IF k = 3 THEN 1 ELSE Carga[p][k], p)
    /\ UNCHANGED <<tabla, op_atomica, proceso, hilo, cpu, usos, caida, roto>>

\* The answer to enviar_bytes: only 0 would be an error, so -1 and -2 pass for
\* success.  The code index is written a number at a time.
PlpEscrito ==
    LET p == plp.p  k == plp.k  i == plp.i + 1 IN
    /\ plp.pc = "escribe" /\ resp[Plp] # Nada
    /\ resp' = [resp EXCEPT ![Plp] = Nada]
    /\ IF resp[Plp].cod = 0 THEN PlpRebota(p)
       ELSE IF k = 3 /\ i < Carga[p][3]
       THEN /\ PlpPasa("escribe", p, k, i) /\ UNCHANGED estado
            /\ PedirEnviar(Plp, p, bases[p][k], i, 1, p)
       ELSE PlpSigue(p, k + 1)
    /\ UNCHANGED <<tabla, op_atomica, proceso, hilo, bases, cpu, usos, caida, roto>>

\* vaciar_exit: the request has no answer.
VaciarExit(p) ==
    /\ estado[p] = "saliente"
    /\ estado' = [estado EXCEPT ![p] = "fin"]
    /\ Pedir(Plp, [op |-> "destruir", prog |-> p])
    /\ UNCHANGED <<tabla, op_atomica, proceso, hilo, resp, bases, plp, cpu, usos, caida, roto>>

Kernel == PlpCreado \/ PlpEscrito \/ \E p \in Programas : PlpAtiende(p) \/ VaciarExit(p)

-----------------------------------------------------------------------------
(* The CPUs.  One that leaves ends its thread and changes nothing else. *)

Ocupada(c) == cola[c] # <<>> \/ Adentro(c) \/ resp[c] # Nada

CpuToma(c, p) ==
    /\ cpu[c] = Nada /\ estado[p] = "listo"
    /\ cpu' = [cpu EXCEPT ![c] = p] /\ estado' = [estado EXCEPT ![p] = "cpu"]
    /\ UNCHANGED <<tabla, op_atomica, proceso, hilo, cola, resp, bases, plp, usos, caida, roto>>

\* Code and stack are read, the stack is written.
CpuPide(c) ==
    LET p == cpu[c] IN
    /\ p # Nada /\ ~Ocupada(c) /\ usos < MaxUsos
    /\ usos' = usos + 1
    /\ \E off \in Offsets :
          \/ \E k \in {1, 2} : Pedir(c, [op |-> "solicitar", prog |-> p, base |-> bases[p][k],
                                         off |-> off, tam |-> 1])
          \/ PedirEnviar(c, p, bases[p][2], off, 1, p)
    /\ UNCHANGED <<tabla, op_atomica, proceso, hilo, resp, estado, bases, plp, cpu, caida, roto>>

\* A write that is refused ends the program; a refused read is not noticed.
CpuRecibe(c) ==
    LET p == cpu[c]  r == resp[c] IN
    /\ r # Nada
    /\ resp' = [resp EXCEPT ![c] = Nada]
    /\ IF r.cod < 0
       THEN cpu' = [cpu EXCEPT ![c] = Nada] /\ estado' = [estado EXCEPT ![p] = "saliente"]
       ELSE UNCHANGED <<cpu, estado>>
    /\ UNCHANGED <<tabla, op_atomica, proceso, hilo, cola, bases, plp, usos, caida, roto>>

\* The quantum or the program ends.
CpuDevuelve(c) ==
    /\ cpu[c] # Nada /\ ~Ocupada(c)
    /\ cpu' = [cpu EXCEPT ![c] = Nada]
    /\ \E e \in {"listo", "saliente"} : estado' = [estado EXCEPT ![cpu[c]] = e]
    /\ UNCHANGED <<tabla, op_atomica, proceso, hilo, cola, resp, bases, plp, usos, caida, roto>>

Cpu(c) ==
    \/ \E p \in Programas : CpuToma(c, p)
    \/ CpuPide(c) \/ CpuRecibe(c) \/ CpuDevuelve(c)

-----------------------------------------------------------------------------

Viva == main # "fin" /\ ~caida /\ Sana

Next ==
    /\ Viva
    /\ \/ Main
       \/ \E c \in Conexiones : ClienteConecta(c) \/ HiloArranca(c) \/ Duerme(c) \/ Entra(c)
       \/ \E h \in Hilos : Sirve(h)
       \/ ConsolaComando \/ \E p \in Programas : ConsolaActivo(p)
       \/ ConsolaConecta \/ ConsolaApaga
       \/ Kernel
       \/ \E c \in CPUs : Cpu(c)

Spec == Init /\ [][Next]_vars

\* Threads are scheduled, connections accepted and sleeps end; the operator, the
\* CPUs and new programs do as they please.  Weak fairness of the whole is enough.
Avanza ==
    /\ Viva
    /\ \/ Main \/ ConsolaApaga \/ PlpCreado \/ PlpEscrito
       \/ \E c \in Conexiones : HiloArranca(c) \/ Duerme(c) \/ Entra(c)
       \/ \E h \in Hilos : Sirve(h)
       \/ \E c \in CPUs : CpuRecibe(c)

SpecJusta == Spec /\ WF_vars(Avanza)
=============================================================================
