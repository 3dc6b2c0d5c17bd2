------------------------------- MODULE PilaCPU -------------------------------
(***************************************************************************)
(* The primitives a CPU executes for a program: variables, calls and       *)
(* returns over the bytes of the stack segment, the dictionary of the      *)
(* current context, which is built again after each return and each time   *)
(* a CPU takes the PCB, and the shared variables of the kernel.            *)
(*                                                                         *)
(* Each line of the script is one step: a CPU sends the UMV one request    *)
(* after another and nobody else touches that stack.  The lines are those  *)
(* the parser can produce for variables of the current context and labels  *)
(* that exist.  marcos is history: the stack as the program believes it.   *)
(* A process is followed until it returns through a link that is not what  *)
(* the call wrote (causas).                                                *)
(***************************************************************************)
EXTENDS Contextos

CONSTANTS
    Procesos, Compartidas, Desconocidas,  \* names of shared variables, and others
    Nada,        \* no request, no answer
    TamPila,     \* size of the stack segment
    Nombres,     \* bound: names of variables, as bytes
    Valores,     \* bound: the numbers of the script
    Rellenos,    \* bound: what the bytes of a new segment may all hold
    Ajeno,       \* bound: numbers read outside the segment
    PcInicial, Destino,  \* the first line executed and that of the label
    MaxLineas    \* bound: lines executed by all the processes

\* The numbers an int holds: the last of its four bytes has the sign.
Alto(v) == v \div 256
Palabra == {v \in Int : Alto(Alto(Alto(v))) \in -128..127}

\* Offsets, program counters and values are ints.
ASSUME SupuestosPila ==
    /\ TamPila \in Palabra /\ TamPila > 0 /\ Nombres \subseteq 1..255 /\ Rellenos \subseteq 0..255
    /\ Valores \subseteq Palabra /\ Ajeno \subseteq Palabra /\ Sin \notin Int
    /\ PcInicial \in Nat /\ Destino \in Nat /\ MaxLineas \in Nat
    /\ PcInicial + MaxLineas \in Palabra /\ Destino + MaxLineas \in Palabra
    /\ Compartidas \cap Desconocidas = {}

VARIABLES
    pcb,         \* cursor_stack, size_ctxt_actual and p_counter
    pila,        \* the bytes of each stack segment, from 0
    dicc,        \* diccionario_variables of the CPU that has the process
    estado,      \* "listo", "cpu", "espera" the kernel, "error" or "fin"
    compartidas, \* listaCompartidas
    pedido,      \* syscall sent and not yet served: kind, name, value, variable
    respuesta,   \* answer not yet received
    lineas,      \* lines executed
    marcos,      \* history: the contexts as the program believes them
    causas       \* history: why a return did not follow its call

vars == <<pcb, pila, dicc, estado, compartidas, pedido, respuesta, lineas, marcos, causas>>
kernel == <<compartidas, pedido, respuesta>>

Vacio == [x \in {} |-> 0]

Init ==
    /\ pcb = [p \in Procesos |-> [cursor |-> 0, ctxt |-> 0, pc |-> PcInicial]]
    /\ pila \in [Procesos -> {[d \in 0..TamPila - 1 |-> b] : b \in Rellenos}]
    /\ dicc = [p \in Procesos |-> Vacio]
    /\ estado = [p \in Procesos |-> "listo"]
    /\ compartidas = [x \in Compartidas |-> 0]
    /\ pedido = [p \in Procesos |-> Nada] /\ respuesta = [p \in Procesos |-> Nada]
    /\ lineas = 0
    /\ marcos = [p \in Procesos |-> <<Base>>]
    /\ causas = [p \in Procesos |-> {}]

-----------------------------------------------------------------------------
(* Numbers in the stack segment *)

\* Variant: the last byte of the segment cannot be used.
CabeSinUltimo(d, n) == d >= 0 /\ d + n < TamPila

\* enviar_bytes accepts n bytes at d.
Cabe(d, n) == d >= 0 /\ d + n <= TamPila

\* int as 4 bytes, least significant first.
Byte(v, i) == <<v, Alto(v), Alto(Alto(v)), Alto(Alto(Alto(v)))>>[i + 1] % 256

\* enviar_bytes of an int.  When the first byte sent is 0 strtok_r returns NULL
\* and the UMV clears the four: a multiple of 256 is stored as 0.
Con(m, d, v) ==
    [x \in DOMAIN m |-> IF x \in d..d + 3 THEN IF v % 256 = 0 THEN 0 ELSE Byte(v, x - d) ELSE m[x]]

Entero(m, d) ==
    LET alto == m[d + 3] IN
    m[d] + 256 * (m[d + 1] + 256 * (m[d + 2] + 256 * (IF alto < 128 THEN alto ELSE alto - 256)))

\* solicitar_bytes of an int.  Before the segment it reads what is there, and
\* past its end the text of the error.
Lee(m, d) == IF Cabe(d, 4) THEN {Entero(m, d)} ELSE Ajeno

Rechazo == {-1, -2}

-----------------------------------------------------------------------------
(* The dictionary of the context *)

Nombre(m, cursor, i) == m[cursor + 5 * i]

\* Variant: the first definition of a name stays.
DiccionarioPrimera(m, cursor, n) ==
    [x \in {Nombre(m, cursor, i) : i \in 0..n - 1} |->
        cursor + 5 * Min({i \in 0..n - 1 : Nombre(m, cursor, i) = x}) + 1]

\* generarDiccionarioVariables: a name that was defined twice is the last one.
Diccionario(m, cursor, n) ==
    [x \in {Nombre(m, cursor, i) : i \in 0..n - 1} |->
        cursor + 5 * Max({i \in 0..n - 1 : Nombre(m, cursor, i) = x}) + 1]

\* A CPU receives the PCB.
Toma(p) ==
    /\ estado[p] = "listo" /\ causas[p] = {}
    /\ estado' = [estado EXCEPT ![p] = "cpu"]
    /\ dicc' = [dicc EXCEPT ![p] = Diccionario(pila[p], pcb[p].cursor, pcb[p].ctxt)]
    /\ UNCHANGED <<pcb, pila, kernel, lineas, marcos, causas>>

\* The quantum ends, or the CPU is told to leave: the dictionary is emptied.
FinQuantum(p) ==
    /\ estado[p] = "cpu"
    /\ estado' = [estado EXCEPT ![p] = "listo"]
    /\ dicc' = [dicc EXCEPT ![p] = Vacio]
    /\ UNCHANGED <<pcb, pila, kernel, lineas, marcos, causas>>

-----------------------------------------------------------------------------
(* A line of the script *)

Linea(p) ==
    /\ estado[p] = "cpu" /\ causas[p] = {}
    /\ lineas < MaxLineas /\ lineas' = lineas + 1

Sigue(p, r) == pcb' = [pcb EXCEPT ![p] = [r EXCEPT !.pc = @ + 1]]

\* Variant: the dictionary is only emptied when the quantum ends.
TerminaSinVaciar(p, como) ==
    /\ estado' = [estado EXCEPT ![p] = como]
    /\ UNCHANGED <<pcb, pila, marcos, dicc>>

\* salimosPorError or salimosPorFin: the CPU gives the PCB back at once.
Termina(p, como) ==
    /\ estado' = [estado EXCEPT ![p] = como]
    /\ dicc' = [dicc EXCEPT ![p] = Vacio]
    /\ UNCHANGED <<pcb, pila, marcos>>

\* Variant: the offset definirVariable had when there was only llamarSinRetorno.
DefineEnViejo(r) == r.ctxt * 5

DefineEn(r) == r.cursor + r.ctxt * 5

\* dictionary_put, over what the name was.
Anota(f, n, d) == [x \in DOMAIN f \cup {n} |-> IF x = n THEN d ELSE f[x]]

\* definirVariable: only the byte of the name is written and checked.
Definir(p, n) ==
    LET d == DefineEn(pcb[p]) IN
    /\ Linea(p)
    /\ \/ ~Cabe(d, 1) /\ Termina(p, "error")
       \/ /\ Cabe(d, 1)
          /\ pila' = [pila EXCEPT ![p][d] = n]
          /\ dicc' = [dicc EXCEPT ![p] = Anota(@, n, d + 1)]
          /\ Sigue(p, [pcb[p] EXCEPT !.ctxt = @ + 1])
          /\ marcos' = [marcos EXCEPT ![p] = Define(@, n)]
          /\ UNCHANGED estado
    /\ UNCHANGED <<kernel, causas>>

\* obtenerPosicionVariable and asignar, of a variable of the context.
Guarda(p, n, v) ==
    LET d == dicc[p][n] IN
    \/ ~Cabe(d, 4) /\ Termina(p, "error")
    \/ /\ Cabe(d, 4)
       /\ pila' = [pila EXCEPT ![p] = Con(@, d, v)]
       /\ Sigue(p, pcb[p])
       /\ marcos' = [marcos EXCEPT ![p] = Asigna(@, Llamada(Last(@), n), v)]
       /\ estado' = [estado EXCEPT ![p] = "cpu"]
       /\ UNCHANGED dicc

Asignar(p, n, v) == Linea(p) /\ Guarda(p, n, v) /\ UNCHANGED <<kernel, causas>>

\* dereferenciar, in a line that only reads: -1 and -2 pass for a refused read.
Dereferenciar(p, n) ==
    /\ Linea(p)
    /\ \E v \in Lee(pila[p], dicc[p][n]) :
          \/ v \in Rechazo /\ Termina(p, "error")
          \/ v \notin Rechazo /\ Sigue(p, pcb[p]) /\ UNCHANGED <<pila, dicc, estado, marcos>>
    /\ UNCHANGED <<kernel, causas>>

-----------------------------------------------------------------------------
(* Calls *)

\* Variant: a call that returns a value moves the cursor as one that does not.
TamEnlaceIgual(tipo) == 8

TamEnlace(tipo) == IF tipo = "con" THEN 12 ELSE 8

\* llamarSinRetorno and llamarConRetorno: the link is pushed number by number,
\* then irAlLabel sets the program counter.
Llamar(p, tipo, donde) ==
    LET r == pcb[p]
        d == r.cursor + r.ctxt * 5
        sin == Con(Con(pila[p], d, r.cursor), d + 4, r.pc + 1)
    IN
    /\ Linea(p)
    /\ \/ ~Cabe(d, IF tipo = "con" THEN 12 ELSE 8) /\ Termina(p, "error")
       \/ /\ Cabe(d, IF tipo = "con" THEN 12 ELSE 8)
          /\ pila' = [pila EXCEPT ![p] = IF tipo = "con" THEN Con(sin, d + 8, donde) ELSE sin]
          /\ pcb' = [pcb EXCEPT ![p] = [cursor |-> d + TamEnlace(tipo), ctxt |-> 0, pc |-> Destino]]
          /\ dicc' = [dicc EXCEPT ![p] = Vacio]
          /\ marcos' = [marcos EXCEPT ![p] = Apila(@, tipo, r.pc + 1, donde)]
          /\ UNCHANGED estado
    /\ UNCHANGED <<kernel, causas>>

\* C's division truncates towards zero.
Entre5(n) == IF n >= 0 THEN n \div 5 ELSE -((-n) \div 5)

\* The rest of both pops: size of the context returned to, and its dictionary.
Vuelve(p, m, fin, cursor, pc) ==
    LET n == Entre5(fin - cursor) IN
    /\ pcb' = [pcb EXCEPT ![p] = [cursor |-> cursor, ctxt |-> n, pc |-> pc]]
    /\ pila' = [pila EXCEPT ![p] = m]
    /\ dicc' = [dicc EXCEPT ![p] = IF cursor >= 0 /\ Cabe(cursor, 5 * n)
                                   THEN Diccionario(m, cursor, n) ELSE Vacio]
    /\ UNCHANGED estado

\* What the return finds is not what the call pushed: another kind of call, or
\* a number that was stored as 0.
CausasDe(p, tipo) ==
    LET m == Last(marcos[p])
        fondo == Comienzo(marcos[p])[Len(marcos[p]) - 1]
    IN IF m.tipo # tipo THEN {"uso"}
       ELSE IF \E v \in {m.vuelta, m.donde, fondo} : v # 0 /\ v % 256 = 0 THEN {"cero"} ELSE {}

\* finalizar: the end of the program, or _popSinRetorno.
Finalizar(p) ==
    LET r == pcb[p] IN
    /\ Linea(p)
    /\ \/ r.cursor = 0 /\ Termina(p, "fin") /\ UNCHANGED causas
       \/ /\ r.cursor # 0
          /\ causas' = [causas EXCEPT ![p] = CausasDe(p, "sin")]
          /\ \E pc \in Lee(pila[p], r.cursor - 4), cursor \in Lee(pila[p], r.cursor - 8) :
                \/ Rechazo \cap {pc, cursor} # {} /\ Termina(p, "error")
                \/ /\ Rechazo \cap {pc, cursor} = {}
                   /\ Vuelve(p, pila[p], r.cursor - 8, cursor, pc)
                   /\ marcos' = [marcos EXCEPT ![p] = Front(@)]
    /\ UNCHANGED kernel

\* retornar: _popConRetorno, the value written where the caller said, and only
\* then the dictionary.
Retornar(p, v) ==
    LET r == pcb[p]
        ms == marcos[p]
    IN
    /\ Linea(p)
    /\ causas' = [causas EXCEPT ![p] = IF Len(ms) = 1 THEN {"uso"} ELSE CausasDe(p, "con")]
    /\ \E donde \in Lee(pila[p], r.cursor - 4), pc \in Lee(pila[p], r.cursor - 8),
          cursor \in Lee(pila[p], r.cursor - 12) :
          \/ (Rechazo \cap {donde, pc, cursor} # {} \/ ~Cabe(donde, 4)) /\ Termina(p, "error")
          \/ /\ Rechazo \cap {donde, pc, cursor} = {} /\ Cabe(donde, 4)
             /\ Vuelve(p, Con(pila[p], donde, v), r.cursor - 12, cursor, pc)
             /\ marcos' = [marcos EXCEPT ![p] =
                   IF Last(ms).tipo # "con" THEN @
                   ELSE Asigna(Front(@), (Last(ms).donde - Comienzo(ms)[Len(ms) - 1]) \div 5 + 1, v)]
    /\ UNCHANGED kernel

-----------------------------------------------------------------------------
(* Shared variables: the CPU sends a syscall to the PCP and waits *)

Pide(p, x, op, v, n, falla) ==
    /\ pedido' = [pedido EXCEPT ![p] = [op |-> op, nombre |-> x, valor |-> v, var |-> n, falla |-> falla]]
    /\ estado' = [estado EXCEPT ![p] = "espera"]
    /\ UNCHANGED <<pcb, pila, dicc, compartidas, respuesta, marcos, causas>>

\* n = !x
ObtenerValorCompartida(p, n, x) == Linea(p) /\ Pide(p, x, "obtener", 0, n, FALSE)

\* !x = n: the line goes on after a read that failed, with 0.
AsignarValorCompartida(p, n, x) ==
    /\ Linea(p)
    /\ \E v \in Lee(pila[p], dicc[p][n]) :
          Pide(p, x, "asignar", IF v \in Rechazo THEN 0 ELSE v, n, v \in Rechazo)

\* Variant: asignar is not answered.
ContestaObtener(p) ==
    respuesta' = IF pedido[p].nombre \in Compartidas /\ pedido[p].op = "obtener"
                 THEN [respuesta EXCEPT ![p] = compartidas'[pedido[p].nombre]] ELSE respuesta

\* A name that is not in the list gets no answer.
Contesta(p) ==
    respuesta' = IF pedido[p].nombre \in Compartidas
                 THEN [respuesta EXCEPT ![p] = compartidas'[pedido[p].nombre]] ELSE respuesta

\* syscall_obtenerValorCompartida and syscall_asignarValorCompartida, in the PCP.
PcpAtiende(p) ==
    LET q == pedido[p] IN
    /\ q # Nada /\ respuesta[p] = Nada
    /\ compartidas' = IF q.op = "asignar" /\ q.nombre \in Compartidas
                      THEN [compartidas EXCEPT ![q.nombre] = q.valor] ELSE compartidas
    /\ Contesta(p)
    /\ pedido' = [pedido EXCEPT ![p] = IF q.nombre \in Compartidas THEN @ ELSE Nada]
    /\ UNCHANGED <<pcb, pila, dicc, estado, lineas, marcos, causas>>

\* The CPU gets the value and finishes its line.
CpuRecibe(p) ==
    LET q == pedido[p] IN
    /\ estado[p] = "espera" /\ respuesta[p] # Nada
    /\ pedido' = [pedido EXCEPT ![p] = Nada] /\ respuesta' = [respuesta EXCEPT ![p] = Nada]
    /\ \/ q.op = "obtener" /\ Guarda(p, q.var, respuesta[p])
       \/ q.op = "asignar" /\ q.falla /\ Termina(p, "error")
       \/ /\ q.op = "asignar" /\ ~q.falla
          /\ Sigue(p, pcb[p])
          /\ estado' = [estado EXCEPT ![p] = "cpu"]
          /\ UNCHANGED <<pila, dicc, marcos>>
    /\ UNCHANGED <<compartidas, lineas, causas>>

-----------------------------------------------------------------------------

Ejecuta(p) ==
    \/ \E n \in Nombres : Definir(p, n)
    \/ \E n \in DOMAIN dicc[p] :
          \/ Dereferenciar(p, n)
          \/ \E v \in Valores : Asignar(p, n, v)
          \/ Llamar(p, "con", dicc[p][n])
          \/ \E x \in Compartidas \cup Desconocidas :
                ObtenerValorCompartida(p, n, x) \/ AsignarValorCompartida(p, n, x)
    \/ Llamar(p, "sin", 0)
    \/ Finalizar(p)
    \/ \E v \in Valores : Retornar(p, v)

Next == \E p \in Procesos :
    Toma(p) \/ FinQuantum(p) \/ Ejecuta(p) \/ PcpAtiende(p) \/ CpuRecibe(p)

Spec == Init /\ [][Next]_vars

\* The PCP serves every syscall and a CPU reads what it was sent.
SpecJusta == Spec /\ \A p \in Procesos : WF_vars(PcpAtiende(p)) /\ WF_vars(CpuRecibe(p))
=============================================================================
