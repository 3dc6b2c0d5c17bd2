----------------------------- MODULE PropsPila -----------------------------
(***************************************************************************)
(* What the CPU's primitives promise a program: the bytes of the stack are *)
(* the contexts the program believes it has.                               *)
(***************************************************************************)
EXTENDS PilaCPU

Pcb == [cursor : Int, ctxt : Int, pc : Int]
Pedido == [op : {"obtener", "asignar"}, nombre : Compartidas \cup Desconocidas,
           valor : Int, var : Nombres, falla : BOOLEAN]

\* The stack keeps its size and holds bytes, only a CPU that has the process
\* has a dictionary, and only a process that waits has a syscall being served.
TypeOK ==
    /\ \A p \in Procesos :
          /\ pcb[p] \in Pcb /\ DOMAIN pila[p] = 0..TamPila - 1
          /\ \A d \in 0..TamPila - 1 : pila[p][d] \in 0..255
          /\ estado[p] \in {"listo", "cpu", "espera", "error", "fin"}
          /\ estado[p] \notin {"cpu", "espera"} => dicc[p] = Vacio
          /\ pedido[p] \in Pedido \cup {Nada}
          /\ pedido[p] # Nada => estado[p] = "espera"
          /\ respuesta[p] # Nada => pedido[p] # Nada
    /\ DOMAIN compartidas = Compartidas /\ lineas \in 0..MaxLineas

\* What a number becomes when it is sent to the UMV.
Guardado(v) == IF v % 256 = 0 THEN 0 ELSE v

\* The link of context k of ms, as it should be in the bytes m.
EnlaceEn(m, ms, k) ==
    LET d == Comienzo(ms)[k] - Enlace(ms[k]) IN
    /\ Entero(m, d) = Guardado(Comienzo(ms)[k - 1])
    /\ Entero(m, d + 4) = Guardado(ms[k].vuelta)
    /\ ms[k].tipo = "con" => Entero(m, d + 8) = Guardado(ms[k].donde)

\* The registers and the bytes of the stack are, context by context, those of
\* the calls the program has made: pcb.cursor_stack and size_ctxt_actual, the
\* links and the names; whoever has the PCB, and whatever was called and
\* returned from before, unless a return did not follow its call.
MarcosEnPila ==
    \A p \in Procesos : causas[p] = {} /\ estado[p] # "error" =>
        LET ms == marcos[p] IN
        /\ pcb[p].cursor = Comienzo(ms)[Len(ms)] /\ pcb[p].ctxt = Len(Last(ms).vars)
        /\ \A k \in 2..Len(ms) : EnlaceEn(pila[p], ms, k)
        /\ \A k \in 1..Len(ms) : \A i \in 1..Len(ms[k].vars) :
              pila[p][Direccion(ms, k, i) - 1] = ms[k].vars[i].nom

\* The dictionary a CPU keeps as it goes, and the one it builds from the bytes
\* after a return or when it takes the PCB, say the same: each name is the last
\* variable of the context so called.
DiccionarioFiel ==
    \A p \in Procesos : causas[p] = {} /\ estado[p] \in {"cpu", "espera"} =>
        LET m == Last(marcos[p]) IN
        dicc[p] = [n \in {m.vars[i].nom : i \in 1..Len(m.vars)} |->
                      Direccion(marcos[p], Len(marcos[p]), Llamada(m, n))]

\* No call, definition or return loses the value of a variable, of any context;
\* a multiple of 256 is 0.
ValorGuardado ==
    \A p \in Procesos : causas[p] = {} =>
        \A k \in 1..Len(marcos[p]) : \A i \in 1..Len(marcos[p][k].vars) :
            LET v == marcos[p][k].vars[i].val IN
            v # Sin => Entero(pila[p], Direccion(marcos[p], k, i)) = Guardado(v)

\* salimosPorError has a cause: what is left of the stack is less than the
\* largest link, a variable of the context holds -1 or -2 or was never given a
\* value, or a return did not follow its call.
ErrorConCausa ==
    [][\A p \in Procesos : estado[p] # "error" /\ estado'[p] = "error" =>
          \/ TamPila - Ocupado(marcos[p]) < 12
          \/ \E i \in 1..Len(Last(marcos[p]).vars) :
                Last(marcos[p]).vars[i].val \in Rechazo \cup {Sin}
          \/ causas'[p] # {}]_vars

\* A CPU that asked for a shared variable of the configuration gets its answer.
\* It waits for ever for one that is not there.
EsperaTermina ==
    \A p \in Procesos :
        (estado[p] = "espera" /\ pedido[p] # Nada /\ pedido[p].nombre \in Compartidas)
            ~> estado[p] # "espera"
=============================================================================
