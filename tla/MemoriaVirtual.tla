--------------------------- MODULE MemoriaVirtual ---------------------------
(***************************************************************************)
(* What the UMV promises programs: each has segments of its own, named by  *)
(* a virtual base that does not change; their contents change only when    *)
(* somebody writes for that program; where they lie in main memory, and    *)
(* that they are moved, cannot be seen; memory is never promised twice.    *)
(***************************************************************************)
EXTENDS Integers, FiniteSets

CONSTANTS Duenios, Capacidad

VARIABLES
    espacio   \* the segments: program, base, and contents by offset

\* The virtual addresses of a segment, and the bytes of several.
Rango(e) == {e.inicio + o : o \in DOMAIN e.bytes}
Bytes(E) == UNION {{e} \X DOMAIN e.bytes : e \in E}

Init == espacio = {}

\* A segment appears, with whatever its bytes hold, beside the program's own
\* virtual ranges and within what memory is left.
Crear ==
    \E e \in espacio' \ espacio :
        /\ espacio' = espacio \cup {e}
        /\ e.prog \in Duenios
        /\ \A f \in espacio : f.prog = e.prog => Rango(f) \cap Rango(e) = {}
        /\ Cardinality(Bytes(espacio')) <= Capacidad

\* Somebody writes for p: one segment of p, and nothing else.
Escribir(p) ==
    \E e \in espacio : \E f \in espacio' :
        /\ e.prog = p /\ f.prog = p /\ f.inicio = e.inicio
        /\ DOMAIN f.bytes = DOMAIN e.bytes
        /\ espacio' = (espacio \ {e}) \cup {f}

Destruir(p) == espacio' = {e \in espacio : e.prog # p}

Next == Crear \/ \E p \in Duenios : Escribir(p) \/ Destruir(p)
=============================================================================
