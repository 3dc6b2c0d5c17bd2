------------------------------ MODULE Segmentos ------------------------------
(***************************************************************************)
(* The segment table of the UMV as data: free spaces, first and worst fit, *)
(* virtual bases and the bounds of an access.  A table is a set of records *)
(* (program, virtual base, size, position in main memory); the number      *)
(* getSegId gives is only ever printed and is left out.  Virtual addresses *)
(* are uint32_t: sums are taken modulo Palabra.                            *)
(***************************************************************************)
EXTENDS Integers, FiniteSets

CONSTANTS
    TamMem,      \* TAMANIO_MEM_PPAL_BYTES
    Palabra      \* 2^32 in the code

ASSUME SupuestosSegmentos ==
    TamMem \in Nat \ {0} /\ Palabra \in Nat /\ Palabra > TamMem

Algoritmos == {"first_fit", "worst_fit"}

FinDe(s) == s.pos + s.size
Direcciones(s) == s.pos .. FinDe(s) - 1

\* Where a free space that begins at d ends: at the next segment or at the end
\* of memory.
Tope(segs, d) ==
    CHOOSE t \in {TamMem} \cup {s.pos : s \in segs} :
        /\ t >= d
        /\ \A s \in segs : s.pos >= d => t <= s.pos

\* buscarEspaciosLibres: before the first segment, between two that are not
\* adjacent, and after the last.  The segments do not overlap.
EspaciosLibres(segs) ==
    {h \in {[dir |-> d, size |-> Tope(segs, d) - d] : d \in {0} \cup {FinDe(s) : s \in segs}} :
        h.size > 0}

\* Variant: the first space of the list is taken, whatever its size.
ElegirSinMirar(libres, size, algoritmo) == libres

\* The free spaces crearSegmento may take: the first that is large enough, or
\* the largest if it is.  list_sort may leave equal sizes in either order.
Elegir(libres, size, algoritmo) ==
    {h \in libres :
        /\ h.size >= size
        /\ CASE algoritmo = "first_fit" -> \A g \in libres : g.size >= size => h.dir <= g.dir
             [] algoritmo = "worst_fit" -> \A g \in libres : g.size <= h.size}

UltimoVirtual(inicio, size) == (inicio + size - 1) % Palabra

\* Variant: only where the new range begins is compared.
EsAdecuadoComienzo(candidato, size, actual, sizeActual) ==
    ~(candidato >= actual /\ candidato <= UltimoVirtual(actual, sizeActual))

\* esAdecuadoInicio: the new range begins or ends in the other, or holds it.
EsAdecuadoInicio(candidato, size, actual, sizeActual) ==
    LET fin == UltimoVirtual(candidato, size)
        finActual == UltimoVirtual(actual, sizeActual)
    IN /\ ~(candidato >= actual /\ candidato <= finActual)
       /\ ~(fin >= actual /\ fin <= finActual)
       /\ ~(candidato <= actual /\ fin >= finActual)

\* getDirInicio: what rand() may give and the program's segments let stand.
DirInicio(segs, prog, size, sorteo) ==
    {c \in sorteo : \A s \in segs :
        s.prog = prog => EsAdecuadoInicio(c, size, s.inicio, s.size)}

\* buscar_segmento_solicitado, for the active process.
Solicitados(segs, activo, base) == {s \in segs : s.prog = activo /\ s.inicio = base}

\* chequear_limites_lectoescritura: only the far end is compared, so an offset
\* that wraps to before the segment is let through.
ChequearLimites(s, off, tam) ==
    LET comienzo == (s.inicio + off) % Palabra
        fin == UltimoVirtual(s.inicio, s.size)
    IN /\ comienzo <= fin
       /\ (comienzo + tam - 1) % Palabra <= fin

SeSolapan(s, t) == Direcciones(s) \cap Direcciones(t) # {}
=============================================================================
