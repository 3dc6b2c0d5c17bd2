------------------------------ MODULE UMVProofs ------------------------------
(***************************************************************************)
(* The invariant that makes the UMV safe, and its proof: two segments only *)
(* overlap if the console broke into an operation, a destroyed program     *)
(* leaves nothing behind, and an access reads or writes the segment of the *)
(* program that asked.  Then, on top of it: the UMV implements the         *)
(* abstract memory, a segment is refused only for lack of memory, and a    *)
(* loaded program has its code whole.                                      *)
(***************************************************************************)
EXTENDS PropsUMV, FiniteSetTheorems, SequenceTheorems, WellFoundedInduction, TLAPS

-----------------------------------------------------------------------------
(* The kinds of things *)

Duenio == Programas \cup {Operador}
EnMemoria(z) == z.pos + z.size <= TamMem
Segmento == {z \in [prog : Duenio, inicio : 0..Palabra - TamMem, size : Nat \ {0}, pos : Nat] : EnMemoria(z)}
Hueco == {l \in [dir : Nat, size : Nat \ {0}] : l.dir + l.size <= TamMem}

PCrear(ps) == [op : {"crear"}, prog : ps, size : Nat \ {0}, k : 1..5]
PDestruir(ps) == [op : {"destruir"}, prog : ps]
PCompactar == [op : {"compactar"}]
PEnviar    == [op : {"enviar"}, prog : Duenio, base : Int, off : Int, tam : Nat \ {0},
               val : Duenio]
PPropio    == {q \in PEnviar : q.val = q.prog}
PSolicitar == [op : {"solicitar"}, prog : Programas, base : Int, off : Int, tam : Nat \ {0}]

\* What each thread may be asked for: CPUs only access memory, the kernel loads
\* and destroys programs, the operator creates and destroys segments of his own,
\* what connections write is their program's, and nobody asks anything on the
\* console's connection.
PedidosDe(h) ==
    IF h \in CPUs THEN PPropio \cup PSolicitar
    ELSE IF h = Plp THEN PCrear(Programas) \cup PDestruir(Programas) \cup PPropio
    ELSE IF h = Consola THEN PCrear({Operador}) \cup PDestruir({Operador}) \cup PCompactar \cup PEnviar
    ELSE {}

Pedido == UNION {PedidosDe(h) : h \in Hilos}

Respuesta == [cod : Int, datos : Seq(Int)]

Pcs == {"afuera", "encolada", "creado", "recv", "duerme", "compacta", "reintenta", "conecto", "fin"}
Dentro == {"duerme", "compacta", "reintenta"}
Puesto == [pc : Pcs, ped : Pedido \cup {Nada}, libres : SUBSET Hueco, hasta : Nat]

Estados == {"nuevo", "cargando", "listo", "cpu", "saliente", "fin"}
PcsPlp == {"select", "crea", "escribe"}

-----------------------------------------------------------------------------
(* The invariant *)

\* Memory and its table.
TipoTabla ==
    /\ segs \subseteq Segmento
    /\ activo \in Duenio \cup {0}
    /\ mem \in [0..TamMem - 1 -> Duenio \cup {0}]

\* The counters and flags of the process, and its lock.
Candado == [palabra : 0..2, dormidas : SUBSET Conexiones, despiertas : SUBSET Conexiones]

TipoProceso ==
    /\ op_atomica \in Candado /\ noTerminar \in BOOLEAN /\ caida \in BOOLEAN
    /\ usos \in 0..MaxUsos
    /\ roto \subseteq {"reinicio", "olvido", "consola", "operador", "fuera"}

\* A thread inside an operation has a request of those it can be asked for, and
\* compacts only for one that creates or compacts.
TipoHilos ==
    /\ hilo \in [Hilos -> Puesto]
    /\ \A h \in Hilos : Adentro(h) => hilo[h].ped \in PedidosDe(h)
    /\ \A h \in Hilos : hilo[h].pc = "compacta" => hilo[h].ped.op \in {"crear", "compactar"}

TipoRed ==
    /\ cola \in [Conexiones -> Seq(Pedido)]
    /\ \A c \in Conexiones : cola[c] \in Seq(PedidosDe(c))
    /\ resp \in [Conexiones -> Respuesta \cup {Nada}]

\* While the PLP loads, it is loading a segment that is not empty.
TipoClientes ==
    /\ estado \in [Programas -> Estados]
    /\ bases \in [Programas -> [1..4 -> Int]]
    /\ plp \in [pc : PcsPlp, p : Programas \cup {Nada}, k : 0..4, i : Nat]
    /\ plp.pc # "select" => plp.p \in Programas /\ plp.k \in 1..4 /\ Carga[plp.p][plp.k] > 0
    /\ cpu \in [CPUs -> Programas \cup {Nada}]

Tipos == TipoTabla /\ TipoProceso /\ TipoHilos /\ TipoRed /\ TipoClientes

\* Until the console breaks into an operation: the free spaces found by the
\* operation in course are still those of the table, and what a compaction has
\* moved is below the point it has reached.
LibresAlDia(h) ==
    hilo[h].pc \in {"duerme", "reintenta"} /\ hilo[h].ped.op = "crear" =>
        hilo[h].libres = EspaciosLibres(segs)

HastaAlDia(h) ==
    hilo[h].pc = "compacta" => \A z \in segs : z.pos < hilo[h].hasta => FinDe(z) <= hilo[h].hasta

SinConsola ==
    "consola" \notin roto =>
        /\ Sana
        /\ \A c \in Conexiones : ~ (Adentro(Consola) /\ Adentro(c))
        /\ \A h \in Hilos : LibresAlDia(h) /\ HastaAlDia(h)

\* Until anything is broken into: one connection at most is inside an operation,
\* it holds op_atomica, and the active process is the one it asked for.
Exclusion ==
    roto = {} =>
        /\ \A c, d \in Conexiones : Adentro(c) /\ Adentro(d) => c = d
        /\ \A c \in Conexiones : Adentro(c) =>
              /\ op_atomica.palabra # 0
              /\ hilo[c].ped.op \in {"enviar", "solicitar"} => activo = hilo[c].ped.prog

\* The requests of the PLP that have an answer: at most one is on its way, being
\* served or answered, and it is the one the PLP is waiting for: the segment it is
\* loading, or, for the code, all of its bytes at its base.
EnCola == {i \in 1..Len(cola[Plp]) : cola[Plp][i].op # "destruir"}
EnCurso == Adentro(Plp) /\ hilo[Plp].ped.op # "destruir"

Espera(ped) ==
    /\ plp.pc # "select"
    /\ ped.op = "crear" => plp.pc = "crea" /\ ped.prog = plp.p /\ ped.size = Carga[plp.p][plp.k]
    /\ ped.op = "enviar" => plp.pc = "escribe"
    /\ ped.op = "enviar" /\ plp.k = 1 =>
          ped.prog = plp.p /\ ped.base = bases[plp.p][1] /\ ped.off = 0 /\ ped.tam = Carga[plp.p][1]

UnPedido ==
    /\ \A i, j \in EnCola : i = j
    /\ \A i \in EnCola : Espera(cola[Plp][i]) /\ ~EnCurso /\ resp[Plp] = Nada
    /\ EnCurso => Espera(hilo[Plp].ped) /\ resp[Plp] = Nada
    /\ resp[Plp] # Nada => plp.pc # "select"

\* Each program is in one place: being loaded, in a CPU, or in neither.
Turnos ==
    /\ plp.pc # "select" => estado[plp.p] = "cargando"
    /\ \A c \in CPUs : cpu[c] # Nada => estado[cpu[c]] = "cpu"
    /\ \A c, d \in CPUs : cpu[c] = cpu[d] /\ cpu[c] # Nada => c = d

\* The segments of a program that ended are gone, or the request to destroy them
\* is on its way.
PorDestruir(p) ==
    \/ \E i \in 1..Len(cola[Plp]) : cola[Plp][i].op = "destruir" /\ cola[Plp][i].prog = p
    \/ Adentro(Plp) /\ hilo[Plp].ped.op = "destruir" /\ hilo[Plp].ped.prog = p

Bajas == \A p \in Programas : estado[p] = "fin" => PorDestruir(p) \/ De(p) = {}

InvUMV == Tipos /\ SinConsola /\ Exclusion /\ UnPedido /\ Turnos /\ Bajas

-----------------------------------------------------------------------------
(* The table of segments *)

\* A set of numbers has a least one.
LEMMA HayMinimo ==
    ASSUME NEW T, T \subseteq Nat, T # {}
    PROVE  \E x \in T : \A y \in T : x <= y
<1> DEFINE R == OpToRel(<, Nat)
<1>1. IsWellFoundedOn(R, Nat)
  BY NatLessThanWellFounded
<1>2. \A x, y \in Nat : <<y, x>> \in R <=> y < x
  BY DEF OpToRel
<1> HIDE DEF R
<1>3. PICK x \in T : \A y \in T : ~ (<<y, x>> \in R)
  BY <1>1, WFMin
<1>4. ASSUME NEW y \in T
      PROVE  x <= y
  <2>1. ~ (y < x)
    BY <1>2, <1>3
  <2>2. QED
    BY <2>1
<1>5. QED
  BY <1>4

\* Two segments are apart exactly when one ends before the other begins.
LEMMA Apartados ==
    ASSUME NEW y \in Segmento, NEW z \in Segmento
    PROVE  ~ SeSolapan(y, z) <=> FinDe(y) <= z.pos \/ FinDe(z) <= y.pos
<1>1. /\ y.pos \in Nat /\ y.size \in Nat \ {0} /\ z.pos \in Nat /\ z.size \in Nat \ {0}
      /\ FinDe(y) = y.pos + y.size /\ FinDe(z) = z.pos + z.size
  BY DEF Segmento, FinDe
<1>2. Direcciones(y) = y.pos .. FinDe(y) - 1 /\ Direcciones(z) = z.pos .. FinDe(z) - 1
  BY DEF Direcciones
<1>3. CASE FinDe(y) <= z.pos \/ FinDe(z) <= y.pos
  BY <1>1, <1>2, <1>3 DEF SeSolapan
<1>4. CASE y.pos <= z.pos /\ z.pos < FinDe(y)
  <2>1. z.pos \in Direcciones(y) /\ z.pos \in Direcciones(z)
    BY <1>1, <1>2, <1>4
  <2>2. QED
    BY <1>1, <1>4, <2>1 DEF SeSolapan
<1>5. CASE z.pos <= y.pos /\ y.pos < FinDe(z)
  <2>1. y.pos \in Direcciones(y) /\ y.pos \in Direcciones(z)
    BY <1>1, <1>2, <1>5
  <2>2. QED
    BY <1>1, <1>5, <2>1 DEF SeSolapan
<1>6. QED
  BY <1>1, <1>3, <1>4, <1>5

\* A free space ends within memory, where a segment begins or memory ends, and
\* before every segment that follows.
LEMMA TopeBien ==
    ASSUME NEW S, S \subseteq Segmento, NEW d \in 0..TamMem
    PROVE  /\ Tope(S, d) \in d..TamMem
           /\ \A z \in S : z.pos >= d => Tope(S, d) <= z.pos
           /\ Tope(S, d) = TamMem \/ \E z \in S : Tope(S, d) = z.pos
<1> USE SupuestosSegmentos
<1> DEFINE C == {TamMem} \cup {z.pos : z \in S}
           T == {t \in C : t >= d}
           Bueno(t) == t >= d /\ \A z \in S : z.pos >= d => t <= z.pos
<1>1. \A z \in S : z.pos \in Nat
  BY DEF Segmento
<1>2. C \subseteq Nat /\ TamMem \in C
  BY <1>1
<1>3. T \subseteq Nat /\ TamMem \in T
  BY <1>2
<1>4. PICK x \in T : \A y \in T : x <= y
  BY <1>3, HayMinimo
<1>5. \A z \in S : z.pos \in C
  OBVIOUS
<1>6. x \in C /\ Bueno(x)
  BY <1>4, <1>5
<1>7. Tope(S, d) = CHOOSE t \in C : Bueno(t)
  BY DEF Tope
<1> HIDE DEF C
<1>8. Tope(S, d) \in C /\ Bueno(Tope(S, d))
  BY <1>6, <1>7
<1>9. Tope(S, d) \in T
  BY <1>8
<1>10. Tope(S, d) \in Nat /\ d \in Nat
  BY <1>3, <1>9
<1>11. Tope(S, d) <= TamMem
  <2>1. CASE Tope(S, d) = TamMem
    BY <2>1
  <2>2. CASE Tope(S, d) # TamMem
    <3>1. PICK z \in S : Tope(S, d) = z.pos
      BY <1>8, <2>2 DEF C
    <3>2. z.size \in Nat \ {0} /\ z.pos \in Nat /\ z.pos + z.size <= TamMem
      BY DEF Segmento, EnMemoria
    <3>3. QED
      BY <3>1, <3>2
  <2>3. QED
    BY <2>1, <2>2
<1>12. Tope(S, d) = TamMem \/ \E z \in S : Tope(S, d) = z.pos
  BY <1>8 DEF C
<1>13. QED
  BY <1>8, <1>10, <1>11, <1>12

\* buscarEspaciosLibres finds spaces of main memory.
LEMMA LibresBien ==
    ASSUME NEW S, S \subseteq Segmento
    PROVE  EspaciosLibres(S) \subseteq Hueco
<1> USE SupuestosSegmentos
<1> SUFFICES ASSUME NEW l \in EspaciosLibres(S)
             PROVE  l \in Hueco
  OBVIOUS
<1>1. PICK d \in {0} \cup {FinDe(z) : z \in S} : l = [dir |-> d, size |-> Tope(S, d) - d]
  BY DEF EspaciosLibres
<1>2. l.size > 0
  BY DEF EspaciosLibres
<1>3. d \in 0..TamMem
  BY DEF FinDe, Segmento, EnMemoria
<1>4. Tope(S, d) \in d..TamMem
  BY <1>3, TopeBien
<1>5. QED
  BY <1>1, <1>2, <1>3, <1>4 DEF Hueco

\* No segment lies in a free space, if no two overlap.
LEMMA LibreNoPisa ==
    ASSUME NEW S, S \subseteq Segmento,
           \A y, z \in S : y # z => ~ SeSolapan(y, z),
           NEW l \in EspaciosLibres(S), NEW z \in S
    PROVE  l.dir + l.size <= z.pos \/ FinDe(z) <= l.dir
<1> USE SupuestosSegmentos
<1>1. PICK d \in {0} \cup {FinDe(y) : y \in S} : l = [dir |-> d, size |-> Tope(S, d) - d]
  BY DEF EspaciosLibres
<1>2. d \in 0..TamMem
  BY DEF FinDe, Segmento, EnMemoria
<1>3. Tope(S, d) \in d..TamMem /\ (z.pos >= d => Tope(S, d) <= z.pos)
  BY <1>2, TopeBien
<1>4. l.dir = d /\ l.dir + l.size = Tope(S, d)
  BY <1>1, <1>2, <1>3
<1>5. z \in Segmento /\ z.pos \in Nat /\ z.size \in Nat \ {0} /\ FinDe(z) = z.pos + z.size
  BY DEF FinDe, Segmento
<1>6. z.pos >= d \/ FinDe(z) <= d
  <2>1. CASE d = 0
    BY <1>5, <2>1
  <2>2. ASSUME NEW y \in S, d = FinDe(y)
        PROVE  z.pos >= d \/ FinDe(z) <= d
    <3>1. y \in Segmento /\ y.pos \in Nat /\ y.size \in Nat \ {0} /\ FinDe(y) = y.pos + y.size
      BY DEF FinDe, Segmento
    <3>2. CASE y = z
      BY <1>5, <2>2, <3>2
    <3>3. CASE y # z
      <4>1. FinDe(y) <= z.pos \/ FinDe(z) <= y.pos
        BY <1>5, <3>1, <3>3, Apartados
      <4>2. QED
        BY <1>5, <2>2, <3>1, <4>1
    <3>4. QED
      BY <3>2, <3>3
  <2>3. QED
    BY <2>1, <2>2
<1>7. QED
  BY <1>3, <1>4, <1>5, <1>6

-----------------------------------------------------------------------------
(* Threads and requests *)

\* The threads are told apart.
LEMMA HilosDistintos ==
    /\ Hilos = CPUs \cup {Plp, Quit, Consola} /\ Conexiones = CPUs \cup {Plp, Quit}
    /\ Plp # Quit /\ Plp # Consola /\ Quit # Consola
    /\ \A c \in CPUs : c # Plp /\ c # Quit /\ c # Consola
    /\ \A c \in Conexiones : c \in Hilos /\ c # Consola
BY SupuestosUMV DEF Hilos, Conexiones

\* Programs are numbered, and the operator's id is none of them.
LEMMA DueniosTipo ==
    /\ Programas \subseteq Nat \ {0} /\ Operador \in Nat \ {0} /\ Operador \notin Programas
    /\ Programas \subseteq Duenio /\ Operador \in Duenio /\ Nada \notin Programas
<1>1. Len(Carga) \in Nat
  BY SupuestosUMV, LenProperties
<1>2. Programas \subseteq Nat \ {0} /\ Operador \in Nat \ {0} /\ Operador \notin Programas
  BY <1>1 DEF Programas, Operador
<1>3. Nada \notin Programas
  BY SupuestosUMV
<1>4. QED
  BY <1>2, <1>3 DEF Duenio

\* What a request of thread h holds.
PedidoBien(h, q) ==
    /\ q.op \in {"crear", "destruir", "compactar", "enviar", "solicitar"}
    /\ q.op = "crear" => /\ q.prog \in Duenio /\ q.size \in Nat \ {0} /\ q.k \in 1..5
                         /\ (h = Plp /\ q.prog \in Programas) \/ (h = Consola /\ q.prog = Operador)
    /\ q.op = "destruir" => /\ q.prog \in Duenio /\ h \in {Plp, Consola}
                            /\ (h = Plp /\ q.prog \in Programas) \/ (h = Consola /\ q.prog = Operador)
    /\ q.op = "compactar" => h = Consola
    /\ q.op \in {"enviar", "solicitar"} =>
          q.prog \in Duenio /\ q.base \in Int /\ q.off \in Int /\ q.tam \in Nat \ {0}
    /\ q.op = "enviar" => q.val \in Duenio /\ (h # Consola => q.val = q.prog)
    /\ q.op = "solicitar" => h \in CPUs

\* The requests a thread may send are well formed.
LEMMA PedidoTipo ==
    ASSUME NEW h \in Hilos, NEW q \in PedidosDe(h)
    PROVE  PedidoBien(h, q)
<1>1. h \in CPUs \/ h = Plp \/ h = Consola
  BY HilosDistintos DEF PedidosDe
<1>2. \/ q \in PCrear(Programas) /\ h = Plp
      \/ q \in PCrear({Operador}) /\ h = Consola
      \/ q \in PDestruir(Programas) /\ h = Plp
      \/ q \in PDestruir({Operador}) /\ h = Consola
      \/ q \in PCompactar /\ h = Consola
      \/ q \in PEnviar /\ (h # Consola => q.val = q.prog)
      \/ q \in PSolicitar /\ h \in CPUs
  BY <1>1, HilosDistintos DEF PedidosDe, PPropio
<1>3. CASE (q \in PCrear(Programas) /\ h = Plp) \/ (q \in PCrear({Operador}) /\ h = Consola)
  BY <1>3, DueniosTipo DEF PCrear, PedidoBien
<1>4. CASE (q \in PDestruir(Programas) /\ h = Plp) \/ (q \in PDestruir({Operador}) /\ h = Consola)
  BY <1>4, DueniosTipo DEF PDestruir, PedidoBien
<1>5. CASE q \in PCompactar /\ h = Consola
  BY <1>5 DEF PCompactar, PedidoBien
<1>6. CASE q \in PEnviar /\ (h # Consola => q.val = q.prog)
  BY <1>6 DEF PEnviar, PedidoBien
<1>7. CASE q \in PSolicitar /\ h \in CPUs
  BY <1>7, DueniosTipo DEF PSolicitar, PedidoBien
<1>8. QED
  BY <1>2, <1>3, <1>4, <1>5, <1>6, <1>7

\* What a thread inside an operation has.
LEMMA AdentroTipo ==
    ASSUME TipoHilos, NEW h \in Hilos
    PROVE  /\ Adentro(h) => hilo[h].ped \in PedidosDe(h) /\ PedidoBien(h, hilo[h].ped)
           /\ hilo[h].libres \subseteq Hueco /\ hilo[h].hasta \in Nat /\ hilo[h].pc \in Pcs
BY PedidoTipo DEF TipoHilos, Puesto

\* The request a connection receives.
LEMMA PrimeroTipo ==
    ASSUME TipoRed, NEW c \in Conexiones, cola[c] # <<>>
    PROVE  /\ Head(cola[c]) \in PedidosDe(c) /\ PedidoBien(c, Head(cola[c]))
           /\ Tail(cola[c]) \in Seq(PedidosDe(c))
<1>1. cola[c] \in Seq(PedidosDe(c)) /\ c \in Hilos
  BY HilosDistintos DEF TipoRed
<1>2. Head(cola[c]) \in PedidosDe(c) /\ Tail(cola[c]) \in Seq(PedidosDe(c))
  BY <1>1, HeadTailProperties
<1>3. QED
  BY <1>1, <1>2, PedidoTipo

-----------------------------------------------------------------------------
(* The kinds of memory and its table are kept *)

\* An operation of a connection, once entered, sets the active process.
LEMMA EntraTabla ==
    ASSUME Tipos, NEW c \in Conexiones, Entra(c)
    PROVE  TipoTabla'
<1>1. PedidoBien(c, Head(cola[c]))
  BY PrimeroTipo DEF Tipos, Entra, PideCandado
<1>2. activo' \in Duenio \cup {0}
  BY <1>1 DEF Entra, PideCandado, Activar, PedidoBien, Tipos, TipoTabla
<1>3. segs' = segs /\ mem' = mem
  BY DEF Entra, PideCandado
<1>4. QED
  BY <1>2, <1>3 DEF Tipos, TipoTabla

\* A write puts the name of its program in memory.
LEMMA AccedeTabla ==
    ASSUME Tipos, NEW h \in Hilos, Accede(h)
    PROVE  TipoTabla'
<1>1. segs' = segs /\ activo' = activo
  BY DEF Accede, Falla, tabla
<1>2. CASE mem' = mem
  BY <1>1, <1>2 DEF Tipos, TipoTabla
<1>3. CASE mem' # mem
  <2>1. PICK s \in Solicitados(segs, activo, hilo[h].ped.base) : Copia(h, s)
    BY <1>3 DEF Accede, Falla, tabla
  <2> DEFINE zona == s.pos + hilo[h].ped.off .. s.pos + hilo[h].ped.off + hilo[h].ped.tam - 1
  <2>2. hilo[h].ped.op = "enviar"
        /\ mem' = [d \in 0..TamMem - 1 |-> IF d \in zona THEN hilo[h].ped.val ELSE mem[d]]
    BY <1>3, <2>1 DEF Copia
  <2>3. hilo[h].ped.val \in Duenio
    BY <2>2, AdentroTipo DEF Tipos, Accede, Adentro, PedidoBien
  <2> HIDE DEF zona
  <2>4. mem' \in [0..TamMem - 1 -> Duenio \cup {0}]
    BY <2>2, <2>3 DEF Tipos, TipoTabla
  <2>5. QED
    BY <1>1, <2>4 DEF Tipos, TipoTabla
<1>4. QED
  BY <1>2, <1>3

\* What a new segment is, when there is one.
LEMMA Creado ==
    ASSUME Tipos, NEW h \in Hilos, Crea(h), segs' # segs
    PROVE  \E l \in hilo[h].libres, b \in 0..Palabra - TamMem :
              LET z == [prog |-> hilo[h].ped.prog, inicio |-> b, size |-> hilo[h].ped.size,
                        pos |-> l.dir] IN
              /\ segs' = segs \cup {z} /\ z \in Segmento
              /\ z.pos = l.dir /\ FinDe(z) <= l.dir + l.size
<1>1. /\ hilo[h].ped.prog \in Duenio /\ hilo[h].ped.size \in Nat \ {0} /\ hilo[h].ped.k \in 1..5
      /\ hilo[h].libres \subseteq Hueco
  BY AdentroTipo DEF Tipos, Crea, Adentro, PedidoBien
<1>9. PICK a \in AlgoritmosDe(h) :
        \E l \in Elegir(hilo[h].libres, hilo[h].ped.size, a) :
        \E b \in DirInicio(segs, hilo[h].ped.prog, hilo[h].ped.size, Sorteo[hilo[h].ped.k]) :
           segs' = segs \cup {[prog |-> hilo[h].ped.prog, inicio |-> b, size |-> hilo[h].ped.size,
                               pos |-> l.dir]}
  BY DEF Crea
<1>2. PICK l \in Elegir(hilo[h].libres, hilo[h].ped.size, a),
           b \in DirInicio(segs, hilo[h].ped.prog, hilo[h].ped.size, Sorteo[hilo[h].ped.k]) :
        segs' = segs \cup {[prog |-> hilo[h].ped.prog, inicio |-> b, size |-> hilo[h].ped.size,
                            pos |-> l.dir]}
  BY <1>9
<1>3. l \in hilo[h].libres /\ l \in Hueco /\ l.size >= hilo[h].ped.size
  BY <1>1, <1>2 DEF Elegir
<1>4. b \in 0..Palabra - TamMem
  <2>1. b \in Sorteo[hilo[h].ped.k]
    BY <1>2 DEF DirInicio
  <2>2. Sorteo[hilo[h].ped.k] \subseteq 0..Palabra - TamMem
    BY <1>1, SupuestosUMV
  <2>3. QED
    BY <2>1, <2>2
<1> DEFINE z == [prog |-> hilo[h].ped.prog, inicio |-> b, size |-> hilo[h].ped.size, pos |-> l.dir]
<1>5. z \in Segmento /\ z.pos = l.dir /\ FinDe(z) <= l.dir + l.size
  BY <1>1, <1>3, <1>4, SupuestosSegmentos DEF Segmento, EnMemoria, FinDe, Hueco
<1>6. QED
  BY <1>2, <1>3, <1>4, <1>5

\* Creating a segment keeps the table.
LEMMA CreaTabla ==
    ASSUME Tipos, NEW h \in Hilos, Crea(h)
    PROVE  TipoTabla'
<1>1. segs' \subseteq Segmento
  <2>1. CASE segs' = segs
    BY <2>1 DEF Tipos, TipoTabla
  <2>2. CASE segs' # segs
    BY <2>2, Creado DEF Tipos, TipoTabla
  <2>3. QED
    BY <2>1, <2>2
<1>2. mem' = mem /\ activo' = activo
  BY DEF Crea
<1>3. QED
  BY <1>1, <1>2 DEF Tipos, TipoTabla

\* A segment that is moved stays in memory, before where it was.
LEMMA Mudado ==
    ASSUME Tipos, NEW h \in Hilos, NEW s \in PorMover(h)
    PROVE  LET m == [s EXCEPT !.pos = hilo[h].hasta] IN
           /\ m \in Segmento /\ m.pos = hilo[h].hasta /\ m.size = s.size /\ m.prog = s.prog
           /\ FinDe(m) = hilo[h].hasta + s.size /\ hilo[h].hasta \in 0..s.pos /\ s \in Segmento
<1>1. s \in Segmento /\ s.pos >= hilo[h].hasta /\ hilo[h].hasta \in Nat
  BY AdentroTipo DEF Tipos, TipoTabla, PorMover
<1>2. /\ s \in [prog : Duenio, inicio : 0..Palabra - TamMem, size : Nat \ {0}, pos : Nat]
      /\ s.pos + s.size <= TamMem
  BY <1>1 DEF Segmento, EnMemoria
<1> DEFINE m == [s EXCEPT !.pos = hilo[h].hasta]
<1>3. /\ m \in [prog : Duenio, inicio : 0..Palabra - TamMem, size : Nat \ {0}, pos : Nat]
      /\ m.pos = hilo[h].hasta /\ m.size = s.size /\ m.prog = s.prog
  BY <1>1, <1>2
<1>4. m.pos + m.size <= TamMem
  BY <1>1, <1>2, <1>3, SupuestosSegmentos
<1>5. QED
  BY <1>1, <1>2, <1>3, <1>4 DEF Segmento, EnMemoria, FinDe

\* So does moving one in a compaction.
LEMMA CompactaUnoTabla ==
    ASSUME Tipos, NEW h \in Hilos, CompactaUno(h)
    PROVE  TipoTabla'
<1>1. PICK s \in PorMover(h) :
        /\ segs' = (segs \ {s}) \cup {[s EXCEPT !.pos = hilo[h].hasta]}
        /\ mem' = Movidos(s, hilo[h].hasta)
  BY DEF CompactaUno
<1>2. segs' \subseteq Segmento
  BY <1>1, Mudado DEF Tipos, TipoTabla
<1>3. mem' \in [0..TamMem - 1 -> Duenio \cup {0}]
  <2> DEFINE aca == hilo[h].hasta
  <2>1. /\ aca \in 0..s.pos /\ s.pos \in Nat /\ s.size \in Nat \ {0} /\ s.pos + s.size <= TamMem
        /\ TamMem \in Nat
    BY Mudado, SupuestosSegmentos DEF Segmento, EnMemoria
  <2> HIDE DEF aca
  <2>2. \A d \in 0..TamMem - 1 : d \in aca .. aca + s.size - 1 => s.pos + d - aca \in 0..TamMem - 1
    BY <2>1
  <2>3. mem' = [d \in 0..TamMem - 1 |->
                  IF d \in aca .. aca + s.size - 1 THEN mem[s.pos + d - aca] ELSE mem[d]]
    BY <1>1 DEF Movidos, aca
  <2>4. \A d \in 0..TamMem - 1 : mem[d] \in Duenio \cup {0}
    BY DEF Tipos, TipoTabla
  <2>5. \A d \in 0..TamMem - 1 :
          (IF d \in aca .. aca + s.size - 1 THEN mem[s.pos + d - aca] ELSE mem[d]) \in Duenio \cup {0}
    BY <2>2, <2>4
  <2>6. QED
    BY <2>3, <2>5
<1>4. activo' = activo
  BY DEF CompactaUno
<1>5. QED
  BY <1>2, <1>3, <1>4 DEF Tipos, TipoTabla

\* Every step keeps the kinds of memory and its table.
LEMMA TablaPaso ==
    ASSUME Tipos, Next
    PROVE  TipoTabla'
<1> SUFFICES ASSUME <<segs, mem, activo>>' # <<segs, mem, activo>>
             PROVE  TipoTabla'
  BY DEF Tipos, TipoTabla, tabla
<1>1. CASE \E c \in Conexiones : ClienteConecta(c) \/ HiloArranca(c) \/ Duerme(c) \/ Entra(c)
  BY <1>1, EntraTabla DEF ClienteConecta, HiloArranca, Duerme, tabla
<1>2. ASSUME NEW h \in Hilos, Sirve(h)
      PROVE  TipoTabla'
  <2>1. CASE Destruye(h)
    BY <2>1 DEF Destruye, Tipos, TipoTabla
  <2>2. ~ Compactado(h)
    BY DEF Compactado, tabla
  <2>3. QED
    BY <1>2, <2>1, <2>2, AccedeTabla, CreaTabla, CompactaUnoTabla DEF Sirve
<1>3. ASSUME NEW p \in Programas, ConsolaActivo(p)
      PROVE  TipoTabla'
  BY <1>3, DueniosTipo DEF ConsolaActivo, Tipos, TipoTabla
<1>4. ~ Main /\ ~ ConsolaComando /\ ~ ConsolaConecta /\ ~ ConsolaApaga
  BY DEF Main, MainWhile, MainAcepta, ConsolaComando, ConsolaConecta, ConsolaApaga, tabla
<1>5. ~ Kernel
  BY DEF Kernel, PlpCreado, PlpEscrito, PlpAtiende, VaciarExit, tabla
<1>6. \A c \in CPUs : ~ Cpu(c)
  BY DEF Cpu, CpuToma, CpuPide, CpuRecibe, CpuDevuelve, tabla
<1>7. QED
  BY <1>1, <1>2, <1>3, <1>4, <1>5, <1>6 DEF Next

-----------------------------------------------------------------------------
(* The kinds of the threads are kept *)

\* A thread that passes to r, inside an operation or not.
LEMMA PasaHilo ==
    ASSUME TipoHilos, NEW h \in Hilos, NEW r \in Puesto, hilo' = [hilo EXCEPT ![h] = r],
           r.pc \in Dentro => r.ped \in PedidosDe(h),
           r.pc = "compacta" => r.ped.op \in {"crear", "compactar"}
    PROVE  TipoHilos'
<1>1. hilo \in [Hilos -> Puesto]
  BY DEF TipoHilos
<1>2. hilo' \in [Hilos -> Puesto] /\ hilo'[h] = r /\ \A g \in Hilos \ {h} : hilo'[g] = hilo[g]
  BY <1>1
<1>3. \A g \in Hilos : hilo'[g].pc \in Dentro => hilo'[g].ped \in PedidosDe(g)
  BY <1>2 DEF TipoHilos, Adentro, Dentro
<1>4. \A g \in Hilos : hilo'[g].pc = "compacta" => hilo'[g].ped.op \in {"crear", "compactar"}
  BY <1>2 DEF TipoHilos
<1>5. QED
  BY <1>2, <1>3, <1>4 DEF TipoHilos, Adentro, Dentro

\* A thread that waits has nothing in hand.
LEMMA QuietoTipo ==
    ASSUME NEW pc \in Pcs
    PROVE  Quieto(pc) \in Puesto /\ Quieto(pc).pc = pc
BY DEF Quieto, Puesto

\* One that is outside an operation and stays outside.
LEMMA PasaPc ==
    ASSUME TipoHilos, NEW h \in Hilos, NEW pc \in Pcs \ Dentro, hilo' = [hilo EXCEPT ![h].pc = pc]
    PROVE  TipoHilos'
<1> DEFINE r == [hilo[h] EXCEPT !.pc = pc]
<1>1. hilo[h] \in Puesto
  BY DEF TipoHilos
<1>2. r \in Puesto /\ r.pc = pc
  BY <1>1 DEF Puesto
<1>3. hilo' = [hilo EXCEPT ![h] = r]
  OBVIOUS
<1> HIDE DEF r
<1>4. QED
  BY <1>2, <1>3, PasaHilo DEF Dentro

\* The end of an operation.
LEMMA SaleHilo ==
    ASSUME TipoHilos, NEW h \in Hilos, hilo' = [hilo EXCEPT ![h] = Quieto("recv")]
    PROVE  TipoHilos'
<1>1. Quieto("recv") \in Puesto /\ Quieto("recv").pc = "recv"
  BY QuietoTipo DEF Pcs
<1>2. QED
  BY <1>1, PasaHilo DEF Dentro

\* The beginning of one.
LEMMA EmpiezaHilo ==
    ASSUME Tipos, NEW h \in Hilos, NEW q \in PedidosDe(h), Empieza(h, q)
    PROVE  TipoHilos'
<1> DEFINE r == [pc |-> IF q.op = "compactar" THEN "compacta" ELSE "duerme", ped |-> q, hasta |-> 0,
                 libres |-> IF q.op = "crear" THEN EspaciosLibres(segs) ELSE {}]
<1>1. hilo' = [hilo EXCEPT ![h] = r]
  BY DEF Empieza
<1>2. EspaciosLibres(segs) \subseteq Hueco /\ q \in Pedido
  BY LibresBien DEF Tipos, TipoTabla, Pedido
<1>3. r \in Puesto /\ r.ped = q /\ (r.pc = "compacta" => q.op = "compactar")
  BY <1>2 DEF Puesto, Pcs
<1> HIDE DEF r
<1>4. QED
  BY <1>1, <1>3, PasaHilo DEF Tipos

\* What the console asks for is what the console may ask for.
LEMMA ComandoTipo ==
    ASSUME Tipos, ConsolaComando
    PROVE  \E q \in PedidosDe(Consola) : Empieza(Consola, q)
<1>1. PedidosDe(Consola) = PCrear({Operador}) \cup PDestruir({Operador}) \cup PCompactar \cup PEnviar
  BY HilosDistintos DEF PedidosDe
<1>2. ASSUME NEW n \in TamOperador,
             Empieza(Consola, [op |-> "crear", prog |-> Operador, size |-> n, k |-> 5])
      PROVE  \E q \in PCrear({Operador}) : Empieza(Consola, q)
  <2>1. n \in Nat \ {0}
    BY SupuestosUMV
  <2>2. [op |-> "crear", prog |-> Operador, size |-> n, k |-> 5] \in PCrear({Operador})
    BY <2>1, DueniosTipo DEF PCrear
  <2>3. QED
    BY <1>2, <2>2
<1>3. [op |-> "destruir", prog |-> Operador] \in PDestruir({Operador}) /\ [op |-> "compactar"] \in PCompactar
  BY DueniosTipo DEF PDestruir, PCompactar
<1>4. ASSUME NEW z \in segs, z.prog = activo,
             Empieza(Consola, [op |-> "enviar", prog |-> activo, base |-> z.inicio,
                               off |-> 0, tam |-> 1, val |-> Operador])
      PROVE  \E q \in PEnviar : Empieza(Consola, q)
  <2>1. z.prog \in Duenio /\ z.inicio \in Int
    BY DEF Tipos, TipoTabla, Segmento
  <2>2. [op |-> "enviar", prog |-> activo, base |-> z.inicio, off |-> 0, tam |-> 1,
         val |-> Operador] \in PEnviar
    BY <1>4, <2>1, DueniosTipo DEF PEnviar
  <2>3. QED
    BY <1>4, <2>2
<1>5. QED
  BY <1>1, <1>2, <1>3, <1>4 DEF ConsolaComando

\* What an operation does to its thread: it ends, or goes on compacting or
\* trying again.
LEMMA AccedeHilo ==
    ASSUME NEW h \in Hilos, Accede(h)
    PROVE  hilo' = hilo \/ hilo' = [hilo EXCEPT ![h] = Quieto("recv")]
BY DEF Accede, Falla, Copia, Sale

\* Where creating a segment leaves its thread: compacting, or with an answer.
LEMMA CreaHilo ==
    ASSUME NEW h \in Hilos, Crea(h)
    PROVE  \/ hilo' = [hilo EXCEPT ![h].pc = "compacta", ![h].hasta = 0] /\ hilo[h].pc = "duerme"
           \/ hilo' = [hilo EXCEPT ![h] = Quieto("recv")]
<1>1. NoCreado(h) \/ \E n : Sale(h, Codigo(n))
  <2>1. PICK a \in AlgoritmosDe(h) :
          \/ NoCreado(h)
          \/ \E l \in Elegir(hilo[h].libres, hilo[h].ped.size, a) :
             \E b \in DirInicio(segs, hilo[h].ped.prog, hilo[h].ped.size, Sorteo[hilo[h].ped.k]) :
                IF b = 0 THEN NoCreado(h) ELSE Sale(h, Codigo(b))
    BY DEF Crea
  <2>2. QED
    BY <2>1
<1>2. QED
  BY <1>1 DEF NoCreado, Sale

\* Every step keeps the kinds of the threads.
LEMMA HilosPaso ==
    ASSUME Tipos, Next
    PROVE  TipoHilos'
<1> USE HilosDistintos
<1>1. CASE hilo' = hilo
  BY <1>1 DEF Tipos, TipoHilos, Adentro
<1>2. ASSUME NEW c \in Conexiones, MainAcepta(c) \/ ClienteConecta(c) \/ HiloArranca(c) \/ Duerme(c)
      PROVE  TipoHilos'
  <2>1. CASE hilo' = hilo
    BY <1>1, <2>1
  <2>2. CASE hilo' # hilo
    <3>1. \E pc \in {"creado", "encolada", "fin", "recv"} : hilo' = [hilo EXCEPT ![c].pc = pc]
      BY <1>2, <2>2 DEF MainAcepta, ClienteConecta, HiloArranca, Duerme
    <3>2. QED
      BY <3>1, PasaPc DEF Pcs, Dentro, Tipos
  <2>3. QED
    BY <2>1, <2>2
<1>3. ASSUME NEW c \in Conexiones, Entra(c)
      PROVE  TipoHilos'
  BY <1>3, PrimeroTipo, EmpiezaHilo DEF Entra, PideCandado, Tipos
<1>4. ASSUME NEW h \in Hilos, Sirve(h)
      PROVE  TipoHilos'
  <2>1. hilo[h] \in Puesto
    BY DEF Tipos, TipoHilos
  <2>2. CASE hilo' = [hilo EXCEPT ![h] = Quieto("recv")]
    BY <2>2, SaleHilo DEF Tipos
  <2>3. CASE Accede(h)
    BY <1>1, <2>2, <2>3, AccedeHilo
  <2>4. CASE Crea(h)
    <3>1. CASE hilo' = [hilo EXCEPT ![h].pc = "compacta", ![h].hasta = 0] /\ hilo[h].pc = "duerme"
      <4> DEFINE r == [hilo[h] EXCEPT !.pc = "compacta", !.hasta = 0]
      <4>1. hilo' = [hilo EXCEPT ![h] = r]
        BY <2>1, <3>1
      <4>2. r \in Puesto /\ r.ped = hilo[h].ped
        BY <2>1 DEF Puesto, Pcs
      <4>3. r.ped \in PedidosDe(h) /\ r.ped.op = "crear"
        BY <2>4, <4>2 DEF Tipos, TipoHilos, Crea, Adentro
      <4> HIDE DEF r
      <4>4. QED
        BY <4>1, <4>2, <4>3, PasaHilo DEF Tipos
    <3>2. QED
      BY <2>2, <2>4, <3>1, CreaHilo
  <2>5. CASE CompactaUno(h)
    <3>1. PICK s \in PorMover(h) : hilo' = [hilo EXCEPT ![h].hasta = Siguiente(s, hilo[h].hasta)]
      BY <2>5 DEF CompactaUno
    <3>2. Siguiente(s, hilo[h].hasta) \in Nat
      <4>1. s \in Segmento /\ hilo[h].hasta \in Nat
        BY <2>1 DEF PorMover, Tipos, TipoTabla, Puesto
      <4>2. QED
        BY <4>1 DEF Siguiente, Segmento
    <3> DEFINE r == [hilo[h] EXCEPT !.hasta = Siguiente(s, hilo[h].hasta)]
    <3>3. hilo' = [hilo EXCEPT ![h] = r]
      BY <2>1, <3>1
    <3>4. r \in Puesto /\ r.ped = hilo[h].ped /\ r.pc = "compacta"
      BY <2>1, <2>5, <3>2 DEF Puesto, CompactaUno
    <3>5. r.ped \in PedidosDe(h) /\ r.ped.op \in {"crear", "compactar"}
      BY <2>5, <3>4 DEF Tipos, TipoHilos, CompactaUno, Adentro
    <3> HIDE DEF r
    <3>6. QED
      BY <3>3, <3>4, <3>5, PasaHilo DEF Tipos
  <2>6. CASE Compactado(h)
    <3>1. CASE hilo[h].ped.op = "crear"
      <4> DEFINE r == [hilo[h] EXCEPT !.pc = "reintenta", !.libres = EspaciosLibres(segs), !.hasta = 0]
      <4>1. hilo' = [hilo EXCEPT ![h] = r]
        BY <2>1, <2>6, <3>1 DEF Compactado
      <4>2. EspaciosLibres(segs) \subseteq Hueco
        BY LibresBien DEF Tipos, TipoTabla
      <4>3. r \in Puesto /\ r.ped = hilo[h].ped /\ r.pc = "reintenta"
        BY <2>1, <4>2 DEF Puesto, Pcs
      <4>4. r.ped \in PedidosDe(h)
        BY <2>6, <4>3 DEF Tipos, TipoHilos, Compactado, Adentro
      <4> HIDE DEF r
      <4>5. QED
        BY <4>1, <4>3, <4>4, PasaHilo DEF Tipos
    <3>2. CASE hilo[h].ped.op # "crear"
      BY <2>2, <2>6, <3>2 DEF Compactado, Sale
    <3>3. QED
      BY <3>1, <3>2
  <2>7. CASE Destruye(h)
    BY <2>2, <2>7 DEF Destruye, Sale
  <2>8. QED
    BY <1>4, <2>3, <2>4, <2>5, <2>6, <2>7 DEF Sirve
<1>5. CASE ConsolaComando
  BY <1>5, ComandoTipo, EmpiezaHilo
<1>6. CASE ConsolaConecta
  <2> DEFINE r == [hilo[Consola] EXCEPT !.pc = "conecto"]
             t == [hilo[Quit] EXCEPT !.pc = "encolada"]
  <2>1. hilo \in [Hilos -> Puesto] /\ Consola \in Hilos /\ Quit \in Hilos
    BY DEF Tipos, TipoHilos
  <2>2. r \in Puesto /\ r.pc = "conecto" /\ t \in Puesto /\ t.pc = "encolada"
    BY <2>1 DEF Puesto, Pcs
  <2>3. hilo' = [[hilo EXCEPT ![Consola] = r] EXCEPT ![Quit] = t]
    BY <1>6, <2>1 DEF ConsolaConecta
  <2> HIDE DEF r, t
  <2>4. hilo' \in [Hilos -> Puesto] /\ hilo'[Consola] = r /\ hilo'[Quit] = t
        /\ \A g \in Hilos \ {Consola, Quit} : hilo'[g] = hilo[g]
    BY <2>1, <2>2, <2>3
  <2>5. \A g \in Hilos : hilo'[g].pc \in Dentro => hilo'[g] = hilo[g]
    BY <2>2, <2>4 DEF Dentro
  <2>6. QED
    BY <2>4, <2>5 DEF Tipos, TipoHilos, Adentro, Dentro
<1>7. CASE ConsolaApaga
  BY <1>7, PasaPc DEF ConsolaApaga, Tipos, Pcs, Dentro
<1>8. (MainWhile \/ Kernel \/ \E p \in Programas : ConsolaActivo(p)) => hilo' = hilo
  BY DEF MainWhile, ConsolaActivo, Kernel, PlpCreado, PlpEscrito, PlpAtiende, VaciarExit
<1>9. (\E c \in CPUs : Cpu(c)) => hilo' = hilo
  BY DEF Cpu, CpuToma, CpuPide, CpuRecibe, CpuDevuelve
<1>10. QED
  BY <1>1, <1>2, <1>3, <1>4, <1>5, <1>6, <1>7, <1>8, <1>9 DEF Next, Main

-----------------------------------------------------------------------------
(* The kinds of the process are kept *)

\* What the lock is left as by each operation on it.
LEMMA CandadoTipo ==
    ASSUME op_atomica \in Candado
    PROVE  /\ op_atomica.palabra \in 0..2
           /\ [op_atomica EXCEPT !.palabra = 0] \in Candado
           /\ AlSoltar \subseteq Candado
           /\ \A c \in Conexiones : Entra(c) \/ Duerme(c) =>
                 op_atomica' \in Candado /\ op_atomica'.palabra # 0
<1>1. op_atomica.palabra \in 0..2 /\ op_atomica.dormidas \subseteq Conexiones
      /\ op_atomica.despiertas \subseteq Conexiones
      /\ op_atomica = [palabra |-> op_atomica.palabra, dormidas |-> op_atomica.dormidas,
                       despiertas |-> op_atomica.despiertas]
  BY DEF Candado
<1>2. [op_atomica EXCEPT !.palabra = 0] \in Candado
  BY <1>1 DEF Candado
<1>3. ASSUME NEW d \in op_atomica.dormidas
      PROVE  [palabra |-> 0, dormidas |-> op_atomica.dormidas \ {d},
              despiertas |-> op_atomica.despiertas \cup {d}] \in Candado
  BY <1>1 DEF Candado
<1>4. AlSoltar \subseteq Candado
  BY <1>2, <1>3 DEF AlSoltar
<1>5. ASSUME NEW c \in Conexiones, Duerme(c)
      PROVE  op_atomica' \in Candado /\ op_atomica'.palabra # 0
  BY <1>1, <1>5 DEF Duerme, Candado
<1>6. ASSUME NEW c \in Conexiones, Entra(c)
      PROVE  op_atomica' \in Candado /\ op_atomica'.palabra # 0
  <2>1. PICK n \in {1, 2} : op_atomica' = [op_atomica EXCEPT !.palabra = n, !.despiertas = @ \ {c}]
    BY <1>6 DEF Entra
  <2>2. n \in 0..2 /\ n # 0 /\ op_atomica.despiertas \ {c} \subseteq Conexiones
    BY <1>1
  <2>3. op_atomica' = [palabra |-> n, dormidas |-> op_atomica.dormidas,
                      despiertas |-> op_atomica.despiertas \ {c}]
    BY <1>1, <2>1
  <2>4. QED
    BY <1>1, <2>2, <2>3 DEF Candado
<1>7. QED
  BY <1>1, <1>2, <1>4, <1>5, <1>6

\* Every step keeps the types of what the threads share.
LEMMA ProcesoPaso ==
    ASSUME Tipos, Next
    PROVE  TipoProceso'
<1> USE SupuestosUMV
<1>1. op_atomica \in Candado /\ noTerminar \in BOOLEAN /\ caida \in BOOLEAN
      /\ usos \in 0..MaxUsos /\ roto \subseteq {"reinicio", "olvido", "consola", "operador", "fuera"}
  BY DEF Tipos, TipoProceso
<1>2. CASE UNCHANGED <<op_atomica, noTerminar, caida, usos, roto>>
  BY <1>1, <1>2 DEF TipoProceso
<1>3. Main => UNCHANGED <<op_atomica, noTerminar, caida, usos, roto>>
  BY DEF Main, MainWhile, MainAcepta
<1>4. ASSUME NEW c \in Conexiones, ClienteConecta(c) \/ HiloArranca(c) \/ Duerme(c) \/ Entra(c)
      PROVE  TipoProceso'
  <2>1. op_atomica' \in Candado
    BY <1>1, <1>4, CandadoTipo DEF ClienteConecta, HiloArranca
  <2>2. noTerminar' = noTerminar /\ caida' = caida /\ usos' = usos
    BY <1>4 DEF ClienteConecta, HiloArranca, Duerme, Entra, proceso
  <2>3. roto' \subseteq {"reinicio", "olvido", "consola", "operador", "fuera"}
    BY <1>1, <1>4 DEF ClienteConecta, HiloArranca, Duerme, Entra, Empieza, RotoAlEntrar
  <2>4. QED
    BY <1>1, <2>1, <2>2, <2>3 DEF TipoProceso
<1>5. ASSUME NEW h \in Hilos, Sirve(h)
      PROVE  TipoProceso'
  <2>1. noTerminar' = noTerminar /\ usos' = usos
    BY <1>5 DEF Sirve, Accede, Crea, CompactaUno, Compactado, Destruye, proceso, Falla
  <2>2. op_atomica' \in Candado
    <3>1. ASSUME NEW r, Sale(h, r)
          PROVE  op_atomica' \in Candado
      BY <1>1, <3>1, CandadoTipo DEF Sale
    <3>2. QED
      BY <1>1, <1>5, <3>1, Zenon
         DEF Sirve, Accede, Crea, CompactaUno, Compactado, Destruye, Falla, Copia, NoCreado
  <2>3. CASE Accede(h)
    <3>1. caida' \in BOOLEAN
      BY <1>1, <2>3 DEF Accede, Falla, Copia
    <3>2. roto' \subseteq {"reinicio", "olvido", "consola", "operador", "fuera"}
      BY <1>1, <2>3 DEF Accede, Falla, Copia
    <3>3. QED
      BY <1>1, <2>1, <2>2, <3>1, <3>2 DEF TipoProceso
  <2>4. CASE ~ Accede(h)
    <3>1. caida' = caida /\ roto' = roto
      BY <1>5, <2>4 DEF Sirve, Crea, CompactaUno, Compactado, Destruye
    <3>2. QED
      BY <1>1, <2>1, <2>2, <3>1 DEF TipoProceso
  <2>5. QED
    BY <2>3, <2>4
<1>6. CASE ConsolaComando \/ ConsolaConecta \/ ConsolaApaga
  <2>1. op_atomica' = op_atomica /\ noTerminar' \in BOOLEAN /\ caida' = caida
    BY <1>1, <1>6 DEF ConsolaComando, ConsolaConecta, ConsolaApaga
  <2>2. usos' \in 0..MaxUsos
    BY <1>1, <1>6 DEF ConsolaComando, ConsolaConecta, ConsolaApaga
  <2>3. roto' \subseteq {"reinicio", "olvido", "consola", "operador", "fuera"}
    BY <1>1, <1>6 DEF ConsolaComando, ConsolaConecta, ConsolaApaga, Empieza, RotoAlEntrar
  <2>4. QED
    BY <1>1, <2>1, <2>2, <2>3 DEF TipoProceso
<1>7. ASSUME NEW p \in Programas, ConsolaActivo(p)
      PROVE  TipoProceso'
  BY <1>1, <1>7 DEF ConsolaActivo, RotoAlEntrar, TipoProceso
<1>8. Kernel => UNCHANGED <<op_atomica, noTerminar, caida, usos, roto>>
  BY DEF Kernel, PlpCreado, PlpEscrito, PlpAtiende, VaciarExit, proceso
<1>9. ASSUME NEW c \in CPUs, Cpu(c)
      PROVE  TipoProceso'
  <2>1. UNCHANGED <<op_atomica, noTerminar, caida, roto>>
    BY <1>9 DEF Cpu, CpuToma, CpuPide, CpuRecibe, CpuDevuelve, proceso
  <2>2. usos' \in 0..MaxUsos
    BY <1>1, <1>9 DEF Cpu, CpuToma, CpuPide, CpuRecibe, CpuDevuelve
  <2>3. QED
    BY <1>1, <2>1, <2>2 DEF TipoProceso
<1>10. QED
  BY <1>2, <1>3, <1>4, <1>5, <1>6, <1>7, <1>8, <1>9 DEF Next

-----------------------------------------------------------------------------
(* What the PLP asks for *)

\* The programs' segments have sizes.
LEMMA CargaTipo ==
    ASSUME NEW p \in Programas
    PROVE  /\ \A k \in 1..4 : Carga[p][k] \in Nat
           /\ \A k \in 1..3 : Carga[p][k] > 0
<1>1. Carga \in Seq([1..4 -> Nat]) /\ p \in 1..Len(Carga)
  BY SupuestosUMV DEF Programas
<1>2. Carga[p] \in [1..4 -> Nat]
  BY <1>1, ElementOfSeq
<1>3. QED
  BY <1>2, SupuestosUMV

\* The load of p ends, well or not.
Termina(p) ==
    /\ PlpPasa("select", Nada, 0, 0) /\ cola' = cola
    /\ \E e \in {"listo", "saliente"} : estado' = [estado EXCEPT ![p] = e]

\* The PLP sends a request for p and waits for its answer.
Pregunta(p) ==
    /\ plp' \in [pc : PcsPlp, p : Programas \cup {Nada}, k : 0..4, i : Nat]
    /\ plp'.pc # "select" /\ plp'.p = p /\ plp'.k \in 1..4 /\ Carga[p][plp'.k] > 0
    /\ \E q \in PedidosDe(Plp) :
          /\ q.op # "destruir"
          /\ q.op = "crear" => plp'.pc = "crea" /\ q.prog = p /\ q.size = Carga[p][plp'.k]
          /\ q.op = "enviar" => plp'.pc = "escribe"
          /\ q.op = "enviar" /\ plp'.k = 1 =>
                q.prog = p /\ q.base = bases'[p][1] /\ q.off = 0 /\ q.tam = Carga[p][1]
          /\ Pedir(Plp, q)

\* Asking for a segment leaves the PLP waiting for its answer.
LEMMA PreguntaCrear ==
    ASSUME NEW p \in Programas, NEW k \in 1..4, Carga[p][k] > 0,
           PlpPasa("crea", p, k, 0), PedirCrear(p, k)
    PROVE  Pregunta(p)
<1> DEFINE q == [op |-> "crear", prog |-> p, size |-> Carga[p][k], k |-> k]
<1>1. q \in PCrear(Programas)
  BY CargaTipo, DueniosTipo DEF PCrear
<1>2. q \in PedidosDe(Plp) /\ q.op = "crear" /\ q.prog = p /\ q.size = Carga[p][k]
  BY <1>1, HilosDistintos DEF PedidosDe
<1>3. Pedir(Plp, q)
  BY DEF PedirCrear
<1> HIDE DEF q
<1>4. plp' = [pc |-> "crea", p |-> p, k |-> k, i |-> 0]
  BY DEF PlpPasa
<1>5. /\ plp' \in [pc : PcsPlp, p : Programas \cup {Nada}, k : 0..4, i : Nat]
      /\ plp'.pc = "crea" /\ plp'.p = p /\ plp'.k = k
  BY <1>4 DEF PcsPlp
<1>6. QED
  BY <1>2, <1>3, <1>5 DEF Pregunta

\* So does sending bytes to one.
LEMMA PreguntaEnviar ==
    ASSUME NEW p \in Programas, NEW k \in 1..4, Carga[p][k] > 0, NEW i \in Nat,
           NEW base \in Int, NEW off \in Int, NEW tam \in Nat \ {0},
           k = 1 => base = bases'[p][1] /\ off = 0 /\ tam = Carga[p][1],
           PlpPasa("escribe", p, k, i), PedirEnviar(Plp, p, base, off, tam, p)
    PROVE  Pregunta(p)
<1> DEFINE q == [op |-> "enviar", prog |-> p, base |-> base, off |-> off, tam |-> tam, val |-> p]
<1>1. q \in PPropio
  BY DueniosTipo DEF PEnviar, PPropio
<1>2. /\ q \in PedidosDe(Plp) /\ q.op = "enviar" /\ q.prog = p
      /\ q.base = base /\ q.off = off /\ q.tam = tam
  BY <1>1, HilosDistintos DEF PedidosDe
<1>3. Pedir(Plp, q)
  BY DEF PedirEnviar
<1> HIDE DEF q
<1>4. plp' = [pc |-> "escribe", p |-> p, k |-> k, i |-> i]
  BY DEF PlpPasa
<1>5. /\ plp' \in [pc : PcsPlp, p : Programas \cup {Nada}, k : 0..4, i : Nat]
      /\ plp'.pc = "escribe" /\ plp'.p = p /\ plp'.k = k
  BY <1>4 DEF PcsPlp
<1>6. QED
  BY <1>2, <1>3, <1>5 DEF Pregunta

\* After a segment the PLP asks for the next, or ends.
LEMMA SigueBien ==
    ASSUME NEW p \in Programas, NEW k \in 1..5, PlpSigue(p, k)
    PROVE  Termina(p) \/ (Pregunta(p) /\ estado' = estado)
<1>1. CASE k <= 3 \/ (k = 4 /\ Carga[p][4] > 0)
  <2>1. k \in 1..4 /\ Carga[p][k] > 0
    BY <1>1, CargaTipo
  <2>2. QED
    BY <1>1, <2>1, PreguntaCrear DEF PlpSigue
<1>2. CASE ~ (k <= 3 \/ (k = 4 /\ Carga[p][4] > 0))
  BY <1>2 DEF PlpSigue, Termina
<1>3. QED
  BY <1>1, <1>2

\* What the PLP is doing while it loads.
LEMMA PlpTipo ==
    ASSUME Tipos, plp.pc # "select"
    PROVE  /\ plp.p \in Programas /\ plp.k \in 1..4 /\ plp.i \in Nat
           /\ Carga[plp.p][plp.k] > 0 /\ Carga[plp.p][plp.k] \in Nat
           /\ \A k \in 1..4 : bases[plp.p][k] \in Int
           /\ resp[Plp] # Nada => resp[Plp].cod \in Int
<1>1. plp.p \in Programas /\ plp.k \in 1..4 /\ plp.i \in Nat /\ Carga[plp.p][plp.k] > 0
  BY DEF Tipos, TipoClientes
<1>2. \A k \in 1..4 : bases[plp.p][k] \in Int
  BY <1>1 DEF Tipos, TipoClientes
<1>3. resp[Plp] \in Respuesta \cup {Nada}
  BY HilosDistintos DEF Tipos, TipoRed
<1>4. QED
  BY <1>1, <1>2, <1>3, CargaTipo DEF Respuesta

\* An answer makes it ask for the next thing or ends the load.
LEMMA PlpCreadoHace ==
    ASSUME Tipos, PlpCreado
    PROVE  Termina(plp.p) \/ (Pregunta(plp.p) /\ estado' = estado)
<1>1. PICK p \in Programas, k \in 1..4, base \in Int :
        /\ p = plp.p /\ k = plp.k /\ base = resp[Plp].cod
        /\ Carga[p][k] > 0 /\ Carga[p][k] \in Nat
  BY PlpTipo DEF PlpCreado
<1>2. CASE resp[Plp].cod = 0
  <2>1. PlpRebota(p)
    BY <1>1, <1>2 DEF PlpCreado
  <2>2. QED
    BY <1>1, <2>1 DEF PlpRebota, Termina
<1>3. CASE base # 0 /\ k = 2
  <2>1. PlpSigue(p, 3)
    BY <1>1, <1>3 DEF PlpCreado
  <2>2. QED
    BY <1>1, <2>1, SigueBien
<1>4. CASE base # 0 /\ k # 2
  <2>1. /\ PlpPasa("escribe", p, k, 0) /\ UNCHANGED estado
        /\ PedirEnviar(Plp, p, base, 0, IF k = 3 THEN 1 ELSE Carga[p][k], p)
    BY <1>1, <1>4 DEF PlpCreado
  <2>2. (IF k = 3 THEN 1 ELSE Carga[p][k]) \in Nat \ {0}
    BY <1>1
  <2>3. bases'[p][k] = base
    BY <1>1 DEF PlpCreado, Tipos, TipoClientes
  <2>4. Pregunta(p)
    BY <1>1, <1>4, <2>1, <2>2, <2>3, PreguntaEnviar
  <2>5. QED
    BY <1>1, <2>1, <2>4
<1>5. QED
  BY <1>1, <1>2, <1>3, <1>4

\* After a write the PLP goes on with the next segment, or ends.
LEMMA PlpEscritoHace ==
    ASSUME Tipos, PlpEscrito
    PROVE  Termina(plp.p) \/ (Pregunta(plp.p) /\ estado' = estado)
<1>1. PICK p \in Programas, k \in 1..4, i \in Nat :
        /\ p = plp.p /\ k = plp.k /\ i = plp.i + 1
        /\ Carga[p][k] > 0 /\ bases[p][k] \in Int
  BY PlpTipo DEF PlpEscrito
<1>2. CASE resp[Plp].cod = 0
  <2>1. PlpRebota(p)
    BY <1>1, <1>2 DEF PlpEscrito
  <2>2. QED
    BY <1>1, <2>1 DEF PlpRebota, Termina
<1>3. CASE resp[Plp].cod # 0 /\ ~ (k = 3 /\ i < Carga[p][3])
  <2>1. PlpSigue(p, k + 1) /\ k + 1 \in 1..5
    BY <1>1, <1>3 DEF PlpEscrito
  <2>2. QED
    BY <1>1, <2>1, SigueBien
<1>4. CASE resp[Plp].cod # 0 /\ k = 3 /\ i < Carga[p][3]
  <2>1. /\ PlpPasa("escribe", p, k, i) /\ UNCHANGED estado
        /\ PedirEnviar(Plp, p, bases[p][k], i, 1, p)
    BY <1>1, <1>4 DEF PlpEscrito
  <2>2. Pregunta(p)
    BY <1>1, <1>4, <2>1, PreguntaEnviar
  <2>3. QED
    BY <1>1, <2>1, <2>2
<1>5. QED
  BY <1>2, <1>3, <1>4

\* A program that is attended has its first segment asked for.
LEMMA PlpAtiendeHace ==
    ASSUME NEW p \in Programas, PlpAtiende(p)
    PROVE  Pregunta(p) /\ estado' = [estado EXCEPT ![p] = "cargando"]
BY CargaTipo, PreguntaCrear DEF PlpAtiende

-----------------------------------------------------------------------------
(* The kinds of what travels are kept *)

\* A connection on which something is asked.
LEMMA PideRed ==
    ASSUME TipoRed, NEW c \in Conexiones, NEW q \in PedidosDe(c), Pedir(c, q), resp' = resp
    PROVE  TipoRed'
<1>1. /\ cola \in [Conexiones -> Seq(Pedido)] /\ cola[c] \in Seq(PedidosDe(c)) /\ c \in Hilos
      /\ resp' \in [Conexiones -> Respuesta \cup {Nada}]
  BY HilosDistintos DEF TipoRed
<1>2. q \in Pedido
  BY <1>1 DEF Pedido
<1>3. cola' = [cola EXCEPT ![c] = Append(cola[c], q)]
  BY DEF Pedir
<1>4. Append(cola[c], q) \in Seq(Pedido) /\ Append(cola[c], q) \in Seq(PedidosDe(c))
  BY <1>1, <1>2, AppendProperties
<1>5. cola' \in [Conexiones -> Seq(Pedido)] /\ cola'[c] = Append(cola[c], q)
      /\ \A d \in Conexiones \ {c} : cola'[d] = cola[d]
  BY <1>1, <1>3, <1>4
<1>6. \A d \in Conexiones : cola'[d] \in Seq(PedidosDe(d))
  BY <1>4, <1>5 DEF TipoRed
<1>7. QED
  BY <1>1, <1>5, <1>6 DEF TipoRed

\* One whose request is received.
LEMMA EntraRed ==
    ASSUME TipoRed, NEW c \in Conexiones, Entra(c)
    PROVE  TipoRed'
<1>1. /\ cola \in [Conexiones -> Seq(Pedido)] /\ cola[c] \in Seq(PedidosDe(c))
      /\ resp' \in [Conexiones -> Respuesta \cup {Nada}]
  BY DEF TipoRed, Entra, PideCandado
<1>2. cola' = [cola EXCEPT ![c] = Tail(cola[c])] /\ cola[c] # <<>>
  BY DEF Entra, PideCandado
<1>3. Tail(cola[c]) \in Seq(Pedido) /\ Tail(cola[c]) \in Seq(PedidosDe(c))
  BY <1>1, <1>2, HeadTailProperties
<1>4. cola' \in [Conexiones -> Seq(Pedido)] /\ cola'[c] = Tail(cola[c])
      /\ \A d \in Conexiones \ {c} : cola'[d] = cola[d]
  BY <1>1, <1>2, <1>3
<1>5. \A d \in Conexiones : cola'[d] \in Seq(PedidosDe(d))
  BY <1>3, <1>4 DEF TipoRed
<1>6. QED
  BY <1>1, <1>4, <1>5 DEF TipoRed

\* One that is answered, or whose answer is read.
LEMMA RespondeRed ==
    ASSUME TipoRed, NEW c, NEW r \in Respuesta \cup {Nada},
           resp' = [resp EXCEPT ![c] = r], cola' = cola
    PROVE  TipoRed'
<1>1. resp' \in [Conexiones -> Respuesta \cup {Nada}]
  BY DEF TipoRed
<1>2. QED
  BY <1>1 DEF TipoRed

\* What an operation answers.
LEMMA AccedeResponde ==
    ASSUME Tipos, NEW h \in Hilos, Accede(h)
    PROVE  resp' = resp \/ \E r \in Respuesta : resp' = [resp EXCEPT ![h] = r]
<1> DEFINE ped == hilo[h].ped
<1>1. ped.tam \in Nat \ {0} /\ ped.off \in Int
  BY AdentroTipo DEF Accede, Adentro, PedidoBien, Tipos
<1>2. ASSUME NEW n \in Int, Falla(h, n)
      PROVE  resp' = resp \/ \E r \in Respuesta : resp' = [resp EXCEPT ![h] = r]
  <2>1. Codigo(n) \in Respuesta /\ [cod |-> ped.tam, datos |-> <<n>>] \in Respuesta
    BY <1>1 DEF Codigo, Respuesta
  <2>2. QED
    BY <1>2, <2>1 DEF Falla, Sale
<1>3. ASSUME NEW s \in Solicitados(segs, activo, ped.base), Copia(h, s)
      PROVE  resp' = resp \/ \E r \in Respuesta : resp' = [resp EXCEPT ![h] = r]
  <2> DEFINE zona == s.pos + ped.off .. s.pos + ped.off + ped.tam - 1
             leido == [i \in 1..ped.tam |-> mem[s.pos + ped.off + i - 1]]
  <2>1. CASE resp' = resp
    BY <2>1
  <2>2. CASE resp' # resp
    <3>1. zona \subseteq 0..TamMem - 1
          /\ Sale(h, [cod |-> ped.tam, datos |-> IF ped.op = "enviar" THEN <<>> ELSE leido])
      BY <1>3, <2>2 DEF Copia
    <3>2. s.pos \in Nat
      BY DEF Solicitados, Tipos, TipoTabla, Segmento
    <3>3. \A i \in 1..ped.tam : s.pos + ped.off + i - 1 \in zona
      BY <1>1, <3>2
    <3>4. \A d \in 0..TamMem - 1 : mem[d] \in Int
      <4>1. Duenio \cup {0} \subseteq Int
        BY DueniosTipo DEF Duenio
      <4>2. QED
        BY <4>1 DEF Tipos, TipoTabla
    <3>5. \A i \in 1..ped.tam : mem[s.pos + ped.off + i - 1] \in Int
      BY <3>1, <3>3, <3>4
    <3>6. leido \in Seq(Int)
      BY <1>1, <3>5
    <3>7. <<>> \in Seq(Int)
      OBVIOUS
    <3> HIDE DEF leido, zona
    <3>8. [cod |-> ped.tam, datos |-> IF ped.op = "enviar" THEN <<>> ELSE leido] \in Respuesta
      BY <1>1, <3>6, <3>7 DEF Respuesta
    <3>9. QED
      BY <2>2, <3>1, <3>8 DEF Sale
  <2>3. QED
    BY <2>1, <2>2
<1>4. QED
  BY <1>2, <1>3 DEF Accede

\* Creating a segment gives at most one answer, to the one who asked.
LEMMA CreaResponde ==
    ASSUME Tipos, NEW h \in Hilos, Crea(h)
    PROVE  resp' = resp \/ \E r \in Respuesta : resp' = [resp EXCEPT ![h] = r]
<1>1. hilo[h].ped.k \in 1..5
  BY AdentroTipo DEF Tipos, Crea, Adentro, PedidoBien
<1>2. Sorteo[hilo[h].ped.k] \subseteq Int
  BY <1>1, SupuestosUMV, SupuestosSegmentos
<1>3. NoCreado(h) \/ \E n \in Int : Sale(h, Codigo(n))
  <2>1. PICK a \in AlgoritmosDe(h) :
          \/ NoCreado(h)
          \/ \E l \in Elegir(hilo[h].libres, hilo[h].ped.size, a) :
             \E b \in DirInicio(segs, hilo[h].ped.prog, hilo[h].ped.size, Sorteo[hilo[h].ped.k]) :
                IF b = 0 THEN NoCreado(h) ELSE Sale(h, Codigo(b))
    BY DEF Crea
  <2>2. DirInicio(segs, hilo[h].ped.prog, hilo[h].ped.size, Sorteo[hilo[h].ped.k]) \subseteq Int
    BY <1>2 DEF DirInicio
  <2>3. QED
    BY <2>1, <2>2
<1>4. \A n \in Int : Codigo(n) \in Respuesta
  BY DEF Codigo, Respuesta
<1>5. ASSUME NEW n \in Int, Sale(h, Codigo(n))
      PROVE  resp' = resp \/ \E r \in Respuesta : resp' = [resp EXCEPT ![h] = r]
  BY <1>4, <1>5 DEF Sale
<1>6. QED
  BY <1>3, <1>5 DEF NoCreado

\* A request of a CPU.
LEMMA CpuPideHace ==
    ASSUME Tipos, NEW c \in CPUs, CpuPide(c)
    PROVE  \E q \in PedidosDe(c) : Pedir(c, q)
<1>1. PICK p \in Programas : p = cpu[c]
  BY DEF Tipos, TipoClientes, CpuPide
<1>2. \A k \in {1, 2} : bases[p][k] \in Int
  BY DEF Tipos, TipoClientes
<1>3. PedidosDe(c) = PPropio \cup PSolicitar
  BY DEF PedidosDe
<1>4. PICK off \in Offsets :
        \/ \E k \in {1, 2} : Pedir(c, [op |-> "solicitar", prog |-> p, base |-> bases[p][k],
                                       off |-> off, tam |-> 1])
        \/ PedirEnviar(c, p, bases[p][2], off, 1, p)
  BY <1>1 DEF CpuPide
<1>5. off \in Int
  BY SupuestosUMV
<1>6. ASSUME NEW k \in {1, 2}
      PROVE  [op |-> "solicitar", prog |-> p, base |-> bases[p][k], off |-> off, tam |-> 1]
                \in PSolicitar
  BY <1>2, <1>5 DEF PSolicitar
<1>7. [op |-> "enviar", prog |-> p, base |-> bases[p][2], off |-> off, tam |-> 1, val |-> p]
         \in PPropio
  BY <1>2, <1>5, DueniosTipo DEF PEnviar, PPropio
<1>8. CASE PedirEnviar(c, p, bases[p][2], off, 1, p)
  BY <1>3, <1>7, <1>8 DEF PedirEnviar
<1>9. QED
  BY <1>3, <1>4, <1>6, <1>8

\* Every step keeps the kinds of what travels.
LEMMA RedPaso ==
    ASSUME Tipos, Next
    PROVE  TipoRed'
<1> USE HilosDistintos DEF Tipos
<1>1. CASE cola' = cola /\ resp' = resp
  BY <1>1 DEF TipoRed
<1>2. ASSUME NEW c \in Conexiones, ClienteConecta(c) \/ HiloArranca(c) \/ Duerme(c) \/ Entra(c)
      PROVE  TipoRed'
  BY <1>1, <1>2, EntraRed DEF ClienteConecta, HiloArranca, Duerme
<1>3. ASSUME NEW h \in Hilos, Sirve(h)
      PROVE  TipoRed'
  <2>1. cola' = cola
    BY <1>3 DEF Sirve, Accede, Falla, Crea, CompactaUno, Compactado, Destruye
  <2>2. resp' = resp \/ \E r \in Respuesta : resp' = [resp EXCEPT ![h] = r]
    BY <1>3, AccedeResponde, CreaResponde DEF Sirve, CompactaUno, Compactado, Destruye, Sale
  <2>3. QED
    BY <1>1, <2>1, <2>2, RespondeRed
<1>4. CASE Main \/ ConsolaComando \/ ConsolaConecta \/ ConsolaApaga
  BY <1>1, <1>4 DEF Main, MainWhile, MainAcepta, ConsolaComando, ConsolaConecta, ConsolaApaga
<1>5. ASSUME NEW p \in Programas, ConsolaActivo(p)
      PROVE  TipoRed'
  BY <1>1, <1>5 DEF ConsolaActivo
<1>6. CASE PlpCreado \/ PlpEscrito
  <2>1. resp' = [resp EXCEPT ![Plp] = Nada]
    BY <1>6 DEF PlpCreado, PlpEscrito
  <2>2. cola' = cola \/ \E q \in PedidosDe(Plp) : Pedir(Plp, q)
    BY <1>6, PlpCreadoHace, PlpEscritoHace DEF Termina, Pregunta
  <2>3. cola' \in [Conexiones -> Seq(Pedido)] /\ \A c \in Conexiones : cola'[c] \in Seq(PedidosDe(c))
    <3>1. CASE cola' = cola
      BY <3>1 DEF TipoRed
    <3>2. ASSUME NEW q \in PedidosDe(Plp), Pedir(Plp, q)
          PROVE  cola' \in [Conexiones -> Seq(Pedido)]
                 /\ \A c \in Conexiones : cola'[c] \in Seq(PedidosDe(c))
      <4>1. cola \in [Conexiones -> Seq(Pedido)] /\ cola[Plp] \in Seq(PedidosDe(Plp)) /\ q \in Pedido
        BY DEF TipoRed, Pedido
      <4>2. cola' = [cola EXCEPT ![Plp] = Append(cola[Plp], q)]
        BY <3>2 DEF Pedir
      <4>3. Append(cola[Plp], q) \in Seq(Pedido) /\ Append(cola[Plp], q) \in Seq(PedidosDe(Plp))
        BY <4>1, AppendProperties
      <4>4. QED
        BY <4>1, <4>2, <4>3 DEF TipoRed
    <3>3. QED
      BY <2>2, <3>1, <3>2
  <2>4. QED
    BY <2>1, <2>3 DEF TipoRed
<1>7. ASSUME NEW p \in Programas, PlpAtiende(p)
      PROVE  TipoRed'
  BY <1>7, PlpAtiendeHace, PideRed DEF Pregunta, PlpAtiende
<1>8. ASSUME NEW p \in Programas, VaciarExit(p)
      PROVE  TipoRed'
  <2>1. [op |-> "destruir", prog |-> p] \in PedidosDe(Plp)
    BY DueniosTipo DEF PDestruir, PedidosDe
  <2>2. QED
    BY <1>8, <2>1, PideRed DEF VaciarExit
<1>9. ASSUME NEW c \in CPUs, Cpu(c)
      PROVE  TipoRed'
  <2>1. CASE CpuPide(c)
    BY <2>1, CpuPideHace, PideRed DEF CpuPide
  <2>2. CASE CpuRecibe(c)
    BY <2>2, RespondeRed DEF CpuRecibe
  <2>3. QED
    BY <1>1, <1>9, <2>1, <2>2 DEF Cpu, CpuToma, CpuDevuelve
<1>10. QED
  BY <1>2, <1>3, <1>4, <1>5, <1>6, <1>7, <1>8, <1>9 DEF Next, Kernel

-----------------------------------------------------------------------------
(* The kinds of the clients are kept *)

\* Every step keeps the clients of the UMV well formed.
LEMMA ClientesPaso ==
    ASSUME Tipos, Next
    PROVE  TipoClientes'
<1> USE DEF Tipos
<1>1. /\ estado \in [Programas -> Estados] /\ bases \in [Programas -> [1..4 -> Int]]
      /\ plp \in [pc : PcsPlp, p : Programas \cup {Nada}, k : 0..4, i : Nat]
      /\ cpu \in [CPUs -> Programas \cup {Nada}]
  BY DEF TipoClientes
<1>2. CASE UNCHANGED clientes
  BY <1>2 DEF TipoClientes, clientes
<1>3. (Main \/ \E c \in Conexiones : ClienteConecta(c) \/ HiloArranca(c) \/ Duerme(c) \/ Entra(c)) => UNCHANGED clientes
  BY DEF Main, MainWhile, MainAcepta, ClienteConecta, HiloArranca, Duerme, Entra, PideCandado
<1>4. (\E h \in Hilos : Sirve(h)) => UNCHANGED clientes
  BY DEF Sirve, Accede, Falla, Crea, CompactaUno, Compactado, Destruye
<1>5. (ConsolaComando \/ ConsolaConecta \/ ConsolaApaga \/ \E p \in Programas : ConsolaActivo(p))
        => UNCHANGED clientes
  BY DEF ConsolaComando, ConsolaConecta, ConsolaApaga, ConsolaActivo
<1>6. ASSUME NEW p \in Programas, Termina(p)
      PROVE  /\ estado' \in [Programas -> Estados]
             /\ plp' \in [pc : PcsPlp, p : Programas \cup {Nada}, k : 0..4, i : Nat]
             /\ plp'.pc = "select"
  <2>1. estado' \in [Programas -> Estados]
    BY <1>1, <1>6 DEF Termina, Estados
  <2>2. plp' = [pc |-> "select", p |-> Nada, k |-> 0, i |-> 0]
    BY <1>6 DEF Termina, PlpPasa
  <2>3. QED
    BY <2>1, <2>2 DEF PcsPlp
<1>7. CASE PlpCreado \/ PlpEscrito
  <2>1. cpu' = cpu
    BY <1>7 DEF PlpCreado, PlpEscrito
  <2>2. bases' \in [Programas -> [1..4 -> Int]]
    <3>1. CASE PlpEscrito
      BY <1>1, <3>1 DEF PlpEscrito
    <3>2. CASE PlpCreado
      <4>1. plp.p \in Programas /\ plp.k \in 1..4 /\ resp[Plp].cod \in Int
        BY <3>2, PlpTipo DEF PlpCreado
      <4>2. bases' = [bases EXCEPT ![plp.p] = [bases[plp.p] EXCEPT ![plp.k] = resp[Plp].cod]]
        BY <1>1, <3>2, <4>1 DEF PlpCreado
      <4>3. bases[plp.p] \in [1..4 -> Int]
        BY <1>1, <4>1
      <4>4. [bases[plp.p] EXCEPT ![plp.k] = resp[Plp].cod] \in [1..4 -> Int]
        BY <4>1, <4>3
      <4>5. QED
        BY <1>1, <4>1, <4>2, <4>4
    <3>3. QED
      BY <1>7, <3>1, <3>2
  <2>3. PICK p \in Programas : p = plp.p
    BY <1>7 DEF TipoClientes, PlpCreado, PlpEscrito
  <2>4. Termina(p) \/ (Pregunta(p) /\ estado' = estado)
    BY <1>7, <2>3, PlpCreadoHace, PlpEscritoHace
  <2>5. CASE Termina(p)
    BY <1>1, <1>6, <2>1, <2>2, <2>5 DEF TipoClientes
  <2>6. CASE Pregunta(p) /\ estado' = estado
    BY <1>1, <2>1, <2>2, <2>6 DEF TipoClientes, Pregunta
  <2>7. QED
    BY <2>4, <2>5, <2>6
<1>8. ASSUME NEW p \in Programas, PlpAtiende(p)
      PROVE  TipoClientes'
  <2>1. Pregunta(p) /\ bases' = bases /\ cpu' = cpu
    BY <1>8, PlpAtiendeHace DEF PlpAtiende
  <2>2. estado' \in [Programas -> Estados]
    BY <1>1, <1>8 DEF PlpAtiende, Estados
  <2>3. QED
    BY <1>1, <2>1, <2>2 DEF TipoClientes, Pregunta
<1>9. ASSUME NEW p \in Programas, VaciarExit(p)
      PROVE  TipoClientes'
  <2>1. estado' \in [Programas -> Estados]
    BY <1>1, <1>9 DEF VaciarExit, Estados
  <2>2. QED
    BY <1>1, <1>9, <2>1 DEF TipoClientes, VaciarExit
<1>10. ASSUME NEW c \in CPUs, Cpu(c)
       PROVE  TipoClientes'
  <2>1. plp' = plp /\ bases' = bases
    BY <1>10 DEF Cpu, CpuToma, CpuPide, CpuRecibe, CpuDevuelve
  <2>2. estado' \in [Programas -> Estados]
    BY <1>1, <1>10 DEF Cpu, CpuToma, CpuPide, CpuRecibe, CpuDevuelve, Estados
  <2>3. cpu' \in [CPUs -> Programas \cup {Nada}]
    BY <1>1, <1>10 DEF Cpu, CpuToma, CpuPide, CpuRecibe, CpuDevuelve
  <2>4. QED
    BY <1>1, <2>1, <2>2, <2>3 DEF TipoClientes
<1>11. QED
  BY <1>2, <1>3, <1>4, <1>5, <1>7, <1>8, <1>9, <1>10 DEF Next, Kernel

\* Every step keeps the kinds.
LEMMA TiposPaso ==
    ASSUME Tipos, Next
    PROVE  Tipos'
BY TablaPaso, ProcesoPaso, HilosPaso, RedPaso, ClientesPaso DEF Tipos

-----------------------------------------------------------------------------
(* What a step does to the threads *)

\* A step in which thread h enters an operation.
Inicia(h, q) ==
    /\ Empieza(h, q)
    /\ \/ h \in Conexiones /\ Entra(h) /\ q = Head(cola[h])
       \/ h = Consola /\ ConsolaComando

\* A step of the operation h is in, which ends or goes on with its request.
Continua(h) ==
    /\ Sirve(h) /\ Adentro(h)
    /\ \A g \in Hilos \ {h} : hilo'[g] = hilo[g]
    /\ Adentro(h)' => hilo'[h].ped = hilo[h].ped

\* A step that has nothing to do with operations.
Ajeno == segs' = segs /\ \A g \in Hilos : Adentro(g)' \/ Adentro(g) => hilo'[g] = hilo[g]

\* A thread that serves goes on with its request, or waits for another.
LEMMA SirveContinua ==
    ASSUME Tipos, NEW h \in Hilos, Sirve(h)
    PROVE  Continua(h)
<1>1. hilo \in [Hilos -> Puesto] /\ hilo[h] \in Puesto
  BY DEF Tipos, TipoHilos
<1>2. Adentro(h)
  BY DEF Sirve, Accede, Crea, CompactaUno, Compactado, Destruye, Adentro
<1>3. CASE hilo' = hilo
  BY <1>1, <1>2, <1>3 DEF Continua
<1>4. ASSUME NEW r, hilo' = [hilo EXCEPT ![h] = r], r.ped = hilo[h].ped \/ r.pc = "recv"
      PROVE  Continua(h)
  <2>1. hilo'[h] = r /\ \A g \in Hilos \ {h} : hilo'[g] = hilo[g]
    BY <1>1, <1>4
  <2>2. QED
    BY <1>2, <1>4, <2>1 DEF Continua, Adentro
<1>5. CASE hilo' = [hilo EXCEPT ![h] = Quieto("recv")]
  BY <1>4, <1>5 DEF Quieto
<1>6. CASE Accede(h)
  BY <1>3, <1>5, <1>6, AccedeHilo
<1>7. CASE Crea(h)
  <2>1. CASE hilo' = [hilo EXCEPT ![h].pc = "compacta", ![h].hasta = 0]
    <3> DEFINE r == [hilo[h] EXCEPT !.pc = "compacta", !.hasta = 0]
    <3>1. hilo' = [hilo EXCEPT ![h] = r] /\ r.ped = hilo[h].ped
      BY <1>1, <2>1 DEF Puesto
    <3> HIDE DEF r
    <3>2. QED
      BY <1>4, <3>1
  <2>2. QED
    BY <1>5, <1>7, <2>1, CreaHilo
<1>8. CASE CompactaUno(h)
  <2>1. PICK s \in PorMover(h) : hilo' = [hilo EXCEPT ![h].hasta = Siguiente(s, hilo[h].hasta)]
    BY <1>8 DEF CompactaUno
  <2> DEFINE r == [hilo[h] EXCEPT !.hasta = Siguiente(s, hilo[h].hasta)]
  <2>2. hilo' = [hilo EXCEPT ![h] = r] /\ r.ped = hilo[h].ped
    BY <1>1, <2>1 DEF Puesto
  <2> HIDE DEF r
  <2>3. QED
    BY <1>4, <2>2
<1>9. CASE Compactado(h)
  <2>1. CASE hilo[h].ped.op = "crear"
    <3> DEFINE r == [hilo[h] EXCEPT !.pc = "reintenta", !.libres = EspaciosLibres(segs), !.hasta = 0]
    <3>1. hilo' = [hilo EXCEPT ![h] = r] /\ r.ped = hilo[h].ped
      BY <1>1, <1>9, <2>1 DEF Compactado, Puesto
    <3> HIDE DEF r
    <3>2. QED
      BY <1>4, <3>1
  <2>2. CASE hilo[h].ped.op # "crear"
    BY <1>5, <1>9, <2>2 DEF Compactado, Sale
  <2>3. QED
    BY <2>1, <2>2
<1>10. CASE Destruye(h)
  BY <1>5, <1>10 DEF Destruye, Sale
<1>11. QED
  BY <1>6, <1>7, <1>8, <1>9, <1>10 DEF Sirve

\* Threads that are outside operations pass to other places outside them.
LEMMA PasoAjeno ==
    ASSUME TipoHilos, NEW c \in Hilos, NEW pc \in Pcs \ Dentro, ~ Adentro(c), segs' = segs,
           hilo' = [hilo EXCEPT ![c].pc = pc]
    PROVE  Ajeno
<1>1. hilo \in [Hilos -> Puesto] /\ hilo[c] \in Puesto
  BY DEF TipoHilos
<1>2. hilo'[c].pc = pc /\ \A g \in Hilos \ {c} : hilo'[g] = hilo[g]
  BY <1>1 DEF Puesto
<1>3. QED
  BY <1>2 DEF Ajeno, Adentro, Dentro

\* Every step is one of these.
LEMMA PasoHilos ==
    ASSUME Tipos, Next
    PROVE  \/ \E h \in Hilos : \E q \in PedidosDe(h) : Inicia(h, q)
           \/ \E h \in Hilos : Continua(h)
           \/ Ajeno
<1> USE HilosDistintos
<1>1. CASE hilo' = hilo /\ segs' = segs
  BY <1>1 DEF Ajeno
<1>2. ASSUME NEW c \in Conexiones, MainAcepta(c) \/ ClienteConecta(c) \/ HiloArranca(c) \/ Duerme(c)
      PROVE  Ajeno
  <2>1. segs' = segs /\ ~ Adentro(c) /\ c \in Hilos
    BY <1>2 DEF MainAcepta, ClienteConecta, HiloArranca, Duerme, PideCandado, tabla, Adentro
  <2>2. hilo' = hilo \/ \E pc \in {"creado", "encolada", "fin", "recv"} : hilo' = [hilo EXCEPT ![c].pc = pc]
    BY <1>2 DEF MainAcepta, ClienteConecta, HiloArranca, Duerme
  <2>3. CASE hilo' = hilo
    BY <2>1, <2>3 DEF Ajeno
  <2>4. QED
    BY <2>1, <2>2, <2>3, PasoAjeno DEF Tipos, Pcs, Dentro
<1>3. ASSUME NEW c \in Conexiones, Entra(c)
      PROVE  \E q \in PedidosDe(c) : Inicia(c, q)
  BY <1>3, PrimeroTipo DEF Entra, PideCandado, Tipos, Inicia
<1>4. CASE ConsolaComando
  BY <1>4, ComandoTipo DEF Inicia
<1>5. CASE ConsolaConecta
  <2>1. hilo \in [Hilos -> Puesto] /\ hilo[Consola] \in Puesto /\ hilo[Quit] \in Puesto
    BY DEF Tipos, TipoHilos
  <2>2. /\ hilo'[Consola].pc = "conecto" /\ hilo'[Quit].pc = "encolada"
        /\ \A g \in Hilos \ {Consola, Quit} : hilo'[g] = hilo[g]
    BY <1>5, <2>1 DEF ConsolaConecta, Puesto
  <2>3. ~ Adentro(Consola) /\ ~ Adentro(Quit)
    BY <1>5 DEF ConsolaConecta, Adentro, Tipos, TipoHilos, PedidosDe
  <2>4. segs' = segs
    BY <1>5 DEF ConsolaConecta, tabla
  <2>5. QED
    BY <2>2, <2>3, <2>4 DEF Ajeno, Adentro
<1>6. CASE ConsolaApaga
  <2>1. segs' = segs /\ hilo' = [hilo EXCEPT ![Consola].pc = "fin"] /\ ~ Adentro(Consola)
    BY <1>6 DEF ConsolaApaga, tabla, Adentro
  <2>2. QED
    BY <2>1, PasoAjeno DEF Tipos, Pcs, Dentro
<1>7. (MainWhile \/ Kernel \/ \E p \in Programas : ConsolaActivo(p)) => hilo' = hilo /\ segs' = segs
  BY DEF MainWhile, ConsolaActivo, Kernel, PlpCreado, PlpEscrito, PlpAtiende, VaciarExit, tabla
<1>8. (\E c \in CPUs : Cpu(c)) => hilo' = hilo /\ segs' = segs
  BY DEF Cpu, CpuToma, CpuPide, CpuRecibe, CpuDevuelve, tabla
<1>9. QED
  BY <1>1, <1>2, <1>3, <1>4, <1>5, <1>6, <1>7, <1>8, SirveContinua DEF Next, Main

\* What has been broken into is not forgotten.
LEMMA RotoCrece ==
    ASSUME Next
    PROVE  roto \subseteq roto'
<1>1. (Main \/ Kernel \/ ConsolaConecta \/ ConsolaApaga \/ \E c \in CPUs : Cpu(c)) => roto' = roto
  BY DEF Main, MainWhile, MainAcepta, Kernel, PlpCreado, PlpEscrito, PlpAtiende, VaciarExit,
         ConsolaConecta, ConsolaApaga, Cpu, CpuToma, CpuPide, CpuRecibe, CpuDevuelve
<1>2. ASSUME NEW c \in Conexiones, ClienteConecta(c) \/ HiloArranca(c) \/ Duerme(c) \/ Entra(c)
      PROVE  roto \subseteq roto'
  BY <1>2 DEF ClienteConecta, HiloArranca, Duerme, Entra, PideCandado, Empieza, RotoAlEntrar
<1>3. ASSUME NEW h \in Hilos, Sirve(h)
      PROVE  roto \subseteq roto'
  BY <1>3 DEF Sirve, Accede, Falla, Copia, Crea, CompactaUno, Compactado, Destruye
<1>4. ASSUME ConsolaComando \/ \E p \in Programas : ConsolaActivo(p)
      PROVE  roto \subseteq roto'
  BY <1>4 DEF ConsolaComando, ConsolaActivo, Empieza, RotoAlEntrar
<1>5. QED
  BY <1>1, <1>2, <1>3, <1>4 DEF Next

-----------------------------------------------------------------------------
(* Segments do not overlap until the console breaks into an operation *)

\* The console is alone in its operations.
Solos == \A c \in Conexiones : ~ (Adentro(Consola) /\ Adentro(c))

\* A thread that enters has the request it entered with.
LEMMA IniciaHilo ==
    ASSUME TipoHilos, NEW h \in Hilos, NEW q, Inicia(h, q)
    PROVE  /\ hilo'[h].ped = q /\ hilo'[h].pc \in {"duerme", "compacta"} /\ hilo'[h].hasta = 0
           /\ q.op = "crear" => hilo'[h].libres = EspaciosLibres(segs)
           /\ \A g \in Hilos \ {h} : hilo'[g] = hilo[g]
           /\ ~ Adentro(h) /\ segs' = segs /\ roto' = RotoAlEntrar(h)
BY DEF Inicia, Empieza, TipoHilos, Adentro, Entra, PideCandado, ConsolaComando, tabla

\* Every step keeps the console and the connections out of each other's way,
\* until the console breaks in.
LEMMA SolosPaso ==
    ASSUME Tipos, Next, Solos, "consola" \notin roto'
    PROVE  Solos'
<1> USE HilosDistintos
<1>1. ASSUME NEW h \in Hilos, NEW q, Inicia(h, q)
      PROVE  Solos'
  <2>1. \A g \in Hilos \ {h} : ~ (Adentro(g) /\ Consola \in {g, h})
    BY <1>1, IniciaHilo DEF RotoAlEntrar, Tipos
  <2>2. \A g \in Hilos \ {h} : Adentro(g)' => Adentro(g)
    BY <1>1, IniciaHilo DEF Adentro, Tipos
  <2>3. CASE h = Consola
    BY <2>1, <2>2, <2>3 DEF Solos
  <2>4. CASE h # Consola
    <3>1. ~ Adentro(Consola)'
      BY <2>1, <2>2, <2>4
    <3>2. QED
      BY <3>1 DEF Solos
  <2>5. QED
    BY <2>3, <2>4
<1>2. ASSUME \A g \in Hilos : Adentro(g)' => Adentro(g)
      PROVE  Solos'
  BY <1>2 DEF Solos
<1>3. ASSUME NEW h \in Hilos, Continua(h)
      PROVE  \A g \in Hilos : Adentro(g)' => Adentro(g)
  BY <1>3 DEF Continua, Adentro
<1>4. Ajeno => \A g \in Hilos : Adentro(g)' => Adentro(g)
  BY DEF Ajeno, Adentro
<1>5. QED
  BY <1>1, <1>2, <1>3, <1>4, PasoHilos

\* A segment that is created fits in a free space of the table it is added to.
LEMMA CreaSana ==
    ASSUME Tipos, Sana, NEW h \in Hilos, LibresAlDia(h), Crea(h)
    PROVE  Sana'
<1>1. CASE segs' = segs
  BY <1>1 DEF Sana
<1>2. CASE segs' # segs
  <2>1. PICK l \in hilo[h].libres, z \in Segmento :
          segs' = segs \cup {z} /\ z.pos = l.dir /\ FinDe(z) <= l.dir + l.size
    BY <1>2, Creado
  <2>2. segs \subseteq Segmento /\ \A y, x \in segs : y # x => ~ SeSolapan(y, x)
    BY DEF Tipos, TipoTabla, Sana
  <2>3. l \in EspaciosLibres(segs)
    BY <2>1 DEF LibresAlDia, Crea
  <2>4. l.dir \in Nat /\ l.size \in Nat
    BY <2>2, <2>3, LibresBien DEF Hueco
  <2>5. ASSUME NEW y \in segs
        PROVE  ~ SeSolapan(y, z) /\ ~ SeSolapan(z, y)
    <3>1. l.dir + l.size <= y.pos \/ FinDe(y) <= l.dir
      BY <2>2, <2>3, LibreNoPisa
    <3>2. y \in Segmento /\ y.pos \in Nat /\ FinDe(y) \in Nat /\ FinDe(z) \in Nat
      BY <2>2 DEF Segmento, FinDe
    <3>3. FinDe(z) <= y.pos \/ FinDe(y) <= z.pos
      BY <2>1, <2>4, <3>1, <3>2
    <3>4. QED
      BY <3>2, <3>3, Apartados
  <2>6. QED
    BY <2>1, <2>2, <2>5 DEF Sana
<1>3. QED
  BY <1>1, <1>2

\* Where the others are when a segment is moved: those moved before end where it
\* goes, those to be moved begin after it.
LEMMA Vecinos ==
    ASSUME Tipos, Sana, NEW h \in Hilos, HastaAlDia(h), hilo[h].pc = "compacta",
           NEW s \in PorMover(h), \A t \in PorMover(h) : s.pos <= t.pos,
           NEW y \in segs, y # s
    PROVE  \/ y.pos < hilo[h].hasta /\ FinDe(y) <= hilo[h].hasta
           \/ y.pos >= hilo[h].hasta + s.size
<1>1. /\ s \in Segmento /\ y \in Segmento /\ hilo[h].hasta \in 0..s.pos
      /\ s.pos \in Nat /\ s.size \in Nat \ {0} /\ y.pos \in Nat /\ y.size \in Nat \ {0}
      /\ FinDe(s) = s.pos + s.size /\ FinDe(y) = y.pos + y.size /\ s \in segs
  BY Mudado DEF Tipos, TipoTabla, Segmento, FinDe, PorMover
<1>2. CASE y.pos < hilo[h].hasta
  BY <1>2 DEF HastaAlDia
<1>3. CASE y.pos >= hilo[h].hasta
  <2>1. s.pos <= y.pos
    BY <1>3 DEF PorMover
  <2>2. FinDe(s) <= y.pos \/ FinDe(y) <= s.pos
    BY <1>1, Apartados DEF Sana
  <2>3. y.pos >= hilo[h].hasta + s.size
    BY <1>1, <2>1, <2>2
  <2>4. QED
    BY <2>3
<1>4. QED
  BY <1>1, <1>2, <1>3

\* Moving a segment down to the end of the one below keeps them apart.
LEMMA CompactaSana ==
    ASSUME Tipos, Sana, NEW h \in Hilos, HastaAlDia(h), CompactaUno(h)
    PROVE  Sana' /\ HastaAlDia(h)'
<1>1. PICK s \in PorMover(h) :
        /\ \A t \in PorMover(h) : s.pos <= t.pos
        /\ segs' = (segs \ {s}) \cup {[s EXCEPT !.pos = hilo[h].hasta]}
        /\ hilo' = [hilo EXCEPT ![h].hasta = Siguiente(s, hilo[h].hasta)]
  BY DEF CompactaUno
<1>2. PICK m \in Segmento :
        /\ m = [s EXCEPT !.pos = hilo[h].hasta]
        /\ m.pos = hilo[h].hasta /\ FinDe(m) = hilo[h].hasta + s.size
  BY Mudado
<1>3. segs' = (segs \ {s}) \cup {m}
  BY <1>1, <1>2
<1>4. /\ hilo[h].hasta \in Nat /\ s.size \in Nat \ {0} /\ segs \subseteq Segmento
      /\ \A y \in segs : y.pos \in Nat /\ FinDe(y) \in Nat
  BY AdentroTipo DEF Tipos, TipoTabla, PorMover, Segmento, FinDe
<1>5. \A y \in segs \ {s} : \/ y.pos < hilo[h].hasta /\ FinDe(y) <= hilo[h].hasta
                            \/ y.pos >= hilo[h].hasta + s.size
  BY <1>1, Vecinos DEF CompactaUno
<1>6. \A y \in segs \ {s} : ~ SeSolapan(y, m) /\ ~ SeSolapan(m, y)
  <2> SUFFICES ASSUME NEW y \in segs \ {s}
               PROVE  ~ SeSolapan(y, m) /\ ~ SeSolapan(m, y)
    OBVIOUS
  <2>1. FinDe(y) <= m.pos \/ FinDe(m) <= y.pos
    BY <1>2, <1>4, <1>5
  <2>2. QED
    BY <1>4, <2>1, Apartados
<1>7. Sana'
  BY <1>3, <1>6 DEF Sana
<1>8. hilo'[h].hasta = hilo[h].hasta + s.size
  BY <1>1 DEF Siguiente, Tipos, TipoHilos, Puesto
<1>9. \A y \in segs' : y.pos < hilo[h].hasta + s.size => FinDe(y) <= hilo[h].hasta + s.size
  <2>1. ASSUME NEW y \in segs \ {s}, y.pos < hilo[h].hasta + s.size
        PROVE  FinDe(y) <= hilo[h].hasta + s.size
    <3>1. FinDe(y) <= hilo[h].hasta
      BY <1>4, <1>5, <2>1
    <3>2. QED
      BY <1>4, <3>1
  <2>2. FinDe(m) <= hilo[h].hasta + s.size
    BY <1>2, <1>4
  <2>3. QED
    BY <1>3, <2>1, <2>2
<1>10. HastaAlDia(h)'
  BY <1>8, <1>9 DEF HastaAlDia, FinDe
<1>11. QED
  BY <1>7, <1>10

\* Every step keeps memory sane while the spaces and the ends in use are right.
LEMMA SanaPaso ==
    ASSUME Tipos, Next, Sana, \A h \in Hilos : LibresAlDia(h) /\ HastaAlDia(h)
    PROVE  Sana'
<1>1. CASE segs' = segs
  BY <1>1 DEF Sana
<1>2. ASSUME NEW h \in Hilos, Continua(h)
      PROVE  Sana'
  <2>1. CASE Crea(h)
    BY <2>1, CreaSana
  <2>2. CASE CompactaUno(h)
    BY <2>2, CompactaSana
  <2>3. CASE Destruye(h)
    BY <2>3 DEF Destruye, Sana
  <2>4. CASE Accede(h) \/ Compactado(h)
    BY <1>1, <2>4 DEF Accede, Falla, Compactado, tabla
  <2>5. QED
    BY <1>2, <2>1, <2>2, <2>3, <2>4 DEF Continua, Sirve
<1>3. QED
  BY <1>1, <1>2, PasoHilos, IniciaHilo DEF Ajeno, Tipos

\* A thread that is inside an operation and can change the table.
LEMMA QuienCambia ==
    ASSUME Tipos, NEW h \in Hilos, Adentro(h),
           hilo[h].pc = "compacta" \/ hilo[h].ped.op \in {"crear", "destruir"}
    PROVE  h \in {Plp, Consola}
<1>1. PedidoBien(h, hilo[h].ped) /\ (hilo[h].pc = "compacta" => hilo[h].ped.op \in {"crear", "compactar"})
  BY AdentroTipo DEF Tipos, TipoHilos
<1>2. QED
  BY <1>1 DEF PedidoBien

\* What an operation knows of the table stays true.
LEMMA AlDiaPaso ==
    ASSUME Tipos, Next, Sana, Solos, \A h \in Hilos : LibresAlDia(h) /\ HastaAlDia(h)
    PROVE  \A h \in Hilos : LibresAlDia(h)' /\ HastaAlDia(h)'
<1> USE HilosDistintos
<1>1. ASSUME NEW g \in Hilos, segs' = segs, hilo'[g] = hilo[g]
      PROVE  LibresAlDia(g)' /\ HastaAlDia(g)'
  BY <1>1 DEF LibresAlDia, HastaAlDia
<1>2. ASSUME NEW g \in Hilos, ~ Adentro(g)'
      PROVE  LibresAlDia(g)' /\ HastaAlDia(g)'
  BY <1>2 DEF LibresAlDia, HastaAlDia, Adentro
<1>3. ASSUME NEW g \in Hilos, hilo'[g].hasta = 0,
             hilo'[g].pc \in {"duerme", "reintenta"} /\ hilo'[g].ped.op = "crear"
                => hilo'[g].libres = EspaciosLibres(segs')
      PROVE  LibresAlDia(g)' /\ HastaAlDia(g)'
  <2>1. \A z \in segs' : z.pos \in Nat
    BY TablaPaso DEF TipoTabla, Segmento
  <2>2. QED
    BY <1>3, <2>1 DEF LibresAlDia, HastaAlDia
<1>4. ASSUME NEW h \in Hilos, NEW q, Inicia(h, q), NEW g \in Hilos
      PROVE  LibresAlDia(g)' /\ HastaAlDia(g)'
  BY <1>1, <1>3, <1>4, IniciaHilo DEF Tipos
<1>5. ASSUME NEW h \in Hilos, Continua(h), NEW g \in Hilos
      PROVE  LibresAlDia(g)' /\ HastaAlDia(g)'
  <2>1. CASE g = h /\ Accede(h)
    <3>1. hilo' = hilo \/ hilo'[h].pc = "recv"
      BY <2>1, AccedeHilo DEF Quieto, Tipos, TipoHilos
    <3>2. segs' = segs
      BY <2>1 DEF Accede, Falla, tabla
    <3>3. QED
      BY <1>1, <1>2, <2>1, <3>1, <3>2 DEF Adentro
  <2>2. CASE g = h /\ Crea(h)
    <3>1. hilo'[h].pc = "recv" \/ (hilo'[h].pc = "compacta" /\ hilo'[h].hasta = 0)
      <4>1. hilo \in [Hilos -> Puesto] /\ hilo[h] \in Puesto
        BY DEF Tipos, TipoHilos
      <4>2. CASE hilo' = [hilo EXCEPT ![h].pc = "compacta", ![h].hasta = 0]
        BY <4>1, <4>2 DEF Puesto
      <4>3. CASE hilo' = [hilo EXCEPT ![h] = Quieto("recv")]
        BY <4>1, <4>3 DEF Quieto
      <4>4. QED
        BY <2>2, <4>2, <4>3, CreaHilo
    <3>2. QED
      BY <1>2, <1>3, <2>2, <3>1 DEF Adentro
  <2>3. CASE g = h /\ CompactaUno(h)
    <3>1. HastaAlDia(h)'
      BY <2>3, CompactaSana
    <3>2. hilo'[h].pc = "compacta"
      BY <2>3 DEF CompactaUno, Tipos, TipoHilos, Puesto
    <3>3. QED
      BY <2>3, <3>1, <3>2 DEF LibresAlDia
  <2>4. CASE g = h /\ Compactado(h)
    <3>1. segs' = segs
      BY <2>4 DEF Compactado, tabla
    <3>2. CASE hilo[h].ped.op = "crear"
      <4>1. hilo'[h].hasta = 0 /\ hilo'[h].libres = EspaciosLibres(segs)
        BY <2>4, <3>2 DEF Compactado, Tipos, TipoHilos, Puesto
      <4>2. QED
        BY <1>3, <2>4, <3>1, <4>1
    <3>3. CASE hilo[h].ped.op # "crear"
      <4>1. hilo'[h].pc = "recv"
        BY <2>4, <3>3 DEF Compactado, Sale, Quieto, Tipos, TipoHilos
      <4>2. QED
        BY <1>2, <2>4, <4>1 DEF Adentro
    <3>4. QED
      BY <3>2, <3>3
  <2>5. CASE g = h /\ Destruye(h)
    <3>1. hilo'[h].pc = "recv"
      BY <2>5 DEF Destruye, Sale, Quieto, Tipos, TipoHilos
    <3>2. QED
      BY <1>2, <2>5, <3>1 DEF Adentro
  <2>6. CASE g # h
    <3>1. hilo'[g] = hilo[g]
      BY <1>5, <2>6 DEF Continua
    <3>2. CASE segs' = segs
      BY <1>1, <3>1, <3>2
    <3>3. CASE segs' # segs
      <4>1. Crea(h) \/ CompactaUno(h) \/ Destruye(h)
        BY <1>5, <3>3 DEF Continua, Sirve, Accede, Falla, Compactado, tabla
      <4>2. Adentro(h) /\ h \in {Plp, Consola}
        BY <4>1, QuienCambia DEF Crea, CompactaUno, Destruye, Adentro
      <4>3. ~ (Adentro(g) /\ (hilo[g].pc = "compacta" \/ hilo[g].ped.op = "crear"))
        BY <2>6, <4>2, QuienCambia DEF Solos
      <4>4. QED
        BY <3>1, <4>3 DEF LibresAlDia, HastaAlDia, Adentro
    <3>4. QED
      BY <3>2, <3>3
  <2>7. QED
    BY <1>5, <2>1, <2>2, <2>3, <2>4, <2>5, <2>6 DEF Continua, Sirve
<1>6. ASSUME Ajeno, NEW g \in Hilos
      PROVE  LibresAlDia(g)' /\ HastaAlDia(g)'
  BY <1>1, <1>2, <1>6 DEF Ajeno
<1>7. QED
  BY <1>4, <1>5, <1>6, PasoHilos

\* Every step keeps what holds until the console breaks in.
LEMMA SinConsolaPaso ==
    ASSUME Tipos, Next, SinConsola
    PROVE  SinConsola'
<1> SUFFICES ASSUME "consola" \notin roto'
             PROVE  Sana' /\ Solos' /\ \A h \in Hilos : LibresAlDia(h)' /\ HastaAlDia(h)'
  BY DEF SinConsola, Solos
<1>1. Sana /\ Solos /\ \A h \in Hilos : LibresAlDia(h) /\ HastaAlDia(h)
  BY RotoCrece DEF SinConsola, Solos
<1>2. QED
  BY <1>1, SanaPaso, SolosPaso, AlDiaPaso

-----------------------------------------------------------------------------
(* Connections exclude one another until something is broken into *)

\* A step that is not of an operation leaves the threads inside them alone.
LEMMA PasoFuera ==
    ASSUME Tipos, Next, ~ \E h \in Hilos : Sirve(h), ~ \E c \in Conexiones : Entra(c),
           ~ ConsolaComando
    PROVE  Ajeno
<1>1. \A h \in Hilos : ~ Continua(h)
  BY DEF Continua
<1>2. \A h \in Hilos : \A q \in PedidosDe(h) : ~ Inicia(h, q)
  BY DEF Inicia
<1>3. QED
  BY <1>1, <1>2, PasoHilos

\* An operation that goes on keeps the lock, and the console has none.
LEMMA SirveCandado ==
    ASSUME Tipos, NEW h \in Hilos, Sirve(h)
    PROVE  activo' = activo /\ (Adentro(h)' \/ h = Consola => op_atomica' = op_atomica)
<1>1. activo' = activo
  BY DEF Sirve, Accede, Falla, Crea, CompactaUno, Compactado, Destruye, tabla
<1>2. ASSUME NEW r, Sale(h, r)
      PROVE  ~ Adentro(h)' /\ (h = Consola => op_atomica' = op_atomica)
  <2>1. hilo'[h] = Quieto("recv")
    BY <1>2 DEF Sale, Tipos, TipoHilos
  <2>2. ~ Adentro(h)'
    BY <2>1 DEF Adentro, Quieto
  <2>3. QED
    BY <1>2, <2>2 DEF Sale
<1>3. CASE Accede(h)
  BY <1>1, <1>2, <1>3 DEF Accede, Falla, Copia
<1>4. CASE Crea(h)
  <2>1. NoCreado(h) \/ \E n : Sale(h, Codigo(n))
    <3>1. PICK a \in AlgoritmosDe(h) :
            \/ NoCreado(h)
            \/ \E l \in Elegir(hilo[h].libres, hilo[h].ped.size, a) :
               \E b \in DirInicio(segs, hilo[h].ped.prog, hilo[h].ped.size, Sorteo[hilo[h].ped.k]) :
                  IF b = 0 THEN NoCreado(h) ELSE Sale(h, Codigo(b))
      BY <1>4 DEF Crea
    <3>2. QED
      BY <3>1
  <2>2. QED
    BY <1>1, <1>2, <2>1 DEF NoCreado
<1>5. CASE CompactaUno(h)
  BY <1>1, <1>5 DEF CompactaUno
<1>6. CASE Compactado(h)
  BY <1>1, <1>2, <1>6 DEF Compactado
<1>7. CASE Destruye(h)
  BY <1>1, <1>2, <1>7 DEF Destruye
<1>8. QED
  BY <1>3, <1>4, <1>5, <1>6, <1>7 DEF Sirve

\* Every step keeps op_atomica with one thread at most.
LEMMA ExclusionPaso ==
    ASSUME Tipos, Next, Exclusion
    PROVE  Exclusion'
<1> USE HilosDistintos
<1> DEFINE Unica == \A c, d \in Conexiones : Adentro(c) /\ Adentro(d) => c = d
           Suya(c) == op_atomica.palabra # 0
                      /\ (hilo[c].ped.op \in {"enviar", "solicitar"} => activo = hilo[c].ped.prog)
           Propia == \A c \in Conexiones : Adentro(c) => Suya(c)
<1> SUFFICES ASSUME roto' = {}
             PROVE  Unica' /\ Propia'
  BY DEF Exclusion
<1>1. Unica /\ Propia
  BY RotoCrece DEF Exclusion
<1>2. CASE \E h \in Hilos : Sirve(h)
  <2>1. PICK h \in Hilos : Sirve(h) /\ Continua(h)
    BY <1>2, SirveContinua
  <2>2. \A g \in Hilos : Adentro(g)' => Adentro(g) /\ hilo'[g].ped = hilo[g].ped
    BY <2>1 DEF Continua, Adentro
  <2>3. activo' = activo /\ (Adentro(h)' \/ h = Consola => op_atomica' = op_atomica)
    BY <2>1, SirveCandado
  <2>4. Unica'
    BY <1>1, <2>2
  <2>5. ASSUME NEW c \in Conexiones, Adentro(c)'
        PROVE  Suya(c)'
    <3>1. Adentro(c) /\ hilo'[c].ped = hilo[c].ped /\ Adentro(h)
      BY <2>1, <2>2, <2>5 DEF Continua
    <3>2. h = c \/ h = Consola
      BY <1>1, <3>1
    <3>3. op_atomica' = op_atomica
      BY <2>3, <2>5, <3>2
    <3>4. QED
      BY <1>1, <2>3, <3>1, <3>3
  <2>6. QED
    BY <2>4, <2>5
<1>3. ASSUME NEW h \in Conexiones, Entra(h)
      PROVE  Unica' /\ Propia'
  <2>1. op_atomica.palabra = 0 /\ op_atomica'.palabra # 0 /\ Inicia(h, Head(cola[h]))
        /\ activo' = Activar(Head(cola[h]))
    BY <1>3, CandadoTipo DEF Entra, PideCandado, Inicia, Tipos, TipoProceso
  <2>2. hilo'[h].ped = Head(cola[h]) /\ \A g \in Hilos \ {h} : hilo'[g] = hilo[g]
    BY <2>1, IniciaHilo DEF Tipos
  <2>3. \A c \in Conexiones : Adentro(c)' => c = h
    BY <1>1, <2>1, <2>2 DEF Adentro
  <2>4. Suya(h)'
    BY <2>1, <2>2 DEF Activar
  <2>5. QED
    BY <2>3, <2>4
<1>4. CASE ConsolaComando
  <2>1. PICK q : Inicia(Consola, q)
    BY <1>4, ComandoTipo DEF Inicia
  <2>2. \A c \in Conexiones : hilo'[c] = hilo[c]
    BY <2>1, IniciaHilo DEF Tipos
  <2>3. op_atomica' = op_atomica /\ activo' = activo
    BY <1>4 DEF ConsolaComando, tabla
  <2>4. QED
    BY <1>1, <2>2, <2>3 DEF Adentro
<1>5. CASE ~ (\E h \in Hilos : Sirve(h)) /\ ~ (\E c \in Conexiones : Entra(c)) /\ ~ ConsolaComando
  <2>1. \A g \in Hilos : Adentro(g)' \/ Adentro(g) => hilo'[g] = hilo[g]
    BY <1>5, PasoFuera DEF Ajeno
  <2>2. \A c \in Conexiones : Adentro(c)' => Adentro(c) /\ hilo'[c] = hilo[c]
    BY <2>1 DEF Adentro
  <2>3. CASE op_atomica' = op_atomica /\ activo' = activo
    BY <1>1, <2>2, <2>3
  <2>4. ASSUME NEW c \in Conexiones, HiloArranca(c)
        PROVE  Unica' /\ Propia'
    <3>1. op_atomica.palabra = 0
      BY <2>4 DEF HiloArranca
    <3>2. \A d \in Conexiones : ~ Adentro(d)'
      BY <1>1, <2>2, <3>1
    <3>3. QED
      BY <3>2
  <2>5. ASSUME NEW p \in Programas, ConsolaActivo(p)
        PROVE  Unica' /\ Propia'
    <3>1. \A d \in Conexiones : ~ Adentro(d)
      BY <2>5 DEF ConsolaActivo, RotoAlEntrar
    <3>2. \A d \in Conexiones : ~ Adentro(d)'
      BY <2>2, <3>1
    <3>3. QED
      BY <3>2
  <2>6. (Main \/ Kernel \/ ConsolaConecta \/ ConsolaApaga \/ \E c \in CPUs : Cpu(c))
          => op_atomica' = op_atomica /\ activo' = activo
    BY DEF Main, MainWhile, MainAcepta, Kernel, PlpCreado, PlpEscrito, PlpAtiende, VaciarExit,
           ConsolaConecta, ConsolaApaga, Cpu, CpuToma, CpuPide, CpuRecibe, CpuDevuelve, tabla
  <2>7. \A c \in Conexiones : ClienteConecta(c) => op_atomica' = op_atomica /\ activo' = activo
    BY DEF ClienteConecta, tabla
  <2>8. ASSUME NEW c \in Conexiones, Duerme(c)
        PROVE  Unica' /\ Propia'
    <3>1. op_atomica'.palabra # 0 /\ activo' = activo
      BY <2>8, CandadoTipo DEF Duerme, tabla, Tipos, TipoProceso
    <3>2. QED
      BY <1>1, <2>2, <3>1
  <2>9. QED
    BY <1>5, <2>3, <2>4, <2>5, <2>6, <2>7, <2>8 DEF Next
<1>6. QED
  BY <1>2, <1>3, <1>4, <1>5

-----------------------------------------------------------------------------
(* Each program is in one place *)

\* Every step keeps the turns of the clients.
LEMMA TurnosPaso ==
    ASSUME Tipos, Next, Turnos
    PROVE  Turnos'
<1>1. /\ estado \in [Programas -> Estados] /\ cpu \in [CPUs -> Programas \cup {Nada}]
      /\ plp.pc # "select" => plp.p \in Programas
  BY DEF Tipos, TipoClientes
<1>2. CASE UNCHANGED <<estado, plp, cpu>>
  BY <1>2 DEF Turnos
<1>3. (Main \/ \E c \in Conexiones : ClienteConecta(c) \/ HiloArranca(c) \/ Duerme(c) \/ Entra(c))
        => UNCHANGED <<estado, plp, cpu>>
  BY DEF Main, MainWhile, MainAcepta, ClienteConecta, HiloArranca, Duerme, Entra, PideCandado, clientes
<1>4. (\E h \in Hilos : Sirve(h)) => UNCHANGED <<estado, plp, cpu>>
  BY DEF Sirve, Accede, Falla, Crea, CompactaUno, Compactado, Destruye, clientes
<1>5. (ConsolaComando \/ ConsolaConecta \/ ConsolaApaga \/ \E p \in Programas : ConsolaActivo(p))
        => UNCHANGED <<estado, plp, cpu>>
  BY DEF ConsolaComando, ConsolaConecta, ConsolaApaga, ConsolaActivo, clientes
<1>6. CASE PlpCreado \/ PlpEscrito
  <2>1. plp.pc # "select" /\ cpu' = cpu
    BY <1>6 DEF PlpCreado, PlpEscrito
  <2>2. PICK p \in Programas : p = plp.p /\ estado[p] = "cargando"
    BY <1>1, <2>1 DEF Turnos
  <2>3. Termina(p) \/ (Pregunta(p) /\ estado' = estado)
    BY <1>6, <2>2, PlpCreadoHace, PlpEscritoHace
  <2>4. CASE Termina(p)
    <3>1. plp'.pc = "select" /\ \A q \in Programas \ {p} : estado'[q] = estado[q]
      BY <1>1, <2>4 DEF Termina, PlpPasa
    <3>2. \A c \in CPUs : cpu[c] # Nada => cpu[c] \in Programas \ {p}
      BY <1>1, <2>2 DEF Turnos
    <3>3. QED
      BY <2>1, <3>1, <3>2 DEF Turnos
  <2>5. CASE Pregunta(p) /\ estado' = estado
    BY <2>1, <2>2, <2>5 DEF Turnos, Pregunta
  <2>6. QED
    BY <2>3, <2>4, <2>5
<1>7. ASSUME NEW p \in Programas, PlpAtiende(p)
      PROVE  Turnos'
  <2>1. /\ plp'.p = p /\ estado'[p] = "cargando" /\ cpu' = cpu
        /\ \A q \in Programas \ {p} : estado'[q] = estado[q]
    BY <1>1, <1>7, PlpAtiendeHace DEF Pregunta, PlpAtiende
  <2>2. \A c \in CPUs : cpu[c] # Nada => cpu[c] \in Programas \ {p}
    BY <1>1, <1>7 DEF Turnos, PlpAtiende
  <2>3. QED
    BY <2>1, <2>2 DEF Turnos
<1>8. ASSUME NEW p \in Programas, VaciarExit(p)
      PROVE  Turnos'
  <2>1. /\ plp' = plp /\ cpu' = cpu /\ estado[p] = "saliente"
        /\ \A q \in Programas \ {p} : estado'[q] = estado[q]
    BY <1>1, <1>8 DEF VaciarExit
  <2>2. \A c \in CPUs : cpu[c] # Nada => cpu[c] \in Programas \ {p}
    BY <1>1, <2>1 DEF Turnos
  <2>3. plp.pc # "select" => plp.p \in Programas \ {p}
    BY <1>1, <2>1 DEF Turnos
  <2>4. QED
    BY <2>1, <2>2, <2>3 DEF Turnos
<1>9. ASSUME NEW c \in CPUs, NEW p \in Programas, CpuToma(c, p)
      PROVE  Turnos'
  <2>1. /\ plp' = plp /\ estado[p] = "listo" /\ estado'[p] = "cpu"
        /\ \A q \in Programas \ {p} : estado'[q] = estado[q]
        /\ cpu'[c] = p /\ \A d \in CPUs \ {c} : cpu'[d] = cpu[d]
    BY <1>1, <1>9 DEF CpuToma
  <2>2. \A d \in CPUs : cpu[d] # Nada => cpu[d] \in Programas \ {p}
    BY <1>1, <2>1 DEF Turnos
  <2>3. plp.pc # "select" => plp.p \in Programas \ {p}
    BY <1>1, <2>1 DEF Turnos
  <2>4. QED
    BY <2>1, <2>2, <2>3 DEF Turnos
<1>10. ASSUME NEW c \in CPUs, CpuRecibe(c) \/ CpuDevuelve(c)
       PROVE  Turnos'
  <2>1. CASE cpu' = cpu
    <3>1. estado' = estado /\ plp' = plp
      <4>1. CASE CpuRecibe(c)
        <5>1. CASE resp[c].cod < 0
          <6>1. cpu[c] = Nada
            BY <1>1, <2>1, <4>1, <5>1 DEF CpuRecibe
          <6>2. estado' = [estado EXCEPT ![cpu[c]] = "saliente"] /\ plp' = plp
            BY <4>1, <5>1 DEF CpuRecibe
          <6>3. \A q \in Programas : estado'[q] = estado[q]
            BY <1>1, <6>1, <6>2, DueniosTipo
          <6>4. QED
            BY <1>1, <6>2, <6>3
        <5>2. CASE ~ (resp[c].cod < 0)
          BY <4>1, <5>2 DEF CpuRecibe
        <5>3. QED
          BY <5>1, <5>2
      <4>2. CASE CpuDevuelve(c)
        BY <1>1, <2>1, <4>2 DEF CpuDevuelve
      <4>3. QED
        BY <1>10, <4>1, <4>2
    <3>2. QED
      BY <1>2, <2>1, <3>1
  <2>2. CASE cpu' # cpu
    <3>1. PICK e \in {"listo", "saliente"} : estado' = [estado EXCEPT ![cpu[c]] = e]
      BY <1>10, <2>2 DEF CpuRecibe, CpuDevuelve
    <3>2. plp' = plp /\ cpu' = [cpu EXCEPT ![c] = Nada]
      BY <1>10, <2>2 DEF CpuRecibe, CpuDevuelve
    <3>3. cpu[c] # Nada
      BY <1>1, <2>2, <3>2
    <3>4. PICK p \in Programas : p = cpu[c] /\ estado[p] = "cpu"
      BY <1>1, <3>3 DEF Turnos
    <3>5. \A q \in Programas \ {p} : estado'[q] = estado[q]
      BY <1>1, <3>1, <3>4
    <3>6. cpu'[c] = Nada /\ \A d \in CPUs \ {c} : cpu'[d] = cpu[d] /\ cpu[d] # p
      BY <1>1, <3>2, <3>3, <3>4 DEF Turnos
    <3>7. plp.pc # "select" => plp.p \in Programas \ {p}
      BY <1>1, <3>4 DEF Turnos
    <3>8. \A d \in CPUs \ {c} : cpu[d] # Nada => estado'[cpu[d]] = "cpu"
      BY <1>1, <3>5, <3>6 DEF Turnos
    <3>9. QED
      BY <3>2, <3>5, <3>6, <3>7, <3>8 DEF Turnos
  <2>3. QED
    BY <2>1, <2>2
<1>11. ASSUME NEW c \in CPUs, CpuPide(c)
       PROVE  Turnos'
  BY <1>2, <1>11 DEF CpuPide
<1>12. QED
  BY <1>2, <1>3, <1>4, <1>5, <1>6, <1>7, <1>8, <1>9, <1>10, <1>11 DEF Next, Kernel, Cpu

-----------------------------------------------------------------------------
(* One request at most of the PLP has its answer pending *)

\* What is not of the PLP changes nothing of it.
LEMMA UnPedidoIgual ==
    ASSUME UnPedido, cola'[Plp] = cola[Plp], resp'[Plp] = resp[Plp], plp' = plp, bases' = bases,
           Adentro(Plp)' => Adentro(Plp) /\ hilo'[Plp].ped = hilo[Plp].ped
    PROVE  UnPedido'
<1>1. EnCola' = EnCola
  BY DEF EnCola
<1>2. EnCurso' => EnCurso /\ hilo'[Plp].ped = hilo[Plp].ped
  BY DEF EnCurso
<1>3. \A q : Espera(q)' <=> Espera(q)
  BY DEF Espera
<1>4. QED
  BY <1>1, <1>2, <1>3 DEF UnPedido, Espera

\* It asks when it has nothing pending.
LEMMA UnPedidoPregunta ==
    ASSUME TipoRed, NEW p, Pregunta(p), EnCola = {}, ~ EnCurso, hilo' = hilo, resp'[Plp] = Nada
    PROVE  UnPedido'
<1>1. PICK q \in PedidosDe(Plp) :
        /\ q.op # "destruir"
        /\ q.op = "crear" => plp'.pc = "crea" /\ q.prog = p /\ q.size = Carga[p][plp'.k]
        /\ q.op = "enviar" => plp'.pc = "escribe"
        /\ q.op = "enviar" /\ plp'.k = 1 =>
              q.prog = p /\ q.base = bases'[p][1] /\ q.off = 0 /\ q.tam = Carga[p][1]
        /\ Pedir(Plp, q)
  BY DEF Pregunta
<1>2. /\ cola \in [Conexiones -> Seq(Pedido)] /\ cola[Plp] \in Seq(PedidosDe(Plp))
      /\ Plp \in Conexiones
  BY HilosDistintos DEF TipoRed
<1>3. cola'[Plp] = Append(cola[Plp], q)
  BY <1>1, <1>2 DEF Pedir
<1>4. /\ Len(cola'[Plp]) = Len(cola[Plp]) + 1 /\ cola'[Plp][Len(cola[Plp]) + 1] = q
      /\ \A i \in 1..Len(cola[Plp]) : cola'[Plp][i] = cola[Plp][i]
      /\ Len(cola[Plp]) \in Nat
  BY <1>2, <1>3, AppendProperties, LenProperties
<1>5. \A i \in EnCola' : i = Len(cola[Plp]) + 1
  <2> SUFFICES ASSUME NEW i \in EnCola'
               PROVE  i = Len(cola[Plp]) + 1
    OBVIOUS
  <2>1. i \in 1..Len(cola[Plp]) + 1 /\ cola'[Plp][i].op # "destruir"
    BY <1>4 DEF EnCola
  <2>2. i \notin 1..Len(cola[Plp])
    BY <1>4, <2>1 DEF EnCola
  <2>3. QED
    BY <1>4, <2>1, <2>2
<1>6. plp'.pc # "select" /\ plp'.p = p
  BY DEF Pregunta
<1>7. \A i \in EnCola' : Espera(cola[Plp][i])'
  BY <1>1, <1>4, <1>5, <1>6 DEF Espera
<1>8. ~ EnCurso'
  BY DEF EnCurso, Adentro
<1>9. QED
  BY <1>5, <1>7, <1>8 DEF UnPedido

\* Its thread receives a request.
LEMMA UnPedidoEntra ==
    ASSUME Tipos, UnPedido, Entra(Plp)
    PROVE  UnPedido'
<1> DEFINE q == Head(cola[Plp])
<1> USE HilosDistintos
<1>1. /\ cola[Plp] \in Seq(PedidosDe(Plp)) /\ cola[Plp] # <<>> /\ Plp \in Conexiones /\ Plp \in Hilos
      /\ cola \in [Conexiones -> Seq(Pedido)]
  BY DEF Entra, PideCandado, Tipos, TipoRed
<1>2. cola'[Plp] = Tail(cola[Plp]) /\ resp' = resp /\ plp' = plp /\ bases' = bases
  BY <1>1 DEF Entra, PideCandado, clientes
<1>3. /\ Len(cola'[Plp]) = Len(cola[Plp]) - 1 /\ Len(cola[Plp]) \in Nat \ {0}
      /\ \A i \in 1..Len(cola'[Plp]) : cola'[Plp][i] = cola[Plp][i + 1] /\ i + 1 \in 1..Len(cola[Plp])
      /\ q = cola[Plp][1]
  BY <1>1, <1>2, HeadTailProperties, LenProperties, EmptySeq
<1>4. hilo'[Plp].ped = q
  <2>1. Inicia(Plp, Head(cola[Plp]))
    BY <1>1 DEF Entra, PideCandado, Inicia
  <2>2. QED
    BY <1>1, <2>1, IniciaHilo DEF Tipos
<1>5. \A i \in EnCola' : i \in Nat /\ i + 1 \in EnCola /\ cola'[Plp][i] = cola[Plp][i + 1]
  BY <1>3 DEF EnCola
<1>6. EnCurso' => 1 \in EnCola
  BY <1>3, <1>4 DEF EnCurso, EnCola
<1>7. \A i \in EnCola' : ~ EnCurso'
  <2> SUFFICES ASSUME NEW i \in EnCola', EnCurso'
               PROVE  FALSE
    OBVIOUS
  <2>1. i + 1 \in EnCola /\ 1 \in EnCola /\ i \in 1..Len(cola'[Plp])
    BY <1>5, <1>6 DEF EnCola
  <2>2. QED
    BY <2>1 DEF UnPedido
<1>8. \A i, j \in EnCola' : i = j
  <2> SUFFICES ASSUME NEW i \in EnCola', NEW j \in EnCola'
               PROVE  i = j
    OBVIOUS
  <2>1. i + 1 = j + 1 /\ i \in Nat /\ j \in Nat
    BY <1>5 DEF UnPedido
  <2>2. QED
    BY <2>1
<1>9. \A i \in EnCola' : Espera(cola[Plp][i])' /\ resp'[Plp] = Nada
  <2> SUFFICES ASSUME NEW i \in EnCola'
               PROVE  Espera(cola[Plp][i])' /\ resp'[Plp] = Nada
    OBVIOUS
  <2>1. Espera(cola[Plp][i + 1]) /\ resp[Plp] = Nada /\ cola'[Plp][i] = cola[Plp][i + 1]
    BY <1>5 DEF UnPedido
  <2>2. QED
    BY <1>2, <2>1 DEF Espera
<1>10. EnCurso' => Espera(hilo[Plp].ped)' /\ resp'[Plp] = Nada
  <2> SUFFICES ASSUME EnCurso'
               PROVE  Espera(hilo[Plp].ped)' /\ resp'[Plp] = Nada
    OBVIOUS
  <2>1. Espera(q) /\ resp[Plp] = Nada
    BY <1>3, <1>6 DEF UnPedido
  <2>2. QED
    BY <1>2, <1>4, <2>1 DEF Espera
<1>11. QED
  BY <1>2, <1>7, <1>8, <1>9, <1>10 DEF UnPedido

\* Its thread serves one.
LEMMA UnPedidoSirve ==
    ASSUME Tipos, UnPedido, Sirve(Plp)
    PROVE  UnPedido'
<1> USE HilosDistintos
<1>1. Continua(Plp) /\ Plp \in Hilos
  BY SirveContinua
<1>2. cola' = cola /\ plp' = plp /\ bases' = bases
  BY DEF Sirve, Accede, Falla, Crea, CompactaUno, Compactado, Destruye, clientes
<1>3. Adentro(Plp)' => Adentro(Plp) /\ hilo'[Plp].ped = hilo[Plp].ped
  BY <1>1 DEF Continua
<1>4. CASE resp'[Plp] = resp[Plp]
  BY <1>2, <1>3, <1>4, UnPedidoIgual
<1>5. CASE resp'[Plp] # resp[Plp]
  <2>1. EnCurso
    <3>1. ~ Destruye(Plp) /\ ~ CompactaUno(Plp)
      BY <1>5 DEF Destruye, Sale, CompactaUno
    <3>2. Accede(Plp) => hilo[Plp].ped.op # "destruir"
      BY DEF Accede
    <3>3. Crea(Plp) => hilo[Plp].ped.op # "destruir"
      BY DEF Crea
    <3>4. ~ Compactado(Plp)
      BY <1>5 DEF Compactado, Sale
    <3>5. QED
      BY <1>1, <3>1, <3>2, <3>3, <3>4 DEF Sirve, Continua, EnCurso
  <2>2. EnCola = {} /\ plp.pc # "select"
    BY <2>1 DEF UnPedido, Espera
  <2>3. ~ Adentro(Plp)'
    <3>1. hilo \in [Hilos -> Puesto]
      BY DEF Tipos, TipoHilos
    <3>2. hilo' = [hilo EXCEPT ![Plp] = Quieto("recv")]
      <4>1. Accede(Plp) => hilo' = [hilo EXCEPT ![Plp] = Quieto("recv")]
        BY <1>5 DEF Accede, Falla, Copia, Sale
      <4>2. Crea(Plp) => hilo' = [hilo EXCEPT ![Plp] = Quieto("recv")]
        <5> SUFFICES ASSUME Crea(Plp)
                     PROVE  hilo' = [hilo EXCEPT ![Plp] = Quieto("recv")]
          OBVIOUS
        <5>1. NoCreado(Plp) \/ \E n : Sale(Plp, Codigo(n))
          <6>1. PICK a \in AlgoritmosDe(Plp) :
                  \/ NoCreado(Plp)
                  \/ \E l \in Elegir(hilo[Plp].libres, hilo[Plp].ped.size, a) :
                     \E b \in DirInicio(segs, hilo[Plp].ped.prog, hilo[Plp].ped.size,
                                        Sorteo[hilo[Plp].ped.k]) :
                        IF b = 0 THEN NoCreado(Plp) ELSE Sale(Plp, Codigo(b))
            BY DEF Crea
          <6>2. QED
            BY <6>1
        <5>2. QED
          BY <1>5, <5>1 DEF NoCreado, Sale
      <4>3. Accede(Plp) \/ Crea(Plp)
        BY <1>5 DEF Sirve, CompactaUno, Compactado, Destruye, Sale
      <4>4. QED
        BY <4>1, <4>2, <4>3
    <3>3. QED
      BY <3>1, <3>2 DEF Adentro, Quieto
  <2>4. EnCola' = {} /\ ~ EnCurso' /\ plp'.pc # "select"
    BY <1>2, <2>2, <2>3 DEF EnCola, EnCurso
  <2>5. QED
    BY <2>4 DEF UnPedido
<1>6. QED
  BY <1>4, <1>5

\* Every step keeps one request of each client.
LEMMA UnPedidoPaso ==
    ASSUME Tipos, Next, UnPedido
    PROVE  UnPedido'
<1> USE HilosDistintos
<1>1. /\ cola \in [Conexiones -> Seq(Pedido)] /\ resp \in [Conexiones -> Respuesta \cup {Nada}]
      /\ Plp \in Conexiones /\ Plp \in Hilos
  BY DEF Tipos, TipoRed
<1>2. ASSUME NEW h \in Hilos, Sirve(h)
      PROVE  UnPedido'
  <2>1. CASE h = Plp
    BY <1>2, <2>1, UnPedidoSirve
  <2>2. CASE h # Plp
    <3>1. hilo'[Plp] = hilo[Plp]
      BY <1>1, <1>2, <2>2, SirveContinua DEF Continua
    <3>2. cola' = cola /\ plp' = plp /\ bases' = bases
      BY <1>2 DEF Sirve, Accede, Falla, Crea, CompactaUno, Compactado, Destruye, clientes
    <3>3. resp' = resp \/ \E r \in Respuesta : resp' = [resp EXCEPT ![h] = r]
      BY <1>2, AccedeResponde, CreaResponde DEF Sirve, CompactaUno, Compactado, Destruye, Sale
    <3>4. resp'[Plp] = resp[Plp]
      BY <1>1, <2>2, <3>3
    <3>5. QED
      BY <3>1, <3>2, <3>4, UnPedidoIgual DEF Adentro
  <2>3. QED
    BY <2>1, <2>2
<1>3. ASSUME NEW c \in Conexiones, Entra(c)
      PROVE  UnPedido'
  <2>1. CASE c = Plp
    BY <1>3, <2>1, UnPedidoEntra
  <2>2. CASE c # Plp
    <3>1. hilo'[Plp] = hilo[Plp]
      <4>1. Inicia(c, Head(cola[c]))
        BY <1>3 DEF Entra, PideCandado, Inicia
      <4>2. QED
        BY <1>1, <2>2, <4>1, IniciaHilo DEF Tipos
    <3>2. cola'[Plp] = cola[Plp] /\ plp' = plp /\ resp' = resp /\ bases' = bases
      BY <1>1, <1>3, <2>2 DEF Entra, PideCandado, clientes
    <3>3. QED
      BY <3>1, <3>2, UnPedidoIgual DEF Adentro
  <2>3. QED
    BY <2>1, <2>2
<1>4. CASE ConsolaComando
  <2>1. PICK q : Inicia(Consola, q)
    BY <1>4, ComandoTipo DEF Inicia
  <2>2. hilo'[Plp] = hilo[Plp]
    BY <1>1, <2>1, IniciaHilo DEF Tipos
  <2>3. cola' = cola /\ resp' = resp /\ plp' = plp /\ bases' = bases
    BY <1>4 DEF ConsolaComando, clientes
  <2>4. QED
    BY <2>2, <2>3, UnPedidoIgual DEF Adentro
<1>5. CASE PlpCreado \/ PlpEscrito
  <2>1. resp[Plp] # Nada /\ plp.pc # "select" /\ hilo' = hilo /\ resp'[Plp] = Nada
    BY <1>1, <1>5 DEF PlpCreado, PlpEscrito
  <2>2. EnCola = {} /\ ~ EnCurso
    BY <2>1 DEF UnPedido
  <2>3. PICK p \in Programas : p = plp.p
    BY <2>1 DEF Tipos, TipoClientes
  <2>4. CASE Termina(p)
    <3>1. EnCola' = {} /\ ~ EnCurso'
      BY <2>1, <2>2, <2>4 DEF Termina, EnCola, EnCurso, Adentro
    <3>2. QED
      BY <2>1, <3>1 DEF UnPedido
  <2>5. CASE Pregunta(p)
    BY <2>1, <2>2, <2>5, UnPedidoPregunta DEF Tipos
  <2>6. QED
    BY <1>5, <2>3, <2>4, <2>5, PlpCreadoHace, PlpEscritoHace
<1>6. ASSUME NEW p \in Programas, PlpAtiende(p)
      PROVE  UnPedido'
  <2>1. plp.pc = "select" /\ hilo' = hilo /\ resp' = resp
    BY <1>6 DEF PlpAtiende
  <2>2. EnCola = {} /\ ~ EnCurso /\ resp[Plp] = Nada
    BY <2>1 DEF UnPedido, Espera
  <2>3. QED
    BY <1>6, <2>1, <2>2, PlpAtiendeHace, UnPedidoPregunta DEF Tipos
<1>7. ASSUME NEW p \in Programas, VaciarExit(p)
      PROVE  UnPedido'
  <2> DEFINE q == [op |-> "destruir", prog |-> p]
  <2>1. cola'[Plp] = Append(cola[Plp], q) /\ hilo' = hilo /\ resp' = resp /\ plp' = plp /\ bases' = bases
    BY <1>1, <1>7 DEF VaciarExit, Pedir
  <2>2. cola[Plp] \in Seq(Pedido) /\ q \in Pedido
    <3>1. q \in PDestruir(Programas)
      BY DueniosTipo DEF PDestruir
    <3>2. q \in PedidosDe(Plp)
      BY <3>1 DEF PedidosDe
    <3>3. QED
      BY <1>1, <3>2 DEF Pedido
  <2>3. q.op = "destruir"
    OBVIOUS
  <2> HIDE DEF q
  <2>4. /\ Len(cola'[Plp]) = Len(cola[Plp]) + 1 /\ cola'[Plp][Len(cola[Plp]) + 1] = q
        /\ \A i \in 1..Len(cola[Plp]) : cola'[Plp][i] = cola[Plp][i]
        /\ Len(cola[Plp]) \in Nat
    BY <2>1, <2>2, AppendProperties, LenProperties
  <2>5. \A i \in EnCola' : i \in EnCola /\ cola'[Plp][i] = cola[Plp][i]
    <3> SUFFICES ASSUME NEW i \in EnCola'
                 PROVE  i \in EnCola /\ cola'[Plp][i] = cola[Plp][i]
      OBVIOUS
    <3>1. i \in 1..Len(cola[Plp]) + 1 /\ cola'[Plp][i].op # "destruir"
      BY <2>4 DEF EnCola
    <3>2. i # Len(cola[Plp]) + 1
      BY <2>3, <2>4, <3>1
    <3>3. i \in 1..Len(cola[Plp])
      BY <2>4, <3>1, <3>2
    <3>4. QED
      BY <2>4, <3>1, <3>3 DEF EnCola
  <2>6. EnCurso' <=> EnCurso
    BY <2>1 DEF EnCurso, Adentro
  <2>7. \A r : Espera(r)' <=> Espera(r)
    BY <2>1 DEF Espera
  <2>8. \A i \in EnCola' : Espera(cola[Plp][i])' /\ ~ EnCurso' /\ resp'[Plp] = Nada
    BY <2>1, <2>5, <2>6, <2>7 DEF UnPedido
  <2>9. EnCurso' => Espera(hilo[Plp].ped)' /\ resp'[Plp] = Nada
    BY <2>1, <2>6, <2>7 DEF UnPedido
  <2>10. QED
    BY <2>1, <2>5, <2>8, <2>9 DEF UnPedido
<1>8. ASSUME hilo'[Plp] = hilo[Plp] \/ Ajeno, cola'[Plp] = cola[Plp], plp' = plp, bases' = bases,
             resp'[Plp] = resp[Plp]
      PROVE  UnPedido'
  BY <1>1, <1>8, UnPedidoIgual DEF Ajeno, Adentro
<1>9. ASSUME NEW c \in CPUs, Cpu(c)
      PROVE  UnPedido'
  <2>1. hilo' = hilo /\ plp' = plp /\ bases' = bases
    BY <1>9 DEF Cpu, CpuToma, CpuPide, CpuRecibe, CpuDevuelve
  <2>2. cola'[Plp] = cola[Plp]
    BY <1>1, <1>9, CpuPideHace DEF Cpu, CpuToma, CpuRecibe, CpuDevuelve, Pedir
  <2>3. resp'[Plp] = resp[Plp]
    BY <1>1, <1>9 DEF Cpu, CpuToma, CpuPide, CpuRecibe, CpuDevuelve
  <2>4. QED
    BY <1>8, <2>1, <2>2, <2>3
<1>10. CASE ~ (\E h \in Hilos : Sirve(h)) /\ ~ (\E c \in Conexiones : Entra(c)) /\ ~ ConsolaComando
  <2>1. Ajeno
    BY <1>10, PasoFuera
  <2>2. (Main \/ (\E c \in Conexiones : ClienteConecta(c) \/ HiloArranca(c) \/ Duerme(c)) \/ ConsolaConecta
            \/ ConsolaApaga \/ \E p \in Programas : ConsolaActivo(p))
          => cola' = cola /\ resp' = resp /\ plp' = plp /\ bases' = bases
    BY DEF Main, MainWhile, MainAcepta, ClienteConecta, HiloArranca, Duerme, ConsolaConecta, ConsolaApaga,
           ConsolaActivo, clientes
  <2>3. QED
    BY <1>5, <1>6, <1>7, <1>8, <1>9, <1>10, <2>1, <2>2 DEF Next, Kernel
<1>11. QED
  BY <1>2, <1>3, <1>4, <1>10

-----------------------------------------------------------------------------
(* A program that ended leaves nothing behind *)

\* Only vaciar_exit ends a program.
LEMMA QuienTermina ==
    ASSUME Tipos, Next, Turnos, NEW p \in Programas, estado'[p] = "fin", estado[p] # "fin"
    PROVE  VaciarExit(p)
<1>1. estado \in [Programas -> Estados] /\ estado' # estado
  BY DEF Tipos, TipoClientes
<1>2. ~ Main /\ ~ \E c \in Conexiones : ClienteConecta(c) \/ HiloArranca(c) \/ Duerme(c) \/ Entra(c)
  BY <1>1 DEF Main, MainWhile, MainAcepta, ClienteConecta, HiloArranca, Duerme, Entra, PideCandado, clientes
<1>3. ~ \E h \in Hilos : Sirve(h)
  BY <1>1 DEF Sirve, Accede, Falla, Crea, CompactaUno, Compactado, Destruye, clientes
<1>4. ~ ConsolaComando /\ ~ ConsolaConecta /\ ~ ConsolaApaga /\ ~ \E q \in Programas : ConsolaActivo(q)
  BY <1>1 DEF ConsolaComando, ConsolaConecta, ConsolaApaga, ConsolaActivo, clientes
<1>5. ~ PlpCreado /\ ~ PlpEscrito
  <2> SUFFICES ASSUME PlpCreado \/ PlpEscrito
               PROVE  FALSE
    OBVIOUS
  <2>1. Termina(plp.p)
    BY <1>1, PlpCreadoHace, PlpEscritoHace
  <2>2. PICK e \in {"listo", "saliente"} : estado' = [estado EXCEPT ![plp.p] = e]
    BY <2>1 DEF Termina
  <2>3. QED
    BY <1>1, <2>2
<1>6. \A q \in Programas : ~ PlpAtiende(q)
  BY <1>1 DEF PlpAtiende
<1>7. \A c \in CPUs : ~ Cpu(c)
  BY <1>1 DEF Cpu, CpuToma, CpuPide, CpuRecibe, CpuDevuelve
<1>8. PICK q \in Programas : VaciarExit(q)
  BY <1>2, <1>3, <1>4, <1>5, <1>6, <1>7 DEF Next, Kernel
<1>9. q = p
  BY <1>1, <1>8 DEF VaciarExit
<1>10. QED
  BY <1>8, <1>9

\* No operation creates a segment of a program that has been loaded.
LEMMA SinSegmentosNuevos ==
    ASSUME Tipos, Next, UnPedido, Turnos, NEW p \in Programas, estado[p] = "fin", De(p) = {}
    PROVE  De(p)' = {}
<1>1. CASE segs' = segs
  BY <1>1 DEF De
<1>2. ASSUME NEW h \in Hilos, Sirve(h)
      PROVE  De(p)' = {}
  <2>1. CASE Accede(h) \/ Compactado(h)
    BY <1>1, <2>1 DEF Accede, Falla, Compactado, tabla
  <2>2. CASE Destruye(h)
    BY <2>2 DEF Destruye, De
  <2>3. CASE CompactaUno(h)
    <3>1. PICK s \in PorMover(h) : segs' = (segs \ {s}) \cup {[s EXCEPT !.pos = hilo[h].hasta]}
      BY <2>3 DEF CompactaUno
    <3>2. [s EXCEPT !.pos = hilo[h].hasta].prog = s.prog /\ s \in segs
      BY Mudado DEF PorMover
    <3>3. QED
      BY <3>1, <3>2 DEF De
  <2>4. CASE Crea(h)
    <3>1. Adentro(h) /\ hilo[h].ped.op = "crear"
      BY <2>4 DEF Crea, Adentro
    <3>2. (h = Plp /\ hilo[h].ped.prog \in Programas) \/ (h = Consola /\ hilo[h].ped.prog = Operador)
      BY <3>1, AdentroTipo DEF PedidoBien, Tipos
    <3>3. hilo[h].ped.prog # p
      <4>1. CASE h = Consola
        BY <3>2, <4>1, DueniosTipo, HilosDistintos
      <4>2. CASE h = Plp
        <5>1. EnCurso
          BY <3>1, <4>2 DEF EnCurso
        <5>2. plp.pc # "select" /\ hilo[Plp].ped.prog = plp.p
          BY <3>1, <4>2, <5>1 DEF UnPedido, Espera
        <5>3. QED
          BY <4>2, <5>2 DEF Turnos
      <4>3. QED
        BY <3>2, <4>1, <4>2
    <3>4. CASE segs' # segs
      <4>1. PICK z : segs' = segs \cup {z} /\ z.prog = hilo[h].ped.prog
        <5>1. PICK l \in hilo[h].libres, b \in 0..Palabra - TamMem :
                segs' = segs \cup {[prog |-> hilo[h].ped.prog, inicio |-> b,
                                    size |-> hilo[h].ped.size, pos |-> l.dir]}
          BY <2>4, <3>4, Creado
        <5>2. PICK z : z = [prog |-> hilo[h].ped.prog, inicio |-> b,
                            size |-> hilo[h].ped.size, pos |-> l.dir]
          OBVIOUS
        <5>3. z.prog = hilo[h].ped.prog
          BY <5>2
        <5>4. segs' = segs \cup {z}
          BY <5>1, <5>2
        <5>5. QED
          BY <5>3, <5>4
      <4>2. QED
        BY <3>3, <4>1 DEF De
    <3>5. QED
      BY <1>1, <3>4
  <2>5. QED
    BY <1>2, <2>1, <2>2, <2>3, <2>4 DEF Sirve
<1>3. CASE ~ \E h \in Hilos : Sirve(h)
  <2>1. ASSUME NEW h \in Hilos, NEW q, Inicia(h, q)
        PROVE  segs' = segs
    BY <2>1, IniciaHilo DEF Tipos
  <2>2. \A h \in Hilos : ~ Continua(h)
    BY <1>3 DEF Continua
  <2>3. QED
    BY <1>1, <2>1, <2>2, PasoHilos DEF Ajeno
<1>4. QED
  BY <1>2, <1>3

\* The request to destroy is not lost on its way, and destroys.
LEMMA PorDestruirPaso ==
    ASSUME Tipos, Next, NEW p \in Programas, PorDestruir(p)
    PROVE  PorDestruir(p)' \/ De(p)' = {}
<1> USE HilosDistintos
<1>1. /\ cola \in [Conexiones -> Seq(Pedido)] /\ Plp \in Conexiones /\ Plp \in Hilos
      /\ cola[Plp] \in Seq(PedidosDe(Plp))
  BY DEF Tipos, TipoRed
<1>2. CASE Adentro(Plp) /\ hilo[Plp].ped.op = "destruir" /\ hilo[Plp].ped.prog = p
  <2>1. CASE Sirve(Plp)
    <3>1. ~ Accede(Plp) /\ ~ Crea(Plp)
      BY <1>2 DEF Accede, Crea
    <3>2. ~ CompactaUno(Plp) /\ ~ Compactado(Plp)
      BY <1>1, <1>2 DEF CompactaUno, Compactado, Tipos, TipoHilos
    <3>3. Destruye(Plp)
      BY <2>1, <3>1, <3>2 DEF Sirve
    <3>4. QED
      BY <1>2, <3>3 DEF Destruye, Marcados, De
  <2>2. CASE hilo'[Plp] = hilo[Plp]
    BY <1>2, <2>2 DEF PorDestruir, Adentro
  <2>3. ASSUME NEW h \in Hilos, Continua(h)
        PROVE  Sirve(Plp) \/ hilo'[Plp] = hilo[Plp]
    BY <1>1, <2>3 DEF Continua
  <2>4. ASSUME NEW h \in Hilos, NEW q, Inicia(h, q)
        PROVE  hilo'[Plp] = hilo[Plp]
    BY <1>1, <1>2, <2>4, IniciaHilo DEF Tipos
  <2>5. Ajeno => hilo'[Plp] = hilo[Plp]
    BY <1>1, <1>2 DEF Ajeno
  <2>6. QED
    BY <2>1, <2>2, <2>3, <2>4, <2>5, PasoHilos
<1>3. ASSUME NEW i \in 1..Len(cola[Plp]), cola[Plp][i].op = "destruir", cola[Plp][i].prog = p
      PROVE  PorDestruir(p)'
  <2>1. CASE cola'[Plp] = cola[Plp]
    BY <1>3, <2>1 DEF PorDestruir
  <2>2. ASSUME NEW q, q \in Pedido, Pedir(Plp, q)
        PROVE  PorDestruir(p)'
    <3>1. cola'[Plp] = Append(cola[Plp], q) /\ cola[Plp] \in Seq(Pedido)
      BY <1>1, <2>2 DEF Pedir
    <3>2. i \in 1..Len(cola'[Plp]) /\ cola'[Plp][i] = cola[Plp][i]
      BY <2>2, <3>1, AppendProperties, LenProperties
    <3>3. QED
      BY <1>3, <3>2 DEF PorDestruir
  <2>3. CASE Entra(Plp)
    <3>1. cola'[Plp] = Tail(cola[Plp]) /\ cola[Plp] # <<>>
      BY <1>1, <2>3 DEF Entra, PideCandado
    <3>2. CASE i = 1
      <4>1. Inicia(Plp, Head(cola[Plp]))
        BY <1>1, <2>3 DEF Entra, PideCandado, Inicia
      <4>2. Head(cola[Plp]) = cola[Plp][i]
        BY <1>1, <3>1, <3>2, HeadTailProperties
      <4>3. Adentro(Plp)' /\ hilo'[Plp].ped = cola[Plp][i]
        BY <1>1, <4>1, <4>2, IniciaHilo DEF Adentro, Tipos
      <4>4. QED
        BY <1>3, <4>3 DEF PorDestruir
    <3>3. CASE i # 1
      <4>1. i - 1 \in 1..Len(cola'[Plp]) /\ cola'[Plp][i - 1] = cola[Plp][i]
        BY <1>1, <3>1, <3>3, HeadTailProperties, LenProperties
      <4>2. QED
        BY <1>3, <4>1 DEF PorDestruir
    <3>4. QED
      BY <3>2, <3>3
  <2>4. ASSUME NEW c \in Conexiones, ClienteConecta(c) \/ HiloArranca(c) \/ Duerme(c) \/ Entra(c)
        PROVE  PorDestruir(p)'
    <3>1. c # Plp \/ Entra(Plp) \/ cola' = cola
      BY <2>4 DEF ClienteConecta, HiloArranca, Duerme
    <3>2. c # Plp => cola'[Plp] = cola[Plp]
      BY <1>1, <2>4 DEF ClienteConecta, HiloArranca, Duerme, Entra, PideCandado
    <3>3. QED
      BY <2>1, <2>3, <3>1, <3>2
  <2>5. (Main \/ (\E h \in Hilos : Sirve(h)) \/ ConsolaComando \/ ConsolaConecta \/ ConsolaApaga
          \/ \E q \in Programas : ConsolaActivo(q)) => cola' = cola
    BY DEF Main, MainWhile, MainAcepta, Sirve, Accede, Falla, Crea, CompactaUno, Compactado, Destruye,
           ConsolaComando, ConsolaConecta, ConsolaApaga, ConsolaActivo
  <2>6. ASSUME Kernel
        PROVE  cola' = cola \/ \E q \in Pedido : Pedir(Plp, q)
    <3>1. PedidosDe(Plp) \subseteq Pedido
      BY <1>1 DEF Pedido
    <3>2. CASE PlpCreado \/ PlpEscrito
      BY <3>1, <3>2, PlpCreadoHace, PlpEscritoHace DEF Termina, Pregunta
    <3>3. ASSUME NEW q \in Programas, PlpAtiende(q)
          PROVE  \E r \in Pedido : Pedir(Plp, r)
      BY <3>1, <3>3, PlpAtiendeHace DEF Pregunta
    <3>4. ASSUME NEW q \in Programas, VaciarExit(q)
          PROVE  \E r \in Pedido : Pedir(Plp, r)
      <4>1. [op |-> "destruir", prog |-> q] \in PDestruir(Programas)
        BY DueniosTipo DEF PDestruir
      <4>2. [op |-> "destruir", prog |-> q] \in Pedido
        BY <3>1, <4>1 DEF PedidosDe
      <4>3. QED
        BY <3>4, <4>2 DEF VaciarExit
    <3>5. QED
      BY <2>6, <3>2, <3>3, <3>4 DEF Kernel
  <2>7. ASSUME NEW c \in CPUs, Cpu(c)
        PROVE  cola'[Plp] = cola[Plp]
    BY <1>1, <2>7, CpuPideHace DEF Cpu, CpuToma, CpuRecibe, CpuDevuelve, Pedir
  <2>8. QED
    BY <2>1, <2>2, <2>4, <2>5, <2>6, <2>7 DEF Next
<1>4. QED
  BY <1>2, <1>3 DEF PorDestruir

\* Every step keeps a program that ended without segments.
LEMMA BajasPaso ==
    ASSUME Tipos, Next, UnPedido, Turnos, Bajas
    PROVE  Bajas'
<1> SUFFICES ASSUME NEW p \in Programas, estado'[p] = "fin"
             PROVE  PorDestruir(p)' \/ De(p)' = {}
  BY DEF Bajas
<1>1. CASE estado[p] = "fin"
  BY <1>1, PorDestruirPaso, SinSegmentosNuevos DEF Bajas
<1>2. CASE estado[p] # "fin"
  <2> DEFINE q == [op |-> "destruir", prog |-> p]
  <2>1. VaciarExit(p)
    BY <1>2, QuienTermina
  <2>2. cola'[Plp] = Append(cola[Plp], q) /\ cola[Plp] \in Seq(Pedido)
    BY <2>1, HilosDistintos DEF VaciarExit, Pedir, Tipos, TipoRed
  <2>3. q.op = "destruir" /\ q.prog = p
    OBVIOUS
  <2>4. q \in Pedido
    <3>1. q \in PDestruir(Programas)
      BY DueniosTipo DEF PDestruir
    <3>2. QED
      BY <3>1, HilosDistintos DEF PedidosDe, Pedido
  <2> HIDE DEF q
  <2>5. Len(cola[Plp]) + 1 \in 1..Len(cola'[Plp]) /\ cola'[Plp][Len(cola[Plp]) + 1] = q
    BY <2>2, <2>4, AppendProperties, LenProperties
  <2>6. QED
    BY <2>3, <2>5 DEF PorDestruir
<1>3. QED
  BY <1>1, <1>2

-----------------------------------------------------------------------------
(* The theorems *)

\* Memory is empty, and no one has asked for anything.
LEMMA UmvInicial ==
    ASSUME Init
    PROVE  InvUMV
<1> USE HilosDistintos
<1>1. \A h \in Hilos : hilo[h].pc \in {"recv", "afuera"} /\ ~ Adentro(h)
  BY DEF Init, Quieto, Adentro
<1>2. TipoTabla
  BY SupuestosSegmentos DEF Init, TipoTabla
<1>3. TipoProceso
  <2>1. MaxUsos \in Nat
    BY SupuestosUMV
  <2>2. 0 \in 0..MaxUsos
    BY <2>1
  <2>3. op_atomica \in Candado
    BY DEF Init, Candado
  <2>4. noTerminar \in BOOLEAN /\ caida \in BOOLEAN /\ usos = 0 /\ roto = {}
    BY DEF Init
  <2>5. QED
    BY <2>2, <2>3, <2>4 DEF TipoProceso
<1>4. TipoHilos
  <2>1. Quieto("recv") \in Puesto /\ Quieto("afuera") \in Puesto
    BY QuietoTipo DEF Pcs
  <2>2. hilo \in [Hilos -> Puesto]
    BY <2>1 DEF Init
  <2>3. QED
    BY <1>1, <2>2 DEF TipoHilos
<1>5. TipoRed
  <2>1. \A S : <<>> \in Seq(S)
    BY EmptySeq
  <2>2. /\ cola = [c \in Conexiones |-> <<>>] /\ resp = [c \in Conexiones |-> Nada]
    BY DEF Init
  <2>3. cola \in [Conexiones -> Seq(Pedido)] /\ \A c \in Conexiones : cola[c] \in Seq(PedidosDe(c))
    BY <2>1, <2>2
  <2>4. QED
    BY <2>2, <2>3 DEF TipoRed
<1>6. TipoClientes
  <2>1. estado \in [Programas -> Estados] /\ cpu \in [CPUs -> Programas \cup {Nada}]
    BY DEF Init, Estados
  <2>2. plp \in [pc : PcsPlp, p : Programas \cup {Nada}, k : 0..4, i : Nat] /\ plp.pc = "select"
    BY DEF Init, PcsPlp
  <2>3. bases \in [Programas -> [1..4 -> Int]]
    BY DEF Init
  <2>4. QED
    BY <2>1, <2>2, <2>3 DEF TipoClientes
<1>7. SinConsola
  <2>1. Sana
    BY DEF Init, Sana
  <2>2. \A h \in Hilos : LibresAlDia(h) /\ HastaAlDia(h)
    BY <1>1 DEF LibresAlDia, HastaAlDia
  <2>3. QED
    BY <1>1, <2>1, <2>2 DEF SinConsola
<1>8. Exclusion
  BY <1>1 DEF Exclusion
<1>9. UnPedido
  <2>1. cola[Plp] = <<>> /\ resp[Plp] = Nada
    BY DEF Init
  <2>2. EnCola = {}
    BY <2>1 DEF EnCola
  <2>3. ~ EnCurso
    BY <1>1 DEF EnCurso
  <2>4. QED
    BY <2>1, <2>2, <2>3 DEF UnPedido
<1>10. Turnos
  BY DEF Init, Turnos
<1>11. Bajas
  BY DEF Init, Bajas
<1>12. QED
  BY <1>2, <1>3, <1>4, <1>5, <1>6, <1>7, <1>8, <1>9, <1>10, <1>11 DEF InvUMV, Tipos

\* The invariant is inductive.
LEMMA UmvPaso ==
    ASSUME InvUMV, [Next]_vars
    PROVE  InvUMV'
<1>1. CASE Next
  BY <1>1, TiposPaso, SinConsolaPaso, ExclusionPaso, UnPedidoPaso, TurnosPaso, BajasPaso DEF InvUMV
<1>2. CASE UNCHANGED vars
  <2> USE <1>2 DEF vars, tabla, proceso, clientes
  <2>1. Tipos'
    <3>1. \A h \in Hilos : Adentro(h)' <=> Adentro(h)
      BY DEF Adentro
    <3>2. TipoTabla' /\ TipoProceso' /\ TipoRed' /\ TipoClientes'
      BY DEF InvUMV, Tipos, TipoTabla, TipoProceso, TipoRed, TipoClientes
    <3>3. TipoHilos'
      BY <3>1 DEF InvUMV, Tipos, TipoHilos
    <3>4. QED
      BY <3>2, <3>3 DEF Tipos
  <2>2. SinConsola'
    BY DEF InvUMV, SinConsola, Sana, Adentro, LibresAlDia, HastaAlDia
  <2>3. Exclusion'
    BY DEF InvUMV, Exclusion, Adentro
  <2>4. UnPedido'
    BY UnPedidoIgual DEF InvUMV, Adentro
  <2>5. Turnos'
    BY DEF InvUMV, Turnos
  <2>6. Bajas'
    BY DEF InvUMV, Bajas, PorDestruir, De, Adentro
  <2>7. QED
    BY <2>1, <2>2, <2>3, <2>4, <2>5, <2>6 DEF InvUMV
<1>3. QED
  BY <1>1, <1>2

\* It holds in every state of every behaviour.
LEMMA UmvSiempre == Spec => []InvUMV
BY UmvInicial, UmvPaso, PTL DEF Spec

\* No segment ever leaves main memory, and what memory, the active process and
\* the flags hold is of their kind, whoever breaks into an operation.
THEOREM TipoUMVCorrecto == Spec => []TypeOK
<1>1. InvUMV => TypeOK
  <2> SUFFICES ASSUME InvUMV
               PROVE  TypeOK
    OBVIOUS
  <2>1. \A s \in segs :
          /\ s.prog \in Programas \cup {Operador} /\ s.inicio \in 0..Palabra - 1
          /\ s.size > 0 /\ s.pos >= 0 /\ FinDe(s) <= TamMem
    <3> SUFFICES ASSUME NEW s \in segs
                 PROVE  /\ s.prog \in Programas \cup {Operador} /\ s.inicio \in 0..Palabra - 1
                        /\ s.size > 0 /\ s.pos >= 0 /\ FinDe(s) <= TamMem
      OBVIOUS
    <3>1. s \in Segmento
      BY DEF InvUMV, Tipos, TipoTabla
    <3>2. QED
      BY <3>1, SupuestosSegmentos DEF Segmento, EnMemoria, FinDe, Duenio
  <2>2. activo \in Programas \cup {0, Operador} /\ mem \in [0..TamMem - 1 -> Programas \cup {0, Operador}]
    <3>1. Duenio \cup {0} = Programas \cup {0, Operador}
      BY DEF Duenio
    <3>2. QED
      BY <3>1 DEF InvUMV, Tipos, TipoTabla
  <2>3. QED
    BY <2>1, <2>2 DEF InvUMV, Tipos, TipoProceso, Candado, TypeOK
<1>2. QED
  BY <1>1, UmvSiempre, PTL

\* Two segments share memory only if the console broke into an operation: with
\* any number of CPUs, programs and segments, the connections that initialise
\* op_atomica again cannot make the table overlap.
THEOREM SolapeSoloPorLaConsola == Spec => []SolapeSoloPorConsola
<1>1. InvUMV => SolapeSoloPorConsola
  BY DEF InvUMV, SinConsola, SolapeSoloPorConsola
<1>2. QED
  BY <1>1, UmvSiempre, PTL

\* Once the request of vaciar_exit has been served no segment of the program is
\* left, whatever its load, the CPUs and the console did.
THEOREM FinSiempreLimpio == Spec => []FinLimpio
<1>1. InvUMV => FinLimpio
  <2> SUFFICES ASSUME InvUMV, NEW p \in Programas,
                      estado[p] = "fin", cola[Plp] = <<>>, hilo[Plp].pc = "recv"
               PROVE  De(p) = {}
    BY DEF FinLimpio
  <2>1. ~ PorDestruir(p)
    BY DEF PorDestruir, Adentro
  <2>2. QED
    BY <2>1 DEF InvUMV, Bajas
<1>2. QED
  BY <1>1, UmvSiempre, PTL

\* Who answers a request: the thread of the connection that serves it.
LEMMA QuienResponde ==
    ASSUME Tipos, Next, NEW c \in Conexiones, NEW ops, Responde(c, ops)
    PROVE  Sirve(c)
<1> USE HilosDistintos
<1>1. /\ Adentro(c) /\ resp'[c] # Nada
      /\ resp'[c] # resp[c] /\ resp \in [Conexiones -> Respuesta \cup {Nada}] /\ c \in Hilos
  BY DEF Responde, Tipos, TipoRed
<1>2. (Main \/ (\E d \in Conexiones : ClienteConecta(d) \/ HiloArranca(d) \/ Duerme(d) \/ Entra(d))
        \/ ConsolaComando \/ ConsolaConecta \/ ConsolaApaga \/ \E p \in Programas : ConsolaActivo(p))
        => resp' = resp
  BY DEF Main, MainWhile, MainAcepta, ClienteConecta, HiloArranca, Duerme, Entra, PideCandado, ConsolaComando,
         ConsolaConecta, ConsolaApaga, ConsolaActivo
<1>3. Kernel => resp' = resp \/ resp' = [resp EXCEPT ![Plp] = Nada]
  BY DEF Kernel, PlpCreado, PlpEscrito, PlpAtiende, VaciarExit
<1>4. ASSUME NEW d \in CPUs, Cpu(d)
      PROVE  resp' = resp \/ resp' = [resp EXCEPT ![d] = Nada]
  BY <1>4 DEF Cpu, CpuToma, CpuPide, CpuRecibe, CpuDevuelve
<1>5. ASSUME NEW h \in Hilos, Sirve(h)
      PROVE  Sirve(c)
  <2>1. resp' = resp \/ \E r \in Respuesta : resp' = [resp EXCEPT ![h] = r]
    BY <1>5, AccedeResponde, CreaResponde DEF Sirve, CompactaUno, Compactado, Destruye, Sale
  <2>2. h = c
    BY <1>1, <2>1
  <2>3. QED
    BY <1>5, <2>2
<1>6. QED
  BY <1>1, <1>2, <1>3, <1>4, <1>5 DEF Next

\* What an access does to memory and answers.
LEMMA AccesoPaso ==
    ASSUME InvUMV, Next, NEW c \in Conexiones
    PROVE  AccesoBien(c)
<1> USE HilosDistintos
<1> SUFFICES ASSUME Responde(c, {"enviar", "solicitar"}), roto' = {},
                    ~ (resp'[c].cod < 0), resp'[c].datos \notin {<<-1>>, <<-2>>}
             PROVE  \E s \in De(hilo[c].ped.prog) :
                      /\ s.inicio = hilo[c].ped.base
                      /\ s.pos + hilo[c].ped.off + hilo[c].ped.tam <= FinDe(s)
                      /\ hilo[c].ped.op = "solicitar" =>
                            resp'[c].datos = [i \in 1..hilo[c].ped.tam |->
                                                mem[s.pos + hilo[c].ped.off + i - 1]]
                      /\ {d \in DOMAIN mem : mem'[d] # mem[d]} \subseteq Direcciones(s)
  BY DEF AccesoBien
<1>1. /\ Accede(c) /\ Adentro(c) /\ hilo[c].ped.op \in {"enviar", "solicitar"} /\ c \in Hilos
      /\ resp'[c] # resp[c]
  <2>1. Sirve(c) /\ Adentro(c) /\ hilo[c].ped.op \in {"enviar", "solicitar"} /\ c \in Hilos
        /\ resp'[c] # resp[c]
    BY QuienResponde DEF InvUMV, Responde
  <2>2. ~ Crea(c) /\ ~ Destruye(c) /\ ~ CompactaUno(c) /\ ~ Compactado(c)
    BY <2>1 DEF Crea, Destruye, CompactaUno, Compactado, InvUMV, Tipos, TipoHilos
  <2>3. QED
    BY <2>1, <2>2 DEF Sirve
<1>2. resp \in [Conexiones -> Respuesta \cup {Nada}] /\ mem \in [0..TamMem - 1 -> Duenio \cup {0}]
  BY DEF InvUMV, Tipos, TipoRed, TipoTabla
<1>3. activo = hilo[c].ped.prog
  BY <1>1, RotoCrece DEF InvUMV, Exclusion
<1>4. hilo[c].ped.off \in Int /\ hilo[c].ped.tam \in Nat \ {0}
  BY <1>1, AdentroTipo DEF InvUMV, Tipos, PedidoBien
<1>5. ASSUME NEW n \in {-1, -2}
      PROVE  ~ Falla(c, n)
  <2> SUFFICES ASSUME Falla(c, n)
               PROVE  FALSE
    OBVIOUS
  <2>1. CASE hilo[c].ped.op = "enviar"
    <3>1. resp' = [resp EXCEPT ![c] = Codigo(n)]
      BY <1>1, <2>1 DEF Falla, Sale
    <3>2. resp'[c].cod = n
      BY <1>2, <3>1 DEF Codigo
    <3>3. QED
      BY <3>2
  <2>2. CASE hilo[c].ped.op # "enviar"
    <3>1. resp' = [resp EXCEPT ![c] = [cod |-> hilo[c].ped.tam, datos |-> <<n>>]]
      BY <1>1, <2>2 DEF Falla, Sale
    <3>2. resp'[c].datos = <<n>>
      BY <1>2, <3>1
    <3>3. QED
      BY <3>2
  <2>3. QED
    BY <2>1, <2>2
<1>6. PICK s \in Solicitados(segs, activo, hilo[c].ped.base) : Copia(c, s)
  BY <1>1, <1>5 DEF Accede
<1> DEFINE zona == s.pos + hilo[c].ped.off .. s.pos + hilo[c].ped.off + hilo[c].ped.tam - 1
           leido == [i \in 1..hilo[c].ped.tam |-> mem[s.pos + hilo[c].ped.off + i - 1]]
<1>7. s \in De(hilo[c].ped.prog) /\ s.inicio = hilo[c].ped.base
  BY <1>3, <1>6 DEF Solicitados, De
<1>8. zona \subseteq Direcciones(s)
  BY <1>6 DEF Copia
<1>9. s.pos \in Nat /\ FinDe(s) \in Nat
  BY <1>7 DEF De, InvUMV, Tipos, TipoTabla, Segmento, FinDe
<1>10. s.pos + hilo[c].ped.off + hilo[c].ped.tam <= FinDe(s)
  <2>1. s.pos + hilo[c].ped.off + hilo[c].ped.tam - 1 \in zona
    BY <1>4, <1>9
  <2>2. s.pos + hilo[c].ped.off + hilo[c].ped.tam - 1 \in s.pos .. FinDe(s) - 1
    BY <1>8, <2>1 DEF Direcciones
  <2>3. QED
    BY <1>4, <1>9, <2>2
<1>11. /\ mem' = IF hilo[c].ped.op = "enviar" THEN [d \in 0..TamMem - 1 |->
                    IF d \in zona THEN hilo[c].ped.val ELSE mem[d]] ELSE mem
       /\ Sale(c, [cod |-> hilo[c].ped.tam,
                   datos |-> IF hilo[c].ped.op = "enviar" THEN <<>> ELSE leido])
  BY <1>1, <1>6 DEF Copia
<1> HIDE DEF zona, leido
<1>12. hilo[c].ped.op = "solicitar" => resp'[c].datos = leido
  <2>1. Responde(c, {"enviar", "solicitar"}) => resp'[c] # Nada
    BY DEF Responde
  <2>2. c # Consola /\ c \in Conexiones
    OBVIOUS
  <2>3. resp' = [resp EXCEPT ![c] = [cod |-> hilo[c].ped.tam,
                   datos |-> IF hilo[c].ped.op = "enviar" THEN <<>> ELSE leido]]
    BY <1>1, <1>11, <2>2 DEF Sale
  <2>4. QED
    BY <1>2, <2>3
<1>13. {d \in DOMAIN mem : mem'[d] # mem[d]} \subseteq zona
  BY <1>2, <1>11
<1>14. QED
  BY <1>7, <1>8, <1>10, <1>12, <1>13 DEF leido

\* An access that is answered without an error reads or writes the segment of
\* the program that asked, until something is broken into: with any number of
\* connections, op_atomica and the active process do not mix them up.
THEOREM AccesoSiemprePropio == Spec => AccesoPropio
<1>1. InvUMV /\ [Next]_vars => [\A c \in Conexiones : AccesoBien(c)]_vars
  BY AccesoPaso
<1>2. QED
  BY <1>1, UmvSiempre, PTL DEF Spec, AccesoPropio

-----------------------------------------------------------------------------
(* Virtual bases *)

\* A number below the word's size is what it is.
LEMMA SinVuelta ==
    ASSUME NEW n \in 0..Palabra - 1
    PROVE  n % Palabra = n
BY SupuestosSegmentos

\* No segment wraps, so its last virtual address comes after its base.
LEMMA UltimoBien ==
    ASSUME NEW b \in 0..Palabra - TamMem, NEW n \in 1..TamMem
    PROVE  UltimoVirtual(b, n) = b + n - 1 /\ b + n - 1 \in 0..Palabra - 1
<1>1. b + n - 1 \in 0..Palabra - 1
  BY SupuestosSegmentos
<1>2. QED
  BY <1>1, SinVuelta DEF UltimoVirtual

\* A base esAdecuadoInicio lets stand leaves the two ranges apart.
LEMMA BasesApartadas ==
    ASSUME NEW b \in 0..Palabra - TamMem, NEW n \in 1..TamMem, NEW z \in Segmento,
           EsAdecuadoInicio(b, n, z.inicio, z.size)
    PROVE  b + n <= z.inicio \/ z.inicio + z.size <= b
<1>1. z.inicio \in 0..Palabra - TamMem /\ z.size \in 1..TamMem
  BY SupuestosSegmentos DEF Segmento, EnMemoria
<1>2. UltimoVirtual(b, n) = b + n - 1 /\ UltimoVirtual(z.inicio, z.size) = z.inicio + z.size - 1
  BY <1>1, UltimoBien
<1>3. QED
  BY <1>1, <1>2, SupuestosSegmentos DEF EsAdecuadoInicio

\* What a new segment is, where its virtual base may be, and what is answered.
LEMMA CreadoAparte ==
    ASSUME Tipos, NEW h \in Hilos, Crea(h), segs' # segs
    PROVE  \E z \in Segmento :
              /\ segs' = segs \cup {z}
              /\ z.prog = hilo[h].ped.prog /\ z.size = hilo[h].ped.size
              /\ \A y \in segs : y.prog = z.prog =>
                    z.inicio + z.size <= y.inicio \/ y.inicio + y.size <= z.inicio
              /\ IF z.inicio = 0 THEN NoCreado(h) ELSE Sale(h, Codigo(z.inicio))
<1>1. /\ hilo[h].ped.prog \in Duenio /\ hilo[h].ped.size \in Nat \ {0} /\ hilo[h].ped.k \in 1..5
      /\ hilo[h].libres \subseteq Hueco
  BY AdentroTipo DEF Tipos, Crea, Adentro, PedidoBien
<1> DEFINE Nuevo(l, b) == [prog |-> hilo[h].ped.prog, inicio |-> b, size |-> hilo[h].ped.size,
                           pos |-> l.dir]
<1>2. PICK a \in AlgoritmosDe(h) :
        \E l \in Elegir(hilo[h].libres, hilo[h].ped.size, a) :
        \E b \in DirInicio(segs, hilo[h].ped.prog, hilo[h].ped.size, Sorteo[hilo[h].ped.k]) :
           /\ segs' = segs \cup {Nuevo(l, b)}
           /\ IF b = 0 THEN NoCreado(h) ELSE Sale(h, Codigo(b))
  BY DEF Crea
<1>3. PICK l \in Elegir(hilo[h].libres, hilo[h].ped.size, a),
           b \in DirInicio(segs, hilo[h].ped.prog, hilo[h].ped.size, Sorteo[hilo[h].ped.k]) :
           /\ segs' = segs \cup {Nuevo(l, b)}
           /\ IF b = 0 THEN NoCreado(h) ELSE Sale(h, Codigo(b))
  BY <1>2
<1>4. l \in Hueco /\ l.size >= hilo[h].ped.size
  BY <1>1, <1>3 DEF Elegir
<1>5. b \in 0..Palabra - TamMem
  BY <1>1, <1>3, SupuestosUMV DEF DirInicio
<1>6. PICK z : z = Nuevo(l, b)
  OBVIOUS
<1>7. z.prog = hilo[h].ped.prog /\ z.size = hilo[h].ped.size /\ z.inicio = b
  BY <1>6
<1>8. z \in Segmento
  BY <1>1, <1>4, <1>5, <1>6, SupuestosSegmentos DEF Segmento, EnMemoria, Hueco
<1>9. segs' = segs \cup {z} /\ IF z.inicio = 0 THEN NoCreado(h) ELSE Sale(h, Codigo(z.inicio))
  BY <1>3, <1>6, <1>7
<1>10. ASSUME NEW y \in segs, y.prog = z.prog
       PROVE  z.inicio + z.size <= y.inicio \/ y.inicio + y.size <= z.inicio
  <2>1. y \in Segmento /\ z.size \in 1..TamMem
    BY <1>8, SupuestosSegmentos DEF Tipos, TipoTabla, Segmento, EnMemoria
  <2>2. EsAdecuadoInicio(b, z.size, y.inicio, y.size)
    BY <1>3, <1>7, <1>10 DEF DirInicio
  <2>3. QED
    BY <1>5, <1>7, <2>1, <2>2, BasesApartadas
<1>11. QED
  BY <1>7, <1>8, <1>9, <1>10

\* A program names its segments by their bases: no two are the same.
BasesDistintas == \A y, z \in segs : y.prog = z.prog /\ y.inicio = z.inicio => y = z

\* Every step keeps them so, whoever breaks into an operation: a base is drawn
\* and its segment added in the same step.
LEMMA BasesPaso ==
    ASSUME Tipos, Next, BasesDistintas
    PROVE  BasesDistintas'
<1>1. CASE segs' = segs
  BY <1>1 DEF BasesDistintas
<1>2. ASSUME NEW h \in Hilos, Continua(h), segs' # segs
      PROVE  BasesDistintas'
  <2>1. CASE Crea(h)
    <3>1. PICK z \in Segmento :
            /\ segs' = segs \cup {z}
            /\ \A y \in segs : y.prog = z.prog =>
                  z.inicio + z.size <= y.inicio \/ y.inicio + y.size <= z.inicio
      BY <1>2, <2>1, CreadoAparte
    <3>2. \A y \in segs \cup {z} : y.inicio \in Int /\ y.size \in Nat \ {0}
      BY SupuestosSegmentos DEF Tipos, TipoTabla, Segmento
    <3>3. \A y \in segs : y.prog = z.prog => y.inicio # z.inicio
      BY <3>1, <3>2
    <3>4. QED
      BY <3>1, <3>3 DEF BasesDistintas
  <2>2. CASE CompactaUno(h)
    <3>1. PICK s \in PorMover(h) : segs' = (segs \ {s}) \cup {[s EXCEPT !.pos = hilo[h].hasta]}
      BY <2>2 DEF CompactaUno
    <3>2. PICK m : m = [s EXCEPT !.pos = hilo[h].hasta]
      OBVIOUS
    <3>3. s \in segs /\ m.prog = s.prog /\ m.inicio = s.inicio
      BY <3>2 DEF PorMover, Tipos, TipoTabla, Segmento
    <3>4. \A y \in segs \ {s} : ~ (y.prog = m.prog /\ y.inicio = m.inicio)
      BY <3>3 DEF BasesDistintas
    <3>5. segs' = (segs \ {s}) \cup {m}
      BY <3>1, <3>2
    <3>6. QED
      BY <3>4, <3>5 DEF BasesDistintas
  <2>3. CASE Destruye(h)
    BY <2>3 DEF Destruye, BasesDistintas
  <2>4. ~ Accede(h) /\ ~ Compactado(h)
    BY <1>2 DEF Accede, Falla, Compactado, tabla
  <2>5. QED
    BY <1>2, <2>1, <2>2, <2>3, <2>4 DEF Continua, Sirve
<1>3. QED
  BY <1>1, <1>2, PasoHilos, IniciaHilo DEF Ajeno, Tipos

\* Two segments are never seen as one.
LEMMA VistasDistintas ==
    ASSUME BasesDistintas, NEW y \in segs, NEW z \in segs, y # z
    PROVE  Vista(y) # Vista(z)
<1>1. Vista(y).prog = y.prog /\ Vista(y).inicio = y.inicio /\ Vista(z).prog = z.prog /\ Vista(z).inicio = z.inicio
  BY DEF Vista
<1>2. QED
  BY <1>1 DEF BasesDistintas

\* Segments that do not overlap have no more bytes than main memory, however they
\* are seen.
LEMMA CabeTodo ==
    ASSUME NEW S, S \subseteq Segmento, \A y, z \in S : y # z => ~ SeSolapan(y, z),
           NEW v, \A z \in S : DOMAIN v[z].bytes = 0..z.size - 1
    PROVE  Cardinality(MV!Bytes({v[z] : z \in S})) <= TamMem
<1> DEFINE B == MV!Bytes({v[z] : z \in S})
           De1(b) == CHOOSE z \in S : v[z] = b[1]
           f == [b \in B |-> De1(b).pos + b[2]]
           M == 0..TamMem - 1
<1>1. ASSUME NEW b \in B
      PROVE  /\ De1(b) \in S /\ v[De1(b)] = b[1] /\ b = <<b[1], b[2]>>
             /\ b[2] \in 0..De1(b).size - 1 /\ f[b] \in Direcciones(De1(b))
  <2>1. PICK z \in S : b \in {v[z]} \X DOMAIN v[z].bytes
    BY DEF MV!Bytes
  <2>2. b[1] = v[z] /\ b = <<b[1], b[2]>>
    BY <2>1
  <2>3. De1(b) \in S /\ v[De1(b)] = b[1]
    BY <2>2
  <2> DEFINE y == De1(b)
  <2>4. y \in S /\ v[y] = b[1] /\ f[b] = y.pos + b[2]
    BY <2>3
  <2> HIDE DEF y, f
  <2>5. b[2] \in DOMAIN v[z].bytes /\ v[z] = v[y]
    BY <2>1, <2>2, <2>4
  <2>6. b[2] \in 0..y.size - 1
    BY <2>4, <2>5
  <2>7. y.pos \in Nat /\ y.size \in Nat \ {0}
    BY <2>4 DEF Segmento
  <2>8. f[b] \in Direcciones(y)
    BY <2>4, <2>6, <2>7 DEF Direcciones, FinDe
  <2>9. QED
    BY <2>2, <2>3, <2>6, <2>8 DEF y
<1>2. \A z \in S : Direcciones(z) \subseteq M
  BY SupuestosSegmentos DEF Segmento, EnMemoria, Direcciones, FinDe
<1>3. f \in [B -> M]
  BY <1>1, <1>2
<1>4. ASSUME NEW a \in B, NEW b \in B, f[a] = f[b]
      PROVE  a = b
  <2>1. De1(a) = De1(b)
    <3> HIDE DEF De1, f
    <3>1. f[a] \in Direcciones(De1(a)) \cap Direcciones(De1(b)) /\ De1(a) \in S /\ De1(b) \in S
      BY <1>1, <1>4
    <3>2. QED
      BY <3>1 DEF SeSolapan
  <2>2. a[1] = b[1]
    BY <1>1, <2>1
  <2>3. f[a] = De1(a).pos + a[2] /\ f[b] = De1(b).pos + b[2] /\ De1(a).pos \in Nat
        /\ a[2] \in Int /\ b[2] \in Int
    BY <1>1 DEF Segmento
  <2>4. a[2] = b[2]
    <3>1. PICK n \in Nat : n = De1(a).pos
      BY <2>3
    <3>2. f[a] = n + a[2] /\ f[b] = n + b[2]
      BY <2>1, <2>3, <3>1
    <3> HIDE DEF De1, f
    <3>3. n + a[2] = n + b[2]
      BY <1>4, <3>2
    <3>4. PICK i \in Int, j \in Int : i = a[2] /\ j = b[2]
      BY <2>3
    <3>5. QED
      BY <3>3, <3>4
  <2>5. QED
    BY <1>1, <2>2, <2>4
<1>5. f \in Injection(B, M)
  <2> HIDE DEF f, B
  <2>1. QED
    BY <1>3, <1>4 DEF Injection, IsInjective
<1>6. IsFiniteSet(M) /\ Cardinality(M) = TamMem
  <2>1. 0 \in Int /\ TamMem - 1 \in Int /\ ~ (0 > TamMem - 1) /\ TamMem - 1 - 0 + 1 = TamMem
    BY SupuestosSegmentos
  <2> HIDE DEF f, B
  <2>2. IsFiniteSet(0..TamMem - 1) /\ Cardinality(0..TamMem - 1) = TamMem - 1 - 0 + 1
    BY <2>1, FS_Interval
  <2>3. QED
    BY <2>1, <2>2
<1>7. QED
  BY <1>5, <1>6, FS_Injection

-----------------------------------------------------------------------------
(* The UMV implements the abstract memory *)

\* A segment whose bytes stay, wherever they are now, is seen as before.
LEMMA VistaIgual ==
    ASSUME NEW y, NEW z, y.prog = z.prog, y.inicio = z.inicio, y.size = z.size,
           \A o \in 0..z.size - 1 : mem'[y.pos + o] = mem[z.pos + o]
    PROVE  Vista(y)' = Vista(z)
BY DEF Vista

\* A segment that is added is a new one of the abstract memory, and there is
\* room for it.
LEMMA MemoriaCrea ==
    ASSUME Tipos, Tipos', Sana', BasesDistintas, NEW h \in Hilos, Crea(h), segs' # segs
    PROVE  MV!Crear
<1>1. PICK z \in Segmento :
        /\ segs' = segs \cup {z} /\ z.prog = hilo[h].ped.prog
        /\ \A y \in segs : y.prog = z.prog =>
              z.inicio + z.size <= y.inicio \/ y.inicio + y.size <= z.inicio
  BY CreadoAparte
<1>2. mem' = mem
  BY DEF Crea
<1>3. segs \subseteq Segmento /\ segs' \subseteq Segmento
  BY DEF Tipos, TipoTabla
<1>4. \A y \in Segmento : /\ y.inicio \in Nat /\ y.size \in Nat \ {0} /\ y.prog \in Duenio
  BY SupuestosSegmentos DEF Segmento
<1>5. \A y : Vista(y)' = Vista(y)
  BY <1>2 DEF Vista
<1>6. \A y : /\ Vista(y).prog = y.prog /\ Vista(y).inicio = y.inicio
             /\ DOMAIN Vista(y).bytes = 0..y.size - 1
  BY DEF Vista
<1> DEFINE e == Vista(z)
<1>7. Espacio' = Espacio \cup {e}
  BY <1>1, <1>5 DEF Espacio
<1>8. e \notin Espacio
  <2> SUFFICES ASSUME NEW y \in segs, e = Vista(y)
               PROVE  FALSE
    BY DEF Espacio
  <2>1. y.prog = z.prog /\ y.inicio = z.inicio
    BY <1>6
  <2>2. QED
    BY <1>1, <1>3, <1>4, <2>1
<1>9. e.prog \in Programas \cup {Operador}
  BY <1>4, <1>6 DEF Duenio
<1>10. ASSUME NEW f \in Espacio, f.prog = e.prog
       PROVE  MV!Rango(f) \cap MV!Rango(e) = {}
  <2>1. PICK y \in segs : f = Vista(y)
    BY DEF Espacio
  <2>2. z.inicio + z.size <= y.inicio \/ y.inicio + y.size <= z.inicio
    BY <1>1, <1>6, <1>10, <2>1
  <2>3. y \in Segmento
    BY <1>3
  <2>4. /\ MV!Rango(f) = {y.inicio + o : o \in 0..y.size - 1}
        /\ MV!Rango(e) = {z.inicio + o : o \in 0..z.size - 1}
    BY <1>6, <2>1 DEF MV!Rango
  <2> HIDE DEF e
  <2>5. QED
    BY <1>4, <2>2, <2>3, <2>4
<1>11. MV!Cardinality(MV!Bytes(Espacio')) <= TamMem
  <2> DEFINE S == segs'
             v == [y \in S |-> Vista(y)']
  <2>1. S \subseteq Segmento /\ \A y, x \in S : y # x => ~ SeSolapan(y, x)
    BY <1>3 DEF Sana
  <2>2. \A y \in S : DOMAIN v[y].bytes = 0..y.size - 1
    BY <1>5, <1>6
  <2>3. Espacio' = {v[y] : y \in S}
    BY DEF Espacio
  <2> HIDE DEF S, v
  <2>4. Cardinality(MV!Bytes({v[y] : y \in S})) <= TamMem
    BY <2>1, <2>2, CabeTodo
  <2>5. \A T : MV!Cardinality(T) = Cardinality(T)
    BY DEF Cardinality, MV!Cardinality
  <2>6. QED
    BY <2>3, <2>4, <2>5
<1>12. e \in Espacio' \ Espacio
  BY <1>7, <1>8
<1> HIDE DEF e
<1>13. QED
  BY <1>7, <1>9, <1>10, <1>11, <1>12 DEF MV!Crear

\* One segment seen differently, and no other, is a write.
LEMMA MemoriaEscribe ==
    ASSUME BasesDistintas, NEW s \in segs, NEW m \in segs', s.prog \in Duenio,
           m.prog = s.prog, m.inicio = s.inicio, m.size = s.size,
           segs' = (segs \ {s}) \cup {m},
           \A y \in segs \ {s} : Vista(y)' = Vista(y)
    PROVE  \E p \in Duenio : MV!Escribir(p)
<1> DEFINE e == Vista(s)
           f == Vista(m)'
<1>1. e \in Espacio /\ f \in Espacio'
  BY DEF Espacio
<1>2. \A y \in segs \ {s} : Vista(y) # e
  BY VistasDistintas
<1>3. Espacio \ {e} = {Vista(y) : y \in segs \ {s}}
  BY <1>2 DEF Espacio
<1>4. Espacio' = {Vista(y)' : y \in segs \ {s}} \cup {f}
  BY DEF Espacio
<1>5. Espacio' = (Espacio \ {e}) \cup {f}
  BY <1>3, <1>4
<1>6. /\ e.prog = s.prog /\ f.prog = s.prog /\ f.inicio = e.inicio
      /\ DOMAIN f.bytes = DOMAIN e.bytes
  BY DEF Vista
<1> HIDE DEF e, f
<1>7. MV!Escribir(s.prog)
  BY <1>1, <1>5, <1>6 DEF MV!Escribir
<1>8. QED
  BY <1>7

\* So is an access that writes within its segment...
LEMMA MemoriaAccede ==
    ASSUME Tipos, Sana, BasesDistintas, NEW h \in Hilos, Accede(h), mem' # mem, "fuera" \notin roto'
    PROVE  \E p \in Duenio : MV!Escribir(p)
<1>1. PICK s \in Solicitados(segs, activo, hilo[h].ped.base) : Copia(h, s)
  BY DEF Accede, Falla, tabla
<1> DEFINE zona == s.pos + hilo[h].ped.off .. s.pos + hilo[h].ped.off + hilo[h].ped.tam - 1
<1>2. s \in segs /\ s \in Segmento
  BY DEF Solicitados, Tipos, TipoTabla
<1>3. zona \subseteq Direcciones(s)
  BY <1>1 DEF Copia
<1>4. mem' = [d \in 0..TamMem - 1 |-> IF d \in zona THEN hilo[h].ped.val ELSE mem[d]]
  BY <1>1 DEF Copia
<1> HIDE DEF zona
<1>5. segs' = segs
  BY DEF Accede, Falla, tabla
<1>6. ASSUME NEW y \in segs \ {s}
      PROVE  Vista(y)' = Vista(y)
  <2>1. y \in Segmento /\ Direcciones(y) \cap Direcciones(s) = {}
    BY <1>2 DEF Sana, SeSolapan, Tipos, TipoTabla
  <2>2. /\ y.pos \in Nat /\ y.size \in Nat \ {0} /\ y.pos + y.size <= TamMem
        /\ Direcciones(y) = y.pos .. y.pos + y.size - 1
    BY <2>1 DEF Segmento, EnMemoria, Direcciones, FinDe
  <2>3. ASSUME NEW o \in 0..y.size - 1
        PROVE  mem'[y.pos + o] = mem[y.pos + o]
    <3>1. y.pos + o \in Direcciones(y) /\ y.pos + o \in 0..TamMem - 1
      BY <2>2, SupuestosSegmentos
    <3>2. y.pos + o \notin zona
      BY <1>3, <2>1, <3>1
    <3>3. QED
      BY <1>4, <3>1, <3>2
  <2>4. QED
    BY <2>3, VistaIgual
<1>7. segs' = (segs \ {s}) \cup {s} /\ s \in segs' /\ s.prog \in Duenio
  BY <1>2, <1>5 DEF Segmento
<1>8. QED
  BY <1>2, <1>6, <1>7, MemoriaEscribe

\* What moving a segment leaves in memory: its bytes where it goes, and those of
\* the others where they were.
LEMMA MovidoEntero ==
    ASSUME Tipos, Sana, NEW h \in Hilos, HastaAlDia(h), CompactaUno(h)
    PROVE  \E s \in PorMover(h), m \in Segmento :
              /\ m = [s EXCEPT !.pos = hilo[h].hasta]
              /\ segs' = (segs \ {s}) \cup {m} /\ s \in segs
              /\ m.prog = s.prog /\ m.inicio = s.inicio /\ m.size = s.size /\ m.pos = hilo[h].hasta
              /\ \A o \in 0..s.size - 1 : mem'[m.pos + o] = mem[s.pos + o]
              /\ \A y \in segs \ {s} : \A o \in 0..y.size - 1 : mem'[y.pos + o] = mem[y.pos + o]
<1>1. PICK s \in PorMover(h) :
        /\ \A t \in PorMover(h) : s.pos <= t.pos
        /\ segs' = (segs \ {s}) \cup {[s EXCEPT !.pos = hilo[h].hasta]}
        /\ mem' = Movidos(s, hilo[h].hasta)
  BY DEF CompactaUno
<1>2. PICK m \in Segmento :
        /\ m = [s EXCEPT !.pos = hilo[h].hasta]
        /\ m.pos = hilo[h].hasta /\ m.size = s.size /\ m.prog = s.prog
        /\ hilo[h].hasta \in 0..s.pos /\ s \in Segmento
  BY Mudado
<1>3. m.inicio = s.inicio
  BY <1>2 DEF Segmento
<1>4. PICK aca \in Nat : aca = hilo[h].hasta
  BY <1>2 DEF Segmento
<1>5. /\ aca <= s.pos /\ s.pos \in Nat /\ s.size \in Nat \ {0} /\ s.pos + s.size <= TamMem
      /\ TamMem \in Nat
  BY <1>2, <1>4, SupuestosSegmentos DEF Segmento, EnMemoria
<1>6. \A d \in 0..TamMem - 1 :
        mem'[d] = IF d \in aca .. aca + s.size - 1 THEN mem[s.pos + d - aca] ELSE mem[d]
  BY <1>1, <1>4 DEF Movidos
<1>7. ASSUME NEW o \in 0..s.size - 1
      PROVE  mem'[m.pos + o] = mem[s.pos + o]
  <2>1. aca + o \in 0..TamMem - 1 /\ aca + o \in aca .. aca + s.size - 1 /\ s.pos + (aca + o) - aca = s.pos + o
    BY <1>5
  <2>2. QED
    BY <1>2, <1>4, <1>6, <2>1
<1>8. ASSUME NEW y \in segs \ {s}, NEW o \in 0..y.size - 1
      PROVE  mem'[y.pos + o] = mem[y.pos + o]
  <2>1. \/ y.pos < aca /\ FinDe(y) <= aca
        \/ y.pos >= aca + s.size
    BY <1>1, <1>4, Vecinos DEF CompactaUno
  <2>2. y \in Segmento
    BY DEF Tipos, TipoTabla
  <2>3. y.pos \in Nat /\ y.size \in Nat \ {0} /\ y.pos + y.size <= TamMem /\ FinDe(y) = y.pos + y.size
    BY <2>2 DEF Segmento, EnMemoria, FinDe
  <2>4. y.pos + o \in 0..TamMem - 1 /\ y.pos + o \notin aca .. aca + s.size - 1
    BY <1>5, <2>1, <2>3
  <2>5. QED
    BY <1>6, <2>4
<1>9. s \in segs /\ segs' = (segs \ {s}) \cup {m}
  BY <1>1, <1>2 DEF PorMover
<1>10. QED
  BY <1>2, <1>3, <1>7, <1>8, <1>9

\* ...and a compaction changes where a segment is, which cannot be seen.
LEMMA MemoriaCompacta ==
    ASSUME Tipos, Sana, BasesDistintas, NEW h \in Hilos, HastaAlDia(h), CompactaUno(h)
    PROVE  /\ \E p \in Duenio : MV!Escribir(p)
           /\ Espacio' = Espacio
<1>1. PICK s \in segs, m \in Segmento :
        /\ segs' = (segs \ {s}) \cup {m}
        /\ m.prog = s.prog /\ m.inicio = s.inicio /\ m.size = s.size
        /\ \A o \in 0..s.size - 1 : mem'[m.pos + o] = mem[s.pos + o]
        /\ \A y \in segs \ {s} : \A o \in 0..y.size - 1 : mem'[y.pos + o] = mem[y.pos + o]
  BY MovidoEntero
<1>2. \A y \in segs \ {s} : Vista(y)' = Vista(y)
  BY <1>1, VistaIgual
<1>3. Vista(m)' = Vista(s)
  BY <1>1, VistaIgual
<1>4. \E p \in Duenio : MV!Escribir(p)
  <2>1. m \in segs' /\ s.prog \in Duenio
    BY <1>1 DEF Tipos, TipoTabla, Segmento
  <2>2. QED
    BY <1>1, <1>2, <2>1, MemoriaEscribe
<1>5. Espacio' = {Vista(y)' : y \in segs \ {s}} \cup {Vista(m)'}
  BY <1>1 DEF Espacio
<1>6. Espacio = {Vista(y) : y \in segs \ {s}} \cup {Vista(s)}
  BY DEF Espacio
<1>7. QED
  BY <1>2, <1>3, <1>4, <1>5, <1>6

\* Destroying the segments of a program is what it says.
LEMMA MemoriaDestruye ==
    ASSUME Tipos, NEW h \in Hilos, Destruye(h)
    PROVE  \E p \in Duenio : MV!Destruir(p)
<1> DEFINE p == hilo[h].ped.prog
<1>1. p \in Duenio
  BY AdentroTipo DEF Tipos, Destruye, Adentro, PedidoBien
<1>2. segs' = {y \in segs : y.prog # p} /\ mem' = mem
  BY DEF Destruye, Marcados
<1>3. \A y : Vista(y)' = Vista(y) /\ Vista(y).prog = y.prog
  BY <1>2 DEF Vista
<1> HIDE DEF p
<1>4. Espacio' = {e \in Espacio : e.prog # p}
  BY <1>2, <1>3 DEF Espacio
<1>5. QED
  BY <1>1, <1>4 DEF MV!Destruir

\* Every step is one of the abstract memory.
LEMMA MemoriaPaso ==
    ASSUME InvUMV, InvUMV', BasesDistintas, [Next]_vars
    PROVE  [MV!Next \/ roto' \cap {"consola", "fuera"} # {} \/ caida']_<<segs, mem>>
<1> SUFFICES ASSUME Next, <<segs, mem>>' # <<segs, mem>>, "consola" \notin roto', "fuera" \notin roto'
             PROVE  MV!Next
  BY DEF vars, tabla
<1>1. Tipos /\ Tipos' /\ Sana /\ Sana' /\ \A h \in Hilos : HastaAlDia(h)
  BY RotoCrece DEF InvUMV, SinConsola
<1>2. PICK h \in Hilos : Sirve(h)
  <2>1. ASSUME Main \/ (\E c \in Conexiones : ClienteConecta(c) \/ HiloArranca(c) \/ Duerme(c) \/ Entra(c))
               \/ ConsolaComando \/ (\E p \in Programas : ConsolaActivo(p))
               \/ ConsolaConecta \/ ConsolaApaga \/ Kernel \/ (\E c \in CPUs : Cpu(c))
        PROVE  segs' = segs /\ mem' = mem
    BY <2>1 DEF Main, MainWhile, MainAcepta, ClienteConecta, HiloArranca, Duerme, Entra, PideCandado, ConsolaComando,
                ConsolaActivo, ConsolaConecta, ConsolaApaga, Kernel, PlpCreado, PlpEscrito,
                PlpAtiende, VaciarExit, Cpu, CpuToma, CpuPide, CpuRecibe, CpuDevuelve, tabla
  <2>2. QED
    BY <2>1 DEF Next
<1>3. Duenio = Programas \cup {Operador}
  BY DEF Duenio
<1>4. CASE Accede(h)
  <2>1. segs' = segs
    BY <1>4 DEF Accede, Falla, tabla
  <2>2. QED
    BY <1>1, <1>3, <1>4, <2>1, MemoriaAccede DEF MV!Next
<1>5. CASE Crea(h)
  <2>1. mem' = mem
    BY <1>5 DEF Crea
  <2>2. QED
    BY <1>1, <1>5, <2>1, MemoriaCrea DEF MV!Next
<1>6. CASE CompactaUno(h)
  BY <1>1, <1>3, <1>6, MemoriaCompacta DEF MV!Next
<1>7. CASE Compactado(h)
  BY <1>7 DEF Compactado, tabla
<1>8. CASE Destruye(h)
  BY <1>1, <1>3, <1>8, MemoriaDestruye DEF MV!Next
<1>9. QED
  BY <1>2, <1>4, <1>5, <1>6, <1>7, <1>8 DEF Sirve

\* No program's segments share a base, whoever breaks into an operation.
LEMMA BasesSiempre == Spec => []BasesDistintas
<1>1. Init => BasesDistintas
  BY DEF Init, BasesDistintas
<1>2. InvUMV /\ BasesDistintas /\ [Next]_vars => BasesDistintas'
  <2> SUFFICES ASSUME InvUMV, BasesDistintas, [Next]_vars
               PROVE  BasesDistintas'
    OBVIOUS
  <2>1. CASE UNCHANGED vars
    BY <2>1 DEF vars, tabla, BasesDistintas
  <2>2. QED
    BY <2>1, BasesPaso DEF InvUMV
<1>3. QED
  BY <1>1, <1>2, UmvSiempre, PTL DEF Spec

\* The UMV implements a memory of segments named by their virtual bases: until
\* the console breaks into an operation or an access leaves its segment, nobody
\* can see where segments are nor that they are moved, each write changes one
\* segment, and no more memory is given than there is.
THEOREM MemoriaSeCumple == Spec => CumpleMemoria
<1>1. Init => MV!Init
  BY DEF Init, MV!Init, Espacio
<1>2. InvUMV /\ InvUMV' /\ BasesDistintas /\ [Next]_vars
        => [MV!Next \/ roto' \cap {"consola", "fuera"} # {} \/ caida']_<<segs, mem>>
  BY MemoriaPaso
<1>3. QED
  BY <1>1, <1>2, UmvSiempre, BasesSiempre, PTL DEF Spec, CumpleMemoria

-----------------------------------------------------------------------------
(* Compaction joins what is free *)

Ocupado(d) == \E z \in segs : d \in Direcciones(z)

\* Until the console breaks in, compaction leaves nothing free below the point it
\* has reached, and after it nothing below any segment.
LlenoHasta(h) == hilo[h].pc = "compacta" => \A d \in 0..hilo[h].hasta - 1 : Ocupado(d)

LlenoTodo(h) ==
    hilo[h].pc = "reintenta" =>
        hilo[h].ped.op = "crear" /\ \A z \in segs : \A d \in 0..z.pos - 1 : Ocupado(d)

Compacto == "consola" \notin roto => \A h \in Hilos : LlenoHasta(h) /\ LlenoTodo(h)

\* Moving a segment down fills memory up to its end.
LEMMA CompactaLleno ==
    ASSUME Tipos, NEW h \in Hilos, LlenoHasta(h), CompactaUno(h)
    PROVE  LlenoHasta(h)' /\ hilo'[h].pc = "compacta"
<1>1. PICK s \in PorMover(h) :
        /\ segs' = (segs \ {s}) \cup {[s EXCEPT !.pos = hilo[h].hasta]}
        /\ hilo' = [hilo EXCEPT ![h].hasta = Siguiente(s, hilo[h].hasta)]
  BY DEF CompactaUno
<1>2. PICK m \in Segmento :
        /\ m = [s EXCEPT !.pos = hilo[h].hasta]
        /\ m.pos = hilo[h].hasta /\ FinDe(m) = hilo[h].hasta + s.size
  BY <1>1, Mudado DEF CompactaUno
<1>3. /\ hilo[h].hasta \in Nat /\ hilo[h].pc = "compacta" /\ segs \subseteq Segmento
      /\ s \in segs /\ s.size \in Nat /\ s.pos \in Nat /\ s.pos >= hilo[h].hasta
  BY AdentroTipo DEF CompactaUno, Adentro, Tipos, TipoTabla, PorMover, Segmento
<1>4. hilo'[h].hasta = hilo[h].hasta + s.size /\ hilo'[h].pc = "compacta"
  BY <1>1, <1>3 DEF Siguiente, Tipos, TipoHilos, Puesto
<1>5. segs' = (segs \ {s}) \cup {m}
  BY <1>1, <1>2
<1>6. ASSUME NEW d \in 0..hilo[h].hasta + s.size - 1
      PROVE  \E z \in segs' : d \in Direcciones(z)
  <2>1. CASE d < hilo[h].hasta
    <3>1. PICK z \in segs : d \in Direcciones(z)
      BY <1>3, <2>1 DEF LlenoHasta, Ocupado
    <3>2. z # s
      BY <1>3, <2>1, <3>1 DEF Direcciones
    <3>3. QED
      BY <1>5, <3>1, <3>2
  <2>2. CASE d >= hilo[h].hasta
    <3>1. d \in Direcciones(m)
      BY <1>2, <1>3, <2>2 DEF Direcciones
    <3>2. QED
      BY <1>5, <3>1
  <2>3. QED
    BY <1>3, <2>1, <2>2
<1>7. \A d \in 0..hilo'[h].hasta - 1 : Ocupado(d)'
  <2>1. \A d \in 0..hilo[h].hasta + s.size - 1 : Ocupado(d)'
    <3> SUFFICES ASSUME NEW d \in 0..hilo[h].hasta + s.size - 1
                 PROVE  \E z \in segs' : d \in Direcciones(z)
      BY DEF Ocupado
    <3>1. QED
      BY <1>6
  <2>2. QED
    BY <1>3, <1>4, <2>1
<1>8. QED
  BY <1>4, <1>7 DEF LlenoHasta

\* Every step keeps compacted what a compaction has done.
LEMMA CompactoPaso ==
    ASSUME InvUMV, Next, Compacto
    PROVE  Compacto'
<1> USE HilosDistintos
<1> SUFFICES ASSUME "consola" \notin roto', NEW g \in Hilos
             PROVE  LlenoHasta(g)' /\ LlenoTodo(g)'
  BY DEF Compacto
<1>1. Tipos /\ Solos /\ LlenoHasta(g) /\ LlenoTodo(g) /\ \A h \in Hilos : HastaAlDia(h)
  BY RotoCrece DEF InvUMV, SinConsola, Solos, Compacto
<1>2. hilo \in [Hilos -> Puesto] /\ hilo[g] \in Puesto
  BY <1>1 DEF Tipos, TipoHilos
<1>3. ASSUME segs' = segs, hilo'[g] = hilo[g]
      PROVE  LlenoHasta(g)' /\ LlenoTodo(g)'
  BY <1>1, <1>3 DEF LlenoHasta, LlenoTodo, Ocupado
<1>4. ASSUME hilo'[g].pc \notin {"compacta", "reintenta"}
      PROVE  LlenoHasta(g)' /\ LlenoTodo(g)'
  BY <1>4 DEF LlenoHasta, LlenoTodo
<1>5. ASSUME hilo'[g].pc = "compacta", hilo'[g].hasta = 0
      PROVE  LlenoHasta(g)' /\ LlenoTodo(g)'
  BY <1>5 DEF LlenoHasta, LlenoTodo
<1>6. ASSUME NEW h \in Hilos, NEW q, Inicia(h, q)
      PROVE  LlenoHasta(g)' /\ LlenoTodo(g)'
  BY <1>1, <1>3, <1>4, <1>5, <1>6, IniciaHilo DEF Tipos
<1>7. ASSUME Continua(g)
      PROVE  LlenoHasta(g)' /\ LlenoTodo(g)'
  <2>1. CASE hilo' = [hilo EXCEPT ![g] = Quieto("recv")]
    BY <1>2, <1>4, <2>1 DEF Quieto
  <2>2. CASE Accede(g)
    <3>1. segs' = segs
      BY <2>2 DEF Accede, Falla, tabla
    <3>2. QED
      BY <1>3, <2>1, <2>2, <3>1, AccedeHilo
  <2>3. CASE Crea(g)
    <3>1. CASE hilo' = [hilo EXCEPT ![g].pc = "compacta", ![g].hasta = 0]
      <4>1. hilo'[g].pc = "compacta" /\ hilo'[g].hasta = 0
        BY <1>2, <3>1 DEF Puesto
      <4>2. QED
        BY <1>5, <4>1
    <3>2. QED
      BY <2>1, <2>3, <3>1, CreaHilo
  <2>4. CASE CompactaUno(g)
    BY <1>1, <2>4, CompactaLleno DEF LlenoTodo
  <2>5. CASE Compactado(g) /\ hilo[g].ped.op = "crear"
    <3>1. /\ segs' = segs /\ hilo[g].pc = "compacta" /\ PorMover(g) = {}
          /\ hilo'[g].pc = "reintenta" /\ hilo'[g].ped.op = "crear"
      BY <1>2, <2>5 DEF Compactado, tabla, Puesto
    <3>2. ASSUME NEW z \in segs, NEW d \in 0..z.pos - 1
          PROVE  Ocupado(d)
      <4>1. z.pos \in Nat /\ hilo[g].hasta \in Nat /\ ~ (z.pos >= hilo[g].hasta)
        BY <1>1, <1>2, <3>1 DEF Tipos, TipoTabla, Segmento, PorMover, Puesto
      <4>2. d \in 0..hilo[g].hasta - 1
        BY <4>1
      <4>3. QED
        BY <1>1, <3>1, <4>2 DEF LlenoHasta
    <3>3. QED
      BY <3>1, <3>2 DEF LlenoHasta, LlenoTodo, Ocupado
  <2>6. CASE Compactado(g) /\ hilo[g].ped.op # "crear"
    BY <2>1, <2>6 DEF Compactado, Sale
  <2>7. CASE Destruye(g)
    BY <2>1, <2>7 DEF Destruye, Sale
  <2>8. QED
    BY <1>7, <2>2, <2>3, <2>4, <2>5, <2>6, <2>7 DEF Continua, Sirve
<1>8. ASSUME NEW h \in Hilos \ {g}, Continua(h)
      PROVE  LlenoHasta(g)' /\ LlenoTodo(g)'
  <2>1. hilo'[g] = hilo[g]
    BY <1>8 DEF Continua
  <2>2. CASE segs' = segs
    BY <1>3, <2>1, <2>2
  <2>3. CASE segs' # segs
    <3>1. Crea(h) \/ CompactaUno(h) \/ Destruye(h)
      BY <1>8, <2>3 DEF Continua, Sirve, Accede, Falla, Compactado, tabla
    <3>2. Adentro(h) /\ h \in {Plp, Consola}
      BY <1>1, <3>1, QuienCambia DEF Crea, CompactaUno, Destruye, Adentro
    <3>3. ~ (Adentro(g) /\ (hilo[g].pc = "compacta" \/ hilo[g].ped.op = "crear"))
      BY <1>1, <1>8, <3>2, QuienCambia DEF Solos
    <3>4. QED
      BY <1>1, <2>1, <3>3 DEF LlenoHasta, LlenoTodo, Adentro
  <2>4. QED
    BY <2>2, <2>3
<1>9. CASE Ajeno
  <2>1. CASE hilo'[g] = hilo[g]
    BY <1>3, <1>9, <2>1 DEF Ajeno
  <2>2. CASE hilo'[g] # hilo[g]
    BY <1>4, <1>9, <2>2 DEF Ajeno, Adentro
  <2>3. QED
    BY <2>1, <2>2
<1>10. QED
  BY <1>1, <1>6, <1>7, <1>8, <1>9, PasoHilos

\* If nothing is free below any segment, what is free is one space, and a size
\* that no space holds is more than what is free in all.
LEMMA UnSoloHueco ==
    ASSUME NEW S, S \subseteq Segmento,
           \A y, z \in S : y # z => ~ SeSolapan(y, z),
           \A z \in S : \A d \in 0..z.pos - 1 : \E y \in S : d \in Direcciones(y),
           NEW n \in Nat \ {0}, NEW a \in Algoritmos, Elegir(EspaciosLibres(S), n, a) = {}
    PROVE  TamMem - Cardinality(UNION {Direcciones(z) : z \in S}) < n
<1> USE SupuestosSegmentos
<1> DEFINE U == UNION {Direcciones(z) : z \in S}
           T == {t \in 0..TamMem : t \notin U}
<1>1. \A z \in S : /\ z.pos \in Nat /\ z.size \in Nat \ {0} /\ FinDe(z) \in 1..TamMem
                   /\ Direcciones(z) = z.pos .. FinDe(z) - 1 /\ z.pos < FinDe(z)
  BY DEF Segmento, EnMemoria, FinDe, Direcciones
<1>2. \A d : d \in U <=> \E z \in S : d \in Direcciones(z)
  OBVIOUS
<1> HIDE DEF U
<1>3. U \subseteq 0..TamMem - 1
  BY <1>1, <1>2
<1>4. ASSUME NEW d \in U, NEW e \in 0..d
      PROVE  e \in U
  <2>1. PICK z \in S : d \in Direcciones(z)
    BY <1>2
  <2>2. CASE e < z.pos
    <3>1. e \in 0..z.pos - 1
      BY <1>1, <2>2
    <3>2. QED
      BY <1>2, <3>1
  <2>3. CASE e >= z.pos
    <3>1. z.pos \in Nat /\ FinDe(z) \in Nat /\ d \in z.pos .. FinDe(z) - 1
      BY <1>1, <2>1
    <3>2. e \in z.pos .. FinDe(z) - 1
      BY <2>3, <3>1
    <3>3. e \in Direcciones(z)
      BY <1>1, <3>2
    <3>4. QED
      BY <1>2, <3>3
  <2>4. QED
    BY <1>1, <2>2, <2>3
<1>5. PICK m \in T : \A t \in T : m <= t
  <2>1. T \subseteq Nat /\ TamMem \in T
    BY <1>3
  <2>2. QED
    BY <2>1, HayMinimo
<1>6. m \in 0..TamMem /\ m \notin U
  BY <1>5
<1>7. U = 0..m - 1
  <2>1. ASSUME NEW d \in U
        PROVE  d \in 0..m - 1
    <3>1. d \in 0..TamMem - 1 /\ ~ (m \in 0..d)
      BY <1>3, <1>4, <1>6
    <3>2. QED
      BY <1>6, <3>1
  <2>2. ASSUME NEW d \in 0..m - 1
        PROVE  d \in U
    <3>1. d \in 0..TamMem /\ ~ (m <= d)
      BY <1>6
    <3>2. QED
      BY <1>5, <3>1
  <2>3. QED
    BY <2>1, <2>2
<1>8. Cardinality(U) = m
  <2>1. Cardinality(0..m - 1) = IF 0 > m - 1 THEN 0 ELSE m - 1 - 0 + 1
    BY <1>6, FS_Interval
  <2>2. QED
    BY <1>6, <1>7, <2>1
<1>9. SUFFICES ASSUME m + n <= TamMem
               PROVE  FALSE
  BY <1>6, <1>8 DEF U
<1>10. m \in {0} \cup {FinDe(z) : z \in S}
  <2>1. CASE m # 0
    <3>1. m - 1 \in U
      BY <1>6, <1>7, <2>1
    <3>2. PICK z \in S : m - 1 \in Direcciones(z)
      BY <1>2, <3>1
    <3>3. m \notin Direcciones(z)
      BY <1>2, <1>6
    <3>4. FinDe(z) = m
      BY <1>1, <1>6, <3>2, <3>3
    <3>5. QED
      BY <3>4
  <2>2. QED
    BY <2>1
<1>11. Tope(S, m) = TamMem
  <2>1. Tope(S, m) \in m..TamMem /\ (Tope(S, m) = TamMem \/ \E z \in S : Tope(S, m) = z.pos)
    BY <1>6, TopeBien
  <2>2. \A z \in S : z.pos \in U
    BY <1>1, <1>2
  <2>3. QED
    BY <1>6, <1>7, <2>1, <2>2
<1> DEFINE l == [dir |-> m, size |-> TamMem - m]
<1>12. l \in EspaciosLibres(S) /\ l.size >= n /\ l.dir = m /\ l.size = TamMem - m
  <2>1. l.size >= n /\ l.size > 0
    BY <1>6, <1>9
  <2>2. QED
    BY <1>10, <1>11, <2>1 DEF EspaciosLibres
<1> HIDE DEF l
<1>13. ASSUME NEW g \in EspaciosLibres(S)
       PROVE  m <= g.dir /\ g.size <= TamMem - m
  <2>1. g.dir \in Nat /\ g.size \in Nat \ {0} /\ g.dir + g.size <= TamMem
    BY LibresBien DEF Hueco
  <2>2. ASSUME NEW z \in S, g.dir \in Direcciones(z)
        PROVE  FALSE
    <3>1. g.dir + g.size <= z.pos \/ FinDe(z) <= g.dir
      BY LibreNoPisa
    <3>2. QED
      BY <1>1, <2>1, <2>2, <3>1
  <2>3. g.dir \notin U
    BY <1>2, <2>2
  <2>4. QED
    BY <1>6, <1>7, <2>1, <2>3
<1>14. l \in Elegir(EspaciosLibres(S), n, a)
  BY <1>12, <1>13 DEF Elegir, Algoritmos
<1>15. QED
  BY <1>14

\* What is answered to the PLP when it asks for a segment.
LEMMA CreaSiHayPaso ==
    ASSUME InvUMV, Compacto, Next, Responde(Plp, {"crear"}), roto = {}
    PROVE  resp'[Plp].cod # 0 \/ Libres < hilo[Plp].ped.size \/ segs' # segs
<1> USE HilosDistintos
<1> SUFFICES ASSUME resp'[Plp].cod = 0, segs' = segs
             PROVE  Libres < hilo[Plp].ped.size
  OBVIOUS
<1>1. /\ Adentro(Plp) /\ hilo[Plp].ped.op = "crear" /\ resp'[Plp] # resp[Plp]
      /\ Plp \in Conexiones /\ Plp \in Hilos /\ Tipos
  BY DEF Responde, InvUMV
<1>2. Crea(Plp)
  <2>1. ~ Accede(Plp) /\ ~ CompactaUno(Plp) /\ ~ Compactado(Plp) /\ ~ Destruye(Plp)
    BY <1>1 DEF Accede, CompactaUno, Compactado, Destruye
  <2>2. QED
    BY <1>1, <2>1, QuienResponde DEF Sirve
<1>3. PICK a \in AlgoritmosDe(Plp) :
        \/ Elegir(hilo[Plp].libres, hilo[Plp].ped.size, a) = {} /\ NoCreado(Plp)
        \/ \E l \in Elegir(hilo[Plp].libres, hilo[Plp].ped.size, a) :
           \E b \in DirInicio(segs, hilo[Plp].ped.prog, hilo[Plp].ped.size, Sorteo[hilo[Plp].ped.k]) :
              segs' = segs \cup {[prog |-> hilo[Plp].ped.prog, inicio |-> b,
                                  size |-> hilo[Plp].ped.size, pos |-> l.dir]}
  BY <1>2 DEF Crea
<1>4. hilo[Plp].ped.size \in Nat \ {0} /\ hilo[Plp].ped.k \in 1..5
  BY <1>1, AdentroTipo DEF Tipos, PedidoBien
<1>5. ASSUME NEW l, NEW b \in DirInicio(segs, hilo[Plp].ped.prog, hilo[Plp].ped.size, Sorteo[hilo[Plp].ped.k]),
             segs' = segs \cup {[prog |-> hilo[Plp].ped.prog, inicio |-> b,
                                 size |-> hilo[Plp].ped.size, pos |-> l.dir]}
      PROVE  FALSE
  <2>1. PICK z : z = [prog |-> hilo[Plp].ped.prog, inicio |-> b,
                      size |-> hilo[Plp].ped.size, pos |-> l.dir]
    OBVIOUS
  <2>2. z \in segs /\ z.prog = hilo[Plp].ped.prog /\ z.inicio = b /\ z.size = hilo[Plp].ped.size
    BY <1>5, <2>1
  <2>3. z \in Segmento /\ z.size \in 1..TamMem
    BY <1>1, <2>2, SupuestosSegmentos DEF Tipos, TipoTabla, Segmento, EnMemoria
  <2>4. EsAdecuadoInicio(b, z.size, z.inicio, z.size)
    BY <2>2 DEF DirInicio
  <2>5. b \in 0..Palabra - TamMem
    BY <2>2, <2>3 DEF Segmento
  <2>6. QED
    BY <2>2, <2>3, <2>4, <2>5, BasesApartadas
<1>6. Elegir(hilo[Plp].libres, hilo[Plp].ped.size, a) = {} /\ NoCreado(Plp)
  BY <1>3, <1>5
<1>7. hilo[Plp].pc = "reintenta"
  BY <1>1, <1>6 DEF NoCreado
<1>8. /\ hilo[Plp].libres = EspaciosLibres(segs) /\ Sana
      /\ \A z \in segs : \A d \in 0..z.pos - 1 : \E y \in segs : d \in Direcciones(y)
  BY <1>1, <1>7 DEF InvUMV, SinConsola, LibresAlDia, Compacto, LlenoTodo, Ocupado
<1>9. a \in Algoritmos
  BY <1>3, SupuestosUMV DEF AlgoritmosDe
<1>10. QED
  BY <1>1, <1>4, <1>6, <1>8, <1>9, UnSoloHueco DEF Tipos, TipoTabla, Sana, Libres

\* A program is told that there is no memory only if what is free does not add up
\* to what it asks for: compaction leaves one free space, however many segments,
\* programs and CPUs there are; or the base drawn is 0, which is the error value,
\* and the segment has been added.
THEOREM CreaSiempreSiHay == Spec => CreaSiHay
<1>1. Init => Compacto
  BY DEF Init, Quieto, Compacto, LlenoHasta, LlenoTodo
<1>2. InvUMV /\ Compacto /\ [Next]_vars => Compacto'
  <2>1. UNCHANGED vars /\ Compacto => Compacto'
    BY DEF vars, tabla, Compacto, LlenoHasta, LlenoTodo, Ocupado
  <2>2. QED
    BY <2>1, CompactoPaso
<1>3. InvUMV /\ Compacto /\ [Next]_vars
        => [Responde(Plp, {"crear"}) =>
              \/ resp'[Plp].cod # 0
              \/ Libres < hilo[Plp].ped.size
              \/ segs' # segs
              \/ ~Limpio]_vars
  BY CreaSiHayPaso DEF Limpio
<1>4. QED
  BY <1>1, <1>2, <1>3, UmvSiempre, PTL DEF Spec, CreaSiHay

-----------------------------------------------------------------------------
(* What is loaded stays loaded *)

Hay(p, b, n) == \E s \in segs : s.prog = p /\ s.inicio = b /\ s.size = n
Escrito(p) ==
    \E s \in segs : s.prog = p /\ s.inicio = bases[p][1] /\ \A d \in Direcciones(s) : mem[d] = p

\* The answer to the write of p's code has come.
YaEscrito(p) ==
    \/ estado[p] \in {"listo", "cpu"}
    \/ plp.pc # "select" /\ plp.p = p /\ (plp.k > 1 \/ (plp.pc = "escribe" /\ resp[Plp] # Nada))

\* Only programs that ended are to be destroyed.
Despedidos == \A p \in Programas : PorDestruir(p) => estado[p] = "fin"

\* Until something is broken into: the base the PLP is answered, and the one it
\* writes the code at, are of a segment as large as it asked for; and a program's
\* code is whole once the answer to its write has come.
Cargado ==
    roto = {} =>
        /\ plp.pc = "crea" /\ resp[Plp] # Nada /\ resp[Plp].cod # 0 =>
              Hay(plp.p, resp[Plp].cod, Carga[plp.p][plp.k])
        /\ plp.pc = "escribe" /\ plp.k = 1 => Hay(plp.p, bases[plp.p][1], Carga[plp.p][1])
        /\ \A p \in Programas : YaEscrito(p) => Escrito(p)

\* What a step may do to the state of a program.
LEMMA EstadoPaso ==
    ASSUME Tipos, Next, Turnos, NEW p \in Programas, estado'[p] # estado[p]
    PROVE  \/ estado[p] = "nuevo" /\ PlpAtiende(p)
           \/ /\ (PlpCreado \/ PlpEscrito) /\ estado[p] = "cargando" /\ plp.p = p
              /\ estado'[p] \in {"listo", "saliente"}
           \/ VaciarExit(p) /\ estado[p] = "saliente" /\ estado'[p] = "fin"
           \/ estado[p] = "listo" /\ estado'[p] = "cpu"
           \/ estado[p] = "cpu" /\ estado'[p] \in {"listo", "saliente"}
<1>1. estado \in [Programas -> Estados] /\ cpu \in [CPUs -> Programas \cup {Nada}] /\ estado' # estado
  BY DEF Tipos, TipoClientes
<1>2. ~ Main /\ ~ \E c \in Conexiones : ClienteConecta(c) \/ HiloArranca(c) \/ Duerme(c) \/ Entra(c)
  BY <1>1 DEF Main, MainWhile, MainAcepta, ClienteConecta, HiloArranca, Duerme, Entra, PideCandado, clientes
<1>3. ~ \E h \in Hilos : Sirve(h)
  BY <1>1 DEF Sirve, Accede, Falla, Crea, CompactaUno, Compactado, Destruye, clientes
<1>4. ~ ConsolaComando /\ ~ ConsolaConecta /\ ~ ConsolaApaga /\ ~ \E q \in Programas : ConsolaActivo(q)
  BY <1>1 DEF ConsolaComando, ConsolaConecta, ConsolaApaga, ConsolaActivo, clientes
<1>5. CASE PlpCreado \/ PlpEscrito
  <2>1. plp.pc # "select"
    BY <1>5 DEF PlpCreado, PlpEscrito
  <2>2. PICK q \in Programas : q = plp.p /\ estado[q] = "cargando"
    BY <2>1 DEF Turnos, Tipos, TipoClientes
  <2>3. Termina(q)
    BY <1>1, <1>5, <2>2, PlpCreadoHace, PlpEscritoHace
  <2>4. PICK e \in {"listo", "saliente"} : estado' = [estado EXCEPT ![q] = e]
    BY <2>3 DEF Termina
  <2>5. q = p /\ estado'[p] = e
    BY <1>1, <2>4
  <2>6. QED
    BY <1>5, <2>2, <2>4, <2>5
<1>6. ASSUME NEW q \in Programas, PlpAtiende(q) \/ VaciarExit(q)
      PROVE  \/ estado[p] = "nuevo" /\ PlpAtiende(p)
             \/ VaciarExit(p) /\ estado[p] = "saliente" /\ estado'[p] = "fin"
  <2>1. q = p
    BY <1>1, <1>6 DEF PlpAtiende, VaciarExit
  <2>2. QED
    BY <1>1, <1>6, <2>1 DEF PlpAtiende, VaciarExit
<1>7. ASSUME NEW c \in CPUs, Cpu(c)
      PROVE  \/ estado[p] = "listo" /\ estado'[p] = "cpu"
             \/ estado[p] = "cpu" /\ estado'[p] \in {"listo", "saliente"}
  <2>1. ASSUME NEW q \in Programas, CpuToma(c, q)
        PROVE  estado[p] = "listo" /\ estado'[p] = "cpu"
    BY <1>1, <2>1 DEF CpuToma
  <2>2. CASE CpuRecibe(c) \/ CpuDevuelve(c)
    <3>1. PICK e \in {"listo", "saliente"} : estado' = [estado EXCEPT ![cpu[c]] = e]
      BY <1>1, <2>2 DEF CpuRecibe, CpuDevuelve
    <3>2. cpu[c] = p /\ estado'[p] = e
      BY <1>1, <3>1
    <3>3. estado[p] = "cpu"
      BY <3>2, DueniosTipo DEF Turnos
    <3>4. QED
      BY <3>2, <3>3
  <2>3. ~ CpuPide(c)
    BY <1>1 DEF CpuPide
  <2>4. QED
    BY <1>7, <2>1, <2>2, <2>3 DEF Cpu
<1>8. QED
  BY <1>2, <1>3, <1>4, <1>5, <1>6, <1>7 DEF Next, Kernel

\* Only vaciar_exit asks for the destruction of a program.
LEMMA QuienDespide ==
    ASSUME Tipos, Next, NEW p \in Programas, PorDestruir(p)', ~ PorDestruir(p)
    PROVE  VaciarExit(p)
<1> USE HilosDistintos
<1>1. /\ cola \in [Conexiones -> Seq(Pedido)] /\ Plp \in Conexiones /\ Plp \in Hilos
      /\ cola[Plp] \in Seq(Pedido)
  BY DEF Tipos, TipoRed
<1>2. CASE (Adentro(Plp) /\ hilo[Plp].ped.op = "destruir" /\ hilo[Plp].ped.prog = p)'
  <2>1. hilo'[Plp] # hilo[Plp]
    BY <1>2 DEF PorDestruir, Adentro
  <2>2. ASSUME NEW h \in Hilos, Continua(h)
        PROVE  FALSE
    <3>1. h = Plp
      BY <1>1, <2>1, <2>2 DEF Continua
    <3>2. QED
      BY <1>2, <2>2, <3>1 DEF Continua, PorDestruir
  <2>3. ASSUME NEW h \in Hilos, NEW q, Inicia(h, q)
        PROVE  FALSE
    <3>1. h = Plp /\ hilo'[Plp].ped = q
      BY <1>1, <2>1, <2>3, IniciaHilo DEF Tipos
    <3>2. q = Head(cola[Plp]) /\ cola[Plp] # <<>>
      BY <2>3, <3>1 DEF Inicia, Entra, PideCandado
    <3>3. 1 \in 1..Len(cola[Plp]) /\ q = cola[Plp][1]
      BY <1>1, <3>2, HeadTailProperties, LenProperties, EmptySeq
    <3>4. QED
      BY <1>2, <3>1, <3>3 DEF PorDestruir
  <2>4. ~ Ajeno
    BY <1>1, <1>2, <2>1 DEF Ajeno
  <2>5. QED
    BY <2>2, <2>3, <2>4, PasoHilos
<1>3. ASSUME NEW i \in 1..Len(cola'[Plp]), cola'[Plp][i].op = "destruir", cola'[Plp][i].prog = p
      PROVE  VaciarExit(p)
  <2>1. cola'[Plp] # cola[Plp]
    BY <1>3 DEF PorDestruir
  <2>2. ASSUME NEW q \in Pedido, Pedir(Plp, q)
        PROVE  q.op = "destruir" /\ q.prog = p
    <3>1. cola'[Plp] = Append(cola[Plp], q)
      BY <1>1, <2>2 DEF Pedir
    <3>2. /\ Len(cola'[Plp]) = Len(cola[Plp]) + 1 /\ cola'[Plp][Len(cola[Plp]) + 1] = q
          /\ \A j \in 1..Len(cola[Plp]) : cola'[Plp][j] = cola[Plp][j]
          /\ Len(cola[Plp]) \in Nat
      BY <1>1, <3>1, AppendProperties, LenProperties
    <3>3. i \notin 1..Len(cola[Plp])
      BY <1>3, <3>2 DEF PorDestruir
    <3>4. i = Len(cola[Plp]) + 1
      BY <1>3, <3>2, <3>3
    <3>5. QED
      BY <1>3, <3>2, <3>4
  <2>3. ASSUME NEW c \in Conexiones, ClienteConecta(c) \/ HiloArranca(c) \/ Duerme(c) \/ Entra(c)
        PROVE  FALSE
    <3>1. Entra(Plp)
      <4>1. Entra(c)
        BY <2>1, <2>3 DEF ClienteConecta, HiloArranca, Duerme
      <4>2. c = Plp
        BY <1>1, <2>1, <4>1 DEF Entra, PideCandado
      <4>3. QED
        BY <4>1, <4>2
    <3>2. cola'[Plp] = Tail(cola[Plp]) /\ cola[Plp] # <<>>
      BY <1>1, <3>1 DEF Entra, PideCandado
    <3>3. i + 1 \in 1..Len(cola[Plp]) /\ cola'[Plp][i] = cola[Plp][i + 1]
      BY <1>1, <3>2, HeadTailProperties, LenProperties
    <3>4. QED
      BY <1>3, <3>3 DEF PorDestruir
  <2>4. ~ (Main \/ (\E h \in Hilos : Sirve(h)) \/ ConsolaComando \/ ConsolaConecta \/ ConsolaApaga
            \/ \E q \in Programas : ConsolaActivo(q))
    BY <2>1 DEF Main, MainWhile, MainAcepta, Sirve, Accede, Falla, Crea, CompactaUno, Compactado,
                Destruye, ConsolaComando, ConsolaConecta, ConsolaApaga, ConsolaActivo
  <2>5. \A c \in CPUs : ~ Cpu(c)
    BY <1>1, <2>1, CpuPideHace DEF Cpu, CpuToma, CpuRecibe, CpuDevuelve, Pedir
  <2>6. \A q \in Programas : ~ Pregunta(q)
    <3>1. PedidosDe(Plp) \subseteq Pedido
      BY <1>1 DEF Pedido
    <3>2. QED
      BY <2>2, <3>1 DEF Pregunta
  <2>7. ~ PlpCreado /\ ~ PlpEscrito /\ \A q \in Programas : ~ PlpAtiende(q)
    <3>1. \A q \in Programas : ~ Termina(q)
      BY <2>1 DEF Termina
    <3>2. PlpCreado \/ PlpEscrito => plp.p \in Programas
      BY DEF PlpCreado, PlpEscrito, Tipos, TipoClientes
    <3>3. QED
      BY <2>6, <3>1, <3>2, PlpCreadoHace, PlpEscritoHace, PlpAtiendeHace
  <2>8. PICK q \in Programas : VaciarExit(q)
    BY <2>3, <2>4, <2>5, <2>7 DEF Next, Kernel
  <2>9. PICK r : r = [op |-> "destruir", prog |-> q]
    OBVIOUS
  <2>10. r.prog = q /\ r \in Pedido
    <3>1. r \in PDestruir(Programas) /\ r.prog = q
      BY <2>9 DEF PDestruir
    <3>2. QED
      BY <1>1, <3>1 DEF PedidosDe, Pedido
  <2>11. Pedir(Plp, r)
    BY <2>8, <2>9 DEF VaciarExit
  <2>12. QED
    BY <2>2, <2>8, <2>10, <2>11
<1>4. QED
  BY <1>2, <1>3 DEF PorDestruir

\* Every step keeps what is to be destroyed ended.
LEMMA DespedidosPaso ==
    ASSUME Tipos, Next, Turnos, Despedidos
    PROVE  Despedidos'
<1> SUFFICES ASSUME NEW p \in Programas, PorDestruir(p)'
             PROVE  estado'[p] = "fin"
  BY DEF Despedidos
<1>1. CASE PorDestruir(p)
  <2>1. estado[p] = "fin"
    BY <1>1 DEF Despedidos
  <2>2. QED
    BY <2>1, EstadoPaso
<1>2. CASE ~ PorDestruir(p)
  <2>1. VaciarExit(p)
    BY <1>2, QuienDespide
  <2>2. QED
    BY <2>1 DEF VaciarExit, Tipos, TipoClientes
<1>3. QED
  BY <1>1, <1>2

\* What an access writes until something is broken into: bytes of the program it is
\* for, in one segment of that program.
LEMMA EscribeLoSuyo ==
    ASSUME InvUMV, NEW h \in Hilos, Accede(h), mem' # mem, roto = {}, roto' = {}
    PROVE  \E s \in De(hilo[h].ped.prog) :
              \A d \in 0..TamMem - 1 :
                  mem'[d] # mem[d] => d \in Direcciones(s) /\ mem'[d] = hilo[h].ped.prog
<1> USE HilosDistintos
<1>1. PICK s \in Solicitados(segs, activo, hilo[h].ped.base) : Copia(h, s)
  BY DEF Accede, Falla, tabla
<1> DEFINE zona == s.pos + hilo[h].ped.off .. s.pos + hilo[h].ped.off + hilo[h].ped.tam - 1
<1>2. h # Consola /\ h \in Conexiones
  BY <1>1 DEF Copia, Hilos
<1>3. /\ zona \subseteq Direcciones(s) /\ hilo[h].ped.op = "enviar"
      /\ mem' = [d \in 0..TamMem - 1 |-> IF d \in zona THEN hilo[h].ped.val ELSE mem[d]]
  BY <1>1 DEF Copia
<1> HIDE DEF zona
<1>4. Adentro(h)
  BY DEF Accede, Adentro
<1>5. activo = hilo[h].ped.prog
  BY <1>2, <1>3, <1>4 DEF InvUMV, Exclusion
<1>6. hilo[h].ped.val = hilo[h].ped.prog
  BY <1>2, <1>3, <1>4, AdentroTipo DEF InvUMV, Tipos, PedidoBien
<1>7. s \in De(hilo[h].ped.prog)
  BY <1>5 DEF Solicitados, De
<1>8. QED
  BY <1>3, <1>6, <1>7

\* A segment of a program that has not ended stays, and so do its bytes if they are
\* the program's.
LEMMA SegmentoSigue ==
    ASSUME InvUMV, Next, Despedidos, roto' = {}, NEW p \in Programas, estado[p] # "fin",
           NEW s \in segs, s.prog = p
    PROVE  \E m \in segs' :
              /\ m.prog = p /\ m.inicio = s.inicio /\ m.size = s.size
              /\ (\A d \in Direcciones(s) : mem[d] = p) => \A d \in Direcciones(m) : mem'[d] = p
<1> USE HilosDistintos
<1>1. roto = {} /\ Tipos /\ Sana /\ (\A h \in Hilos : HastaAlDia(h)) /\ s \in Segmento
  BY RotoCrece DEF InvUMV, SinConsola, Tipos, TipoTabla
<1>2. /\ s.pos \in Nat /\ s.size \in Nat \ {0} /\ s.pos + s.size <= TamMem
      /\ Direcciones(s) = s.pos .. s.pos + s.size - 1 /\ Direcciones(s) \subseteq 0..TamMem - 1
  BY <1>1, SupuestosSegmentos DEF Segmento, EnMemoria, Direcciones, FinDe
<1>3. ASSUME s \in segs', \A d \in Direcciones(s) : mem[d] = p => mem'[d] = p
      PROVE  \E m \in segs' :
                /\ m.prog = p /\ m.inicio = s.inicio /\ m.size = s.size
                /\ (\A d \in Direcciones(s) : mem[d] = p) => \A d \in Direcciones(m) : mem'[d] = p
  BY <1>3
<1>4. CASE segs' = segs /\ mem' = mem
  BY <1>3, <1>4
<1>5. ASSUME NEW h \in Hilos, Accede(h), mem' # mem
      PROVE  s \in segs' /\ \A d \in Direcciones(s) : mem[d] = p => mem'[d] = p
  <2>1. segs' = segs
    BY <1>5 DEF Accede, Falla, tabla
  <2>2. PICK z \in De(hilo[h].ped.prog) :
          \A d \in 0..TamMem - 1 :
              mem'[d] # mem[d] => d \in Direcciones(z) /\ mem'[d] = hilo[h].ped.prog
    BY <1>1, <1>5, EscribeLoSuyo
  <2>3. CASE hilo[h].ped.prog = p
    BY <1>2, <2>1, <2>2, <2>3
  <2>4. CASE hilo[h].ped.prog # p
    <3>1. z # s /\ z \in segs
      BY <2>4 DEF De
    <3>2. Direcciones(s) \cap Direcciones(z) = {}
      BY <1>1, <3>1 DEF Sana, SeSolapan
    <3>3. QED
      BY <1>2, <2>1, <2>2, <3>2
  <2>5. QED
    BY <2>3, <2>4
<1>6. ASSUME NEW h \in Hilos, Crea(h)
      PROVE  s \in segs' /\ mem' = mem
  <2>1. segs \subseteq segs'
    <3>1. CASE segs' # segs
      BY <1>1, <1>6, <3>1, CreadoAparte
    <3>2. QED
      BY <3>1
  <2>2. QED
    BY <1>6, <2>1 DEF Crea
<1>7. ASSUME NEW h \in Hilos, CompactaUno(h)
      PROVE  \E m \in segs' :
                /\ m.prog = p /\ m.inicio = s.inicio /\ m.size = s.size
                /\ (\A d \in Direcciones(s) : mem[d] = p) => \A d \in Direcciones(m) : mem'[d] = p
  <2>1. PICK x \in segs, m \in Segmento :
          /\ segs' = (segs \ {x}) \cup {m}
          /\ m.prog = x.prog /\ m.inicio = x.inicio /\ m.size = x.size
          /\ \A o \in 0..x.size - 1 : mem'[m.pos + o] = mem[x.pos + o]
          /\ \A y \in segs \ {x} : \A o \in 0..y.size - 1 : mem'[y.pos + o] = mem[y.pos + o]
    BY <1>1, <1>7, MovidoEntero
  <2>2. CASE x = s
    <3>1. /\ m.pos \in Nat /\ m.size = s.size
          /\ Direcciones(m) = m.pos .. m.pos + s.size - 1
      BY <2>1, <2>2 DEF Segmento, Direcciones, FinDe
    <3>2. ASSUME \A d \in Direcciones(s) : mem[d] = p, NEW d \in Direcciones(m)
          PROVE  mem'[d] = p
      <4>1. PICK o \in 0..s.size - 1 : d = m.pos + o
        <5>1. d - m.pos \in 0..s.size - 1 /\ d = m.pos + (d - m.pos)
          BY <1>2, <3>1
        <5>2. QED
          BY <5>1
      <4>2. s.pos + o \in Direcciones(s)
        BY <1>2
      <4>3. QED
        BY <2>1, <2>2, <3>2, <4>1, <4>2
    <3>3. QED
      BY <2>1, <2>2, <3>2
  <2>3. CASE x # s
    <3>1. s \in segs'
      BY <2>1, <2>3
    <3>2. ASSUME NEW d \in Direcciones(s)
          PROVE  mem'[d] = mem[d]
      <4>1. d - s.pos \in 0..s.size - 1 /\ d = s.pos + (d - s.pos)
        BY <1>2
      <4>2. QED
        BY <2>1, <2>3, <4>1
    <3>3. QED
      BY <1>3, <3>1, <3>2
  <2>4. QED
    BY <2>2, <2>3
<1>8. ASSUME NEW h \in Hilos, Destruye(h)
      PROVE  s \in segs' /\ mem' = mem
  <2>1. Adentro(h) /\ hilo[h].ped.op = "destruir"
    BY <1>8 DEF Destruye, Adentro
  <2>2. (h = Plp /\ hilo[h].ped.prog \in Programas) \/ (h = Consola /\ hilo[h].ped.prog = Operador)
    BY <1>1, <2>1, AdentroTipo DEF Tipos, PedidoBien
  <2>3. hilo[h].ped.prog # p
    BY <2>1, <2>2, DueniosTipo DEF Despedidos, PorDestruir
  <2>4. QED
    BY <1>8, <2>3 DEF Destruye, Marcados
<1>9. ASSUME NEW h \in Hilos, Sirve(h)
      PROVE  \E m \in segs' :
                /\ m.prog = p /\ m.inicio = s.inicio /\ m.size = s.size
                /\ (\A d \in Direcciones(s) : mem[d] = p) => \A d \in Direcciones(m) : mem'[d] = p
  <2>1. CASE Accede(h)
    <3>1. segs' = segs
      BY <2>1 DEF Accede, Falla, tabla
    <3>2. QED
      BY <1>3, <1>4, <1>5, <2>1, <3>1
  <2>2. CASE Crea(h) \/ Destruye(h)
    BY <1>3, <1>6, <1>8, <2>2
  <2>3. CASE CompactaUno(h)
    BY <1>7, <2>3
  <2>4. CASE Compactado(h)
    BY <1>4, <2>4 DEF Compactado, tabla
  <2>5. QED
    BY <1>9, <2>1, <2>2, <2>3, <2>4 DEF Sirve
<1>10. ASSUME Main \/ (\E c \in Conexiones : ClienteConecta(c) \/ HiloArranca(c) \/ Duerme(c) \/ Entra(c))
              \/ ConsolaComando \/ (\E q \in Programas : ConsolaActivo(q))
              \/ ConsolaConecta \/ ConsolaApaga \/ Kernel \/ (\E c \in CPUs : Cpu(c))
       PROVE  segs' = segs /\ mem' = mem
  BY <1>10 DEF Main, MainWhile, MainAcepta, ClienteConecta, HiloArranca, Duerme, Entra, PideCandado, ConsolaComando,
               ConsolaActivo, ConsolaConecta, ConsolaApaga, Kernel, PlpCreado, PlpEscrito,
               PlpAtiende, VaciarExit, Cpu, CpuToma, CpuPide, CpuRecibe, CpuDevuelve, tabla
<1>11. QED
  BY <1>4, <1>9, <1>10 DEF Next

\* What a program has and has written is kept while it has not ended.
LEMMA HaySigue ==
    ASSUME InvUMV, Next, Despedidos, roto' = {}, NEW p \in Programas, estado[p] # "fin",
           NEW b, NEW n, Hay(p, b, n)
    PROVE  Hay(p, b, n)'
<1>1. PICK s \in segs : s.prog = p /\ s.inicio = b /\ s.size = n
  BY DEF Hay
<1>2. PICK m \in segs' : m.prog = p /\ m.inicio = s.inicio /\ m.size = s.size
  BY <1>1, SegmentoSigue
<1>3. QED
  BY <1>1, <1>2 DEF Hay

\* So is what it has written, while its base is the same.
LEMMA EscritoSigue ==
    ASSUME InvUMV, Next, Despedidos, roto' = {}, NEW p \in Programas, estado[p] # "fin",
           bases'[p][1] = bases[p][1], Escrito(p)
    PROVE  Escrito(p)'
<1>1. PICK s \in segs : s.prog = p /\ s.inicio = bases[p][1] /\ \A d \in Direcciones(s) : mem[d] = p
  BY DEF Escrito
<1>2. PICK m \in segs' :
        /\ m.prog = p /\ m.inicio = s.inicio
        /\ (\A d \in Direcciones(s) : mem[d] = p) => \A d \in Direcciones(m) : mem'[d] = p
  BY <1>1, SegmentoSigue
<1>3. QED
  BY <1>1, <1>2 DEF Escrito

\* Only the answer to crear_segmento changes the bases of a PCB.
LEMMA BasesCambian ==
    ASSUME Tipos, Next, NEW p \in Programas, bases'[p][1] # bases[p][1]
    PROVE  PlpCreado /\ plp.p = p /\ plp.k = 1
<1>1. ~ (Main \/ \E c \in Conexiones : ClienteConecta(c) \/ HiloArranca(c) \/ Duerme(c) \/ Entra(c))
  BY DEF Main, MainWhile, MainAcepta, ClienteConecta, HiloArranca, Duerme, Entra, PideCandado, clientes
<1>2. ~ \E h \in Hilos : Sirve(h)
  BY DEF Sirve, Accede, Falla, Crea, CompactaUno, Compactado, Destruye, clientes
<1>3. ~ (ConsolaComando \/ ConsolaConecta \/ ConsolaApaga \/ \E q \in Programas : ConsolaActivo(q))
  BY DEF ConsolaComando, ConsolaConecta, ConsolaApaga, ConsolaActivo, clientes
<1>4. ~ (PlpEscrito \/ (\E q \in Programas : PlpAtiende(q) \/ VaciarExit(q)) \/ \E c \in CPUs : Cpu(c))
  BY DEF PlpEscrito, PlpAtiende, VaciarExit, Cpu, CpuToma, CpuPide, CpuRecibe, CpuDevuelve
<1>5. PlpCreado
  BY <1>1, <1>2, <1>3, <1>4 DEF Next, Kernel
<1>6. bases' = [bases EXCEPT ![plp.p][plp.k] = resp[Plp].cod]
  BY <1>5 DEF PlpCreado
<1>7. bases \in [Programas -> [1..4 -> Int]] /\ plp.p \in Programas /\ plp.k \in 1..4
  BY <1>5, PlpTipo DEF PlpCreado, Tipos, TipoClientes
<1>8. QED
  BY <1>5, <1>6, <1>7

\* Only the kernel changes what the PLP is doing.
LEMMA PlpCambia ==
    ASSUME Next, plp' # plp
    PROVE  PlpCreado \/ PlpEscrito \/ \E p \in Programas : PlpAtiende(p)
<1>1. ~ (Main \/ \E c \in Conexiones : ClienteConecta(c) \/ HiloArranca(c) \/ Duerme(c) \/ Entra(c))
  BY DEF Main, MainWhile, MainAcepta, ClienteConecta, HiloArranca, Duerme, Entra, PideCandado, clientes
<1>2. ~ \E h \in Hilos : Sirve(h)
  BY DEF Sirve, Accede, Falla, Crea, CompactaUno, Compactado, Destruye, clientes
<1>3. ~ (ConsolaComando \/ ConsolaConecta \/ ConsolaApaga \/ \E q \in Programas : ConsolaActivo(q))
  BY DEF ConsolaComando, ConsolaConecta, ConsolaApaga, ConsolaActivo, clientes
<1>4. ~ ((\E q \in Programas : VaciarExit(q)) \/ \E c \in CPUs : Cpu(c))
  BY DEF VaciarExit, Cpu, CpuToma, CpuPide, CpuRecibe, CpuDevuelve
<1>5. QED
  BY <1>1, <1>2, <1>3, <1>4 DEF Next, Kernel

\* The PLP is answered by the thread of its connection, and reads what it is answered.
LEMMA RespuestaCambia ==
    ASSUME Tipos, Next, resp'[Plp] # resp[Plp]
    PROVE  \/ (PlpCreado \/ PlpEscrito) /\ resp'[Plp] = Nada
           \/ Sirve(Plp)
<1> USE HilosDistintos
<1>1. resp \in [Conexiones -> Respuesta \cup {Nada}] /\ Plp \in Conexiones
  BY DEF Tipos, TipoRed
<1>2. ~ (Main \/ \E c \in Conexiones : ClienteConecta(c) \/ HiloArranca(c) \/ Duerme(c) \/ Entra(c))
  BY DEF Main, MainWhile, MainAcepta, ClienteConecta, HiloArranca, Duerme, Entra, PideCandado
<1>3. ~ (ConsolaComando \/ ConsolaConecta \/ ConsolaApaga \/ \E q \in Programas : ConsolaActivo(q))
  BY DEF ConsolaComando, ConsolaConecta, ConsolaApaga, ConsolaActivo
<1>4. ~ (\E q \in Programas : PlpAtiende(q) \/ VaciarExit(q))
  BY DEF PlpAtiende, VaciarExit
<1>5. ASSUME NEW c \in CPUs, Cpu(c)
      PROVE  FALSE
  <2>1. resp' = resp \/ resp' = [resp EXCEPT ![c] = Nada]
    BY <1>5 DEF Cpu, CpuToma, CpuPide, CpuRecibe, CpuDevuelve
  <2>2. QED
    BY <1>1, <2>1
<1>6. ASSUME NEW h \in Hilos, Sirve(h)
      PROVE  h = Plp
  <2>1. resp' = resp \/ \E r \in Respuesta : resp' = [resp EXCEPT ![h] = r]
    BY <1>6, AccedeResponde, CreaResponde DEF Sirve, CompactaUno, Compactado, Destruye, Sale
  <2>2. QED
    BY <1>1, <2>1
<1>7. PlpCreado \/ PlpEscrito => resp'[Plp] = Nada
  BY <1>1 DEF PlpCreado, PlpEscrito
<1>8. QED
  BY <1>2, <1>3, <1>4, <1>5, <1>6, <1>7 DEF Next, Kernel

\* An answer to crear_segmento that is not 0 is the base of the segment added.
LEMMA CreaRespondeBien ==
    ASSUME Tipos, NEW h \in Conexiones, Crea(h), resp'[h] # resp[h], resp'[h].cod # 0
    PROVE  \E z \in segs' : /\ z.prog = hilo[h].ped.prog /\ z.size = hilo[h].ped.size
                            /\ z.inicio = resp'[h].cod
<1> USE HilosDistintos
<1>1. resp \in [Conexiones -> Respuesta \cup {Nada}] /\ h # Consola
  BY DEF Tipos, TipoRed
<1>2. ASSUME NEW n, Sale(h, Codigo(n))
      PROVE  resp'[h].cod = n
  BY <1>1, <1>2 DEF Sale, Codigo
<1>3. ~ NoCreado(h)
  BY <1>2 DEF NoCreado
<1>4. PICK l, b :
        /\ segs' = segs \cup {[prog |-> hilo[h].ped.prog, inicio |-> b,
                               size |-> hilo[h].ped.size, pos |-> l.dir]}
        /\ Sale(h, Codigo(b))
  BY <1>3 DEF Crea
<1>5. PICK z : z = [prog |-> hilo[h].ped.prog, inicio |-> b, size |-> hilo[h].ped.size, pos |-> l.dir]
  OBVIOUS
<1>6. z \in segs' /\ z.prog = hilo[h].ped.prog /\ z.size = hilo[h].ped.size /\ z.inicio = b
  BY <1>4, <1>5
<1>7. QED
  BY <1>2, <1>4, <1>6

\* The write of the code puts all of its bytes in the segment the PLP was given.
LEMMA AccedeEscribe ==
    ASSUME InvUMV, BasesDistintas, Accede(Plp), roto = {}, roto' = {}, plp' = plp, bases' = bases,
           plp.pc = "escribe", plp.k = 1, Hay(plp.p, bases[plp.p][1], Carga[plp.p][1])
    PROVE  Escrito(plp.p)'
<1> USE HilosDistintos
<1>1. plp.p \in Programas
  BY DEF InvUMV, Tipos, TipoClientes
<1> DEFINE p == plp.p
           ped == hilo[Plp].ped
<1>2. Adentro(Plp) /\ PedidoBien(Plp, ped) /\ ped.op = "enviar"
  BY <1>1, AdentroTipo DEF Accede, Adentro, InvUMV, Tipos, PedidoBien
<1>3. /\ ped.prog = p /\ ped.val = p /\ ped.base = bases[p][1] /\ ped.off = 0
      /\ ped.tam = Carga[p][1] /\ ped.tam \in Nat \ {0}
  BY <1>1, <1>2 DEF PedidoBien, InvUMV, UnPedido, EnCurso, Espera
<1>4. activo = p
  BY <1>1, <1>2, <1>3 DEF InvUMV, Exclusion
<1>5. PICK s \in segs : s.prog = p /\ s.inicio = bases[p][1] /\ s.size = ped.tam
  BY <1>1, <1>3 DEF Hay
<1>6. Solicitados(segs, activo, ped.base) = {s}
  BY <1>3, <1>4, <1>5 DEF Solicitados, BasesDistintas
<1>7. s \in Segmento /\ s.inicio \in 0..Palabra - TamMem /\ s.size \in 1..TamMem /\ s.pos \in Nat
  BY <1>5, SupuestosSegmentos DEF InvUMV, Tipos, TipoTabla, Segmento, EnMemoria
<1>8. ChequearLimites(s, ped.off, ped.tam)
  <2>1. s.inicio + ped.off = s.inicio /\ s.inicio \in 0..Palabra - 1
    BY <1>3, <1>7, SupuestosSegmentos
  <2>2. (s.inicio + ped.off) % Palabra = s.inicio
    BY <2>1, SinVuelta
  <2>3. UltimoVirtual(s.inicio, s.size) = s.inicio + s.size - 1 /\ s.inicio + s.size - 1 \in 0..Palabra - 1
    BY <1>7, UltimoBien
  <2>4. (s.inicio + ped.tam - 1) % Palabra = s.inicio + s.size - 1
    BY <1>5, <2>3, SinVuelta
  <2>5. QED
    BY <1>7, <2>2, <2>3, <2>4 DEF ChequearLimites
<1>9. Copia(Plp, s) /\ segs' = segs
  <2>1. segs' = segs
    BY DEF Accede, Falla, tabla
  <2>2. QED
    BY <1>1, <1>6, <1>8, <2>1 DEF Accede
<1> DEFINE zona == s.pos + ped.off .. s.pos + ped.off + ped.tam - 1
<1>10. /\ zona \subseteq Direcciones(s)
       /\ mem' = [d \in 0..TamMem - 1 |-> IF d \in zona THEN ped.val ELSE mem[d]]
  <2>1. zona \subseteq Direcciones(s)
    BY <1>1, <1>9 DEF Copia
  <2>2. QED
    BY <1>1, <1>2, <1>9, <2>1 DEF Copia
<1>11. zona = Direcciones(s)
  BY <1>3, <1>5, <1>7 DEF Direcciones, FinDe
<1>12. Direcciones(s) \subseteq 0..TamMem - 1
  BY <1>7, SupuestosSegmentos DEF Direcciones, FinDe, Segmento, EnMemoria
<1> HIDE DEF zona
<1>13. \A d \in Direcciones(s) : mem'[d] = p
  BY <1>3, <1>10, <1>11, <1>12
<1>14. QED
  BY <1>1, <1>5, <1>9, <1>13 DEF Escrito

\* What the thread of the PLP's connection answers is what the PLP waits for.
LEMMA QueSeResponde ==
    ASSUME InvUMV, Sirve(Plp), resp'[Plp] # resp[Plp]
    PROVE  /\ plp' = plp /\ bases' = bases /\ plp.pc # "select"
           /\ \/ Accede(Plp) /\ plp.pc = "escribe"
              \/ Crea(Plp) /\ plp.pc = "crea" /\ hilo[Plp].ped.prog = plp.p
                           /\ hilo[Plp].ped.size = Carga[plp.p][plp.k]
<1> USE HilosDistintos
<1>1. plp' = plp /\ bases' = bases
  BY DEF Sirve, Accede, Falla, Crea, CompactaUno, Compactado, Destruye, clientes
<1>2. Accede(Plp) \/ Crea(Plp)
  BY DEF Sirve, CompactaUno, Compactado, Destruye, Sale
<1>3. Adentro(Plp) /\ PedidoBien(Plp, hilo[Plp].ped)
  BY <1>2, AdentroTipo DEF Accede, Crea, Adentro, InvUMV, Tipos
<1>4. CASE Accede(Plp)
  <2>1. hilo[Plp].ped.op = "enviar"
    BY <1>3, <1>4 DEF Accede, PedidoBien
  <2>2. QED
    BY <1>1, <1>3, <1>4, <2>1 DEF InvUMV, UnPedido, EnCurso, Espera
<1>5. CASE Crea(Plp)
  <2>1. hilo[Plp].ped.op = "crear"
    BY <1>5 DEF Crea
  <2>2. QED
    BY <1>1, <1>3, <1>5, <2>1 DEF InvUMV, UnPedido, EnCurso, Espera
<1>6. QED
  BY <1>2, <1>4, <1>5

\* What the PLP does with an answer, when it goes on: it is still with the same
\* program, and writes the code only once it has its segment.
LEMMA PlpRecibe ==
    ASSUME Tipos, PlpCreado \/ PlpEscrito, plp'.pc # "select"
    PROVE  /\ plp'.p = plp.p /\ plp.p \in Programas /\ plp.k \in 1..4
           /\ PlpCreado /\ plp.k = 1 =>
                 /\ plp'.pc = "escribe" /\ plp'.k = 1
                 /\ resp[Plp].cod # 0 /\ bases'[plp.p][1] = resp[Plp].cod
           /\ plp'.pc = "escribe" /\ plp'.k = 1 => PlpCreado /\ plp.k = 1
<1>1. PICK p \in Programas, k \in 1..4 : p = plp.p /\ k = plp.k
  BY PlpTipo DEF PlpCreado, PlpEscrito
<1>2. ~ PlpRebota(p)
  BY DEF PlpRebota, PlpPasa
<1>3. ASSUME NEW j \in 1..5, PlpSigue(p, j)
      PROVE  plp'.p = p /\ plp'.pc = "crea"
  BY <1>3 DEF PlpSigue, PlpPasa
<1>4. CASE PlpCreado
  <2>1. bases' = [bases EXCEPT ![p][k] = resp[Plp].cod] /\ resp[Plp].cod # 0
    BY <1>1, <1>2, <1>4 DEF PlpCreado
  <2>2. bases'[p][k] = resp[Plp].cod
    BY <2>1 DEF Tipos, TipoClientes
  <2>3. CASE k = 2
    <3>1. PlpSigue(p, 3)
      BY <1>1, <1>4, <2>1, <2>3 DEF PlpCreado
    <3>2. QED
      BY <1>1, <1>3, <2>3, <3>1
  <2>4. CASE k # 2
    <3>1. PlpPasa("escribe", p, k, 0)
      BY <1>1, <1>4, <2>1, <2>4 DEF PlpCreado
    <3>2. plp'.p = p /\ plp'.pc = "escribe" /\ plp'.k = k
      BY <3>1 DEF PlpPasa
    <3>3. PlpCreado /\ plp.k = 1 => bases'[plp.p][1] = resp[Plp].cod
      BY <1>1, <2>2
    <3>4. QED
      BY <1>1, <1>4, <2>1, <3>2, <3>3
  <2>5. QED
    BY <2>3, <2>4
<1>5. CASE PlpEscrito
  <2>1. ~ PlpCreado
    BY <1>5 DEF PlpCreado, PlpEscrito
  <2>2. CASE PlpSigue(p, k + 1)
    <3>1. k + 1 \in 1..5
      OBVIOUS
    <3>2. plp'.p = p /\ plp'.pc = "crea"
      BY <1>3, <2>2, <3>1
    <3>3. QED
      BY <1>1, <2>1, <3>2
  <2>3. CASE k = 3 /\ PlpPasa("escribe", p, k, plp.i + 1)
    <3>1. plp'.p = p /\ plp'.k = 3
      BY <2>3 DEF PlpPasa
    <3>2. QED
      BY <1>1, <2>1, <3>1
  <2>4. QED
    BY <1>1, <1>2, <1>5, <2>2, <2>3 DEF PlpEscrito
<1>6. QED
  BY <1>4, <1>5

\* A program that begins to be loaded has asked for its first segment.
LEMMA PlpEmpieza ==
    ASSUME InvUMV, NEW p \in Programas, PlpAtiende(p)
    PROVE  plp'.pc = "crea" /\ plp'.p = p /\ plp'.k = 1 /\ resp'[Plp] = Nada /\ estado[p] = "nuevo"
<1>1. plp' = [pc |-> "crea", p |-> p, k |-> 1, i |-> 0]
  BY DEF PlpAtiende, PlpPasa
<1>2. resp[Plp] = Nada /\ resp' = resp
  BY DEF PlpAtiende, InvUMV, UnPedido
<1>3. QED
  BY <1>1, <1>2 DEF PlpAtiende

\* The step after which the answer to the write of p's code has come is the write.
LEMMA YaEscritoPaso ==
    ASSUME InvUMV, Next, NEW p \in Programas, YaEscrito(p)', ~ YaEscrito(p)
    PROVE  Accede(Plp) /\ plp' = plp /\ bases' = bases /\ plp.p = p /\ plp.pc = "escribe" /\ plp.k = 1
<1>1. Tipos /\ Turnos
  BY DEF InvUMV
<1>2. ~ (estado'[p] \in {"listo", "cpu"})
  <2> SUFFICES ASSUME estado'[p] \in {"listo", "cpu"}
               PROVE  FALSE
    OBVIOUS
  <2>1. estado[p] \notin {"listo", "cpu"}
    BY DEF YaEscrito
  <2>2. ~ PlpAtiende(p)
    BY <1>1 DEF PlpAtiende, Tipos, TipoClientes
  <2>3. (PlpCreado \/ PlpEscrito) /\ plp.p = p /\ estado'[p] = "listo" /\ estado[p] = "cargando"
    BY <1>1, <2>1, <2>2, EstadoPaso
  <2>4. ~ PlpEscrito
    BY <2>3 DEF PlpEscrito, YaEscrito
  <2>5. PlpCreado /\ plp.k = 1
    BY <1>1, <2>3, <2>4, PlpTipo DEF PlpCreado, YaEscrito
  <2>6. CASE resp[Plp].cod = 0
    <3>1. estado' = [estado EXCEPT ![p] = "saliente"]
      BY <2>3, <2>5, <2>6 DEF PlpCreado, PlpRebota
    <3>2. QED
      BY <1>1, <2>3, <3>1 DEF Tipos, TipoClientes
  <2>7. CASE resp[Plp].cod # 0
    BY <2>3, <2>5, <2>7 DEF PlpCreado
  <2>8. QED
    BY <2>6, <2>7
<1>3. plp'.pc # "select" /\ plp'.p = p /\ (plp'.k > 1 \/ (plp'.pc = "escribe" /\ resp'[Plp] # Nada))
  BY <1>2 DEF YaEscrito
<1>4. ~ (PlpCreado \/ PlpEscrito)
  <2> SUFFICES ASSUME PlpCreado \/ PlpEscrito
               PROVE  FALSE
    OBVIOUS
  <2>1. /\ plp.p = p /\ plp.k \in 1..4 /\ plp.pc # "select"
        /\ PlpCreado /\ plp.k = 1 => plp'.pc = "escribe" /\ plp'.k = 1
    BY <1>1, <1>3, PlpRecibe DEF PlpCreado, PlpEscrito
  <2>2. plp.k = 1 /\ ~ (plp.pc = "escribe" /\ resp[Plp] # Nada)
    BY <2>1 DEF YaEscrito
  <2>3. PlpCreado
    BY <2>2 DEF PlpEscrito
  <2>4. resp'[Plp] = Nada
    BY <1>1, <2>3, HilosDistintos DEF PlpCreado, Tipos, TipoRed
  <2>5. QED
    BY <1>3, <2>1, <2>2, <2>3, <2>4
<1>5. ~ \E q \in Programas : PlpAtiende(q)
  BY <1>3, PlpEmpieza
<1>6. plp' = plp
  BY <1>4, <1>5, PlpCambia
<1>7. plp.pc = "escribe" /\ resp'[Plp] # resp[Plp] /\ ~ (plp.k > 1) /\ plp.p = p
  BY <1>3, <1>6 DEF YaEscrito
<1>8. plp.k = 1
  BY <1>1, <1>7, PlpTipo
<1>9. Sirve(Plp)
  BY <1>1, <1>4, <1>7, RespuestaCambia
<1>10. QED
  BY <1>7, <1>8, <1>9, QueSeResponde

\* Every step keeps what is loaded.
LEMMA CargadoPaso ==
    ASSUME InvUMV, BasesDistintas, Next, Despedidos, Cargado
    PROVE  Cargado'
<1> USE HilosDistintos
<1> SUFFICES ASSUME roto' = {}
             PROVE  /\ plp'.pc = "crea" /\ resp'[Plp] # Nada /\ resp'[Plp].cod # 0 =>
                          Hay(plp.p, resp[Plp].cod, Carga[plp.p][plp.k])'
                    /\ plp'.pc = "escribe" /\ plp'.k = 1 =>
                          Hay(plp.p, bases[plp.p][1], Carga[plp.p][1])'
                    /\ \A p \in Programas : YaEscrito(p)' => Escrito(p)'
  BY DEF Cargado
<1>1. Tipos /\ Turnos /\ roto = {}
  BY RotoCrece DEF InvUMV
<1>2. plp.pc # "select" => plp.p \in Programas /\ estado[plp.p] # "fin"
  BY <1>1, PlpTipo DEF Turnos
<1>3. ASSUME plp'.pc = "crea", resp'[Plp] # Nada, resp'[Plp].cod # 0
      PROVE  Hay(plp.p, resp[Plp].cod, Carga[plp.p][plp.k])'
  <2>1. ~ (PlpCreado \/ PlpEscrito)
    BY <1>1, <1>3 DEF PlpCreado, PlpEscrito, Tipos, TipoRed
  <2>2. plp' = plp
    BY <1>3, <2>1, PlpCambia, PlpEmpieza
  <2>3. CASE resp'[Plp] = resp[Plp]
    <3>1. PICK p, b, n : p = plp.p /\ b = resp[Plp].cod /\ n = Carga[plp.p][plp.k]
      OBVIOUS
    <3>2. p \in Programas /\ estado[p] # "fin" /\ Hay(p, b, n)
      BY <1>1, <1>2, <1>3, <2>2, <2>3, <3>1 DEF Cargado
    <3>3. Hay(p, b, n)'
      BY <3>2, HaySigue
    <3>4. QED
      BY <2>2, <2>3, <3>1, <3>3 DEF Hay
  <2>4. CASE resp'[Plp] # resp[Plp]
    <3>1. Sirve(Plp)
      BY <1>1, <2>1, <2>4, RespuestaCambia
    <3>2. Crea(Plp) /\ hilo[Plp].ped.prog = plp.p /\ hilo[Plp].ped.size = Carga[plp.p][plp.k]
      BY <1>3, <2>2, <2>4, <3>1, QueSeResponde
    <3>3. \E z \in segs' : /\ z.prog = hilo[Plp].ped.prog /\ z.size = hilo[Plp].ped.size
                           /\ z.inicio = resp'[Plp].cod
      BY <1>1, <1>3, <2>4, <3>2, CreaRespondeBien
    <3>4. QED
      BY <2>2, <3>2, <3>3 DEF Hay
  <2>5. QED
    BY <2>3, <2>4
<1>4. ASSUME plp'.pc = "escribe", plp'.k = 1
      PROVE  Hay(plp.p, bases[plp.p][1], Carga[plp.p][1])'
  <2>1. CASE plp' = plp /\ bases'[plp.p][1] = bases[plp.p][1]
    <3>1. PICK p, b, n : p = plp.p /\ b = bases[plp.p][1] /\ n = Carga[plp.p][1]
      OBVIOUS
    <3>2. p \in Programas /\ estado[p] # "fin" /\ Hay(p, b, n)
      BY <1>1, <1>2, <1>4, <2>1, <3>1 DEF Cargado
    <3>3. Hay(p, b, n)'
      BY <3>2, HaySigue
    <3>4. QED
      BY <2>1, <3>1, <3>3 DEF Hay
  <2>2. CASE PlpCreado /\ plp.k = 1
    <3>1. PICK p, b, n : p = plp.p /\ b = resp[Plp].cod /\ n = Carga[plp.p][1]
      OBVIOUS
    <3>2. plp'.p = p /\ b # 0 /\ bases'[p][1] = b
      BY <1>1, <1>4, <2>2, <3>1, PlpRecibe
    <3>3. p \in Programas /\ estado[p] # "fin" /\ Hay(p, b, n)
      BY <1>1, <1>2, <2>2, <3>1, <3>2 DEF Cargado, PlpCreado
    <3>4. Hay(p, b, n)'
      BY <3>3, HaySigue
    <3>5. QED
      BY <3>1, <3>2, <3>4 DEF Hay
  <2>3. CASE ~ (PlpCreado /\ plp.k = 1)
    <3>1. ~ (PlpCreado \/ PlpEscrito)
      BY <1>1, <1>4, <2>3, PlpRecibe
    <3>2. plp' = plp
      BY <1>4, <3>1, PlpCambia, PlpEmpieza
    <3>3. bases'[plp.p][1] = bases[plp.p][1]
      BY <1>1, <1>2, <1>4, <2>3, <3>2, BasesCambian
    <3>4. QED
      BY <2>1, <3>2, <3>3
  <2>4. QED
    BY <2>2, <2>3
<1>5. ASSUME NEW p \in Programas, YaEscrito(p)'
      PROVE  Escrito(p)'
  <2>1. CASE YaEscrito(p)
    <3>1. Escrito(p)
      BY <1>1, <2>1 DEF Cargado
    <3>2. estado[p] # "fin"
      BY <1>1, <2>1 DEF YaEscrito, Turnos
    <3>3. ~ (PlpCreado /\ plp.p = p /\ plp.k = 1)
      BY <1>1, <2>1 DEF YaEscrito, PlpCreado, Turnos
    <3>4. bases'[p][1] = bases[p][1]
      BY <1>1, <3>3, BasesCambian
    <3>5. QED
      BY <3>1, <3>2, <3>4, EscritoSigue
  <2>2. CASE ~ YaEscrito(p)
    <3>1. /\ Accede(Plp) /\ plp' = plp /\ bases' = bases
          /\ plp.p = p /\ plp.pc = "escribe" /\ plp.k = 1
      BY <1>5, <2>2, YaEscritoPaso
    <3>2. Hay(plp.p, bases[plp.p][1], Carga[plp.p][1])
      BY <1>1, <3>1 DEF Cargado
    <3>3. Escrito(plp.p)'
      BY <1>1, <3>1, <3>2, AccedeEscribe
    <3>4. QED
      BY <3>1, <3>3 DEF Escrito
  <2>3. QED
    BY <2>1, <2>2
<1>6. QED
  BY <1>3, <1>4, <1>5

\* A program that is ready or running has its code whole at the base its PCB
\* holds, until something breaks into an operation: with any number of programs,
\* CPUs and segments, the PLP may take -1 and -2 for success when it writes code,
\* since it is never answered them then.
THEOREM CargaSiempreEscrita == Spec => []CargaEscrita
<1>1. Init => Despedidos /\ Cargado
  <2> SUFFICES ASSUME Init
               PROVE  Despedidos /\ Cargado
    OBVIOUS
  <2>1. /\ cola[Plp] = <<>> /\ ~ Adentro(Plp) /\ plp.pc = "select"
        /\ \A p \in Programas : estado[p] = "nuevo"
    BY HilosDistintos DEF Init, Quieto, Adentro
  <2>2. \A p \in Programas : ~ PorDestruir(p)
    BY <2>1 DEF PorDestruir
  <2>3. QED
    BY <2>1, <2>2 DEF Despedidos, Cargado, YaEscrito
<1>2. InvUMV /\ BasesDistintas /\ Despedidos /\ Cargado /\ [Next]_vars => (Despedidos /\ Cargado)'
  <2>1. UNCHANGED vars /\ Despedidos => Despedidos'
    BY DEF vars, tabla, clientes, Despedidos, PorDestruir, Adentro
  <2>2. UNCHANGED vars /\ Cargado => Cargado'
    BY DEF vars, tabla, clientes, Cargado, Hay, Escrito, YaEscrito
  <2>3. InvUMV /\ Next /\ Despedidos => Despedidos'
    BY DespedidosPaso DEF InvUMV
  <2>4. QED
    BY <2>1, <2>2, <2>3, CargadoPaso
<1>3. Cargado => CargaEscrita
  BY DEF Cargado, CargaEscrita, Limpio, YaEscrito, Escrito
<1>4. QED
  BY <1>1, <1>2, <1>3, UmvSiempre, BasesSiempre, PTL DEF Spec
=============================================================================
