----------------------------- MODULE PilaProofs -----------------------------
(***************************************************************************)
(* The CPU's primitives keep a program's stack: the bytes of the segment,  *)
(* the registers of the PCB and the dictionary are, after every line and   *)
(* whoever has the PCB, those of the contexts the program believes it has, *)
(* for stacks of any size and any depth of calls.  A line only fails for   *)
(* the causes the program can see coming.                                  *)
(***************************************************************************)
EXTENDS PropsPila, FiniteSetTheorems, SequenceTheorems, WellFoundedInduction, TLAPS

-----------------------------------------------------------------------------
(* The inductive invariant *)

Octetos == [0..TamPila - 1 -> 0..255]
Variable == [nom : Nombres, val : Palabra \cup {Sin}]
Contexto == [vars : Seq(Variable), tipo : {"base", "sin", "con"}, vuelta : Nat, donde : Int]

Tipos ==
    /\ pcb \in [Procesos -> Pcb] /\ pila \in [Procesos -> Octetos]
    /\ estado \in [Procesos -> {"listo", "cpu", "espera", "error", "fin"}]
    /\ compartidas \in [Compartidas -> Palabra]
    /\ pedido \in [Procesos -> Pedido \cup {Nada}] /\ respuesta \in [Procesos -> Palabra \cup {Nada}]
    /\ lineas \in 0..MaxLineas
    /\ dicc = [p \in Procesos |-> dicc[p]]
    /\ marcos = [p \in Procesos |-> marcos[p]] /\ causas = [p \in Procesos |-> causas[p]]

\* c says where each context of ms begins: one after another, each after the
\* variables of the one before and its own link.
Trazado(ms, c) ==
    /\ c \in [1..Len(ms) -> Int] /\ c[1] = 0
    /\ \A k \in 2..Len(ms) : c[k] = c[k - 1] + 5 * Len(ms[k - 1].vars) + Enlace(ms[k])

\* Only the oldest context is not a call, every call fitted in the segment, and
\* one that returns a value returns it to a variable of the context before.  The
\* name of the last variable fits; its value may not.
Forma(ms, c) ==
    /\ ms \in Seq(Contexto) /\ Len(ms) >= 1
    /\ \A k \in 1..Len(ms) : ms[k].tipo = "base" <=> k = 1
    /\ \A k \in 2..Len(ms) : c[k] <= TamPila
    /\ c[Len(ms)] + 5 * Len(ms[Len(ms)].vars) <= TamPila + 4
    /\ \A k \in 2..Len(ms) : ms[k].tipo = "con" =>
          \E i \in 1..Len(ms[k - 1].vars) : ms[k].donde = c[k - 1] + 5 * (i - 1) + 1

\* The links, the names and the values of ms are in the bytes m.
Enlaces(m, ms, c) ==
    \A k \in 2..Len(ms) :
        LET d == c[k] - Enlace(ms[k]) IN
        /\ Entero(m, d) = Guardado(c[k - 1])
        /\ Entero(m, d + 4) = Guardado(ms[k].vuelta)
        /\ ms[k].tipo = "con" => Entero(m, d + 8) = Guardado(ms[k].donde)

EnNombres(m, ms, c) ==
    \A k \in 1..Len(ms) : \A i \in 1..Len(ms[k].vars) : m[c[k] + 5 * (i - 1)] = ms[k].vars[i].nom

\* A value that was assigned fits in the segment.
EnValores(m, ms, c) ==
    \A k \in 1..Len(ms) : \A i \in 1..Len(ms[k].vars) : ms[k].vars[i].val # Sin =>
        /\ c[k] + 5 * (i - 1) + 5 <= TamPila
        /\ Entero(m, c[k] + 5 * (i - 1) + 1) = Guardado(ms[k].vars[i].val)

EnBytes(m, ms, c) == Enlaces(m, ms, c) /\ EnNombres(m, ms, c) /\ EnValores(m, ms, c)

NombresDe(m) == {m.vars[i].nom : i \in 1..Len(m.vars)}
DiccDe(ms, c) ==
    [n \in NombresDe(ms[Len(ms)]) |-> c[Len(ms)] + 5 * (Llamada(ms[Len(ms)], n) - 1) + 1]

\* Each line moves the program counter by one at most, but for the label.
Tope == IF PcInicial > Destino THEN PcInicial ELSE Destino

\* The PCB of a program, when n lines have been executed and f of its lines
\* has not ended yet.
Registros(r, ms, c, n, f) ==
    /\ r.cursor = c[Len(ms)] /\ r.ctxt = Len(ms[Len(ms)].vars)
    /\ r.pc \in Nat /\ r.pc + f <= Tope + n
    /\ \A k \in 1..Len(ms) : ms[k].vuelta <= Tope + n

\* What explains that a line fails.
SinLugar(ms, c) == TamPila - (c[Len(ms)] + 5 * Len(ms[Len(ms)].vars)) < 12
Motivo(m) == \E i \in 1..Len(m.vars) : m.vars[i].val \in Rechazo \cup {Sin}
Explica(ms, c) == SinLugar(ms, c) \/ Motivo(ms[Len(ms)])

\* The segment m, the registers r, the dictionary f and the syscall q of a process
\* in state e are those of the contexts ms.
Fiel(ms, c, m, r, f, e, q, n) ==
    /\ Forma(ms, c) /\ Trazado(ms, c) /\ EnBytes(m, ms, c)
    /\ Registros(r, ms, c, n, IF e = "espera" THEN 1 ELSE 0)
    /\ e \in {"cpu", "espera"} => f = DiccDe(ms, c)
    /\ q # Nada =>
          /\ q.var \in NombresDe(ms[Len(ms)]) /\ q.valor \in Palabra
          /\ q.falla => Explica(ms, c)

EnPila(p) ==
    Fiel(marcos[p], Comienzo(marcos[p]), pila[p], pcb[p], dicc[p], estado[p], pedido[p], lineas)

\* A process waits for one syscall at most, only while its stack is known.
Esperas ==
    \A p \in Procesos :
        /\ estado[p] \notin {"cpu", "espera"} => dicc[p] = Vacio
        /\ estado[p] = "espera" => causas[p] = {}
        /\ pedido[p] # Nada => estado[p] = "espera"
        /\ respuesta[p] # Nada => pedido[p] # Nada

InvPila == Tipos /\ Esperas /\ \A p \in Procesos : causas[p] = {} => EnPila(p)

-----------------------------------------------------------------------------
(* Numbers as bytes *)

\* The bytes of an int, least significant first.
LEMMA OctetosDe ==
    ASSUME NEW v \in Palabra
    PROVE  \A i \in 0..3 : Byte(v, i) \in 0..255
<1>1. v \in Int /\ Alto(v) \in Int /\ Alto(Alto(v)) \in Int /\ Alto(Alto(Alto(v))) \in Int
  BY DEF Palabra, Alto
<1>2. TAKE i \in 0..3
<1>3. \/ i = 0 /\ Byte(v, i) = v % 256
      \/ i = 1 /\ Byte(v, i) = Alto(v) % 256
      \/ i = 2 /\ Byte(v, i) = Alto(Alto(v)) % 256
      \/ i = 3 /\ Byte(v, i) = Alto(Alto(Alto(v))) % 256
  BY <1>2 DEF Byte
<1>4. QED
  BY <1>1, <1>3

\* Four bytes are the int they were taken from.
LEMMA EnteroDeOctetos ==
    ASSUME NEW v \in Palabra
    PROVE  v = Byte(v, 0) + 256 * (Byte(v, 1) + 256 * (Byte(v, 2) +
               256 * (IF Byte(v, 3) < 128 THEN Byte(v, 3) ELSE Byte(v, 3) - 256)))
<1>1. \A u \in Int : Alto(u) \in Int /\ u = (u % 256) + 256 * Alto(u) /\ u % 256 \in Int
  BY DEF Alto
<1>2. PICK a \in Int, b \in Int, c \in -128..127 :
        a = Alto(v) /\ b = Alto(a) /\ c = Alto(b)
  BY <1>1 DEF Palabra
<1>3. v = (v % 256) + 256 * a /\ a = (a % 256) + 256 * b /\ b = (b % 256) + 256 * c
  BY ZenonT(40), <1>1, <1>2 DEF Palabra
<1>4. c = IF c % 256 < 128 THEN c % 256 ELSE (c % 256) - 256
  BY <1>2
<1>5. Byte(v, 0) = v % 256 /\ Byte(v, 1) = a % 256 /\ Byte(v, 2) = b % 256 /\ Byte(v, 3) = c % 256
  BY <1>2 DEF Byte
<1>6. v \in Int /\ v % 256 \in Int /\ a % 256 \in Int /\ b % 256 \in Int /\ c % 256 \in Int
  BY ZenonT(40), <1>1, <1>2 DEF Palabra
<1>7. QED
  BY <1>2, <1>3, <1>4, <1>5, <1>6

\* Where an int is written.
LEMMA ConEs ==
    ASSUME NEW m \in Octetos, NEW d \in Int, Cabe(d, 4), NEW v \in Palabra
    PROVE  /\ d \in 0..TamPila - 1 /\ d + 1 \in 0..TamPila - 1 /\ d + 2 \in 0..TamPila - 1
           /\ d + 3 \in 0..TamPila - 1
           /\ Con(m, d, v) \in Octetos
           /\ \A e \in 0..TamPila - 1 : e < d \/ d + 4 <= e => Con(m, d, v)[e] = m[e]
           /\ \A i \in 0..3 : Con(m, d, v)[d + i] = IF v % 256 = 0 THEN 0 ELSE Byte(v, i)
<1>1. TamPila \in Int /\ DOMAIN m = 0..TamPila - 1 /\ v % 256 \in Int
  BY SupuestosPila DEF Octetos, Palabra
<1>2. \A i \in 0..3 : d + i \in 0..TamPila - 1 /\ d + i \in d..d + 3 /\ (d + i) - d = i
  BY <1>1 DEF Cabe
<1>3. \A e \in d..d + 3 : e - d \in 0..3
  OBVIOUS
<1> DEFINE b(i) == Byte(v, i)
<1>4. \A i \in 0..3 : b(i) \in 0..255
  BY OctetosDe
<1>5. Con(m, d, v) = [e \in 0..TamPila - 1 |->
          IF e \in d..d + 3 THEN IF v % 256 = 0 THEN 0 ELSE b(e - d) ELSE m[e]]
  BY <1>1 DEF Con
<1> HIDE DEF b
<1>6. Con(m, d, v) \in Octetos
  <2>1. \A e \in 0..TamPila - 1 : e \in d..d + 3 => b(e - d) \in 0..255
    BY <1>3, <1>4
  <2>2. \A e \in 0..TamPila - 1 : m[e] \in 0..255
    BY DEF Octetos
  <2>3. 0 \in 0..255
    OBVIOUS
  <2> DEFINE w(e) == IF e \in d..d + 3 THEN IF v % 256 = 0 THEN 0 ELSE b(e - d) ELSE m[e]
  <2>4. \A e \in 0..TamPila - 1 : w(e) \in 0..255
    BY <2>1, <2>2, <2>3
  <2>5. Con(m, d, v) = [e \in 0..TamPila - 1 |-> w(e)]
    BY <1>5
  <2> HIDE DEF w
  <2>6. QED
    BY <2>4, <2>5 DEF Octetos
<1>7. \A e \in 0..TamPila - 1 : e < d \/ d + 4 <= e => Con(m, d, v)[e] = m[e]
  BY <1>5
<1>8. \A i \in 0..3 : Con(m, d, v)[d + i] = IF v % 256 = 0 THEN 0 ELSE b(i)
  <2>1. TAKE i \in 0..3
  <2>2. Con(m, d, v)[d + i] = IF v % 256 = 0 THEN 0 ELSE b((d + i) - d)
    BY <1>2, <1>5
  <2>3. QED
    BY <1>2, <2>2
<1>9. d \in 0..TamPila - 1 /\ d + 1 \in 0..TamPila - 1 /\ d + 2 \in 0..TamPila - 1 /\ d + 3 \in 0..TamPila - 1
  BY <1>1 DEF Cabe
<1>10. QED
  BY <1>6, <1>7, <1>8, <1>9 DEF b

\* An int that is read where it was written: multiples of 256 are 0.
LEMMA EnteroDeCon ==
    ASSUME NEW m \in Octetos, NEW d \in Int, Cabe(d, 4), NEW v \in Palabra
    PROVE  Entero(Con(m, d, v), d) = Guardado(v)
<1> DEFINE n == Con(m, d, v)
<1>1. \A i \in 0..3 : n[d + i] = IF v % 256 = 0 THEN 0 ELSE Byte(v, i)
  BY ConEs
<1>2. n[d] = n[d + 0] /\ 0 \in 0..3 /\ 1 \in 0..3 /\ 2 \in 0..3 /\ 3 \in 0..3
  OBVIOUS
<1>3. Entero(n, d) = n[d] + 256 * (n[d + 1] + 256 * (n[d + 2] +
                         256 * (IF n[d + 3] < 128 THEN n[d + 3] ELSE n[d + 3] - 256)))
  BY DEF Entero
<1> HIDE DEF n
<1>4. CASE v % 256 = 0
  <2>1. n[d] = 0 /\ n[d + 1] = 0 /\ n[d + 2] = 0 /\ n[d + 3] = 0
    BY <1>1, <1>2, <1>4
  <2>2. Entero(n, d) = 0
    BY <1>3, <2>1
  <2>3. QED
    BY <1>4, <2>2 DEF Guardado, n
<1>5. CASE v % 256 # 0
  <2>1. PICK b0, b1, b2, b3 : b0 = Byte(v, 0) /\ b1 = Byte(v, 1) /\ b2 = Byte(v, 2) /\ b3 = Byte(v, 3)
    OBVIOUS
  <2>2. n[d] = b0 /\ n[d + 1] = b1 /\ n[d + 2] = b2 /\ n[d + 3] = b3
    BY <1>1, <1>2, <1>5, <2>1
  <2>3. v = b0 + 256 * (b1 + 256 * (b2 + 256 * (IF b3 < 128 THEN b3 ELSE b3 - 256)))
    BY <2>1, EnteroDeOctetos
  <2>4. Entero(n, d) = v
    BY <1>3, <2>2, <2>3
  <2>5. QED
    BY <1>5, <2>4 DEF Guardado, n
<1>6. QED
  BY <1>4, <1>5

\* Four bytes are always an int.
LEMMA EnteroTipo ==
    ASSUME NEW m \in Octetos, NEW d \in Int, Cabe(d, 4)
    PROVE  Entero(m, d) \in Palabra
<1>1. d \in 0..TamPila - 1 /\ d + 1 \in 0..TamPila - 1 /\ d + 2 \in 0..TamPila - 1 /\ d + 3 \in 0..TamPila - 1
  BY SupuestosPila DEF Cabe, Palabra
<1>2. PICK b0 \in 0..255, b1 \in 0..255, b2 \in 0..255, b3 \in 0..255 :
        b0 = m[d] /\ b1 = m[d + 1] /\ b2 = m[d + 2] /\ b3 = m[d + 3]
  BY <1>1 DEF Octetos
<1>3. PICK b \in -128..127 : b = IF b3 < 128 THEN b3 ELSE b3 - 256
  OBVIOUS
<1>4. Entero(m, d) = b0 + 256 * (b1 + 256 * (b2 + 256 * b))
  BY <1>2, <1>3 DEF Entero
<1> DEFINE q == b2 + 256 * b
           r == b1 + 256 * q
<1>5. q \in Int /\ r \in Int /\ q = b2 + 256 * b /\ r = b1 + 256 * q /\ Entero(m, d) = b0 + 256 * r
  <2>1. q \in Int
    BY <1>2, <1>3
  <2> HIDE DEF q
  <2>2. r \in Int
    BY <1>2, <2>1
  <2>3. QED
    BY <1>4, <2>1, <2>2 DEF q
<1> HIDE DEF q, r
<1>6. Entero(m, d) \in Int
  BY <1>2, <1>5
<1>7. Alto(q) = b
  <2>1. b \in Int
    BY <1>3
  <2>2. q = b2 + 256 * b /\ q \in Int
    BY <1>5
  <2>3. QED
    BY <1>2, <2>1, <2>2 DEF Alto
<1>8. Alto(r) = q
  BY <1>2, <1>5 DEF Alto
<1>9. Alto(Entero(m, d)) = r
  <2>1. PICK e \in Int : e = Entero(m, d)
    BY <1>6
  <2>2. e = b0 + 256 * r /\ r \in Int
    BY <1>5, <2>1
  <2>3. QED
    BY <1>2, <2>1, <2>2 DEF Alto
<1>10. QED
  BY <1>3, <1>6, <1>7, <1>8, <1>9 DEF Palabra

\* What solicitar_bytes returns is an int.
LEMMA LeeTipo ==
    ASSUME NEW m \in Octetos, NEW d \in Int, NEW v \in Lee(m, d)
    PROVE  v \in Palabra
BY EnteroTipo, SupuestosPila DEF Lee

\* An int is the same where no byte of it changed.
LEMMA EnteroIgual ==
    ASSUME NEW m \in Octetos, NEW n \in Octetos, NEW d \in Int, Cabe(d, 4),
           \A e \in d..d + 3 : n[e] = m[e]
    PROVE  Entero(n, d) = Entero(m, d)
<1>1. n[d] = m[d] /\ n[d + 1] = m[d + 1] /\ n[d + 2] = m[d + 2] /\ n[d + 3] = m[d + 3]
  OBVIOUS
<1>2. QED
  BY <1>1 DEF Entero

-----------------------------------------------------------------------------
(* Where each context begins *)

\* A set of numbers has a least one.
LEMMA HayMenor ==
    ASSUME NEW T, T \subseteq Nat, T # {}
    PROVE  \E x \in T : \A y \in T : x <= y
<1> DEFINE R == OpToRel(<, Nat)
<1>1. IsWellFoundedOn(R, Nat)
  BY NatLessThanWellFounded
<1>2. \A x, y \in Nat : <<y, x>> \in R <=> y < x
  BY DEF OpToRel
<1> HIDE DEF R
<1>3. PICK x \in T : \A y \in T : ~ (<<y, x>> \in R)
  BY <1>1, WFMin
<1>4. \A y \in T : ~ (y < x)
  BY <1>2, <1>3
<1>5. QED
  BY <1>3, <1>4

\* Sums of the first numbers of a sequence: the function Comienzo takes exists.
LEMMA HaySumas ==
    ASSUME NEW n \in Nat, NEW a \in [1..n -> Int]
    PROVE  \E c \in [1..n -> Int] : \A k \in 1..n : c[k] = IF k = 1 THEN 0 ELSE c[k - 1] + a[k]
<1> DEFINE Hay(j) == \E c \in [1..j -> Int] :
                       \A k \in 1..j : c[k] = IF k = 1 THEN 0 ELSE c[k - 1] + a[k]
           T == {j \in 0..n : ~ Hay(j)}
<1>1. Hay(0)
  <2>1. [k \in 1..0 |-> 0] \in [1..0 -> Int] /\ \A k \in 1..0 : FALSE
    OBVIOUS
  <2>2. QED
    BY <2>1
<1>2. ASSUME NEW j \in 1..n, Hay(j - 1) PROVE Hay(j)
  <2>1. PICK c \in [1..j - 1 -> Int] :
          \A k \in 1..j - 1 : c[k] = IF k = 1 THEN 0 ELSE c[k - 1] + a[k]
    BY <1>2
  <2> DEFINE u == IF j = 1 THEN 0 ELSE c[j - 1] + a[j]
             e == [k \in 1..j |-> IF k = j THEN u ELSE c[k]]
  <2>2. u \in Int
    <3>1. j # 1 => c[j - 1] \in Int /\ a[j] \in Int
      BY <2>1
    <3>2. QED
      BY <3>1
  <2>3. e \in [1..j -> Int]
    <3>1. \A k \in 1..j : k # j => c[k] \in Int
      BY <2>1
    <3> HIDE DEF u
    <3>2. QED
      BY <2>2, <3>1
  <2>4. ASSUME NEW k \in 1..j PROVE e[k] = IF k = 1 THEN 0 ELSE e[k - 1] + a[k]
    <3>1. CASE k = j
      BY <3>1
    <3>2. CASE k # j
      <4>1. k \in 1..j - 1 /\ (k # 1 => k - 1 \in 1..j /\ k - 1 # j)
        BY <3>2
      <4>2. e[k] = c[k] /\ (k # 1 => e[k - 1] = c[k - 1])
        BY <3>2, <4>1
      <4>3. QED
        BY <2>1, <4>1, <4>2
    <3>3. QED
      BY <3>1, <3>2
  <2> HIDE DEF e
  <2>5. QED
    BY <2>3, <2>4
<1> HIDE DEF Hay
<1>3. T = {}
  <2>1. SUFFICES ASSUME T # {} PROVE FALSE
    OBVIOUS
  <2>2. PICK j \in T : \A i \in T : j <= i
    <3>1. T \subseteq Nat
      OBVIOUS
    <3> HIDE DEF T
    <3>2. QED
      BY <2>1, <3>1, HayMenor
  <2>3. j \in 0..n /\ ~ Hay(j)
    BY <2>2
  <2>4. j # 0
    BY <1>1, <2>3
  <2>5. j \in 1..n /\ j - 1 \in 0..n /\ ~ (j <= j - 1)
    BY <2>3, <2>4
  <2>6. Hay(j - 1)
    BY <2>2, <2>5
  <2>7. QED
    BY <1>2, <2>3, <2>5, <2>6
<1>4. Hay(n)
  BY <1>3
<1>5. QED
  BY <1>4 DEF Hay

\* The link of a call takes 8 or 12 bytes.
LEMMA EnlaceTipo ==
    ASSUME NEW ms \in Seq(Contexto), NEW k \in 1..Len(ms)
    PROVE  /\ ms[k] \in Contexto /\ ms[k].vars \in Seq(Variable) /\ Len(ms[k].vars) \in Nat
           /\ Enlace(ms[k]) \in {0, 8, 12}
           /\ ms[k].tipo = "con" => Enlace(ms[k]) = 12
           /\ ms[k].tipo # "base" => Enlace(ms[k]) >= 8
<1>1. ms[k] \in Contexto
  BY ElementOfSeq
<1>2. ms[k].vars \in Seq(Variable) /\ ms[k].tipo \in {"base", "sin", "con"}
  BY <1>1 DEF Contexto
<1>3. Len(ms[k].vars) \in Nat
  BY <1>2, LenProperties
<1>4. QED
  BY <1>1, <1>2, <1>3 DEF Enlace

\* Comienzo is where each context begins.
LEMMA ComienzoTrazado ==
    ASSUME NEW ms \in Seq(Contexto), Len(ms) >= 1
    PROVE  Trazado(ms, Comienzo(ms))
<1>1. Len(ms) \in Nat
  BY LenProperties
<1> DEFINE a == [k \in 1..Len(ms) |-> IF k = 1 THEN 0 ELSE 5 * Len(ms[k - 1].vars) + Enlace(ms[k])]
           F(c) == [k \in 1..Len(ms) |->
                      IF k = 1 THEN 0 ELSE c[k - 1] + 5 * Len(ms[k - 1].vars) + Enlace(ms[k])]
<1>2. \A k \in 2..Len(ms) : Len(ms[k - 1].vars) \in Int /\ Enlace(ms[k]) \in Int
  <2>1. TAKE k \in 2..Len(ms)
  <2>2. k \in 1..Len(ms) /\ k - 1 \in 1..Len(ms)
    BY <1>1
  <2>3. Len(ms[k - 1].vars) \in Nat /\ Enlace(ms[k]) \in {0, 8, 12}
    BY <2>2, EnlaceTipo
  <2>4. QED
    BY <2>3
<1>3. a \in [1..Len(ms) -> Int]
  BY <1>1, <1>2
<1>4. PICK c \in [1..Len(ms) -> Int] : \A k \in 1..Len(ms) : c[k] = IF k = 1 THEN 0 ELSE c[k - 1] + a[k]
  BY <1>1, <1>3, HaySumas
<1>5. c = F(c)
  <2>1. \A k \in 1..Len(ms) :
          c[k] = IF k = 1 THEN 0 ELSE c[k - 1] + 5 * Len(ms[k - 1].vars) + Enlace(ms[k])
    <3>1. TAKE k \in 1..Len(ms)
    <3>2. CASE k = 1
      BY <1>4, <3>2
    <3>3. CASE k # 1
      <4>1. k \in 2..Len(ms) /\ k - 1 \in 1..Len(ms) /\ c[k - 1] \in Int
        BY SMTT(30), <1>1, <1>4, <3>3
      <4>2. a[k] = 5 * Len(ms[k - 1].vars) + Enlace(ms[k]) /\ c[k] = c[k - 1] + a[k]
        BY <1>4, <3>3, <4>1
      <4>3. QED
        BY <1>2, <3>3, <4>1, <4>2
    <3>4. QED
      BY <3>2, <3>3
  <2>2. QED
    BY <2>1
<1>6. Comienzo(ms) = CHOOSE f : f = F(f)
  BY DEF Comienzo
<1>7. Comienzo(ms) = F(Comienzo(ms))
  <2> HIDE DEF F
  <2>1. QED
    BY <1>5, <1>6, Zenon
<1> DEFINE f == Comienzo(ms)
<1> HIDE DEF f
<1>8. f = F(f)
  BY <1>7 DEF f
<1>9. /\ \A k \in 2..Len(ms) :
            /\ f[k] = f[k - 1] + 5 * Len(ms[k - 1].vars) + Enlace(ms[k])
            /\ c[k] = c[k - 1] + 5 * Len(ms[k - 1].vars) + Enlace(ms[k])
      /\ 1 \in 1..Len(ms) /\ f[1] = 0 /\ c[1] = 0
  <2>1. ASSUME NEW g, g = F(g)
        PROVE  /\ \A k \in 2..Len(ms) : g[k] = g[k - 1] + 5 * Len(ms[k - 1].vars) + Enlace(ms[k])
               /\ g[1] = 0
    <3>1. \A k \in 1..Len(ms) : g[k] = IF k = 1 THEN 0
                                        ELSE g[k - 1] + 5 * Len(ms[k - 1].vars) + Enlace(ms[k])
      BY <2>1
    <3>2. 1 \in 1..Len(ms) /\ \A k \in 2..Len(ms) : k \in 1..Len(ms) /\ k # 1
      BY <1>1
    <3>3. QED
      BY <3>1, <3>2
  <2> HIDE DEF F
  <2>2. QED
    BY <1>1, <1>5, <1>8, <2>1
<1>10. f = [k \in 1..Len(ms) |-> f[k]]
  BY <1>8
<1> DEFINE T == {k \in 1..Len(ms) : f[k] # c[k]}
<1>11. T = {}
  <2>1. SUFFICES ASSUME T # {} PROVE FALSE
    OBVIOUS
  <2>2. T \subseteq Nat
    OBVIOUS
  <2>3. PICK j \in T : \A i \in T : j <= i
    BY <2>1, <2>2, HayMenor
  <2>4. j \in 2..Len(ms) /\ j - 1 \in 1..Len(ms) /\ j - 1 \notin T
    BY <1>9, <2>3
  <2>5. f[j - 1] = c[j - 1]
    BY <2>4
  <2>6. f[j] = c[j]
    BY <1>9, <2>4, <2>5
  <2>7. QED
    BY <2>3, <2>6
<1>12. f = c
  BY <1>4, <1>10, <1>11
<1>13. QED
  BY <1>9, <1>12 DEF Trazado, f

\* There is one way to lay a stack out.
LEMMA TrazadoUnico ==
    ASSUME NEW ms \in Seq(Contexto), Len(ms) >= 1, NEW c, NEW e, Trazado(ms, c), Trazado(ms, e)
    PROVE  c = e
<1>1. Len(ms) \in Nat
  BY LenProperties
<1> DEFINE T == {k \in 1..Len(ms) : c[k] # e[k]}
<1>2. T = {}
  <2>1. SUFFICES ASSUME T # {} PROVE FALSE
    OBVIOUS
  <2>2. PICK j \in T : \A i \in T : j <= i
    <3>1. T \subseteq Nat
      OBVIOUS
    <3> HIDE DEF T
    <3>2. QED
      BY <2>1, <3>1, HayMenor
  <2>3. j \in 2..Len(ms) /\ j - 1 \in 1..Len(ms) /\ j - 1 \notin T
    BY <1>1, <2>2 DEF Trazado
  <2>4. c[j - 1] = e[j - 1]
    BY <2>3
  <2>5. c[j] = e[j]
    BY <2>3, <2>4 DEF Trazado
  <2>6. QED
    BY <2>2, <2>5
<1>3. QED
  BY <1>2 DEF Trazado

\* The numbers the layout is made of.
LEMMA Medidas ==
    ASSUME NEW ms, NEW c, Forma(ms, c), Trazado(ms, c)
    PROVE  /\ ms \in Seq(Contexto) /\ Len(ms) \in Nat \ {0} /\ TamPila \in Nat \ {0}
           /\ DOMAIN ms = 1..Len(ms) /\ Last(ms) = ms[Len(ms)]
           /\ \A k \in 1..Len(ms) :
                 /\ ms[k] \in Contexto /\ ms[k].vars \in Seq(Variable)
                 /\ Len(ms[k].vars) \in Nat /\ c[k] \in Int
           /\ \A k \in 2..Len(ms) :
                 /\ k - 1 \in 1..Len(ms) /\ k \in 1..Len(ms)
                 /\ Enlace(ms[k]) \in {8, 12} /\ Enlace(ms[k]) \in Nat /\ ms[k].tipo \in {"sin", "con"}
                 /\ Enlace(ms[k]) = IF ms[k].tipo = "con" THEN 12 ELSE 8
                 /\ c[k] - Enlace(ms[k]) = c[k - 1] + 5 * Len(ms[k - 1].vars)
<1>1. ms \in Seq(Contexto) /\ Len(ms) >= 1 /\ Len(ms) \in Nat
  BY LenProperties DEF Forma
<1>2. \A k \in 1..Len(ms) : /\ ms[k] \in Contexto /\ ms[k].vars \in Seq(Variable)
                            /\ Len(ms[k].vars) \in Nat /\ c[k] \in Int
  BY <1>1, EnlaceTipo DEF Trazado
<1>3. ASSUME NEW k \in 2..Len(ms)
      PROVE  /\ k - 1 \in 1..Len(ms) /\ k \in 1..Len(ms)
             /\ Enlace(ms[k]) \in {8, 12} /\ Enlace(ms[k]) \in Nat /\ ms[k].tipo \in {"sin", "con"}
             /\ Enlace(ms[k]) = IF ms[k].tipo = "con" THEN 12 ELSE 8
             /\ c[k] - Enlace(ms[k]) = c[k - 1] + 5 * Len(ms[k - 1].vars)
  <2>1. k - 1 \in 1..Len(ms) /\ k \in 1..Len(ms) /\ k # 1
    BY <1>1, <1>3
  <2>2. ms[k].tipo \in {"sin", "con"}
    BY <1>2, <2>1 DEF Forma, Contexto
  <2>3. Enlace(ms[k]) = IF ms[k].tipo = "con" THEN 12 ELSE 8
    BY <2>2 DEF Enlace
  <2>4. c[k] = c[k - 1] + 5 * Len(ms[k - 1].vars) + Enlace(ms[k])
    BY <1>3 DEF Trazado
  <2>5. c[k - 1] \in Int /\ Len(ms[k - 1].vars) \in Nat
    BY <1>2, <2>1
  <2>6. Enlace(ms[k]) \in {8, 12} /\ Enlace(ms[k]) \in Nat
    BY <2>3
  <2>7. c[k] - Enlace(ms[k]) = c[k - 1] + 5 * Len(ms[k - 1].vars)
    BY <2>4, <2>5, <2>6
  <2>8. QED
    BY <2>1, <2>2, <2>3, <2>6, <2>7
<1>4. TamPila \in Nat \ {0}
  BY SupuestosPila DEF Palabra
<1>5. DOMAIN ms = 1..Len(ms) /\ Last(ms) = ms[Len(ms)]
  BY <1>1, LenProperties DEF Last
<1>6. QED
  BY <1>1, <1>2, <1>3, <1>4, <1>5

\* A context and its link are above the variables of every older one.
LEMMA TrazadoCrece ==
    ASSUME NEW ms, NEW c, Forma(ms, c), Trazado(ms, c)
    PROVE  /\ \A j, k \in 1..Len(ms) : j < k => c[j] + 5 * Len(ms[j].vars) <= c[k] - Enlace(ms[k])
           /\ \A k \in 1..Len(ms) : c[k] \in Nat
           /\ \A k \in 2..Len(ms) : c[k] >= 8 /\ c[k] - Enlace(ms[k]) >= 0
<1>1. Len(ms) \in Nat \ {0} /\ \A k \in 1..Len(ms) : Len(ms[k].vars) \in Nat /\ c[k] \in Int
  BY Medidas
<1>2. \A k \in 2..Len(ms) : /\ k - 1 \in 1..Len(ms) /\ k \in 1..Len(ms) /\ Enlace(ms[k]) \in {8, 12}
                            /\ c[k] - Enlace(ms[k]) = c[k - 1] + 5 * Len(ms[k - 1].vars)
  BY Medidas
<1>3. ASSUME NEW j \in 1..Len(ms), NEW k \in 1..Len(ms), j < k
      PROVE  c[j] + 5 * Len(ms[j].vars) <= c[k] - Enlace(ms[k])
  <2> DEFINE t == c[j] + 5 * Len(ms[j].vars)
             T == {i \in j + 1..Len(ms) : ~ (t <= c[i] - Enlace(ms[i]))}
  <2>1. t \in Int
    BY <1>1
  <2> HIDE DEF t
  <2>2. SUFFICES ASSUME T # {} PROVE FALSE
    BY <1>1, <1>3 DEF t
  <2>3. PICK i \in T : \A x \in T : i <= x
    <3>1. T \subseteq Nat
      OBVIOUS
    <3> HIDE DEF T
    <3>2. QED
      BY <2>2, <3>1, HayMenor
  <2>4. i \in 2..Len(ms) /\ ~ (t <= c[i] - Enlace(ms[i])) /\ j < i
    BY <1>3, <2>3
  <2>5. c[i] - Enlace(ms[i]) = c[i - 1] + 5 * Len(ms[i - 1].vars)
    BY <1>2, <2>4
  <2>6. CASE i = j + 1
    BY <1>3, <2>1, <2>4, <2>5, <2>6 DEF t
  <2>7. CASE i # j + 1
    <3>1. i - 1 \in j + 1..Len(ms) /\ i - 1 \notin T /\ i - 1 \in 2..Len(ms)
      BY <1>1, <1>3, <2>3, <2>4, <2>7
    <3>2. t <= c[i - 1] - Enlace(ms[i - 1])
      BY <3>1
    <3>3. c[i - 1] \in Int /\ Len(ms[i - 1].vars) \in Nat /\ Enlace(ms[i - 1]) \in {8, 12}
      BY <1>1, <1>2, <3>1
    <3>4. QED
      BY SMTT(30), <2>1, <2>4, <2>5, <3>2, <3>3
  <2>8. QED
    BY <2>6, <2>7
<1>4. c[1] = 0 /\ 1 \in 1..Len(ms)
  BY <1>1 DEF Trazado
<1>5. ASSUME NEW k \in 2..Len(ms)
      PROVE  c[k] >= 8 /\ c[k] - Enlace(ms[k]) >= 0
  <2>1. c[1] + 5 * Len(ms[1].vars) <= c[k] - Enlace(ms[k])
    BY <1>1, <1>3, <1>4, <1>5
  <2>2. Len(ms[1].vars) \in Nat /\ c[k] \in Int /\ Enlace(ms[k]) \in {8, 12}
    BY <1>1, <1>2, <1>4
  <2>3. QED
    BY <1>4, <2>1, <2>2
<1>6. \A k \in 1..Len(ms) : c[k] \in Nat
  <2>1. TAKE k \in 1..Len(ms)
  <2>2. CASE k = 1
    BY <1>4, <2>2
  <2>3. CASE k # 1
    <3>1. k \in 2..Len(ms)
      BY <1>1, <2>3
    <3>2. QED
      BY <1>1, <1>5, <3>1
  <2>4. QED
    BY <2>2, <2>3
<1>7. QED
  BY <1>3, <1>5, <1>6

\* The variables of a context take 5 bytes each.
LEMMA Cinco ==
    ASSUME NEW x \in Nat, NEW l \in Nat, NEW i \in 1..l
    PROVE  x + 5 * (i - 1) \in Nat /\ x + 5 * (i - 1) + 5 <= x + 5 * l
OBVIOUS

\* What of a stack is inside the segment.
LEMMA Cupo ==
    ASSUME NEW ms, NEW c, Forma(ms, c), Trazado(ms, c)
    PROVE  /\ \A k \in 1..Len(ms) : k # Len(ms) => c[k] + 5 * Len(ms[k].vars) + 8 <= TamPila
           /\ \A k \in 1..Len(ms) : \A i \in 1..Len(ms[k].vars) :
                 c[k] + 5 * (i - 1) \in 0..TamPila - 1
           /\ \A k \in 2..Len(ms) :
                 /\ Cabe(c[k] - Enlace(ms[k]), 4) /\ Cabe(c[k] - Enlace(ms[k]) + 4, 4)
                 /\ ms[k].tipo = "con" => Cabe(c[k] - Enlace(ms[k]) + 8, 4)
                 /\ ms[k].tipo = "con" => ms[k].donde \in Int /\ Cabe(ms[k].donde, 4)
<1>1. Len(ms) \in Nat \ {0} /\ \A k \in 1..Len(ms) : Len(ms[k].vars) \in Nat /\ c[k] \in Nat
  BY Medidas, TrazadoCrece
<1>2. \A k \in 2..Len(ms) : /\ k - 1 \in 1..Len(ms) /\ k \in 1..Len(ms) /\ Enlace(ms[k]) \in {8, 12}
                            /\ Enlace(ms[k]) = IF ms[k].tipo = "con" THEN 12 ELSE 8
                            /\ c[k] - Enlace(ms[k]) = c[k - 1] + 5 * Len(ms[k - 1].vars)
  BY Medidas
<1>3. TamPila \in Nat /\ \A k \in 2..Len(ms) : c[k] <= TamPila
  BY Medidas DEF Forma
<1>4. ASSUME NEW k \in 1..Len(ms), k # Len(ms)
      PROVE  c[k] + 5 * Len(ms[k].vars) + 8 <= TamPila
  <2>1. k + 1 \in 2..Len(ms)
    BY <1>1, <1>4
  <2>2. c[k + 1] - Enlace(ms[k + 1]) = c[k] + 5 * Len(ms[k].vars) /\ c[k + 1] <= TamPila
        /\ Enlace(ms[k + 1]) \in {8, 12} /\ c[k + 1] \in Nat
    <3>1. (k + 1) - 1 = k
      BY <1>4
    <3>2. QED
      BY <1>1, <1>2, <1>3, <2>1, <3>1
  <2>3. QED
    BY SMTT(30), <1>1, <1>3, <2>2
<1>5. ASSUME NEW k \in 1..Len(ms), NEW i \in 1..Len(ms[k].vars)
      PROVE  c[k] + 5 * (i - 1) \in 0..TamPila - 1
  <2>1. Len(ms[k].vars) \in Nat /\ c[k] \in Nat
    BY <1>1
  <2>2. c[k] + 5 * Len(ms[k].vars) <= TamPila + 4
    <3>1. CASE k = Len(ms)
      BY <3>1 DEF Forma
    <3>2. CASE k # Len(ms)
      BY SMTT(30), <1>3, <1>4, <2>1, <3>2
    <3>3. QED
      BY <3>1, <3>2
  <2>3. QED
    BY <1>3, <1>5, <2>1, <2>2
<1>6. ASSUME NEW k \in 2..Len(ms)
      PROVE  /\ Cabe(c[k] - Enlace(ms[k]), 4) /\ Cabe(c[k] - Enlace(ms[k]) + 4, 4)
             /\ ms[k].tipo = "con" => Cabe(c[k] - Enlace(ms[k]) + 8, 4)
  <2>1. c[k] - Enlace(ms[k]) >= 0 /\ c[k] <= TamPila /\ c[k] \in Nat
    BY <1>1, <1>2, <1>3, TrazadoCrece
  <2>2. Enlace(ms[k]) \in {8, 12} /\ Enlace(ms[k]) = IF ms[k].tipo = "con" THEN 12 ELSE 8
    BY <1>2
  <2>3. QED
    BY <1>3, <2>1, <2>2 DEF Cabe
<1>7. ASSUME NEW k \in 2..Len(ms), ms[k].tipo = "con"
      PROVE  ms[k].donde \in Int /\ Cabe(ms[k].donde, 4)
  <2>1. k - 1 \in 1..Len(ms) /\ k - 1 # Len(ms)
    BY <1>1, <1>2, <1>7
  <2>2. PICK x \in Nat, l \in Nat : x = c[k - 1] /\ l = Len(ms[k - 1].vars) /\ x + 5 * l + 8 <= TamPila
    BY <1>1, <1>4, <2>1
  <2>3. PICK i \in 1..l : ms[k].donde = x + 5 * (i - 1) + 1
    BY <1>7, <2>2 DEF Forma
  <2>4. x + 5 * l + 8 <= TamPila
    BY <2>2
  <2>5. x + 5 * (i - 1) + 1 \in Nat /\ x + 5 * (i - 1) + 1 + 4 <= TamPila
    BY <1>3, <2>4
  <2>6. Cabe(x + 5 * (i - 1) + 1, 4)
    BY <2>5 DEF Cabe
  <2>7. QED
    BY <2>3, <2>5, <2>6
<1>8. QED
  BY <1>4, <1>5, <1>6, <1>7

\* The bytes above the variables of the current context say nothing.
LEMMA BytesDeAbajo ==
    ASSUME NEW ms, NEW c, NEW m \in Octetos, NEW n \in Octetos,
           Forma(ms, c), Trazado(ms, c), EnBytes(m, ms, c),
           \A e \in 0..TamPila - 1 : e < c[Len(ms)] + 5 * Len(ms[Len(ms)].vars) => n[e] = m[e]
    PROVE  EnBytes(n, ms, c)
<1> DEFINE alto == c[Len(ms)] + 5 * Len(ms[Len(ms)].vars)
<1>1. Len(ms) \in Nat \ {0} /\ TamPila \in Nat
      /\ \A k \in 1..Len(ms) : Len(ms[k].vars) \in Nat /\ c[k] \in Nat
  BY Medidas, TrazadoCrece
<1>2. ASSUME NEW k \in 1..Len(ms) PROVE c[k] + 5 * Len(ms[k].vars) <= alto
  <2>1. CASE k = Len(ms)
    BY <1>1, <2>1
  <2>2. CASE k # Len(ms)
    <3>1. k < Len(ms) /\ Len(ms) \in 2..Len(ms) /\ Len(ms) \in 1..Len(ms)
      BY <1>1, <2>2
    <3>2. c[k] + 5 * Len(ms[k].vars) <= c[Len(ms)] - Enlace(ms[Len(ms)])
      BY <3>1, TrazadoCrece
    <3>3. PICK x \in Nat, y \in Nat, z \in Nat :
            x = c[Len(ms)] /\ y = Len(ms[Len(ms)].vars) /\ z = Enlace(ms[Len(ms)])
      BY <1>1, <3>1, Medidas
    <3>4. PICK u \in Nat, w \in Nat : u = c[k] /\ w = Len(ms[k].vars)
      BY <1>1
    <3>5. u + 5 * w <= x - z
      BY <3>2, <3>3, <3>4
    <3>6. u + 5 * w <= x + 5 * y
      BY <3>5
    <3>7. QED
      BY <3>3, <3>4, <3>6
  <2>3. QED
    BY <2>1, <2>2
<1>3. alto \in Nat
  BY <1>1
<1>4. \A e \in 0..TamPila - 1 : e < alto => n[e] = m[e]
  OBVIOUS
<1> HIDE DEF alto
<1>5. ASSUME NEW d \in Int, Cabe(d, 4), d + 4 <= alto
      PROVE  Entero(n, d) = Entero(m, d)
  <2>1. \A e \in d..d + 3 : n[e] = m[e]
    BY <1>1, <1>3, <1>4, <1>5 DEF Cabe
  <2>2. QED
    BY <1>5, <2>1, EnteroIgual
<1>6. Enlaces(n, ms, c)
  <2>1. SUFFICES ASSUME NEW k \in 2..Len(ms)
                 PROVE  LET d == c[k] - Enlace(ms[k]) IN
                        /\ Entero(n, d) = Guardado(c[k - 1])
                        /\ Entero(n, d + 4) = Guardado(ms[k].vuelta)
                        /\ ms[k].tipo = "con" => Entero(n, d + 8) = Guardado(ms[k].donde)
    BY DEF Enlaces
  <2> DEFINE d == c[k] - Enlace(ms[k])
  <2>2. /\ k \in 1..Len(ms) /\ Enlace(ms[k]) \in Nat
        /\ Enlace(ms[k]) = IF ms[k].tipo = "con" THEN 12 ELSE 8
    BY Medidas
  <2>3. d \in Int /\ d + 8 <= alto /\ (ms[k].tipo = "con" => d + 12 <= alto)
    <3>1. PICK x \in Nat, l \in Nat : x = c[k] /\ l = Len(ms[k].vars) /\ x + 5 * l <= alto
      BY <1>1, <1>2, <2>2
    <3>2. x <= alto /\ d = x - Enlace(ms[k])
      BY <1>3, <3>1
    <3>3. QED
      BY <1>3, <2>2, <3>1, <3>2
  <2>4. Cabe(d, 4) /\ Cabe(d + 4, 4) /\ (ms[k].tipo = "con" => Cabe(d + 8, 4))
    BY Cupo
  <2>5. /\ Entero(m, d) = Guardado(c[k - 1]) /\ Entero(m, d + 4) = Guardado(ms[k].vuelta)
        /\ ms[k].tipo = "con" => Entero(m, d + 8) = Guardado(ms[k].donde)
    BY DEF EnBytes, Enlaces
  <2> HIDE DEF d
  <2>6. Entero(n, d) = Entero(m, d) /\ Entero(n, d + 4) = Entero(m, d + 4)
    <3>1. d + 4 <= alto /\ (d + 4) + 4 <= alto /\ d + 4 \in Int
      BY <1>3, <2>3
    <3>2. QED
      BY <1>5, <2>3, <2>4, <3>1
  <2>7. ms[k].tipo = "con" => Entero(n, d + 8) = Entero(m, d + 8)
    <3>1. d + 8 \in Int /\ (ms[k].tipo = "con" => (d + 8) + 4 <= alto)
      BY <1>3, <2>3
    <3>2. QED
      BY <1>5, <2>4, <3>1
  <2>8. QED
    BY <2>5, <2>6, <2>7 DEF d
<1>7. EnNombres(n, ms, c)
  <2>1. SUFFICES ASSUME NEW k \in 1..Len(ms), NEW i \in 1..Len(ms[k].vars)
                 PROVE  n[c[k] + 5 * (i - 1)] = m[c[k] + 5 * (i - 1)]
    BY DEF EnBytes, EnNombres
  <2>2. c[k] + 5 * (i - 1) \in 0..TamPila - 1
    BY Cupo
  <2>3. c[k] + 5 * (i - 1) < alto
    <3>1. c[k] + 5 * (i - 1) \in Nat /\ c[k] + 5 * (i - 1) + 5 <= c[k] + 5 * Len(ms[k].vars)
      BY <1>1, Cinco
    <3>2. PICK x \in Nat, y \in Nat : x = c[k] + 5 * (i - 1) /\ y = c[k] + 5 * Len(ms[k].vars)
      BY <1>1, <3>1
    <3>3. x + 5 <= y /\ y <= alto
      BY <1>2, <3>1, <3>2
    <3>4. QED
      BY <1>3, <3>2, <3>3
  <2>4. QED
    BY <1>4, <2>2, <2>3
<1>8. EnValores(n, ms, c)
  <2>1. SUFFICES ASSUME NEW k \in 1..Len(ms), NEW i \in 1..Len(ms[k].vars), ms[k].vars[i].val # Sin
                 PROVE  /\ c[k] + 5 * (i - 1) + 5 <= TamPila
                        /\ Entero(n, c[k] + 5 * (i - 1) + 1) = Guardado(ms[k].vars[i].val)
    BY DEF EnValores
  <2>2. /\ c[k] + 5 * (i - 1) + 5 <= TamPila
        /\ Entero(m, c[k] + 5 * (i - 1) + 1) = Guardado(ms[k].vars[i].val)
    BY <2>1 DEF EnBytes, EnValores
  <2>3. PICK d \in Int : d = c[k] + 5 * (i - 1) + 1 /\ Cabe(d, 4) /\ d + 4 <= alto
    <3>1. c[k] + 5 * (i - 1) \in Nat /\ c[k] + 5 * (i - 1) + 5 <= alto
      BY SMTT(30), <1>1, <1>3, <1>2, Cinco
    <3> DEFINE d == c[k] + 5 * (i - 1) + 1
    <3>2. d \in Int /\ Cabe(d, 4) /\ d + 4 <= alto
      BY SMTT(30), <1>1, <1>3, <2>2, <3>1 DEF Cabe
    <3> HIDE DEF alto
    <3>3. QED
      BY <3>2
  <2>4. Entero(n, d) = Entero(m, d)
    BY <1>5, <2>3
  <2>5. QED
    BY <2>2, <2>3, <2>4
<1>9. QED
  BY <1>6, <1>7, <1>8 DEF EnBytes

-----------------------------------------------------------------------------
(* The current context changes *)

\* Another context at the top of a stack.
LEMMA EnTopeEs ==
    ASSUME NEW ms \in Seq(Contexto), Len(ms) >= 1, NEW m \in Contexto
    PROVE  /\ EnTope(ms, m) \in Seq(Contexto) /\ Len(EnTope(ms, m)) = Len(ms)
           /\ \A k \in 1..Len(ms) : EnTope(ms, m)[k] = IF k = Len(ms) THEN m ELSE ms[k]
<1>1. Len(ms) \in 1..Len(ms)
  BY LenProperties
<1>2. QED
  BY <1>1, ExceptSeq DEF EnTope

\* A variable is added to the current context, with no value.
LEMMA DefineEs ==
    ASSUME NEW ms \in Seq(Contexto), Len(ms) >= 1, NEW n \in Nombres
    PROVE  /\ Define(ms, n) \in Seq(Contexto) /\ Len(Define(ms, n)) = Len(ms)
           /\ \A k \in 1..Len(ms) : k # Len(ms) => Define(ms, n)[k] = ms[k]
           /\ LET t == Define(ms, n)[Len(ms)]
                  s == ms[Len(ms)]
              IN /\ t.tipo = s.tipo /\ t.vuelta = s.vuelta /\ t.donde = s.donde
                 /\ Len(t.vars) = Len(s.vars) + 1
                 /\ \A j \in 1..Len(s.vars) : t.vars[j] = s.vars[j]
                 /\ t.vars[Len(s.vars) + 1] = [nom |-> n, val |-> Sin]
<1> DEFINE s == ms[Len(ms)]
           nueva == [nom |-> n, val |-> Sin]
           t == [s EXCEPT !.vars = Append(@, nueva)]
<1>1. Len(ms) \in 1..Len(ms) /\ Last(ms) = s
  BY LenProperties DEF Last
<1>2. s \in Contexto /\ s.vars \in Seq(Variable)
  BY <1>1, EnlaceTipo
<1>3. nueva \in Variable
  BY DEF Variable
<1> HIDE DEF nueva
<1>4. /\ Append(s.vars, nueva) \in Seq(Variable)
      /\ Len(Append(s.vars, nueva)) = Len(s.vars) + 1
      /\ \A j \in 1..Len(s.vars) : Append(s.vars, nueva)[j] = s.vars[j]
      /\ Append(s.vars, nueva)[Len(s.vars) + 1] = nueva
  BY <1>2, <1>3, AppendProperties
<1> HIDE DEF s
<1>5. /\ t \in Contexto /\ t.vars = Append(s.vars, nueva)
      /\ t.tipo = s.tipo /\ t.vuelta = s.vuelta /\ t.donde = s.donde
  BY <1>2, <1>4 DEF Contexto
<1>6. Define(ms, n) = EnTope(ms, t)
  BY <1>1 DEF Define, nueva
<1> HIDE DEF t
<1>7. /\ Define(ms, n) \in Seq(Contexto) /\ Len(Define(ms, n)) = Len(ms)
      /\ \A k \in 1..Len(ms) : Define(ms, n)[k] = IF k = Len(ms) THEN t ELSE ms[k]
  <2>1. t \in Contexto
    BY <1>5
  <2>2. /\ EnTope(ms, t) \in Seq(Contexto) /\ Len(EnTope(ms, t)) = Len(ms)
        /\ \A k \in 1..Len(ms) : EnTope(ms, t)[k] = IF k = Len(ms) THEN t ELSE ms[k]
    BY <2>1, EnTopeEs
  <2>3. QED
    BY <1>6, <2>2, Zenon
<1>8. Define(ms, n)[Len(ms)] = t /\ \A k \in 1..Len(ms) : k # Len(ms) => Define(ms, n)[k] = ms[k]
  BY <1>1, <1>7
<1>9. QED
  BY <1>4, <1>5, <1>7, <1>8 DEF s, nueva

\* A variable of the current context takes a value.
LEMMA AsignaEs ==
    ASSUME NEW ms \in Seq(Contexto), Len(ms) >= 1, NEW i \in 1..Len(ms[Len(ms)].vars), NEW v \in Palabra
    PROVE  /\ Asigna(ms, i, v) \in Seq(Contexto) /\ Len(Asigna(ms, i, v)) = Len(ms)
           /\ \A k \in 1..Len(ms) : k # Len(ms) => Asigna(ms, i, v)[k] = ms[k]
           /\ LET t == Asigna(ms, i, v)[Len(ms)]
                  s == ms[Len(ms)]
              IN /\ t.tipo = s.tipo /\ t.vuelta = s.vuelta /\ t.donde = s.donde
                 /\ Len(t.vars) = Len(s.vars)
                 /\ \A j \in 1..Len(s.vars) : t.vars[j].nom = s.vars[j].nom
                 /\ \A j \in 1..Len(s.vars) : t.vars[j].val = IF j = i THEN v ELSE s.vars[j].val
<1> DEFINE s == ms[Len(ms)]
           w == [s.vars EXCEPT ![i].val = v]
           t == [s EXCEPT !.vars[i].val = v]
<1>1. Len(ms) \in 1..Len(ms) /\ Last(ms) = s
  BY LenProperties DEF Last
<1>2. s \in Contexto /\ s.vars \in Seq(Variable)
  BY <1>1, EnlaceTipo
<1>3. s.vars[i] \in Variable /\ [s.vars[i] EXCEPT !.val = v] \in Variable
      /\ [s.vars[i] EXCEPT !.val = v].nom = s.vars[i].nom /\ [s.vars[i] EXCEPT !.val = v].val = v
  <2>1. PICK x \in Variable : x = s.vars[i]
    BY <1>2, ElementOfSeq
  <2>2. [x EXCEPT !.val = v] \in Variable /\ [x EXCEPT !.val = v].nom = x.nom /\ [x EXCEPT !.val = v].val = v
    BY DEF Variable
  <2>3. QED
    BY <2>1, <2>2
<1>4. w = [s.vars EXCEPT ![i] = [s.vars[i] EXCEPT !.val = v]] /\ t = [s EXCEPT !.vars = w]
  OBVIOUS
<1> HIDE DEF w, t
<1>5. w \in Seq(Variable) /\ Len(w) = Len(s.vars)
      /\ \A j \in 1..Len(s.vars) : w[j] = IF j = i THEN [s.vars[i] EXCEPT !.val = v] ELSE s.vars[j]
  BY <1>2, <1>3, <1>4, ExceptSeq
<1>6. \A j \in 1..Len(s.vars) : w[j].nom = s.vars[j].nom /\ w[j].val = IF j = i THEN v ELSE s.vars[j].val
  BY <1>3, <1>5
<1> HIDE DEF s
<1>7. /\ t \in Contexto /\ t.vars = w
      /\ t.tipo = s.tipo /\ t.vuelta = s.vuelta /\ t.donde = s.donde
  BY <1>2, <1>4, <1>5 DEF Contexto
<1>8. Asigna(ms, i, v) = EnTope(ms, t)
  BY <1>1 DEF Asigna, t
<1>9. /\ Asigna(ms, i, v) \in Seq(Contexto) /\ Len(Asigna(ms, i, v)) = Len(ms)
      /\ \A k \in 1..Len(ms) : Asigna(ms, i, v)[k] = IF k = Len(ms) THEN t ELSE ms[k]
  BY <1>7, <1>8, EnTopeEs
<1>10. Asigna(ms, i, v)[Len(ms)] = t /\ \A k \in 1..Len(ms) : k # Len(ms) => Asigna(ms, i, v)[k] = ms[k]
  BY <1>1, <1>9
<1>11. QED
  BY <1>5, <1>6, <1>7, <1>9, <1>10 DEF s

\* A stack of contexts with the same frames and the same number of variables in
\* the current one.
MismaForma(t, ms) ==
    /\ Len(t) = Len(ms)
    /\ \A k \in 1..Len(ms) : k # Len(ms) => t[k] = ms[k]
    /\ t[Len(ms)].vuelta = ms[Len(ms)].vuelta
    /\ Len(t[Len(ms)].vars) = Len(ms[Len(ms)].vars)

\* An assignment keeps the shape of the stack (asignar).
LEMMA AsignaMantiene ==
    ASSUME NEW ms \in Seq(Contexto), Len(ms) >= 1, NEW i \in 1..Len(ms[Len(ms)].vars), NEW v \in Palabra
    PROVE  MismaForma(Asigna(ms, i, v), ms)
<1> DEFINE t == Asigna(ms, i, v)
<1>1. /\ Len(t) = Len(ms) /\ \A k \in 1..Len(ms) : k # Len(ms) => t[k] = ms[k]
      /\ t[Len(ms)].vuelta = ms[Len(ms)].vuelta /\ Len(t[Len(ms)].vars) = Len(ms[Len(ms)].vars)
  BY AsignaEs
<1>2. QED
  BY <1>1 DEF MismaForma

\* The layout is the same when only the variables of the current context change
\* and they still fit.
LEMMA TopeIgual ==
    ASSUME NEW ms, NEW c, Forma(ms, c), Trazado(ms, c),
           NEW t \in Seq(Contexto), Len(t) = Len(ms),
           \A k \in 1..Len(ms) : k # Len(ms) => t[k] = ms[k],
           t[Len(ms)].tipo = ms[Len(ms)].tipo, t[Len(ms)].vuelta = ms[Len(ms)].vuelta,
           t[Len(ms)].donde = ms[Len(ms)].donde,
           c[Len(ms)] + 5 * Len(t[Len(ms)].vars) <= TamPila + 4
    PROVE  Forma(t, c) /\ Trazado(t, c) /\ \A m : Enlaces(m, ms, c) => Enlaces(m, t, c)
<1>1. Len(ms) \in Nat \ {0} /\ \A k \in 2..Len(ms) : k - 1 \in 1..Len(ms) /\ k \in 1..Len(ms) /\ k - 1 # Len(ms)
  BY Medidas
<1>2. \A k \in 1..Len(ms) : t[k].tipo = ms[k].tipo /\ t[k].vuelta = ms[k].vuelta /\ t[k].donde = ms[k].donde
  OBVIOUS
<1>3. \A k \in 1..Len(ms) : Enlace(t[k]) = Enlace(ms[k])
  BY <1>2 DEF Enlace
<1>4. \A k \in 2..Len(ms) : t[k - 1] = ms[k - 1]
  BY <1>1
<1>5. Trazado(t, c)
  <2>1. c \in [1..Len(t) -> Int] /\ c[1] = 0
    BY DEF Trazado
  <2>2. ASSUME NEW k \in 2..Len(t)
        PROVE  c[k] = c[k - 1] + 5 * Len(t[k - 1].vars) + Enlace(t[k])
    <3>1. c[k] = c[k - 1] + 5 * Len(ms[k - 1].vars) + Enlace(ms[k])
      BY <2>2 DEF Trazado
    <3>2. t[k - 1] = ms[k - 1] /\ Enlace(t[k]) = Enlace(ms[k])
      BY <1>1, <1>3, <1>4, <2>2
    <3>3. QED
      BY <3>1, <3>2
  <2>3. QED
    BY <2>1, <2>2 DEF Trazado
<1>6. Forma(t, c)
  <2>1. \A k \in 1..Len(t) : t[k].tipo = "base" <=> k = 1
    BY <1>2 DEF Forma
  <2>2. \A k \in 2..Len(t) : c[k] <= TamPila
    BY DEF Forma
  <2>3. \A k \in 2..Len(t) : t[k].tipo = "con" =>
          \E i \in 1..Len(t[k - 1].vars) : t[k].donde = c[k - 1] + 5 * (i - 1) + 1
    <3>1. TAKE k \in 2..Len(t)
    <3>2. t[k].tipo = ms[k].tipo /\ t[k].donde = ms[k].donde /\ t[k - 1] = ms[k - 1]
      BY <1>1, <1>2, <1>4
    <3>3. ms[k].tipo = "con" => \E i \in 1..Len(ms[k - 1].vars) : ms[k].donde = c[k - 1] + 5 * (i - 1) + 1
      BY DEF Forma
    <3>4. QED
      BY <3>2, <3>3
  <2>4. QED
    BY <1>1, <2>1, <2>2, <2>3 DEF Forma
<1>7. ASSUME NEW m, Enlaces(m, ms, c) PROVE Enlaces(m, t, c)
  <2>1. SUFFICES ASSUME NEW k \in 2..Len(t)
                 PROVE  LET d == c[k] - Enlace(t[k]) IN
                        /\ Entero(m, d) = Guardado(c[k - 1])
                        /\ Entero(m, d + 4) = Guardado(t[k].vuelta)
                        /\ t[k].tipo = "con" => Entero(m, d + 8) = Guardado(t[k].donde)
    BY DEF Enlaces
  <2>2. /\ t[k].tipo = ms[k].tipo /\ t[k].vuelta = ms[k].vuelta /\ t[k].donde = ms[k].donde
        /\ Enlace(t[k]) = Enlace(ms[k])
    BY <1>1, <1>2, <1>3
  <2>3. LET d == c[k] - Enlace(ms[k]) IN
        /\ Entero(m, d) = Guardado(c[k - 1])
        /\ Entero(m, d + 4) = Guardado(ms[k].vuelta)
        /\ ms[k].tipo = "con" => Entero(m, d + 8) = Guardado(ms[k].donde)
    BY <1>7 DEF Enlaces
  <2>4. QED
    BY <2>2, <2>3
<1>8. QED
  BY <1>5, <1>6, <1>7

\* The older contexts are below the current one.
LEMMA BajoElTope ==
    ASSUME NEW ms, NEW c, Forma(ms, c), Trazado(ms, c)
    PROVE  /\ \A k \in 1..Len(ms) : k # Len(ms) => c[k] + 5 * Len(ms[k].vars) + 8 <= c[Len(ms)]
           /\ \A k \in 1..Len(ms) : c[k] <= c[Len(ms)]
<1>1. Len(ms) \in Nat \ {0} /\ \A k \in 1..Len(ms) : Len(ms[k].vars) \in Nat /\ c[k] \in Nat
  BY Medidas, TrazadoCrece
<1>2. ASSUME NEW k \in 1..Len(ms), k # Len(ms)
      PROVE  c[k] + 5 * Len(ms[k].vars) + 8 <= c[Len(ms)] /\ c[k] <= c[Len(ms)]
  <2>1. k < Len(ms) /\ Len(ms) \in 2..Len(ms) /\ Len(ms) \in 1..Len(ms)
    BY <1>1, <1>2
  <2>2. PICK x \in Nat, z \in Nat : x = c[Len(ms)] /\ z = Enlace(ms[Len(ms)]) /\ z \in {8, 12}
    BY <1>1, <2>1, Medidas
  <2>3. PICK u \in Nat, w \in Nat : u = c[k] /\ w = Len(ms[k].vars)
    BY <1>1
  <2>4. u + 5 * w <= x - z
    BY <2>1, <2>2, <2>3, TrazadoCrece
  <2>5. z >= 8
    BY <2>2
  <2>6. u + 5 * w + 8 <= x /\ u <= x
    BY <2>4, <2>5
  <2>7. QED
    BY <2>2, <2>3, <2>6
<1>3. \A k \in 1..Len(ms) : c[k] <= c[Len(ms)]
  <2>1. TAKE k \in 1..Len(ms)
  <2>2. c[k] \in Nat
    BY <1>1
  <2>3. CASE k = Len(ms)
    BY <2>2, <2>3
  <2>4. CASE k # Len(ms)
    BY <1>2, <2>4
  <2>5. QED
    BY <2>3, <2>4
<1>4. QED
  BY <1>2, <1>3

\* definirVariable, when the name fits: d is where the context ends.
LEMMA DefineBien ==
    ASSUME NEW ms, NEW c, Forma(ms, c), Trazado(ms, c), NEW m \in Octetos, EnBytes(m, ms, c),
           NEW n \in Nombres, NEW d \in Int, d = c[Len(ms)] + 5 * Len(ms[Len(ms)].vars), Cabe(d, 1)
    PROVE  /\ [m EXCEPT ![d] = n] \in Octetos
           /\ Forma(Define(ms, n), c) /\ Trazado(Define(ms, n), c)
           /\ EnBytes([m EXCEPT ![d] = n], Define(ms, n), c)
<1> DEFINE t == Define(ms, n)
           o == [m EXCEPT ![d] = n]
           L == Len(ms)
<1>1. L \in Nat \ {0} /\ L \in 1..L /\ TamPila \in Nat /\ ms \in Seq(Contexto)
      /\ \A k \in 1..L : Len(ms[k].vars) \in Nat /\ c[k] \in Nat
  BY Medidas, TrazadoCrece
<1>2. d \in 0..TamPila - 1
  BY <1>1 DEF Cabe
<1>3. o \in Octetos /\ o[d] = n /\ \A e \in 0..TamPila - 1 : e # d => o[e] = m[e]
  <2>1. n \in 0..255
    BY SupuestosPila
  <2>2. QED
    BY <1>2, <2>1 DEF Octetos
<1>4. /\ t \in Seq(Contexto) /\ Len(t) = L
      /\ \A k \in 1..L : k # L => t[k] = ms[k]
      /\ t[L].tipo = ms[L].tipo /\ t[L].vuelta = ms[L].vuelta /\ t[L].donde = ms[L].donde
      /\ Len(t[L].vars) = Len(ms[L].vars) + 1
      /\ \A j \in 1..Len(ms[L].vars) : t[L].vars[j] = ms[L].vars[j]
      /\ t[L].vars[Len(ms[L].vars) + 1] = [nom |-> n, val |-> Sin]
  BY <1>1, DefineEs
<1> HIDE DEF t, o
<1>5. c[L] + 5 * Len(t[L].vars) <= TamPila + 4
  <2>1. PICK x \in Nat, l \in Nat : x = c[L] /\ l = Len(ms[L].vars) /\ x + 5 * l \in 0..TamPila - 1
    BY <1>1, <1>2
  <2>2. x + 5 * l \in 0..TamPila - 1
    BY <2>1
  <2>3. x + 5 * (l + 1) <= TamPila + 4
    BY <1>1, <2>2
  <2>4. QED
    BY <1>4, <2>1, <2>3
<1>6. Forma(t, c) /\ Trazado(t, c) /\ \A x : Enlaces(x, ms, c) => Enlaces(x, t, c)
  BY <1>4, <1>5, TopeIgual
<1>7. EnBytes(o, ms, c)
  <2>1. \A e \in 0..TamPila - 1 : e < d => o[e] = m[e]
    BY <1>2, <1>3
  <2>2. QED
    BY <1>3, <2>1, BytesDeAbajo
<1>8. EnNombres(o, t, c)
  <2>1. SUFFICES ASSUME NEW k \in 1..L, NEW i \in 1..Len(t[k].vars)
                 PROVE  o[c[k] + 5 * (i - 1)] = t[k].vars[i].nom
    BY <1>4 DEF EnNombres
  <2>2. \A j \in 1..Len(ms[k].vars) : o[c[k] + 5 * (j - 1)] = ms[k].vars[j].nom
    BY <1>7 DEF EnBytes, EnNombres
  <2>3. CASE k # L
    BY <1>4, <2>2, <2>3
  <2>4. CASE k = L /\ i = Len(ms[L].vars) + 1
    <3>1. c[L] + 5 * (i - 1) = d
      BY <1>1, <2>4
    <3>2. QED
      BY <1>3, <1>4, <2>4, <3>1
  <2>5. CASE k = L /\ i # Len(ms[L].vars) + 1
    <3>1. i \in 1..Len(ms[L].vars)
      BY <1>1, <1>4, <2>5
    <3>2. QED
      BY <1>4, <2>2, <2>5, <3>1
  <2>6. QED
    BY <2>3, <2>4, <2>5
<1>9. EnValores(o, t, c)
  <2>1. SUFFICES ASSUME NEW k \in 1..L, NEW i \in 1..Len(t[k].vars), t[k].vars[i].val # Sin
                 PROVE  /\ c[k] + 5 * (i - 1) + 5 <= TamPila
                        /\ Entero(o, c[k] + 5 * (i - 1) + 1) = Guardado(t[k].vars[i].val)
    BY <1>4 DEF EnValores
  <2>2. \A j \in 1..Len(ms[k].vars) : ms[k].vars[j].val # Sin =>
            /\ c[k] + 5 * (j - 1) + 5 <= TamPila
            /\ Entero(o, c[k] + 5 * (j - 1) + 1) = Guardado(ms[k].vars[j].val)
    BY <1>7 DEF EnBytes, EnValores
  <2>3. CASE k # L
    BY <1>4, <2>1, <2>2, <2>3
  <2>4. CASE k = L
    <3>1. i # Len(ms[L].vars) + 1
      BY <1>4, <2>1, <2>4
    <3>2. i \in 1..Len(ms[L].vars) /\ t[k].vars[i] = ms[k].vars[i]
      BY <1>1, <1>4, <2>4, <3>1
    <3>3. ms[k].vars[i].val # Sin
      BY <2>1, <3>2
    <3>4. QED
      BY <2>2, <2>4, <3>2, <3>3
  <2>5. QED
    BY <2>3, <2>4
<1>10. EnBytes(o, t, c)
  BY <1>6, <1>7, <1>8, <1>9 DEF EnBytes
<1>11. QED
  BY <1>3, <1>6, <1>10 DEF t, o

\* Two variables of a context do not overlap.
LEMMA Separadas ==
    ASSUME NEW x \in Nat, NEW i \in Nat, NEW j \in Nat
    PROVE  /\ j < i => x + 5 * (j - 1) + 5 <= x + 5 * (i - 1)
           /\ i < j => x + 5 * (i - 1) + 5 <= x + 5 * (j - 1)
OBVIOUS

\* A value is written in a variable of the current context, where it fits: what
\* asignar does, and retornar to the caller.
LEMMA AsignaBien ==
    ASSUME NEW ms, NEW c, Forma(ms, c), Trazado(ms, c), NEW m \in Octetos, EnBytes(m, ms, c),
           NEW i \in 1..Len(ms[Len(ms)].vars), NEW v \in Palabra,
           NEW d \in Int, d = c[Len(ms)] + 5 * (i - 1) + 1, Cabe(d, 4)
    PROVE  /\ Con(m, d, v) \in Octetos
           /\ Forma(Asigna(ms, i, v), c) /\ Trazado(Asigna(ms, i, v), c)
           /\ EnBytes(Con(m, d, v), Asigna(ms, i, v), c)
<1> DEFINE t == Asigna(ms, i, v)
           o == Con(m, d, v)
           L == Len(ms)
<1>1. L \in Nat \ {0} /\ L \in 1..L /\ TamPila \in Nat /\ ms \in Seq(Contexto)
      /\ \A k \in 1..L : Len(ms[k].vars) \in Nat /\ c[k] \in Nat
  BY Medidas, TrazadoCrece
<1>2. /\ o \in Octetos /\ Entero(o, d) = Guardado(v)
      /\ \A e \in 0..TamPila - 1 : e < d \/ d + 4 <= e => o[e] = m[e]
  BY ConEs, EnteroDeCon
<1>3. /\ t \in Seq(Contexto) /\ Len(t) = L
      /\ \A k \in 1..L : k # L => t[k] = ms[k]
      /\ t[L].tipo = ms[L].tipo /\ t[L].vuelta = ms[L].vuelta /\ t[L].donde = ms[L].donde
      /\ Len(t[L].vars) = Len(ms[L].vars)
      /\ \A j \in 1..Len(ms[L].vars) : t[L].vars[j].nom = ms[L].vars[j].nom
      /\ \A j \in 1..Len(ms[L].vars) : t[L].vars[j].val = IF j = i THEN v ELSE ms[L].vars[j].val
  BY <1>1, AsignaEs
<1> HIDE DEF t, o
<1>4. Forma(t, c) /\ Trazado(t, c) /\ \A x : Enlaces(x, ms, c) => Enlaces(x, t, c)
  <2>1. c[L] + 5 * Len(t[L].vars) <= TamPila + 4
    BY <1>3 DEF Forma
  <2>2. QED
    BY <1>3, <2>1, TopeIgual
<1>5. ASSUME NEW x \in Int, Cabe(x, 4), x + 4 <= d \/ d + 4 <= x
      PROVE  Entero(o, x) = Entero(m, x)
  <2>1. \A e \in x..x + 3 : e \in 0..TamPila - 1 /\ (e < d \/ d + 4 <= e)
    BY <1>1, <1>5 DEF Cabe
  <2>2. \A e \in x..x + 3 : o[e] = m[e]
    BY <1>2, <2>1
  <2>3. QED
    BY <1>2, <1>5, <2>2, EnteroIgual
\* Where the variables of the stack are, d apart.
<1>6. ASSUME NEW k \in 1..L, NEW j \in 1..Len(ms[k].vars)
      PROVE  \/ k = L /\ j = i
             \/ c[k] + 5 * (j - 1) + 5 < d
             \/ d + 4 <= c[k] + 5 * (j - 1)
  <2>1. PICK y \in Nat, l \in Nat : y = c[L] /\ l = Len(ms[L].vars) /\ d = y + 5 * (i - 1) + 1 /\ i \in 1..l
    BY <1>1
  <2>2. d = y + 5 * (i - 1) + 1 /\ i \in Nat /\ i >= 1
    BY <2>1
  <2>3. CASE k # L
    <3>1. PICK x \in Nat, n \in Nat : x = c[k] /\ n = Len(ms[k].vars) /\ x + 5 * n + 8 <= y /\ j \in 1..n
      BY <1>1, <2>1, <2>3, BajoElTope
    <3>2. x + 5 * n + 8 <= y /\ j \in 1..n
      BY <3>1
    <3>3. x + 5 * (j - 1) + 5 < d
      BY <2>2, <3>2
    <3>4. QED
      BY <3>1, <3>3
  <2>4. CASE k = L
    <3>1. j \in Nat
      OBVIOUS
    <3>2. \/ j = i
          \/ y + 5 * (j - 1) + 5 <= y + 5 * (i - 1)
          \/ y + 5 * (i - 1) + 5 <= y + 5 * (j - 1)
      BY <2>2, <3>1, Separadas
    <3>3. \/ j = i
          \/ y + 5 * (j - 1) + 5 < d
          \/ d + 4 <= y + 5 * (j - 1)
      BY <2>2, <3>1, <3>2
    <3>4. QED
      BY <2>1, <2>4, <3>3
  <2>5. QED
    BY <2>3, <2>4
<1>7. Enlaces(o, ms, c)
  <2>1. SUFFICES ASSUME NEW k \in 2..L
                 PROVE  LET e == c[k] - Enlace(ms[k]) IN
                        /\ Entero(o, e) = Guardado(c[k - 1])
                        /\ Entero(o, e + 4) = Guardado(ms[k].vuelta)
                        /\ ms[k].tipo = "con" => Entero(o, e + 8) = Guardado(ms[k].donde)
    BY DEF Enlaces
  <2> DEFINE e == c[k] - Enlace(ms[k])
  <2>2. /\ k \in 1..L /\ Enlace(ms[k]) \in Nat
        /\ Enlace(ms[k]) = IF ms[k].tipo = "con" THEN 12 ELSE 8
    BY Medidas
  <2>3. e \in Int /\ e + 8 <= d /\ (ms[k].tipo = "con" => e + 12 <= d)
    <3>1. PICK x \in Nat, y \in Nat : x = c[k] /\ y = c[L] /\ x <= y /\ d = y + 5 * (i - 1) + 1
      BY <1>1, <2>2, BajoElTope
    <3>2. x <= y /\ y < d
      BY <3>1
    <3>3. e = x - Enlace(ms[k])
      BY <3>1
    <3>4. QED
      BY <2>2, <3>2, <3>3
  <2>4. Cabe(e, 4) /\ Cabe(e + 4, 4) /\ (ms[k].tipo = "con" => Cabe(e + 8, 4))
    BY Cupo
  <2>5. /\ Entero(m, e) = Guardado(c[k - 1]) /\ Entero(m, e + 4) = Guardado(ms[k].vuelta)
        /\ ms[k].tipo = "con" => Entero(m, e + 8) = Guardado(ms[k].donde)
    BY DEF EnBytes, Enlaces
  <2> HIDE DEF e
  <2>6. Entero(o, e) = Entero(m, e) /\ Entero(o, e + 4) = Entero(m, e + 4)
    <3>1. e + 4 <= d /\ (e + 4) + 4 <= d /\ e + 4 \in Int
      BY <2>3
    <3>2. QED
      BY <1>5, <2>3, <2>4, <3>1
  <2>7. ms[k].tipo = "con" => Entero(o, e + 8) = Entero(m, e + 8)
    <3>1. e + 8 \in Int /\ (ms[k].tipo = "con" => (e + 8) + 4 <= d)
      BY <2>3
    <3>2. QED
      BY <1>5, <2>4, <3>1
  <2>8. QED
    BY <2>5, <2>6, <2>7 DEF e
<1>8. EnNombres(o, t, c)
  <2>1. SUFFICES ASSUME NEW k \in 1..L, NEW j \in 1..Len(ms[k].vars)
                 PROVE  o[c[k] + 5 * (j - 1)] = m[c[k] + 5 * (j - 1)]
    <3>1. \A k \in 1..L : Len(t[k].vars) = Len(ms[k].vars)
      BY <1>3
    <3>2. \A k \in 1..L : \A j \in 1..Len(ms[k].vars) : t[k].vars[j].nom = ms[k].vars[j].nom
      BY <1>3
    <3>3. QED
      BY SMTT(30), <1>3, <3>1, <3>2 DEF EnBytes, EnNombres
  <2>2. PICK a \in 0..TamPila - 1 : a = c[k] + 5 * (j - 1)
    BY Cupo
  <2>3. a < d \/ d + 4 <= a
    <3>1. CASE k = L /\ j = i
      <4>1. PICK y \in Nat : y = c[L]
        BY <1>1
      <4>2. a = y + 5 * (i - 1) /\ d = y + 5 * (i - 1) + 1 /\ i \in Nat
        BY <2>2, <3>1, <4>1
      <4>3. QED
        BY <4>2
    <3>2. CASE a + 5 < d \/ d + 4 <= a
      BY <3>2
    <3>3. QED
      BY <1>6, <2>2, <3>1, <3>2
  <2>4. QED
    BY <1>2, <2>2, <2>3
<1>9. EnValores(o, t, c)
  <2>1. SUFFICES ASSUME NEW k \in 1..L, NEW j \in 1..Len(t[k].vars), t[k].vars[j].val # Sin
                 PROVE  /\ c[k] + 5 * (j - 1) + 5 <= TamPila
                        /\ Entero(o, c[k] + 5 * (j - 1) + 1) = Guardado(t[k].vars[j].val)
    BY <1>3 DEF EnValores
  <2>2. j \in 1..Len(ms[k].vars)
    BY <1>3
  <2>3. PICK x \in Int : x = c[k] + 5 * (j - 1)
    BY <1>1, <2>2, Cupo
  <2>4. CASE k = L /\ j = i
    <3>1. x + 1 = d /\ t[k].vars[j].val = v
      BY <1>3, <2>2, <2>3, <2>4
    <3>2. x + 5 <= TamPila
      BY <2>3, <3>1 DEF Cabe
    <3>3. QED
      BY <1>2, <2>3, <3>1, <3>2
  <2>5. CASE ~ (k = L /\ j = i)
    <3>1. t[k].vars[j].val = ms[k].vars[j].val
      BY <1>3, <2>2, <2>5
    <3>2. x + 5 <= TamPila /\ Entero(m, x + 1) = Guardado(ms[k].vars[j].val)
      BY <2>1, <2>2, <2>3, <3>1 DEF EnBytes, EnValores
    <3>3. x >= 0 /\ (x + 5 < d \/ d + 4 <= x)
      <4>1. c[k] + 5 * (j - 1) \in 0..TamPila - 1
        BY <2>2, Cupo
      <4>2. c[k] + 5 * (j - 1) + 5 < d \/ d + 4 <= c[k] + 5 * (j - 1)
        BY <1>6, <2>2, <2>5
      <4>3. x \in 0..TamPila - 1
        BY <2>3, <4>1
      <4>4. x + 5 < d \/ d + 4 <= x
        BY <2>3, <4>2
      <4>5. QED
        BY <1>1, <4>3, <4>4
    <3>4. Cabe(x + 1, 4) /\ x + 1 \in Int /\ ((x + 1) + 4 <= d \/ d + 4 <= x + 1)
      <4>1. x + 5 <= TamPila
        BY <3>2
      <4>2. QED
        BY <1>1, <3>3, <4>1 DEF Cabe
    <3>5. Entero(o, x + 1) = Entero(m, x + 1)
      BY <1>5, <3>4
    <3>6. QED
      BY <2>3, <3>1, <3>2, <3>5
  <2>6. QED
    BY <2>4, <2>5
<1>10. EnBytes(o, t, c)
  BY <1>4, <1>7, <1>8, <1>9 DEF EnBytes
<1>11. QED
  BY <1>2, <1>4, <1>10 DEF t, o

-----------------------------------------------------------------------------
(* A call *)

\* Every number between 0 and an int is one.
LEMMA PalabraMenor ==
    ASSUME NEW y \in Palabra, NEW x \in 0..y
    PROVE  x \in Palabra
<1>1. y \in Int /\ Alto(Alto(Alto(y))) \in -128..127
  BY DEF Palabra
<1>2. \A a, b \in Int : 0 <= a /\ a <= b => Alto(a) \in Int /\ Alto(b) \in Int /\ 0 <= Alto(a) /\ Alto(a) <= Alto(b)
  BY DEF Alto
<1>3. 0 <= Alto(x) /\ Alto(x) <= Alto(y) /\ Alto(x) \in Int /\ Alto(y) \in Int
  BY <1>1, <1>2
<1>4. 0 <= Alto(Alto(x)) /\ Alto(Alto(x)) <= Alto(Alto(y)) /\ Alto(Alto(x)) \in Int /\ Alto(Alto(y)) \in Int
  BY <1>2, <1>3
<1>5. /\ 0 <= Alto(Alto(Alto(x))) /\ Alto(Alto(Alto(x))) <= Alto(Alto(Alto(y)))
      /\ Alto(Alto(Alto(x))) \in Int
  BY <1>2, <1>4
<1>6. Alto(Alto(Alto(x))) \in -128..127
  <2>1. PICK a \in Int, b \in -128..127 : a = Alto(Alto(Alto(x))) /\ b = Alto(Alto(Alto(y)))
    BY <1>1, <1>5
  <2>2. 0 <= a /\ a <= b
    BY <1>5, <2>1
  <2>3. a \in -128..127
    BY <2>1, <2>2
  <2>4. QED
    BY <2>1, <2>3
<1>7. QED
  BY <1>6 DEF Palabra

\* What an int that is written does not touch.
LEMMA ConLejos ==
    ASSUME NEW m \in Octetos, NEW d \in Int, Cabe(d, 4), NEW v \in Palabra,
           NEW x \in Int, Cabe(x, 4), x + 4 <= d \/ d + 4 <= x
    PROVE  Entero(Con(m, d, v), x) = Entero(m, x)
<1> DEFINE o == Con(m, d, v)
<1>1. o \in Octetos /\ \A e \in 0..TamPila - 1 : e < d \/ d + 4 <= e => o[e] = m[e]
  BY ConEs
<1> HIDE DEF o
<1>2. TamPila \in Int
  BY SupuestosPila DEF Palabra
<1>3. \A e \in x..x + 3 : e \in 0..TamPila - 1 /\ (e < d \/ d + 4 <= e)
  BY <1>2 DEF Cabe
<1>4. \A e \in x..x + 3 : o[e] = m[e]
  BY <1>1, <1>3
<1>5. Entero(o, x) = Entero(m, x)
  BY <1>1, <1>4, EnteroIgual
<1>6. QED
  BY <1>5 DEF o

\* A stack of contexts with one more, without variables, on top of those of ms.
Crecida(t, ms, tipo, vuelta, donde) ==
    /\ t \in Seq(Contexto) /\ Len(t) = Len(ms) + 1
    /\ \A k \in 1..Len(ms) : t[k] = ms[k]
    /\ t[Len(ms) + 1].vars = <<>> /\ t[Len(ms) + 1].tipo = tipo
    /\ t[Len(ms) + 1].vuelta = vuelta /\ t[Len(ms) + 1].donde = donde

\* The stack after a call: one context more, without variables.
LEMMA ApilaCrece ==
    ASSUME NEW ms \in Seq(Contexto), NEW tipo \in {"sin", "con"}, NEW vuelta \in Nat, NEW donde \in Int
    PROVE  Crecida(Apila(ms, tipo, vuelta, donde), ms, tipo, vuelta, donde)
<1> DEFINE x == [vars |-> <<>>, tipo |-> tipo, vuelta |-> vuelta, donde |-> donde]
<1>1. x \in Contexto
  <2>1. <<>> \in Seq(Variable)
    BY EmptySeq
  <2>2. QED
    BY <2>1 DEF Contexto
<1>2. x.vars = <<>> /\ x.tipo = tipo /\ x.vuelta = vuelta /\ x.donde = donde
  OBVIOUS
<1>3. Apila(ms, tipo, vuelta, donde) = Append(ms, x)
  BY DEF Apila
<1> HIDE DEF x
<1>4. /\ Append(ms, x) \in Seq(Contexto) /\ Len(Append(ms, x)) = Len(ms) + 1
      /\ \A k \in 1..Len(ms) : Append(ms, x)[k] = ms[k]
      /\ Append(ms, x)[Len(ms) + 1] = x
  BY <1>1, AppendProperties
<1>5. Crecida(Append(ms, x), ms, tipo, vuelta, donde)
  BY <1>2, <1>4 DEF Crecida
<1>6. QED
  BY <1>3, <1>5

\* The segment m with the link of a call at d.
ConEnlace(m, d, cursor, vuelta, tipo, donde) ==
    LET sin == Con(Con(m, d, cursor), d + 4, vuelta)
    IN IF tipo = "con" THEN Con(sin, d + 8, donde) ELSE sin

\* A call can be pushed: its link fits at d, where the context that calls ends,
\* and what it returns goes to a variable of that context.
Apilable(ms, c, m, tipo, vuelta, donde, d) ==
    /\ Forma(ms, c) /\ Trazado(ms, c) /\ m \in Octetos /\ EnBytes(m, ms, c)
    /\ tipo \in {"sin", "con"} /\ vuelta \in Nat /\ vuelta \in Palabra /\ donde \in Int /\ d \in Int
    /\ d = c[Len(ms)] + 5 * Len(ms[Len(ms)].vars)
    /\ Cabe(d, IF tipo = "con" THEN 12 ELSE 8)
    /\ tipo = "con" => \E i \in 1..Len(ms[Len(ms)].vars) : donde = c[Len(ms)] + 5 * (i - 1) + 1

\* It is in the bytes, and its context begins after its link.
Apilado(ms, c, m, tipo, vuelta, donde, d) ==
    LET t == Apila(ms, tipo, vuelta, donde)
        o == ConEnlace(m, d, c[Len(ms)], vuelta, tipo, donde)
    IN /\ o \in Octetos
       /\ \E e : /\ Forma(t, e) /\ Trazado(t, e) /\ EnBytes(o, t, e)
                 /\ Len(t) = Len(ms) + 1 /\ t[Len(t)].vars = <<>> /\ t[Len(t)].vuelta = vuelta
                 /\ \A k \in 1..Len(ms) : t[k] = ms[k]
                 /\ e[Len(t)] = d + TamEnlace(tipo)

\* llamarSinRetorno and llamarConRetorno, when the link fits.
LEMMA ApilaBien ==
    ASSUME NEW ms, NEW c, NEW m, NEW tipo, NEW vuelta, NEW donde, NEW d,
           Apilable(ms, c, m, tipo, vuelta, donde, d)
    PROVE  Apilado(ms, c, m, tipo, vuelta, donde, d)
<1> SUFFICES ASSUME Forma(ms, c), Trazado(ms, c), m \in Octetos, EnBytes(m, ms, c),
                    tipo \in {"sin", "con"}, vuelta \in Nat, vuelta \in Palabra,
                    donde \in Int, d \in Int,
                    d = c[Len(ms)] + 5 * Len(ms[Len(ms)].vars),
                    Cabe(d, IF tipo = "con" THEN 12 ELSE 8),
                    tipo = "con" => \E i \in 1..Len(ms[Len(ms)].vars) :
                                       donde = c[Len(ms)] + 5 * (i - 1) + 1
             PROVE  Apilado(ms, c, m, tipo, vuelta, donde, d)
  BY DEF Apilable
<1> DEFINE t == Apila(ms, tipo, vuelta, donde)
           L == Len(ms)
           N == L + 1
           n == TamEnlace(tipo)
           e == [k \in 1..N |-> IF k = N THEN d + n ELSE c[k]]
           sin == Con(Con(m, d, c[L]), d + 4, vuelta)
           o == ConEnlace(m, d, c[L], vuelta, tipo, donde)
<1>1. sin = Con(Con(m, d, c[L]), d + 4, vuelta) /\ o = IF tipo = "con" THEN Con(sin, d + 8, donde) ELSE sin
  BY DEF ConEnlace
<1> HIDE DEF sin, o
<1>2. L \in Nat \ {0} /\ L \in 1..L /\ TamPila \in Nat /\ ms \in Seq(Contexto)
      /\ \A k \in 1..L : Len(ms[k].vars) \in Nat /\ c[k] \in Nat
  BY Medidas, TrazadoCrece
<1>3. /\ t \in Seq(Contexto) /\ Len(t) = N /\ \A k \in 1..L : t[k] = ms[k]
      /\ t[N].vars = <<>> /\ t[N].tipo = tipo /\ t[N].vuelta = vuelta /\ t[N].donde = donde
  <2>1. Crecida(Apila(ms, tipo, vuelta, donde), ms, tipo, vuelta, donde)
    BY <1>2, ApilaCrece
  <2> HIDE DEF t
  <2>2. Crecida(t, ms, tipo, vuelta, donde)
    BY <2>1 DEF t
  <2>3. QED
    BY <2>2 DEF Crecida
<1>4. n \in Nat /\ n \in {8, 12} /\ n = (IF tipo = "con" THEN 12 ELSE 8) /\ Enlace(t[N]) = n
  BY <1>3 DEF TamEnlace, Enlace
<1>5. d \in Nat /\ d + n <= TamPila /\ d + n \in Nat
  BY SMTT(30), <1>2, <1>4 DEF Cabe
<1>6. N \in Nat \ {0} /\ N \in 1..N /\ N # 1 /\ L = N - 1 /\ \A k \in 1..N : k = N \/ k \in 1..L
  BY <1>2
<1> HIDE DEF n, t
<1>7. /\ e \in [1..N -> Int] /\ e[N] = d + n /\ \A k \in 1..L : e[k] = c[k]
  <2>1. \A k \in 1..N : k # N => c[k] \in Int
    BY <1>2, <1>6
  <2>2. \A k \in 1..L : k \in 1..N /\ k # N
    BY <1>2
  <2>3. QED
    BY <1>5, <1>6, <2>1, <2>2
<1> HIDE DEF e, N
<1>8. \A k \in 2..N : k = N \/ (k \in 2..L /\ k \in 1..L /\ k - 1 \in 1..L)
  BY <1>2, <1>6
<1>9. Trazado(t, e)
  <2>1. e[1] = 0
    BY <1>2, <1>7 DEF Trazado
  <2>2. ASSUME NEW k \in 2..N
        PROVE  e[k] = e[k - 1] + 5 * Len(t[k - 1].vars) + Enlace(t[k])
    <3>1. CASE k = N
      <4>1. e[k - 1] = c[L] /\ t[k - 1] = ms[L] /\ L \in 1..L
        BY <1>2, <1>3, <1>6, <1>7, <3>1
      <4>2. QED
        BY <1>4, <1>7, <3>1, <4>1
    <3>2. CASE k # N
      <4>1. k \in 2..L /\ k \in 1..L /\ k - 1 \in 1..L
        BY <1>8, <3>2
      <4>2. e[k] = c[k] /\ e[k - 1] = c[k - 1] /\ t[k] = ms[k] /\ t[k - 1] = ms[k - 1]
        BY <1>3, <1>7, <4>1
      <4>3. c[k] = c[k - 1] + 5 * Len(ms[k - 1].vars) + Enlace(ms[k])
        BY <4>1 DEF Trazado
      <4>4. QED
        BY <4>2, <4>3
    <3>3. QED
      BY <3>1, <3>2
  <2>3. QED
    BY <1>3, <1>7, <2>1, <2>2 DEF Trazado
<1>10. Forma(t, e)
  <2>1. \A k \in 1..N : t[k].tipo = "base" <=> k = 1
    <3>1. \A k \in 1..L : ms[k].tipo = "base" <=> k = 1
      BY DEF Forma
    <3>2. QED
      BY <1>3, <1>6, <3>1
  <2>2. \A k \in 2..N : e[k] <= TamPila
    <3>1. \A k \in 2..L : c[k] <= TamPila
      BY DEF Forma
    <3>2. QED
      BY <1>5, <1>7, <1>8, <3>1
  <2>3. e[N] + 5 * Len(t[N].vars) <= TamPila + 4
    <3>1. Len(t[N].vars) = 0
      BY <1>3
    <3>2. QED
      BY <1>2, <1>5, <1>7, <3>1
  <2>4. ASSUME NEW k \in 2..N, t[k].tipo = "con"
        PROVE  \E i \in 1..Len(t[k - 1].vars) : t[k].donde = e[k - 1] + 5 * (i - 1) + 1
    <3>1. CASE k = N
      <4>1. e[k - 1] = c[L] /\ t[k - 1] = ms[L] /\ tipo = "con" /\ t[k].donde = donde
        BY <1>2, <1>3, <1>6, <1>7, <2>4, <3>1
      <4>2. QED
        BY <4>1
    <3>2. CASE k # N
      <4>1. k \in 2..L /\ k \in 1..L /\ k - 1 \in 1..L
        BY <1>8, <3>2
      <4>2. e[k - 1] = c[k - 1] /\ t[k] = ms[k] /\ t[k - 1] = ms[k - 1]
        BY <1>3, <1>7, <4>1
      <4>3. \E i \in 1..Len(ms[k - 1].vars) : ms[k].donde = c[k - 1] + 5 * (i - 1) + 1
        BY <2>4, <4>1, <4>2 DEF Forma
      <4>4. QED
        BY <4>2, <4>3
    <3>3. QED
      BY <3>1, <3>2
  <2>5. QED
    BY <1>3, <1>6, <2>1, <2>2, <2>3, <2>4 DEF Forma
\* The numbers of the link, one after another.
<1>11. /\ Cabe(d, 4) /\ Cabe(d + 4, 4) /\ d + 4 \in Int
       /\ tipo = "con" => Cabe(d + 8, 4) /\ d + 8 \in Int
  <2>1. d + 8 <= TamPila /\ (tipo = "con" => d + 12 <= TamPila)
    BY <1>2, <1>4, <1>5
  <2>2. d \in Nat /\ TamPila \in Nat
    BY <1>2, <1>5
  <2>3. QED
    BY <2>1, <2>2 DEF Cabe
<1>12. TamPila \in Palabra /\ c[L] \in Palabra /\ (tipo = "con" => donde \in Palabra)
  <2>1. TamPila \in Palabra
    BY SupuestosPila
  <2>2. PICK x \in Nat, l \in Nat : x = c[L] /\ l = Len(ms[L].vars) /\ d = x + 5 * l
    BY <1>2
  <2>3. d = x + 5 * l
    BY <2>2
  <2>4. x \in 0..TamPila
    BY <1>2, <1>4, <1>5, <2>3
  <2>5. ASSUME tipo = "con" PROVE donde \in 0..TamPila
    <3>1. PICK i \in 1..l : donde = x + 5 * (i - 1) + 1
      BY <2>2, <2>5
    <3>2. QED
      BY <1>2, <1>4, <1>5, <2>3, <3>1
  <2>6. QED
    BY <2>1, <2>2, <2>4, <2>5, PalabraMenor
<1> DEFINE a == Con(m, d, c[L])
<1>13. a \in Octetos /\ Entero(a, d) = Guardado(c[L]) /\ \A x \in 0..TamPila - 1 : x < d => a[x] = m[x]
  <2>1. Cabe(d, 4) /\ c[L] \in Palabra
    BY <1>11, <1>12
  <2>2. a \in Octetos /\ \A x \in 0..TamPila - 1 : x < d \/ d + 4 <= x => a[x] = m[x]
    BY ZenonT(40), <2>1, ConEs
  <2>3. Entero(a, d) = Guardado(c[L])
    BY <2>1, EnteroDeCon
  <2> HIDE DEF a
  <2>4. QED
    BY <2>2, <2>3
<1>14. sin = Con(a, d + 4, vuelta)
  BY <1>1
<1> HIDE DEF a
<1>15. /\ sin \in Octetos /\ Entero(sin, d) = Guardado(c[L]) /\ Entero(sin, d + 4) = Guardado(vuelta)
       /\ \A x \in 0..TamPila - 1 : x < d => sin[x] = m[x]
  <2>1. sin \in Octetos /\ \A x \in 0..TamPila - 1 : x < d + 4 => sin[x] = a[x]
    <3>1. Cabe(d + 4, 4) /\ d + 4 \in Int /\ a \in Octetos
      BY <1>11, <1>13
    <3>2. /\ Con(a, d + 4, vuelta) \in Octetos
          /\ \A x \in 0..TamPila - 1 : x < d + 4 \/ (d + 4) + 4 <= x => Con(a, d + 4, vuelta)[x] = a[x]
      BY <3>1, ConEs
    <3>3. QED
      BY <1>14, <3>2
  <2>2. Entero(sin, d + 4) = Guardado(vuelta)
    BY <1>11, <1>13, <1>14, EnteroDeCon
  <2>3. Entero(sin, d) = Entero(a, d)
    BY <1>11, <1>13, <1>14, ConLejos
  <2>4. \A x \in 0..TamPila - 1 : x < d => x < d + 4
    BY <1>2
  <2>5. QED
    BY <1>13, <2>1, <2>2, <2>3, <2>4
<1>16. /\ o \in Octetos /\ Entero(o, d) = Guardado(c[L]) /\ Entero(o, d + 4) = Guardado(vuelta)
       /\ tipo = "con" => Entero(o, d + 8) = Guardado(donde)
       /\ \A x \in 0..TamPila - 1 : x < d => o[x] = m[x]
  <2>1. CASE tipo # "con"
    BY <1>1, <1>15, <2>1
  <2>2. CASE tipo = "con"
    <3>1. o = Con(sin, d + 8, donde)
      BY <1>1, <2>2
    <3>2. o \in Octetos /\ \A x \in 0..TamPila - 1 : x < d + 8 => o[x] = sin[x]
      <4>1. Cabe(d + 8, 4) /\ d + 8 \in Int /\ donde \in Palabra /\ sin \in Octetos
        BY <1>11, <1>12, <1>15, <2>2
      <4>2. /\ Con(sin, d + 8, donde) \in Octetos
            /\ \A x \in 0..TamPila - 1 : x < d + 8 \/ (d + 8) + 4 <= x => Con(sin, d + 8, donde)[x] = sin[x]
        BY SMTT(30), <4>1, ConEs
      <4>3. QED
        BY <3>1, <4>2
    <3>3. Entero(o, d + 8) = Guardado(donde)
      BY <1>11, <1>12, <1>15, <2>2, <3>1, EnteroDeCon
    <3>4. d + 4 <= d + 8 /\ (d + 4) + 4 <= d + 8
      OBVIOUS
    <3>5. Entero(o, d) = Entero(sin, d) /\ Entero(o, d + 4) = Entero(sin, d + 4)
      BY <1>11, <1>12, <1>15, <2>2, <3>1, <3>4, ConLejos
    <3>6. \A x \in 0..TamPila - 1 : x < d => x < d + 8
      BY <1>2
    <3>7. QED
      BY <1>15, <3>2, <3>3, <3>5, <3>6
  <2>3. QED
    BY <2>1, <2>2
<1>17. EnBytes(o, ms, c)
  BY <1>16, BytesDeAbajo
<1>18. Enlaces(o, t, e)
  <2>1. SUFFICES ASSUME NEW k \in 2..N
                 PROVE  LET x == e[k] - Enlace(t[k]) IN
                        /\ Entero(o, x) = Guardado(e[k - 1])
                        /\ Entero(o, x + 4) = Guardado(t[k].vuelta)
                        /\ t[k].tipo = "con" => Entero(o, x + 8) = Guardado(t[k].donde)
    BY <1>3 DEF Enlaces
  <2>2. CASE k = N
    <3>1. e[k - 1] = c[L] /\ L \in 1..L
      BY <1>2, <1>6, <1>7, <2>2
    <3>2. e[k] - Enlace(t[k]) = d
      BY <1>4, <1>5, <1>7, <2>2
    <3>3. QED
      BY <1>3, <1>16, <2>2, <3>1, <3>2
  <2>3. CASE k # N
    <3>1. k \in 2..L /\ k \in 1..L /\ k - 1 \in 1..L
      BY <1>8, <2>3
    <3>2. e[k] = c[k] /\ e[k - 1] = c[k - 1] /\ t[k] = ms[k]
      BY <1>3, <1>7, <3>1
    <3>3. LET x == c[k] - Enlace(ms[k]) IN
          /\ Entero(o, x) = Guardado(c[k - 1])
          /\ Entero(o, x + 4) = Guardado(ms[k].vuelta)
          /\ ms[k].tipo = "con" => Entero(o, x + 8) = Guardado(ms[k].donde)
      BY <1>17, <3>1 DEF EnBytes, Enlaces
    <3>4. QED
      BY <3>2, <3>3
  <2>4. QED
    BY <2>2, <2>3
<1>19. 1..Len(t[N].vars) = {}
  BY <1>3
<1>20. EnNombres(o, t, e)
  <2>1. \A k \in 1..L : \A i \in 1..Len(ms[k].vars) : o[c[k] + 5 * (i - 1)] = ms[k].vars[i].nom
    BY <1>17 DEF EnBytes, EnNombres
  <2>2. ASSUME NEW k \in 1..N, NEW i \in 1..Len(t[k].vars)
        PROVE  o[e[k] + 5 * (i - 1)] = t[k].vars[i].nom
    <3>1. k \in 1..L
      BY <1>6, <1>19, <2>2
    <3>2. t[k] = ms[k] /\ e[k] = c[k]
      BY <1>3, <1>7, <3>1
    <3>3. o[c[k] + 5 * (i - 1)] = ms[k].vars[i].nom
      BY <2>1, <2>2, <3>1, <3>2
    <3>4. QED
      BY <3>2, <3>3
  <2>3. QED
    BY <1>3, <2>2 DEF EnNombres
<1>21. EnValores(o, t, e)
  <2>1. \A k \in 1..L : \A i \in 1..Len(ms[k].vars) : ms[k].vars[i].val # Sin =>
            /\ c[k] + 5 * (i - 1) + 5 <= TamPila
            /\ Entero(o, c[k] + 5 * (i - 1) + 1) = Guardado(ms[k].vars[i].val)
    BY <1>17 DEF EnBytes, EnValores
  <2>2. ASSUME NEW k \in 1..N, NEW i \in 1..Len(t[k].vars), t[k].vars[i].val # Sin
        PROVE  /\ e[k] + 5 * (i - 1) + 5 <= TamPila
               /\ Entero(o, e[k] + 5 * (i - 1) + 1) = Guardado(t[k].vars[i].val)
    <3>1. k \in 1..L
      BY <1>6, <1>19, <2>2
    <3>2. t[k] = ms[k] /\ e[k] = c[k]
      BY <1>3, <1>7, <3>1
    <3>3. QED
      BY <2>1, <2>2, <3>1, <3>2
  <2>3. QED
    BY <1>3, <2>2 DEF EnValores
<1>22. EnBytes(o, t, e)
  BY <1>18, <1>20, <1>21 DEF EnBytes
<1>23. /\ Forma(t, e) /\ Trazado(t, e) /\ EnBytes(o, t, e)
       /\ Len(t) = L + 1 /\ t[Len(t)].vars = <<>> /\ t[Len(t)].vuelta = vuelta
       /\ \A k \in 1..L : t[k] = ms[k] /\ e[Len(t)] = d + TamEnlace(tipo)
  BY <1>3, <1>7, <1>9, <1>10, <1>22 DEF N, n
<1>24. QED
  <2>1. L \in 1..L
    BY <1>2
  <2>2. e[Len(t)] = d + TamEnlace(tipo)
    BY <1>23, <2>1
  <2>3. QED
    BY <1>16, <1>23, <2>2 DEF Apilado, t, o

-----------------------------------------------------------------------------
(* A return *)

\* The stack without its current context.
LEMMA FrontEs ==
    ASSUME NEW ms \in Seq(Contexto), Len(ms) >= 1
    PROVE  /\ Front(ms) \in Seq(Contexto) /\ Len(Front(ms)) = Len(ms) - 1
           /\ \A k \in 1..Len(ms) - 1 : Front(ms)[k] = ms[k]
<1>1. Len(ms) \in Nat
  BY LenProperties
<1>2. \A k \in 1..Len(ms) - 1 : ms[k] \in Contexto
  BY <1>1, ElementOfSeq
<1>3. Front(ms) = SubSeq(ms, 1, Len(ms) - 1)
  BY DEF Front
<1>4. /\ SubSeq(ms, 1, Len(ms) - 1) \in Seq(Contexto)
      /\ Len(SubSeq(ms, 1, Len(ms) - 1)) = IF 1 <= Len(ms) - 1 THEN (Len(ms) - 1) - 1 + 1 ELSE 0
      /\ \A i \in 1..(Len(ms) - 1) - 1 + 1 : SubSeq(ms, 1, Len(ms) - 1)[i] = ms[1 + i - 1]
  <2>1. 1 \in Int /\ Len(ms) - 1 \in Int
    BY <1>1
  <2>2. QED
    BY <1>2, <2>1, SubSeqProperties
<1>5. (Len(ms) - 1) - 1 + 1 = Len(ms) - 1 /\ \A k \in 1..Len(ms) - 1 : 1 + k - 1 = k
  BY <1>1
<1>6. Len(SubSeq(ms, 1, Len(ms) - 1)) = Len(ms) - 1
  <2>1. PICK n \in Nat : n = Len(ms) - 1
    BY <1>1
  <2>2. Len(SubSeq(ms, 1, n)) = IF 1 <= n THEN n - 1 + 1 ELSE 0
    BY <1>4, <2>1
  <2>3. (IF 1 <= n THEN n - 1 + 1 ELSE 0) = n
    BY <2>1
  <2>4. QED
    BY <2>1, <2>2, <2>3
<1>7. \A k \in 1..Len(ms) - 1 : SubSeq(ms, 1, Len(ms) - 1)[k] = ms[k]
  BY <1>4, <1>5
<1>8. QED
  BY <1>3, <1>4, <1>6, <1>7

\* The context returned to is still in the bytes of the segment.
LEMMA FrontBien ==
    ASSUME NEW ms, NEW c, Forma(ms, c), Trazado(ms, c), NEW m, EnBytes(m, ms, c), Len(ms) # 1
    PROVE  \E e : /\ Forma(Front(ms), e) /\ Trazado(Front(ms), e) /\ EnBytes(m, Front(ms), e)
                  /\ Len(Front(ms)) = Len(ms) - 1
                  /\ \A k \in 1..Len(ms) - 1 : e[k] = c[k] /\ Front(ms)[k] = ms[k]
<1> DEFINE t == Front(ms)
           N == Len(ms) - 1
           e == [k \in 1..N |-> c[k]]
<1>1. Len(ms) \in Nat \ {0} /\ TamPila \in Nat /\ ms \in Seq(Contexto)
      /\ \A k \in 1..Len(ms) : Len(ms[k].vars) \in Nat /\ c[k] \in Nat
  BY Medidas, TrazadoCrece
<1>2. /\ N \in Nat \ {0} /\ N \in 1..N /\ N \in 1..Len(ms) /\ N # Len(ms)
      /\ \A k \in 1..N : k \in 1..Len(ms)
      /\ \A k \in 2..N : k \in 2..Len(ms) /\ k \in 1..N /\ k - 1 \in 1..N
  <2>1. PICK l \in Nat : l = Len(ms) /\ l # 0 /\ l # 1
    BY <1>1, Zenon
  <2>2. N = l - 1 /\ l \in Nat /\ l >= 2
    BY <2>1
  <2> HIDE DEF N
  <2>3. N \in Nat \ {0} /\ N \in 1..N /\ N \in 1..l /\ N # l
    BY <2>1, <2>2
  <2>4. \A k \in 1..N : k \in 1..l
    BY <2>1, <2>2
  <2>5. \A k \in 2..N : k \in 2..l /\ k \in 1..N /\ k - 1 \in 1..N
    BY <2>1, <2>2
  <2>6. QED
    BY <2>1, <2>3, <2>4, <2>5
<1>3. t \in Seq(Contexto) /\ Len(t) = N /\ \A k \in 1..N : t[k] = ms[k]
  BY <1>1, FrontEs
<1>4. e \in [1..N -> Int] /\ \A k \in 1..N : e[k] = c[k]
  BY <1>1, <1>2
<1> HIDE DEF e, t, N
<1>5. \A k \in 2..N : /\ t[k] = ms[k] /\ t[k - 1] = ms[k - 1] /\ e[k] = c[k] /\ e[k - 1] = c[k - 1]
  BY <1>2, <1>3, <1>4
<1>6. Trazado(t, e)
  <2>1. 1 \in 1..N
    BY <1>2
  <2>2. e[1] = 0
    BY <1>4, <2>1 DEF Trazado
  <2>3. \A k \in 2..N : c[k] = c[k - 1] + 5 * Len(ms[k - 1].vars) + Enlace(ms[k])
    BY <1>2 DEF Trazado
  <2>4. \A k \in 2..N : e[k] = e[k - 1] + 5 * Len(t[k - 1].vars) + Enlace(t[k])
    BY <1>5, <2>3
  <2>5. QED
    BY <1>3, <1>4, <2>2, <2>4 DEF Trazado
<1>7. Forma(t, e)
  <2>1. \A k \in 1..N : t[k].tipo = "base" <=> k = 1
    BY <1>2, <1>3 DEF Forma
  <2>2. \A k \in 2..N : e[k] <= TamPila
    BY <1>2, <1>5 DEF Forma
  <2>3. e[N] + 5 * Len(t[N].vars) <= TamPila + 4
    <3>1. PICK x \in Nat, l \in Nat : x = c[N] /\ l = Len(ms[N].vars) /\ x + 5 * l + 8 <= TamPila
      BY <1>1, <1>2, Cupo
    <3>2. x + 5 * l + 8 <= TamPila
      BY <3>1
    <3>3. x + 5 * l <= TamPila + 4
      BY <1>1, <3>2
    <3>4. e[N] = c[N] /\ t[N] = ms[N]
      BY <1>2, <1>3, <1>4
    <3>5. QED
      BY <3>1, <3>3, <3>4
  <2>4. ASSUME NEW k \in 2..N, t[k].tipo = "con"
        PROVE  \E i \in 1..Len(t[k - 1].vars) : t[k].donde = e[k - 1] + 5 * (i - 1) + 1
    <3>1. t[k] = ms[k] /\ t[k - 1] = ms[k - 1] /\ e[k - 1] = c[k - 1] /\ k \in 2..Len(ms)
      BY <1>2, <1>5
    <3>2. \E i \in 1..Len(ms[k - 1].vars) : ms[k].donde = c[k - 1] + 5 * (i - 1) + 1
      BY <2>4, <3>1 DEF Forma
    <3>3. QED
      BY <3>1, <3>2
  <2>5. N >= 1
    BY <1>2
  <2>6. QED
    BY <1>3, <2>1, <2>2, <2>3, <2>4, <2>5 DEF Forma
<1>8. Enlaces(m, t, e)
  <2>1. SUFFICES ASSUME NEW k \in 2..N
                 PROVE  LET x == e[k] - Enlace(t[k]) IN
                        /\ Entero(m, x) = Guardado(e[k - 1])
                        /\ Entero(m, x + 4) = Guardado(t[k].vuelta)
                        /\ t[k].tipo = "con" => Entero(m, x + 8) = Guardado(t[k].donde)
    BY <1>3 DEF Enlaces
  <2>2. LET x == c[k] - Enlace(ms[k]) IN
        /\ Entero(m, x) = Guardado(c[k - 1])
        /\ Entero(m, x + 4) = Guardado(ms[k].vuelta)
        /\ ms[k].tipo = "con" => Entero(m, x + 8) = Guardado(ms[k].donde)
    BY <1>2 DEF EnBytes, Enlaces
  <2>3. QED
    BY <1>5, <2>2
<1>9. EnNombres(m, t, e)
  <2>1. \A k \in 1..N : \A i \in 1..Len(ms[k].vars) : m[c[k] + 5 * (i - 1)] = ms[k].vars[i].nom
    BY <1>2 DEF EnBytes, EnNombres
  <2>2. ASSUME NEW k \in 1..N, NEW i \in 1..Len(t[k].vars)
        PROVE  m[e[k] + 5 * (i - 1)] = t[k].vars[i].nom
    <3>1. t[k] = ms[k] /\ e[k] = c[k]
      BY <1>3, <1>4
    <3>2. QED
      BY <2>1, <2>2, <3>1
  <2>3. QED
    BY <1>3, <2>2 DEF EnNombres
<1>10. EnValores(m, t, e)
  <2>1. \A k \in 1..N : \A i \in 1..Len(ms[k].vars) : ms[k].vars[i].val # Sin =>
            /\ c[k] + 5 * (i - 1) + 5 <= TamPila
            /\ Entero(m, c[k] + 5 * (i - 1) + 1) = Guardado(ms[k].vars[i].val)
    BY <1>2 DEF EnBytes, EnValores
  <2>2. ASSUME NEW k \in 1..N, NEW i \in 1..Len(t[k].vars), t[k].vars[i].val # Sin
        PROVE  /\ e[k] + 5 * (i - 1) + 5 <= TamPila
               /\ Entero(m, e[k] + 5 * (i - 1) + 1) = Guardado(t[k].vars[i].val)
    <3>1. t[k] = ms[k] /\ e[k] = c[k]
      BY <1>3, <1>4
    <3>2. QED
      BY <2>1, <2>2, <3>1
  <2>3. QED
    BY <1>3, <2>2 DEF EnValores
<1>11. EnBytes(m, t, e)
  BY <1>8, <1>9, <1>10 DEF EnBytes
<1>12. QED
  BY <1>3, <1>4, <1>6, <1>7, <1>11 DEF t, N

-----------------------------------------------------------------------------
(* The dictionary *)

\* A set of the first numbers has a greatest one.
LEMMA MaximoEs ==
    ASSUME NEW n \in Nat, NEW S, S \subseteq 0..n, S # {}
    PROVE  /\ Max(S) \in S /\ \A y \in S : y <= Max(S)
           /\ \A x \in S : (\A y \in S : y <= x) => x = Max(S)
<1> DEFINE T == {n - x : x \in S}
<1>1. PICK z \in T : \A y \in T : z <= y
  <2>1. \A x \in S : x \in 0..n /\ n - x \in Nat
    OBVIOUS
  <2>2. T \subseteq Nat
    BY <2>1
  <2>3. T # {}
    OBVIOUS
  <2> HIDE DEF T
  <2>4. QED
    BY <2>2, <2>3, HayMenor
<1>2. PICK x \in S : z = n - x
  OBVIOUS
<1>3. \A y \in S : x >= y
  <2>1. TAKE y \in S
  <2>2. n - y \in T /\ x \in Nat /\ y \in Nat
    OBVIOUS
  <2>3. n - x <= n - y
    BY <1>1, <1>2, <2>2
  <2>4. QED
    BY <2>2, <2>3
<1>4. \E u \in S : \A y \in S : u >= y
  BY <1>3
<1> DEFINE M == CHOOSE u \in S : \A y \in S : u >= y
<1>5. M \in S /\ \A y \in S : M >= y
  BY <1>4
<1>6. Max(S) = M
  BY DEF Max
<1> HIDE DEF M
<1>7. M \in Nat /\ \A y \in S : y \in Nat
  <2>1. \A y \in S : y \in 0..n
    OBVIOUS
  <2>2. \A y \in 0..n : y \in Nat
    OBVIOUS
  <2>3. QED
    BY <1>5, <2>1, <2>2
<1>8. \A y \in S : y <= M
  BY <1>5, <1>7
<1>9. \A u \in S : (\A y \in S : y <= u) => u = M
  BY <1>5, <1>7, <1>8
<1>10. QED
  BY <1>5, <1>6, <1>8, <1>9

\* The variables of the current context that have a name.
LEMMA LlamadaEs ==
    ASSUME NEW m \in Contexto, NEW n \in NombresDe(m)
    PROVE  LET S == {i \in 1..Len(m.vars) : m.vars[i].nom = n} IN
           /\ Llamada(m, n) \in 1..Len(m.vars) /\ m.vars[Llamada(m, n)].nom = n
           /\ \A i \in S : i <= Llamada(m, n)
           /\ \A i \in S : (\A j \in S : j <= i) => i = Llamada(m, n)
<1> DEFINE S == {i \in 1..Len(m.vars) : m.vars[i].nom = n}
<1>1. Len(m.vars) \in Nat
  BY LenProperties DEF Contexto
<1>2. S \subseteq 0..Len(m.vars) /\ S # {}
  BY <1>1 DEF NombresDe
<1>3. Llamada(m, n) = Max(S)
  BY DEF Llamada
<1> HIDE DEF S
<1>4. /\ Max(S) \in S /\ \A y \in S : y <= Max(S)
      /\ \A x \in S : (\A y \in S : y <= x) => x = Max(S)
  BY <1>1, <1>2, MaximoEs
<1>5. Max(S) \in 1..Len(m.vars) /\ m.vars[Max(S)].nom = n
  BY <1>4 DEF S
<1>6. QED
  BY <1>3, <1>4, <1>5 DEF S

\* generarDiccionarioVariables builds the dictionary of the current context from
\* the bytes of the segment.
LEMMA DiccionarioEs ==
    ASSUME NEW ms, NEW c, Forma(ms, c), Trazado(ms, c), NEW m, EnNombres(m, ms, c)
    PROVE  Diccionario(m, c[Len(ms)], Len(ms[Len(ms)].vars)) = DiccDe(ms, c)
<1>1. PICK x \in Nat, l \in Nat, s \in Contexto :
        x = c[Len(ms)] /\ s = ms[Len(ms)] /\ l = Len(s.vars) /\ Len(ms) \in 1..Len(ms)
  <2>1. Len(ms) \in Nat \ {0} /\ Len(ms) \in 1..Len(ms)
    BY Medidas
  <2>2. QED
    BY <2>1, Medidas, TrazadoCrece
<1> DEFINE Nom(i) == Nombre(m, x, i)
<1>2. \A i \in 0..l - 1 : i + 1 \in 1..l /\ Nom(i) = s.vars[i + 1].nom
  <2>1. TAKE i \in 0..l - 1
  <2>2. i + 1 \in 1..l /\ (i + 1) - 1 = i
    BY <1>1
  <2>3. m[x + 5 * ((i + 1) - 1)] = s.vars[i + 1].nom
    BY <1>1, <2>2 DEF EnNombres
  <2>4. QED
    BY <2>2, <2>3 DEF Nombre
<1>3. \A j \in 1..l : j - 1 \in 0..l - 1 /\ Nom(j - 1) = s.vars[j].nom
  <2>1. TAKE j \in 1..l
  <2>2. j - 1 \in 0..l - 1 /\ (j - 1) + 1 = j
    BY <1>1
  <2>3. QED
    BY <1>2, <2>2
<1> DEFINE Dom == {Nom(i) : i \in 0..l - 1}
           A(z) == {i \in 0..l - 1 : Nom(i) = z}
<1>4. Diccionario(m, x, l) = [z \in Dom |-> x + 5 * Max(A(z)) + 1]
  BY DEF Diccionario
<1>5. DiccDe(ms, c) = [z \in NombresDe(s) |-> x + 5 * (Llamada(s, z) - 1) + 1]
  BY <1>1 DEF DiccDe
<1> HIDE DEF Nom
<1>6. Dom = NombresDe(s)
  <2>1. \A z \in Dom : z \in NombresDe(s)
    BY <1>1, <1>2 DEF NombresDe
  <2>2. \A z \in NombresDe(s) : z \in Dom
    BY <1>1, <1>3 DEF NombresDe
  <2>3. QED
    BY <2>1, <2>2
<1>7. ASSUME NEW z \in NombresDe(s)
      PROVE  Max(A(z)) = Llamada(s, z) - 1 /\ Llamada(s, z) \in Int
  <2> DEFINE q == Llamada(s, z)
  <2>1. /\ q \in 1..l /\ s.vars[q].nom = z
        /\ \A i \in 1..l : s.vars[i].nom = z => i <= q
    BY <1>1, LlamadaEs
  <2> HIDE DEF q
  <2>2. q - 1 \in A(z)
    BY <1>3, <2>1
  <2>3. \A i \in A(z) : i <= q - 1
    <3>1. TAKE i \in A(z)
    <3>2. i \in 0..l - 1 /\ i + 1 \in 1..l /\ s.vars[i + 1].nom = z
      BY <1>2
    <3>3. i + 1 <= q
      BY <2>1, <3>2
    <3>4. QED
      BY <2>1, <3>2, <3>3
  <2>4. A(z) \subseteq 0..l
    BY <1>1
  <2> HIDE DEF A
  <2>5. q - 1 = Max(A(z))
    <3>1. l \in Nat /\ A(z) # {}
      BY <1>1, <2>2
    <3>2. \A u \in A(z) : (\A y \in A(z) : y <= u) => u = Max(A(z))
      BY <2>4, <3>1, MaximoEs
    <3>3. QED
      BY <2>2, <2>3, <3>2
  <2>6. QED
    BY <2>1, <2>5 DEF q
<1> HIDE DEF A, Dom
<1>8. Diccionario(m, x, l) = DiccDe(ms, c)
  <2>1. \A z \in NombresDe(s) : x + 5 * Max(A(z)) + 1 = x + 5 * (Llamada(s, z) - 1) + 1
    BY <1>7
  <2>2. QED
    BY <1>4, <1>5, <1>6, <2>1, Zenon
<1>9. QED
  BY <1>1, <1>8

\* definirVariable adds the name, or makes it the last one so called.
LEMMA DiccDefine ==
    ASSUME NEW ms, NEW c, Forma(ms, c), Trazado(ms, c), NEW n \in Nombres,
           NEW d, d = c[Len(ms)] + 5 * Len(ms[Len(ms)].vars)
    PROVE  Anota(DiccDe(ms, c), n, d + 1) = DiccDe(Define(ms, n), c)
<1>1. PICK x \in Nat, l \in Nat, s \in Contexto :
        /\ x = c[Len(ms)] /\ s = ms[Len(ms)] /\ l = Len(s.vars) /\ Len(ms) \in 1..Len(ms)
        /\ ms \in Seq(Contexto) /\ Len(ms) >= 1
  <2>1. Len(ms) \in Nat \ {0} /\ Len(ms) \in 1..Len(ms) /\ ms \in Seq(Contexto) /\ Len(ms) >= 1
    BY Medidas
  <2>2. QED
    BY <2>1, Medidas, TrazadoCrece
<1>2. PICK t \in Contexto :
        /\ t = Define(ms, n)[Len(ms)] /\ Len(t.vars) = l + 1 /\ Len(Define(ms, n)) = Len(ms)
        /\ \A j \in 1..l : t.vars[j] = s.vars[j]
        /\ t.vars[l + 1].nom = n
  <2>1. Define(ms, n) \in Seq(Contexto) /\ Len(Define(ms, n)) = Len(ms)
        /\ LET u == Define(ms, n)[Len(ms)] IN
           /\ Len(u.vars) = l + 1
           /\ \A j \in 1..l : u.vars[j] = s.vars[j]
           /\ u.vars[l + 1] = [nom |-> n, val |-> Sin]
    BY <1>1, DefineEs
  <2>2. Define(ms, n)[Len(ms)] \in Contexto
    BY <1>1, <2>1, ElementOfSeq
  <2>3. QED
    BY <2>1, <2>2
<1>3. l + 1 \in 1..l + 1 /\ \A j \in 1..l + 1 : j = l + 1 \/ j \in 1..l
  BY <1>1
<1>4. \A j \in 1..l : j \in 1..l + 1
  BY <1>1
<1>5. NombresDe(t) = NombresDe(s) \cup {n}
  <2>1. \A z \in NombresDe(t) : z = n \/ z \in NombresDe(s)
    BY <1>1, <1>2, <1>3 DEF NombresDe
  <2>2. n \in NombresDe(t) /\ \A z \in NombresDe(s) : z \in NombresDe(t)
    BY <1>1, <1>2, <1>3, <1>4 DEF NombresDe
  <2>3. QED
    BY <2>1, <2>2
<1>6. Llamada(t, n) = l + 1
  <2>1. /\ n \in NombresDe(t)
        /\ \A i \in 1..l + 1 : t.vars[i].nom = n /\ (\A j \in 1..l + 1 : t.vars[j].nom = n => j <= i)
              => i = Llamada(t, n)
    BY <1>2, <1>5, LlamadaEs
  <2>2. \A j \in 1..l + 1 : j <= l + 1
    BY <1>1
  <2>3. QED
    BY <1>2, <1>3, <2>1, <2>2
<1>7. ASSUME NEW z \in NombresDe(s), z # n
      PROVE  Llamada(t, z) = Llamada(s, z)
  <2>1. /\ Llamada(s, z) \in 1..l /\ s.vars[Llamada(s, z)].nom = z
        /\ \A i \in 1..l : s.vars[i].nom = z => i <= Llamada(s, z)
    BY <1>1, LlamadaEs
  <2>2. z \in NombresDe(t)
    BY <1>5
  <2>3. \A i \in 1..l + 1 : t.vars[i].nom = z /\ (\A j \in 1..l + 1 : t.vars[j].nom = z => j <= i)
              => i = Llamada(t, z)
    BY <1>2, <2>2, LlamadaEs
  <2>4. \A j \in 1..l + 1 : t.vars[j].nom = z => j \in 1..l /\ s.vars[j].nom = z
    BY <1>2, <1>3, <1>7
  <2>5. Llamada(s, z) \in 1..l + 1 /\ t.vars[Llamada(s, z)].nom = z
    BY <1>2, <1>4, <2>1
  <2>6. QED
    BY <2>1, <2>3, <2>4, <2>5
<1>8. DiccDe(ms, c) = [z \in NombresDe(s) |-> x + 5 * (Llamada(s, z) - 1) + 1]
  BY <1>1 DEF DiccDe
<1>9. DiccDe(Define(ms, n), c) = [z \in NombresDe(t) |-> x + 5 * (Llamada(t, z) - 1) + 1]
  BY <1>1, <1>2 DEF DiccDe
<1>10. Anota(DiccDe(ms, c), n, d + 1) =
          [z \in NombresDe(s) \cup {n} |-> IF z = n THEN d + 1 ELSE DiccDe(ms, c)[z]]
  <2>1. DOMAIN DiccDe(ms, c) = NombresDe(s)
    BY <1>8
  <2>2. QED
    BY <2>1 DEF Anota
<1>11. d + 1 = x + 5 * (Llamada(t, n) - 1) + 1
  BY <1>1, <1>6
<1>12. ASSUME NEW z \in NombresDe(t)
       PROVE  (IF z = n THEN d + 1 ELSE DiccDe(ms, c)[z]) = x + 5 * (Llamada(t, z) - 1) + 1
  <2>1. CASE z = n
    BY <1>11, <2>1
  <2>2. CASE z # n
    <3>1. z \in NombresDe(s)
      BY <1>5, <2>2
    <3>2. DiccDe(ms, c)[z] = x + 5 * (Llamada(s, z) - 1) + 1
      BY <1>8, <3>1
    <3>3. Llamada(t, z) = Llamada(s, z)
      BY <1>7, <2>2, <3>1
    <3>4. QED
      BY <2>2, <3>2, <3>3
  <2>3. QED
    BY <2>1, <2>2
<1>13. QED
  BY <1>5, <1>9, <1>10, <1>12, Zenon

\* A name stands for a variable of the context, wherever its value is.
LEMMA DiccEn ==
    ASSUME NEW ms, NEW c, Forma(ms, c), Trazado(ms, c), NEW n \in NombresDe(ms[Len(ms)])
    PROVE  \E i \in 1..Len(ms[Len(ms)].vars) :
              /\ i = Llamada(ms[Len(ms)], n) /\ ms[Len(ms)].vars[i].nom = n
              /\ DiccDe(ms, c)[n] = c[Len(ms)] + 5 * (i - 1) + 1
              /\ DiccDe(ms, c)[n] \in Nat
              /\ DiccDe(ms, c)[n] + 4 <= c[Len(ms)] + 5 * Len(ms[Len(ms)].vars)
<1>1. PICK x \in Nat, l \in Nat, s \in Contexto :
        x = c[Len(ms)] /\ s = ms[Len(ms)] /\ l = Len(s.vars)
  <2>1. Len(ms) \in 1..Len(ms)
    BY Medidas
  <2>2. QED
    BY <2>1, Medidas, TrazadoCrece
<1>2. PICK i \in 1..l : i = Llamada(s, n) /\ s.vars[i].nom = n
  BY <1>1, LlamadaEs
<1>3. DiccDe(ms, c)[n] = x + 5 * (i - 1) + 1
  BY <1>1, <1>2 DEF DiccDe
<1>4. x + 5 * (i - 1) + 1 \in Nat /\ (x + 5 * (i - 1) + 1) + 4 <= x + 5 * l
  <2>1. x \in Nat /\ l \in Nat /\ i \in 1..l
    BY <1>1, <1>2
  <2>2. QED
    BY <2>1
<1>5. QED
  BY <1>1, <1>2, <1>3, <1>4

\* An assignment changes no name.
LEMMA DiccAsigna ==
    ASSUME NEW ms, NEW c, Forma(ms, c), Trazado(ms, c),
           NEW i \in 1..Len(ms[Len(ms)].vars), NEW v \in Palabra
    PROVE  /\ NombresDe(Asigna(ms, i, v)[Len(ms)]) = NombresDe(ms[Len(ms)])
           /\ DiccDe(Asigna(ms, i, v), c) = DiccDe(ms, c)
<1> DEFINE t == Asigna(ms, i, v)[Len(ms)]
           s == ms[Len(ms)]
<1>1. ms \in Seq(Contexto) /\ Len(ms) >= 1 /\ Len(ms) \in Nat
  BY Medidas
<1>2. /\ Len(Asigna(ms, i, v)) = Len(ms) /\ Len(t.vars) = Len(s.vars)
      /\ \A j \in 1..Len(s.vars) : t.vars[j].nom = s.vars[j].nom
  BY <1>1, AsignaEs
<1>3. DiccDe(Asigna(ms, i, v), c) = [n \in NombresDe(t) |-> c[Len(ms)] + 5 * (Llamada(t, n) - 1) + 1]
  BY <1>2 DEF DiccDe
<1>4. DiccDe(ms, c) = [n \in NombresDe(s) |-> c[Len(ms)] + 5 * (Llamada(s, n) - 1) + 1]
  BY DEF DiccDe
<1> HIDE DEF t, s
<1>5. NombresDe(t) = NombresDe(s)
  BY <1>2 DEF NombresDe
<1>6. ASSUME NEW n PROVE Llamada(t, n) = Llamada(s, n)
  <2>1. {j \in 1..Len(t.vars) : t.vars[j].nom = n} = {j \in 1..Len(s.vars) : s.vars[j].nom = n}
    BY <1>2
  <2>2. QED
    BY <2>1 DEF Llamada
<1>7. QED
  BY <1>3, <1>4, <1>5, <1>6 DEF t, s

\* A context without variables has an empty dictionary.
LEMMA DiccVacio ==
    ASSUME NEW ms, NEW c, ms[Len(ms)].vars = <<>>
    PROVE  DiccDe(ms, c) = Vacio
<1>1. NombresDe(ms[Len(ms)]) = {}
  BY DEF NombresDe
<1>2. QED
  BY <1>1 DEF DiccDe, Vacio

-----------------------------------------------------------------------------
(* What a line reads *)

\* A line that reads or writes a variable only fails because the stack is full or
\* because of what the program has put in the variable.
LEMMA LecturaExplicada ==
    ASSUME NEW ms, NEW c, Forma(ms, c), Trazado(ms, c), NEW m \in Octetos, EnBytes(m, ms, c),
           NEW n \in NombresDe(ms[Len(ms)])
    PROVE  /\ ~ Cabe(DiccDe(ms, c)[n], 4) => SinLugar(ms, c)
           /\ \A v \in Lee(m, DiccDe(ms, c)[n]) : v \in Palabra /\ (v \in Rechazo => Explica(ms, c))
<1>1. PICK i \in 1..Len(ms[Len(ms)].vars), d \in Nat :
        /\ d = DiccDe(ms, c)[n] /\ d = c[Len(ms)] + 5 * (i - 1) + 1
        /\ d + 4 <= c[Len(ms)] + 5 * Len(ms[Len(ms)].vars)
  BY DiccEn
<1>2. PICK alto \in Nat : alto = c[Len(ms)] + 5 * Len(ms[Len(ms)].vars) /\ TamPila \in Nat
  <2>1. Len(ms) \in 1..Len(ms) /\ TamPila \in Nat
    BY Medidas
  <2>2. c[Len(ms)] \in Nat /\ Len(ms[Len(ms)].vars) \in Nat
    BY <2>1, Medidas, TrazadoCrece
  <2>3. QED
    BY <2>1, <2>2
<1>3. ~ Cabe(d, 4) => SinLugar(ms, c)
  <2>1. d + 4 <= alto
    BY <1>1, <1>2
  <2>2. ~ Cabe(d, 4) => TamPila - alto < 12
    BY <1>2, <2>1 DEF Cabe
  <2>3. QED
    BY <1>2, <2>2 DEF SinLugar
<1>4. ASSUME NEW v \in Lee(m, d)
      PROVE  v \in Palabra /\ (v \in Rechazo => Explica(ms, c))
  <2>1. v \in Palabra
    BY <1>1, <1>4, LeeTipo
  <2>2. CASE ~ Cabe(d, 4)
    BY <1>3, <2>1, <2>2 DEF Explica
  <2>3. CASE Cabe(d, 4) /\ ms[Len(ms)].vars[i].val = Sin
    BY <1>1, <2>1, <2>3 DEF Explica, Motivo
  <2>4. CASE Cabe(d, 4) /\ ms[Len(ms)].vars[i].val # Sin
    <3>1. Len(ms) \in 1..Len(ms)
      BY Medidas
    <3>2. Entero(m, d) = Guardado(ms[Len(ms)].vars[i].val)
      BY <1>1, <2>4, <3>1 DEF EnBytes, EnValores
    <3>3. v = Guardado(ms[Len(ms)].vars[i].val)
      BY <1>4, <2>4, <3>2 DEF Lee
    <3>4. v \in Rechazo => v = ms[Len(ms)].vars[i].val
      BY <3>3 DEF Guardado, Rechazo
    <3>5. v \in Rechazo => Motivo(ms[Len(ms)])
      BY <1>1, <3>4 DEF Motivo
    <3>6. QED
      BY <2>1, <3>5 DEF Explica
  <2>5. QED
    BY <2>2, <2>3, <2>4
<1>5. QED
  BY <1>1, <1>3, <1>4

-----------------------------------------------------------------------------
(* What a line reads and writes, for one process *)

\* The layout of a stack is Comienzo.
LEMMA ComienzoEs ==
    ASSUME NEW ms, NEW c, Forma(ms, c), Trazado(ms, c)
    PROVE  c = Comienzo(ms)
<1>1. ms \in Seq(Contexto) /\ Len(ms) >= 1
  BY DEF Forma
<1>2. QED
  BY <1>1, ComienzoTrazado, TrazadoUnico

\* Lines executed by other processes change nothing.
LEMMA FielCrece ==
    ASSUME NEW ms, NEW c, NEW m, NEW r, NEW f, NEW e, NEW q, NEW n \in Nat, NEW k \in Nat, n <= k,
           r \in Pcb, Fiel(ms, c, m, r, f, e, q, n)
    PROVE  Fiel(ms, c, m, r, f, e, q, k)
<1>1. Tope \in Nat
  BY SupuestosPila DEF Tope
<1>2. PICK z \in {0, 1} : z = IF e = "espera" THEN 1 ELSE 0
  OBVIOUS
<1>3. r.pc \in Nat /\ r.pc + z <= Tope + n
  BY <1>2 DEF Fiel, Registros
<1>4. r.pc + z <= Tope + k
  BY <1>1, <1>3
<1>5. \A i \in 1..Len(ms) : ms[i].vuelta <= Tope + k
  <2>1. TAKE i \in 1..Len(ms)
  <2>2. ms[i].vuelta <= Tope + n /\ ms[i] \in Contexto
    BY Medidas DEF Fiel, Registros
  <2>3. PICK w \in Nat : w = ms[i].vuelta
    BY <2>2 DEF Contexto
  <2>4. w <= Tope + n
    BY <2>2, <2>3
  <2>5. w <= Tope + k
    BY <1>1, <2>4
  <2>6. QED
    BY <2>3, <2>5
<1>6. QED
  BY <1>2, <1>4, <1>5 DEF Fiel, Registros

\* A process fails in this step, and there was a reason.
Causado ==
    \A q \in Procesos : estado[q] # "error" /\ estado'[q] = "error" =>
        Explica(marcos[q], Comienzo(marcos[q])) \/ causas'[q] # {}

\* A step of p gives it the registers r, the segment m, the dictionary f, the
\* state e, the syscall q, the answer a and the contexts ms; nobody else changes.
Cambia(p, r, m, f, e, q, a, ms, cs) ==
    /\ r \in Pcb /\ pcb' = [pcb EXCEPT ![p] = r]
    /\ m \in Octetos /\ pila' = [pila EXCEPT ![p] = m]
    /\ dicc' = [dicc EXCEPT ![p] = f]
    /\ e \in {"listo", "cpu", "espera", "error", "fin"} /\ estado' = [estado EXCEPT ![p] = e]
    /\ q \in Pedido \cup {Nada} /\ pedido' = [pedido EXCEPT ![p] = q]
    /\ a \in Palabra \cup {Nada} /\ respuesta' = [respuesta EXCEPT ![p] = a]
    /\ marcos' = [marcos EXCEPT ![p] = ms] /\ causas' = [causas EXCEPT ![p] = cs]
    /\ compartidas' \in [Compartidas -> Palabra]
    /\ lineas' \in 0..MaxLineas /\ lineas <= lineas'

\* A step of p that keeps what p has to keep, and fails with a cause.
LEMMA PasoLocal ==
    ASSUME InvPila, NEW p \in Procesos,
           NEW r, NEW m, NEW f, NEW e, NEW q, NEW a, NEW ms, NEW cs,
           Cambia(p, r, m, f, e, q, a, ms, cs),
           e \notin {"cpu", "espera"} => f = Vacio,
           e = "espera" => cs = {},
           q # Nada => e = "espera",
           a # Nada => q # Nada,
           cs = {} => Fiel(ms, Comienzo(ms), m, r, f, e, q, lineas'),
           e = "error" => estado[p] = "error" \/ cs # {} \/ Explica(marcos[p], Comienzo(marcos[p]))
    PROVE  InvPila' /\ Causado
<1>1. /\ r \in Pcb /\ pcb' = [pcb EXCEPT ![p] = r]
      /\ m \in Octetos /\ pila' = [pila EXCEPT ![p] = m]
      /\ dicc' = [dicc EXCEPT ![p] = f]
      /\ e \in {"listo", "cpu", "espera", "error", "fin"} /\ estado' = [estado EXCEPT ![p] = e]
      /\ q \in Pedido \cup {Nada} /\ pedido' = [pedido EXCEPT ![p] = q]
      /\ a \in Palabra \cup {Nada} /\ respuesta' = [respuesta EXCEPT ![p] = a]
      /\ marcos' = [marcos EXCEPT ![p] = ms] /\ causas' = [causas EXCEPT ![p] = cs]
      /\ compartidas' \in [Compartidas -> Palabra] /\ lineas' \in 0..MaxLineas /\ lineas <= lineas'
  BY DEF Cambia
<1>2. Tipos /\ Esperas /\ \A x \in Procesos : causas[x] = {} => EnPila(x)
  BY DEF InvPila
<1>3. /\ pcb'[p] = r /\ pila'[p] = m /\ dicc'[p] = f /\ estado'[p] = e /\ pedido'[p] = q
      /\ respuesta'[p] = a /\ marcos'[p] = ms /\ causas'[p] = cs
  <2>1. /\ DOMAIN pcb = Procesos /\ DOMAIN pila = Procesos /\ DOMAIN estado = Procesos
        /\ DOMAIN pedido = Procesos /\ DOMAIN respuesta = Procesos
    BY <1>1, <1>2 DEF Tipos
  <2>2. DOMAIN dicc = Procesos /\ DOMAIN marcos = Procesos /\ DOMAIN causas = Procesos
    BY <1>1, <1>2 DEF Tipos
  <2>3. QED
    BY <1>1, <2>1, <2>2
<1>4. ASSUME NEW x \in Procesos, x # p
      PROVE  /\ pcb'[x] = pcb[x] /\ pila'[x] = pila[x] /\ dicc'[x] = dicc[x] /\ estado'[x] = estado[x]
             /\ pedido'[x] = pedido[x] /\ respuesta'[x] = respuesta[x] /\ marcos'[x] = marcos[x]
             /\ causas'[x] = causas[x]
  <2>1. /\ DOMAIN pcb = Procesos /\ DOMAIN pila = Procesos /\ DOMAIN estado = Procesos
        /\ DOMAIN pedido = Procesos /\ DOMAIN respuesta = Procesos
    BY <1>1, <1>2 DEF Tipos
  <2>2. DOMAIN dicc = Procesos /\ DOMAIN marcos = Procesos /\ DOMAIN causas = Procesos
    BY <1>1, <1>2 DEF Tipos
  <2>3. QED
    BY <1>1, <1>4, <2>1, <2>2
<1>5. Tipos'
  <2> DEFINE E == {"listo", "cpu", "espera", "error", "fin"}
             Q == Pedido \cup {Nada}
             A == Palabra \cup {Nada}
  <2>1. /\ pcb \in [Procesos -> Pcb] /\ pila \in [Procesos -> Octetos] /\ estado \in [Procesos -> E]
        /\ pedido \in [Procesos -> Q] /\ respuesta \in [Procesos -> A]
        /\ r \in Pcb /\ m \in Octetos /\ e \in E /\ q \in Q /\ a \in A
    BY <1>1, <1>2 DEF Tipos
  <2> HIDE DEF E, Q, A
  <2>2. /\ pcb' \in [Procesos -> Pcb] /\ pila' \in [Procesos -> Octetos] /\ estado' \in [Procesos -> E]
        /\ pedido' \in [Procesos -> Q] /\ respuesta' \in [Procesos -> A]
    <3>1. /\ pcb' = [pcb EXCEPT ![p] = r] /\ pila' = [pila EXCEPT ![p] = m]
          /\ estado' = [estado EXCEPT ![p] = e] /\ pedido' = [pedido EXCEPT ![p] = q]
          /\ respuesta' = [respuesta EXCEPT ![p] = a]
      BY <1>1
    <3>2. QED
      BY <2>1, <3>1
  <2>3. dicc' = [x \in Procesos |-> dicc'[x]]
    BY <1>1, <1>2 DEF Tipos
  <2>4. marcos' = [x \in Procesos |-> marcos'[x]]
    BY <1>1, <1>2 DEF Tipos
  <2>5. causas' = [x \in Procesos |-> causas'[x]]
    BY <1>1, <1>2 DEF Tipos
  <2>6. QED
    BY <1>1, <2>2, <2>3, <2>4, <2>5 DEF Tipos, E, Q, A
<1>6. Esperas'
  <2>1. ASSUME NEW x \in Procesos
        PROVE  /\ estado'[x] \notin {"cpu", "espera"} => dicc'[x] = Vacio
               /\ estado'[x] = "espera" => causas'[x] = {}
               /\ pedido'[x] # Nada => estado'[x] = "espera"
               /\ respuesta'[x] # Nada => pedido'[x] # Nada
    <3>1. CASE x = p
      BY <1>1, <1>3, <3>1
    <3>2. CASE x # p
      BY <1>1, <1>2, <1>4, <3>2 DEF Esperas
    <3>3. QED
      BY <3>1, <3>2
  <2>2. QED
    BY <2>1 DEF Esperas
<1>7. ASSUME NEW x \in Procesos, causas'[x] = {}
      PROVE  EnPila(x)'
  <2>1. CASE x = p
    BY <1>3, <1>7, <2>1 DEF EnPila
  <2>2. CASE x # p
    <3>1. EnPila(x) /\ pcb[x] \in Pcb
      BY <1>1, <1>2, <1>4, <1>7, <2>2 DEF Tipos
    <3>2. lineas \in Nat /\ lineas' \in Nat /\ lineas <= lineas'
      BY <1>1, <1>2 DEF Tipos
    <3>3. Fiel(marcos[x], Comienzo(marcos[x]), pila[x], pcb[x], dicc[x], estado[x], pedido[x], lineas')
      BY <3>1, <3>2, FielCrece DEF EnPila
    <3>4. QED
      BY <1>4, <2>2, <3>3 DEF EnPila
  <2>3. QED
    BY <2>1, <2>2
<1>8. Causado
  <2>1. SUFFICES ASSUME NEW x \in Procesos, estado[x] # "error", estado'[x] = "error"
                 PROVE  Explica(marcos[x], Comienzo(marcos[x])) \/ causas'[x] # {}
    BY DEF Causado
  <2>2. x = p
    BY <1>4, <2>1
  <2>3. QED
    BY <1>1, <1>3, <2>1, <2>2
<1>9. QED
  BY <1>5, <1>6, <1>7, <1>8 DEF InvPila

\* What is left alone, written as the other changes are.
LEMMA Intacto ==
    ASSUME NEW S, NEW f, f = [x \in S |-> f[x]], NEW p \in S
    PROVE  f = [f EXCEPT ![p] = f[p]]
<1> DEFINE g == [f EXCEPT ![p] = f[p]]
<1>1. DOMAIN f = S
  OBVIOUS
<1>2. g = [x \in S |-> f[x]]
  BY <1>1
<1>3. QED
  BY <1>2

\* What the invariant says of a process.
LEMMA DelProceso ==
    ASSUME InvPila, NEW p \in Procesos
    PROVE  /\ pcb[p] \in Pcb /\ pcb = [pcb EXCEPT ![p] = pcb[p]]
           /\ pila[p] \in Octetos /\ pila = [pila EXCEPT ![p] = pila[p]]
           /\ dicc = [dicc EXCEPT ![p] = dicc[p]]
           /\ estado[p] \in {"listo", "cpu", "espera", "error", "fin"}
           /\ estado = [estado EXCEPT ![p] = estado[p]]
           /\ pedido[p] \in Pedido \cup {Nada} /\ pedido = [pedido EXCEPT ![p] = pedido[p]]
           /\ respuesta[p] \in Palabra \cup {Nada} /\ respuesta = [respuesta EXCEPT ![p] = respuesta[p]]
           /\ marcos = [marcos EXCEPT ![p] = marcos[p]] /\ causas = [causas EXCEPT ![p] = causas[p]]
           /\ compartidas \in [Compartidas -> Palabra] /\ lineas \in 0..MaxLineas /\ MaxLineas \in Nat
           /\ estado[p] \notin {"cpu", "espera"} => dicc[p] = Vacio
           /\ estado[p] = "espera" => causas[p] = {}
           /\ pedido[p] # Nada => estado[p] = "espera"
           /\ respuesta[p] # Nada => pedido[p] # Nada
           /\ causas[p] = {} => Fiel(marcos[p], Comienzo(marcos[p]), pila[p], pcb[p], dicc[p],
                                     estado[p], pedido[p], lineas)
<1>1. Tipos /\ Esperas /\ (causas[p] = {} => EnPila(p))
  BY DEF InvPila
<1>2. MaxLineas \in Nat
  BY SupuestosPila
<1>3. /\ pcb[p] \in Pcb /\ pcb = [x \in Procesos |-> pcb[x]]
      /\ pila[p] \in Octetos /\ pila = [x \in Procesos |-> pila[x]]
  BY <1>1 DEF Tipos
<1>4. /\ estado[p] \in {"listo", "cpu", "espera", "error", "fin"} /\ estado = [x \in Procesos |-> estado[x]]
      /\ pedido[p] \in Pedido \cup {Nada} /\ pedido = [x \in Procesos |-> pedido[x]]
      /\ respuesta[p] \in Palabra \cup {Nada} /\ respuesta = [x \in Procesos |-> respuesta[x]]
  BY <1>1 DEF Tipos
<1>5. /\ dicc = [x \in Procesos |-> dicc[x]] /\ marcos = [x \in Procesos |-> marcos[x]]
      /\ causas = [x \in Procesos |-> causas[x]]
  BY <1>1 DEF Tipos
<1>6. pcb = [pcb EXCEPT ![p] = pcb[p]] /\ pila = [pila EXCEPT ![p] = pila[p]]
  BY <1>3, Intacto
<1>7. /\ estado = [estado EXCEPT ![p] = estado[p]] /\ pedido = [pedido EXCEPT ![p] = pedido[p]]
      /\ respuesta = [respuesta EXCEPT ![p] = respuesta[p]]
  BY <1>4, Intacto
<1>8. /\ dicc = [dicc EXCEPT ![p] = dicc[p]] /\ marcos = [marcos EXCEPT ![p] = marcos[p]]
      /\ causas = [causas EXCEPT ![p] = causas[p]]
  BY <1>5, Intacto
<1>9. compartidas \in [Compartidas -> Palabra] /\ lineas \in 0..MaxLineas
  BY <1>1 DEF Tipos
<1>10. /\ estado[p] \notin {"cpu", "espera"} => dicc[p] = Vacio
       /\ estado[p] = "espera" => causas[p] = {}
       /\ pedido[p] # Nada => estado[p] = "espera"
       /\ respuesta[p] # Nada => pedido[p] # Nada
  BY <1>1 DEF Esperas
<1>11. causas[p] = {} => Fiel(marcos[p], Comienzo(marcos[p]), pila[p], pcb[p], dicc[p],
                              estado[p], pedido[p], lineas)
  BY <1>1 DEF EnPila
<1>12. QED
  BY <1>2, <1>3, <1>4, <1>6, <1>7, <1>8, <1>9, <1>10, <1>11

\* The stack of a process that no CPU has.
LEMMA FielSuelta ==
    ASSUME NEW ms, NEW c, NEW m, NEW r \in Pcb, NEW f, NEW e, NEW q, NEW n \in Nat,
           Fiel(ms, c, m, r, f, e, q, n), NEW g, NEW h \in {"listo", "error", "fin"}
    PROVE  Fiel(ms, c, m, r, g, h, Nada, n)
<1>1. Tope \in Nat
  BY SupuestosPila DEF Tope
<1>2. PICK z \in {0, 1} : z = IF e = "espera" THEN 1 ELSE 0
  OBVIOUS
<1>3. r.pc \in Nat /\ r.pc + z <= Tope + n
  BY <1>2 DEF Fiel, Registros
<1>4. r.pc + 0 <= Tope + n
  BY <1>1, <1>3
<1>5. QED
  BY <1>4 DEF Fiel, Registros

-----------------------------------------------------------------------------
(* The steps *)

\* A CPU receives the PCB.
LEMMA TomaBien ==
    ASSUME InvPila, NEW p \in Procesos, Toma(p)
    PROVE  InvPila' /\ Causado
<1> DEFINE ms == marcos[p]
           c == Comienzo(ms)
           f == Diccionario(pila[p], pcb[p].cursor, pcb[p].ctxt)
<1>1. estado[p] = "listo" /\ causas[p] = {} /\ pedido[p] = Nada
  BY DelProceso DEF Toma
<1>2. Fiel(ms, c, pila[p], pcb[p], dicc[p], "listo", Nada, lineas)
  BY <1>1, DelProceso
<1>3. f = DiccDe(ms, c)
  <2>1. pcb[p].cursor = c[Len(ms)] /\ pcb[p].ctxt = Len(ms[Len(ms)].vars)
    BY <1>2 DEF Fiel, Registros
  <2>2. Forma(ms, c) /\ Trazado(ms, c) /\ EnNombres(pila[p], ms, c)
    BY <1>2 DEF Fiel, EnBytes
  <2> HIDE DEF c, ms
  <2>3. QED
    BY <2>1, <2>2, DiccionarioEs
<1>4. Fiel(ms, c, pila[p], pcb[p], f, "cpu", Nada, lineas)
  <2> HIDE DEF c, ms, f
  <2>1. QED
    BY <1>2, <1>3 DEF Fiel
<1>5. /\ pcb' = [pcb EXCEPT ![p] = pcb[p]] /\ pila' = [pila EXCEPT ![p] = pila[p]]
      /\ dicc' = [dicc EXCEPT ![p] = f] /\ estado' = [estado EXCEPT ![p] = "cpu"]
      /\ pedido' = [pedido EXCEPT ![p] = Nada] /\ respuesta' = [respuesta EXCEPT ![p] = respuesta[p]]
      /\ marcos' = [marcos EXCEPT ![p] = ms] /\ causas' = [causas EXCEPT ![p] = {}]
      /\ compartidas' = compartidas /\ lineas' = lineas
  BY <1>1, DelProceso DEF Toma, kernel
<1>6. respuesta[p] = Nada
  BY <1>1, DelProceso
<1> HIDE DEF f, c, ms
<1>7. Cambia(p, pcb[p], pila[p], f, "cpu", Nada, Nada, ms, {})
  BY <1>5, <1>6, DelProceso DEF Cambia
<1>8. QED
  BY <1>4, <1>5, <1>7, PasoLocal DEF c

\* The quantum ends.
LEMMA FinQuantumBien ==
    ASSUME InvPila, NEW p \in Procesos, FinQuantum(p)
    PROVE  InvPila' /\ Causado
<1>1. estado[p] = "cpu" /\ pedido[p] = Nada /\ respuesta[p] = Nada
  BY DelProceso DEF FinQuantum
<1>2. causas[p] = {} => Fiel(marcos[p], Comienzo(marcos[p]), pila[p], pcb[p], Vacio, "listo", Nada, lineas)
  BY SMTT(30), DelProceso, FielSuelta
<1>3. /\ pcb' = [pcb EXCEPT ![p] = pcb[p]] /\ pila' = [pila EXCEPT ![p] = pila[p]]
      /\ dicc' = [dicc EXCEPT ![p] = Vacio] /\ estado' = [estado EXCEPT ![p] = "listo"]
      /\ pedido' = [pedido EXCEPT ![p] = Nada] /\ respuesta' = [respuesta EXCEPT ![p] = Nada]
      /\ marcos' = [marcos EXCEPT ![p] = marcos[p]] /\ causas' = [causas EXCEPT ![p] = causas[p]]
      /\ compartidas' = compartidas /\ lineas' = lineas
  BY <1>1, DelProceso DEF FinQuantum, kernel
<1>4. Cambia(p, pcb[p], pila[p], Vacio, "listo", Nada, Nada, marcos[p], causas[p])
  BY <1>3, DelProceso DEF Cambia
<1>5. QED
  BY <1>2, <1>3, <1>4, PasoLocal

\* salimosPorError and salimosPorFin.
LEMMA TerminaBien ==
    ASSUME InvPila, NEW p \in Procesos, NEW como \in {"error", "fin"}, Termina(p, como),
           NEW cs, causas' = [causas EXCEPT ![p] = cs], cs = {} => causas[p] = {},
           pedido' = [pedido EXCEPT ![p] = Nada], respuesta' = [respuesta EXCEPT ![p] = Nada],
           compartidas' = compartidas, lineas' \in 0..MaxLineas, lineas <= lineas',
           como = "error" => cs # {} \/ Explica(marcos[p], Comienzo(marcos[p]))
    PROVE  InvPila' /\ Causado
<1>1. /\ pcb' = pcb /\ pila' = pila /\ marcos' = marcos
      /\ dicc' = [dicc EXCEPT ![p] = Vacio] /\ estado' = [estado EXCEPT ![p] = como]
  BY DEF Termina
<1>2. pcb[p] \in Pcb /\ lineas \in Nat /\ lineas' \in Nat
  BY DelProceso
<1>3. ASSUME cs = {}
      PROVE  Fiel(marcos[p], Comienzo(marcos[p]), pila[p], pcb[p], Vacio, como, Nada, lineas')
  <2>1. Fiel(marcos[p], Comienzo(marcos[p]), pila[p], pcb[p], dicc[p], estado[p], pedido[p], lineas)
    BY <1>3, DelProceso
  <2>2. Fiel(marcos[p], Comienzo(marcos[p]), pila[p], pcb[p], Vacio, como, Nada, lineas)
    BY <1>2, <2>1, FielSuelta
  <2>3. QED
    BY <1>2, <2>2, FielCrece
<1>4. Cambia(p, pcb[p], pila[p], Vacio, como, Nada, Nada, marcos[p], cs)
  BY <1>1, DelProceso DEF Cambia
<1>5. QED
  BY <1>3, <1>4, PasoLocal

\* What a process that goes on executing has to keep.
LEMMA FielDe ==
    ASSUME NEW ms, NEW c, NEW m, NEW r, NEW f, NEW n, Forma(ms, c), Trazado(ms, c), EnBytes(m, ms, c),
           Registros(r, ms, c, n, 0), f = DiccDe(ms, c)
    PROVE  Fiel(ms, c, m, r, f, "cpu", Nada, n)
<1>1. (IF "cpu" = "espera" THEN 1 ELSE 0) = 0
  OBVIOUS
<1>2. Registros(r, ms, c, n, IF "cpu" = "espera" THEN 1 ELSE 0)
  BY <1>1
<1>3. QED
  BY <1>2 DEF Fiel

\* The registers when the program counter moves.
LEMMA PcbSigue ==
    ASSUME NEW r \in Pcb
    PROVE  /\ [r EXCEPT !.pc = @ + 1] \in Pcb /\ [r EXCEPT !.pc = @ + 1].cursor = r.cursor
           /\ [r EXCEPT !.pc = @ + 1].pc = r.pc + 1 /\ [r EXCEPT !.pc = @ + 1].ctxt = r.ctxt
           /\ [r EXCEPT !.ctxt = @ + 1] \in Pcb /\ [r EXCEPT !.ctxt = @ + 1].cursor = r.cursor
           /\ [r EXCEPT !.ctxt = @ + 1].pc = r.pc /\ [r EXCEPT !.ctxt = @ + 1].ctxt = r.ctxt + 1
<1>1. r.cursor \in Int /\ r.ctxt \in Int /\ r.pc \in Int
      /\ r = [cursor |-> r.cursor, ctxt |-> r.ctxt, pc |-> r.pc]
  BY DEF Pcb
<1>2. PICK a \in Int, b \in Int, d \in Int :
        /\ a = r.cursor /\ b = r.ctxt /\ d = r.pc /\ r = [cursor |-> a, ctxt |-> b, pc |-> d]
  BY <1>1
<1>3. [r EXCEPT !.pc = @ + 1] = [cursor |-> a, ctxt |-> b, pc |-> d + 1]
      /\ [r EXCEPT !.ctxt = @ + 1] = [cursor |-> a, ctxt |-> b + 1, pc |-> d]
  BY <1>2
<1>4. d + 1 \in Int /\ b + 1 \in Int
  BY <1>2
<1>5. QED
  BY <1>2, <1>3, <1>4 DEF Pcb

\* A process that executes a line.
LEMMA LineaEs ==
    ASSUME InvPila, NEW p \in Procesos, Linea(p)
    PROVE  /\ estado[p] = "cpu" /\ causas[p] = {} /\ pedido[p] = Nada /\ respuesta[p] = Nada
           /\ lineas \in Nat /\ lineas' \in Nat /\ lineas' = lineas + 1
           /\ lineas' \in 0..MaxLineas /\ lineas <= lineas'
           /\ Fiel(marcos[p], Comienzo(marcos[p]), pila[p], pcb[p], dicc[p], "cpu", Nada, lineas)
           /\ dicc[p] = DiccDe(marcos[p], Comienzo(marcos[p]))
<1>1. estado[p] = "cpu" /\ causas[p] = {} /\ lineas < MaxLineas /\ lineas' = lineas + 1
  BY DEF Linea
<1>2. pedido[p] = Nada /\ respuesta[p] = Nada /\ lineas \in 0..MaxLineas /\ MaxLineas \in Nat
  BY <1>1, DelProceso
<1>3. lineas \in Nat /\ lineas' \in Nat /\ lineas' \in 0..MaxLineas /\ lineas <= lineas'
  BY <1>1, <1>2
<1>4. Fiel(marcos[p], Comienzo(marcos[p]), pila[p], pcb[p], dicc[p], "cpu", Nada, lineas)
  BY <1>1, <1>2, DelProceso
<1>5. dicc[p] = DiccDe(marcos[p], Comienzo(marcos[p]))
  BY <1>4 DEF Fiel
<1>6. QED
  BY <1>1, <1>2, <1>3, <1>4, <1>5

\* The registers after a line that changes neither the calls nor their variables,
\* but for the last one: f is 1 when the line was executed before.
LEMMA RegistrosSigue ==
    ASSUME NEW ms, NEW c, NEW r \in Pcb, NEW n \in Nat, NEW k \in Nat, NEW f \in {0, 1},
           Registros(r, ms, c, n, f), n <= k, n + 1 <= k + f, Forma(ms, c), Trazado(ms, c),
           NEW t, Len(t) = Len(ms), \A j \in 1..Len(ms) : t[j].vuelta = ms[j].vuelta,
           NEW s \in Pcb, s.cursor = r.cursor, s.pc = r.pc + 1, s.ctxt = Len(t[Len(ms)].vars)
    PROVE  Registros(s, t, c, k, 0)
<1>1. Tope \in Nat
  BY SupuestosPila DEF Tope
<1>2. r.pc \in Nat /\ r.pc + f <= Tope + n
  BY DEF Registros
<1>3. s.pc \in Nat /\ s.pc + 0 <= Tope + k
  BY <1>1, <1>2
<1>4. ASSUME NEW j \in 1..Len(ms) PROVE t[j].vuelta <= Tope + k
  <2>1. ms[j].vuelta <= Tope + n /\ ms[j] \in Contexto
    BY Medidas DEF Registros
  <2>2. PICK w \in Nat : w = ms[j].vuelta
    BY <2>1 DEF Contexto
  <2>3. w <= Tope + n
    BY <2>1, <2>2
  <2>4. w <= Tope + k
    BY <1>1, <2>3
  <2>5. QED
    BY <2>2, <2>4
<1>5. QED
  BY <1>3, <1>4 DEF Registros

\* The offset of the next variable, and what it means that it does not fit.
LEMMA DefineEnEs ==
    ASSUME NEW ms, NEW c, NEW r \in Pcb, NEW n, NEW f, Forma(ms, c), Trazado(ms, c), Registros(r, ms, c, n, f)
    PROVE  /\ DefineEn(r) = c[Len(ms)] + 5 * Len(ms[Len(ms)].vars)
           /\ r.cursor + r.ctxt * 5 = c[Len(ms)] + 5 * Len(ms[Len(ms)].vars)
           /\ DefineEn(r) \in Nat
           /\ \A k \in 1..12 : ~ Cabe(DefineEn(r), k) => SinLugar(ms, c)
<1>1. Len(ms) \in 1..Len(ms) /\ TamPila \in Nat
  BY Medidas
<1>2. PICK x \in Nat, l \in Nat : x = c[Len(ms)] /\ l = Len(ms[Len(ms)].vars)
  BY <1>1, Medidas, TrazadoCrece
<1>3. r.cursor = x /\ r.ctxt = l
  BY <1>2 DEF Registros
<1>4. DefineEn(r) = x + 5 * l /\ r.cursor + r.ctxt * 5 = x + 5 * l /\ x + 5 * l \in Nat
  BY <1>2, <1>3 DEF DefineEn
<1>5. ASSUME NEW k \in 1..12, ~ Cabe(DefineEn(r), k)
      PROVE  SinLugar(ms, c)
  <2>1. PICK d \in Nat : d = DefineEn(r) /\ d = x + 5 * l
    BY <1>4
  <2>2. TamPila - d < 12
    BY <1>1, <1>5, <2>1 DEF Cabe
  <2>3. QED
    BY <1>2, <2>1, <2>2 DEF SinLugar
<1>6. QED
  BY <1>2, <1>4, <1>5

\* definirVariable.
LEMMA DefinirBien ==
    ASSUME InvPila, NEW p \in Procesos, NEW n \in Nombres, Definir(p, n)
    PROVE  InvPila' /\ Causado
<1> DEFINE ms == marcos[p]
           c == Comienzo(ms)
           d == DefineEn(pcb[p])
<1>1. Linea(p) /\ causas' = causas /\ pedido' = pedido /\ respuesta' = respuesta /\ compartidas' = compartidas
  BY DEF Definir, kernel
<1>2. /\ estado[p] = "cpu" /\ causas[p] = {} /\ pedido[p] = Nada /\ respuesta[p] = Nada
      /\ lineas \in Nat /\ lineas' \in Nat /\ lineas' = lineas + 1
      /\ lineas' \in 0..MaxLineas /\ lineas <= lineas'
      /\ Fiel(ms, c, pila[p], pcb[p], dicc[p], "cpu", Nada, lineas) /\ dicc[p] = DiccDe(ms, c)
  BY <1>1, LineaEs
<1>3. /\ pcb[p] \in Pcb /\ pila[p] \in Octetos
      /\ causas' = [causas EXCEPT ![p] = {}]
      /\ pedido' = [pedido EXCEPT ![p] = Nada] /\ respuesta' = [respuesta EXCEPT ![p] = Nada]
  BY <1>1, <1>2, DelProceso
<1> HIDE DEF ms, c
<1>4. Forma(ms, c) /\ Trazado(ms, c) /\ EnBytes(pila[p], ms, c) /\ Registros(pcb[p], ms, c, lineas, 0)
  BY <1>2 DEF Fiel
<1>5. /\ d = c[Len(ms)] + 5 * Len(ms[Len(ms)].vars) /\ d \in Nat
      /\ ~ Cabe(d, 1) => SinLugar(ms, c)
  <2>1. 1 \in 1..12
    OBVIOUS
  <2>2. QED
    BY <1>3, <1>4, <2>1, DefineEnEs
<1>6. CASE ~ Cabe(d, 1) /\ Termina(p, "error")
  <2>1. Explica(marcos[p], Comienzo(marcos[p]))
    BY <1>5, <1>6 DEF Explica, ms, c
  <2>2. QED
    BY <1>1, <1>2, <1>3, <1>6, <2>1, TerminaBien
<1>7. CASE /\ Cabe(d, 1)
           /\ pila' = [pila EXCEPT ![p][d] = n]
           /\ dicc' = [dicc EXCEPT ![p] = Anota(@, n, d + 1)]
           /\ Sigue(p, [pcb[p] EXCEPT !.ctxt = @ + 1])
           /\ marcos' = [marcos EXCEPT ![p] = Define(@, n)]
           /\ estado' = estado
  <2> DEFINE t == Define(ms, n)
             m == [pila[p] EXCEPT ![d] = n]
             f == Anota(dicc[p], n, d + 1)
             s == [[pcb[p] EXCEPT !.ctxt = @ + 1] EXCEPT !.pc = @ + 1]
  <2>1. /\ m \in Octetos /\ Forma(t, c) /\ Trazado(t, c) /\ EnBytes(m, t, c)
    <3> HIDE DEF d
    <3>1. d \in Int /\ d = c[Len(ms)] + 5 * Len(ms[Len(ms)].vars) /\ Cabe(d, 1)
      BY <1>5, <1>7
    <3>2. QED
      BY <1>3, <1>4, <3>1, DefineBien
  <2>2. f = DiccDe(t, c)
    <3> HIDE DEF d
    <3>1. QED
      BY <1>2, <1>4, <1>5, DiccDefine
  <2>3. /\ Len(t) = Len(ms) /\ \A j \in 1..Len(ms) : t[j].vuelta = ms[j].vuelta
        /\ Len(t[Len(ms)].vars) = Len(ms[Len(ms)].vars) + 1
    <3>1. ms \in Seq(Contexto) /\ Len(ms) >= 1
      BY <1>4 DEF Forma
    <3>2. /\ Len(t) = Len(ms) /\ \A j \in 1..Len(ms) : j # Len(ms) => t[j] = ms[j]
          /\ t[Len(ms)].vuelta = ms[Len(ms)].vuelta
          /\ Len(t[Len(ms)].vars) = Len(ms[Len(ms)].vars) + 1
      BY <3>1, DefineEs
    <3> HIDE DEF t
    <3>3. QED
      BY <3>2
  <2>4. s \in Pcb /\ s.cursor = pcb[p].cursor /\ s.pc = pcb[p].pc + 1 /\ s.ctxt = pcb[p].ctxt + 1
    <3> DEFINE u == [pcb[p] EXCEPT !.ctxt = @ + 1]
    <3>1. u \in Pcb /\ u.cursor = pcb[p].cursor /\ u.pc = pcb[p].pc /\ u.ctxt = pcb[p].ctxt + 1
      BY <1>3, PcbSigue
    <3>2. s = [u EXCEPT !.pc = @ + 1]
      BY <1>3 DEF Pcb
    <3> HIDE DEF u, s
    <3>3. QED
      BY <3>1, <3>2, PcbSigue
  <2>5. s.ctxt = Len(t[Len(ms)].vars)
    BY <1>4, <2>3, <2>4 DEF Registros
  <2> HIDE DEF t, s, f, m
  <2>6. Registros(s, t, c, lineas', 0)
    <3>1. lineas + 1 <= lineas' + 0 /\ lineas <= lineas' /\ 0 \in {0, 1} /\ lineas \in Nat /\ lineas' \in Nat
      BY <1>2
    <3>2. /\ Registros(pcb[p], ms, c, lineas, 0) /\ Forma(ms, c) /\ Trazado(ms, c)
          /\ pcb[p] \in Pcb /\ s \in Pcb /\ s.cursor = pcb[p].cursor /\ s.pc = pcb[p].pc + 1
      BY <1>3, <1>4, <2>4
    <3>3. QED
      BY <2>3, <2>5, <3>1, <3>2, RegistrosSigue
  <2>7. Fiel(t, c, m, s, f, "cpu", Nada, lineas')
    BY <2>1, <2>2, <2>6, FielDe
  <2>8. c = Comienzo(t)
    BY <2>1, ComienzoEs
  <2>9. /\ pcb' = [pcb EXCEPT ![p] = s] /\ pila' = [pila EXCEPT ![p] = m] /\ dicc' = [dicc EXCEPT ![p] = f]
        /\ marcos' = [marcos EXCEPT ![p] = t] /\ estado' = [estado EXCEPT ![p] = "cpu"]
    <3>1. pcb' = [pcb EXCEPT ![p] = s]
      BY <1>3, <1>7 DEF Sigue, s, Pcb
    <3>2. pila' = [pila EXCEPT ![p] = m] /\ dicc' = [dicc EXCEPT ![p] = f]
      BY <1>7 DEF m, f
    <3>3. marcos' = [marcos EXCEPT ![p] = t] /\ estado' = [estado EXCEPT ![p] = "cpu"]
      BY <1>2, <1>7, DelProceso DEF t, ms
    <3>4. QED
      BY <3>1, <3>2, <3>3
  <2>10. Cambia(p, s, m, f, "cpu", Nada, Nada, t, {})
    BY <1>1, <1>2, <1>3, <2>1, <2>4, <2>9, DelProceso DEF Cambia
  <2>11. QED
    BY <2>7, <2>8, <2>10, PasoLocal
<1>8. QED
  BY <1>6, <1>7 DEF Definir

\* obtenerPosicionVariable and asignar: a line, or the end of one that waited.
LEMMA GuardaBien ==
    ASSUME InvPila, NEW p \in Procesos, causas[p] = {}, NEW e \in {"cpu", "espera"}, estado[p] = e,
           NEW n \in DOMAIN dicc[p], NEW v \in Palabra, Guarda(p, n, v),
           causas' = [causas EXCEPT ![p] = {}],
           pedido' = [pedido EXCEPT ![p] = Nada], respuesta' = [respuesta EXCEPT ![p] = Nada],
           compartidas' = compartidas, lineas' \in 0..MaxLineas,
           lineas' = lineas + IF e = "cpu" THEN 1 ELSE 0
    PROVE  InvPila' /\ Causado
<1> DEFINE ms == marcos[p]
           c == Comienzo(ms)
           d == dicc[p][n]
           z == IF e = "espera" THEN 1 ELSE 0
<1>1. /\ pcb[p] \in Pcb /\ pila[p] \in Octetos /\ lineas \in Nat /\ lineas' \in Nat
      /\ Fiel(ms, c, pila[p], pcb[p], dicc[p], e, pedido[p], lineas)
  BY DelProceso
<1>2. z \in {0, 1} /\ lineas <= lineas' /\ lineas + 1 <= lineas' + z
  BY <1>1
<1> HIDE DEF ms, c
<1>3. Forma(ms, c) /\ Trazado(ms, c) /\ EnBytes(pila[p], ms, c) /\ Registros(pcb[p], ms, c, lineas, z)
      /\ dicc[p] = DiccDe(ms, c)
  BY <1>1 DEF Fiel
<1>4. n \in NombresDe(ms[Len(ms)]) /\ d = DiccDe(ms, c)[n] /\ Last(ms) = ms[Len(ms)]
  <2>1. DOMAIN DiccDe(ms, c) = NombresDe(ms[Len(ms)])
    BY DEF DiccDe
  <2>2. QED
    BY <1>3, <2>1, Medidas
<1> HIDE DEF d, z
<1>5. CASE ~ Cabe(d, 4) /\ Termina(p, "error")
  <2>1. Explica(marcos[p], Comienzo(marcos[p]))
    BY <1>1, <1>3, <1>4, <1>5, LecturaExplicada DEF Explica, ms, c
  <2>2. QED
    BY <1>1, <1>2, <1>5, <2>1, TerminaBien
<1>6. CASE /\ Cabe(d, 4)
           /\ pila' = [pila EXCEPT ![p] = Con(@, d, v)]
           /\ Sigue(p, pcb[p])
           /\ marcos' = [marcos EXCEPT ![p] = Asigna(@, Llamada(Last(@), n), v)]
           /\ estado' = [estado EXCEPT ![p] = "cpu"]
           /\ dicc' = dicc
  <2>1. PICK i \in 1..Len(ms[Len(ms)].vars) :
          i = Llamada(ms[Len(ms)], n) /\ d = c[Len(ms)] + 5 * (i - 1) + 1 /\ d \in Nat
    BY <1>3, <1>4, DiccEn
  <2> DEFINE t == Asigna(ms, i, v)
             m == Con(pila[p], d, v)
             s == [pcb[p] EXCEPT !.pc = @ + 1]
  <2>2. m \in Octetos /\ Forma(t, c) /\ Trazado(t, c) /\ EnBytes(m, t, c)
    <3>1. d \in Int /\ d = c[Len(ms)] + 5 * (i - 1) + 1 /\ Cabe(d, 4)
      BY <1>6, <2>1
    <3>2. QED
      BY <1>1, <1>3, <3>1, AsignaBien
  <2>3. dicc[p] = DiccDe(t, c)
    BY <1>3, DiccAsigna
  <2>4. /\ Len(t) = Len(ms) /\ \A j \in 1..Len(ms) : t[j].vuelta = ms[j].vuelta
        /\ Len(t[Len(ms)].vars) = Len(ms[Len(ms)].vars)
    <3>1. ms \in Seq(Contexto) /\ Len(ms) >= 1
      BY <1>3 DEF Forma
    <3>2. MismaForma(Asigna(ms, i, v), ms)
      BY <2>1, <3>1, AsignaMantiene
    <3> HIDE DEF t
    <3>3. MismaForma(t, ms)
      BY <3>2 DEF t
    <3>4. QED
      BY <3>3 DEF MismaForma
  <2>5. s \in Pcb /\ s.cursor = pcb[p].cursor /\ s.pc = pcb[p].pc + 1 /\ s.ctxt = pcb[p].ctxt
    BY <1>1, PcbSigue
  <2>6. pcb' = [pcb EXCEPT ![p] = s] /\ pila' = [pila EXCEPT ![p] = m]
        /\ marcos' = [marcos EXCEPT ![p] = t] /\ dicc' = [dicc EXCEPT ![p] = dicc[p]]
    <3>1. pcb' = [pcb EXCEPT ![p] = s] /\ pila' = [pila EXCEPT ![p] = m]
      BY <1>6 DEF Sigue
    <3>2. marcos' = [marcos EXCEPT ![p] = Asigna(ms, Llamada(Last(ms), n), v)]
      BY <1>6 DEF ms
    <3>3. Asigna(ms, Llamada(Last(ms), n), v) = t
      BY <1>4, <2>1
    <3>4. dicc' = [dicc EXCEPT ![p] = dicc[p]]
      BY <1>6, DelProceso
    <3>5. QED
      BY <3>1, <3>2, <3>3, <3>4
  <2> HIDE DEF t, m, s
  <2>7. s.ctxt = Len(t[Len(ms)].vars)
    BY <1>3, <2>4, <2>5 DEF Registros
  <2>8. Registros(s, t, c, lineas', 0)
    BY <1>1, <1>2, <1>3, <2>4, <2>5, <2>7, RegistrosSigue
  <2>9. Fiel(t, c, m, s, dicc[p], "cpu", Nada, lineas')
    BY <2>2, <2>3, <2>8, FielDe
  <2>10. c = Comienzo(t)
    BY <2>2, ComienzoEs
  <2>11. Cambia(p, s, m, dicc[p], "cpu", Nada, Nada, t, {})
    BY <1>2, <1>6, <2>2, <2>5, <2>6, DelProceso DEF Cambia
  <2>12. QED
    BY <2>9, <2>10, <2>11, PasoLocal
<1>7. QED
  BY <1>5, <1>6 DEF Guarda, d

\* A line that assigns a number.
LEMMA AsignarBien ==
    ASSUME InvPila, NEW p \in Procesos, NEW n \in DOMAIN dicc[p], NEW v \in Valores, Asignar(p, n, v)
    PROVE  InvPila' /\ Causado
<1>1. /\ Linea(p) /\ Guarda(p, n, v) /\ causas' = causas /\ pedido' = pedido /\ respuesta' = respuesta
      /\ compartidas' = compartidas
  BY DEF Asignar, kernel
<1>2. /\ estado[p] = "cpu" /\ causas[p] = {} /\ pedido[p] = Nada /\ respuesta[p] = Nada
      /\ lineas' = lineas + 1 /\ lineas' \in 0..MaxLineas
  BY <1>1, LineaEs
<1>3. /\ causas' = [causas EXCEPT ![p] = {}]
      /\ pedido' = [pedido EXCEPT ![p] = Nada] /\ respuesta' = [respuesta EXCEPT ![p] = Nada]
  BY <1>1, <1>2, DelProceso
<1>4. v \in Palabra
  BY SupuestosPila
<1>5. lineas' = lineas + IF "cpu" = "cpu" THEN 1 ELSE 0
  BY <1>2
<1>6. QED
  BY <1>1, <1>2, <1>3, <1>4, <1>5, GuardaBien

\* A line that only reads.
LEMMA DereferenciarBien ==
    ASSUME InvPila, NEW p \in Procesos, NEW n \in DOMAIN dicc[p], Dereferenciar(p, n)
    PROVE  InvPila' /\ Causado
<1> DEFINE ms == marcos[p]
           c == Comienzo(ms)
<1>1. /\ Linea(p) /\ causas' = causas /\ pedido' = pedido /\ respuesta' = respuesta
      /\ compartidas' = compartidas
  BY DEF Dereferenciar, kernel
<1>2. /\ estado[p] = "cpu" /\ causas[p] = {} /\ pedido[p] = Nada /\ respuesta[p] = Nada
      /\ lineas \in Nat /\ lineas' \in Nat /\ lineas' = lineas + 1
      /\ lineas' \in 0..MaxLineas /\ lineas <= lineas'
      /\ Fiel(ms, c, pila[p], pcb[p], dicc[p], "cpu", Nada, lineas) /\ dicc[p] = DiccDe(ms, c)
  BY <1>1, LineaEs
<1>3. /\ pcb[p] \in Pcb /\ pila[p] \in Octetos
      /\ causas' = [causas EXCEPT ![p] = {}]
      /\ pedido' = [pedido EXCEPT ![p] = Nada] /\ respuesta' = [respuesta EXCEPT ![p] = Nada]
  BY <1>1, <1>2, DelProceso
<1> HIDE DEF ms, c
<1>4. Forma(ms, c) /\ Trazado(ms, c) /\ EnBytes(pila[p], ms, c) /\ Registros(pcb[p], ms, c, lineas, 0)
  BY <1>2 DEF Fiel
<1>5. n \in NombresDe(ms[Len(ms)])
  BY <1>2 DEF DiccDe
<1>6. PICK v \in Lee(pila[p], dicc[p][n]) :
        \/ v \in Rechazo /\ Termina(p, "error")
        \/ v \notin Rechazo /\ Sigue(p, pcb[p]) /\ UNCHANGED <<pila, dicc, estado, marcos>>
  BY DEF Dereferenciar
<1>7. CASE v \in Rechazo /\ Termina(p, "error")
  <2>1. Explica(ms, c)
    BY <1>2, <1>3, <1>4, <1>5, <1>6, <1>7, LecturaExplicada
  <2>2. QED
    BY <1>1, <1>2, <1>3, <1>7, <2>1, TerminaBien DEF ms, c
<1>8. CASE v \notin Rechazo /\ Sigue(p, pcb[p]) /\ UNCHANGED <<pila, dicc, estado, marcos>>
  <2> DEFINE s == [pcb[p] EXCEPT !.pc = @ + 1]
  <2>1. s \in Pcb /\ s.cursor = pcb[p].cursor /\ s.pc = pcb[p].pc + 1 /\ s.ctxt = pcb[p].ctxt
    BY <1>3, PcbSigue
  <2>2. /\ pcb' = [pcb EXCEPT ![p] = s] /\ pila' = [pila EXCEPT ![p] = pila[p]]
        /\ marcos' = [marcos EXCEPT ![p] = ms] /\ dicc' = [dicc EXCEPT ![p] = dicc[p]]
        /\ estado' = [estado EXCEPT ![p] = "cpu"]
    BY <1>2, <1>8, DelProceso DEF Sigue, ms
  <2> HIDE DEF s
  <2>3. s.ctxt = Len(ms[Len(ms)].vars)
    BY <1>4, <2>1 DEF Registros
  <2>4. lineas + 1 <= lineas' + 0
    BY <1>2
  <2>5. Registros(s, ms, c, lineas', 0)
    BY <1>2, <1>3, <1>4, <2>1, <2>3, <2>4, RegistrosSigue
  <2>6. Fiel(ms, c, pila[p], s, dicc[p], "cpu", Nada, lineas')
    BY <1>2, <1>4, <2>5, FielDe
  <2>7. Cambia(p, s, pila[p], dicc[p], "cpu", Nada, Nada, ms, {})
    BY <1>1, <1>2, <1>3, <2>1, <2>2, DelProceso DEF Cambia
  <2>8. QED
    BY <2>6, <2>7, PasoLocal DEF c
<1>9. QED
  BY <1>6, <1>7, <1>8

\* A line that sends a syscall to the PCP.
LEMMA PideBien ==
    ASSUME InvPila, NEW p \in Procesos, Linea(p), NEW n \in DOMAIN dicc[p],
           NEW x \in Compartidas \cup Desconocidas, NEW op \in {"obtener", "asignar"},
           NEW v \in Palabra, NEW falla \in BOOLEAN,
           falla => Explica(marcos[p], Comienzo(marcos[p])),
           Pide(p, x, op, v, n, falla)
    PROVE  InvPila' /\ Causado
<1> DEFINE ms == marcos[p]
           c == Comienzo(ms)
           q == [op |-> op, nombre |-> x, valor |-> v, var |-> n, falla |-> falla]
<1>1. /\ estado[p] = "cpu" /\ causas[p] = {} /\ pedido[p] = Nada /\ respuesta[p] = Nada
      /\ lineas \in Nat /\ lineas' \in Nat /\ lineas' = lineas + 1
      /\ lineas' \in 0..MaxLineas /\ lineas <= lineas'
      /\ Fiel(ms, c, pila[p], pcb[p], dicc[p], "cpu", Nada, lineas) /\ dicc[p] = DiccDe(ms, c)
  BY LineaEs
<1>2. /\ pcb[p] \in Pcb /\ pila[p] \in Octetos
      /\ pcb' = [pcb EXCEPT ![p] = pcb[p]] /\ pila' = [pila EXCEPT ![p] = pila[p]]
      /\ dicc' = [dicc EXCEPT ![p] = dicc[p]] /\ estado' = [estado EXCEPT ![p] = "espera"]
      /\ pedido' = [pedido EXCEPT ![p] = q] /\ respuesta' = [respuesta EXCEPT ![p] = Nada]
      /\ marcos' = [marcos EXCEPT ![p] = ms] /\ causas' = [causas EXCEPT ![p] = {}]
      /\ compartidas' = compartidas /\ compartidas \in [Compartidas -> Palabra]
  BY <1>1, DelProceso DEF Pide
<1>3. Explica(ms, c) \/ ~ falla
  OBVIOUS
<1> HIDE DEF ms, c
<1>4. Forma(ms, c) /\ Trazado(ms, c) /\ EnBytes(pila[p], ms, c) /\ Registros(pcb[p], ms, c, lineas, 0)
  BY <1>1 DEF Fiel
<1>5. n \in NombresDe(ms[Len(ms)])
  BY <1>1 DEF DiccDe
<1>6. n \in Nombres
  <2>1. PICK i \in 1..Len(ms[Len(ms)].vars) : n = ms[Len(ms)].vars[i].nom
    BY <1>5 DEF NombresDe
  <2>2. Len(ms) \in 1..Len(ms)
    BY <1>4, Medidas
  <2>3. ms[Len(ms)].vars \in Seq(Variable)
    BY <1>4, <2>2, Medidas
  <2>4. ms[Len(ms)].vars[i] \in Variable
    BY <2>1, <2>3, ElementOfSeq
  <2>5. QED
    BY <2>1, <2>4 DEF Variable
<1>7. q \in Pedido /\ q.var = n /\ q.valor = v /\ q.falla = falla
  <2>1. v \in Int
    BY DEF Palabra
  <2>2. QED
    BY <1>6, <2>1 DEF Pedido
<1> HIDE DEF q
<1>8. Registros(pcb[p], ms, c, lineas', 1)
  <2>1. PICK z \in Nat : z = pcb[p].pc /\ z + 0 <= Tope + lineas
    BY <1>4 DEF Registros
  <2>2. Tope \in Nat
    BY SupuestosPila DEF Tope
  <2>3. z + 1 <= Tope + lineas'
    BY <1>1, <2>1, <2>2
  <2>4. Fiel(ms, c, pila[p], pcb[p], dicc[p], "cpu", Nada, lineas')
    BY <1>1, <1>2, FielCrece
  <2>5. QED
    BY <2>1, <2>3, <2>4 DEF Fiel, Registros
<1>9. Fiel(ms, c, pila[p], pcb[p], dicc[p], "espera", q, lineas')
  BY <1>1, <1>3, <1>4, <1>5, <1>7, <1>8 DEF Fiel
<1>10. Cambia(p, pcb[p], pila[p], dicc[p], "espera", q, Nada, ms, {})
  BY <1>1, <1>2, <1>7 DEF Cambia
<1>11. QED
  BY <1>9, <1>10, PasoLocal DEF c

\* 0 is an int.
LEMMA CeroEs == 0 \in Palabra
<1>1. TamPila \in Palabra /\ TamPila > 0
  BY SupuestosPila
<1>2. 0 \in 0..TamPila
  BY <1>1 DEF Palabra
<1>3. QED
  BY <1>1, <1>2, PalabraMenor

\* n = !x
LEMMA ObtenerBien ==
    ASSUME InvPila, NEW p \in Procesos, NEW n \in DOMAIN dicc[p],
           NEW x \in Compartidas \cup Desconocidas, ObtenerValorCompartida(p, n, x)
    PROVE  InvPila' /\ Causado
<1>1. Linea(p) /\ Pide(p, x, "obtener", 0, n, FALSE)
  BY DEF ObtenerValorCompartida
<1>2. "obtener" \in {"obtener", "asignar"} /\ FALSE \in BOOLEAN
  OBVIOUS
<1>3. QED
  BY <1>1, <1>2, CeroEs, PideBien

\* !x = n
LEMMA AsignarCompartidaBien ==
    ASSUME InvPila, NEW p \in Procesos, NEW n \in DOMAIN dicc[p],
           NEW x \in Compartidas \cup Desconocidas, AsignarValorCompartida(p, n, x)
    PROVE  InvPila' /\ Causado
<1> DEFINE ms == marcos[p]
           c == Comienzo(ms)
<1>1. Linea(p)
  BY DEF AsignarValorCompartida
<1>2. PICK v \in Lee(pila[p], dicc[p][n]) :
        Pide(p, x, "asignar", IF v \in Rechazo THEN 0 ELSE v, n, v \in Rechazo)
  BY DEF AsignarValorCompartida
<1>3. Fiel(ms, c, pila[p], pcb[p], dicc[p], "cpu", Nada, lineas) /\ dicc[p] = DiccDe(ms, c)
  BY <1>1, LineaEs
<1>4. pila[p] \in Octetos
  BY DelProceso
<1> HIDE DEF ms, c
<1>5. Forma(ms, c) /\ Trazado(ms, c) /\ EnBytes(pila[p], ms, c) /\ n \in NombresDe(ms[Len(ms)])
  BY <1>3 DEF Fiel, DiccDe
<1>6. v \in Palabra /\ (v \in Rechazo => Explica(ms, c))
  BY <1>2, <1>3, <1>4, <1>5, LecturaExplicada
<1> DEFINE w == IF v \in Rechazo THEN 0 ELSE v
           b == v \in Rechazo
<1>7. w \in Palabra /\ b \in BOOLEAN /\ (b => Explica(ms, c)) /\ Pide(p, x, "asignar", w, n, b)
  BY <1>2, <1>6, CeroEs
<1> HIDE DEF w, b
<1>8. "asignar" \in {"obtener", "asignar"}
  OBVIOUS
<1>9. QED
  BY <1>1, <1>7, <1>8, PideBien DEF ms, c

\* syscall_obtenerValorCompartida and syscall_asignarValorCompartida.
LEMMA PcpAtiendeBien ==
    ASSUME InvPila, NEW p \in Procesos, PcpAtiende(p)
    PROVE  InvPila' /\ Causado
<1> DEFINE ms == marcos[p]
           c == Comienzo(ms)
           q == pedido[p]
<1>1. /\ q # Nada /\ respuesta[p] = Nada
      /\ compartidas' = IF q.op = "asignar" /\ q.nombre \in Compartidas
                        THEN [compartidas EXCEPT ![q.nombre] = q.valor] ELSE compartidas
      /\ respuesta' = IF q.nombre \in Compartidas
                      THEN [respuesta EXCEPT ![p] = compartidas'[q.nombre]] ELSE respuesta
      /\ pedido' = [pedido EXCEPT ![p] = IF q.nombre \in Compartidas THEN q ELSE Nada]
      /\ pcb' = pcb /\ pila' = pila /\ dicc' = dicc /\ estado' = estado /\ lineas' = lineas
      /\ marcos' = marcos /\ causas' = causas
  BY DEF PcpAtiende, Contesta
<1>2. /\ estado[p] = "espera" /\ causas[p] = {} /\ q \in Pedido \cup {Nada}
      /\ pcb[p] \in Pcb /\ pila[p] \in Octetos /\ lineas \in 0..MaxLineas
      /\ compartidas \in [Compartidas -> Palabra]
      /\ Fiel(ms, c, pila[p], pcb[p], dicc[p], "espera", q, lineas)
  BY <1>1, DelProceso
<1>3. /\ pcb' = [pcb EXCEPT ![p] = pcb[p]] /\ pila' = [pila EXCEPT ![p] = pila[p]]
      /\ dicc' = [dicc EXCEPT ![p] = dicc[p]] /\ estado' = [estado EXCEPT ![p] = "espera"]
      /\ respuesta = [respuesta EXCEPT ![p] = Nada]
      /\ marcos' = [marcos EXCEPT ![p] = ms] /\ causas' = [causas EXCEPT ![p] = {}]
  BY <1>1, <1>2, DelProceso
<1> HIDE DEF ms, c, q
<1>4. q.valor \in Palabra
  BY <1>1, <1>2 DEF Fiel
<1>5. compartidas' \in [Compartidas -> Palabra]
  BY <1>1, <1>2, <1>4
<1>6. lineas' \in 0..MaxLineas /\ lineas <= lineas'
  BY <1>1, <1>2
<1>7. CASE q.nombre \in Compartidas
  <2> DEFINE a == compartidas'[q.nombre]
  <2>1. a \in Palabra /\ respuesta' = [respuesta EXCEPT ![p] = a] /\ pedido' = [pedido EXCEPT ![p] = q]
    BY <1>1, <1>5, <1>7
  <2> HIDE DEF a
  <2>2. Cambia(p, pcb[p], pila[p], dicc[p], "espera", q, a, ms, {})
    BY <1>2, <1>3, <1>5, <1>6, <2>1 DEF Cambia
  <2>3. QED
    BY <1>1, <1>2, <2>2, PasoLocal DEF c
<1>8. CASE q.nombre \notin Compartidas
  <2>1. Fiel(ms, c, pila[p], pcb[p], dicc[p], "espera", Nada, lineas)
    BY <1>2 DEF Fiel
  <2>2. respuesta' = [respuesta EXCEPT ![p] = Nada] /\ pedido' = [pedido EXCEPT ![p] = Nada]
    BY <1>1, <1>3, <1>8
  <2>3. Cambia(p, pcb[p], pila[p], dicc[p], "espera", Nada, Nada, ms, {})
    BY <1>2, <1>3, <1>5, <1>6, <2>2 DEF Cambia
  <2>4. QED
    BY <1>1, <2>1, <2>3, PasoLocal DEF c
<1>9. QED
  BY <1>7, <1>8

\* The CPU finishes the line that waited.
LEMMA CpuRecibeBien ==
    ASSUME InvPila, NEW p \in Procesos, CpuRecibe(p)
    PROVE  InvPila' /\ Causado
<1> DEFINE ms == marcos[p]
           c == Comienzo(ms)
           q == pedido[p]
<1>1. /\ estado[p] = "espera" /\ respuesta[p] # Nada
      /\ pedido' = [pedido EXCEPT ![p] = Nada] /\ respuesta' = [respuesta EXCEPT ![p] = Nada]
      /\ \/ q.op = "obtener" /\ Guarda(p, q.var, respuesta[p])
         \/ q.op = "asignar" /\ q.falla /\ Termina(p, "error")
         \/ /\ q.op = "asignar" /\ ~q.falla
            /\ Sigue(p, pcb[p])
            /\ estado' = [estado EXCEPT ![p] = "cpu"]
            /\ pila' = pila /\ dicc' = dicc /\ marcos' = marcos
      /\ compartidas' = compartidas /\ lineas' = lineas /\ causas' = causas
  BY DEF CpuRecibe
<1>2. /\ causas[p] = {} /\ q # Nada /\ q \in Pedido /\ respuesta[p] \in Palabra
      /\ pcb[p] \in Pcb /\ pila[p] \in Octetos /\ lineas \in Nat /\ lineas \in 0..MaxLineas
      /\ compartidas \in [Compartidas -> Palabra]
      /\ Fiel(ms, c, pila[p], pcb[p], dicc[p], "espera", q, lineas)
  BY <1>1, DelProceso
<1>3. causas' = [causas EXCEPT ![p] = {}] /\ lineas' \in 0..MaxLineas /\ lineas <= lineas'
  BY <1>1, <1>2, DelProceso
<1> HIDE DEF ms, c, q
<1>4. /\ Forma(ms, c) /\ Trazado(ms, c) /\ EnBytes(pila[p], ms, c) /\ Registros(pcb[p], ms, c, lineas, 1)
      /\ dicc[p] = DiccDe(ms, c) /\ q.var \in NombresDe(ms[Len(ms)])
      /\ q.falla => Explica(ms, c)
  BY <1>2 DEF Fiel
<1>5. CASE q.op = "obtener" /\ Guarda(p, q.var, respuesta[p])
  <2>1. q.var \in DOMAIN dicc[p]
    BY <1>4 DEF DiccDe
  <2>2. lineas' = lineas + IF "espera" = "cpu" THEN 1 ELSE 0
    BY <1>1, <1>2
  <2>3. QED
    BY <1>1, <1>2, <1>3, <1>5, <2>1, <2>2, GuardaBien
<1>6. CASE q.op = "asignar" /\ q.falla /\ Termina(p, "error")
  <2>1. Explica(marcos[p], Comienzo(marcos[p]))
    BY <1>4, <1>6 DEF ms, c
  <2>2. QED
    BY <1>1, <1>2, <1>3, <1>6, <2>1, TerminaBien
<1>7. CASE /\ q.op = "asignar" /\ ~q.falla
           /\ Sigue(p, pcb[p])
           /\ estado' = [estado EXCEPT ![p] = "cpu"]
           /\ pila' = pila /\ dicc' = dicc /\ marcos' = marcos
  <2> DEFINE s == [pcb[p] EXCEPT !.pc = @ + 1]
  <2>1. s \in Pcb /\ s.cursor = pcb[p].cursor /\ s.pc = pcb[p].pc + 1 /\ s.ctxt = pcb[p].ctxt
    BY <1>2, PcbSigue
  <2>2. /\ pcb' = [pcb EXCEPT ![p] = s] /\ pila' = [pila EXCEPT ![p] = pila[p]]
        /\ marcos' = [marcos EXCEPT ![p] = ms] /\ dicc' = [dicc EXCEPT ![p] = dicc[p]]
    BY <1>7, DelProceso DEF Sigue, ms
  <2> HIDE DEF s
  <2>3. s.ctxt = Len(ms[Len(ms)].vars)
    BY <1>4, <2>1 DEF Registros
  <2>4. lineas + 1 <= lineas' + 1 /\ 1 \in {0, 1} /\ lineas' \in Nat
    BY <1>1, <1>2
  <2>5. Registros(s, ms, c, lineas', 0)
    BY <1>2, <1>3, <1>4, <2>1, <2>3, <2>4, RegistrosSigue
  <2>6. Fiel(ms, c, pila[p], s, dicc[p], "cpu", Nada, lineas')
    BY <1>4, <2>5, FielDe
  <2>7. Cambia(p, s, pila[p], dicc[p], "cpu", Nada, Nada, ms, {})
    BY <1>1, <1>2, <1>3, <1>7, <2>1, <2>2 DEF Cambia
  <2>8. QED
    BY <2>6, <2>7, PasoLocal DEF c
<1>8. QED
  BY <1>1, <1>5, <1>6, <1>7

\* Program counters are ints.
LEMMA TopeEs ==
    Tope \in Nat /\ Tope + MaxLineas \in Palabra /\ Destino <= Tope /\ PcInicial <= Tope
BY SupuestosPila DEF Tope

\* llamarSinRetorno and llamarConRetorno.
LEMMA LlamarBien ==
    ASSUME InvPila, NEW p \in Procesos, NEW tipo \in {"sin", "con"}, NEW donde \in Int,
           tipo = "con" => \E n \in DOMAIN dicc[p] : donde = dicc[p][n],
           Llamar(p, tipo, donde)
    PROVE  InvPila' /\ Causado
<1> DEFINE ms == marcos[p]
           c == Comienzo(ms)
           L == Len(ms)
           r == pcb[p]
           d == DefineEn(r)
           n == IF tipo = "con" THEN 12 ELSE 8
           m == ConEnlace(pila[p], d, r.cursor, r.pc + 1, tipo, donde)
           s == [cursor |-> d + TamEnlace(tipo), ctxt |-> 0, pc |-> Destino]
           t == Apila(ms, tipo, r.pc + 1, donde)
<1>1. /\ Linea(p) /\ causas' = causas /\ pedido' = pedido /\ respuesta' = respuesta
      /\ compartidas' = compartidas
  BY DEF Llamar, kernel
<1>2. /\ estado[p] = "cpu" /\ causas[p] = {} /\ pedido[p] = Nada /\ respuesta[p] = Nada
      /\ lineas \in Nat /\ lineas' \in Nat /\ lineas' = lineas + 1
      /\ lineas' \in 0..MaxLineas /\ lineas <= lineas'
      /\ Fiel(ms, c, pila[p], r, dicc[p], "cpu", Nada, lineas) /\ dicc[p] = DiccDe(ms, c)
  BY <1>1, LineaEs
<1>3. /\ r \in Pcb /\ pila[p] \in Octetos
      /\ causas' = [causas EXCEPT ![p] = {}]
      /\ pedido' = [pedido EXCEPT ![p] = Nada] /\ respuesta' = [respuesta EXCEPT ![p] = Nada]
  BY <1>1, <1>2, DelProceso
<1>4. \/ ~ Cabe(d, n) /\ Termina(p, "error")
      \/ /\ Cabe(d, n)
         /\ pila' = [pila EXCEPT ![p] = m] /\ pcb' = [pcb EXCEPT ![p] = s]
         /\ dicc' = [dicc EXCEPT ![p] = Vacio] /\ marcos' = [marcos EXCEPT ![p] = t]
         /\ estado' = estado
  BY DEF Llamar, DefineEn, ConEnlace
<1> HIDE DEF ms, c, r, t
<1>5. Forma(ms, c) /\ Trazado(ms, c) /\ EnBytes(pila[p], ms, c) /\ Registros(r, ms, c, lineas, 0)
  BY <1>2 DEF Fiel
<1> HIDE DEF d
<1>6. /\ d = c[L] + 5 * Len(ms[L].vars) /\ d \in Nat /\ n \in 1..12
      /\ ~ Cabe(d, n) => SinLugar(ms, c)
  <2>1. n \in 1..12
    OBVIOUS
  <2> HIDE DEF n
  <2>2. QED
    BY <1>3, <1>5, <2>1, DefineEnEs DEF d
<1>7. CASE ~ Cabe(d, n) /\ Termina(p, "error")
  <2>1. Explica(marcos[p], Comienzo(marcos[p]))
    BY <1>6, <1>7 DEF Explica, ms, c
  <2>2. QED
    BY <1>1, <1>2, <1>3, <1>7, <2>1, TerminaBien
<1>8. CASE /\ Cabe(d, n)
           /\ pila' = [pila EXCEPT ![p] = m] /\ pcb' = [pcb EXCEPT ![p] = s]
           /\ dicc' = [dicc EXCEPT ![p] = Vacio] /\ marcos' = [marcos EXCEPT ![p] = t]
           /\ estado' = estado
  <2>1. r.pc + 1 \in Nat /\ r.pc + 1 \in Palabra /\ r.pc + 1 <= Tope + lineas'
    <3>1. PICK x \in Nat : x = r.pc /\ x + 0 <= Tope + lineas
      BY <1>5 DEF Registros
    <3>2. x + 0 <= Tope + lineas /\ Tope \in Nat /\ MaxLineas \in Nat /\ Tope + MaxLineas \in Palabra
      BY <3>1, TopeEs, SupuestosPila
    <3>3. x + 1 \in Nat /\ x + 1 <= Tope + lineas' /\ x + 1 \in 0..Tope + MaxLineas
      BY <1>2, <3>2
    <3>4. x + 1 \in Palabra
      BY <3>2, <3>3, PalabraMenor
    <3>5. QED
      BY <3>1, <3>3, <3>4
  <2>2. tipo = "con" => \E i \in 1..Len(ms[L].vars) : donde = c[L] + 5 * (i - 1) + 1
    <3>1. ASSUME NEW x \in DOMAIN dicc[p]
          PROVE  \E i \in 1..Len(ms[L].vars) : dicc[p][x] = c[L] + 5 * (i - 1) + 1
      <4>1. x \in NombresDe(ms[L])
        BY <1>2 DEF DiccDe
      <4>2. QED
        BY <1>2, <1>5, <4>1, DiccEn
    <3>2. QED
      BY <3>1
  <2>3. r.cursor = c[L]
    BY <1>5 DEF Registros
  <2>4. m = ConEnlace(pila[p], d, c[L], r.pc + 1, tipo, donde)
    BY <2>3
  <2>5. Cabe(d, IF tipo = "con" THEN 12 ELSE 8) /\ d \in Int
    BY <1>6, <1>8
  <2> HIDE DEF m
  <2>6. /\ m \in Octetos
        /\ \E e : /\ Forma(t, e) /\ Trazado(t, e) /\ EnBytes(m, t, e)
                  /\ Len(t) = L + 1 /\ t[Len(t)].vars = <<>> /\ t[Len(t)].vuelta = r.pc + 1
                  /\ \A k \in 1..L : t[k] = ms[k]
                  /\ e[Len(t)] = d + TamEnlace(tipo)
    <3>1. PICK u \in Nat : u = r.pc + 1 /\ u \in Palabra
      BY <2>1
    <3>2. PICK o : o = pila[p] /\ o \in Octetos /\ EnBytes(o, ms, c)
      BY <1>3, <1>5
    <3>3. Apilable(ms, c, o, tipo, u, donde, d)
      BY <1>5, <1>6, <2>2, <2>5, <3>1, <3>2 DEF Apilable
    <3>4. Apilado(ms, c, o, tipo, u, donde, d)
      BY <3>3, ApilaBien
    <3>5. m = ConEnlace(o, d, c[Len(ms)], u, tipo, donde) /\ t = Apila(ms, tipo, u, donde)
      BY <2>4, <3>1, <3>2 DEF t
    <3> HIDE DEF t
    <3>6. QED
      BY <3>1, <3>4, <3>5 DEF Apilado
  <2>7. PICK e : /\ Forma(t, e) /\ Trazado(t, e) /\ EnBytes(m, t, e)
                 /\ Len(t) = L + 1 /\ t[Len(t)].vars = <<>> /\ t[Len(t)].vuelta = r.pc + 1
                 /\ \A k \in 1..L : t[k] = ms[k]
                 /\ e[Len(t)] = d + TamEnlace(tipo)
    BY <2>6
  <2>8. s \in Pcb /\ s.cursor = d + TamEnlace(tipo) /\ s.ctxt = 0 /\ s.pc = Destino
    <3>1. TamEnlace(tipo) \in Int /\ Destino \in Int
      BY SupuestosPila DEF TamEnlace
    <3>2. QED
      BY <1>6, <3>1 DEF Pcb
  <2> HIDE DEF s, n
  <2>9. Registros(s, t, e, lineas', 0)
    <3>1. Len(t[Len(t)].vars) = 0
      BY <2>7
    <3>2. Destino \in Nat /\ Destino + 0 <= Tope + lineas'
      <4>1. Destino \in Nat /\ Destino <= Tope /\ Tope \in Nat
        BY TopeEs, SupuestosPila
      <4>2. QED
        BY <1>2, <4>1
    <3>3. ASSUME NEW k \in 1..Len(t) PROVE t[k].vuelta <= Tope + lineas'
      <4>1. CASE k = Len(t)
        BY <2>1, <2>7, <4>1
      <4>2. CASE k # Len(t)
        <5>1. L \in Nat /\ Len(t) = L + 1
          BY <1>5, <2>7, Medidas
        <5>2. k \in 1..L
          BY <4>2, <5>1
        <5>3. ms[k].vuelta <= Tope + lineas /\ ms[k] \in Contexto
          BY <1>5, <5>2, Medidas DEF Registros
        <5>4. PICK w \in Nat : w = ms[k].vuelta
          BY <5>3 DEF Contexto
        <5>5. w <= Tope + lineas /\ Tope \in Nat
          BY <5>3, <5>4, TopeEs
        <5>6. w <= Tope + lineas'
          BY <1>2, <5>5
        <5>7. QED
          BY <2>7, <5>2, <5>4, <5>6
      <4>3. QED
        BY <4>1, <4>2
    <3>4. QED
      BY <2>7, <2>8, <3>1, <3>2, <3>3 DEF Registros
  <2>10. Vacio = DiccDe(t, e)
    BY <2>7, DiccVacio
  <2>11. Fiel(t, e, m, s, Vacio, "cpu", Nada, lineas')
    BY <2>7, <2>9, <2>10, FielDe
  <2>12. e = Comienzo(t)
    BY <2>7, ComienzoEs
  <2>13. estado' = [estado EXCEPT ![p] = "cpu"] /\ compartidas \in [Compartidas -> Palabra]
    BY <1>2, <1>8, DelProceso
  <2>14. Cambia(p, s, m, Vacio, "cpu", Nada, Nada, t, {})
    BY <1>1, <1>2, <1>3, <1>8, <2>6, <2>8, <2>13 DEF Cambia
  <2>15. QED
    BY <2>11, <2>12, <2>14, PasoLocal
<1>9. QED
  BY <1>4, <1>7, <1>8

\* A return that follows its call finds numbers that are what was pushed.
LEMMA CausasEs ==
    ASSUME NEW p, NEW tipo, CausasDe(p, tipo) = {}
    PROVE  /\ Last(marcos[p]).tipo = tipo
           /\ Guardado(Last(marcos[p]).vuelta) = Last(marcos[p]).vuelta
           /\ Guardado(Last(marcos[p]).donde) = Last(marcos[p]).donde
           /\ Guardado(Comienzo(marcos[p])[Len(marcos[p]) - 1]) = Comienzo(marcos[p])[Len(marcos[p]) - 1]
<1> DEFINE m == Last(marcos[p])
           fondo == Comienzo(marcos[p])[Len(marcos[p]) - 1]
<1>1. {"uso"} # {} /\ {"cero"} # {}
  OBVIOUS
<1>2. /\ m.tipo = tipo
      /\ \A v \in {m.vuelta, m.donde, fondo} : ~ (v # 0 /\ v % 256 = 0)
  BY <1>1 DEF CausasDe
<1> HIDE DEF m, fondo
<1>3. \A v : ~ (v # 0 /\ v % 256 = 0) => Guardado(v) = v
  BY DEF Guardado
<1>4. Guardado(m.vuelta) = m.vuelta /\ Guardado(m.donde) = m.donde /\ Guardado(fondo) = fondo
  BY <1>2, <1>3
<1>5. QED
  BY <1>2, <1>4 DEF m, fondo

\* The last context of a stack with a call.
LEMMA UltimoEs ==
    ASSUME NEW ms, NEW c, Forma(ms, c), Trazado(ms, c), Len(ms) # 1
    PROVE  /\ Len(ms) \in 2..Len(ms) /\ Len(ms) \in 1..Len(ms)
           /\ Len(ms) - 1 \in 1..Len(ms) /\ Len(ms) - 1 # Len(ms) /\ Len(ms) - 1 \in 1..Len(ms) - 1
           /\ c[Len(ms)] \in Int
<1>1. PICK l \in Nat \ {0} : l = Len(ms)
  BY Medidas
<1>2. l # 1
  BY <1>1
<1>3. l \in 2..l /\ l \in 1..l /\ l - 1 \in 1..l /\ l - 1 # l /\ l - 1 \in 1..l - 1
  BY <1>2
<1>4. c[l] \in Int
  BY <1>1, <1>3, Medidas
<1>5. QED
  BY <1>1, <1>3, <1>4

\* The link of a call that returns nothing, as it is read.
LEMMA EnlaceSin ==
    ASSUME NEW ms, NEW c, Forma(ms, c), Trazado(ms, c), NEW m, EnBytes(m, ms, c),
           Len(ms) # 1, ms[Len(ms)].tipo = "sin"
    PROVE  /\ Lee(m, c[Len(ms)] - 8) = {Guardado(c[Len(ms) - 1])}
           /\ Lee(m, c[Len(ms)] - 4) = {Guardado(ms[Len(ms)].vuelta)}
<1>1. Len(ms) \in 2..Len(ms) /\ c[Len(ms)] \in Int
  BY UltimoEs
<1>2. PICK x \in Int : x = c[Len(ms)]
  BY <1>1
<1>3. Enlace(ms[Len(ms)]) = 8
  BY DEF Enlace
<1>4. (x - 8) + 4 = x - 4
  BY <1>2
<1>5. /\ Entero(m, x - 8) = Guardado(c[Len(ms) - 1])
      /\ Entero(m, (x - 8) + 4) = Guardado(ms[Len(ms)].vuelta)
  BY <1>1, <1>2, <1>3 DEF EnBytes, Enlaces
<1>6. Cabe(x - 8, 4) /\ Cabe((x - 8) + 4, 4)
  BY <1>1, <1>2, <1>3, Cupo
<1>7. QED
  BY <1>2, <1>4, <1>5, <1>6 DEF Lee

\* The link of a call that returns a value.
LEMMA EnlaceCon ==
    ASSUME NEW ms, NEW c, Forma(ms, c), Trazado(ms, c), NEW m, EnBytes(m, ms, c),
           Len(ms) # 1, ms[Len(ms)].tipo = "con"
    PROVE  /\ Lee(m, c[Len(ms)] - 12) = {Guardado(c[Len(ms) - 1])}
           /\ Lee(m, c[Len(ms)] - 8) = {Guardado(ms[Len(ms)].vuelta)}
           /\ Lee(m, c[Len(ms)] - 4) = {Guardado(ms[Len(ms)].donde)}
           /\ ms[Len(ms)].donde \in Int /\ Cabe(ms[Len(ms)].donde, 4)
<1>1. Len(ms) \in 2..Len(ms) /\ c[Len(ms)] \in Int
  BY UltimoEs
<1>2. PICK x \in Int : x = c[Len(ms)]
  BY <1>1
<1>3. Enlace(ms[Len(ms)]) = 12
  BY DEF Enlace
<1>4. (x - 12) + 4 = x - 8 /\ (x - 12) + 8 = x - 4
  BY <1>2
<1>5. /\ Entero(m, x - 12) = Guardado(c[Len(ms) - 1])
      /\ Entero(m, (x - 12) + 4) = Guardado(ms[Len(ms)].vuelta)
      /\ Entero(m, (x - 12) + 8) = Guardado(ms[Len(ms)].donde)
  BY <1>1, <1>2, <1>3 DEF EnBytes, Enlaces
<1>6. Cabe(x - 12, 4) /\ Cabe((x - 12) + 4, 4) /\ Cabe((x - 12) + 8, 4)
  BY <1>1, <1>2, <1>3, Cupo
<1>7. ms[Len(ms)].donde \in Int /\ Cabe(ms[Len(ms)].donde, 4)
  BY <1>1, Cupo
<1>8. QED
  BY <1>2, <1>4, <1>5, <1>6, <1>7 DEF Lee

\* Division of a multiple of 5, and of the address of a value.
LEMMA EntreCinco ==
    /\ \A l \in Nat : (5 * l) \div 5 = l
    /\ \A i \in Nat \ {0} : (5 * (i - 1) + 1) \div 5 + 1 = i
OBVIOUS

\* Below the link of the current context end the variables of the one that called.
LEMMA FondoEs ==
    ASSUME NEW ms, NEW c, Forma(ms, c), Trazado(ms, c), Len(ms) # 1
    PROVE  LET N == Len(ms) - 1
               fin == c[Len(ms)] - Enlace(ms[Len(ms)])
           IN /\ N \in 1..Len(ms) /\ N # Len(ms) /\ c[N] \in Nat /\ fin \in Int
              /\ Entre5(fin - c[N]) = Len(ms[N].vars)
              /\ Cabe(c[N], 5 * Len(ms[N].vars))
              /\ ms[Len(ms)].vuelta \in Nat
<1> DEFINE N == Len(ms) - 1
           fin == c[Len(ms)] - Enlace(ms[Len(ms)])
<1>1. Len(ms) \in 2..Len(ms) /\ Len(ms) \in 1..Len(ms) /\ N \in 1..Len(ms) /\ N # Len(ms) /\ TamPila \in Nat
  BY UltimoEs, Medidas
<1>2. fin = c[N] + 5 * Len(ms[N].vars)
  BY <1>1, Medidas
<1>3. c[N] + 5 * Len(ms[N].vars) + 8 <= TamPila
  BY <1>1, Cupo
<1>4. ms[Len(ms)].vuelta \in Nat
  BY <1>1, Medidas DEF Contexto
<1> HIDE DEF N, fin
<1>5. PICK x \in Nat, l \in Nat : x = c[N] /\ l = Len(ms[N].vars)
  BY <1>1, Medidas, TrazadoCrece
<1>6. fin = x + 5 * l /\ x + 5 * l + 8 <= TamPila
  BY <1>2, <1>3, <1>5
<1>7. fin \in Int /\ fin - x = 5 * l /\ 5 * l \in Nat /\ 5 * l >= 0
  BY SMTT(30), <1>5, <1>6
<1>8. Entre5(fin - x) = l
  <2>1. Entre5(5 * l) = (5 * l) \div 5
    BY <1>7 DEF Entre5
  <2>2. (5 * l) \div 5 = l
    BY EntreCinco
  <2>3. QED
    BY <1>7, <2>1, <2>2
<1>9. Cabe(x, 5 * l)
  BY <1>1, <1>5, <1>6 DEF Cabe
<1>10. QED
  BY <1>1, <1>4, <1>5, <1>7, <1>8, <1>9 DEF N, fin

\* What a return does when the link is not what the call pushed: the stack is not
\* followed any more.
LEMMA VuelveSuelto ==
    ASSUME InvPila, NEW p \in Procesos, Linea(p), UNCHANGED kernel,
           NEW m \in Octetos, NEW fin \in Int, NEW cursor \in Int, NEW pc \in Int,
           Vuelve(p, m, fin, cursor, pc),
           NEW cs, cs # {}, causas' = [causas EXCEPT ![p] = cs],
           NEW t, marcos' = [marcos EXCEPT ![p] = t]
    PROVE  InvPila' /\ Causado
<1> DEFINE n == Entre5(fin - cursor)
           s == [cursor |-> cursor, ctxt |-> n, pc |-> pc]
           f == IF cursor >= 0 /\ Cabe(cursor, 5 * n) THEN Diccionario(m, cursor, n) ELSE Vacio
<1>1. /\ pcb' = [pcb EXCEPT ![p] = s] /\ pila' = [pila EXCEPT ![p] = m]
      /\ dicc' = [dicc EXCEPT ![p] = f] /\ estado' = estado
  BY DEF Vuelve
<1>2. /\ estado[p] = "cpu" /\ pedido[p] = Nada /\ respuesta[p] = Nada
      /\ lineas' \in 0..MaxLineas /\ lineas <= lineas'
  BY LineaEs
<1> HIDE DEF f
<1>3. n \in Int
  <2>1. PICK x \in Int : x = fin - cursor
    OBVIOUS
  <2>2. x \div 5 \in Int /\ -((-x) \div 5) \in Int
    BY <2>1
  <2>3. QED
    BY <2>1, <2>2 DEF Entre5
<1> HIDE DEF n
<1>4. s \in Pcb
  BY <1>3 DEF Pcb
<1> HIDE DEF s
<1>5. /\ estado' = [estado EXCEPT ![p] = "cpu"] /\ pedido' = [pedido EXCEPT ![p] = Nada]
      /\ respuesta' = [respuesta EXCEPT ![p] = Nada] /\ compartidas' \in [Compartidas -> Palabra]
  BY <1>1, <1>2, DelProceso DEF kernel
<1>6. Cambia(p, s, m, f, "cpu", Nada, Nada, t, cs)
  BY <1>1, <1>2, <1>4, <1>5 DEF Cambia
<1>7. QED
  BY <1>6, PasoLocal

\* p returns to the last context of t, with the segment m; n variables of it are
\* found between cursor and fin.
Vuelto(p, m, fin, cursor, pc, n, t, e) ==
    /\ m \in Octetos /\ fin \in Int /\ cursor \in Int /\ pc \in Nat /\ pc <= Tope + lineas'
    /\ Vuelve(p, m, fin, cursor, pc)
    /\ causas' = [causas EXCEPT ![p] = {}] /\ marcos' = [marcos EXCEPT ![p] = t]
    /\ Forma(t, e) /\ Trazado(t, e) /\ EnBytes(m, t, e)
    /\ cursor = e[Len(t)] /\ n = Len(t[Len(t)].vars)
    /\ Entre5(fin - cursor) = n /\ Cabe(cursor, 5 * n)
    /\ \A k \in 1..Len(t) : t[k].vuelta <= Tope + lineas'

\* What it does when it is: the registers and the dictionary are those of the
\* context returned to.
LEMMA VuelveBien ==
    ASSUME InvPila, NEW p \in Procesos, Linea(p), UNCHANGED kernel,
           NEW m, NEW fin, NEW cursor, NEW pc, NEW l, NEW t, NEW e,
           Vuelto(p, m, fin, cursor, pc, l, t, e)
    PROVE  InvPila' /\ Causado
<1> SUFFICES ASSUME m \in Octetos, fin \in Int, cursor \in Int, pc \in Nat, pc <= Tope + lineas',
                    Vuelve(p, m, fin, cursor, pc),
                    causas' = [causas EXCEPT ![p] = {}], marcos' = [marcos EXCEPT ![p] = t],
                    Forma(t, e), Trazado(t, e), EnBytes(m, t, e),
                    cursor = e[Len(t)], l = Len(t[Len(t)].vars),
                    Entre5(fin - cursor) = l, Cabe(cursor, 5 * l),
                    \A k \in 1..Len(t) : t[k].vuelta <= Tope + lineas'
             PROVE  InvPila' /\ Causado
  BY DEF Vuelto
<1> DEFINE n == Entre5(fin - cursor)
           s == [cursor |-> cursor, ctxt |-> n, pc |-> pc]
           f == IF cursor >= 0 /\ Cabe(cursor, 5 * n) THEN Diccionario(m, cursor, n) ELSE Vacio
<1>1. /\ pcb' = [pcb EXCEPT ![p] = s] /\ pila' = [pila EXCEPT ![p] = m]
      /\ dicc' = [dicc EXCEPT ![p] = f] /\ estado' = estado
  BY DEF Vuelve
<1>2. /\ estado[p] = "cpu" /\ pedido[p] = Nada /\ respuesta[p] = Nada
      /\ lineas' \in 0..MaxLineas /\ lineas <= lineas'
  BY LineaEs
<1>3. n = Len(t[Len(t)].vars) /\ n \in Nat
  <2>1. Len(t) \in 1..Len(t)
    BY Medidas
  <2>2. QED
    BY <2>1, Medidas
<1> HIDE DEF n
<1>4. f = DiccDe(t, e)
  <2>1. cursor >= 0 /\ Cabe(cursor, 5 * n)
    BY <1>3 DEF Cabe
  <2>2. f = Diccionario(m, e[Len(t)], Len(t[Len(t)].vars))
    BY <1>3, <2>1
  <2>3. QED
    BY <2>2, DiccionarioEs DEF EnBytes
<1> HIDE DEF f
<1>5. s \in Pcb /\ s.cursor = e[Len(t)] /\ s.ctxt = Len(t[Len(t)].vars) /\ s.pc = pc
  BY <1>3 DEF Pcb
<1> HIDE DEF s
<1>6. Registros(s, t, e, lineas', 0)
  <2>1. \A x \in Nat : x + 0 = x
    OBVIOUS
  <2>2. pc + 0 <= Tope + lineas'
    BY <2>1, Zenon
  <2>3. QED
    BY <1>5, <2>2 DEF Registros
<1>7. Fiel(t, e, m, s, f, "cpu", Nada, lineas')
  BY <1>4, <1>6, FielDe
<1>8. e = Comienzo(t)
  BY ComienzoEs
<1>9. /\ estado' = [estado EXCEPT ![p] = "cpu"] /\ pedido' = [pedido EXCEPT ![p] = Nada]
      /\ respuesta' = [respuesta EXCEPT ![p] = Nada] /\ compartidas' \in [Compartidas -> Palabra]
  BY <1>1, <1>2, DelProceso DEF kernel
<1>10. Cambia(p, s, m, f, "cpu", Nada, Nada, t, {})
  BY <1>1, <1>2, <1>5, <1>9 DEF Cambia
<1>11. QED
  BY <1>7, <1>8, <1>10, PasoLocal

\* The saved program counters of the contexts below, some lines later.
LEMMA VueltasSiguen ==
    ASSUME NEW ms, NEW c, Forma(ms, c), Trazado(ms, c), NEW r, NEW n \in Nat, NEW k \in Nat, n <= k,
           NEW f, Registros(r, ms, c, n, f)
    PROVE  \A j \in 1..Len(ms) : ms[j].vuelta \in Nat /\ ms[j].vuelta <= Tope + k
<1>1. Tope \in Nat
  BY TopeEs
<1>2. TAKE j \in 1..Len(ms)
<1>3. ms[j] \in Contexto /\ ms[j].vuelta <= Tope + n
  BY Medidas DEF Registros
<1>4. PICK w \in Nat : w = ms[j].vuelta
  BY <1>3 DEF Contexto
<1>5. w <= Tope + n
  BY <1>3, <1>4
<1>6. w <= Tope + k
  BY <1>1, <1>5
<1>7. QED
  BY <1>4, <1>6

\* finalizar.
LEMMA FinalizarBien ==
    ASSUME InvPila, NEW p \in Procesos, Finalizar(p)
    PROVE  InvPila' /\ Causado
<1> DEFINE ms == marcos[p]
           c == Comienzo(ms)
           L == Len(ms)
           N == L - 1
           cs == CausasDe(p, "sin")
<1>1. Linea(p) /\ UNCHANGED kernel
  BY DEF Finalizar
<1>2. /\ estado[p] = "cpu" /\ causas[p] = {} /\ pedido[p] = Nada /\ respuesta[p] = Nada
      /\ lineas \in Nat /\ lineas' \in Nat /\ lineas' = lineas + 1
      /\ lineas' \in 0..MaxLineas /\ lineas <= lineas'
      /\ Fiel(ms, c, pila[p], pcb[p], dicc[p], "cpu", Nada, lineas)
  BY <1>1, LineaEs
<1>3. /\ pcb[p] \in Pcb /\ pila[p] \in Octetos /\ pila = [pila EXCEPT ![p] = pila[p]]
      /\ compartidas' = compartidas
      /\ pedido' = [pedido EXCEPT ![p] = Nada] /\ respuesta' = [respuesta EXCEPT ![p] = Nada]
  BY <1>1, <1>2, DelProceso DEF kernel
<1>4. Forma(ms, c) /\ Trazado(ms, c) /\ EnBytes(pila[p], ms, c) /\ Registros(pcb[p], ms, c, lineas, 0)
  <2> HIDE DEF ms, c
  <2>1. QED
    BY <1>2 DEF Fiel
<1>5. PICK x \in Int : x = pcb[p].cursor
  BY <1>3 DEF Pcb
<1>6. \/ x = 0 /\ Termina(p, "fin") /\ causas' = causas
      \/ /\ x # 0 /\ causas' = [causas EXCEPT ![p] = cs]
         /\ \E pc \in Lee(pila[p], x - 4), cursor \in Lee(pila[p], x - 8) :
               \/ Rechazo \cap {pc, cursor} # {} /\ Termina(p, "error")
               \/ /\ Rechazo \cap {pc, cursor} = {}
                  /\ Vuelve(p, pila[p], x - 8, cursor, pc)
                  /\ marcos' = [marcos EXCEPT ![p] = Front(ms)]
  BY <1>5 DEF Finalizar
<1>7. CASE x = 0 /\ Termina(p, "fin") /\ causas' = causas
  <2>1. causas' = [causas EXCEPT ![p] = {}]
    BY <1>2, <1>7, DelProceso
  <2>2. QED
    BY <1>2, <1>3, <1>7, <2>1, TerminaBien
<1>8. CASE /\ x # 0 /\ causas' = [causas EXCEPT ![p] = cs]
           /\ \E pc \in Lee(pila[p], x - 4), cursor \in Lee(pila[p], x - 8) :
                 \/ Rechazo \cap {pc, cursor} # {} /\ Termina(p, "error")
                 \/ /\ Rechazo \cap {pc, cursor} = {}
                    /\ Vuelve(p, pila[p], x - 8, cursor, pc)
                    /\ marcos' = [marcos EXCEPT ![p] = Front(ms)]
  <2>1. PICK pc \in Lee(pila[p], x - 4), cursor \in Lee(pila[p], x - 8) :
          \/ Rechazo \cap {pc, cursor} # {} /\ Termina(p, "error")
          \/ /\ Rechazo \cap {pc, cursor} = {}
             /\ Vuelve(p, pila[p], x - 8, cursor, pc)
             /\ marcos' = [marcos EXCEPT ![p] = Front(ms)]
    BY <1>8
  <2>2. x = c[L]
    BY <1>4, <1>5 DEF Registros
  <2>3. CASE cs # {}
    <3> HIDE DEF cs, ms
    <3>1. CASE Termina(p, "error")
      BY <1>2, <1>3, <1>8, <2>3, <3>1, TerminaBien
    <3>2. CASE Vuelve(p, pila[p], x - 8, cursor, pc) /\ marcos' = [marcos EXCEPT ![p] = Front(ms)]
      <4>1. pc \in Int /\ cursor \in Int /\ x - 8 \in Int
        <5>1. x - 4 \in Int /\ x - 8 \in Int
          BY <1>5
        <5>2. pc \in Palabra /\ cursor \in Palabra
          BY <1>3, <2>1, <5>1, LeeTipo
        <5>3. QED
          BY <5>1, <5>2 DEF Palabra
      <4>2. PICK fin \in Int : fin = x - 8 /\ Vuelve(p, pila[p], fin, cursor, pc)
        BY <3>2, <4>1
      <4>3. QED
        BY <1>1, <1>3, <1>8, <2>3, <3>2, <4>1, <4>2, VuelveSuelto
    <3>3. QED
      BY <2>1, <3>1, <3>2
  <2>4. CASE cs = {}
    <3>1. /\ ms[L].tipo = "sin" /\ Guardado(ms[L].vuelta) = ms[L].vuelta /\ Guardado(c[N]) = c[N]
      <4>1. /\ Last(ms).tipo = "sin" /\ Guardado(Last(ms).vuelta) = Last(ms).vuelta
            /\ Guardado(c[N]) = c[N]
        BY <2>4, CausasEs
      <4>2. Last(ms) = ms[L]
        BY DEF Last
      <4>3. QED
        BY <4>1, <4>2
    <3> HIDE DEF ms, c, cs
    <3>2. L # 1
      BY <1>4, <1>8, <2>2 DEF Trazado
    <3>3. pc = ms[L].vuelta /\ cursor = c[N]
      <4>1. Lee(pila[p], c[L] - 8) = {Guardado(c[N])} /\ Lee(pila[p], c[L] - 4) = {Guardado(ms[L].vuelta)}
        BY <1>4, <3>1, <3>2, EnlaceSin
      <4>2. Lee(pila[p], x - 8) = {c[N]} /\ Lee(pila[p], x - 4) = {ms[L].vuelta}
        BY <2>2, <3>1, <4>1
      <4>3. QED
        BY <2>1, <4>2
    <3>4. Enlace(ms[L]) = 8
      BY <3>1 DEF Enlace
    <3>5. /\ N \in 1..L /\ cursor \in Nat /\ x - 8 \in Int /\ pc \in Nat
          /\ Entre5((x - 8) - cursor) = Len(ms[N].vars) /\ Cabe(cursor, 5 * Len(ms[N].vars))
      BY <1>4, <2>2, <3>2, <3>3, <3>4, FondoEs
    <3>6. Vuelve(p, pila[p], x - 8, cursor, pc) /\ marcos' = [marcos EXCEPT ![p] = Front(ms)]
      <4>1. Rechazo \cap {pc, cursor} = {}
        BY <3>5 DEF Rechazo
      <4>2. QED
        BY <2>1, <4>1
    <3>7. PICK fin \in Int : /\ fin = x - 8 /\ Vuelve(p, pila[p], fin, cursor, pc)
                             /\ Entre5(fin - cursor) = Len(ms[N].vars)
      BY <3>5, <3>6
    <3>8. PICK t, e : /\ t = Front(ms) /\ Forma(t, e) /\ Trazado(t, e) /\ EnBytes(pila[p], t, e)
                      /\ Len(t) = N /\ \A k \in 1..N : e[k] = c[k] /\ t[k] = ms[k]
      BY SMTT(30), <1>4, <3>2, FrontBien
    <3>9. /\ N \in 1..N /\ \A k \in 1..N : k \in 1..L
      <4>1. L \in Nat \ {0} /\ N \in 1..N
        BY <1>4, <3>2, Medidas, UltimoEs
      <4>2. QED
        BY <4>1
    <3> HIDE DEF N, L
    <3>10. \A j \in 1..L : ms[j].vuelta \in Nat /\ ms[j].vuelta <= Tope + lineas'
      BY <1>2, <1>4, VueltasSiguen DEF L
    <3>11. cursor = e[Len(t)] /\ t[Len(t)] = ms[N] /\ \A k \in 1..Len(t) : t[k].vuelta <= Tope + lineas'
      BY <3>3, <3>8, <3>9, <3>10
    <3>12. pc <= Tope + lineas'
      <4>1. L \in 1..L
        BY <1>4, Medidas DEF L
      <4>2. QED
        BY <3>3, <3>10, <4>1
    <3>13. causas' = [causas EXCEPT ![p] = {}] /\ marcos' = [marcos EXCEPT ![p] = t]
      BY <1>8, <2>4, <3>6, <3>8
    <3>14. PICK n : /\ n = Len(ms[N].vars) /\ n = Len(t[Len(t)].vars)
                    /\ Entre5(fin - cursor) = n /\ Cabe(cursor, 5 * n)
      BY <3>5, <3>7, <3>11
    <3>15. cursor \in Int
      BY <3>5
    <3>16. Vuelto(p, pila[p], fin, cursor, pc, n, t, e)
      BY <1>3, <3>5, <3>7, <3>8, <3>11, <3>12, <3>13, <3>14, <3>15 DEF Vuelto
    <3>17. QED
      BY <1>1, <3>16, VuelveBien
  <2>5. QED
    BY <2>3, <2>4
<1>9. QED
  BY <1>6, <1>7, <1>8

\* Where a call that returns a value returns it: a variable of the context below.
LEMMA DestinoEs ==
    ASSUME NEW ms, NEW c, Forma(ms, c), Trazado(ms, c), Len(ms) # 1, ms[Len(ms)].tipo = "con"
    PROVE  LET N == Len(ms) - 1
               i == (ms[Len(ms)].donde - c[N]) \div 5 + 1
           IN i \in 1..Len(ms[N].vars) /\ ms[Len(ms)].donde = c[N] + 5 * (i - 1) + 1
<1> DEFINE N == Len(ms) - 1
           i == (ms[Len(ms)].donde - c[N]) \div 5 + 1
<1>1. Len(ms) \in 2..Len(ms) /\ N \in 1..Len(ms)
  BY UltimoEs
<1>2. PICK j \in 1..Len(ms[N].vars) : ms[Len(ms)].donde = c[N] + 5 * (j - 1) + 1
  BY <1>1 DEF Forma
<1> HIDE DEF N
<1>3. PICK x \in Int, l \in Nat : x = c[N] /\ l = Len(ms[N].vars)
  BY <1>1, Medidas
<1>4. j \in Nat \ {0} /\ j \in 1..l /\ j \in Int
  BY <1>2, <1>3
<1>5. PICK a \in Int : a = ms[Len(ms)].donde /\ a = x + 5 * (j - 1) + 1
  BY <1>2, <1>3, <1>4
<1>6. a = x + 5 * (j - 1) + 1
  BY <1>5
<1>7. a - x = 5 * (j - 1) + 1
  BY <1>3, <1>4, <1>6
<1>8. (a - x) \div 5 + 1 = j
  BY <1>4, <1>7, EntreCinco
<1>9. i = j
  BY <1>3, <1>5, <1>8
<1>10. QED
  BY <1>2, <1>9 DEF N

\* retornar.
LEMMA RetornarBien ==
    ASSUME InvPila, NEW p \in Procesos, NEW v \in Valores, Retornar(p, v)
    PROVE  InvPila' /\ Causado
<1> DEFINE ms == marcos[p]
           c == Comienzo(ms)
           L == Len(ms)
           N == L - 1
           cs == IF L = 1 THEN {"uso"} ELSE CausasDe(p, "con")
           i == (Last(ms).donde - c[N]) \div 5 + 1
           t == IF Last(ms).tipo # "con" THEN ms ELSE Asigna(Front(ms), i, v)
<1>1. Linea(p) /\ UNCHANGED kernel
  BY DEF Retornar
<1>2. /\ estado[p] = "cpu" /\ causas[p] = {} /\ pedido[p] = Nada /\ respuesta[p] = Nada
      /\ lineas \in Nat /\ lineas' \in Nat /\ lineas' = lineas + 1
      /\ lineas' \in 0..MaxLineas /\ lineas <= lineas'
      /\ Fiel(ms, c, pila[p], pcb[p], dicc[p], "cpu", Nada, lineas)
  BY <1>1, LineaEs
<1>3. /\ pcb[p] \in Pcb /\ pila[p] \in Octetos
      /\ compartidas' = compartidas /\ v \in Palabra
      /\ pedido' = [pedido EXCEPT ![p] = Nada] /\ respuesta' = [respuesta EXCEPT ![p] = Nada]
  BY <1>1, <1>2, DelProceso, SupuestosPila DEF kernel
<1>4. Forma(ms, c) /\ Trazado(ms, c) /\ EnBytes(pila[p], ms, c) /\ Registros(pcb[p], ms, c, lineas, 0)
  <2> HIDE DEF ms, c
  <2>1. QED
    BY <1>2 DEF Fiel
<1>5. PICK x \in Int : x = pcb[p].cursor
  BY <1>3 DEF Pcb
<1>6. causas' = [causas EXCEPT ![p] = cs]
  BY DEF Retornar
<1>7. PICK donde \in Lee(pila[p], x - 4), pc \in Lee(pila[p], x - 8), cursor \in Lee(pila[p], x - 12) :
        \/ (Rechazo \cap {donde, pc, cursor} # {} \/ ~ Cabe(donde, 4)) /\ Termina(p, "error")
        \/ /\ Rechazo \cap {donde, pc, cursor} = {} /\ Cabe(donde, 4)
           /\ Vuelve(p, Con(pila[p], donde, v), x - 12, cursor, pc)
           /\ marcos' = [marcos EXCEPT ![p] = t]
  BY <1>5 DEF Retornar
<1>8. x = c[L]
  BY <1>4, <1>5 DEF Registros
<1>9. CASE cs # {}
  <2> HIDE DEF cs, ms, t
  <2>1. CASE Termina(p, "error")
    BY <1>2, <1>3, <1>6, <1>9, <2>1, TerminaBien
  <2>2. CASE /\ Cabe(donde, 4) /\ Vuelve(p, Con(pila[p], donde, v), x - 12, cursor, pc)
             /\ marcos' = [marcos EXCEPT ![p] = t]
    <3>1. donde \in Int /\ pc \in Int /\ cursor \in Int /\ x - 12 \in Int
      <4>1. x - 4 \in Int /\ x - 8 \in Int /\ x - 12 \in Int
        BY <1>5
      <4>2. donde \in Palabra /\ pc \in Palabra /\ cursor \in Palabra
        BY <1>3, <1>7, <4>1, LeeTipo
      <4>3. QED
        BY <4>1, <4>2 DEF Palabra
    <3>2. PICK m \in Octetos : m = Con(pila[p], donde, v)
      BY <1>3, <2>2, <3>1, ConEs
    <3>3. PICK fin \in Int : fin = x - 12 /\ Vuelve(p, m, fin, cursor, pc)
      BY <2>2, <3>1, <3>2
    <3>4. QED
      BY <1>1, <1>6, <1>9, <2>2, <3>1, <3>3, VuelveSuelto
  <2>3. QED
    BY <1>7, <2>1, <2>2
<1>10. CASE cs = {}
  <2>1. /\ L # 1 /\ ms[L].tipo = "con" /\ Guardado(ms[L].vuelta) = ms[L].vuelta
        /\ Guardado(ms[L].donde) = ms[L].donde /\ Guardado(c[N]) = c[N] /\ Last(ms) = ms[L]
    <3>1. {"uso"} # {}
      OBVIOUS
    <3>2. L # 1 /\ CausasDe(p, "con") = {}
      BY <1>10, <3>1
    <3>3. Last(ms) = ms[L]
      BY DEF Last
    <3>4. /\ Last(ms).tipo = "con" /\ Guardado(Last(ms).vuelta) = Last(ms).vuelta
          /\ Guardado(Last(ms).donde) = Last(ms).donde /\ Guardado(c[N]) = c[N]
      BY <3>2, CausasEs
    <3>5. QED
      BY <3>2, <3>3, <3>4
  <2>2. t = Asigna(Front(ms), i, v) /\ i = (ms[L].donde - c[N]) \div 5 + 1
    BY <2>1
  <2> HIDE DEF ms, c, cs, t, i
  <2>3. /\ donde = ms[L].donde /\ pc = ms[L].vuelta /\ cursor = c[N]
        /\ donde \in Int /\ Cabe(donde, 4)
    <3>1. /\ Lee(pila[p], c[L] - 12) = {Guardado(c[N])} /\ Lee(pila[p], c[L] - 8) = {Guardado(ms[L].vuelta)}
          /\ Lee(pila[p], c[L] - 4) = {Guardado(ms[L].donde)}
          /\ ms[L].donde \in Int /\ Cabe(ms[L].donde, 4)
      BY <1>4, <2>1, EnlaceCon
    <3>2. /\ Lee(pila[p], x - 12) = {c[N]} /\ Lee(pila[p], x - 8) = {ms[L].vuelta}
          /\ Lee(pila[p], x - 4) = {ms[L].donde}
      BY <1>8, <2>1, <3>1
    <3>3. QED
      BY <1>7, <3>1, <3>2
  <2>4. Enlace(ms[L]) = 12
    BY <2>1 DEF Enlace
  <2>5. /\ N \in 1..L /\ cursor \in Nat /\ x - 12 \in Int /\ pc \in Nat
        /\ Entre5((x - 12) - cursor) = Len(ms[N].vars) /\ Cabe(cursor, 5 * Len(ms[N].vars))
    BY <1>4, <1>8, <2>1, <2>3, <2>4, FondoEs
  <2>6. /\ Vuelve(p, Con(pila[p], donde, v), x - 12, cursor, pc)
        /\ marcos' = [marcos EXCEPT ![p] = t]
    <3>1. Rechazo \cap {donde, pc, cursor} = {}
      BY <2>3, <2>5 DEF Rechazo, Cabe
    <3>2. QED
      BY <1>7, <2>3, <3>1
  <2>7. PICK o, e : /\ o = Front(ms) /\ Forma(o, e) /\ Trazado(o, e) /\ EnBytes(pila[p], o, e)
                    /\ Len(o) = N /\ \A k \in 1..N : e[k] = c[k] /\ o[k] = ms[k]
    BY SMTT(30), <1>4, <2>1, FrontBien
  <2>8. /\ N \in 1..N /\ L \in 1..L /\ \A k \in 1..N : k \in 1..L
    <3>1. L \in Nat \ {0} /\ N \in 1..N /\ L \in 1..L
      BY <1>4, <2>1, Medidas, UltimoEs
    <3>2. QED
      BY <3>1
  <2>9. i \in 1..Len(ms[N].vars) /\ donde = c[N] + 5 * (i - 1) + 1
    BY <1>4, <2>1, <2>2, <2>3, DestinoEs
  <2>10. \A j \in 1..L : ms[j].vuelta \in Nat /\ ms[j].vuelta <= Tope + lineas'
    BY <1>2, <1>4, VueltasSiguen
  <2> HIDE DEF N, L
  <2>11. o[Len(o)] = ms[N] /\ e[Len(o)] = c[N]
    BY <2>7, <2>8
  <2> DEFINE m == Con(pila[p], donde, v)
  <2>12. /\ m \in Octetos /\ t = Asigna(o, i, v) /\ Forma(t, e) /\ Trazado(t, e) /\ EnBytes(m, t, e)
    <3>1. t = Asigna(o, i, v)
      BY <2>2, <2>7
    <3>2. i \in 1..Len(o[Len(o)].vars) /\ donde = e[Len(o)] + 5 * (i - 1) + 1
      BY <2>9, <2>11
    <3>3. /\ m \in Octetos /\ Forma(Asigna(o, i, v), e) /\ Trazado(Asigna(o, i, v), e)
          /\ EnBytes(m, Asigna(o, i, v), e)
      BY <1>3, <2>3, <2>7, <3>2, AsignaBien
    <3>4. QED
      BY <3>1, <3>3
  <2>13. /\ Len(t) = N /\ Len(t[N].vars) = Len(ms[N].vars)
         /\ \A k \in 1..N : t[k].vuelta = ms[k].vuelta
    <3>1. o \in Seq(Contexto) /\ Len(o) >= 1
      BY <2>7 DEF Forma
    <3>2. i \in 1..Len(o[Len(o)].vars)
      BY <2>9, <2>11
    <3>3. /\ Len(t) = Len(o)
          /\ \A k \in 1..Len(o) : k # Len(o) => t[k] = o[k]
          /\ t[Len(o)].vuelta = o[Len(o)].vuelta
          /\ Len(t[Len(o)].vars) = Len(o[Len(o)].vars)
      <4>1. v \in Palabra
        BY <1>3
      <4>2. MismaForma(Asigna(o, i, v), o)
        BY <3>1, <3>2, <4>1, AsignaMantiene
      <4>3. QED
        BY <2>12, <4>2 DEF MismaForma
    <3>4. QED
      BY <2>7, <2>8, <3>1, <3>3
  <2> HIDE DEF m
  <2>14. PICK fin \in Int : /\ fin = x - 12 /\ Vuelve(p, m, fin, cursor, pc)
                            /\ Entre5(fin - cursor) = Len(ms[N].vars)
    BY <2>5, <2>6 DEF m
  <2>15. PICK n : /\ n = Len(ms[N].vars) /\ n = Len(t[Len(t)].vars)
                  /\ Entre5(fin - cursor) = n /\ Cabe(cursor, 5 * n)
    BY <2>5, <2>13, <2>14
  <2>16. cursor = e[Len(t)] /\ \A k \in 1..Len(t) : t[k].vuelta <= Tope + lineas'
    BY <2>3, <2>7, <2>8, <2>10, <2>13
  <2>17. pc <= Tope + lineas' /\ cursor \in Int
    BY SMTT(30), <2>3, <2>5, <2>8, <2>10
  <2>18. causas' = [causas EXCEPT ![p] = {}]
    BY <1>6, <1>10
  <2>19. Vuelto(p, m, fin, cursor, pc, n, t, e)
    BY <2>5, <2>6, <2>12, <2>14, <2>15, <2>16, <2>17, <2>18 DEF Vuelto
  <2>20. QED
    BY <1>1, <2>19, VuelveBien
<1>11. QED
  BY <1>9, <1>10

-----------------------------------------------------------------------------
(* The invariant *)

\* A program starts with the base context, without variables.
LEMMA BaseBien ==
    ASSUME NEW m
    PROVE  LET ms == <<Base>> c == Comienzo(ms) IN
           /\ Forma(ms, c) /\ Trazado(ms, c) /\ EnBytes(m, ms, c) /\ c[1] = 0
           /\ Len(ms) = 1 /\ ms[1].vars = <<>> /\ ms[1].vuelta = 0
<1> DEFINE ms == <<Base>>
           c == Comienzo(ms)
<1>1. Base.vars = <<>> /\ Base.tipo = "base" /\ Base.vuelta = 0 /\ Base.donde = 0
  BY DEF Base
<1>2. Base \in Contexto
  <2>1. <<>> \in Seq(Variable)
    OBVIOUS
  <2>2. QED
    BY <2>1 DEF Base, Contexto
<1>3. ms \in Seq(Contexto) /\ Len(ms) = 1 /\ ms[1] = Base
  BY <1>2
<1> HIDE DEF ms
<1>4. Len(ms) >= 1
  BY <1>3
<1>5. Trazado(ms, c)
  BY <1>3, <1>4, ComienzoTrazado
<1> HIDE DEF c
<1>6. c[1] = 0
  BY <1>5 DEF Trazado
<1>7. 2..Len(ms) = {} /\ 1..Len(ms) = {1} /\ 1..Len(ms[1].vars) = {}
  BY <1>1, <1>3
<1>8. Forma(ms, c)
  <2>1. c[1] + 5 * Len(ms[1].vars) <= TamPila + 4
    <3>1. TamPila \in Int /\ TamPila > 0
      BY SupuestosPila DEF Palabra
    <3>2. Len(ms[1].vars) = 0
      BY <1>1, <1>3
    <3>3. QED
      BY <1>6, <3>1, <3>2
  <2>2. QED
    BY <1>1, <1>3, <1>4, <1>7, <2>1 DEF Forma
<1>9. EnBytes(m, ms, c)
  BY <1>7 DEF EnBytes, Enlaces, EnNombres, EnValores
<1>10. QED
  BY <1>1, <1>3, <1>5, <1>6, <1>8, <1>9 DEF ms, c

\* A program starts.
LEMMA InicioBien ==
    ASSUME Init
    PROVE  InvPila
<1> DEFINE r == [cursor |-> 0, ctxt |-> 0, pc |-> PcInicial]
           ms == <<Base>>
           c == Comienzo(ms)
<1>1. /\ pcb = [p \in Procesos |-> r]
      /\ pila \in [Procesos -> {[d \in 0..TamPila - 1 |-> b] : b \in Rellenos}]
      /\ dicc = [p \in Procesos |-> Vacio]
      /\ estado = [p \in Procesos |-> "listo"]
      /\ compartidas = [x \in Compartidas |-> 0]
      /\ pedido = [p \in Procesos |-> Nada] /\ respuesta = [p \in Procesos |-> Nada]
      /\ lineas = 0
      /\ marcos = [p \in Procesos |-> ms]
      /\ causas = [p \in Procesos |-> {}]
  BY DEF Init
<1>2. PcInicial \in Nat /\ MaxLineas \in Nat /\ Rellenos \subseteq 0..255
  BY SupuestosPila
<1>3. r \in Pcb /\ r.cursor = 0 /\ r.ctxt = 0 /\ r.pc = PcInicial
  BY <1>2 DEF Pcb
<1>4. /\ Forma(ms, c) /\ Trazado(ms, c) /\ c[1] = 0
      /\ Len(ms) = 1 /\ ms[1].vars = <<>> /\ ms[1].vuelta = 0
  BY BaseBien
<1>5. \A m : EnBytes(m, ms, c)
  BY BaseBien
<1> HIDE DEF r, ms, c
<1>6. Tipos
  <2>1. \A b \in Rellenos : [d \in 0..TamPila - 1 |-> b] \in Octetos
    BY <1>2 DEF Octetos
  <2>2. {[d \in 0..TamPila - 1 |-> b] : b \in Rellenos} \subseteq Octetos
    BY <2>1
  <2>3. pila \in [Procesos -> Octetos]
    BY <1>1, <2>2
  <2>4. pcb \in [Procesos -> Pcb] /\ compartidas \in [Compartidas -> Palabra] /\ lineas \in 0..MaxLineas
    BY <1>1, <1>2, <1>3, CeroEs
  <2>5. /\ estado \in [Procesos -> {"listo", "cpu", "espera", "error", "fin"}]
        /\ pedido \in [Procesos -> Pedido \cup {Nada}] /\ respuesta \in [Procesos -> Palabra \cup {Nada}]
    BY <1>1
  <2>6. /\ dicc = [p \in Procesos |-> dicc[p]] /\ marcos = [p \in Procesos |-> marcos[p]]
        /\ causas = [p \in Procesos |-> causas[p]]
    BY <1>1
  <2>7. QED
    BY <2>3, <2>4, <2>5, <2>6 DEF Tipos
<1>7. Esperas
  BY <1>1 DEF Esperas
<1>8. ASSUME NEW p \in Procesos PROVE EnPila(p)
  <2>1. /\ pcb[p] = r /\ estado[p] = "listo" /\ pedido[p] = Nada /\ marcos[p] = ms /\ lineas = 0
    BY <1>1
  <2>2. Registros(r, ms, c, 0, 0)
    <3>1. Tope \in Nat /\ PcInicial <= Tope
      BY TopeEs
    <3>2. PcInicial + 0 <= Tope + 0 /\ 0 <= Tope + 0
      BY <1>2, <3>1
    <3>3. Len(ms[1].vars) = 0 /\ 1..Len(ms) = {1}
      BY <1>4
    <3>4. QED
      BY <1>2, <1>3, <1>4, <3>2, <3>3 DEF Registros
  <2>3. Fiel(ms, c, pila[p], r, dicc[p], "listo", Nada, 0)
    BY <1>4, <1>5, <2>2 DEF Fiel
  <2>4. QED
    BY <2>1, <2>3 DEF EnPila, c
<1>9. QED
  BY <1>6, <1>7, <1>8 DEF InvPila

\* A line of the script.
LEMMA EjecutaBien ==
    ASSUME InvPila, NEW p \in Procesos, Ejecuta(p)
    PROVE  InvPila' /\ Causado
<1>1. ASSUME NEW n \in Nombres, Definir(p, n) PROVE InvPila' /\ Causado
  BY <1>1, DefinirBien
<1>2. ASSUME NEW n \in DOMAIN dicc[p], Dereferenciar(p, n) PROVE InvPila' /\ Causado
  BY <1>2, DereferenciarBien
<1>3. ASSUME NEW n \in DOMAIN dicc[p], NEW v \in Valores, Asignar(p, n, v) PROVE InvPila' /\ Causado
  BY <1>3, AsignarBien
<1>4. ASSUME NEW n \in DOMAIN dicc[p], Llamar(p, "con", dicc[p][n]) PROVE InvPila' /\ Causado
  <2> DEFINE ms == marcos[p]
             c == Comienzo(ms)
  <2>1. Linea(p)
    BY <1>4 DEF Llamar
  <2>2. /\ Fiel(ms, c, pila[p], pcb[p], dicc[p], "cpu", Nada, lineas) /\ dicc[p] = DiccDe(ms, c)
    BY <2>1, LineaEs
  <2> HIDE DEF ms, c
  <2>3. Forma(ms, c) /\ Trazado(ms, c) /\ n \in NombresDe(ms[Len(ms)])
    BY <2>2 DEF Fiel, DiccDe
  <2>4. PICK donde \in Int : donde = dicc[p][n]
    BY <2>2, <2>3, DiccEn
  <2>5. Llamar(p, "con", donde) /\ \E x \in DOMAIN dicc[p] : donde = dicc[p][x]
    BY <1>4, <2>4
  <2>6. QED
    BY <2>5, LlamarBien
<1>5. ASSUME NEW n \in DOMAIN dicc[p], NEW x \in Compartidas \cup Desconocidas,
             ObtenerValorCompartida(p, n, x)
      PROVE  InvPila' /\ Causado
  BY <1>5, ObtenerBien
<1>6. ASSUME NEW n \in DOMAIN dicc[p], NEW x \in Compartidas \cup Desconocidas,
             AsignarValorCompartida(p, n, x)
      PROVE  InvPila' /\ Causado
  BY <1>6, AsignarCompartidaBien
<1>7. ASSUME Llamar(p, "sin", 0) PROVE InvPila' /\ Causado
  <2>1. 0 \in Int /\ "sin" # "con"
    OBVIOUS
  <2>2. QED
    BY <1>7, <2>1, LlamarBien
<1>8. ASSUME Finalizar(p) PROVE InvPila' /\ Causado
  BY <1>8, FinalizarBien
<1>9. ASSUME NEW v \in Valores, Retornar(p, v) PROVE InvPila' /\ Causado
  BY <1>9, RetornarBien
<1>10. QED
  BY <1>1, <1>2, <1>3, <1>4, <1>5, <1>6, <1>7, <1>8, <1>9 DEF Ejecuta

\* Nothing happens to the programs.
LEMMA QuietoBien ==
    ASSUME InvPila, UNCHANGED vars
    PROVE  InvPila' /\ Causado
<1>1. /\ pcb' = pcb /\ pila' = pila /\ dicc' = dicc /\ estado' = estado /\ compartidas' = compartidas
      /\ pedido' = pedido /\ respuesta' = respuesta /\ lineas' = lineas /\ marcos' = marcos
      /\ causas' = causas
  BY DEF vars
<1>2. Tipos'
  BY <1>1 DEF InvPila, Tipos
<1>3. Esperas'
  BY <1>1 DEF InvPila, Esperas
<1>4. \A p \in Procesos : (causas[p] = {} => EnPila(p))'
  BY <1>1 DEF InvPila, EnPila
<1>5. Causado
  BY <1>1 DEF Causado
<1>6. QED
  BY <1>2, <1>3, <1>4, <1>5 DEF InvPila

\* Every step keeps the stacks, and fails with a cause.
LEMMA PasoBien ==
    ASSUME InvPila, [Next]_vars
    PROVE  InvPila' /\ Causado
<1>1. ASSUME NEW p \in Procesos, Toma(p) PROVE InvPila' /\ Causado
  BY <1>1, TomaBien
<1>2. ASSUME NEW p \in Procesos, FinQuantum(p) PROVE InvPila' /\ Causado
  BY <1>2, FinQuantumBien
<1>3. ASSUME NEW p \in Procesos, Ejecuta(p) PROVE InvPila' /\ Causado
  BY <1>3, EjecutaBien
<1>4. ASSUME NEW p \in Procesos, PcpAtiende(p) PROVE InvPila' /\ Causado
  BY <1>4, PcpAtiendeBien
<1>5. ASSUME NEW p \in Procesos, CpuRecibe(p) PROVE InvPila' /\ Causado
  BY <1>5, CpuRecibeBien
<1>6. CASE UNCHANGED vars
  BY <1>6, QuietoBien
<1>7. QED
  BY <1>1, <1>2, <1>3, <1>4, <1>5, <1>6 DEF Next

\* The stacks, the registers and the dictionaries of all the processes are, in
\* every state, those of the contexts that the programs believe they have.
THEOREM PilasSiempreFieles == Spec => []InvPila
<1>1. Init => InvPila
  BY InicioBien
<1>2. InvPila /\ [Next]_vars => InvPila'
  BY PasoBien
<1>3. QED
  BY <1>1, <1>2, PTL DEF Spec

\* Type correctness.
THEOREM TipoPilaCorrecto == Spec => []TypeOK
<1>1. InvPila => TypeOK
  <2>1. SUFFICES ASSUME InvPila PROVE TypeOK
    OBVIOUS
  <2>2. ASSUME NEW p \in Procesos
        PROVE  /\ pcb[p] \in Pcb /\ DOMAIN pila[p] = 0..TamPila - 1
               /\ \A d \in 0..TamPila - 1 : pila[p][d] \in 0..255
               /\ estado[p] \in {"listo", "cpu", "espera", "error", "fin"}
               /\ estado[p] \notin {"cpu", "espera"} => dicc[p] = Vacio
               /\ pedido[p] \in Pedido \cup {Nada}
               /\ pedido[p] # Nada => estado[p] = "espera"
               /\ respuesta[p] # Nada => pedido[p] # Nada
    <3>1. pila[p] \in Octetos
      BY <2>1, DelProceso
    <3>2. DOMAIN pila[p] = 0..TamPila - 1 /\ \A d \in 0..TamPila - 1 : pila[p][d] \in 0..255
      BY <3>1 DEF Octetos
    <3>3. QED
      BY <2>1, <3>2, DelProceso
  <2>3. DOMAIN compartidas = Compartidas /\ lineas \in 0..MaxLineas
    BY <2>1 DEF InvPila, Tipos
  <2>4. QED
    BY <2>2, <2>3 DEF TypeOK
<1>2. QED
  BY <1>1, PilasSiempreFieles, PTL

\* The links and the names, where Comienzo says.
LEMMA FielEnBytes ==
    ASSUME NEW ms, NEW c, c = Comienzo(ms), NEW m, NEW r, NEW f, NEW e, NEW q, NEW n,
           Fiel(ms, c, m, r, f, e, q, n)
    PROVE  /\ r.cursor = c[Len(ms)] /\ r.ctxt = Len(Last(ms).vars)
           /\ \A k \in 2..Len(ms) : EnlaceEn(m, ms, k)
           /\ \A k \in 1..Len(ms) : \A i \in 1..Len(ms[k].vars) :
                 m[Direccion(ms, k, i) - 1] = ms[k].vars[i].nom
           /\ \A k \in 1..Len(ms) : \A i \in 1..Len(ms[k].vars) : ms[k].vars[i].val # Sin =>
                 Entero(m, Direccion(ms, k, i)) = Guardado(ms[k].vars[i].val)
<1>1. Forma(ms, c) /\ Trazado(ms, c) /\ EnBytes(m, ms, c)
  BY DEF Fiel
<1>2. Last(ms) = ms[Len(ms)]
  BY DEF Last
<1>3. r.cursor = c[Len(ms)] /\ r.ctxt = Len(Last(ms).vars)
  BY <1>2 DEF Fiel, Registros
<1>4. \A k \in 2..Len(ms) : EnlaceEn(m, ms, k)
  BY <1>1 DEF EnBytes, Enlaces, EnlaceEn
<1>5. ASSUME NEW k \in 1..Len(ms), NEW i \in 1..Len(ms[k].vars)
      PROVE  /\ Direccion(ms, k, i) = c[k] + 5 * (i - 1) + 1
             /\ Direccion(ms, k, i) - 1 = c[k] + 5 * (i - 1)
  <2>1. PICK x \in Int : x = c[k]
    BY <1>1, Medidas
  <2>2. i \in Int
    OBVIOUS
  <2>3. (x + 5 * (i - 1) + 1) - 1 = x + 5 * (i - 1)
    BY <2>1, <2>2
  <2>4. QED
    BY <2>1, <2>3 DEF Direccion
<1>6. ASSUME NEW k \in 1..Len(ms), NEW i \in 1..Len(ms[k].vars)
      PROVE  m[Direccion(ms, k, i) - 1] = ms[k].vars[i].nom
  <2>1. m[c[k] + 5 * (i - 1)] = ms[k].vars[i].nom
    BY <1>1 DEF EnBytes, EnNombres
  <2>2. QED
    BY <1>5, <2>1
<1>7. ASSUME NEW k \in 1..Len(ms), NEW i \in 1..Len(ms[k].vars), ms[k].vars[i].val # Sin
      PROVE  Entero(m, Direccion(ms, k, i)) = Guardado(ms[k].vars[i].val)
  <2>1. Entero(m, c[k] + 5 * (i - 1) + 1) = Guardado(ms[k].vars[i].val)
    BY <1>1, <1>7 DEF EnBytes, EnValores
  <2>2. QED
    BY <1>5, <2>1
<1>8. QED
  BY <1>3, <1>4, <1>6, <1>7

\* pcb.cursor_stack, size_ctxt_actual, the links and the names are those of the
\* calls the program has made.
THEOREM MarcosSiempreEnPila == Spec => []MarcosEnPila
<1>1. InvPila => MarcosEnPila
  <2>1. SUFFICES ASSUME InvPila PROVE MarcosEnPila
    OBVIOUS
  <2>2. ASSUME NEW p \in Procesos, causas[p] = {}
        PROVE  /\ pcb[p].cursor = Comienzo(marcos[p])[Len(marcos[p])]
               /\ pcb[p].ctxt = Len(Last(marcos[p]).vars)
               /\ \A k \in 2..Len(marcos[p]) : EnlaceEn(pila[p], marcos[p], k)
               /\ \A k \in 1..Len(marcos[p]) : \A i \in 1..Len(marcos[p][k].vars) :
                     pila[p][Direccion(marcos[p], k, i) - 1] = marcos[p][k].vars[i].nom
    <3>1. EnPila(p)
      BY <2>1, <2>2 DEF InvPila
    <3>2. QED
      BY <3>1, FielEnBytes DEF EnPila
  <2>3. QED
    BY <2>2 DEF MarcosEnPila
<1>2. QED
  BY <1>1, PilasSiempreFieles, PTL

\* The dictionary of a CPU names, for each name of the context, its last variable.
THEOREM DiccionarioSiempreFiel == Spec => []DiccionarioFiel
<1>1. InvPila => DiccionarioFiel
  <2>1. SUFFICES ASSUME InvPila PROVE DiccionarioFiel
    OBVIOUS
  <2>2. ASSUME NEW p \in Procesos, causas[p] = {}, estado[p] \in {"cpu", "espera"}
        PROVE  LET m == Last(marcos[p]) IN
               dicc[p] = [n \in {m.vars[i].nom : i \in 1..Len(m.vars)} |->
                             Direccion(marcos[p], Len(marcos[p]), Llamada(m, n))]
    <3>1. dicc[p] = DiccDe(marcos[p], Comienzo(marcos[p]))
      BY <2>1, <2>2 DEF InvPila, EnPila, Fiel
    <3>2. Last(marcos[p]) = marcos[p][Len(marcos[p])]
      BY DEF Last
    <3>3. QED
      BY <3>1, <3>2 DEF DiccDe, NombresDe, Direccion
  <2>3. QED
    BY <2>2 DEF DiccionarioFiel
<1>2. QED
  BY <1>1, PilasSiempreFieles, PTL

\* No call, definition or return loses the value of a variable of any context.
THEOREM ValorSiempreGuardado == Spec => []ValorGuardado
<1>1. InvPila => ValorGuardado
  <2>1. SUFFICES ASSUME InvPila PROVE ValorGuardado
    OBVIOUS
  <2>2. ASSUME NEW p \in Procesos, causas[p] = {},
               NEW k \in 1..Len(marcos[p]), NEW i \in 1..Len(marcos[p][k].vars),
               marcos[p][k].vars[i].val # Sin
        PROVE  Entero(pila[p], Direccion(marcos[p], k, i)) = Guardado(marcos[p][k].vars[i].val)
    <3>1. EnPila(p)
      BY <2>1, <2>2 DEF InvPila
    <3>2. QED
      BY <2>2, <3>1, FielEnBytes DEF EnPila
  <2>3. QED
    BY <2>2 DEF ValorGuardado
<1>2. QED
  BY <1>1, PilasSiempreFieles, PTL

\* salimosPorError has a cause: the segment is almost full, a variable holds what
\* the UMV answers when it refuses, or nothing, or a return did not follow its call.
THEOREM ErrorSiempreConCausa == Spec => ErrorConCausa
<1> DEFINE ConCausa == \A p \in Procesos : estado[p] # "error" /\ estado'[p] = "error" =>
              \/ TamPila - Ocupado(marcos[p]) < 12
              \/ \E i \in 1..Len(Last(marcos[p]).vars) :
                    Last(marcos[p]).vars[i].val \in Rechazo \cup {Sin}
              \/ causas'[p] # {}
<1>1. Causado => ConCausa
  <2>1. \A ms : Last(ms) = ms[Len(ms)]
    BY DEF Last
  <2>2. ASSUME NEW ms, Explica(ms, Comienzo(ms))
        PROVE  \/ TamPila - Ocupado(ms) < 12
               \/ \E i \in 1..Len(Last(ms).vars) : Last(ms).vars[i].val \in Rechazo \cup {Sin}
    <3>1. Last(ms) = ms[Len(ms)]
      BY <2>1
    <3>2. QED
      BY <2>2, <3>1 DEF Explica, SinLugar, Motivo, Ocupado
  <2>3. QED
    BY <2>2 DEF Causado
<1>2. InvPila /\ [Next]_vars => ConCausa
  BY <1>1, PasoBien
<1>3. InvPila /\ [Next]_vars => [ConCausa]_vars
  BY <1>2
<1> HIDE DEF ConCausa
<1>4. Spec => [][ConCausa]_vars
  BY <1>3, PilasSiempreFieles, PTL DEF Spec
<1>5. QED
  BY <1>4 DEF ErrorConCausa, ConCausa
=============================================================================
