------------------------------ MODULE PropsUMV ------------------------------
(* What the UMV must keep for the programs it holds. *)
EXTENDS UMV

De(p) == {s \in segs : s.prog = p}
Libres == TamMem - Cardinality(UNION {Direcciones(s) : s \in segs})
Limpio == roto = {}
\* The step answers a request of one of these kinds.
Responde(c, ops) == Adentro(c) /\ hilo[c].ped.op \in ops /\ resp[c] = Nada /\ resp'[c] # Nada

\* The active process, the positions of segments and the counters are of their
\* kind: no segment leaves main memory.
TypeOK ==
    /\ activo \in Programas \cup {0, Operador}
    /\ \A s \in segs :
          /\ s.prog \in Programas \cup {Operador} /\ s.inicio \in 0..Palabra - 1
          /\ s.size > 0 /\ s.pos >= 0 /\ FinDe(s) <= TamMem
    /\ mem \in [0..TamMem - 1 -> Programas \cup {0, Operador}]
    /\ op_atomica \in [palabra : 0..2, dormidas : SUBSET Conexiones, despiertas : SUBSET Conexiones]
    /\ noTerminar \in BOOLEAN /\ caida \in BOOLEAN
    /\ usos \in 0..MaxUsos
    /\ roto \subseteq {"reinicio", "olvido", "consola", "operador", "fuera"}

\* Two segments share memory only if the console has broken into an operation,
\* as umv.c:36-38 warns ("OJO CON LA SINCRONIZACION"): initialising op_atomica
\* again is not enough, since only the kernel's connection creates segments.
SolapeSoloPorConsola == Sana \/ "consola" \in roto

\* A program that is ready has its code whole at its base, although enviar_bytes
\* may have answered -1 or -2 to the PLP, which takes both for success: unless
\* its load was broken into or somebody wrote outside a segment.
CargaEscrita ==
    \A p \in Programas : estado[p] \in {"listo", "cpu"} /\ Limpio =>
        \E s \in segs : s.prog = p /\ s.inicio = bases[p][1] /\ \A d \in Direcciones(s) : mem[d] = p

\* Once the request of vaciar_exit has been served nothing of the program is
\* left, the segments whose base was drawn as 0 included.
FinLimpio ==
    \A p \in Programas :
        estado[p] = "fin" /\ cola[Plp] = <<>> /\ hilo[Plp].pc = "recv" => De(p) = {}

\* The step answers an access of c with an error, or does what c asked.
AccesoBien(c) ==
    Responde(c, {"enviar", "solicitar"}) =>
        LET ped == hilo[c].ped IN
        \/ resp'[c].cod < 0 \/ resp'[c].datos \in {<<-1>>, <<-2>>}
        \/ roto' # {}
        \/ \E s \in De(ped.prog) :
              /\ s.inicio = ped.base
              /\ s.pos + ped.off + ped.tam <= FinDe(s)
              /\ ped.op = "solicitar" =>
                    resp'[c].datos = [i \in 1..ped.tam |-> mem[s.pos + ped.off + i - 1]]
              /\ {d \in DOMAIN mem : mem'[d] # mem[d]} \subseteq Direcciones(s)

\* An access that is answered reads or writes the segment of the program that
\* asked, at the offset it asked for, although the program is a global that
\* every request sets: unless another thread broke in or the offset wrapped.
AccesoPropio == [][\A c \in Conexiones : AccesoBien(c)]_vars

\* A program is told that there is no memory only if what is free does not add
\* up to what it asks for (compaction makes it one piece), or if the base drawn
\* is 0, which is the error value.
CreaSiHay ==
    [][Responde(Plp, {"crear"}) =>
          \/ resp'[Plp].cod # 0
          \/ Libres < hilo[Plp].ped.size
          \/ segs' # segs
          \/ ~Limpio]_vars

-----------------------------------------------------------------------------
(* The UMV implements a memory of segments named by their virtual bases: what *)
(* moves is not seen.  A segment's contents are read through its position.    *)

Vista(s) == [prog |-> s.prog, inicio |-> s.inicio, bytes |-> [o \in 0..s.size - 1 |-> mem[s.pos + o]]]
Espacio == {Vista(s) : s \in segs}

MV == INSTANCE MemoriaVirtual WITH
    Duenios <- Programas \cup {Operador}, Capacidad <- TamMem, espacio <- Espacio

\* Every step is one of the abstract memory until the console breaks into an
\* operation or an access leaves its segment.
CumpleMemoria ==
    MV!Init /\ [][MV!Next \/ roto' \cap {"consola", "fuera"} # {} \/ caida']_<<segs, mem>>

-----------------------------------------------------------------------------
(* Liveness, under weak fairness of Avanza *)

\* Nothing gets stuck but by op_atomica being initialised under those that sleep on
\* it: the PLP always comes back from its loads, unless its thread is asleep on a
\* mutex that has forgotten somebody who slept, and main leaves once the
\* console has been told to quit, unless it had already accepted the connection that
\* was to wake it up (comando_matar_umv connects before it lowers noTerminar).
NadaSeTraba ==
    []<>(Viva => /\ plp.pc = "select" \/ ("olvido" \in roto /\ Plp \in op_atomica.dormidas)
                 /\ hilo[Consola].pc = "fin" => hilo[Quit].pc # "encolada")
=============================================================================
