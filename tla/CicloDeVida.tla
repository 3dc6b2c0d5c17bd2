----------------------------- MODULE CicloDeVida -----------------------------
(***************************************************************************)
(* What the kernel promises about a program, whatever its threads do: the  *)
(* states a PCB goes through (the queues of kernel.h and of the notes in   *)
(* manejo_colas_plp.txt), and never more than Multiprogramacion programs   *)
(* between New and Exit.  A PCB can also be lost: the code has paths that  *)
(* drop some, and their places are never given back.                       *)
(***************************************************************************)
EXTENDS Naturals, FiniteSets

CONSTANTS Programas, Multiprogramacion
VARIABLE estado

Activos == {p \in Programas : estado[p] \in {"ready", "exec", "block", "perdido"}}

Pasa(p, desde, hacia) ==
    /\ estado[p] \in desde
    /\ estado' = [estado EXCEPT ![p] = hacia]

Init == estado = [p \in Programas |-> "afuera"]

Llega(p)      == Pasa(p, {"afuera"}, "new")
Rebota(p)     == Pasa(p, {"afuera"}, "exit")
Admite(p)     == Cardinality(Activos) < Multiprogramacion /\ Pasa(p, {"new"}, "ready")
Despacha(p)   == Pasa(p, {"ready"}, "exec")
Desaloja(p)   == Pasa(p, {"exec"}, "ready")
Bloquea(p)    == Pasa(p, {"exec"}, "block")
Desbloquea(p) == Pasa(p, {"block"}, "ready")
Termina(p)    == Pasa(p, {"exec"}, "exit")
Destruye(p)   == Pasa(p, {"exit"}, "destruido")

\* PCBs on their way to a CPU that is gone are lost together.
Pierden(S) ==
    /\ \A p \in S : estado[p] \in {"ready", "exec", "block"}
    /\ estado' = [p \in Programas |-> IF p \in S THEN "perdido" ELSE estado[p]]

Next ==
    \/ \E p \in Programas :
            \/ Llega(p) \/ Rebota(p) \/ Admite(p) \/ Despacha(p) \/ Desaloja(p)
            \/ Bloquea(p) \/ Desbloquea(p) \/ Termina(p) \/ Destruye(p)
    \/ \E S \in SUBSET Programas : Pierden(S)

Spec == Init /\ [][Next]_estado
=============================================================================
