--------------------------- MODULE MCPlanificador ---------------------------
(* Small instances of Planificador for TLC. *)
EXTENDS PropsPlanificador, TLC

CONSTANT p1

\* One heavy program, the others alike: enough for New to need sorting.
MCPeso == [p \in Programas |-> IF p = p1 THEN 2 ELSE 1]

\* The CPUs are interchangeable, and so are the sockets and the light programs.
Simetria == {f @@ g @@ h : f \in Permutations(CPUs), g \in Permutations(Programas \ {p1}),
                           h \in Permutations(Sockets)}
=============================================================================
