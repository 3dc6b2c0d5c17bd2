------------------------------ MODULE Contextos ------------------------------
(***************************************************************************)
(* What a program believes its stack to be: a sequence of contexts, each   *)
(* with the variables it has defined, oldest first, and how it was called. *)
(* The sizes are those of the layout the CPU is meant to keep: 5 bytes per *)
(* variable (name and value) and, below the first of a context, the saved  *)
(* cursor and program counter and, if it returns a value, where to.        *)
(***************************************************************************)
EXTENDS Integers, SequencesExt, FiniteSetsExt

CONSTANT Sin   \* the value of a variable nobody has assigned

Base == [vars |-> <<>>, tipo |-> "base", vuelta |-> 0, donde |-> 0]

Enlace(m) == CASE m.tipo = "base" -> 0 [] m.tipo = "sin" -> 8 [] m.tipo = "con" -> 12

\* Where the variables of each context of ms begin, in bytes.
Comienzo(ms) ==
    LET f[k \in 1..Len(ms)] ==
            IF k = 1 THEN 0 ELSE f[k - 1] + 5 * Len(ms[k - 1].vars) + Enlace(ms[k])
    IN f

\* The address of the value of variable i of context k.
Direccion(ms, k, i) == Comienzo(ms)[k] + 5 * (i - 1) + 1
Ocupado(ms) == Comienzo(ms)[Len(ms)] + 5 * Len(Last(ms).vars)

\* The variable a name stands for: the last one of the context so called.
Llamada(m, n) == Max({i \in 1..Len(m.vars) : m.vars[i].nom = n})

EnTope(ms, m) == [ms EXCEPT ![Len(ms)] = m]
Define(ms, n) == EnTope(ms, [Last(ms) EXCEPT !.vars = Append(@, [nom |-> n, val |-> Sin])])
Asigna(ms, i, v) == EnTope(ms, [Last(ms) EXCEPT !.vars[i].val = v])
Apila(ms, tipo, vuelta, donde) ==
    Append(ms, [vars |-> <<>>, tipo |-> tipo, vuelta |-> vuelta, donde |-> donde])
=============================================================================
