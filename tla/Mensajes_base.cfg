\* Two programs and a CPU, that may be given the number of a program that left; the quantum is
\* one line.
SPECIFICATION SpecJusta
CONSTANTS
    p1 = p1
    p2 = p2
    c1 = c1
    Nada = Nada
    Programas = {p1, p2}
    CPUs = {c1}
    Sockets = {4, 5, 6}
    Guion <- MCGuion
    Quantum = 1
    Cuerpo = 2
    MaxSalidas = 1
INVARIANTS
    TypeOK
    RecibeLoSuyo
    TramaPorReuso
PROPERTIES
    ScriptAtendido
    TodosSeEnteran
CHECK_DEADLOCK FALSE
