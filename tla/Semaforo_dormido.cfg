\* Two processes with two calls each on one semaphore.
CONSTANTS
    p1 = p1
    p2 = p2
    b = b
    Nadie = Nadie
    Procesos = {p1, p2}
    Semaforos = {b}
    Nombres = {b}
    ValorInicial <- MCValor
    MaxOps = 2
SPECIFICATION Spec
CHECK_DEADLOCK FALSE
INVARIANTS
    NadieDuermeDeMas
