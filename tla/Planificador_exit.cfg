\* Two programs over two places, one CPU: vaciar_exit may find two PCBs.
CONSTANTS
    p1 = p1
    p2 = p2
    c1 = c1
    s1 = s1
    Nada = Nada
    Programas = {p1, p2}
    CPUs = {c1}
    Sockets = {s1}
    Dispositivos = {}
    NombresES = {}
    Multiprogramacion = 2
    Peso <- MCPeso
    MaxRafagas = 0
    MaxBajas = 0
SPECIFICATION Spec
CHECK_DEADLOCK FALSE
INVARIANTS
    VaciarTieneElemento
