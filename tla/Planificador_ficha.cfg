\* Two programs, two CPUs, one of which dies before it has announced itself.
CONSTANTS
    p1 = p1
    p2 = p2
    c1 = c1
    c2 = c2
    s1 = s1
    s2 = s2
    Nada = Nada
    Programas = {p1, p2}
    CPUs = {c1, c2}
    Sockets = {s1, s2}
    Dispositivos = {}
    NombresES = {}
    Multiprogramacion = 2
    Peso <- MCPeso
    MaxRafagas = 1
    MaxBajas = 1
SPECIFICATION Spec
CHECK_DEADLOCK FALSE
INVARIANTS
    BloqueaSinCpus
