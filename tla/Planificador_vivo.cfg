\* Two programs over two places, two CPUs and a device, with fairness.
CONSTANTS
    p1 = p1
    p2 = p2
    c1 = c1
    c2 = c2
    d1 = d1
    s1 = s1
    s2 = s2
    Nada = Nada
    Programas = {p1, p2}
    CPUs = {c1, c2}
    Sockets = {s1, s2}
    Dispositivos = {d1}
    NombresES = {d1}
    Multiprogramacion = 2
    Peso <- MCPeso
    MaxRafagas = 1
    MaxBajas = 0
SPECIFICATION SpecJusta
CHECK_DEADLOCK FALSE
PROPERTIES
    ReadyAvanza
    TodoTermina
