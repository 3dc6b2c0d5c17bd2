\* Three programs over one place and one CPU, no devices, with fairness: two wait in New.
CONSTANTS
    p1 = p1
    p2 = p2
    p3 = p3
    c1 = c1
    s1 = s1
    Nada = Nada
    Programas = {p1, p2, p3}
    CPUs = {c1}
    Sockets = {s1}
    Dispositivos = {}
    NombresES = {}
    Multiprogramacion = 1
    Peso <- MCPeso
    MaxRafagas = 0
    MaxBajas = 0
SPECIFICATION SpecJusta
CHECK_DEADLOCK FALSE
INVARIANTS
    WorkersDeNew
PROPERTIES
    SacaElMasLiviano
    NewAvanza
    ExitSeVacia
