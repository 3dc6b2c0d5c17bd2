\* Two programs over two places and two CPUs that may both leave: the second may be given the
\* socket of the first.  A device, and a name no device has.
CONSTANTS
    p1 = p1
    p2 = p2
    c1 = c1
    c2 = c2
    d1 = d1
    d2 = d2
    s1 = s1
    s2 = s2
    Nada = Nada
    Programas = {p1, p2}
    CPUs = {c1, c2}
    Sockets = {s1, s2}
    Dispositivos = {d1}
    NombresES = {d1, d2}
    Multiprogramacion = 2
    Peso <- MCPeso
    MaxRafagas = 1
    MaxBajas = 2
SPECIFICATION Spec
SYMMETRY Simetria
CHECK_DEADLOCK FALSE
INVARIANTS
    TypeOK
    PcbEnUnLugar
    CuposConservados
    FichasDeReady
    FichasDeExit
    FichasDeCpu
    CausasDeCaida
    FinalizadoAntes
    DespachoAOciosa
PROPERTIES
    CumpleCiclo
