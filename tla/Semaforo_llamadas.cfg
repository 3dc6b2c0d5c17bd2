\* Two processes with three calls each on one semaphore and a name that does not exist.
CONSTANTS
    p1 = p1
    p2 = p2
    b = b
    x = x
    Nadie = Nadie
    Procesos = {p1, p2}
    Semaforos = {b}
    Nombres = {b, x}
    ValorInicial <- MCValor
    MaxOps = 3
SPECIFICATION SpecJusta
CHECK_DEADLOCK FALSE
INVARIANTS
    TypeOK
    ProcesoEnUnLugar
    CuentaDelSemaforo
PROPERTIES
    RespuestaLlega
    PrimeroSale
