SPECIFICATION Spec
CONSTANTS
    TamMem = 5
    Palabra = 16
    CPUs = {c1}
    c1 = c1
    c2 = c2
    Plp = Plp
    Quit = Quit
    Consola = Consola
    Nada = Nada
    Configurado = "first_fit"
    Carga <- MCCarga
    Sorteo <- MCSorteo
    Offsets <- MCOffsets
    TamOperador <- MCTamOperador
    MaxUsos = 1
INVARIANTS TypeOK SolapeSoloPorConsola CargaEscrita FinLimpio
PROPERTIES AccesoPropio CreaSiHay CumpleMemoria
CHECK_DEADLOCK FALSE
