\* Two CPUs that come and go over two small programs: a thread may start while another is
\* inside an operation and a third sleeps on op_atomica.
SPECIFICATION SpecJusta
CONSTANTS
    TamMem = 6
    Palabra = 16
    CPUs = {c1, c2}
    c1 = c1
    c2 = c2
    Plp = Plp
    Quit = Quit
    Consola = Consola
    Nada = Nada
    Configurado = "first_fit"
    Carga <- MCCargaChica
    Sorteo <- MCSorteoFijo
    Offsets <- MCOffsetsChicos
    TamOperador = {}
    MaxUsos = 1
PROPERTY NadaSeTraba
CHECK_DEADLOCK FALSE
