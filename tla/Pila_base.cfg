SPECIFICATION SpecJusta
CONSTANTS
    p1 = p1
    x = x
    y = y
    Procesos = {p1}
    Compartidas = {x}
    Desconocidas = {y}
    Nada = Nada
    Sin = Sin
    TamPila = 30
    Nombres <- MCNombres
    Valores <- MCValores
    Rellenos <- MCRellenos
    Ajeno <- MCAjeno
    PcInicial = 254
    Destino = 10
    MaxLineas = 6
INVARIANTS TypeOK MarcosEnPila DiccionarioFiel ValorGuardado
PROPERTIES ErrorConCausa EsperaTermina
CHECK_DEADLOCK FALSE
