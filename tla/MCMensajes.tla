----------------------------- MODULE MCMensajes -----------------------------
EXTENDS PropsMensajes, TLC
CONSTANTS p1, p2
\* The first prints twice, in a quantum each; the second only ends.
MCGuion == p1 :> <<"imprimir", "imprimirTexto">> @@ p2 :> <<>>
=============================================================================
