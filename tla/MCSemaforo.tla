----------------------------- MODULE MCSemaforo -----------------------------
(* Small instances of SemaforoAnsisop for TLC. *)
EXTENDS PropsSemaforo

CONSTANT b

\* b starts open, any other semaphore closed, as in kernel.config.
MCValor == [s \in Semaforos |-> IF s = b THEN 1 ELSE 0]
=============================================================================
