-------------------------------- MODULE MCUMV --------------------------------
(* Instances of UMV for TLC. *)
EXTENDS PropsUMV, TLC

CONSTANTS c1, c2

\* The second fits beside the first only once the first has gone, and its code
\* index, under first fit, only in what compaction joins.
MCCarga == << <<1, 1, 1, 0>>, <<1, 2, 2, 0>> >>

\* The second base may be drawn as 0, the code's own, or one beside it.
MCSorteo == <<{1}, {0, 1, 2}, {4}, {8}, {11}>>
MCOffsets == {-1, 1}
MCTamOperador == {2}

\* For the lock: two small programs, so that the second is being loaded while a CPU
\* runs the first, and another CPU that arrives.
MCCargaChica == << <<1, 1, 1, 0>>, <<1, 1, 1, 0>> >>
MCSorteoFijo == <<{1}, {2}, {4}, {8}, {10}>>
MCOffsetsChicos == {0, 1}
=============================================================================
