------------------------------- MODULE Listas -------------------------------
(***************************************************************************)
(* The calls of the so-commons list library the kernel makes, with the     *)
(* behaviour its code relies on.  The library is not part of the           *)
(* repository.  C positions count from 0, sequences from 1.                *)
(***************************************************************************)
EXTENDS Naturals, Sequences, SequencesExt

\* list_add_in_index(lista, pos, x): inserts before position pos; a position
\* beyond the end is ignored and the element is not inserted.
ListAddInIndex(s, pos, x) ==
    IF pos <= Len(s) THEN InsertAt(s, pos + 1, x) ELSE s

\* What list_sort(s, menor) may leave behind: the rearrangements of s in
\* ascending order of clave; the order among equals is the library's business.
ListSort(s, clave) ==
    { t \in {[i \in DOMAIN s |-> s[f[i]]] : f \in Bijection(DOMAIN s, DOMAIN s)} :
        \A i, j \in DOMAIN s : i < j => clave[t[i]] <= clave[t[j]] }
=============================================================================
