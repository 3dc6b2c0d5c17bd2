---------------------------- MODULE PropsMensajes ----------------------------
(***************************************************************************)
(* What a program may count on: that it is answered, that what it is told  *)
(* is about its own script and in order, and that it is told to end.       *)
(***************************************************************************)
EXTENDS Mensajes

Ordenes == [orden : {"INFORMAR", "FINALIZAR"}, de : Programas, linea : Nat]

\* A program is at one socket of the kernel at most, the PLP waits for no more
\* of a packet than its body, and a process is in one CPU, or its PCB on its
\* way to the PCP, exactly while its state says so.
TypeOK ==
    /\ \A p \in Programas :
          /\ programa[p] \in {"fuera", "envia", "recibe", "termino", "salio"}
          /\ porEnviar[p] + llegaron[p] \in 0..Cuerpo + 1
          /\ \A m \in ToSet(hacia[p]) \cup ToSet(recibidos[p]) : m \in Ordenes
          /\ Cardinality({s \in Sockets : fd[s] = p}) <= (IF p \in atendidos THEN 1 ELSE 0)
          /\ Cardinality({c \in CPUs : cpu[c] # Nada /\ cpu[c].proc = p})
               + Cardinality({c \in CPUs : \E i \in 1..Len(canal[c]) :
                                 canal[c][i].tipo \in {"Q", "F"} /\ canal[c][i].proc = p})
             = (IF estado[p] = "cpu" THEN 1 ELSE 0)
    /\ plp # Nada => plp.faltan \in 0..Cuerpo /\ fd[plp.socket] \in Programas
    /\ trama \in [CPUs -> {"bien", "corrida", "perdida"}]

\* The orders a process causes, from the welcome to the end of its script.
Historia(p) ==
    [i \in 1..Len(Guion[p]) + 2 |->
        IF i = Len(Guion[p]) + 2 THEN Orden("FINALIZAR", p, 0) ELSE Orden("INFORMAR", p, i - 1)]

Rechazo(p) == <<Orden("FINALIZAR", p, 0)>>

\* How many of the first i orders of s are about the process of p.
Propias(s, p, i) == Cardinality({j \in 1..i : s[j].de = p})

\* The orders of s about the process of p are, one by one, the first ones of h.
Sigue(s, p, h) ==
    \A i \in 1..Len(s) :
        s[i].de = p => Propias(s, p, i) <= Len(h) /\ s[i] = h[Propias(s, p, i)]

\* A program obeys the orders its own process caused, from the first and in the
\* order of its script, whatever CPUs it ran on, unless one came cut.  If it
\* obeys an order about another process, the program of that one had gone, and
\* not because its own process had ended: it left by itself, or obeyed the end
\* of a third, and its socket number was given again.
RecibeLoSuyo ==
    \A p \in Programas :
        /\ p \notin rotos => Sigue(recibidos[p], p, Historia(p)) \/ Sigue(recibidos[p], p, Rechazo(p))
        /\ \A m \in ToSet(recibidos[p]) : m.de # p =>
              SeFue(m.de) /\ Orden("FINALIZAR", m.de, 0) \notin ToSet(recibidos[m.de])

\* A CPU reads its PCBs out of step only if it was given the number of a program
\* that had gone, and whose process goes on naming it: the kernel does not close a
\* socket under a program that is there.
TramaPorReuso ==
    \A c \in CPUs : trama[c] # "bien" =>
        \E p \in Programas : SeFue(p) /\ estado[p] # "no" /\ fd[pcb[p].socket] = c

\* The PLP is in the middle of the script of a program that has left.
PlpTrabado ==
    /\ plp # Nada /\ plp.faltan > 0
    /\ SeFue(fd[plp.socket]) /\ llegaron[fd[plp.socket]] = 0

\* A program that has sent its script is told whether it was let in, unless the
\* script came cut, the kernel died, or another program left in the middle of
\* its own and the PLP never came out of recvAll.  The answer may be an order about
\* another process, whose socket number the program was given.
ScriptAtendido ==
    \A p \in Programas :
        programa[p] = "recibe"
            ~> (recibidos[p] # <<>> \/ programa[p] # "recibe" \/ p \in rotos \/ caido \/ PlpTrabado)

\* A program that was let in ends, by an order or because its user stopped it,
\* unless an order came cut, the kernel died, its PCB went to a CPU that had been
\* sent the orders of another, or no other CPU is left.
TodosSeEnteran ==
    \A p \in Programas : estado[p] # "no" ~>
        \/ SeFue(p) \/ p \in rotos \/ caido
        \/ estado[p] = "perdido" \/ \A c \in CPUs : trama[c] = "perdida"
==============================================================================
