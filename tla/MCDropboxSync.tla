---------------------------- MODULE MCDropboxSync -----------------------------
(* A small instance of DropboxSync for TLC.                                  *)
EXTENDS DropboxSync, TLC

CONSTANTS d1, x1, y1, t1

\* File x1 is in directory d1, file y1 beside it.
MCIn == [f \in Files |-> IF f = x1 THEN d1 ELSE Home]

\* A terminal that is not in use and holds nothing.
Unused(t) == cl[t].pc = "off" /\ home[t] = Nothing

\* The directory is nowhere, and no stream makes it.
OneFile ==
  /\ newest[x1] = 0
  /\ disk[d1] = Absent /\ \A t \in Terminals : home[t][d1] = Absent
  /\ \A x \in {cl[t] : t \in Terminals} \cup {sy[t] : t \in Terminals}
             \cup ({wire[t] : t \in Terminals} \ {None}) \cup {left[i] : i \in DOMAIN left} :
       x.ops[d1] # "ADD"

\* A bound: a second terminal is only used without the directory, with at most
\* one fault, and with at most three edits and faults together.
SecondTerminalBound ==
  \/ \A t \in Terminals \ {t1} : Unused(t)'
  \/ OneFile' /\ faults' <= 1 /\ edits' + faults' <= 3
=============================================================================
