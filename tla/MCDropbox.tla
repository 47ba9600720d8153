------------------------------ MODULE MCDropbox ------------------------------
(* Small instances of DropboxCluster for TLC.                                *)
EXTENDS DropboxCluster, TLC

\* Client names are alike, and so are file servers.
Alike == Permutations(Names) \cup Permutations(Servers)

\* A server that is not in use and holds nothing.
Unused(s) ==
  srv[s].pc = "down" /\ \A c \in Names : srv[s].file[c] = None /\ srv[s].dir[c] = "no"

\* A bound: a second server is only used with at most two commands.
SecondServerBound ==
  commands' <= 2 \/ \E s \in Servers : \A z \in Servers \ {s} : Unused(z)'
=============================================================================
