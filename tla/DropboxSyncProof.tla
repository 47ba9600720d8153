--------------------------- MODULE DropboxSyncProof ---------------------------
(***************************************************************************)
(* Proofs about the synchronisation of the Dropbox sample: the server's    *)
(* copy of a file never goes back to an older version, and what a client   *)
(* takes for synchronised is on the server.                                *)
(***************************************************************************)
EXTENDS DropboxSync, SequenceTheorems, TLAPS

-----------------------------------------------------------------------------
(* Types, versions and directories.                                          *)

Knowledge == [Paths -> {"none", "same", "old"}]
OpMaps == [Paths -> {"-", "ADD", "MOD", "DEL"}]

\* A file is in a directory that is there.
Closed(dir) == \A f \in Files : dir[f].there /\ In[f] # Home => dir[In[f]].there

\* Only files have versions, and users made them.
Real(dir, made) == /\ dir \in Trees
                   /\ \A f \in Files : dir[f].v <= made[f]
                   /\ \A d \in Dirs : dir[d].v = 0

HomeTyped == /\ home \in [Terminals -> Trees]
             /\ \A t \in Terminals : Real(home[t], newest) /\ Closed(home[t])
DiskTyped == Real(disk, newest) /\ Closed(disk)
ClTyped == /\ cl \in [Terminals -> Clients]
           /\ \A t \in Terminals : Real(cl[t].vals, newest)
SyTyped == /\ sy \in [Terminals -> Syncers]
           /\ \A t \in Terminals : Real(sy[t].vals, newest)
WireTyped == /\ wire \in [Terminals -> Packs \cup {None}]
             /\ \A t \in Terminals : wire[t] # None => Real(wire[t].vals, newest)
RestTyped == /\ up \in [Terminals -> BOOLEAN] /\ orphans \subseteq Terminals
             /\ newest \in [Files -> Nat] /\ local \in [Terminals -> SUBSET Paths]

WellTyped == HomeTyped /\ DiskTyped /\ ClTyped /\ SyTyped /\ WireTyped /\ RestTyped

\* The streams that clients write, the cancelled syncers, and the histories.
FlagsTyped == /\ list \subseteq Terminals /\ ending \subseteq Terminals
              /\ overlap \in BOOLEAN /\ garbled \in BOOLEAN
LeftOK == /\ left \in Seq(Syncers) /\ \A i \in DOMAIN left : Real(left[i].vals, newest)
          /\ overlap \/ left = <<>>
WriterOK == /\ writer \in [Terminals -> Writers]
            /\ \A t \in Terminals :
                 /\ writer[t].fit \/ garbled
                 /\ cl[t].pc = "write" /\ writer[t].open # None
                      => cl[t].ops[writer[t].open] \in {"ADD", "MOD"}
PackOK(m, ok) == m # None => /\ m.head = "JUNK" => ok
                             /\ m.head = "FULL" => m.to = "client"
WireOK == \A t \in Terminals : PackOK(wire[t], garbled)

Tracked == FlagsTyped /\ LeftOK /\ WriterOK /\ WireOK

-----------------------------------------------------------------------------
(* The server's copy only moves on.                                          *)

\* While all is in order, the account has one syncer at a time.
Alone == \A s, t \in Terminals : sy[s].pc # "none" /\ sy[t].pc # "none" => s = t

\* The two ends of a confirmed connection take turns.
Turns(t) ==
  LET c == cl[t].pc  s == sy[t].pc
      known == sy[t].known = Scan(disk)
  IN
  \/ c = "init" /\ s = "read" /\ sy[t].known = NoMap /\ Arrived(t, "client", "CONFIRM")
  \/ c = "query" /\ s = "read" /\ sy[t].known = NoMap /\ Arrived(t, "server", "QUERY")
  \/ /\ c = "query" /\ s = "read" /\ known /\ Arrived(t, "client", "DATA")
     /\ wire[t].ops = Operations(NoMap, disk) /\ wire[t].vals = disk
  \/ c = "apply" /\ s = "read" /\ known /\ wire[t] = None
  \/ /\ c = "wait" /\ s = "read" /\ known
     /\ \/ Arrived(t, "server", "NULL") \/ Arrived(t, "client", "NULL")
        \/ Arrived(t, "server", "DATA")
  \/ c = "wait" /\ s = "apply" /\ wire[t] = None
  \/ c = "write" /\ s = "read" /\ known /\ wire[t] = None

\* Confirmed connections, and what is left of closed ones.
SessionOK(t) ==
  /\ t \notin orphans => up[t] /\ Turns(t)
  /\ t \in orphans /\ up[t] => /\ cl[t].pc = "init" /\ wire[t] # None
                               /\ wire[t].head \in {"INIT", "FULL"}
  /\ wire[t] # None /\ wire[t].to = "server" /\ wire[t].head \notin {"INIT", "FULL"}
       => sy[t].pc = "read"
  /\ sy[t].pc = "apply" /\ wire[t] # None => wire[t].head \in {"INIT", "FULL"}

\* What terminal t sends is being written, on the wire, or being applied.
\* It is nowhere older than the server's copy.
Fresh(x) == \A f \in Files : x.ops[f] # "-" \/ disk[f].there => x.vals[f].v >= disk[f].v
FlightOK(t) ==
  /\ Arrived(t, "server", "DATA") => Fresh(wire[t])
  /\ sy[t].pc = "apply" => Fresh(sy[t])
  /\ cl[t].pc = "write" /\ t \notin orphans => Fresh(cl[t])

\* The home of a terminal that is synchronised is not older either ...
Changed(t, p) == Operations(cl[t].known, home[t])[p] # "-"
Covers(t, x) == \A f \in Files : x.vals[f].v <= home[t][f].v
HomeOK(t) ==
  Synced(t) =>
    /\ \A f \in Files : disk[f].there \/ Changed(t, f) => home[t][f].v >= disk[f].v
    /\ Arrived(t, "server", "DATA") => Covers(t, wire[t])
    /\ sy[t].pc = "apply" => Covers(t, sy[t])
    /\ cl[t].pc = "write" => Covers(t, cl[t])

\* ... nor will it be when the first download is applied.
DownloadOK(t) ==
  t \notin orphans /\ cl[t].pc = "apply" =>
    /\ cl[t].vals = disk
    /\ \A p \in Paths : cl[t].ops[p] \in {"-", "ADD"}
    /\ \A f \in Files : disk[f].there /\ cl[t].ops[f] # "ADD" => home[t][f].v >= disk[f].v

TerminalOK(t) == SessionOK(t) /\ FlightOK(t) /\ HomeOK(t) /\ DownloadOK(t)
Moves == Alone /\ \A t \in Terminals : TerminalOK(t)

-----------------------------------------------------------------------------
(* What a client takes for synchronised is on the server.                    *)

\* An entry e of the home that was not changed since it got into the map.
Current(e, known) == known = IF e.there THEN "same" ELSE "none"

\* What the client takes for synchronised is on the server, where the entry is
\* old, or under way with operation op.
FileSynced(e, known, op, val, old) ==
  /\ Current(e, known) => /\ op \in {"ADD", "MOD"} => val = e
                          /\ op = "DEL" => ~e.there
                          /\ op = "-" => Same(e, old)
  /\ known = "none" => op \notin {"ADD", "MOD"} /\ (op = "-" => ~old.there)
DirSynced(known, op, old) ==
  /\ op = "ADD" => known # "none"
  /\ op = "DEL" => known = "none"
  /\ op \in {"-", "MOD"} => (known # "none" <=> old.there)

\* A directory is only deleted after its files.
SyncedBy(dir, known, unsent, ops, vals, old) ==
  /\ \A f \in Files \ unsent : FileSynced(dir[f], known[f], ops[f], vals[f], old[f])
  /\ \A d \in Dirs \ unsent : DirSynced(known[d], ops[d], old[d])
  /\ \A f \in Files : ops[f] = "DEL" => ~vals[f].there
  /\ \A f \in Files : In[f] # Home /\ ops[In[f]] = "DEL" => known[f] = "none"

\* With what the client writes, sends or has sent ...
By(t, ops, vals) == SyncedBy(home[t], cl[t].known, local[t], ops, vals, disk)
SyncOK(t) ==
  Synced(t) =>
    /\ Arrived(t, "server", "DATA") => By(t, wire[t].ops, wire[t].vals)
    /\ sy[t].pc = "apply" => By(t, sy[t].ops, sy[t].vals)
    /\ cl[t].pc = "write" => By(t, cl[t].ops, cl[t].vals)
    /\ Arrived(t, "server", "NULL") \/ Arrived(t, "client", "NULL") => By(t, NoOps, Nothing)

-----------------------------------------------------------------------------
(* Operators on directories and file maps.                                   *)

LEMMA NoneOfPacks == None \notin Packs
  BY PacksAssumption

LEMMA PathFacts ==
  /\ Files \subseteq Paths /\ Dirs \subseteq Paths /\ Dirs \cap Files = {}
  /\ \A f \in Files : In[f] # Home => In[f] \in Dirs
  /\ \A f \in Files : In[f] \notin Files
  BY SyncAssumption DEF Paths

LEMMA EmptyTyped ==
  /\ NoMap \in Knowledge /\ NoOps \in OpMaps /\ Nothing \in Trees /\ Closed(Nothing)
  /\ Absent \in Entries
  BY PathFacts DEF NoMap, NoOps, Nothing, Knowledge, OpMaps, Trees, Entries, Absent, Closed

LEMMA NothingReal ==
  ASSUME NEW made \in [Files -> Nat]
  PROVE  Real(Nothing, made)
  BY EmptyTyped, PathFacts DEF Real, Nothing, Absent

LEMMA RealGrows ==
  ASSUME NEW dir, NEW made \in [Files -> Nat], NEW more \in [Files -> Nat],
         Real(dir, made), \A f \in Files : made[f] <= more[f]
  PROVE  Real(dir, more)
<1>1. ASSUME NEW f \in Files PROVE dir[f].v <= more[f]
  <2>1. dir[f] \in Entries
    BY PathFacts DEF Real, Trees
  <2>2. dir[f].v \in Nat /\ dir[f].v <= made[f] /\ made[f] <= more[f] /\ made[f] \in Nat
        /\ more[f] \in Nat
    BY <2>1 DEF Real, Entries
  <2> QED
    BY <2>2
<1> QED
  BY <1>1 DEF Real

LEMMA ScanTyped ==
  ASSUME NEW dir
  PROVE  Scan(dir) \in Knowledge
  BY DEF Scan, Knowledge

LEMMA OperationsTyped ==
  ASSUME NEW known, NEW dir
  PROVE  Operations(known, dir) \in OpMaps
<1>1. ASSUME NEW p \in Paths
      PROVE  (CASE dir[p].there /\ known[p] = "none" -> "ADD"
                [] dir[p].there /\ known[p] = "old"  -> "MOD"
                [] ~dir[p].there /\ known[p] # "none" -> "DEL"
                [] OTHER -> "-") \in {"-", "ADD", "MOD", "DEL"}
  OBVIOUS
<1> QED
  BY <1>1 DEF Operations, OpMaps

LEMMA MovedTyped ==
  ASSUME NEW known \in Knowledge, NEW from, NEW to
  PROVE  Moved(known, from, to) \in Knowledge
  BY DEF Moved, Knowledge

LEMMA TouchTyped ==
  ASSUME NEW known \in Knowledge, NEW p
  PROVE  Touch(known, p) \in Knowledge
  BY DEF Touch, Knowledge

\* A map that was just built differs in nothing.
LEMMA ScanIsCurrent ==
  ASSUME NEW dir \in Trees
  PROVE  Operations(Scan(dir), dir) = NoOps
<1>1. ASSUME NEW p \in Paths
      PROVE  Operations(Scan(dir), dir)[p] = "-"
  <2>1. dir[p].there \in BOOLEAN
    BY DEF Trees, Entries
  <2> QED
    BY <2>1 DEF Operations, Scan
<1> QED
  BY <1>1, OperationsTyped DEF NoOps, OpMaps, Operations

\* One entry of a stream, case by case.
LEMMA AppliedCases ==
  ASSUME NEW x, NEW dir, NEW p
  PROVE  /\ p \in Dirs /\ x.ops[p] = "ADD" => Applied(x, dir, p) = [dir EXCEPT ![p].there = TRUE]
         /\ p \in Dirs /\ x.ops[p] = "DEL" => Applied(x, dir, p) = Deleted(x, dir, p)
         /\ p \in Files /\ x.ops[p] \in {"ADD", "MOD"} =>
              Applied(x, dir, p) = [dir EXCEPT ![p] = x.vals[p]]
         /\ p \in Files /\ x.ops[p] = "DEL" =>
              Applied(x, dir, p) = IF dir[p].there THEN [dir EXCEPT ![p] = x.vals[p]] ELSE dir
         /\ ~(p \in Dirs /\ x.ops[p] \in {"ADD", "DEL"})
              /\ ~(p \in Files /\ x.ops[p] \in {"ADD", "MOD", "DEL"}) => Applied(x, dir, p) = dir
<1> DEFINE a == [dir EXCEPT ![p].there = TRUE]
           b == [dir EXCEPT ![p] = x.vals[p]]
<1>1. p \in Dirs => p \notin Files
  BY PathFacts
<1>2. Applied(x, dir, p) =
        CASE p \in Dirs /\ x.ops[p] = "ADD" -> a
          [] p \in Dirs /\ x.ops[p] = "DEL" -> Deleted(x, dir, p)
          [] p \in Files /\ x.ops[p] \in {"ADD", "MOD"} -> b
          [] p \in Files /\ x.ops[p] = "DEL" -> IF dir[p].there THEN b ELSE dir
          [] OTHER -> dir
  BY DEF Applied
<1> HIDE DEF a, b
<1>3. /\ p \in Dirs /\ x.ops[p] = "ADD" => Applied(x, dir, p) = a
      /\ p \in Dirs /\ x.ops[p] = "DEL" => Applied(x, dir, p) = Deleted(x, dir, p)
      /\ p \in Files /\ x.ops[p] \in {"ADD", "MOD"} => Applied(x, dir, p) = b
      /\ p \in Files /\ x.ops[p] = "DEL" => Applied(x, dir, p) = IF dir[p].there THEN b ELSE dir
      /\ ~(p \in Dirs /\ x.ops[p] \in {"ADD", "DEL"})
              /\ ~(p \in Files /\ x.ops[p] \in {"ADD", "MOD", "DEL"}) => Applied(x, dir, p) = dir
  BY <1>1, <1>2
<1> QED
  BY <1>3 DEF a, b

\* What one entry of a stream does to a file.
LEMMA AppliedFile ==
  ASSUME NEW x, x.ops \in OpMaps, x.vals \in Trees,
         NEW dir \in Trees, NEW p \in Paths, NEW f \in Files
  PROVE  \/ Applied(x, dir, p)[f] = dir[f]
         \/ /\ p = f /\ x.ops[f] # "-" /\ Applied(x, dir, p)[f] = x.vals[f]
         \/ /\ p \in Dirs /\ x.ops[p] = "DEL" /\ In[f] = p /\ dir[f].there
            /\ Applied(x, dir, p)[f] = [v |-> x.vals[f].v, there |-> FALSE]
<1>0. f \in Paths /\ f \notin Dirs /\ x.vals[f] \in Entries /\ dir[f] \in Entries
  BY PathFacts DEF Trees
<1>1. CASE p \in Dirs /\ x.ops[p] = "ADD"
  BY <1>0, <1>1, AppliedCases DEF Trees
<1>2. CASE p \in Dirs /\ x.ops[p] = "DEL"
  <2>1. Applied(x, dir, p) = Deleted(x, dir, p)
    BY <1>2, AppliedCases
  <2>2. f # p
    BY <1>0, <1>2
  <2>3. Applied(x, dir, p)[f] = IF In[f] = p /\ dir[f].there
                                THEN [v |-> x.vals[f].v, there |-> FALSE] ELSE dir[f]
    BY <1>0, <2>1, <2>2 DEF Deleted
  <2> QED
    BY <1>2, <2>3
<1>3. CASE p \in Files /\ x.ops[p] \in {"ADD", "MOD"}
  <2>1. Applied(x, dir, p) = [dir EXCEPT ![p] = x.vals[p]]
    BY <1>3, AppliedCases
  <2> QED
    BY <1>0, <1>3, <2>1 DEF Trees
<1>4. CASE p \in Files /\ x.ops[p] = "DEL"
  <2>1. Applied(x, dir, p) = IF dir[p].there THEN [dir EXCEPT ![p] = x.vals[p]] ELSE dir
    BY <1>4, AppliedCases
  <2> QED
    BY <1>0, <1>4, <2>1 DEF Trees
<1>5. CASE ~(p \in Dirs /\ x.ops[p] \in {"ADD", "DEL"})
           /\ ~(p \in Files /\ x.ops[p] \in {"ADD", "MOD", "DEL"})
  BY <1>5, AppliedCases
<1> QED
  BY <1>1, <1>2, <1>3, <1>4, <1>5

\* ... and to a directory.
LEMMA AppliedDir ==
  ASSUME NEW x, x.ops \in OpMaps, x.vals \in Trees,
         NEW dir \in Trees, NEW p \in Paths, NEW d \in Dirs
  PROVE  Applied(x, dir, p)[d] =
           IF p = d /\ x.ops[d] = "ADD" THEN [v |-> dir[d].v, there |-> TRUE]
           ELSE IF p = d /\ x.ops[d] = "DEL" THEN Absent ELSE dir[d]
<1>0. d \in Paths /\ d \notin Files /\ dir[d] \in Entries
  BY PathFacts DEF Trees
<1>1. CASE p \in Dirs /\ x.ops[p] = "ADD"
  <2>1. Applied(x, dir, p) = [dir EXCEPT ![p].there = TRUE]
    BY <1>1, AppliedCases
  <2> QED
    BY <1>0, <1>1, <2>1 DEF Trees, Entries
<1>2. CASE p \in Dirs /\ x.ops[p] = "DEL"
  <2>1. Applied(x, dir, p) = Deleted(x, dir, p)
    BY <1>2, AppliedCases
  <2> QED
    BY <1>0, <1>2, <2>1, PathFacts DEF Deleted
<1>3. CASE p \in Files /\ x.ops[p] \in {"ADD", "MOD"}
  <2>1. Applied(x, dir, p) = [dir EXCEPT ![p] = x.vals[p]]
    BY <1>3, AppliedCases
  <2> QED
    BY <1>0, <1>3, <2>1 DEF Trees
<1>4. CASE p \in Files /\ x.ops[p] = "DEL"
  <2>1. Applied(x, dir, p) = IF dir[p].there THEN [dir EXCEPT ![p] = x.vals[p]] ELSE dir
    BY <1>4, AppliedCases
  <2> QED
    BY <1>0, <1>4, <2>1 DEF Trees
<1>5. CASE ~(p \in Dirs /\ x.ops[p] \in {"ADD", "DEL"})
           /\ ~(p \in Files /\ x.ops[p] \in {"ADD", "MOD", "DEL"})
  BY <1>0, <1>5, AppliedCases
<1> QED
  BY <1>1, <1>2, <1>3, <1>4, <1>5

LEMMA AppliedTyped ==
  ASSUME NEW x, x.ops \in OpMaps, x.vals \in Trees,
         NEW dir \in Trees, NEW p \in Paths
  PROVE  Applied(x, dir, p) \in Trees
<1>1. Applied(x, dir, p) = [q \in Paths |-> Applied(x, dir, p)[q]]
  <2>1. Deleted(x, dir, p) = [q \in Paths |-> Deleted(x, dir, p)[q]]
    BY DEF Deleted
  <2> QED
    BY <2>1, AppliedCases DEF Trees
<1>2. ASSUME NEW q \in Paths PROVE Applied(x, dir, p)[q] \in Entries
  <2>1. x.vals[q] \in Entries /\ dir[q] \in Entries /\ Absent \in Entries
    BY EmptyTyped DEF Trees
  <2>2. CASE q \in Files
    <3>1. \/ Applied(x, dir, p)[q] \in {dir[q], x.vals[q]}
          \/ Applied(x, dir, p)[q] = [v |-> x.vals[q].v, there |-> FALSE]
      BY <2>2, AppliedFile
    <3>2. x.vals[q].v \in Nat
      BY <2>1 DEF Entries
    <3>3. [v |-> x.vals[q].v, there |-> FALSE] \in Entries
      BY <3>2 DEF Entries
    <3> QED
      BY <2>1, <3>1, <3>3
  <2>3. CASE q \in Dirs
    <3>1. \/ Applied(x, dir, p)[q] \in {dir[q], Absent}
          \/ Applied(x, dir, p)[q] = [v |-> dir[q].v, there |-> TRUE]
      BY <2>3, AppliedDir
    <3>2. dir[q].v \in Nat
      BY <2>1 DEF Entries
    <3>3. [v |-> dir[q].v, there |-> TRUE] \in Entries
      BY <3>2 DEF Entries
    <3> QED
      BY <2>1, <3>1, <3>3
  <2> QED
    BY <2>2, <2>3 DEF Paths
<1> QED
  BY <1>1, <1>2 DEF Trees

\* In whatever order a stream is applied, files are in directories.
LEMMA AppliedReal ==
  ASSUME NEW x, x.ops \in OpMaps, NEW made, Real(x.vals, made),
         NEW dir, Real(dir, made), Closed(dir), NEW p \in Paths, ~Throws(x, dir, p)
  PROVE  Real(Applied(x, dir, p), made) /\ Closed(Applied(x, dir, p))
<1> DEFINE new == Applied(x, dir, p)
<1>0. x.vals \in Trees /\ dir \in Trees /\ new \in Trees
  BY AppliedTyped DEF Real
<1>1. ASSUME NEW f \in Files PROVE new[f].v <= made[f]
  <2>1. new[f].v \in {dir[f].v, x.vals[f].v}
    <3>1. \/ new[f] \in {dir[f], x.vals[f]}
          \/ new[f] = [v |-> x.vals[f].v, there |-> FALSE]
      BY <1>0, AppliedFile
    <3> QED
      BY <3>1
  <2> QED
    BY <2>1 DEF Real
<1>2. ASSUME NEW d \in Dirs PROVE new[d].v = 0
  <2>1. new[d] \in {dir[d], Absent} \/ new[d] = [v |-> dir[d].v, there |-> TRUE]
    BY <1>0, AppliedDir
  <2> QED
    BY <2>1 DEF Real, Absent
<1>3. ASSUME NEW f \in Files, new[f].there, In[f] # Home PROVE new[In[f]].there
  <2>0. In[f] \in Dirs /\ In[f] \notin Files /\ f \notin Dirs
    BY <1>3, PathFacts
  <2>1. new[In[f]] = IF p = In[f] /\ x.ops[In[f]] = "ADD"
                       THEN [v |-> dir[In[f]].v, there |-> TRUE]
                     ELSE IF p = In[f] /\ x.ops[In[f]] = "DEL" THEN Absent ELSE dir[In[f]]
    BY <1>0, <2>0, AppliedDir
  <2>2. CASE new[f] = dir[f]
    <3>1. dir[In[f]].there
      BY <1>3, <2>2 DEF Closed
    <3>2. CASE p = In[f] /\ x.ops[p] = "DEL"
      <4>1. dir[f].there /\ f # p /\ f \in Paths /\ p \in Dirs /\ x.vals[f] \in Entries
        BY <1>0, <1>3, <2>0, <2>2, <3>2, PathFacts DEF Trees
      <4>2. new[f] = [v |-> x.vals[f].v, there |-> FALSE]
        <5>1. new = Deleted(x, dir, p)
          BY <3>2, <4>1, AppliedCases
        <5> HIDE DEF new
        <5> QED
          BY <3>2, <4>1, <5>1 DEF Deleted
      <4> QED
        BY <1>3, <4>1, <4>2 DEF Entries
    <3> QED
      BY <2>1, <3>1, <3>2
  <2>3. CASE p = f /\ x.ops[f] # "-" /\ new[f] = x.vals[f]
    <3>1. new[In[f]] = dir[In[f]]
      BY <2>0, <2>1, <2>3
    <3>2. CASE x.ops[f] \in {"ADD", "MOD"}
      BY <1>3, <2>3, <3>1, <3>2 DEF Throws
    <3>3. CASE x.ops[f] = "DEL"
      <4>1. CASE dir[f].there
        BY <1>3, <3>1, <4>1 DEF Closed
      <4>2. CASE ~dir[f].there
        <5>1. new = dir
          BY <2>0, <2>3, <3>3, <4>2, AppliedCases
        <5> QED
          BY <1>3, <4>2, <5>1
      <4> QED
        BY <4>1, <4>2
    <3> QED
      <4>1. x.ops[f] \in {"-", "ADD", "MOD", "DEL"}
        BY PathFacts DEF OpMaps
      <4> QED
        BY <2>3, <3>2, <3>3, <4>1
  <2>4. CASE new[f] = [v |-> x.vals[f].v, there |-> FALSE]
    BY <1>3, <2>4
  <2> HIDE DEF new
  <2>5. \/ new[f] = dir[f]
        \/ p = f /\ x.ops[f] # "-" /\ new[f] = x.vals[f]
        \/ new[f] = [v |-> x.vals[f].v, there |-> FALSE]
    BY <1>0, AppliedFile DEF new
  <2> QED
    BY <2>2, <2>3, <2>4, <2>5
<1> QED
  BY <1>0, <1>1, <1>2, <1>3 DEF Real, Closed
-----------------------------------------------------------------------------
(* The types are kept.                                                       *)

ClStates == {"off", "connect", "init", "query", "wait", "apply", "write"}
SyStates == {"none", "read", "apply", "dead", "hung"}

\* Clients and syncers, field by field.
LEMMA ClientFields ==
  ASSUME NEW x
  PROVE  /\ x \in Clients => /\ x.pc \in ClStates /\ x.known \in Knowledge
                             /\ x.ops \in OpMaps /\ x.vals \in Trees
         /\ x \in Syncers => /\ x.pc \in SyStates /\ x.known \in Knowledge
                             /\ x.ops \in OpMaps /\ x.vals \in Trees
         /\ x \in Packs => /\ x.to \in {"client", "server"} /\ x.ops \in OpMaps
                           /\ x.vals \in Trees
  BY DEF Clients, Syncers, Parties, Packs, ClStates, SyStates, Knowledge, OpMaps

LEMMA ClientBuilt ==
  ASSUME NEW pc, NEW known \in Knowledge, NEW ops \in OpMaps, NEW vals \in Trees
  PROVE  /\ pc \in ClStates => [pc |-> pc, known |-> known, ops |-> ops, vals |-> vals] \in Clients
         /\ pc \in SyStates => [pc |-> pc, known |-> known, ops |-> ops, vals |-> vals] \in Syncers
  BY DEF Clients, Syncers, Parties, ClStates, SyStates, Knowledge, OpMaps

LEMMA PartyTyped ==
  ASSUME NEW pc
  PROVE  /\ pc \in ClStates => Party(pc) \in Clients
         /\ pc \in SyStates => Party(pc) \in Syncers
         /\ Party(pc).vals = Nothing /\ Party(pc).pc = pc /\ Party(pc).known = NoMap
         /\ Party(pc).ops = NoOps
<1> DEFINE r == [pc |-> pc, known |-> NoMap, ops |-> NoOps, vals |-> Nothing]
<1>1. pc \in ClStates => r \in Clients
  BY ClientBuilt, EmptyTyped
<1>2. pc \in SyStates => r \in Syncers
  BY ClientBuilt, EmptyTyped
<1> QED
  BY <1>1, <1>2 DEF Party

LEMMA MessageTyped ==
  ASSUME NEW to \in {"client", "server"},
         NEW head \in {"INIT", "CONFIRM", "FULL", "QUERY", "NULL", "JUNK"}
  PROVE  /\ Message(to, head) \in Packs
         /\ Message(to, head).to = to /\ Message(to, head).head = head
         /\ Message(to, head).vals = Nothing
<1>1. [to |-> to, head |-> head, ops |-> NoOps, vals |-> Nothing] \in Packs
  BY EmptyTyped DEF Packs, OpMaps
<1> QED
  BY <1>1 DEF Message

LEMMA DataTyped ==
  ASSUME NEW to \in {"client", "server"}, NEW x, x.ops \in OpMaps, x.vals \in Trees
  PROVE  /\ Data(to, x) \in Packs
         /\ Data(to, x).to = to /\ Data(to, x).head = "DATA"
         /\ Data(to, x).ops = x.ops /\ Data(to, x).vals = x.vals
<1>1. [to |-> to, head |-> "DATA", ops |-> x.ops, vals |-> x.vals] \in Packs
  BY DEF Packs, OpMaps
<1> QED
  BY <1>1 DEF Data

\* What a step leaves alone keeps its type.
LEMMA FrameTyped ==
  ASSUME WellTyped, UNCHANGED newest
  PROVE  /\ UNCHANGED home => HomeTyped'
         /\ UNCHANGED disk => DiskTyped'
         /\ UNCHANGED cl => ClTyped'
         /\ UNCHANGED sy => SyTyped'
         /\ UNCHANGED wire => WireTyped'
         /\ UNCHANGED <<up, orphans, local>> => RestTyped'
<1>1. UNCHANGED home => HomeTyped'
  BY DEF WellTyped, HomeTyped
<1>2. UNCHANGED disk => DiskTyped'
  BY DEF WellTyped, DiskTyped
<1>3. UNCHANGED cl => ClTyped'
  BY DEF WellTyped, ClTyped
<1>4. UNCHANGED sy => SyTyped'
  BY DEF WellTyped, SyTyped
<1>5. UNCHANGED wire => WireTyped'
  BY DEF WellTyped, WireTyped
<1>6. UNCHANGED <<up, orphans, local>> => RestTyped'
  BY DEF WellTyped, RestTyped
<1> QED
  BY <1>1, <1>2, <1>3, <1>4, <1>5, <1>6

LEMMA ClSet ==
  ASSUME WellTyped, UNCHANGED newest, NEW t \in Terminals, NEW x \in Clients,
         Real(x.vals, newest), SetCl(t, x)
  PROVE  ClTyped' /\ cl'[t] = x /\ \A s \in Terminals \ {t} : cl'[s] = cl[s]
<1>1. cl' = [cl EXCEPT ![t] = x] /\ cl \in [Terminals -> Clients]
  BY DEF SetCl, WellTyped, ClTyped
<1>2. cl'[t] = x /\ \A s \in Terminals \ {t} : cl'[s] = cl[s]
  BY <1>1
<1>3. cl' \in [Terminals -> Clients]
  BY <1>1
<1> QED
  BY <1>2, <1>3 DEF WellTyped, ClTyped

LEMMA SySet ==
  ASSUME WellTyped, UNCHANGED newest, NEW t \in Terminals, NEW x \in Syncers,
         Real(x.vals, newest), SetSy(t, x)
  PROVE  SyTyped' /\ sy'[t] = x /\ \A s \in Terminals \ {t} : sy'[s] = sy[s]
<1>1. sy' = [sy EXCEPT ![t] = x] /\ sy \in [Terminals -> Syncers]
  BY DEF SetSy, WellTyped, SyTyped
<1>2. sy'[t] = x /\ \A s \in Terminals \ {t} : sy'[s] = sy[s]
  BY <1>1
<1>3. sy' \in [Terminals -> Syncers]
  BY <1>1
<1> QED
  BY <1>2, <1>3 DEF WellTyped, SyTyped

LEMMA WireSet ==
  ASSUME WellTyped, UNCHANGED newest, NEW t \in Terminals, NEW m \in Packs \cup {None},
         m # None => Real(m.vals, newest), wire' = [wire EXCEPT ![t] = m]
  PROVE  WireTyped' /\ wire'[t] = m /\ \A s \in Terminals \ {t} : wire'[s] = wire[s]
<1>1. wire \in [Terminals -> Packs \cup {None}]
  BY DEF WellTyped, WireTyped
<1>2. wire'[t] = m /\ \A s \in Terminals \ {t} : wire'[s] = wire[s]
  BY <1>1
<1>3. wire' \in [Terminals -> Packs \cup {None}]
  BY <1>1
<1> QED
  BY <1>2, <1>3 DEF WellTyped, WireTyped

LEMMA SendSet ==
  ASSUME WellTyped, UNCHANGED newest, NEW t \in Terminals, NEW m \in Packs,
         Real(m.vals, newest), Send(t, m)
  PROVE  /\ WireTyped' /\ wire'[t] = (IF up[t] THEN m ELSE None)
         /\ \A s \in Terminals \ {t} : wire'[s] = wire[s]
<1> DEFINE k == IF up[t] THEN m ELSE None
<1>1. k \in Packs \cup {None} /\ (k # None => Real(k.vals, newest))
  OBVIOUS
<1>2. wire' = [wire EXCEPT ![t] = k]
  BY DEF Send
<1> HIDE DEF k
<1>3. WireTyped' /\ wire'[t] = k /\ \A s \in Terminals \ {t} : wire'[s] = wire[s]
  BY <1>1, <1>2, WireSet
<1> QED
  BY <1>3 DEF k

LEMMA CloseTyped ==
  ASSUME WellTyped, UNCHANGED <<newest, local>>, NEW t \in Terminals, Close(t)
  PROVE  /\ RestTyped' /\ ~up'[t] /\ orphans' = orphans \cup {t}
         /\ \A s \in Terminals \ {t} : up'[s] = up[s]
  BY DEF WellTyped, RestTyped, Close

\* The parts of the state of one terminal, and their types.
LEMMA TypedParts ==
  ASSUME WellTyped, NEW t \in Terminals
  PROVE  /\ cl[t] \in Clients /\ cl[t].known \in Knowledge /\ cl[t].ops \in OpMaps
         /\ cl[t].vals \in Trees /\ Real(cl[t].vals, newest) /\ cl[t].pc \in ClStates
         /\ sy[t] \in Syncers /\ sy[t].known \in Knowledge /\ sy[t].ops \in OpMaps
         /\ sy[t].vals \in Trees /\ Real(sy[t].vals, newest) /\ sy[t].pc \in SyStates
         /\ wire[t] # None => /\ wire[t] \in Packs /\ Real(wire[t].vals, newest)
                              /\ wire[t].ops \in OpMaps /\ wire[t].vals \in Trees
                              /\ wire[t].to \in {"client", "server"}
         /\ home[t] \in Trees /\ Real(home[t], newest) /\ Closed(home[t])
         /\ disk \in Trees /\ Real(disk, newest) /\ Closed(disk)
         /\ Real(Nothing, newest) /\ newest \in [Files -> Nat] /\ up[t] \in BOOLEAN
<1>1. cl[t] \in Clients /\ Real(cl[t].vals, newest)
  BY DEF WellTyped, ClTyped
<1>2. sy[t] \in Syncers /\ Real(sy[t].vals, newest)
  BY DEF WellTyped, SyTyped
<1>3. wire[t] # None => wire[t] \in Packs /\ Real(wire[t].vals, newest)
  BY DEF WellTyped, WireTyped
<1>4. home[t] \in Trees /\ Real(home[t], newest) /\ Closed(home[t])
  BY DEF WellTyped, HomeTyped
<1>5. disk \in Trees /\ Real(disk, newest) /\ Closed(disk)
  BY DEF WellTyped, DiskTyped, Real
<1>6. newest \in [Files -> Nat] /\ up[t] \in BOOLEAN
  BY DEF WellTyped, RestTyped
<1>7. Real(Nothing, newest)
  BY <1>6, NothingReal
<1> QED
  BY <1>1, <1>2, <1>3, <1>4, <1>5, <1>6, <1>7, ClientFields

\* A client or a syncer changes some of its fields.
LEMMA ClientUpdate ==
  ASSUME NEW x \in Clients
  PROVE  /\ \A pc \in ClStates : [x EXCEPT !.pc = pc] \in Clients
         /\ \A pc \in ClStates : \A ops \in OpMaps : \A vals \in Trees :
              [x EXCEPT !.pc = pc, !.ops = ops, !.vals = vals] \in Clients
         /\ \A pc \in ClStates : \A ops \in OpMaps : \A vals \in Trees : \A known \in Knowledge :
              [x EXCEPT !.pc = pc, !.ops = ops, !.vals = vals, !.known = known] \in Clients
         /\ \A known \in Knowledge : [x EXCEPT !.known = known] \in Clients
         /\ \A pc \in ClStates : [Keeps(x) EXCEPT !.pc = pc] \in Clients
         /\ \A pc \in ClStates : \A known \in Knowledge :
              [Keeps(x) EXCEPT !.pc = pc, !.known = known] \in Clients
         /\ \A p \in Paths : \A known \in Knowledge :
              [Done(x, p) EXCEPT !.known = known] \in Clients
  BY EmptyTyped DEF Clients, Parties, Keeps, Done, ClStates, Knowledge, OpMaps

LEMMA SyncerUpdate ==
  ASSUME NEW x \in Syncers
  PROVE  /\ \A pc \in SyStates : \A ops \in OpMaps : \A vals \in Trees :
              [x EXCEPT !.pc = pc, !.ops = ops, !.vals = vals] \in Syncers
         /\ \A known \in Knowledge : [x EXCEPT !.known = known] \in Syncers
         /\ \A pc \in SyStates : \A known \in Knowledge :
              [Keeps(x) EXCEPT !.pc = pc, !.known = known] \in Syncers
         /\ \A p \in Paths : \A known \in Knowledge :
              [Done(x, p) EXCEPT !.known = known] \in Syncers
  BY EmptyTyped DEF Syncers, Parties, Keeps, Done, SyStates, Knowledge, OpMaps
LEMMA PcFields ==
  ASSUME NEW x \in Clients, NEW pc
  PROVE  /\ LET y == [x EXCEPT !.pc = pc]
            IN  y.pc = pc /\ y.known = x.known /\ y.ops = x.ops /\ y.vals = x.vals
         /\ LET y == [Keeps(x) EXCEPT !.pc = pc]
            IN  y.pc = pc /\ y.known = x.known /\ y.ops = NoOps /\ y.vals = Nothing
  BY DEF Clients, Parties, Keeps

-----------------------------------------------------------------------------
(* What each action does to its terminal; the others are left alone.         *)

Others(t) ==
  \A s \in Terminals \ {t} :
    /\ home'[s] = home[s] /\ cl'[s] = cl[s] /\ up'[s] = up[s]
    /\ sy'[s] = sy[s] \/ (sy'[s].pc = "none" /\ sy[s].pc = "none")
    /\ s \in orphans' <=> s \in orphans
    /\ wire'[s] = wire[s] /\ local'[s] = local[s]

LEMMA StartEffect ==
  ASSUME WellTyped, NEW t \in Terminals, Start(t)
  PROVE  /\ WellTyped' /\ Others(t) /\ cl[t].pc = "off" /\ cl'[t].pc = "connect"
         /\ UNCHANGED <<home, sy, disk, up, orphans, wire, newest, local>>
<1>1. UNCHANGED <<home, sy, disk, up, orphans, wire, newest, local>>
  BY DEF Start
<1>2. Party("connect") \in Clients /\ Real(Party("connect").vals, newest)
  BY PartyTyped, TypedParts DEF ClStates
<1>3. SetCl(t, Party("connect")) /\ cl[t].pc = "off"
  BY DEF Start
<1>4. ClTyped' /\ cl'[t] = Party("connect") /\ \A s \in Terminals \ {t} : cl'[s] = cl[s]
  BY <1>1, <1>2, <1>3, ClSet
<1>5. WellTyped'
  BY <1>1, <1>4, FrameTyped DEF WellTyped
<1> QED
  BY <1>1, <1>3, <1>4, <1>5, PartyTyped DEF Others

LEMMA ConnectEffect ==
  ASSUME WellTyped, NEW t \in Terminals, Connect(t)
  PROVE  /\ WellTyped' /\ Others(t) /\ cl[t].pc = "connect" /\ wire[t] = None
         /\ cl'[t].pc = "init" /\ up'[t] = TRUE
         /\ wire'[t] = Message("server", "INIT")
         /\ UNCHANGED <<home, sy, disk, orphans, newest, local>>
<1>1. UNCHANGED <<home, sy, disk, orphans, newest, local>>
  BY DEF Connect
<1> DEFINE x == [cl[t] EXCEPT !.pc = "init"]
<1>2. x \in Clients /\ x.vals = cl[t].vals /\ x.pc = "init"
  <2>1. cl[t] \in Clients /\ "init" \in ClStates
    BY TypedParts DEF ClStates
  <2> QED
    BY <2>1, ClientUpdate, PcFields
<1>3. SetCl(t, x) /\ cl[t].pc = "connect" /\ wire[t] = None
  BY DEF Connect
<1> HIDE DEF x
<1>4. ClTyped' /\ cl'[t] = x /\ \A s \in Terminals \ {t} : cl'[s] = cl[s]
  BY <1>1, <1>2, <1>3, ClSet, TypedParts
<1>5. wire' = [wire EXCEPT ![t] = Message("server", "INIT")]
  BY DEF Connect
<1>6. Message("server", "INIT") \in Packs /\ Real(Message("server", "INIT").vals, newest)
  BY MessageTyped, TypedParts
<1>7. /\ WireTyped' /\ wire'[t] = Message("server", "INIT")
      /\ \A s \in Terminals \ {t} : wire'[s] = wire[s]
  BY <1>1, <1>5, <1>6, WireSet
<1>8. RestTyped' /\ up'[t] = TRUE /\ \A s \in Terminals \ {t} : up'[s] = up[s]
  BY DEF Connect, WellTyped, RestTyped
<1>9. WellTyped'
  BY <1>1, <1>4, <1>7, <1>8, FrameTyped DEF WellTyped
<1> QED
  BY <1>1, <1>2, <1>3, <1>4, <1>7, <1>8, <1>9 DEF Others

LEMMA AbortEffect ==
  ASSUME WellTyped, NEW t \in Terminals, Abort(t)
  PROVE  /\ WellTyped' /\ Others(t) /\ cl[t].pc = "connect" /\ cl'[t].pc = "off"
         /\ UNCHANGED <<home, sy, disk, up, orphans, wire, newest, local>>
<1>1. UNCHANGED <<home, sy, disk, up, orphans, wire, newest, local>>
  BY DEF Abort
<1>2. Party("off") \in Clients /\ Real(Party("off").vals, newest)
  BY PartyTyped, TypedParts DEF ClStates
<1>3. SetCl(t, Party("off")) /\ cl[t].pc = "connect"
  BY DEF Abort
<1>4. ClTyped' /\ cl'[t] = Party("off") /\ \A s \in Terminals \ {t} : cl'[s] = cl[s]
  BY <1>1, <1>2, <1>3, ClSet
<1>5. WellTyped'
  BY <1>1, <1>4, FrameTyped DEF WellTyped
<1> QED
  BY <1>1, <1>3, <1>4, <1>5, PartyTyped DEF Others

LEMMA ClientReplyEffect ==
  ASSUME WellTyped, NEW t \in Terminals, ClientReply(t)
  PROVE  /\ WellTyped' /\ Others(t) /\ cl[t].pc = "init" /\ up[t]
         /\ UNCHANGED <<home, sy, disk, newest, local>>
         /\ \/ /\ Arrived(t, "client", "CONFIRM") /\ cl'[t].pc = "query"
               /\ wire'[t] = Message("server", "QUERY") /\ UNCHANGED <<up, orphans>>
            \/ /\ Arrived(t, "client", "FULL") /\ cl'[t].pc = "off"
               /\ wire'[t] = None /\ ~up'[t] /\ orphans' = orphans \cup {t}
<1>1. UNCHANGED <<home, sy, disk, newest, local>> /\ cl[t].pc = "init" /\ up[t]
  BY DEF ClientReply
<1>2. CASE Arrived(t, "client", "CONFIRM") /\ SetCl(t, [cl[t] EXCEPT !.pc = "query"])
           /\ Send(t, Message("server", "QUERY")) /\ UNCHANGED <<up, orphans>>
  <2> DEFINE x == [cl[t] EXCEPT !.pc = "query"]
  <2>1. x \in Clients /\ x.vals = cl[t].vals /\ x.pc = "query"
    <3>1. cl[t] \in Clients /\ "query" \in ClStates
      BY TypedParts DEF ClStates
    <3> QED
      BY <3>1, ClientUpdate, PcFields
  <2>2. SetCl(t, x)
    BY <1>2
  <2> HIDE DEF x
  <2>3. ClTyped' /\ cl'[t] = x /\ \A s \in Terminals \ {t} : cl'[s] = cl[s]
    BY <1>1, <2>1, <2>2, ClSet, TypedParts
  <2>4. Message("server", "QUERY") \in Packs /\ Real(Message("server", "QUERY").vals, newest)
    BY MessageTyped, TypedParts
  <2>5. /\ WireTyped' /\ wire'[t] = Message("server", "QUERY")
        /\ \A s \in Terminals \ {t} : wire'[s] = wire[s]
    BY <1>1, <1>2, <2>4, SendSet
  <2>6. WellTyped'
    BY <1>1, <1>2, <2>3, <2>5, FrameTyped DEF WellTyped
  <2> QED
    BY <1>1, <1>2, <2>1, <2>3, <2>5, <2>6 DEF Others
<1>3. CASE Arrived(t, "client", "FULL") /\ SetCl(t, Party("off"))
           /\ wire' = [wire EXCEPT ![t] = None] /\ Close(t)
  <2>1. Party("off") \in Clients /\ Real(Party("off").vals, newest)
    BY PartyTyped, TypedParts DEF ClStates
  <2>2. ClTyped' /\ cl'[t] = Party("off") /\ \A s \in Terminals \ {t} : cl'[s] = cl[s]
    BY <1>1, <1>3, <2>1, ClSet
  <2>3. WireTyped' /\ wire'[t] = None /\ \A s \in Terminals \ {t} : wire'[s] = wire[s]
    BY <1>1, <1>3, WireSet
  <2>4. /\ RestTyped' /\ ~up'[t] /\ orphans' = orphans \cup {t}
        /\ \A s \in Terminals \ {t} : up'[s] = up[s]
    BY <1>1, <1>3, CloseTyped
  <2>5. WellTyped'
    BY <1>1, <2>2, <2>3, <2>4, FrameTyped DEF WellTyped
  <2> QED
    BY <1>1, <1>3, <2>2, <2>3, <2>4, <2>5, PartyTyped DEF Others
<1> QED
  BY <1>2, <1>3 DEF ClientReply

LEMMA ClientDataEffect ==
  ASSUME WellTyped, NEW t \in Terminals, ClientData(t)
  PROVE  /\ WellTyped' /\ Others(t)
         /\ cl[t].pc \in {"query", "wait"} /\ Arrived(t, "client", "DATA")
         /\ cl'[t].pc = "apply" /\ cl'[t].ops = wire[t].ops /\ cl'[t].vals = wire[t].vals
         /\ wire'[t] = None
         /\ UNCHANGED <<home, sy, disk, up, orphans, newest, local>>
<1>1. /\ UNCHANGED <<home, sy, disk, up, orphans, newest, local>>
      /\ cl[t].pc \in {"query", "wait"} /\ Arrived(t, "client", "DATA")
  BY DEF ClientData
<1> DEFINE x == [cl[t] EXCEPT !.pc = "apply", !.ops = wire[t].ops, !.vals = wire[t].vals]
<1>2. wire[t].ops \in OpMaps /\ wire[t].vals \in Trees /\ Real(wire[t].vals, newest)
  BY <1>1, TypedParts DEF Arrived
<1>3. cl[t] \in Clients
  BY TypedParts
<1>4. /\ x \in Clients /\ x.vals = wire[t].vals /\ x.ops = wire[t].ops /\ x.pc = "apply"
  <2>1. x \in Clients
    BY <1>2, <1>3, ClientUpdate DEF ClStates
  <2> QED
    BY <1>3, <2>1 DEF Clients, Parties
<1>5. SetCl(t, x) /\ wire' = [wire EXCEPT ![t] = None]
  BY DEF ClientData
<1> HIDE DEF x
<1>6. ClTyped' /\ cl'[t] = x /\ \A s \in Terminals \ {t} : cl'[s] = cl[s]
  BY <1>1, <1>2, <1>4, <1>5, ClSet
<1>7. WireTyped' /\ wire'[t] = None /\ \A s \in Terminals \ {t} : wire'[s] = wire[s]
  BY <1>1, <1>5, WireSet
<1>8. WellTyped'
  BY <1>1, <1>6, <1>7, FrameTyped DEF WellTyped
<1> QED
  BY <1>1, <1>4, <1>6, <1>7, <1>8 DEF Others

\* A client gives up its connection.
LEMMA ReconnectEffect ==
  ASSUME WellTyped, NEW t \in Terminals, UNCHANGED newest, Reconnect(t)
  PROVE  ClTyped' /\ cl'[t].pc = "connect" /\ \A s \in Terminals \ {t} : cl'[s] = cl[s]
<1> DEFINE x == [Keeps(cl[t]) EXCEPT !.pc = "connect"]
<1>1. x \in Clients /\ x.vals = Nothing /\ x.pc = "connect"
  <2>1. cl[t] \in Clients /\ "connect" \in ClStates
    BY TypedParts DEF ClStates
  <2> QED
    BY <2>1, ClientUpdate, PcFields
<1>2. SetCl(t, x)
  BY DEF Reconnect
<1> HIDE DEF x
<1> QED
  BY <1>1, <1>2, ClSet, TypedParts

\* The fields of a client that has applied one entry.
LEMMA DoneFields ==
  ASSUME NEW x, x \in Clients \/ x \in Syncers, NEW p \in Paths, NEW known
  PROVE  LET y == [Done(x, p) EXCEPT !.known = known]
         IN  /\ y.pc = x.pc /\ y.known = known /\ y.vals = x.vals
             /\ y.ops = [x.ops EXCEPT ![p] = "-"]
  BY DEF Clients, Syncers, Parties, Done

LEMMA ClientApplyEffect ==
  ASSUME WellTyped, NEW t \in Terminals, NEW p \in Paths, ClientApply(t, p)
  PROVE  /\ WellTyped' /\ Others(t) /\ cl[t].pc = "apply" /\ Ready(cl[t], p)
         /\ UNCHANGED <<sy, disk, wire, newest, local>>
         /\ \/ cl'[t].pc = "connect" /\ ~up'[t] /\ orphans' = orphans \cup {t}
            \/ /\ cl'[t].pc = "apply" /\ cl'[t].ops = [cl[t].ops EXCEPT ![p] = "-"]
               /\ cl'[t].vals = cl[t].vals
               /\ home'[t] = Applied(cl[t], home[t], p)
               /\ UNCHANGED <<up, orphans>>
<1>1. UNCHANGED <<sy, disk, wire, newest, local>> /\ cl[t].pc = "apply" /\ Ready(cl[t], p)
  BY DEF ClientApply
<1>2. CASE Throws(cl[t], home[t], p)
  <2>1. Reconnect(t) /\ Close(t) /\ UNCHANGED home
    BY <1>2 DEF ClientApply
  <2>2. ClTyped' /\ cl'[t].pc = "connect" /\ \A s \in Terminals \ {t} : cl'[s] = cl[s]
    BY <1>1, <2>1, ReconnectEffect
  <2>3. /\ RestTyped' /\ ~up'[t] /\ orphans' = orphans \cup {t}
        /\ \A s \in Terminals \ {t} : up'[s] = up[s]
    BY <1>1, <2>1, CloseTyped
  <2>4. WellTyped'
    BY <1>1, <2>1, <2>2, <2>3, FrameTyped DEF WellTyped
  <2> QED
    BY <1>1, <2>1, <2>2, <2>3, <2>4 DEF Others
<1>3. CASE ~Throws(cl[t], home[t], p)
  <2> DEFINE x == [Done(cl[t], p) EXCEPT !.known = Touch(cl[t].known, p)]
  <2>1. /\ home' = [home EXCEPT ![t] = Applied(cl[t], home[t], p)]
        /\ SetCl(t, x) /\ UNCHANGED <<up, orphans>>
    <3>1. SetCl(t, [Done(cl[t], p) EXCEPT !.known = Touch(@, p)])
      BY <1>3 DEF ClientApply
    <3>2. Done(cl[t], p).known = cl[t].known
      BY TypedParts DEF Done, Clients, Parties
    <3> QED
      BY <1>3, <3>1, <3>2 DEF ClientApply
  <2>2. /\ x \in Clients /\ x.pc = "apply" /\ x.ops = [cl[t].ops EXCEPT ![p] = "-"]
        /\ x.vals = cl[t].vals
    <3>1. cl[t] \in Clients /\ Touch(cl[t].known, p) \in Knowledge
      BY TypedParts, TouchTyped
    <3>2. x \in Clients
      BY <3>1, ClientUpdate
    <3> QED
      BY <1>1, <3>1, <3>2, DoneFields
  <2> HIDE DEF x
  <2>3. ClTyped' /\ cl'[t] = x /\ \A s \in Terminals \ {t} : cl'[s] = cl[s]
    BY <1>1, <2>1, <2>2, ClSet, TypedParts
  <2>4. Real(Applied(cl[t], home[t], p), newest) /\ Closed(Applied(cl[t], home[t], p))
    BY <1>3, TypedParts, AppliedReal
  <2>5. /\ HomeTyped' /\ home'[t] = Applied(cl[t], home[t], p)
        /\ \A s \in Terminals \ {t} : home'[s] = home[s]
    <3>1. home \in [Terminals -> Trees] /\ Applied(cl[t], home[t], p) \in Trees
      BY <2>4 DEF WellTyped, HomeTyped, Real
    <3>2. /\ home'[t] = Applied(cl[t], home[t], p) /\ home' \in [Terminals -> Trees]
          /\ \A s \in Terminals \ {t} : home'[s] = home[s]
      BY <2>1, <3>1
    <3> QED
      BY <1>1, <2>4, <3>2 DEF WellTyped, HomeTyped
  <2>6. WellTyped'
    BY <1>1, <2>1, <2>3, <2>5, FrameTyped DEF WellTyped
  <2> QED
    BY <1>1, <2>1, <2>2, <2>3, <2>5, <2>6 DEF Others
<1> QED
  BY <1>2, <1>3

LEMMA KeepsFields ==
  ASSUME NEW x, x \in Clients \/ x \in Syncers, NEW pc, NEW known
  PROVE  LET y == [Keeps(x) EXCEPT !.pc = pc, !.known = known]
         IN  /\ y.pc = pc /\ y.known = known /\ y.vals = Nothing /\ y.ops = NoOps
  BY DEF Clients, Syncers, Parties, Keeps

LEMMA ClientAppliedEffect ==
  ASSUME WellTyped, NEW t \in Terminals, ClientApplied(t)
  PROVE  /\ WellTyped' /\ Others(t) /\ cl[t].pc = "apply" /\ Todo(cl[t]) = {}
         /\ cl'[t].pc = "wait" /\ cl'[t].known = Scan(home[t])
         /\ wire'[t] = (IF up[t] THEN Message("server", "NULL") ELSE None)
         /\ local'[t] = {p \in Paths : ~Same(home[t][p], disk[p])}
         /\ UNCHANGED <<home, sy, disk, up, orphans, newest>>
<1>1. /\ UNCHANGED <<home, sy, disk, up, orphans, newest>>
      /\ cl[t].pc = "apply" /\ Todo(cl[t]) = {} /\ Send(t, Message("server", "NULL"))
  BY DEF ClientApplied
<1> DEFINE x == [Keeps(cl[t]) EXCEPT !.pc = "wait", !.known = Scan(home[t])]
<1>2. x \in Clients /\ x.vals = Nothing /\ x.pc = "wait" /\ x.known = Scan(home[t])
  <2>1. cl[t] \in Clients /\ Scan(home[t]) \in Knowledge
    BY TypedParts, ScanTyped
  <2>2. x \in Clients
    BY <2>1, ClientUpdate DEF ClStates
  <2> QED
    BY <2>1, <2>2, KeepsFields
<1>3. SetCl(t, x)
  BY DEF ClientApplied
<1> HIDE DEF x
<1>4. ClTyped' /\ cl'[t] = x /\ \A s \in Terminals \ {t} : cl'[s] = cl[s]
  BY <1>1, <1>2, <1>3, ClSet, TypedParts
<1>5. Message("server", "NULL") \in Packs /\ Real(Message("server", "NULL").vals, newest)
  BY MessageTyped, TypedParts
<1>6. /\ WireTyped' /\ wire'[t] = (IF up[t] THEN Message("server", "NULL") ELSE None)
      /\ \A s \in Terminals \ {t} : wire'[s] = wire[s]
  BY <1>1, <1>5, SendSet
<1>7. /\ RestTyped' /\ local'[t] = {p \in Paths : ~Same(home[t][p], disk[p])}
      /\ \A s \in Terminals \ {t} : local'[s] = local[s]
  BY <1>1 DEF ClientApplied, WellTyped, RestTyped
<1>8. WellTyped'
  BY <1>1, <1>4, <1>6, <1>7, FrameTyped DEF WellTyped
<1> QED
  BY <1>1, <1>2, <1>4, <1>6, <1>7, <1>8 DEF Others
LEMMA ClientTurnEffect ==
  ASSUME WellTyped, NEW t \in Terminals, ClientTurn(t)
  PROVE  /\ WellTyped' /\ Others(t) /\ cl[t].pc = "wait" /\ Arrived(t, "client", "NULL")
         /\ UNCHANGED <<home, sy, disk, up, orphans, newest>>
         /\ \/ /\ UNCHANGED <<cl, local>>
               /\ wire'[t] = (IF up[t] THEN Message("server", "NULL") ELSE None)
            \/ /\ cl'[t].pc = "write" /\ cl'[t].ops = Operations(cl[t].known, home[t])
               /\ cl'[t].vals = home[t] /\ cl'[t].known = Scan(home[t])
               /\ wire'[t] = None
               /\ local'[t] = local[t] \ Sends(Operations(cl[t].known, home[t]))
<1>1. /\ UNCHANGED <<home, sy, disk, up, orphans, newest>>
      /\ cl[t].pc = "wait" /\ Arrived(t, "client", "NULL")
  BY DEF ClientTurn
<1>2. CASE checkDiff(cl[t].known, home[t])
  <2>1. Send(t, Message("server", "NULL")) /\ UNCHANGED <<cl, local>>
    BY <1>2 DEF ClientTurn
  <2>2. Message("server", "NULL") \in Packs /\ Real(Message("server", "NULL").vals, newest)
    BY MessageTyped, TypedParts
  <2>3. /\ WireTyped' /\ wire'[t] = (IF up[t] THEN Message("server", "NULL") ELSE None)
        /\ \A s \in Terminals \ {t} : wire'[s] = wire[s]
    BY <1>1, <2>1, <2>2, SendSet
  <2>4. WellTyped'
    BY <1>1, <2>1, <2>3, FrameTyped DEF WellTyped
  <2> QED
    BY <1>1, <2>1, <2>3, <2>4 DEF Others
<1>3. CASE ~checkDiff(cl[t].known, home[t])
  <2> DEFINE ops == Operations(cl[t].known, home[t])
             x == [cl[t] EXCEPT !.pc = "write", !.ops = ops, !.vals = home[t],
                                !.known = Scan(home[t])]
  <2>1. /\ SetCl(t, x) /\ wire' = [wire EXCEPT ![t] = None]
        /\ local' = [local EXCEPT ![t] = @ \ Sends(ops)]
    BY <1>3 DEF ClientTurn
  <2>2. /\ x \in Clients /\ x.pc = "write" /\ x.ops = ops /\ x.vals = home[t]
        /\ x.known = Scan(home[t])
    <3>1. /\ cl[t] \in Clients /\ Scan(home[t]) \in Knowledge /\ home[t] \in Trees
          /\ ops \in OpMaps
      BY TypedParts, ScanTyped, OperationsTyped
    <3> HIDE DEF ops
    <3>2. x \in Clients
      BY <3>1, ClientUpdate DEF ClStates
    <3> QED
      BY <3>1, <3>2 DEF Clients, Parties
  <2> HIDE DEF x
  <2>3. ClTyped' /\ cl'[t] = x /\ \A s \in Terminals \ {t} : cl'[s] = cl[s]
    BY <1>1, <2>1, <2>2, ClSet, TypedParts
  <2>4. WireTyped' /\ wire'[t] = None /\ \A s \in Terminals \ {t} : wire'[s] = wire[s]
    BY <1>1, <2>1, WireSet
  <2>5. /\ RestTyped' /\ local'[t] = local[t] \ Sends(ops)
        /\ \A s \in Terminals \ {t} : local'[s] = local[s]
    <3> HIDE DEF ops
    <3> QED
      BY <1>1, <2>1 DEF WellTyped, RestTyped
  <2>6. WellTyped'
    BY <1>1, <2>3, <2>4, <2>5, FrameTyped DEF WellTyped
  <2> QED
    BY <1>1, <2>2, <2>3, <2>4, <2>5, <2>6 DEF Others
<1> QED
  BY <1>2, <1>3

\* One entry is written: op stays, and the value is the present one or stays.
Rewritten(t, p, v) ==
  /\ cl'[t].pc = "write" /\ cl'[t].known = cl[t].known /\ cl'[t].ops = cl[t].ops
  /\ cl'[t].vals = [cl[t].vals EXCEPT ![p] = v]

LEMMA RewriteEffect ==
  ASSUME WellTyped, NEW t \in Terminals, NEW p \in Paths, NEW v, UNCHANGED newest,
         cl[t].pc = "write", v \in {cl[t].vals[p], home[t][p]},
         SetCl(t, [cl[t] EXCEPT !.vals[p] = v])
  PROVE  ClTyped' /\ Rewritten(t, p, v) /\ \A s \in Terminals \ {t} : cl'[s] = cl[s]
<1> DEFINE x == [cl[t] EXCEPT !.vals[p] = v]
           vals == [cl[t].vals EXCEPT ![p] = v]
<1>1. /\ cl[t] \in Clients /\ cl[t].vals \in Trees /\ home[t] \in Trees
      /\ Real(cl[t].vals, newest) /\ Real(home[t], newest)
  BY TypedParts
<1>2. v \in Entries
  BY <1>1 DEF Trees
<1>3. vals \in Trees /\ \A q \in Paths : vals[q] = IF q = p THEN v ELSE cl[t].vals[q]
  BY <1>1, <1>2 DEF Trees
<1>4. /\ x \in Clients /\ x.pc = cl[t].pc /\ x.known = cl[t].known /\ x.ops = cl[t].ops
      /\ x.vals = vals
  BY <1>1, <1>3 DEF Clients, Parties
<1> HIDE DEF vals
<1>5. Real(vals, newest)
  <2>1. ASSUME NEW f \in Files PROVE vals[f].v <= newest[f]
    BY <1>1, <1>3, PathFacts DEF Real
  <2>2. ASSUME NEW d \in Dirs PROVE vals[d].v = 0
    BY <1>1, <1>3, PathFacts DEF Real
  <2> QED
    BY <1>3, <2>1, <2>2 DEF Real
<1>6. SetCl(t, x)
  OBVIOUS
<1> HIDE DEF x
<1>7. ClTyped' /\ cl'[t] = x /\ \A s \in Terminals \ {t} : cl'[s] = cl[s]
  BY <1>4, <1>5, <1>6, ClSet
<1> QED
  BY <1>4, <1>7 DEF Rewritten, vals

LEMMA WriteEntryEffect ==
  ASSUME WellTyped, NEW t \in Terminals, NEW p \in Paths, WriteEntry(t, p)
  PROVE  /\ WellTyped' /\ Others(t) /\ cl[t].pc = "write" /\ up[t]
         /\ UNCHANGED <<home, sy, disk, wire, newest, local>>
         /\ cl[t].ops[p] \in {"ADD", "MOD"}
         /\ \/ cl'[t].pc = "connect" /\ ~up'[t] /\ orphans' = orphans \cup {t}
            \/ Rewritten(t, p, home[t][p]) /\ UNCHANGED <<up, orphans>>
<1>1. /\ UNCHANGED <<home, sy, disk, wire, newest, local>> /\ cl[t].pc = "write" /\ up[t]
      /\ cl[t].ops[p] \in {"ADD", "MOD"}
  BY DEF WriteEntry, Contents
<1>2. CASE ~home[t][p].there
  <2>1. Reconnect(t) /\ Close(t)
    BY <1>2 DEF WriteEntry
  <2>2. ClTyped' /\ cl'[t].pc = "connect" /\ \A s \in Terminals \ {t} : cl'[s] = cl[s]
    BY <1>1, <2>1, ReconnectEffect
  <2>3. /\ RestTyped' /\ ~up'[t] /\ orphans' = orphans \cup {t}
        /\ \A s \in Terminals \ {t} : up'[s] = up[s]
    BY <1>1, <2>1, CloseTyped
  <2>4. WellTyped'
    BY <1>1, <2>2, <2>3, FrameTyped DEF WellTyped
  <2> QED
    BY <1>1, <2>2, <2>3, <2>4 DEF Others
<1>3. CASE home[t][p].there
  <2>1. SetCl(t, [cl[t] EXCEPT !.vals[p] = home[t][p]]) /\ UNCHANGED <<up, orphans>>
    BY <1>3 DEF WriteEntry
  <2> DEFINE v == home[t][p]
  <2>2. v \in {cl[t].vals[p], home[t][p]} /\ SetCl(t, [cl[t] EXCEPT !.vals[p] = v])
    BY <2>1
  <2> HIDE DEF v
  <2>3. ClTyped' /\ Rewritten(t, p, v) /\ \A s \in Terminals \ {t} : cl'[s] = cl[s]
    BY <1>1, <2>2, RewriteEffect
  <2>4. WellTyped'
    BY <1>1, <2>1, <2>3, FrameTyped DEF WellTyped
  <2> QED
    BY <1>1, <2>1, <2>3, <2>4 DEF Others, v
<1> QED
  BY <1>2, <1>3

LEMMA WriteContentEffect ==
  ASSUME WellTyped, WriterOK, NEW t \in Terminals, WriteContent(t)
  PROVE  /\ WellTyped' /\ Others(t) /\ cl[t].pc = "write" /\ up[t]
         /\ UNCHANGED <<home, sy, disk, up, orphans, wire, newest, local>>
         /\ writer[t].open \in Paths /\ cl[t].ops[writer[t].open] \in {"ADD", "MOD"}
         /\ \E v \in {cl[t].vals[writer[t].open], home[t][writer[t].open]} :
              Rewritten(t, writer[t].open, v)
<1> DEFINE p == writer[t].open
<1>1. /\ UNCHANGED <<home, sy, disk, up, orphans, wire, newest, local>>
      /\ cl[t].pc = "write" /\ up[t] /\ p # None
  BY DEF WriteContent
<1>2. p \in Paths /\ cl[t].ops[p] \in {"ADD", "MOD"}
  BY <1>1, PathFacts DEF WriterOK, Writers
<1>3. PICK v \in {cl[t].vals[p], home[t][p]} : SetCl(t, [cl[t] EXCEPT !.vals[p] = v])
  BY DEF WriteContent
<1> HIDE DEF p
<1>4. ClTyped' /\ Rewritten(t, p, v) /\ \A s \in Terminals \ {t} : cl'[s] = cl[s]
  BY <1>1, <1>2, <1>3, RewriteEffect
<1>5. WellTyped'
  BY <1>1, <1>4, FrameTyped DEF WellTyped
<1> QED
  BY <1>1, <1>2, <1>3, <1>4, <1>5 DEF Others, p

LEMMA ClientWriteEffect ==
  ASSUME WellTyped, NEW t \in Terminals, ClientWrite(t)
  PROVE  /\ WellTyped' /\ Others(t) /\ cl[t].pc = "write" /\ up[t]
         /\ UNCHANGED <<home, sy, disk, up, orphans, newest, local>>
         /\ cl'[t].pc = "wait" /\ cl'[t].known = cl[t].known
         /\ writer[t].fit =>
              /\ wire'[t] # None /\ wire'[t].to = "server" /\ wire'[t].head = "DATA"
              /\ wire'[t].ops = cl[t].ops /\ wire'[t].vals = cl[t].vals
<1> DEFINE m == IF writer[t].fit THEN Data("server", cl[t]) ELSE Message("server", "JUNK")
           x == [Keeps(cl[t]) EXCEPT !.pc = "wait"]
<1>1. /\ UNCHANGED <<home, sy, disk, up, orphans, newest, local>> /\ cl[t].pc = "write" /\ up[t]
      /\ Send(t, m) /\ SetCl(t, x)
  BY DEF ClientWrite
<1>2. /\ cl[t] \in Clients /\ cl[t].ops \in OpMaps /\ cl[t].vals \in Trees
      /\ Real(cl[t].vals, newest) /\ Real(Nothing, newest)
  BY TypedParts
<1>3. /\ m \in Packs /\ Real(m.vals, newest)
      /\ writer[t].fit => /\ m.to = "server" /\ m.head = "DATA"
                          /\ m.ops = cl[t].ops /\ m.vals = cl[t].vals
  BY <1>2, DataTyped, MessageTyped
<1>4. x \in Clients /\ x.pc = "wait" /\ x.known = cl[t].known /\ x.vals = Nothing
  <2>1. "wait" \in ClStates
    BY DEF ClStates
  <2> QED
    BY <1>2, <2>1, ClientUpdate, PcFields
<1> HIDE DEF x, m
<1>5. ClTyped' /\ cl'[t] = x /\ \A s \in Terminals \ {t} : cl'[s] = cl[s]
  BY <1>1, <1>2, <1>4, ClSet
<1>6. WireTyped' /\ wire'[t] = m /\ \A s \in Terminals \ {t} : wire'[s] = wire[s]
  BY <1>1, <1>3, SendSet
<1>7. WellTyped'
  BY <1>1, <1>5, <1>6, FrameTyped DEF WellTyped
<1> QED
  BY <1>1, <1>3, <1>4, <1>5, <1>6, <1>7, NoneOfPacks DEF Others

LEMMA ClientJunkEffect ==
  ASSUME WellTyped, NEW t \in Terminals, ClientJunk(t)
  PROVE  /\ WellTyped' /\ Arrived(t, "client", "JUNK") /\ UNCHANGED <<newest, disk>>
         /\ \A s \in Terminals : cl'[s] = cl[s] \/ cl'[s].pc = "off"
<1>1. /\ UNCHANGED <<home, sy, disk, newest, local>> /\ Arrived(t, "client", "JUNK")
      /\ wire' = [wire EXCEPT ![t] = None]
  BY DEF ClientJunk
<1>2. WireTyped'
  BY <1>1, WireSet
<1>3. CASE UNCHANGED <<cl, up, orphans>>
  BY <1>1, <1>2, <1>3, FrameTyped DEF WellTyped
<1>4. CASE SetCl(t, Party("off")) /\ Close(t)
  <2>1. Party("off") \in Clients /\ Real(Party("off").vals, newest)
    BY PartyTyped, TypedParts DEF ClStates
  <2>2. ClTyped' /\ cl'[t] = Party("off") /\ \A s \in Terminals \ {t} : cl'[s] = cl[s]
    BY <1>1, <1>4, <2>1, ClSet
  <2>3. RestTyped'
    BY <1>1, <1>4, CloseTyped
  <2> QED
    BY <1>1, <1>2, <2>2, <2>3, FrameTyped, PartyTyped DEF WellTyped
<1> QED
  BY <1>3, <1>4 DEF ClientJunk

LEMMA ClientBrokenEffect ==
  ASSUME WellTyped, NEW t \in Terminals, ClientBroken(t)
  PROVE  /\ WellTyped' /\ Others(t) /\ ~up[t] /\ cl'[t].pc = "connect"
         /\ UNCHANGED <<home, sy, disk, up, orphans, wire, newest, local>>
<1>1. UNCHANGED <<home, sy, disk, up, orphans, wire, newest, local>> /\ ~up[t] /\ Reconnect(t)
  BY DEF ClientBroken
<1>2. ClTyped' /\ cl'[t].pc = "connect" /\ \A s \in Terminals \ {t} : cl'[s] = cl[s]
  BY <1>1, ReconnectEffect
<1>3. WellTyped'
  BY <1>1, <1>2, FrameTyped DEF WellTyped
<1> QED
  BY <1>1, <1>2, <1>3 DEF Others

LEMMA AcceptEffect ==
  ASSUME WellTyped, NEW t \in Terminals, Accept(t)
  PROVE  /\ WellTyped' /\ Others(t) /\ Arrived(t, "server", "INIT")
         /\ UNCHANGED <<home, cl, disk, up, newest, local>>
         /\ \/ /\ wire'[t] = (IF up[t] THEN Message("client", "FULL") ELSE None)
               /\ UNCHANGED <<sy, orphans>>
            \/ /\ overlap' \/ \A s \in Terminals : sy[s].pc = "none"
               /\ wire'[t] = (IF up[t] THEN Message("client", "CONFIRM") ELSE None)
               /\ sy'[t].pc = "read" /\ sy'[t].known = NoMap
               /\ t \in orphans' <=> t \in orphans /\ ~up[t]
<1>1. UNCHANGED <<home, cl, disk, up, newest, local>> /\ Arrived(t, "server", "INIT")
  BY DEF Accept
<1>2. CASE list # {}
  <2>1. Send(t, Message("client", "FULL")) /\ UNCHANGED <<sy, orphans>>
    BY <1>2 DEF Accept
  <2>2. Message("client", "FULL") \in Packs /\ Real(Message("client", "FULL").vals, newest)
    BY MessageTyped, TypedParts
  <2>3. /\ WireTyped' /\ wire'[t] = (IF up[t] THEN Message("client", "FULL") ELSE None)
        /\ \A s \in Terminals \ {t} : wire'[s] = wire[s]
    BY <1>1, <2>1, <2>2, SendSet
  <2>4. WellTyped'
    BY <1>1, <2>1, <2>3, FrameTyped DEF WellTyped
  <2> QED
    BY <1>1, <2>1, <2>3, <2>4 DEF Others
<1>3. CASE ~(list # {})
  <2>1. /\ Send(t, Message("client", "CONFIRM")) /\ SetSy(t, Party("read"))
        /\ overlap' = (overlap \/ \E s \in Terminals : sy[s].pc # "none")
        /\ orphans' = IF up[t] THEN orphans \ {t} ELSE orphans
    BY <1>3 DEF Accept
  <2>2. Message("client", "CONFIRM") \in Packs /\ Real(Message("client", "CONFIRM").vals, newest)
    BY MessageTyped, TypedParts
  <2>3. /\ WireTyped' /\ wire'[t] = (IF up[t] THEN Message("client", "CONFIRM") ELSE None)
        /\ \A s \in Terminals \ {t} : wire'[s] = wire[s]
    BY <1>1, <2>1, <2>2, SendSet
  <2>4. Party("read") \in Syncers /\ Real(Party("read").vals, newest)
    BY PartyTyped, TypedParts DEF SyStates
  <2>5. SyTyped' /\ sy'[t] = Party("read") /\ \A s \in Terminals \ {t} : sy'[s] = sy[s]
    BY <1>1, <2>1, <2>4, SySet
  <2>6. /\ RestTyped' /\ (t \in orphans' <=> t \in orphans /\ ~up[t])
        /\ \A s \in Terminals \ {t} : s \in orphans' <=> s \in orphans
    BY <1>1, <2>1 DEF WellTyped, RestTyped
  <2>7. WellTyped'
    BY <1>1, <2>3, <2>5, <2>6, FrameTyped DEF WellTyped
  <2> QED
    BY <1>1, <2>1, <2>3, <2>5, <2>6, <2>7, PartyTyped DEF Others
<1> QED
  BY <1>2, <1>3

\* A syncer that ends.
LEMMA EndsEffect ==
  ASSUME WellTyped, NEW t \in Terminals, UNCHANGED newest,
         Ends(t) \/ SetSy(t, Party("none")) \/ SetSy(t, Party("hung"))
  PROVE  /\ SyTyped' /\ sy'[t].pc \in {"dead", "none", "hung"}
         /\ Ends(t) \/ SetSy(t, Party("none")) => sy'[t].pc \in {"dead", "none"}
         /\ SetSy(t, Party("none")) => sy'[t].pc = "none"
         /\ \A s \in Terminals \ {t} : sy'[s] = sy[s]
<1>1. ASSUME NEW pc \in {"dead", "none", "hung"}, SetSy(t, Party(pc))
      PROVE  SyTyped' /\ sy'[t].pc = pc /\ \A s \in Terminals \ {t} : sy'[s] = sy[s]
  <2>1. Party(pc) \in Syncers /\ Real(Party(pc).vals, newest) /\ Party(pc).pc = pc
    BY PartyTyped, TypedParts DEF SyStates
  <2> QED
    BY <1>1, <2>1, SySet
<1>2. Ends(t) => SetSy(t, Party("dead")) \/ SetSy(t, Party("none"))
  BY DEF Ends
<1>3. SetSy(t, Party("dead")) \/ SetSy(t, Party("none")) => sy'[t].pc \in {"dead", "none"}
  BY <1>1
<1> QED
  BY <1>1, <1>2, <1>3

LEMMA HangupEffect ==
  ASSUME WellTyped, NEW t \in Terminals, UNCHANGED <<newest, local>>, Hangup(t)
  PROVE  /\ RestTyped' /\ t \in orphans' /\ (up'[t] => t \in orphans /\ up[t])
         /\ \A s \in Terminals \ {t} : up'[s] = up[s] /\ (s \in orphans' <=> s \in orphans)
<1>1. CASE t \in orphans
  <2>1. UNCHANGED <<up, orphans>>
    BY <1>1 DEF Hangup
  <2> QED
    BY <1>1, <2>1, FrameTyped
<1>2. CASE t \notin orphans
  <2>1. Close(t)
    BY <1>2 DEF Hangup
  <2> QED
    BY <2>1, CloseTyped
<1> QED
  BY <1>1, <1>2

LEMMA SyncerTurnEffect ==
  ASSUME WellTyped, NEW t \in Terminals, SyncerTurn(t)
  PROVE  /\ WellTyped' /\ Others(t) /\ sy[t].pc = "read" /\ wire[t] # None
         /\ wire[t].to = "server" /\ wire[t].head \in {"QUERY", "NULL"}
         /\ UNCHANGED <<home, cl, disk, up, orphans, newest, local>>
         /\ \/ /\ UNCHANGED sy /\ wire[t].head = "NULL"
               /\ wire'[t] = (IF up[t] THEN Message("client", "NULL") ELSE None)
            \/ /\ ~(wire[t].head = "NULL" /\ checkDiff(sy[t].known, disk))
               /\ sy'[t].pc = "read" /\ sy'[t].known = Scan(disk)
               /\ ~up[t] => wire'[t] = None
               /\ up[t] => /\ wire'[t] # None /\ wire'[t].to = "client"
                           /\ wire'[t].head = "DATA"
                           /\ wire'[t].ops = Operations(sy[t].known, disk)
                           /\ wire'[t].vals = disk
<1>1. /\ UNCHANGED <<home, cl, disk, up, orphans, newest, local>>
      /\ sy[t].pc = "read" /\ wire[t] # None
      /\ wire[t].to = "server" /\ wire[t].head \in {"QUERY", "NULL"}
  BY DEF SyncerTurn, Arrived
<1>2. CASE wire[t].head = "NULL" /\ checkDiff(sy[t].known, disk)
  <2>1. Send(t, Message("client", "NULL")) /\ UNCHANGED sy
    BY <1>2 DEF SyncerTurn
  <2>2. Message("client", "NULL") \in Packs /\ Real(Message("client", "NULL").vals, newest)
    BY MessageTyped, TypedParts
  <2>3. /\ WireTyped' /\ wire'[t] = (IF up[t] THEN Message("client", "NULL") ELSE None)
        /\ \A s \in Terminals \ {t} : wire'[s] = wire[s]
    BY <1>1, <2>1, <2>2, SendSet
  <2>4. WellTyped'
    BY <1>1, <2>1, <2>3, FrameTyped DEF WellTyped
  <2> QED
    BY <1>1, <1>2, <2>1, <2>3, <2>4 DEF Others
<1>3. CASE ~(wire[t].head = "NULL" /\ checkDiff(sy[t].known, disk))
  <2> DEFINE ops == Operations(sy[t].known, disk)
             y == [sy[t] EXCEPT !.ops = ops, !.vals = disk]
             x == [sy[t] EXCEPT !.known = Scan(disk)]
  <2>0. sy[t] \in Syncers /\ Scan(disk) \in Knowledge /\ disk \in Trees /\ ops \in OpMaps
    BY TypedParts, ScanTyped, OperationsTyped
  <2>1. Send(t, Data("client", y)) /\ SetSy(t, x)
    BY <1>3 DEF SyncerTurn
  <2>2. y.ops = ops /\ y.vals = disk
    BY <2>0 DEF Syncers, Parties
  <2>3. x \in Syncers /\ x.known = Scan(disk) /\ x.vals = sy[t].vals /\ x.pc = sy[t].pc
    <3>1. x \in Syncers
      BY <2>0, SyncerUpdate
    <3> QED
      BY <2>0, <3>1 DEF Syncers, Parties
  <2> HIDE DEF x, y, ops
  <2>4. SyTyped' /\ sy'[t] = x /\ \A s \in Terminals \ {t} : sy'[s] = sy[s]
    BY <1>1, <2>1, <2>3, SySet, TypedParts
  <2>5. /\ Data("client", y) \in Packs /\ Data("client", y).to = "client"
        /\ Data("client", y).head = "DATA" /\ Data("client", y).ops = ops
        /\ Data("client", y).vals = disk
    BY <2>0, <2>2, DataTyped
  <2>6. Real(disk, newest)
    BY TypedParts
  <2>7. /\ WireTyped' /\ wire'[t] = (IF up[t] THEN Data("client", y) ELSE None)
        /\ \A s \in Terminals \ {t} : wire'[s] = wire[s]
    BY <1>1, <2>1, <2>5, <2>6, SendSet
  <2>8. WellTyped'
    BY <1>1, <2>4, <2>7, FrameTyped DEF WellTyped
  <2> QED
    BY <1>1, <1>3, <2>3, <2>4, <2>5, <2>7, <2>8, NoneOfPacks DEF Others, ops
<1> QED
  BY <1>2, <1>3
LEMMA SyncerMeddledEffect ==
  ASSUME WellTyped, NEW t \in Terminals, SyncerMeddled(t)
  PROVE  /\ WellTyped' /\ UNCHANGED <<newest, disk>> /\ sy[t].pc = "read"
         /\ \/ \E s \in Terminals \ {t} : sy[s].pc = "apply"
            \/ \E i \in DOMAIN left : left[i].pc = "apply"
<1>1. /\ UNCHANGED <<home, cl, disk, newest, local>> /\ sy[t].pc = "read"
      /\ \/ \E s \in Terminals \ {t} : sy[s].pc = "apply"
         \/ \E i \in DOMAIN left : left[i].pc = "apply"
  BY DEF SyncerMeddled
<1>2. CASE /\ Send(t, Message("client", "JUNK"))
           /\ SetSy(t, [sy[t] EXCEPT !.known = Scan(disk)])
           /\ UNCHANGED <<up, orphans>>
  <2> DEFINE x == [sy[t] EXCEPT !.known = Scan(disk)]
  <2>1. sy[t] \in Syncers /\ Scan(disk) \in Knowledge
    BY TypedParts, ScanTyped
  <2>2. x \in Syncers /\ x.vals = sy[t].vals
    <3>1. x \in Syncers
      BY <2>1, SyncerUpdate
    <3> QED
      BY <2>1, <3>1 DEF Syncers, Parties
  <2>3. SetSy(t, x)
    BY <1>2
  <2> HIDE DEF x
  <2>4. SyTyped'
    BY <1>1, <2>2, <2>3, SySet, TypedParts
  <2>5. Message("client", "JUNK") \in Packs /\ Real(Message("client", "JUNK").vals, newest)
    BY MessageTyped, TypedParts
  <2>6. WireTyped'
    BY <1>1, <1>2, <2>5, SendSet
  <2> QED
    BY <1>1, <1>2, <2>4, <2>6, FrameTyped DEF WellTyped
<1>3. CASE Ends(t) /\ Hangup(t) /\ wire' = [wire EXCEPT ![t] = None]
  <2>1. SyTyped' /\ RestTyped'
    BY <1>1, <1>3, EndsEffect, HangupEffect
  <2>2. WireTyped'
    BY <1>1, <1>3, WireSet
  <2> QED
    BY <1>1, <2>1, <2>2, FrameTyped DEF WellTyped
<1> QED
  BY <1>1, <1>2, <1>3 DEF SyncerMeddled

LEMMA SyncerJunkEffect ==
  ASSUME WellTyped, NEW t \in Terminals, SyncerJunk(t)
  PROVE  WellTyped' /\ Arrived(t, "server", "JUNK") /\ UNCHANGED <<newest, disk>>
<1>1. /\ UNCHANGED <<home, cl, disk, up, orphans, newest, local>>
      /\ Arrived(t, "server", "JUNK") /\ wire' = [wire EXCEPT ![t] = None]
      /\ UNCHANGED sy \/ SetSy(t, Party("hung")) \/ SetSy(t, Party("none"))
  BY DEF SyncerJunk
<1>2. WireTyped'
  BY <1>1, WireSet
<1>3. SyTyped'
  BY <1>1, EndsEffect, FrameTyped
<1> QED
  BY <1>1, <1>2, <1>3, FrameTyped DEF WellTyped

LEMMA SyncerDataEffect ==
  ASSUME WellTyped, NEW t \in Terminals, SyncerData(t)
  PROVE  /\ WellTyped' /\ Others(t) /\ sy[t].pc = "read" /\ Arrived(t, "server", "DATA")
         /\ sy'[t].pc = "apply" /\ sy'[t].ops = wire[t].ops /\ sy'[t].vals = wire[t].vals
         /\ wire'[t] = None
         /\ UNCHANGED <<home, cl, disk, up, orphans, newest, local>>
<1>1. /\ UNCHANGED <<home, cl, disk, up, orphans, newest, local>>
      /\ sy[t].pc = "read" /\ Arrived(t, "server", "DATA")
  BY DEF SyncerData
<1> DEFINE x == [sy[t] EXCEPT !.pc = "apply", !.ops = wire[t].ops, !.vals = wire[t].vals]
<1>2. wire[t].ops \in OpMaps /\ wire[t].vals \in Trees /\ Real(wire[t].vals, newest)
  BY <1>1, TypedParts DEF Arrived
<1>3. sy[t] \in Syncers
  BY TypedParts
<1>4. x \in Syncers /\ x.vals = wire[t].vals /\ x.ops = wire[t].ops /\ x.pc = "apply"
  <2>1. x \in Syncers
    BY <1>2, <1>3, SyncerUpdate DEF SyStates
  <2> QED
    BY <1>3, <2>1 DEF Syncers, Parties
<1>5. SetSy(t, x) /\ wire' = [wire EXCEPT ![t] = None]
  BY DEF SyncerData
<1> HIDE DEF x
<1>6. SyTyped' /\ sy'[t] = x /\ \A s \in Terminals \ {t} : sy'[s] = sy[s]
  BY <1>1, <1>2, <1>4, <1>5, SySet
<1>7. WireTyped' /\ wire'[t] = None /\ \A s \in Terminals \ {t} : wire'[s] = wire[s]
  BY <1>1, <1>5, WireSet
<1>8. WellTyped'
  BY <1>1, <1>6, <1>7, FrameTyped DEF WellTyped
<1> QED
  BY <1>1, <1>4, <1>6, <1>7, <1>8 DEF Others

\* Another syncer's map is moved by what one of them does to the disk.
SyMap == sy = [s \in Terminals |-> sy[s]]

MovedSy(s, to) == [sy[s] EXCEPT !.known = Moved(@, disk, to)]

LEMMA MovedSyFields ==
  ASSUME WellTyped, NEW s \in Terminals, NEW to
  PROVE  /\ MovedSy(s, to) \in Syncers /\ MovedSy(s, to).pc = sy[s].pc
         /\ MovedSy(s, to).vals = sy[s].vals
<1> DEFINE known == Moved(sy[s].known, disk, to)
<1>1. sy[s] \in Syncers /\ known \in Knowledge
  BY TypedParts, MovedTyped
<1>2. MovedSy(s, to) = [sy[s] EXCEPT !.known = known]
  BY DEF MovedSy
<1> HIDE DEF known
<1>3. MovedSy(s, to) \in Syncers
  BY <1>1, <1>2, SyncerUpdate
<1> QED
  BY <1>1, <1>2, <1>3 DEF Syncers, Parties

LEMMA MovedSyTyped ==
  ASSUME WellTyped, NEW to, UNCHANGED newest, NEW S \in SUBSET Terminals,
         \A s \in S : sy'[s] \in Syncers /\ Real(sy'[s].vals, newest),
         SyMap', \A s \in Terminals \ S : sy'[s] = MovedSy(s, to)
  PROVE  SyTyped' /\ \A s \in Terminals \ S : sy'[s].pc = sy[s].pc
<1>1. ASSUME NEW s \in Terminals \ S
      PROVE  sy'[s] \in Syncers /\ Real(sy'[s].vals, newest) /\ sy'[s].pc = sy[s].pc
  BY TypedParts, MovedSyFields
<1>2. \A s \in Terminals : sy'[s] \in Syncers /\ Real(sy'[s].vals, newest)
  BY <1>1
<1>3. sy' \in [Terminals -> Syncers]
  BY <1>2 DEF SyMap
<1> QED
  BY <1>1, <1>2, <1>3 DEF SyTyped

LEMMA SyncerApplyEffect ==
  ASSUME WellTyped, NEW t \in Terminals, NEW p \in Paths, SyncerApply(t, p)
  PROVE  /\ WellTyped' /\ (Alone => Others(t)) /\ sy[t].pc = "apply" /\ Ready(sy[t], p)
         /\ UNCHANGED <<home, cl, wire, newest, local>>
         /\ \/ /\ sy'[t].pc \in {"dead", "none"} /\ t \in orphans'
               /\ (up'[t] => t \in orphans /\ up[t]) /\ UNCHANGED disk
            \/ /\ sy'[t].pc = "apply" /\ sy'[t].ops = [sy[t].ops EXCEPT ![p] = "-"]
               /\ sy'[t].vals = sy[t].vals /\ ~Throws(sy[t], disk, p)
               /\ disk' = Applied(sy[t], disk, p)
               /\ UNCHANGED <<up, orphans>>
<1>1. UNCHANGED <<home, cl, wire, newest, local>> /\ sy[t].pc = "apply" /\ Ready(sy[t], p)
  BY DEF SyncerApply
<1>2. CASE Throws(sy[t], disk, p)
  <2>1. Ends(t) /\ Hangup(t) /\ UNCHANGED disk
    BY <1>2 DEF SyncerApply
  <2>2. /\ SyTyped' /\ sy'[t].pc \in {"dead", "none"}
        /\ \A s \in Terminals \ {t} : sy'[s] = sy[s]
    BY <1>1, <2>1, EndsEffect
  <2>3. /\ RestTyped' /\ t \in orphans' /\ (up'[t] => t \in orphans /\ up[t])
        /\ \A s \in Terminals \ {t} : up'[s] = up[s] /\ (s \in orphans' <=> s \in orphans)
    BY <1>1, <2>1, HangupEffect
  <2>4. WellTyped'
    BY <1>1, <2>1, <2>2, <2>3, FrameTyped DEF WellTyped
  <2> QED
    BY <1>1, <2>1, <2>2, <2>3, <2>4 DEF Others
<1>3. CASE ~Throws(sy[t], disk, p)
  <2> DEFINE to == Applied(sy[t], disk, p)
             x == [Done(sy[t], p) EXCEPT !.known = Touch(sy[t].known, p)]
  <2>1. /\ disk' = to /\ UNCHANGED <<up, orphans>>
        /\ sy' = [s \in Terminals |-> IF s = t THEN x
                                      ELSE [sy[s] EXCEPT !.known = Moved(sy[s].known, disk, to)]]
    <3>1. sy' = [s \in Terminals |->
                   IF s = t THEN [Done(sy[t], p) EXCEPT !.known = Touch(@, p)]
                   ELSE [sy[s] EXCEPT !.known = Moved(@, disk, to)]]
      BY <1>3 DEF SyncerApply
    <3>2. Done(sy[t], p).known = sy[t].known
      BY TypedParts DEF Done, Syncers, Parties
    <3> QED
      BY <1>3, <3>1, <3>2 DEF SyncerApply
  <2>2. /\ x \in Syncers /\ x.pc = "apply" /\ x.ops = [sy[t].ops EXCEPT ![p] = "-"]
        /\ x.vals = sy[t].vals /\ Real(x.vals, newest)
    <3>1. sy[t] \in Syncers /\ Touch(sy[t].known, p) \in Knowledge /\ Real(sy[t].vals, newest)
      BY TypedParts, TouchTyped
    <3>2. x \in Syncers
      BY <3>1, ClientUpdate, SyncerUpdate
    <3> QED
      BY <1>1, <3>1, <3>2, DoneFields
  <2> HIDE DEF x, to
  <2>3. /\ sy'[t] = x /\ SyMap'
        /\ \A s \in Terminals \ {t} : sy'[s] = MovedSy(s, to)
    BY <2>1 DEF SyMap, MovedSy
  <2>4. SyTyped' /\ \A s \in Terminals \ {t} : sy'[s].pc = sy[s].pc
    <3>1. {t} \in SUBSET Terminals /\ \A s \in {t} : sy'[s] \in Syncers /\ Real(sy'[s].vals, newest)
      BY <2>2, <2>3
    <3> QED
      BY <1>1, <2>3, <3>1, MovedSyTyped
  <2>5. Alone => \A s \in Terminals \ {t} : sy'[s].pc = "none" /\ sy[s].pc = "none"
    BY <1>1, <2>4 DEF Alone
  <2>6. Real(to, newest) /\ Closed(to)
    BY <1>3, TypedParts, AppliedReal DEF to
  <2>7. DiskTyped'
    BY <1>1, <2>1, <2>6 DEF DiskTyped
  <2>8. WellTyped'
    BY <1>1, <2>1, <2>4, <2>7, FrameTyped DEF WellTyped
  <2>9. Alone => Others(t)
    BY <1>1, <2>1, <2>5 DEF Others
  <2> QED
    BY <1>1, <1>3, <2>1, <2>2, <2>3, <2>8, <2>9 DEF to
<1> QED
  BY <1>2, <1>3

LEMMA SyncerAppliedEffect ==
  ASSUME WellTyped, NEW t \in Terminals, SyncerApplied(t)
  PROVE  /\ WellTyped' /\ Others(t) /\ sy[t].pc = "apply" /\ Todo(sy[t]) = {}
         /\ sy'[t].pc = "read" /\ sy'[t].known = Scan(disk)
         /\ wire'[t] = (IF t \in orphans THEN wire[t]
                        ELSE IF up[t] THEN Message("client", "NULL") ELSE None)
         /\ UNCHANGED <<home, cl, disk, up, orphans, newest, local>>
<1>1. /\ UNCHANGED <<home, cl, disk, up, orphans, newest, local>>
      /\ sy[t].pc = "apply" /\ Todo(sy[t]) = {}
  BY DEF SyncerApplied
<1> DEFINE x == [Keeps(sy[t]) EXCEPT !.pc = "read", !.known = Scan(disk)]
<1>2. x \in Syncers /\ x.vals = Nothing /\ x.pc = "read" /\ x.known = Scan(disk)
  <2>1. sy[t] \in Syncers /\ Scan(disk) \in Knowledge
    BY TypedParts, ScanTyped
  <2>2. x \in Syncers
    BY <2>1, SyncerUpdate DEF SyStates
  <2> QED
    BY <2>1, <2>2, KeepsFields
<1>3. SetSy(t, x)
  BY DEF SyncerApplied
<1> HIDE DEF x
<1>4. SyTyped' /\ sy'[t] = x /\ \A s \in Terminals \ {t} : sy'[s] = sy[s]
  BY <1>1, <1>2, <1>3, SySet, TypedParts
<1>5. Message("client", "NULL") \in Packs /\ Real(Message("client", "NULL").vals, newest)
  BY MessageTyped, TypedParts
<1>6. /\ WireTyped'
      /\ wire'[t] = (IF t \in orphans THEN wire[t]
                     ELSE IF up[t] THEN Message("client", "NULL") ELSE None)
      /\ \A s \in Terminals \ {t} : wire'[s] = wire[s]
  <2>1. CASE t \in orphans
    BY <1>1, <2>1, FrameTyped DEF SyncerApplied
  <2>2. CASE t \notin orphans
    <3>1. Send(t, Message("client", "NULL"))
      BY <2>2 DEF SyncerApplied
    <3> QED
      BY <1>1, <1>5, <2>2, <3>1, SendSet
  <2> QED
    BY <2>1, <2>2
<1>7. WellTyped'
  BY <1>1, <1>4, <1>6, FrameTyped DEF WellTyped
<1> QED
  BY <1>1, <1>2, <1>4, <1>6, <1>7 DEF Others

LEMMA SyncerBrokenEffect ==
  ASSUME WellTyped, NEW t \in Terminals, SyncerBroken(t)
  PROVE  /\ WellTyped' /\ Others(t) /\ t \in orphans /\ sy[t].pc = "read"
         /\ sy'[t].pc \in {"dead", "none"}
         /\ wire[t] # None => wire[t].head \in {"INIT", "FULL"}
         /\ UNCHANGED <<home, cl, disk, up, orphans, wire, newest, local>>
<1>1. /\ UNCHANGED <<home, cl, disk, up, orphans, wire, newest, local>>
      /\ sy[t].pc = "read" /\ t \in orphans /\ Ends(t)
      /\ wire[t] # None => wire[t].head \in {"INIT", "FULL"}
  BY DEF SyncerBroken
<1>2. /\ SyTyped' /\ sy'[t].pc \in {"dead", "none"}
      /\ \A s \in Terminals \ {t} : sy'[s] = sy[s]
  BY <1>1, EndsEffect
<1>3. WellTyped'
  BY <1>1, <1>2, FrameTyped DEF WellTyped
<1> QED
  BY <1>1, <1>2, <1>3 DEF Others

LEMMA SyncerEndsEffect ==
  ASSUME WellTyped, NEW t \in Terminals, SyncerEnds(t)
  PROVE  /\ WellTyped' /\ Others(t) /\ sy'[t].pc = "none"
         /\ t \in orphans' /\ (up'[t] => t \in orphans /\ up[t])
         /\ wire'[t] = IF wire[t] # None /\ wire[t].to = "server" /\ wire[t].head # "INIT"
                       THEN None ELSE wire[t]
         /\ UNCHANGED <<home, cl, disk, newest, local>>
<1> DEFINE m == IF wire[t] # None /\ wire[t].to = "server" /\ wire[t].head # "INIT"
                THEN None ELSE wire[t]
<1>1. /\ UNCHANGED <<home, cl, disk, newest, local>>
      /\ SetSy(t, Party("none")) /\ Hangup(t) /\ wire' = [wire EXCEPT ![t] = m]
  BY DEF SyncerEnds
<1>2. m \in Packs \cup {None} /\ (m # None => Real(m.vals, newest))
  BY TypedParts DEF WellTyped, WireTyped
<1> HIDE DEF m
<1>3. WireTyped' /\ wire'[t] = m /\ \A s \in Terminals \ {t} : wire'[s] = wire[s]
  BY <1>1, <1>2, WireSet
<1>4. SyTyped' /\ sy'[t].pc = "none" /\ \A s \in Terminals \ {t} : sy'[s] = sy[s]
  BY <1>1, EndsEffect
<1>5. /\ RestTyped' /\ t \in orphans' /\ (up'[t] => t \in orphans /\ up[t])
      /\ \A s \in Terminals \ {t} : up'[s] = up[s] /\ (s \in orphans' <=> s \in orphans)
  BY <1>1, HangupEffect
<1>6. WellTyped'
  BY <1>1, <1>3, <1>4, <1>5, FrameTyped DEF WellTyped
<1> QED
  BY <1>1, <1>3, <1>4, <1>5, <1>6 DEF Others, m

LEMMA LateEffect ==
  ASSUME WellTyped, LeftOK, LateStep
  PROVE  WellTyped' /\ LeftOK' /\ left # <<>> /\ UNCHANGED <<wire, writer, cl, overlap, garbled>>
<1>0. PICK i \in DOMAIN left : LateApplied(i) \/ \E p \in Paths : LateApply(i, p)
  BY DEF LateStep
<1>1. /\ left \in Seq(Syncers) /\ left[i] \in Syncers /\ Real(left[i].vals, newest)
      /\ left # <<>> /\ overlap
  BY <1>0 DEF LeftOK
<1>2. /\ Party("none") \in Syncers /\ Real(Party("none").vals, newest)
  BY PartyTyped, NothingReal DEF SyStates, WellTyped, RestTyped
<1>3. ASSUME NEW x \in Syncers, Real(x.vals, newest), left' = [left EXCEPT ![i] = x],
             UNCHANGED <<newest, overlap>>
      PROVE  LeftOK'
  <2>1. /\ left' \in Seq(Syncers) /\ DOMAIN left' = DOMAIN left
        /\ \A j \in DOMAIN left : left'[j] = IF j = i THEN x ELSE left[j]
    BY <1>0, <1>1, <1>3, ExceptSeq
  <2>2. \A j \in DOMAIN left' : Real(left'[j].vals, newest')
    BY <1>3, <2>1 DEF LeftOK
  <2> QED
    BY <1>1, <1>3, <2>1, <2>2 DEF LeftOK
<1>4. CASE LateApplied(i)
  <2>1. /\ left' = [left EXCEPT ![i] = Party("none")]
        /\ UNCHANGED <<home, cl, sy, disk, up, orphans, wire, newest, local, overlap, writing>>
    BY <1>4 DEF LateApplied
  <2>2. LeftOK'
    BY <1>2, <1>3, <2>1
  <2> QED
    BY <1>1, <2>1, <2>2, FrameTyped DEF WellTyped, writing
<1>5. ASSUME NEW p \in Paths, LateApply(i, p)
      PROVE  WellTyped' /\ LeftOK' /\ UNCHANGED <<wire, writer, cl, overlap, garbled>>
  <2> DEFINE to == Applied(left[i], disk, p)
  <2>1. UNCHANGED <<home, cl, up, orphans, wire, newest, local, overlap, writing>>
    BY <1>5 DEF LateApply
  <2>2. CASE Throws(left[i], disk, p)
    <3>1. left' = [left EXCEPT ![i] = Party("none")] /\ UNCHANGED <<sy, disk>>
      BY <1>5, <2>2 DEF LateApply
    <3>2. LeftOK'
      BY <1>2, <1>3, <2>1, <3>1
    <3> QED
      BY <2>1, <3>1, <3>2, FrameTyped DEF WellTyped, writing
  <2>3. CASE ~Throws(left[i], disk, p)
    <3>1. /\ left' = [left EXCEPT ![i] = Done(left[i], p)] /\ disk' = to
          /\ sy' = [s \in Terminals |-> [sy[s] EXCEPT !.known = Moved(sy[s].known, disk, to)]]
      BY <1>5, <2>3 DEF LateApply
    <3>2. Done(left[i], p) \in Syncers /\ Done(left[i], p).vals = left[i].vals
      BY <1>1 DEF Done, Syncers, Parties
    <3>3. LeftOK'
      BY <1>1, <1>3, <2>1, <3>1, <3>2
    <3>4. Real(to, newest) /\ Closed(to)
      BY <1>1, <2>3, TypedParts, AppliedReal, ClientFields DEF WellTyped, DiskTyped
    <3> HIDE DEF to
    <3>5. DiskTyped'
      BY <2>1, <3>1, <3>4 DEF DiskTyped
    <3>6. SyTyped'
      <4>1. /\ SyMap'
            /\ \A s \in Terminals \ {} : sy'[s] = MovedSy(s, to)
        BY <3>1 DEF SyMap, MovedSy
      <4>2. {} \in SUBSET Terminals /\ \A s \in {} : sy'[s] \in Syncers /\ Real(sy'[s].vals, newest)
        OBVIOUS
      <4> QED
        BY <2>1, <4>1, <4>2, MovedSyTyped
    <3> QED
      BY <2>1, <3>3, <3>5, <3>6, FrameTyped DEF WellTyped, writing
  <2> QED
    BY <2>2, <2>3
<1> QED
  BY <1>0, <1>1, <1>4, <1>5

\* The timer and a cancellation take syncers that have ended off the list.
LEMMA GarbageEffect ==
  ASSUME WellTyped, garbageCollection \/ CancelSyncers
  PROVE  /\ WellTyped'
         /\ \A t \in Terminals : \/ sy'[t] = sy[t]
                                 \/ sy[t].pc \in {"dead", "hung"} /\ sy'[t].pc = "none"
         /\ UNCHANGED <<home, cl, disk, up, orphans, wire, newest, local, left, overlap, writing>>
<1>1. /\ UNCHANGED <<home, cl, disk, up, orphans, wire, newest, local, left, overlap, writing>>
      /\ sy' = [t \in Terminals |-> sy'[t]]
      /\ \A t \in Terminals : \/ sy'[t] = sy[t]
                              \/ sy[t].pc \in {"dead", "hung"} /\ sy'[t] = Party("none")
  <2>1. CASE garbageCollection
    BY <2>1 DEF garbageCollection
  <2>2. CASE CancelSyncers
    BY <2>2 DEF CancelSyncers
  <2> QED
    BY <2>1, <2>2
<1>2. ASSUME NEW t \in Terminals
      PROVE  /\ sy'[t] \in Syncers /\ Real(sy'[t].vals, newest)
             /\ \/ sy'[t] = sy[t]
                \/ sy[t].pc \in {"dead", "hung"} /\ sy'[t].pc = "none"
  <2>1. /\ Party("none") \in Syncers /\ Party("none").pc = "none"
        /\ Real(Party("none").vals, newest)
    BY PartyTyped, TypedParts DEF SyStates
  <2> QED
    BY <1>1, <2>1, TypedParts
<1>3. SyTyped'
  <2>1. sy' \in [Terminals -> Syncers]
    BY <1>1, <1>2
  <2> QED
    BY <1>1, <1>2, <2>1 DEF SyTyped
<1>4. WellTyped'
  BY <1>1, <1>3, FrameTyped DEF WellTyped
<1> QED
  BY <1>1, <1>2, <1>4

FileEdit(t, p) ==
  /\ p \in Files /\ newest' = [newest EXCEPT ![p] = @ + 1]
  /\ \E b \in BOOLEAN :
       /\ b \/ home[t][p].there
       /\ home'[t] = [home[t] EXCEPT ![p] = [v |-> newest[p] + 1, there |-> b]]
DirEdit(t, p) ==
  /\ p \in Dirs /\ UNCHANGED newest
  /\ \A f \in Files : In[f] = p => ~home[t][f].there
  /\ home'[t] = [home[t] EXCEPT ![p] = [v |-> 0, there |-> ~home[t][p].there]]

LEMMA EditEffect ==
  ASSUME WellTyped, NEW t \in Terminals, NEW p \in Paths, Edit(t, p)
  PROVE  /\ WellTyped' /\ Others(t) /\ UNCHANGED <<sy, disk, up, orphans, wire, local>>
         /\ cl'[t].pc = cl[t].pc /\ cl'[t].known = Touch(cl[t].known, p)
         /\ cl'[t].ops = cl[t].ops /\ cl'[t].vals = cl[t].vals
         /\ FileEdit(t, p) \/ DirEdit(t, p)
<1> DEFINE x == [cl[t] EXCEPT !.known = Touch(cl[t].known, p)]
<1>0. cl[t] \in Clients /\ home[t] \in Trees /\ newest \in [Files -> Nat]
      /\ home \in [Terminals -> Trees]
  BY TypedParts DEF WellTyped, HomeTyped
<1>1. UNCHANGED <<sy, disk, up, orphans, wire, local>> /\ SetCl(t, x)
  BY DEF Edit
<1>2. /\ x \in Clients /\ x.pc = cl[t].pc /\ x.known = Touch(cl[t].known, p)
      /\ x.ops = cl[t].ops /\ x.vals = cl[t].vals
  <2>1. Touch(cl[t].known, p) \in Knowledge
    BY TypedParts, TouchTyped
  <2>2. x \in Clients
    BY <1>0, <2>1, ClientUpdate
  <2> QED
    BY <1>0, <2>2 DEF Clients, Parties
<1> HIDE DEF x
<1>3. cl' = [cl EXCEPT ![t] = x] /\ cl \in [Terminals -> Clients]
  BY <1>1 DEF SetCl, WellTyped, ClTyped
<1>4. /\ cl'[t] = x /\ \A s \in Terminals \ {t} : cl'[s] = cl[s]
      /\ cl' \in [Terminals -> Clients]
  BY <1>2, <1>3
<1>5. /\ newest' \in [Files -> Nat] /\ \A f \in Files : newest[f] <= newest'[f]
      /\ \A s \in Terminals \ {t} : home'[s] = home[s]
      /\ home'[t] \in Trees /\ Closed(home'[t]) /\ Real(home'[t], newest')
      /\ FileEdit(t, p) \/ DirEdit(t, p)
      /\ home' \in [Terminals -> Trees]
  <2>0. /\ \A f \in Files : home[t][f].v \in Nat /\ home[t][f].v <= newest[f]
        /\ \A d \in Dirs : home[t][d].v = 0
        /\ \A f \in Files : home[t][f].there /\ In[f] # Home => home[t][In[f]].there
    <3>1. Real(home[t], newest) /\ Closed(home[t])
      BY TypedParts
    <3>2. \A f \in Files : home[t][f] \in Entries
      BY <1>0, PathFacts DEF Trees
    <3> QED
      BY <3>1, <3>2 DEF Real, Closed, Entries
  <2>1. CASE /\ p \in Files /\ (In[p] # Home => home[t][In[p]].there)
             /\ \E b \in BOOLEAN :
                  /\ b \/ home[t][p].there
                  /\ home' = [home EXCEPT ![t][p] = [v |-> newest[p] + 1, there |-> b]]
             /\ newest' = [newest EXCEPT ![p] = @ + 1]
    <3>1. PICK b \in BOOLEAN : /\ b \/ home[t][p].there
             /\ home' = [home EXCEPT ![t][p] = [v |-> newest[p] + 1, there |-> b]]
      BY <2>1
    <3> DEFINE e == [v |-> newest[p] + 1, there |-> b]
    <3>2. e \in Entries /\ e.v = newest[p] + 1
      BY <1>0, <2>1 DEF Entries
    <3>3. home' = [home EXCEPT ![t][p] = e]
      BY <3>1
    <3> HIDE DEF e
    <3>4. home'[t] = [home[t] EXCEPT ![p] = e] /\ \A s \in Terminals \ {t} : home'[s] = home[s]
      BY <1>0, <3>3
    <3>5. [home[t] EXCEPT ![p] = e] \in Trees
      BY <1>0, <3>2 DEF Trees
    <3>6. home' \in [Terminals -> Trees]
      BY <1>0, <3>3, <3>5
    <3>7. newest' \in [Files -> Nat] /\ \A f \in Files : newest[f] <= newest'[f]
      BY <1>0, <2>1
    <3>8. ASSUME NEW q \in Paths PROVE home'[t][q] = IF q = p THEN e ELSE home[t][q]
      BY <1>0, <3>4 DEF Trees
    <3>9. ASSUME NEW f \in Files PROVE home'[t][f].v <= newest'[f]
      <4>1. CASE f = p
        BY <1>0, <2>1, <3>2, <3>8, <4>1
      <4>2. CASE f # p
        <5>1. home'[t][f] = home[t][f] /\ newest'[f] = newest[f]
          BY <1>0, <2>1, <3>8, <4>2, PathFacts
        <5> QED
          BY <2>0, <5>1
      <4> QED
        BY <4>1, <4>2
    <3>10. ASSUME NEW d \in Dirs PROVE home'[t][d] = home[t][d]
      BY <2>1, <3>8, PathFacts
    <3>11. ASSUME NEW f \in Files, home'[t][f].there, In[f] # Home
           PROVE  home'[t][In[f]].there
      <4>1. In[f] \in Dirs
        BY <3>11, PathFacts
      <4>2. home'[t][In[f]] = home[t][In[f]]
        BY <3>10, <4>1
      <4>3. CASE f = p
        BY <2>1, <3>11, <4>2, <4>3
      <4>4. CASE f # p
        BY <2>0, <3>8, <3>11, <4>2, <4>4, PathFacts
      <4> QED
        BY <4>3, <4>4
    <3>12. Closed(home'[t])
      BY <3>11 DEF Closed
    <3>13. Real(home'[t], newest')
      BY <2>0, <3>4, <3>5, <3>9, <3>10 DEF Real
    <3>14. FileEdit(t, p)
      BY <2>1, <3>1, <3>4 DEF FileEdit, e
    <3> QED
      BY <3>4, <3>5, <3>6, <3>7, <3>12, <3>13, <3>14
  <2>2. CASE /\ p \in Dirs /\ \A f \in Files : In[f] = p => ~home[t][f].there
             /\ home' = [home EXCEPT ![t][p].there = ~@]
             /\ UNCHANGED newest
    <3> DEFINE e == [v |-> 0, there |-> ~home[t][p].there]
    <3>1. home[t][p] \in Entries /\ home[t][p].v = 0
      BY <1>0, <2>0, <2>2 DEF Trees
    <3>2. [home[t][p] EXCEPT !.there = ~@] = e /\ e \in Entries /\ e.v = 0
      BY <3>1 DEF Entries
    <3>3. home' = [home EXCEPT ![t][p] = e]
      BY <1>0, <2>2, <3>2
    <3> HIDE DEF e
    <3>4. home'[t] = [home[t] EXCEPT ![p] = e] /\ \A s \in Terminals \ {t} : home'[s] = home[s]
      BY <1>0, <3>3
    <3>5. [home[t] EXCEPT ![p] = e] \in Trees
      BY <1>0, <3>2 DEF Trees
    <3>6. home' \in [Terminals -> Trees]
      BY <1>0, <3>3, <3>5
    <3>7. newest' \in [Files -> Nat] /\ \A f \in Files : newest[f] <= newest'[f]
      BY <1>0, <2>2
    <3>8. ASSUME NEW q \in Paths PROVE home'[t][q] = IF q = p THEN e ELSE home[t][q]
      BY <1>0, <3>4 DEF Trees
    <3>9. ASSUME NEW f \in Files PROVE home'[t][f] = home[t][f]
      BY <2>2, <3>8, PathFacts
    <3>10. ASSUME NEW d \in Dirs PROVE home'[t][d].v = 0
      BY <2>0, <3>2, <3>8, PathFacts
    <3>11. ASSUME NEW f \in Files, home'[t][f].there, In[f] # Home
           PROVE  home'[t][In[f]].there
      <4>1. In[f] \in Dirs /\ In[f] \in Paths
        BY <3>11, PathFacts
      <4>2. In[f] # p
        BY <2>2, <3>9, <3>11
      <4> QED
        BY <2>0, <3>8, <3>9, <3>11, <4>1, <4>2
    <3>12. Closed(home'[t])
      BY <3>11 DEF Closed
    <3>13. Real(home'[t], newest')
      BY <2>0, <2>2, <3>4, <3>5, <3>9, <3>10 DEF Real
    <3>14. DirEdit(t, p)
      BY <2>2, <3>4 DEF DirEdit, e
    <3> QED
      BY <3>4, <3>5, <3>6, <3>7, <3>12, <3>13, <3>14
  <2> QED
    BY <2>1, <2>2 DEF Edit
<1>6. ASSUME NEW dir, Real(dir, newest) PROVE Real(dir, newest')
  BY <1>0, <1>5, <1>6, RealGrows
<1>7. HomeTyped'
  <2>1. ASSUME NEW s \in Terminals PROVE Real(home'[s], newest') /\ Closed(home'[s])
    <3>1. CASE s = t
      BY <1>5, <3>1
    <3>2. CASE s # t
      BY <1>5, <1>6, <3>2, TypedParts
    <3> QED
      BY <3>1, <3>2
  <2> QED
    BY <1>5, <2>1 DEF HomeTyped
<1>8. DiskTyped'
  BY <1>1, <1>6 DEF WellTyped, DiskTyped
<1>9. ClTyped'
  <2>1. ASSUME NEW s \in Terminals PROVE Real(cl'[s].vals, newest')
    <3>1. cl'[s].vals = cl[s].vals
      BY <1>2, <1>4
    <3> QED
      BY <1>6, <3>1, TypedParts
  <2> QED
    BY <1>4, <2>1 DEF ClTyped
<1>10. SyTyped'
  <2>1. ASSUME NEW s \in Terminals PROVE Real(sy'[s].vals, newest')
    BY <1>1, <1>6, TypedParts
  <2> QED
    BY <1>1, <2>1 DEF WellTyped, SyTyped
<1>11. WireTyped'
  <2>1. ASSUME NEW s \in Terminals, wire'[s] # None PROVE Real(wire'[s].vals, newest')
    BY <1>1, <1>6, <2>1, TypedParts
  <2> QED
    BY <1>1, <2>1 DEF WellTyped, WireTyped
<1>12. RestTyped'
  BY <1>1, <1>5 DEF WellTyped, RestTyped
<1>13. WellTyped'
  BY <1>7, <1>8, <1>9, <1>10, <1>11, <1>12 DEF WellTyped
<1> QED
  BY <1>1, <1>2, <1>4, <1>5, <1>13 DEF Others

LEMMA CutEffect ==
  ASSUME WellTyped, NEW t \in Terminals, Cut(t)
  PROVE  /\ WellTyped' /\ Others(t) /\ ~up'[t] /\ orphans' = orphans \cup {t}
         /\ wire'[t] = wire[t] \/ wire'[t] = None
         /\ UNCHANGED <<home, cl, sy, disk, newest, local>>
<1>1. UNCHANGED <<home, cl, sy, disk, newest, local>> /\ Close(t)
  BY DEF Cut
<1>2. /\ WireTyped' /\ wire'[t] \in {wire[t], None}
      /\ \A s \in Terminals \ {t} : wire'[s] = wire[s]
  <2>1. CASE wire' = wire
    BY <1>1, <2>1, FrameTyped
  <2>2. CASE wire' = [wire EXCEPT ![t] = None]
    BY <1>1, <2>2, WireSet
  <2> QED
    BY <2>1, <2>2 DEF Cut
<1>3. /\ RestTyped' /\ ~up'[t] /\ orphans' = orphans \cup {t}
      /\ \A s \in Terminals \ {t} : up'[s] = up[s]
  BY <1>1, CloseTyped
<1>4. WellTyped'
  BY <1>1, <1>2, <1>3, FrameTyped DEF WellTyped
<1> QED
  BY <1>1, <1>2, <1>3, <1>4 DEF Others

LEMMA ClientCrashEffect ==
  ASSUME WellTyped, NEW t \in Terminals, ClientCrash(t)
  PROVE  /\ WellTyped' /\ Others(t) /\ ~up'[t] /\ orphans' = orphans \cup {t}
         /\ cl'[t].pc = "off" /\ (wire'[t] = wire[t] \/ wire'[t] = None)
         /\ UNCHANGED <<home, sy, disk, newest, local>>
<1>1. UNCHANGED <<home, sy, disk, newest, local>> /\ Close(t) /\ SetCl(t, Party("off"))
  BY DEF ClientCrash
<1>2. Party("off") \in Clients /\ Real(Party("off").vals, newest) /\ Party("off").pc = "off"
  BY PartyTyped, TypedParts DEF ClStates
<1>3. ClTyped' /\ cl'[t] = Party("off") /\ \A s \in Terminals \ {t} : cl'[s] = cl[s]
  BY <1>1, <1>2, ClSet
<1> DEFINE m == IF wire[t] # None /\ wire[t].to = "client" THEN None ELSE wire[t]
<1>4. wire' = [wire EXCEPT ![t] = m]
  BY DEF ClientCrash
<1>5. m \in {wire[t], None} /\ wire[t] \in Packs \cup {None}
  BY TypedParts
<1> HIDE DEF m
<1>6. WireTyped' /\ wire'[t] = m /\ \A s \in Terminals \ {t} : wire'[s] = wire[s]
  BY <1>1, <1>4, <1>5, WireSet, TypedParts
<1>7. /\ RestTyped' /\ ~up'[t] /\ orphans' = orphans \cup {t}
      /\ \A s \in Terminals \ {t} : up'[s] = up[s]
  BY <1>1, CloseTyped
<1>8. WellTyped'
  BY <1>1, <1>3, <1>6, <1>7, FrameTyped DEF WellTyped
<1> QED
  BY <1>1, <1>2, <1>3, <1>5, <1>6, <1>7, <1>8 DEF Others

LEMMA ServerCrashEffect ==
  ASSUME WellTyped, ServerCrash
  PROVE  /\ WellTyped' /\ orphans' = Terminals
         /\ \A t \in Terminals : /\ sy'[t].pc = "none" /\ ~up'[t]
                                 /\ wire'[t] # None => wire'[t].to = "client"
         /\ UNCHANGED <<home, cl, disk, newest, local>>
<1>1. /\ UNCHANGED <<home, cl, disk, newest, local>>
      /\ sy' = [t \in Terminals |-> Party("none")]
      /\ up' = [t \in Terminals |-> FALSE] /\ orphans' = Terminals
      /\ wire' = [t \in Terminals |-> IF wire[t] # None /\ wire[t].to = "server"
                                      THEN None ELSE wire[t]]
  BY DEF ServerCrash
<1>2. ASSUME NEW t \in Terminals
      PROVE  /\ sy'[t] \in Syncers /\ Real(sy'[t].vals, newest) /\ sy'[t].pc = "none"
             /\ wire'[t] \in Packs \cup {None} /\ (wire'[t] # None => Real(wire'[t].vals, newest))
             /\ wire'[t] # None => wire'[t].to = "client"
  <2>1. sy'[t] = Party("none")
    BY <1>1
  <2>2. /\ Party("none") \in Syncers /\ Party("none").pc = "none"
        /\ Real(Party("none").vals, newest)
    BY PartyTyped, TypedParts DEF SyStates
  <2>3. wire'[t] = IF wire[t] # None /\ wire[t].to = "server" THEN None ELSE wire[t]
    BY <1>1
  <2> QED
    BY <2>1, <2>2, <2>3, TypedParts
<1>3. SyTyped'
  <2>1. sy' = [t \in Terminals |-> sy'[t]]
    BY <1>1
  <2> QED
    BY <1>1, <1>2, <2>1 DEF SyTyped
<1>4. WireTyped'
  <2>1. wire' = [t \in Terminals |-> wire'[t]]
    BY <1>1
  <2> QED
    BY <1>1, <1>2, <2>1 DEF WireTyped
<1>5. RestTyped'
  BY <1>1 DEF WellTyped, RestTyped
<1>6. WellTyped'
  BY <1>1, <1>3, <1>4, <1>5, FrameTyped DEF WellTyped
<1> QED
  BY <1>1, <1>2, <1>6
-----------------------------------------------------------------------------
(* Every step keeps the types.                                               *)

LEMMA TypedStep ==
  ASSUME WellTyped, Tracked, [Next]_vars
  PROVE  WellTyped'
<1>0. LeftOK /\ WriterOK
  BY DEF Tracked
<1>1. ASSUME NEW t \in Terminals, ClientStep(t) PROVE WellTyped'
  <2>1. ASSUME NEW p \in Paths, ClientApply(t, p) \/ WriteEntry(t, p) PROVE WellTyped'
    BY <2>1, ClientApplyEffect, WriteEntryEffect
  <2>2. CASE Connect(t) \/ ClientReply(t) \/ ClientData(t) \/ ClientApplied(t) \/ ClientTurn(t)
    BY <2>2, ConnectEffect, ClientReplyEffect, ClientDataEffect, ClientAppliedEffect,
       ClientTurnEffect
  <2>3. CASE WriteContent(t) \/ ClientWrite(t) \/ ClientJunk(t) \/ ClientBroken(t)
    BY <1>0, <2>3, WriteContentEffect, ClientWriteEffect, ClientJunkEffect, ClientBrokenEffect
  <2> QED
    BY <1>1, <2>1, <2>2, <2>3 DEF ClientStep
<1>2. ASSUME NEW t \in Terminals, SyncerStep(t) PROVE WellTyped'
  <2>1. ASSUME NEW p \in Paths, SyncerApply(t, p) PROVE WellTyped'
    BY <2>1, SyncerApplyEffect
  <2>2. CASE SyncerTurn(t) \/ SyncerMeddled(t) \/ SyncerData(t) \/ SyncerJunk(t)
    BY <2>2, SyncerTurnEffect, SyncerMeddledEffect, SyncerDataEffect, SyncerJunkEffect
  <2>3. CASE SyncerApplied(t) \/ SyncerBroken(t) \/ SyncerEnds(t)
    BY <2>3, SyncerAppliedEffect, SyncerBrokenEffect, SyncerEndsEffect
  <2> QED
    BY <1>2, <2>1, <2>2, <2>3 DEF SyncerStep
<1>3. ASSUME NEW t \in Terminals,
             Start(t) \/ Abort(t) \/ Accept(t) \/ Cut(t) \/ ClientCrash(t)
      PROVE  WellTyped'
  BY <1>3, StartEffect, AbortEffect, AcceptEffect, CutEffect, ClientCrashEffect
<1>4. ASSUME NEW t \in Terminals, NEW p \in Paths, Edit(t, p) PROVE WellTyped'
  BY <1>4, EditEffect
<1>5. CASE LateStep \/ garbageCollection \/ ServerCrash \/ CancelSyncers
  BY <1>0, <1>5, LateEffect, GarbageEffect, ServerCrashEffect
<1>6. CASE UNCHANGED vars
  <2>1. UNCHANGED <<home, cl, sy, disk, up, orphans, wire, newest, local>>
    BY <1>6 DEF vars
  <2> QED
    BY <2>1, FrameTyped DEF WellTyped
<1> QED
  BY <1>1, <1>2, <1>3, <1>4, <1>5, <1>6 DEF Next

\* Disorder is for good, and few steps concern the cancelled syncers.
Flags == /\ FlagsTyped' /\ (overlap => overlap') /\ (garbled => garbled')
         /\ \/ UNCHANGED left \/ left' = <<>> \/ LateStep
            \/ \E t \in Terminals : Accept(t)
         /\ UNCHANGED newest \/ \E t \in Terminals, p \in Paths : Edit(t, p)

LEMMA FlagsStep ==
  ASSUME FlagsTyped, [Next]_vars
  PROVE  Flags
<1>0. ASSUME UNCHANGED <<syncing, newest, garbled>> PROVE Flags
  BY <1>0 DEF Flags, FlagsTyped, syncing
<1>1. ASSUME NEW t \in Terminals, ClientStep(t) PROVE Flags
  <2>1. CASE Connect(t) \/ ClientReply(t) \/ ClientData(t) \/ ClientApplied(t)
    BY <1>0, <2>1 DEF Connect, ClientReply, ClientData, ClientApplied, writing
  <2>2. CASE ClientTurn(t) \/ ClientWrite(t) \/ ClientJunk(t) \/ ClientBroken(t)
    BY <1>0, <2>2 DEF ClientTurn, ClientWrite, ClientJunk, ClientBroken, writing
  <2>3. ASSUME NEW p \in Paths, ClientApply(t, p) \/ WriteEntry(t, p) PROVE Flags
    BY <1>0, <2>3 DEF ClientApply, WriteEntry, writing
  <2>4. CASE WriteContent(t)
    <3>1. UNCHANGED <<syncing, newest>> /\ \E fit \in BOOLEAN : garbled' = (garbled \/ ~fit)
      BY <2>4 DEF WriteContent
    <3> QED
      BY <3>1 DEF Flags, FlagsTyped, syncing
  <2> QED
    BY <1>1, <2>1, <2>2, <2>3, <2>4 DEF ClientStep
<1>2. ASSUME NEW t \in Terminals, SyncerStep(t) PROVE Flags
  <2>1. CASE SyncerData(t) \/ SyncerJunk(t)
    BY <1>0, <2>1 DEF SyncerData, SyncerJunk, writing
  <2>2. ASSUME NEW p \in Paths, SyncerApply(t, p) PROVE Flags
    BY <1>0, <2>2 DEF SyncerApply, writing
  <2>3. ASSUME UNCHANGED <<newest, list, left, overlap>>, ending' \subseteq ending \cup {t},
               garbled' = garbled \/ garbled' = TRUE
        PROVE  Flags
    <3>1. list' \subseteq Terminals /\ ending' \subseteq Terminals /\ overlap' \in BOOLEAN
      BY <2>3 DEF FlagsTyped
    <3>2. garbled' \in BOOLEAN
      BY <2>3 DEF FlagsTyped
    <3>3. garbled => garbled'
      BY <2>3
    <3> QED
      BY <2>3, <3>1, <3>2, <3>3 DEF Flags, FlagsTyped
  <2>4. CASE SyncerTurn(t) \/ SyncerMeddled(t) \/ SyncerApplied(t)
    <3>1. Leaves(t) => ending' \subseteq ending \cup {t}
      BY DEF Leaves
    <3>2. /\ UNCHANGED <<newest, list, left, overlap>>
          /\ garbled' = garbled \/ garbled' = TRUE
          /\ Leaves(t) \/ UNCHANGED ending
      BY <2>4 DEF SyncerTurn, SyncerMeddled, SyncerApplied, writing
    <3> QED
      BY <2>3, <3>1, <3>2
  <2>5. CASE SyncerBroken(t) \/ SyncerEnds(t)
    BY <2>3, <2>5 DEF SyncerBroken, SyncerEnds, writing
  <2> QED
    BY <1>2, <2>1, <2>2, <2>4, <2>5 DEF SyncerStep
<1>3. ASSUME NEW t \in Terminals, Start(t) \/ Abort(t) \/ Cut(t) \/ ClientCrash(t) PROVE Flags
  BY <1>0, <1>3 DEF Start, Abort, Cut, ClientCrash, writing
<1>4. ASSUME NEW t \in Terminals, Accept(t) PROVE Flags
  <2>1. CASE list # {}
    BY <1>0, <1>4, <2>1 DEF Accept, writing
  <2>2. CASE ~(list # {})
    <3>1. /\ list' = {t} /\ ending' = ending \ {t} /\ UNCHANGED <<newest, garbled>>
          /\ overlap' = (overlap \/ \E s \in Terminals : sy[s].pc # "none")
      BY <1>4, <2>2 DEF Accept, writing
    <3> QED
      BY <1>4, <3>1 DEF Flags, FlagsTyped
  <2> QED
    BY <2>1, <2>2
<1>5. ASSUME NEW t \in Terminals, NEW p \in Paths, Edit(t, p) PROVE Flags
  <2>1. UNCHANGED <<syncing, writing>>
    BY <1>5 DEF Edit
  <2> QED
    BY <1>5, <2>1 DEF Flags, FlagsTyped, syncing, writing
<1>6. CASE LateStep
  <2>1. UNCHANGED <<newest, list, ending, overlap, garbled>>
    BY <1>6 DEF LateStep, LateApplied, LateApply, writing
  <2> QED
    BY <1>6, <2>1 DEF Flags, FlagsTyped
<1>7. CASE garbageCollection
  <2>1. list' \subseteq list /\ UNCHANGED <<newest, ending, left, overlap, garbled>>
    BY <1>7 DEF garbageCollection, writing
  <2> QED
    BY <2>1 DEF Flags, FlagsTyped
<1>8. CASE ServerCrash
  <2>1. /\ list' = {} /\ ending' = {} /\ left' = <<>>
        /\ UNCHANGED <<newest, overlap, garbled>>
    BY <1>8 DEF ServerCrash, writing
  <2> QED
    BY <2>1 DEF Flags, FlagsTyped
<1>9. CASE CancelSyncers
  <2>1. list' = {} /\ UNCHANGED <<newest, left, overlap, garbled>>
    BY <1>9 DEF CancelSyncers, writing
  <2>2. PICK between \in SUBSET {t \in list : sy[t].pc = "read"} : ending' = ending \cup between
    BY <1>9 DEF CancelSyncers
  <2> QED
    BY <2>1, <2>2 DEF Flags, FlagsTyped
<1>10. CASE UNCHANGED vars
  BY <1>0, <1>10 DEF vars, writing
<1> QED
  BY <1>1, <1>2, <1>3, <1>4, <1>5, <1>6, <1>7, <1>8, <1>9, <1>10 DEF Next

LEMMA LeftStep ==
  ASSUME WellTyped, Tracked, [Next]_vars, Flags
  PROVE  LeftOK'
<1>1. /\ newest \in [Files -> Nat] /\ newest' \in [Files -> Nat]
      /\ \A f \in Files : newest[f] <= newest'[f]
  <2>1. newest \in [Files -> Nat] /\ newest' \in [Files -> Nat]
    BY TypedStep DEF WellTyped, RestTyped
  <2>2. CASE UNCHANGED newest
    BY <2>1, <2>2
  <2>3. ASSUME NEW t \in Terminals, NEW p \in Paths, Edit(t, p)
        PROVE  \A f \in Files : newest[f] <= newest'[f]
    <3>1. UNCHANGED newest \/ newest' = [newest EXCEPT ![p] = @ + 1]
      BY <2>3 DEF Edit
    <3> QED
      BY <2>1, <3>1
  <2> QED
    BY <2>1, <2>2, <2>3 DEF Flags
<1>2. LeftOK
  BY DEF Tracked
<1>3. CASE UNCHANGED left
  <2>1. ASSUME NEW i \in DOMAIN left PROVE Real(left[i].vals, newest')
    BY <1>1, <1>2, RealGrows DEF LeftOK
  <2> QED
    BY <1>2, <1>3, <2>1 DEF LeftOK, Flags
<1>4. CASE left' = <<>>
  BY <1>4 DEF LeftOK
<1>5. CASE LateStep
  BY <1>2, <1>5, LateEffect
<1>6. ASSUME NEW t \in Terminals, Accept(t) PROVE LeftOK'
  <2>1. CASE left' = Append(left, sy[t]) /\ sy[t].pc = "apply"
             /\ overlap' = (overlap \/ \E s \in Terminals : sy[s].pc # "none")
    <3>1. sy[t] \in Syncers /\ Real(sy[t].vals, newest) /\ UNCHANGED newest /\ overlap'
      BY <1>6, <2>1, TypedParts DEF Accept
    <3>2. left \in Seq(Syncers) /\ \A i \in DOMAIN left : Real(left[i].vals, newest)
      BY <1>2 DEF LeftOK
    <3>3. /\ left' \in Seq(Syncers) /\ Len(left') = Len(left) + 1
          /\ \A i \in 1 .. Len(left) : left'[i] = left[i]
          /\ left'[Len(left) + 1] = sy[t]
      BY <2>1, <3>1, <3>2, AppendProperties
    <3>4. ASSUME NEW i \in DOMAIN left' PROVE Real(left'[i].vals, newest')
      <4>1. i \in 1 .. Len(left) \/ i = Len(left) + 1
        BY <3>2, <3>3
      <4> QED
        BY <3>1, <3>2, <3>3, <4>1
    <3> QED
      BY <3>1, <3>3, <3>4 DEF LeftOK
  <2>2. CASE UNCHANGED left
    BY <1>3, <2>2
  <2> QED
    BY <1>6, <2>1, <2>2 DEF Accept, syncing
<1> QED
  BY <1>3, <1>4, <1>5, <1>6 DEF Flags

\* The writers of the others, and of a terminal that does not write.
ClKeeps == \A t \in Terminals : cl'[t].pc = "write" =>
             cl[t].pc = "write" /\ cl'[t].ops = cl[t].ops

LEMMA WriterKept ==
  ASSUME WriterOK, Flags, UNCHANGED writer, ClKeeps
  PROVE  WriterOK'
  BY DEF WriterOK, Flags, ClKeeps

LEMMA WriterSet ==
  ASSUME WriterOK, Flags, NEW t \in Terminals, NEW w \in Writers,
         writer' = [writer EXCEPT ![t] = w], w.fit \/ garbled',
         cl'[t].pc = "write" /\ w.open # None => cl'[t].ops[w.open] \in {"ADD", "MOD"},
         \A s \in Terminals \ {t} : cl'[s] = cl[s]
  PROVE  WriterOK'
<1>1. /\ writer' \in [Terminals -> Writers] /\ writer'[t] = w
      /\ \A s \in Terminals \ {t} : writer'[s] = writer[s]
  BY DEF WriterOK
<1> QED
  BY <1>1 DEF WriterOK, Flags

LEMMA UnwrittenTyped ==
  Unwritten \in Writers /\ Unwritten.fit /\ Unwritten.open = None
  BY DEF Unwritten, Writers

LEMMA ClientWriterStep ==
  ASSUME WellTyped, Tracked, Flags, NEW t \in Terminals, ClientStep(t)
  PROVE  WriterOK'
<1>0. WriterOK
  BY DEF Tracked
<1>1. CASE Connect(t) \/ ClientReply(t) \/ ClientData(t) \/ ClientApplied(t) \/ ClientBroken(t)
  <2>1. ClKeeps
    BY <1>1, ConnectEffect, ClientReplyEffect, ClientDataEffect, ClientAppliedEffect,
       ClientBrokenEffect DEF ClKeeps, Others
  <2>2. UNCHANGED writer
    BY <1>1 DEF Connect, ClientReply, ClientData, ClientApplied, ClientBroken, writing
  <2> QED
    BY <1>0, <2>1, <2>2, WriterKept
<1>2. CASE ClientJunk(t)
  <2>1. UNCHANGED writer /\ ClKeeps
    BY <1>2, ClientJunkEffect DEF ClientJunk, writing, ClKeeps
  <2> QED
    BY <1>0, <2>1, WriterKept
<1>3. ASSUME NEW p \in Paths, ClientApply(t, p) PROVE WriterOK'
  <2>1. UNCHANGED writer
    BY <1>3 DEF ClientApply, writing
  <2>2. Others(t) /\ cl'[t].pc \in {"connect", "apply"}
    BY <1>3, ClientApplyEffect
  <2>3. ClKeeps
    BY <2>2 DEF ClKeeps, Others
  <2> QED
    BY <1>0, <2>1, <2>3, WriterKept
<1>4. CASE ClientTurn(t)
  <2>1. CASE checkDiff(cl[t].known, home[t])
    <3>1. UNCHANGED <<writer, cl>>
      BY <1>4, <2>1 DEF ClientTurn
    <3> QED
      BY <1>0, <3>1, WriterKept DEF ClKeeps
  <2>2. CASE ~checkDiff(cl[t].known, home[t])
    <3>1. writer' = [writer EXCEPT ![t] = Unwritten]
      BY <1>4, <2>2 DEF ClientTurn
    <3>2. \A s \in Terminals \ {t} : cl'[s] = cl[s]
      BY <1>4, ClientTurnEffect DEF Others
    <3> QED
      BY <1>0, <3>1, <3>2, WriterSet, UnwrittenTyped
  <2> QED
    BY <2>1, <2>2
<1>5. ASSUME NEW p \in Paths, WriteEntry(t, p) PROVE WriterOK'
  <2>1. Others(t) /\ cl[t].ops[p] \in {"ADD", "MOD"}
    BY <1>5, WriteEntryEffect
  <2>2. CASE ~home[t][p].there
    <3>1. Reconnect(t) /\ UNCHANGED <<writer, newest>>
      BY <1>5, <2>2 DEF WriteEntry
    <3>2. ClKeeps
      BY <2>1, <3>1, ReconnectEffect DEF ClKeeps, Others
    <3> QED
      BY <1>0, <3>1, <3>2, WriterKept
  <2>3. CASE home[t][p].there
    <3> DEFINE open == IF p \in Files THEN p ELSE None
               w == [writer[t] EXCEPT !.open = open, !.done = @ \cup {p}]
    <3>1. writer' = [writer EXCEPT ![t].open = open, ![t].done = @ \cup {p}]
      BY <1>5, <2>3 DEF WriteEntry
    <3>2. writer[t] \in Writers /\ writer \in [Terminals -> Writers]
      BY <1>0 DEF WriterOK
    <3>3. open \in Files \cup {None}
      OBVIOUS
    <3> HIDE DEF open
    <3>4. w \in Writers /\ w.open = open /\ w.fit = writer[t].fit
      BY <3>2, <3>3 DEF Writers
    <3>5. writer' = [writer EXCEPT ![t] = w]
      BY <3>1, <3>2
    <3>6. SetCl(t, [cl[t] EXCEPT !.vals[p] = home[t][p]]) /\ UNCHANGED newest /\ cl[t].pc = "write"
      BY <1>5, <2>3 DEF WriteEntry
    <3>7. cl'[t].ops = cl[t].ops
      <4> DEFINE v == home[t][p]
      <4>1. v \in {cl[t].vals[p], home[t][p]} /\ SetCl(t, [cl[t] EXCEPT !.vals[p] = v])
        BY <3>6
      <4> HIDE DEF v
      <4>2. Rewritten(t, p, v)
        BY <3>6, <4>1, RewriteEffect
      <4> QED
        BY <4>2 DEF Rewritten
    <3>8. open # None => open = p
      BY DEF open
    <3>9. w.fit \/ garbled'
      BY <1>0, <3>4 DEF WriterOK, Flags
    <3> HIDE DEF w
    <3>10. w.open # None => cl'[t].ops[w.open] \in {"ADD", "MOD"}
      BY <2>1, <3>4, <3>7, <3>8
    <3> QED
      BY <1>0, <2>1, <3>4, <3>5, <3>9, <3>10, WriterSet DEF Others
  <2> QED
    BY <2>2, <2>3
<1>6. CASE WriteContent(t)
  <2>1. PICK fit \in BOOLEAN :
          /\ writer' = [writer EXCEPT ![t].open = None, ![t].fit = @ /\ fit]
          /\ garbled' = (garbled \/ ~fit)
    BY <1>6 DEF WriteContent
  <2> DEFINE w == [writer[t] EXCEPT !.open = None, !.fit = @ /\ fit]
  <2>2. writer[t] \in Writers /\ writer \in [Terminals -> Writers]
    BY <1>0 DEF WriterOK
  <2>3. w \in Writers /\ w.open = None /\ w.fit = (writer[t].fit /\ fit)
    BY <2>2 DEF Writers
  <2>4. writer' = [writer EXCEPT ![t] = w]
    BY <2>1, <2>2
  <2> HIDE DEF w
  <2>5. w.fit \/ garbled'
    BY <1>0, <2>1, <2>3 DEF WriterOK
  <2>6. Others(t)
    BY <1>0, <1>6, WriteContentEffect
  <2> QED
    BY <1>0, <2>3, <2>4, <2>5, <2>6, WriterSet DEF Others
<1>7. CASE ClientWrite(t)
  <2>1. Others(t) /\ writer' = [writer EXCEPT ![t] = Unwritten]
    BY <1>7, ClientWriteEffect DEF ClientWrite
  <2> QED
    BY <1>0, <2>1, WriterSet, UnwrittenTyped DEF Others
<1> QED
  BY <1>1, <1>2, <1>3, <1>4, <1>5, <1>6, <1>7 DEF ClientStep

LEMMA WriterStep ==
  ASSUME WellTyped, Tracked, [Next]_vars, Flags
  PROVE  WriterOK'
<1>0. WriterOK /\ LeftOK
  BY DEF Tracked
<1>1. ASSUME UNCHANGED <<cl, writer>> PROVE WriterOK'
  BY <1>0, <1>1, WriterKept DEF ClKeeps
<1>2. ASSUME NEW t \in Terminals, SyncerStep(t) PROVE WriterOK'
  <2>1. CASE SyncerTurn(t) \/ SyncerMeddled(t) \/ SyncerData(t) \/ SyncerJunk(t)
    BY <1>1, <2>1 DEF SyncerTurn, SyncerMeddled, SyncerData, SyncerJunk, writing
  <2>2. CASE SyncerApplied(t) \/ SyncerBroken(t) \/ SyncerEnds(t)
    BY <1>1, <2>2 DEF SyncerApplied, SyncerBroken, SyncerEnds, writing
  <2>3. ASSUME NEW p \in Paths, SyncerApply(t, p) PROVE WriterOK'
    BY <1>1, <2>3 DEF SyncerApply, writing
  <2> QED
    BY <1>2, <2>1, <2>2, <2>3 DEF SyncerStep
<1>3. ASSUME NEW t \in Terminals,
             \/ Start(t) \/ Abort(t) \/ Cut(t) \/ ClientCrash(t)
             \/ \E p \in Paths : Edit(t, p)
      PROVE  WriterOK'
  <2>1. UNCHANGED writer
    BY <1>3 DEF Start, Abort, Cut, ClientCrash, Edit, writing
  <2>2. CASE Start(t) \/ Abort(t) \/ Cut(t) \/ ClientCrash(t)
    <3>1. ClKeeps
      BY <2>2, StartEffect, AbortEffect, CutEffect, ClientCrashEffect DEF ClKeeps, Others
    <3> QED
      BY <1>0, <2>1, <3>1, WriterKept
  <2>3. ASSUME NEW p \in Paths, Edit(t, p) PROVE WriterOK'
    <3>1. ClKeeps
      BY <2>3, EditEffect DEF ClKeeps, Others
    <3> QED
      BY <1>0, <2>1, <3>1, WriterKept
  <2> QED
    BY <1>3, <2>2, <2>3
<1>4. ASSUME NEW t \in Terminals, Accept(t) PROVE WriterOK'
  BY <1>1, <1>4 DEF Accept, writing
<1>5. CASE garbageCollection \/ ServerCrash \/ CancelSyncers
  BY <1>1, <1>5 DEF garbageCollection, ServerCrash, CancelSyncers, writing
<1>6. CASE LateStep
  BY <1>0, <1>1, <1>6, LateEffect
<1>7. CASE UNCHANGED vars
  BY <1>1, <1>7 DEF vars, writing
<1> QED
  BY <1>2, <1>3, <1>4, <1>5, <1>6, <1>7, ClientWriterStep DEF Next

\* What is on the wires.
LEMMA WireKept ==
  ASSUME WireOK, Flags, \A t \in Terminals : wire'[t] \in {wire[t], None}
  PROVE  WireOK'
  BY DEF WireOK, PackOK, Flags

LEMMA WireSent ==
  ASSUME WellTyped, WireOK, Flags, NEW t \in Terminals, NEW m, PackOK(m, garbled'),
         Send(t, m) \/ wire' = [wire EXCEPT ![t] = m]
  PROVE  WireOK'
<1>1. wire'[t] \in {m, None} /\ \A s \in Terminals \ {t} : wire'[s] = wire[s]
  BY DEF Send, WellTyped, WireTyped
<1> QED
  BY <1>1 DEF WireOK, PackOK, Flags

LEMMA WireLost ==
  ASSUME WellTyped, WireOK, Flags, NEW t \in Terminals, NEW m, m \in {wire[t], None},
         wire' = [wire EXCEPT ![t] = m]
  PROVE  WireOK'
<1>1. wire'[t] = m /\ \A s \in Terminals \ {t} : wire'[s] = wire[s]
  BY DEF WellTyped, WireTyped
<1> QED
  BY <1>1, WireKept

LEMMA MessageOK ==
  ASSUME NEW ok
  PROVE  /\ \A to \in {"client", "server"} :
              \A head \in {"INIT", "CONFIRM", "QUERY", "NULL"} : PackOK(Message(to, head), ok)
         /\ PackOK(Message("client", "FULL"), ok)
         /\ ok => \A to \in {"client", "server"} : PackOK(Message(to, "JUNK"), ok)
         /\ \A to \in {"client", "server"} : \A x : PackOK(Data(to, x), ok)
  BY DEF PackOK, Message, Data

LEMMA WireStep ==
  ASSUME WellTyped, Tracked, [Next]_vars, Flags
  PROVE  WireOK'
<1>0. WireOK /\ LeftOK /\ WriterOK /\ FlagsTyped
  BY DEF Tracked
<1>1. ASSUME UNCHANGED wire PROVE WireOK'
  BY <1>0, <1>1, WireKept
<1>2. ASSUME NEW t \in Terminals, wire' = [wire EXCEPT ![t] = None] PROVE WireOK'
  BY <1>0, <1>2, WireLost
<1>3. ASSUME NEW t \in Terminals, ClientStep(t) PROVE WireOK'
  <2>1. CASE Connect(t)
    BY <1>0, <2>1, WireSent, MessageOK DEF Connect
  <2>2. CASE ClientReply(t)
    BY <1>0, <1>2, <2>2, WireSent, MessageOK DEF ClientReply
  <2>3. CASE ClientApplied(t)
    BY <1>0, <2>3, WireSent, MessageOK DEF ClientApplied
  <2>4. CASE ClientTurn(t)
    BY <1>0, <1>2, <2>4, WireSent, MessageOK DEF ClientTurn
  <2>5. CASE ClientWrite(t)
    <3> DEFINE m == IF writer[t].fit THEN Data("server", cl[t]) ELSE Message("server", "JUNK")
    <3>1. Send(t, m)
      BY <2>5 DEF ClientWrite
    <3>2. writer[t].fit \/ garbled'
      BY <1>0 DEF WriterOK, Flags
    <3>3. PackOK(m, garbled')
      BY <3>2, MessageOK
    <3> HIDE DEF m
    <3> QED
      BY <1>0, <3>1, <3>3, WireSent
  <2>6. CASE ClientData(t) \/ ClientJunk(t)
    BY <1>2, <2>6 DEF ClientData, ClientJunk
  <2>7. CASE WriteContent(t) \/ ClientBroken(t)
    BY <1>1, <2>7 DEF WriteContent, ClientBroken
  <2>8. ASSUME NEW p \in Paths, ClientApply(t, p) \/ WriteEntry(t, p) PROVE WireOK'
    BY <1>1, <2>8 DEF ClientApply, WriteEntry
  <2> QED
    BY <1>3, <2>1, <2>2, <2>3, <2>4, <2>5, <2>6, <2>7, <2>8 DEF ClientStep
<1>4. ASSUME NEW t \in Terminals, SyncerStep(t) PROVE WireOK'
  <2>1. CASE SyncerTurn(t)
    <3>1. \/ Send(t, Message("client", "NULL"))
          \/ \E x : Send(t, Data("client", x))
      BY <2>1 DEF SyncerTurn
    <3> QED
      BY <1>0, <3>1, WireSent, MessageOK
  <2>2. CASE SyncerMeddled(t)
    <3>1. \/ Send(t, Message("client", "JUNK")) /\ garbled'
          \/ wire' = [wire EXCEPT ![t] = None]
      BY <2>2 DEF SyncerMeddled
    <3> QED
      BY <1>0, <1>2, <3>1, WireSent, MessageOK
  <2>3. CASE SyncerData(t) \/ SyncerJunk(t)
    BY <1>2, <2>3 DEF SyncerData, SyncerJunk
  <2>4. CASE SyncerApplied(t)
    BY <1>0, <1>1, <2>4, WireSent, MessageOK DEF SyncerApplied
  <2>5. CASE SyncerBroken(t)
    BY <1>1, <2>5 DEF SyncerBroken
  <2>6. CASE SyncerEnds(t)
    <3> DEFINE m == IF wire[t] # None /\ wire[t].to = "server" /\ wire[t].head # "INIT"
                    THEN None ELSE wire[t]
    <3>1. wire' = [wire EXCEPT ![t] = m] /\ m \in {wire[t], None}
      BY <2>6 DEF SyncerEnds
    <3> HIDE DEF m
    <3> QED
      BY <1>0, <3>1, WireLost
  <2>7. ASSUME NEW p \in Paths, SyncerApply(t, p) PROVE WireOK'
    BY <1>1, <2>7 DEF SyncerApply
  <2> QED
    BY <1>4, <2>1, <2>2, <2>3, <2>4, <2>5, <2>6, <2>7 DEF SyncerStep
<1>5. ASSUME NEW t \in Terminals,
             Start(t) \/ Abort(t) \/ \E p \in Paths : Edit(t, p)
      PROVE  WireOK'
  BY <1>1, <1>5 DEF Start, Abort, Edit
<1>6. ASSUME NEW t \in Terminals, Cut(t) PROVE WireOK'
  BY <1>1, <1>2, <1>6 DEF Cut
<1>7. ASSUME NEW t \in Terminals, ClientCrash(t) PROVE WireOK'
  <2> DEFINE m == IF wire[t] # None /\ wire[t].to = "client" THEN None ELSE wire[t]
  <2>1. wire' = [wire EXCEPT ![t] = m] /\ m \in {wire[t], None}
    BY <1>7 DEF ClientCrash
  <2> HIDE DEF m
  <2> QED
    BY <1>0, <2>1, WireLost
<1>8. ASSUME NEW t \in Terminals, Accept(t) PROVE WireOK'
  <2>1. Send(t, Message("client", "FULL")) \/ Send(t, Message("client", "CONFIRM"))
    BY <1>8 DEF Accept
  <2> QED
    BY <1>0, <2>1, WireSent, MessageOK
<1>9. CASE ServerCrash
  <2>1. wire' = [t \in Terminals |-> IF wire[t] # None /\ wire[t].to = "server"
                                     THEN None ELSE wire[t]]
    BY <1>9 DEF ServerCrash
  <2> QED
    BY <1>0, <2>1, WireKept
<1>10. CASE LateStep \/ garbageCollection \/ CancelSyncers
  BY <1>0, <1>1, <1>10, LateEffect DEF garbageCollection, CancelSyncers
<1>11. CASE UNCHANGED vars
  BY <1>1, <1>11 DEF vars
<1> QED
  BY <1>3, <1>4, <1>5, <1>6, <1>7, <1>8, <1>9, <1>10, <1>11 DEF Next

LEMMA TrackedStep ==
  ASSUME WellTyped, Tracked, [Next]_vars
  PROVE  Tracked' /\ (InOrder' => InOrder)
<1>1. Flags
  BY FlagsStep DEF Tracked
<1> QED
  BY <1>1, LeftStep, WriterStep, WireStep DEF Tracked, Flags, InOrder, FlagsTyped
-----------------------------------------------------------------------------
(* Moves is kept.                                                            *)

\* A terminal that no step concerns keeps its part of the invariant: when the
\* disk changes, another terminal's syncer is at work and it has none.
LEMMA OthersOK ==
  ASSUME WellTyped, Moves, NEW t \in Terminals, Others(t), NEW s \in Terminals \ {t},
         UNCHANGED disk \/ sy[s].pc = "none"
  PROVE  TerminalOK(s)'
<1>1. /\ home'[s] = home[s] /\ cl'[s] = cl[s] /\ up'[s] = up[s]
      /\ sy'[s] = sy[s] \/ (sy'[s].pc = "none" /\ sy[s].pc = "none")
      /\ s \in orphans' <=> s \in orphans
      /\ wire'[s] = wire[s]
  BY DEF Others
<1>2. TerminalOK(s)
  BY DEF Moves
<1>3. CASE sy[s].pc = "none"
  <2>1. /\ s \in orphans /\ ~(wire[s] # None /\ wire[s].to = "server" /\ wire[s].head = "DATA")
        /\ sy'[s].pc = "none"
    BY <1>1, <1>2, <1>3 DEF TerminalOK, SessionOK, Turns
  <2> QED
    BY <1>1, <1>2, <1>3, <2>1
    DEF TerminalOK, SessionOK, FlightOK, HomeOK, DownloadOK, Synced, Arrived
<1>4. CASE sy[s].pc # "none" /\ UNCHANGED disk /\ sy'[s] = sy[s]
  <2>1. SessionOK(s)'
    BY <1>1, <1>2, <1>4 DEF TerminalOK, SessionOK, Turns, Arrived
  <2>2. FlightOK(s)'
    BY <1>1, <1>2, <1>4 DEF TerminalOK, FlightOK, Fresh, Arrived
  <2>3. HomeOK(s)'
    BY <1>1, <1>2, <1>4 DEF TerminalOK, HomeOK, Synced, Changed, Covers, Arrived
  <2>4. DownloadOK(s)'
    BY <1>1, <1>2, <1>4 DEF TerminalOK, DownloadOK
  <2> QED
    BY <2>1, <2>2, <2>3, <2>4 DEF TerminalOK
<1> QED
  BY <1>1, <1>3, <1>4

\* For a terminal without a confirmed connection little is to be shown.
LEMMA OrphanOK ==
  ASSUME NEW t \in Terminals, t \in orphans',
         up'[t] => /\ cl'[t].pc = "init" /\ wire'[t] # None
                   /\ wire'[t].head \in {"INIT", "FULL"},
         wire'[t] # None /\ wire'[t].to = "server" /\ wire'[t].head \notin {"INIT", "FULL"}
           => sy'[t].pc = "read",
         sy'[t].pc = "apply" /\ wire'[t] # None => wire'[t].head \in {"INIT", "FULL"},
         wire'[t] # None /\ wire'[t].to = "server" /\ wire'[t].head = "DATA" => Fresh(wire[t])',
         sy'[t].pc = "apply" => Fresh(sy[t])'
  PROVE  TerminalOK(t)'
  BY DEF TerminalOK, SessionOK, FlightOK, HomeOK, DownloadOK, Synced, Arrived

\* The same when disk and syncer stay and nothing new is sent.
LEMMA QuietOrphanOK ==
  ASSUME NEW t \in Terminals, t \in orphans', TerminalOK(t), UNCHANGED disk,
         up'[t] => /\ cl'[t].pc = "init" /\ wire'[t] # None
                   /\ wire'[t].head \in {"INIT", "FULL"},
         sy'[t] = sy[t],
         wire'[t] \in {wire[t], None} \/ wire'[t].head \in {"INIT", "FULL"}
  PROVE  TerminalOK(t)'
<1>1. wire'[t] # None /\ wire'[t].to = "server" /\ wire'[t].head = "DATA" => Fresh(wire[t])'
  BY DEF TerminalOK, FlightOK, Fresh, Arrived
<1>2. sy'[t].pc = "apply" => Fresh(sy[t])'
  BY DEF TerminalOK, FlightOK, Fresh
<1>3. wire'[t] # None /\ wire'[t].to = "server" /\ wire'[t].head \notin {"INIT", "FULL"}
           => sy'[t].pc = "read"
  BY DEF TerminalOK, SessionOK
<1>4. sy'[t].pc = "apply" /\ wire'[t] # None => wire'[t].head \in {"INIT", "FULL"}
  BY DEF TerminalOK, SessionOK
<1> QED
  BY <1>1, <1>2, <1>3, <1>4, OrphanOK

\* The client of a connection that is not confirmed waits for the answer.
LEMMA SessionFacts ==
  ASSUME NEW t \in Terminals, TerminalOK(t)
  PROVE  /\ t \notin orphans => up[t] /\ Turns(t)
         /\ cl[t].pc \in {"off", "connect"} => t \in orphans
         /\ t \in orphans /\ cl[t].pc # "init" => ~up[t]
         /\ t \in orphans /\ up[t] => /\ cl[t].pc = "init" /\ wire[t] # None
                                      /\ wire[t].head \in {"INIT", "FULL"}
         /\ sy[t].pc \notin {"read", "apply"} => t \in orphans
  BY DEF TerminalOK, SessionOK, Turns

LEMMA StartMoves ==
  ASSUME WellTyped, NEW t \in Terminals, TerminalOK(t), Start(t)
  PROVE  TerminalOK(t)'
  BY StartEffect, SessionFacts, QuietOrphanOK

LEMMA AbortMoves ==
  ASSUME WellTyped, NEW t \in Terminals, TerminalOK(t), Abort(t)
  PROVE  TerminalOK(t)'
  BY AbortEffect, SessionFacts, QuietOrphanOK

LEMMA ConnectMoves ==
  ASSUME WellTyped, NEW t \in Terminals, TerminalOK(t), Connect(t)
  PROVE  TerminalOK(t)'
<1>1. /\ cl[t].pc = "connect" /\ cl'[t].pc = "init" /\ up'[t]
      /\ wire'[t] = Message("server", "INIT") /\ UNCHANGED <<sy, disk, orphans>>
  BY ConnectEffect
<1>2. t \in orphans
  BY <1>1, SessionFacts
<1>3. wire'[t] # None /\ wire'[t].head = "INIT"
  BY <1>1, MessageTyped, NoneOfPacks
<1> QED
  BY <1>1, <1>2, <1>3, QuietOrphanOK

LEMMA ClientReplyMoves ==
  ASSUME WellTyped, NEW t \in Terminals, TerminalOK(t), ClientReply(t)
  PROVE  TerminalOK(t)'
<1>1. cl[t].pc = "init" /\ up[t] /\ UNCHANGED <<home, sy, disk>>
  BY ClientReplyEffect
<1>2. CASE /\ Arrived(t, "client", "CONFIRM") /\ cl'[t].pc = "query"
           /\ wire'[t] = Message("server", "QUERY") /\ UNCHANGED <<up, orphans>>
  <2>1. t \notin orphans
    BY <1>1, <1>2, SessionFacts DEF Arrived
  <2>2. sy[t].pc = "read" /\ sy[t].known = NoMap
    BY <1>1, <2>1, SessionFacts DEF Turns
  <2>3. wire'[t] # None /\ wire'[t].to = "server" /\ wire'[t].head = "QUERY"
    BY <1>2, MessageTyped, NoneOfPacks
  <2> QED
    BY <1>1, <1>2, <2>1, <2>2, <2>3
    DEF TerminalOK, SessionOK, Turns, FlightOK, HomeOK, DownloadOK, Synced, Arrived
<1>3. CASE /\ Arrived(t, "client", "FULL") /\ cl'[t].pc = "off"
           /\ wire'[t] = None /\ ~up'[t] /\ orphans' = orphans \cup {t}
  BY <1>1, <1>3, QuietOrphanOK
<1> QED
  BY <1>2, <1>3, ClientReplyEffect

LEMMA ClientDataMoves ==
  ASSUME WellTyped, NEW t \in Terminals, TerminalOK(t), ClientData(t)
  PROVE  TerminalOK(t)'
<1>1. /\ cl[t].pc \in {"query", "wait"} /\ Arrived(t, "client", "DATA")
      /\ cl'[t].pc = "apply" /\ cl'[t].ops = wire[t].ops /\ cl'[t].vals = wire[t].vals
      /\ wire'[t] = None
      /\ UNCHANGED <<home, sy, disk, up, orphans>>
  BY ClientDataEffect
<1>2. CASE t \in orphans
  BY <1>1, <1>2, SessionFacts, QuietOrphanOK
<1>3. CASE t \notin orphans
  <2>1. /\ up[t] /\ sy[t].pc = "read" /\ sy[t].known = Scan(disk)
        /\ wire[t].ops = Operations(NoMap, disk) /\ wire[t].vals = disk
    BY <1>1, <1>3, SessionFacts DEF Turns, Arrived
  <2>2. SessionOK(t)'
    BY <1>1, <1>3, <2>1 DEF SessionOK, Turns
  <2>3. ASSUME NEW p \in Paths
        PROVE  Operations(NoMap, disk)[p] = IF disk[p].there THEN "ADD" ELSE "-"
    <3>1. disk[p].there \in BOOLEAN
      BY TypedParts DEF Trees, Entries
    <3> QED
      BY <3>1 DEF Operations, NoMap
  <2>4. DownloadOK(t)'
    <3>1. \A f \in Files : f \in Paths
      BY PathFacts
    <3> QED
      BY <1>1, <2>1, <2>3, <3>1 DEF DownloadOK
  <2>5. FlightOK(t)' /\ HomeOK(t)'
    BY <1>1, <2>1 DEF FlightOK, HomeOK, Synced, Arrived
  <2> QED
    BY <2>2, <2>4, <2>5 DEF TerminalOK
<1> QED
  BY <1>2, <1>3
LEMMA ClientApplyMoves ==
  ASSUME WellTyped, NEW t \in Terminals, NEW p \in Paths, TerminalOK(t), ClientApply(t, p)
  PROVE  TerminalOK(t)'
<1>1. cl[t].pc = "apply" /\ Ready(cl[t], p) /\ UNCHANGED <<sy, disk, wire>>
  BY ClientApplyEffect
<1>2. CASE cl'[t].pc = "connect" /\ ~up'[t] /\ orphans' = orphans \cup {t}
  BY <1>1, <1>2, QuietOrphanOK
<1>3. CASE /\ cl'[t].pc = "apply" /\ cl'[t].ops = [cl[t].ops EXCEPT ![p] = "-"]
           /\ cl'[t].vals = cl[t].vals
           /\ home'[t] = Applied(cl[t], home[t], p)
           /\ UNCHANGED <<up, orphans>>
  <2>1. CASE t \in orphans
    BY <1>1, <1>3, <2>1, SessionFacts, QuietOrphanOK
  <2>2. CASE t \notin orphans
    <3>1. up[t] /\ sy[t].pc = "read" /\ sy[t].known = Scan(disk) /\ wire[t] = None
      BY <1>1, <2>2, SessionFacts DEF Turns
    <3>2. SessionOK(t)'
      BY <1>1, <1>3, <2>2, <3>1 DEF SessionOK, Turns
    <3>3. FlightOK(t)' /\ HomeOK(t)'
      BY <1>1, <1>3, <3>1 DEF FlightOK, HomeOK, Synced, Arrived
    <3>4. /\ cl[t].vals = disk
          /\ \A q \in Paths : cl[t].ops[q] \in {"-", "ADD"}
          /\ \A f \in Files : disk[f].there /\ cl[t].ops[f] # "ADD" => home[t][f].v >= disk[f].v
      BY <1>1, <2>2 DEF TerminalOK, DownloadOK
    <3>5. cl[t].ops \in OpMaps /\ cl[t].vals \in Trees /\ home[t] \in Trees /\ disk \in Trees
      BY TypedParts
    <3>6. cl[t].ops[p] = "ADD"
      BY <1>1, <3>4 DEF Ready, Todo
    <3>7. \A q \in Paths : cl'[t].ops[q] = IF q = p THEN "-" ELSE cl[t].ops[q]
      BY <1>3, <3>5 DEF OpMaps
    <3>8. ASSUME NEW f \in Files, disk[f].there, cl'[t].ops[f] # "ADD"
          PROVE  home'[t][f].v >= disk[f].v
      <4>0. f \in Paths /\ disk[f].v \in Nat
        BY <3>5, PathFacts DEF Trees, Entries
      <4>1. CASE f = p
        <5>1. home'[t] = [home[t] EXCEPT ![p] = cl[t].vals[p]]
          BY <1>3, <3>6, <4>1, AppliedCases
        <5>2. home'[t][f] = disk[f]
          BY <3>4, <3>5, <4>0, <4>1, <5>1 DEF Trees
        <5> QED
          BY <4>0, <5>2
      <4>2. CASE f # p
        <5>1. home[t][f].v >= disk[f].v
          BY <3>4, <3>7, <3>8, <4>0, <4>2
        <5>2. home'[t][f] = home[t][f]
          <6>1. \/ Applied(cl[t], home[t], p)[f] = home[t][f]
                \/ /\ p = f /\ cl[t].ops[f] # "-"
                   /\ Applied(cl[t], home[t], p)[f] = cl[t].vals[f]
                \/ /\ p \in Dirs /\ cl[t].ops[p] = "DEL" /\ In[f] = p /\ home[t][f].there
                   /\ Applied(cl[t], home[t], p)[f] = [v |-> cl[t].vals[f].v, there |-> FALSE]
            BY <3>5, AppliedFile
          <6> QED
            BY <1>3, <3>6, <4>2, <6>1
        <5> QED
          BY <5>1, <5>2
      <4> QED
        BY <4>1, <4>2
    <3>9. DownloadOK(t)'
      BY <1>1, <1>3, <3>4, <3>7, <3>8 DEF DownloadOK
    <3> QED
      BY <3>2, <3>3, <3>9 DEF TerminalOK
  <2> QED
    BY <2>1, <2>2
<1> QED
  BY <1>2, <1>3, ClientApplyEffect

LEMMA ClientAppliedMoves ==
  ASSUME WellTyped, NEW t \in Terminals, TerminalOK(t), ClientApplied(t)
  PROVE  TerminalOK(t)'
<1>1. /\ cl[t].pc = "apply" /\ Todo(cl[t]) = {}
      /\ cl'[t].pc = "wait" /\ cl'[t].known = Scan(home[t])
      /\ wire'[t] = (IF up[t] THEN Message("server", "NULL") ELSE None)
      /\ UNCHANGED <<home, sy, disk, up, orphans>>
  BY ClientAppliedEffect
<1>2. CASE t \in orphans
  <2>1. ~up[t]
    BY <1>1, <1>2, SessionFacts
  <2> QED
    BY <1>1, <1>2, <2>1, QuietOrphanOK
<1>3. CASE t \notin orphans
  <2>1. up[t] /\ sy[t].pc = "read" /\ sy[t].known = Scan(disk)
    BY <1>1, <1>3, SessionFacts DEF Turns
  <2>2. wire'[t] # None /\ wire'[t].to = "server" /\ wire'[t].head = "NULL"
    BY <1>1, <2>1, MessageTyped, NoneOfPacks
  <2>3. SessionOK(t)'
    BY <1>1, <1>3, <2>1, <2>2 DEF SessionOK, Turns, Arrived
  <2>4. FlightOK(t)' /\ DownloadOK(t)'
    BY <1>1, <2>1, <2>2 DEF FlightOK, DownloadOK, Arrived
  <2>5. ASSUME NEW f \in Files PROVE f \in Paths /\ ~Changed(t, f)'
    <3>1. Operations(cl'[t].known, home'[t]) = NoOps /\ f \in Paths
      BY <1>1, ScanIsCurrent, TypedParts, PathFacts
    <3> QED
      BY <3>1 DEF Changed, NoOps
  <2>6. ASSUME NEW f \in Files, disk[f].there PROVE home[t][f].v >= disk[f].v
    <3>1. cl[t].ops[f] = "-"
      BY <1>1, <2>5 DEF Todo
    <3> QED
      BY <1>1, <1>3, <2>6, <3>1 DEF TerminalOK, DownloadOK
  <2>7. HomeOK(t)'
    BY <1>1, <2>1, <2>2, <2>5, <2>6 DEF HomeOK, Arrived
  <2> QED
    BY <2>3, <2>4, <2>7 DEF TerminalOK
<1> QED
  BY <1>2, <1>3

LEMMA ClientTurnMoves ==
  ASSUME WellTyped, NEW t \in Terminals, TerminalOK(t), ClientTurn(t)
  PROVE  TerminalOK(t)'
<1>1. /\ cl[t].pc = "wait" /\ Arrived(t, "client", "NULL")
      /\ UNCHANGED <<home, sy, disk, up, orphans>>
  BY ClientTurnEffect
<1>2. CASE t \in orphans
  <2>1. ~up[t]
    BY <1>1, <1>2, SessionFacts
  <2>2. wire'[t] = None
    BY <2>1, ClientTurnEffect
  <2> QED
    BY <1>1, <1>2, <2>1, <2>2, QuietOrphanOK
<1>3. CASE t \notin orphans
  <2>1. up[t] /\ sy[t].pc = "read" /\ sy[t].known = Scan(disk)
    BY <1>1, <1>3, SessionFacts DEF Turns, Arrived
  <2>2. Synced(t) /\ \A f \in Files : disk[f].there \/ Changed(t, f) => home[t][f].v >= disk[f].v
    BY <1>1, <1>3 DEF TerminalOK, HomeOK, Synced
  <2>3. CASE /\ UNCHANGED cl
             /\ wire'[t] = (IF up[t] THEN Message("server", "NULL") ELSE None)
    <3>1. wire'[t] # None /\ wire'[t].to = "server" /\ wire'[t].head = "NULL"
      BY <2>1, <2>3, MessageTyped, NoneOfPacks
    <3>2. SessionOK(t)'
      BY <1>1, <1>3, <2>1, <2>3, <3>1 DEF SessionOK, Turns, Arrived
    <3>3. FlightOK(t)' /\ DownloadOK(t)'
      BY <1>1, <2>1, <2>3, <3>1 DEF FlightOK, DownloadOK, Arrived
    <3>4. HomeOK(t)'
      BY <1>1, <2>1, <2>2, <2>3, <3>1 DEF HomeOK, Arrived, Changed
    <3> QED
      BY <3>2, <3>3, <3>4 DEF TerminalOK
  <2>4. CASE /\ cl'[t].pc = "write" /\ cl'[t].ops = Operations(cl[t].known, home[t])
             /\ cl'[t].vals = home[t] /\ cl'[t].known = Scan(home[t])
             /\ wire'[t] = None
    <3>1. SessionOK(t)'
      BY <1>1, <1>3, <2>1, <2>4 DEF SessionOK, Turns
    <3>2. Fresh(cl[t])'
      BY <1>1, <2>2, <2>4 DEF Fresh, Changed
    <3>3. FlightOK(t)' /\ DownloadOK(t)'
      BY <1>1, <2>1, <2>4, <3>2 DEF FlightOK, DownloadOK, Arrived
    <3>4. ASSUME NEW f \in Files PROVE f \in Paths /\ ~Changed(t, f)'
      <4>1. Operations(cl'[t].known, home'[t]) = NoOps /\ f \in Paths
        BY <1>1, <2>4, ScanIsCurrent, TypedParts, PathFacts
      <4> QED
        BY <4>1 DEF Changed, NoOps
    <3>5. Covers(t, cl[t])'
      <4>1. \A f \in Files : home[t][f].v \in Nat
        BY TypedParts, PathFacts DEF Trees, Entries
      <4> QED
        BY <1>1, <2>4, <4>1 DEF Covers
    <3>6. HomeOK(t)'
      BY <1>1, <2>1, <2>2, <2>4, <3>4, <3>5 DEF HomeOK, Arrived
    <3> QED
      BY <3>1, <3>3, <3>6 DEF TerminalOK
  <2> QED
    BY <2>3, <2>4, ClientTurnEffect
<1> QED
  BY <1>2, <1>3

LEMMA RewriteMoves ==
  ASSUME WellTyped, NEW t \in Terminals, NEW p \in Paths, NEW v, TerminalOK(t),
         cl[t].pc = "write", v \in {cl[t].vals[p], home[t][p]}, Rewritten(t, p, v),
         UNCHANGED <<home, sy, disk, up, orphans, wire>>
  PROVE  TerminalOK(t)'
<1>1. /\ UNCHANGED <<home, sy, disk, up, orphans, wire>>
      /\ cl[t].pc = "write" /\ cl'[t].pc = "write" /\ cl'[t].known = cl[t].known
      /\ cl'[t].ops = cl[t].ops /\ cl'[t].vals = [cl[t].vals EXCEPT ![p] = v]
  BY DEF Rewritten
<1>2. CASE t \in orphans
  BY <1>1, <1>2, SessionFacts, QuietOrphanOK
<1>3. CASE t \notin orphans
  <2>1. sy[t].pc = "read" /\ sy[t].known = Scan(disk) /\ wire[t] = None /\ up[t]
    BY <1>1, <1>3, SessionFacts DEF Turns
  <2>2. SessionOK(t)'
    BY <1>1, <1>3, <2>1 DEF SessionOK, Turns, Arrived
  <2>3. Fresh(cl[t]) /\ Covers(t, cl[t]) /\ Synced(t)
    BY <1>1, <1>3 DEF TerminalOK, FlightOK, HomeOK, Synced
  <2>4. ASSUME NEW f \in Files
        PROVE  /\ cl[t].vals[f].v <= cl'[t].vals[f].v /\ cl'[t].vals[f].v <= home[t][f].v
               /\ cl'[t].vals[f].v \in Nat /\ cl[t].vals[f].v \in Nat /\ disk[f].v \in Nat
    <3>1. /\ f \in Paths /\ cl[t].vals[f].v \in Nat /\ home[t][f].v \in Nat
          /\ disk[f].v \in Nat /\ cl[t].vals \in Trees
      BY TypedParts, PathFacts DEF Trees, Entries
    <3>2. cl'[t].vals[f] \in {cl[t].vals[f], home[t][f]}
      BY <1>1, <3>1 DEF Trees
    <3>3. cl[t].vals[f].v <= home[t][f].v
      BY <2>3 DEF Covers
    <3> QED
      BY <3>1, <3>2, <3>3
  <2>5. Fresh(cl[t])'
    <3>1. ASSUME NEW f \in Files, cl[t].ops[f] # "-" \/ disk[f].there
          PROVE  cl'[t].vals[f].v >= disk[f].v
      <4>1. cl[t].vals[f].v >= disk[f].v
        BY <2>3, <3>1 DEF Fresh
      <4> QED
        BY <2>4, <4>1
    <3> QED
      BY <1>1, <3>1 DEF Fresh
  <2>6. Covers(t, cl[t])'
    BY <1>1, <2>4 DEF Covers
  <2>7. FlightOK(t)' /\ DownloadOK(t)'
    BY <1>1, <2>1, <2>5 DEF FlightOK, DownloadOK, Arrived
  <2>8. \A f \in Files : disk[f].there \/ Changed(t, f) => home[t][f].v >= disk[f].v
    BY <2>3 DEF TerminalOK, HomeOK
  <2>9. HomeOK(t)'
    BY <1>1, <2>1, <2>6, <2>8 DEF HomeOK, Arrived, Changed
  <2> QED
    BY <2>2, <2>7, <2>9 DEF TerminalOK
<1> QED
  BY <1>2, <1>3

LEMMA WriteEntryMoves ==
  ASSUME WellTyped, NEW t \in Terminals, NEW p \in Paths, TerminalOK(t), WriteEntry(t, p)
  PROVE  TerminalOK(t)'
<1>1. cl[t].pc = "write" /\ UNCHANGED <<home, sy, disk, wire>>
  BY WriteEntryEffect
<1>2. CASE cl'[t].pc = "connect" /\ ~up'[t] /\ orphans' = orphans \cup {t}
  BY <1>1, <1>2, QuietOrphanOK
<1>3. CASE Rewritten(t, p, home[t][p]) /\ UNCHANGED <<up, orphans>>
  BY <1>1, <1>3, RewriteMoves
<1> QED
  BY <1>2, <1>3, WriteEntryEffect

LEMMA WriteContentMoves ==
  ASSUME WellTyped, WriterOK, NEW t \in Terminals, TerminalOK(t), WriteContent(t)
  PROVE  TerminalOK(t)'
<1> DEFINE p == writer[t].open
<1>1. /\ cl[t].pc = "write" /\ p \in Paths /\ UNCHANGED <<home, sy, disk, up, orphans, wire>>
      /\ \E v \in {cl[t].vals[p], home[t][p]} : Rewritten(t, p, v)
  BY WriteContentEffect
<1> HIDE DEF p
<1> QED
  BY <1>1, RewriteMoves

LEMMA ClientWriteMoves ==
  ASSUME WellTyped, NEW t \in Terminals, TerminalOK(t), writer[t].fit, ClientWrite(t)
  PROVE  TerminalOK(t)'
<1>1. /\ cl[t].pc = "write" /\ up[t] /\ UNCHANGED <<home, sy, disk, up, orphans>>
      /\ cl'[t].pc = "wait" /\ cl'[t].known = cl[t].known
      /\ wire'[t] # None /\ wire'[t].to = "server" /\ wire'[t].head = "DATA"
      /\ wire'[t].ops = cl[t].ops /\ wire'[t].vals = cl[t].vals
  BY ClientWriteEffect
<1>2. t \notin orphans
  BY <1>1, SessionFacts
<1>3. sy[t].pc = "read" /\ sy[t].known = Scan(disk)
  BY <1>1, <1>2, SessionFacts DEF Turns
<1>4. SessionOK(t)'
  BY <1>1, <1>2, <1>3 DEF SessionOK, Turns, Arrived
<1>5. Fresh(cl[t]) /\ Covers(t, cl[t]) /\ Synced(t)
  BY <1>1, <1>2 DEF TerminalOK, FlightOK, HomeOK, Synced
<1>6. Fresh(wire[t])' /\ Covers(t, wire[t])'
  BY <1>1, <1>5 DEF Fresh, Covers
<1>7. FlightOK(t)' /\ DownloadOK(t)'
  BY <1>1, <1>3, <1>6 DEF FlightOK, DownloadOK, Arrived
<1>8. \A f \in Files : disk[f].there \/ Changed(t, f) => home[t][f].v >= disk[f].v
  BY <1>5 DEF TerminalOK, HomeOK
<1>9. HomeOK(t)'
  BY <1>1, <1>3, <1>6, <1>8 DEF HomeOK, Arrived, Changed
<1> QED
  BY <1>4, <1>7, <1>9 DEF TerminalOK

LEMMA ClientBrokenMoves ==
  ASSUME WellTyped, NEW t \in Terminals, TerminalOK(t), ClientBroken(t)
  PROVE  TerminalOK(t)'
  BY ClientBrokenEffect, SessionFacts, QuietOrphanOK

LEMMA AcceptMoves ==
  ASSUME WellTyped, NEW t \in Terminals, TerminalOK(t), Accept(t)
  PROVE  TerminalOK(t)'
<1>1. Arrived(t, "server", "INIT") /\ UNCHANGED <<home, cl, disk, up>>
  BY AcceptEffect
<1>2. t \in orphans
  BY <1>1, SessionFacts DEF Turns, Arrived
<1>3. CASE /\ wire'[t] = (IF up[t] THEN Message("client", "FULL") ELSE None)
           /\ UNCHANGED <<sy, orphans>>
  <2>1. up[t] => wire'[t] # None /\ wire'[t].head = "FULL"
    BY <1>3, MessageTyped, NoneOfPacks
  <2>2. ~up[t] => wire'[t] = None
    BY <1>3
  <2> QED
    BY <1>1, <1>2, <1>3, <2>1, <2>2, SessionFacts, QuietOrphanOK
<1>4. CASE /\ wire'[t] = (IF up[t] THEN Message("client", "CONFIRM") ELSE None)
           /\ sy'[t].pc = "read" /\ sy'[t].known = NoMap
           /\ t \in orphans' <=> t \in orphans /\ ~up[t]
  <2>1. CASE up[t]
    <3>1. wire'[t] # None /\ wire'[t].to = "client" /\ wire'[t].head = "CONFIRM"
      BY <1>4, <2>1, MessageTyped, NoneOfPacks
    <3>2. cl[t].pc = "init"
      BY <1>2, <2>1, SessionFacts
    <3> QED
      BY <1>1, <1>4, <2>1, <3>1, <3>2
      DEF TerminalOK, SessionOK, Turns, FlightOK, HomeOK, DownloadOK, Synced, Arrived
  <2>2. CASE ~up[t]
    <3>1. wire'[t] = None /\ t \in orphans' /\ ~up'[t]
      BY <1>1, <1>2, <1>4, <2>2
    <3> QED
      BY <1>4, <3>1, OrphanOK
  <2> QED
    BY <2>1, <2>2
<1> QED
  BY <1>3, <1>4, AcceptEffect
LEMMA SyncerTurnMoves ==
  ASSUME WellTyped, NEW t \in Terminals, TerminalOK(t), SyncerTurn(t)
  PROVE  TerminalOK(t)'
<1>1. /\ sy[t].pc = "read" /\ wire[t] # None /\ wire[t].to = "server"
      /\ wire[t].head \in {"QUERY", "NULL"} /\ UNCHANGED <<home, cl, disk, up, orphans>>
  BY SyncerTurnEffect
<1>2. sy'[t].pc = "read"
  BY <1>1, SyncerTurnEffect
<1>3. CASE t \in orphans
  <2>1. ~up[t]
    BY <1>1, <1>3, SessionFacts
  <2>2. wire'[t] = None
    BY <2>1, SyncerTurnEffect
  <2> QED
    BY <1>1, <1>2, <1>3, <2>1, <2>2, OrphanOK
<1>4. CASE t \notin orphans /\ wire[t].head = "QUERY"
  <2>1. up[t] /\ cl[t].pc = "query" /\ sy[t].known = NoMap
    BY <1>1, <1>4, SessionFacts DEF Turns, Arrived
  <2>2. /\ sy'[t].known = Scan(disk) /\ wire'[t] # None /\ wire'[t].to = "client"
        /\ wire'[t].head = "DATA" /\ wire'[t].ops = Operations(NoMap, disk)
        /\ wire'[t].vals = disk
    BY <1>4, <2>1, SyncerTurnEffect
  <2>3. SessionOK(t)'
    BY <1>1, <1>2, <1>4, <2>1, <2>2 DEF SessionOK, Turns, Arrived
  <2> QED
    BY <1>1, <1>2, <1>4, <2>1, <2>2, <2>3
    DEF TerminalOK, FlightOK, HomeOK, DownloadOK, Synced, Arrived
<1>5. CASE t \notin orphans /\ wire[t].head = "NULL"
  <2>1. up[t] /\ cl[t].pc = "wait" /\ sy[t].known = Scan(disk)
    BY <1>1, <1>5, SessionFacts DEF Turns, Arrived
  <2>2. checkDiff(sy[t].known, disk)
    BY <2>1, ScanIsCurrent, TypedParts DEF checkDiff
  <2>3. UNCHANGED sy /\ wire'[t] = Message("client", "NULL")
    BY <1>5, <2>1, <2>2, SyncerTurnEffect
  <2>4. wire'[t] # None /\ wire'[t].to = "client" /\ wire'[t].head = "NULL"
    BY <2>3, MessageTyped, NoneOfPacks
  <2>5. SessionOK(t)'
    BY <1>1, <1>5, <2>1, <2>3, <2>4 DEF SessionOK, Turns, Arrived
  <2>6. FlightOK(t)' /\ DownloadOK(t)'
    BY <1>1, <1>2, <2>1, <2>4 DEF FlightOK, DownloadOK, Arrived
  <2>7. \A f \in Files : disk[f].there \/ Changed(t, f) => home[t][f].v >= disk[f].v
    BY <1>5, <2>1 DEF TerminalOK, HomeOK, Synced
  <2>8. HomeOK(t)'
    BY <1>1, <1>2, <2>1, <2>4, <2>7 DEF HomeOK, Arrived, Changed
  <2> QED
    BY <2>5, <2>6, <2>8 DEF TerminalOK
<1> QED
  BY <1>1, <1>3, <1>4, <1>5

LEMMA SyncerDataMoves ==
  ASSUME WellTyped, NEW t \in Terminals, TerminalOK(t), SyncerData(t)
  PROVE  TerminalOK(t)'
<1>1. /\ sy[t].pc = "read" /\ Arrived(t, "server", "DATA")
      /\ sy'[t].pc = "apply" /\ sy'[t].ops = wire[t].ops /\ sy'[t].vals = wire[t].vals
      /\ wire'[t] = None
      /\ UNCHANGED <<home, cl, disk, up, orphans>>
  BY SyncerDataEffect
<1>2. Fresh(sy[t])'
  BY <1>1 DEF TerminalOK, FlightOK, Fresh
<1>3. CASE t \in orphans
  <2>1. ~up[t]
    BY <1>1, <1>3, SessionFacts DEF Arrived
  <2> QED
    BY <1>1, <1>2, <1>3, <2>1, OrphanOK
<1>4. CASE t \notin orphans
  <2>1. up[t] /\ cl[t].pc = "wait"
    BY <1>1, <1>4, SessionFacts DEF Turns, Arrived
  <2>2. SessionOK(t)'
    BY <1>1, <1>4, <2>1 DEF SessionOK, Turns
  <2>3. FlightOK(t)' /\ DownloadOK(t)'
    BY <1>1, <1>2, <2>1 DEF FlightOK, DownloadOK, Arrived
  <2>4. /\ \A f \in Files : disk[f].there \/ Changed(t, f) => home[t][f].v >= disk[f].v
        /\ Covers(t, wire[t])
    BY <1>1, <1>4, <2>1 DEF TerminalOK, HomeOK, Synced
  <2>5. HomeOK(t)'
    BY <1>1, <2>1, <2>4 DEF HomeOK, Arrived, Changed, Covers
  <2> QED
    BY <2>2, <2>3, <2>5 DEF TerminalOK
<1> QED
  BY <1>3, <1>4

\* An entry that is applied makes a file on the disk newer, or leaves it.
LEMMA AppliedIsNewer ==
  ASSUME WellTyped, NEW t \in Terminals, NEW p \in Paths, Fresh(sy[t]), NEW f \in Files
  PROVE  LET new == Applied(sy[t], disk, p)[f]
         IN  /\ new = disk[f] \/ (new.v = sy[t].vals[f].v /\ sy[t].vals[f].v >= disk[f].v)
             /\ new.v \in Nat /\ disk[f].v \in Nat /\ sy[t].vals[f].v \in Nat
<1>1. sy[t].ops \in OpMaps /\ sy[t].vals \in Trees /\ disk \in Trees /\ f \in Paths
  BY TypedParts, PathFacts
<1>2. Applied(sy[t], disk, p) \in Trees
  BY <1>1, AppliedTyped
<1> DEFINE new == Applied(sy[t], disk, p)[f]
<1>3. new \in Entries /\ disk[f] \in Entries /\ sy[t].vals[f] \in Entries
  BY <1>1, <1>2 DEF Trees
<1>4. \/ new = disk[f]
      \/ sy[t].ops[f] # "-" /\ new = sy[t].vals[f]
      \/ disk[f].there /\ new = [v |-> sy[t].vals[f].v, there |-> FALSE]
  BY <1>1, AppliedFile
<1> HIDE DEF new
<1>5. new = disk[f] \/ (new.v = sy[t].vals[f].v /\ sy[t].vals[f].v >= disk[f].v)
  BY <1>4 DEF Fresh
<1> QED
  BY <1>3, <1>5 DEF Entries, new

LEMMA SyncerApplyMoves ==
  ASSUME WellTyped, NEW t \in Terminals, NEW p \in Paths, TerminalOK(t), SyncerApply(t, p)
  PROVE  TerminalOK(t)'
<1>1. sy[t].pc = "apply" /\ Ready(sy[t], p) /\ UNCHANGED <<home, cl, wire>>
  BY SyncerApplyEffect
<1>2. wire[t] # None => wire[t].head \in {"INIT", "FULL"}
  BY <1>1 DEF TerminalOK, SessionOK
<1>3. CASE /\ sy'[t].pc \in {"dead", "none"} /\ t \in orphans'
           /\ (up'[t] => t \in orphans /\ up[t]) /\ UNCHANGED disk
  BY <1>1, <1>2, <1>3, SessionFacts, OrphanOK
<1>4. CASE /\ sy'[t].pc = "apply" /\ sy'[t].ops = [sy[t].ops EXCEPT ![p] = "-"]
           /\ sy'[t].vals = sy[t].vals
           /\ disk' = Applied(sy[t], disk, p)
           /\ UNCHANGED <<up, orphans>>
  <2>1. Fresh(sy[t])
    BY <1>1 DEF TerminalOK, FlightOK
  <2>2. ASSUME NEW f \in Files
        PROVE  /\ \/ disk'[f] = disk[f]
                  \/ disk'[f].v = sy[t].vals[f].v /\ sy[t].vals[f].v >= disk[f].v
               /\ disk'[f].v \in Nat /\ disk[f].v \in Nat /\ sy[t].vals[f].v \in Nat
    BY <1>4, <2>1, AppliedIsNewer
  <2>3. \A f \in Files : sy'[t].ops[f] # "-" => sy[t].ops[f] # "-"
    <3>1. sy[t].ops \in OpMaps /\ \A f \in Files : f \in Paths
      BY TypedParts, PathFacts
    <3> QED
      BY <1>4, <3>1 DEF OpMaps
  <2>4. Fresh(sy[t])'
    <3>1. ASSUME NEW f \in Files, sy'[t].ops[f] # "-" \/ disk'[f].there
          PROVE  sy[t].vals[f].v >= disk'[f].v
      <4>1. CASE disk'[f] = disk[f]
        BY <2>1, <2>3, <3>1, <4>1 DEF Fresh
      <4>2. CASE disk'[f].v = sy[t].vals[f].v
        BY <2>2, <4>2
      <4> QED
        BY <2>2, <4>1, <4>2
    <3> QED
      BY <1>4, <3>1 DEF Fresh
  <2>5. CASE t \in orphans
    BY <1>1, <1>2, <1>4, <2>4, <2>5, SessionFacts, OrphanOK
  <2>6. CASE t \notin orphans
    <3>1. up[t] /\ cl[t].pc = "wait" /\ wire[t] = None
      BY <1>1, <2>6, SessionFacts DEF Turns
    <3>2. SessionOK(t)'
      BY <1>1, <1>4, <2>6, <3>1 DEF SessionOK, Turns
    <3>3. FlightOK(t)' /\ DownloadOK(t)'
      BY <1>1, <1>4, <2>4, <3>1 DEF FlightOK, DownloadOK, Arrived
    <3>4. /\ \A f \in Files : disk[f].there \/ Changed(t, f) => home[t][f].v >= disk[f].v
          /\ Covers(t, sy[t])
      BY <1>1, <2>6, <3>1 DEF TerminalOK, HomeOK, Synced
    <3>5. ASSUME NEW f \in Files, disk'[f].there \/ Changed(t, f)
          PROVE  home[t][f].v >= disk'[f].v
      <4>1. CASE disk'[f] = disk[f]
        BY <3>4, <3>5, <4>1
      <4>2. CASE disk'[f].v = sy[t].vals[f].v
        <5>1. sy[t].vals[f].v <= home[t][f].v
          BY <3>4 DEF Covers
        <5>2. home[t][f].v \in Nat
          BY TypedParts, PathFacts DEF Trees, Entries
        <5> QED
          BY <2>2, <4>2, <5>1, <5>2
      <4> QED
        BY <2>2, <4>1, <4>2
    <3>6. HomeOK(t)'
      BY <1>1, <1>4, <3>1, <3>4, <3>5 DEF HomeOK, Arrived, Changed, Covers
    <3> QED
      BY <3>2, <3>3, <3>6 DEF TerminalOK
  <2> QED
    BY <2>5, <2>6
<1> QED
  BY <1>3, <1>4, SyncerApplyEffect

LEMMA SyncerAppliedMoves ==
  ASSUME WellTyped, NEW t \in Terminals, TerminalOK(t), SyncerApplied(t)
  PROVE  TerminalOK(t)'
<1>1. /\ sy[t].pc = "apply" /\ Todo(sy[t]) = {}
      /\ sy'[t].pc = "read" /\ sy'[t].known = Scan(disk)
      /\ wire'[t] = (IF t \in orphans THEN wire[t]
                     ELSE IF up[t] THEN Message("client", "NULL") ELSE None)
      /\ UNCHANGED <<home, cl, disk, up, orphans>>
  BY SyncerAppliedEffect
<1>2. CASE t \in orphans
  <2>1. wire'[t] = wire[t] /\ (wire[t] # None => wire[t].head \in {"INIT", "FULL"})
    BY <1>1, <1>2 DEF TerminalOK, SessionOK
  <2> QED
    BY <1>1, <1>2, <2>1, SessionFacts, OrphanOK
<1>3. CASE t \notin orphans
  <2>1. up[t] /\ cl[t].pc = "wait"
    BY <1>1, <1>3, SessionFacts DEF Turns
  <2>2. wire'[t] # None /\ wire'[t].to = "client" /\ wire'[t].head = "NULL"
    BY <1>1, <1>3, <2>1, MessageTyped, NoneOfPacks
  <2>3. SessionOK(t)'
    BY <1>1, <1>3, <2>1, <2>2 DEF SessionOK, Turns, Arrived
  <2>4. FlightOK(t)' /\ DownloadOK(t)'
    BY <1>1, <2>1, <2>2 DEF FlightOK, DownloadOK, Arrived
  <2>5. \A f \in Files : disk[f].there \/ Changed(t, f) => home[t][f].v >= disk[f].v
    BY <1>3, <2>1 DEF TerminalOK, HomeOK, Synced
  <2>6. HomeOK(t)'
    BY <1>1, <2>1, <2>2, <2>5 DEF HomeOK, Arrived, Changed
  <2> QED
    BY <2>3, <2>4, <2>6 DEF TerminalOK
<1> QED
  BY <1>2, <1>3

LEMMA SyncerBrokenMoves ==
  ASSUME WellTyped, NEW t \in Terminals, TerminalOK(t), SyncerBroken(t)
  PROVE  TerminalOK(t)'
<1>1. /\ t \in orphans /\ sy'[t].pc \in {"dead", "none"} /\ UNCHANGED <<cl, up, orphans, wire>>
      /\ wire[t] # None => wire[t].head \in {"INIT", "FULL"}
  BY SyncerBrokenEffect
<1> QED
  BY <1>1, SessionFacts, OrphanOK

LEMMA SyncerEndsMoves ==
  ASSUME WellTyped, WireOK, NEW t \in Terminals, TerminalOK(t), SyncerEnds(t)
  PROVE  TerminalOK(t)'
<1>1. /\ t \in orphans' /\ (up'[t] => t \in orphans /\ up[t]) /\ sy'[t].pc = "none"
      /\ wire'[t] = IF wire[t] # None /\ wire[t].to = "server" /\ wire[t].head # "INIT"
                    THEN None ELSE wire[t]
      /\ UNCHANGED cl
  BY SyncerEndsEffect
<1>2. wire'[t] # None => wire'[t] = wire[t] /\ (wire[t].to = "server" => wire[t].head = "INIT")
  BY <1>1
<1>3. wire[t] # None /\ wire[t].head = "FULL" => wire[t].to = "client"
  BY DEF WireOK, PackOK
<1>4. up'[t] => /\ cl'[t].pc = "init" /\ wire'[t] # None /\ wire'[t].head \in {"INIT", "FULL"}
  BY <1>1, <1>3, SessionFacts
<1> QED
  BY <1>1, <1>2, <1>4, OrphanOK

LEMMA CutMoves ==
  ASSUME WellTyped, NEW t \in Terminals, TerminalOK(t), Cut(t)
  PROVE  TerminalOK(t)'
  BY CutEffect, QuietOrphanOK

LEMMA ClientCrashMoves ==
  ASSUME WellTyped, NEW t \in Terminals, TerminalOK(t), ClientCrash(t)
  PROVE  TerminalOK(t)'
  BY ClientCrashEffect, QuietOrphanOK

LEMMA EditMoves ==
  ASSUME WellTyped, NEW t \in Terminals, NEW p \in Paths, TerminalOK(t), Edit(t, p)
  PROVE  TerminalOK(t)'
<1>1. /\ UNCHANGED <<sy, disk, up, orphans, wire>>
      /\ cl'[t].pc = cl[t].pc /\ cl'[t].known = Touch(cl[t].known, p)
      /\ cl'[t].ops = cl[t].ops /\ cl'[t].vals = cl[t].vals
  BY EditEffect
<1>2. SessionOK(t)'
  BY <1>1 DEF TerminalOK, SessionOK, Turns, Arrived
<1>3. FlightOK(t)'
  BY <1>1 DEF TerminalOK, FlightOK, Fresh, Arrived
<1>4. /\ home[t] \in Trees /\ cl[t].known \in Knowledge /\ newest \in [Files -> Nat]
      /\ Real(home[t], newest) /\ Real(disk, newest)
  BY TypedParts
<1>4a. FileEdit(t, p) \/ DirEdit(t, p)
  BY EditEffect
<1>5. ASSUME NEW f \in Files
      PROVE  \/ home'[t][f] = home[t][f] /\ (Changed(t, f)' => Changed(t, f))
             \/ home'[t][f].v = newest[f] + 1
  <2>0. f \in Paths
    BY PathFacts
  <2>1. CASE f = p
    <3>1. PICK b \in BOOLEAN :
            home'[t] = [home[t] EXCEPT ![p] = [v |-> newest[p] + 1, there |-> b]]
      BY <1>4a, <2>1, PathFacts DEF FileEdit, DirEdit
    <3> QED
      BY <1>4, <2>0, <2>1, <3>1 DEF Trees
  <2>2. CASE f # p
    <3>1. home'[t][f] = home[t][f]
      <4>1. PICK e : home'[t] = [home[t] EXCEPT ![p] = e]
        BY <1>4a DEF FileEdit, DirEdit
      <4> QED
        BY <1>4, <2>0, <2>2, <4>1 DEF Trees
    <3>2. Touch(cl[t].known, p)[f] = cl[t].known[f]
      <4>1. ~(p \in Files /\ f = In[p])
        BY PathFacts
      <4> QED
        BY <2>0, <2>2, <4>1 DEF Touch
    <3>3. Changed(t, f)' => Changed(t, f)
      BY <1>1, <2>0, <3>1, <3>2 DEF Changed, Operations
    <3> QED
      BY <3>1, <3>3
  <2> QED
    BY <2>1, <2>2
<1>6. ASSUME NEW f \in Files
      PROVE  /\ home[t][f].v \in Nat /\ home'[t][f].v \in Nat /\ home[t][f].v <= home'[t][f].v
             /\ disk[f].v \in Nat /\ newest[f] \in Nat
             /\ home'[t][f] # home[t][f] => newest[f] <= home'[t][f].v
  <2>1. /\ home[t][f] \in Entries /\ home[t][f].v <= newest[f] /\ newest[f] \in Nat
        /\ disk[f] \in Entries
    BY <1>4, PathFacts DEF Real, Trees
  <2> QED
    BY <1>5, <2>1 DEF Entries
<1>7. ASSUME NEW f \in Files, home[t][f].v >= disk[f].v
      PROVE  home'[t][f].v >= disk[f].v
  BY <1>6, <1>7
<1>8. DownloadOK(t)'
  BY <1>1, <1>7 DEF TerminalOK, DownloadOK
<1>9. ASSUME NEW f \in Files, disk[f].there \/ Changed(t, f)', Synced(t)
      PROVE  home'[t][f].v >= disk[f].v
  <2>1. CASE home'[t][f].v = newest[f] + 1
    <3>1. disk[f].v <= newest[f]
      BY <1>4 DEF Real
    <3> QED
      BY <1>6, <2>1, <3>1
  <2>2. CASE home'[t][f] = home[t][f] /\ (Changed(t, f)' => Changed(t, f))
    BY <1>9, <2>2 DEF TerminalOK, HomeOK
  <2> QED
    BY <1>5, <2>1, <2>2
<1>10. ASSUME NEW x, Covers(t, x), x.vals \in Trees
       PROVE  \A f \in Files : x.vals[f].v <= home'[t][f].v
  <2>1. ASSUME NEW f \in Files PROVE x.vals[f].v <= home'[t][f].v
    <3>1. x.vals[f].v \in Nat /\ x.vals[f].v <= home[t][f].v
      BY <1>10, PathFacts DEF Covers, Trees, Entries
    <3> QED
      BY <1>6, <3>1
  <2> QED
    BY <2>1
<1>11. Synced(t)' => Synced(t)
  BY <1>1 DEF Synced
<1>12. ASSUME Synced(t), Arrived(t, "server", "DATA") PROVE Covers(t, wire[t])'
  <2>1. Covers(t, wire[t]) /\ wire[t].vals \in Trees
    BY <1>12, TypedParts DEF TerminalOK, HomeOK, Arrived
  <2> QED
    BY <1>1, <1>10, <2>1 DEF Covers
<1>13. ASSUME Synced(t), sy[t].pc = "apply" PROVE Covers(t, sy[t])'
  <2>1. Covers(t, sy[t]) /\ sy[t].vals \in Trees
    BY <1>13, TypedParts DEF TerminalOK, HomeOK
  <2> QED
    BY <1>1, <1>10, <2>1 DEF Covers
<1>14. ASSUME Synced(t), cl[t].pc = "write" PROVE Covers(t, cl[t])'
  <2>1. Covers(t, cl[t]) /\ cl[t].vals \in Trees
    BY <1>14, TypedParts DEF TerminalOK, HomeOK
  <2> QED
    BY <1>1, <1>10, <2>1 DEF Covers
<1>15. HomeOK(t)'
  BY <1>1, <1>9, <1>11, <1>12, <1>13, <1>14 DEF HomeOK, Arrived
<1> QED
  BY <1>2, <1>3, <1>8, <1>15 DEF TerminalOK

LEMMA GarbageMoves ==
  ASSUME WellTyped, NEW t \in Terminals, TerminalOK(t), garbageCollection \/ CancelSyncers
  PROVE  TerminalOK(t)'
<1>1. /\ UNCHANGED <<home, cl, disk, up, orphans, wire>>
      /\ \/ sy'[t] = sy[t]
         \/ sy[t].pc \in {"dead", "hung"} /\ sy'[t].pc = "none"
  BY GarbageEffect
<1>2. CASE sy[t].pc \in {"dead", "hung"} /\ sy'[t].pc = "none"
  <2>1. t \in orphans
    BY <1>2, SessionFacts
  <2>2. wire[t] # None /\ wire[t].to = "server" => wire[t].head \in {"INIT", "FULL"}
    BY <1>2 DEF TerminalOK, SessionOK
  <2> QED
    BY <1>1, <1>2, <2>1, <2>2, SessionFacts, OrphanOK
<1>3. CASE sy'[t] = sy[t]
  <2>1. SessionOK(t)'
    BY <1>1, <1>3 DEF TerminalOK, SessionOK, Turns, Arrived
  <2>2. FlightOK(t)'
    BY <1>1, <1>3 DEF TerminalOK, FlightOK, Fresh, Arrived
  <2>3. HomeOK(t)'
    BY <1>1, <1>3 DEF TerminalOK, HomeOK, Synced, Changed, Covers, Arrived
  <2>4. DownloadOK(t)'
    BY <1>1, <1>3 DEF TerminalOK, DownloadOK
  <2> QED
    BY <2>1, <2>2, <2>3, <2>4 DEF TerminalOK
<1> QED
  BY <1>1, <1>2, <1>3

LEMMA ServerCrashMoves ==
  ASSUME WellTyped, NEW t \in Terminals, ServerCrash
  PROVE  TerminalOK(t)'
<1>1. /\ t \in orphans' /\ sy'[t].pc = "none" /\ ~up'[t]
      /\ wire'[t] # None => wire'[t].to = "client"
  BY ServerCrashEffect
<1> QED
  BY <1>1, OrphanOK
-----------------------------------------------------------------------------
(* Every step.                                                               *)

LEMMA InitMoves == Init => WellTyped /\ Tracked /\ Moves
<1> SUFFICES ASSUME Init PROVE WellTyped /\ Tracked /\ Moves
  OBVIOUS
<1>1. newest \in [Files -> Nat] /\ up \in [Terminals -> BOOLEAN] /\ orphans = Terminals
      /\ local \in [Terminals -> SUBSET Paths] /\ disk = Nothing
  BY DEF Init
<1>2. Real(Nothing, newest) /\ Closed(Nothing) /\ Nothing \in Trees
  BY <1>1, NothingReal, EmptyTyped
<1>3. ASSUME NEW t \in Terminals
      PROVE  /\ home[t] = Nothing /\ cl[t] = Party("off") /\ sy[t] = Party("none")
             /\ wire[t] = None /\ ~up[t]
  BY DEF Init
<1>4. /\ home = [t \in Terminals |-> home[t]] /\ cl = [t \in Terminals |-> cl[t]]
      /\ sy = [t \in Terminals |-> sy[t]] /\ wire = [t \in Terminals |-> wire[t]]
  BY DEF Init
<1>5. /\ Party("off") \in Clients /\ Party("none") \in Syncers /\ Party("none").pc = "none"
      /\ Party("off").vals = Nothing /\ Party("none").vals = Nothing
  BY PartyTyped DEF ClStates, SyStates
<1>6. HomeTyped /\ DiskTyped
  BY <1>1, <1>2, <1>3, <1>4 DEF HomeTyped, DiskTyped
<1>7. ClTyped /\ SyTyped
  BY <1>2, <1>3, <1>4, <1>5 DEF ClTyped, SyTyped
<1>8. WireTyped
  BY <1>3, <1>4 DEF WireTyped
<1>9. RestTyped
  BY <1>1 DEF RestTyped
<1>10. Alone
  BY <1>3, <1>5 DEF Alone
<1>11. ASSUME NEW t \in Terminals PROVE TerminalOK(t)
  BY <1>1, <1>3, <1>5
  DEF TerminalOK, SessionOK, FlightOK, HomeOK, DownloadOK, Synced, Arrived
<1>12. FlagsTyped /\ LeftOK
  <2>1. list = {} /\ ending = {} /\ overlap = FALSE /\ garbled = FALSE /\ left = <<>>
    BY DEF Init
  <2>2. <<>> \in Seq(Syncers) /\ DOMAIN <<>> = {}
    OBVIOUS
  <2> QED
    BY <2>1, <2>2 DEF FlagsTyped, LeftOK
<1>13. WriterOK
  <2>1. /\ writer = [t \in Terminals |-> Unwritten] /\ Unwritten \in Writers /\ Unwritten.fit
        /\ Unwritten.open = None
    BY DEF Init, Unwritten, Writers
  <2> QED
    BY <2>1 DEF WriterOK
<1>14. WireOK
  BY <1>3 DEF WireOK, PackOK
<1> QED
  BY <1>6, <1>7, <1>8, <1>9, <1>10, <1>11, <1>12, <1>13, <1>14 DEF WellTyped, Tracked, Moves

\* What a step does to the copy on the server and to the versions.
Advance ==
  \/ UNCHANGED <<newest, disk>>
  \/ UNCHANGED disk /\ \E f \in Files : newest' = [newest EXCEPT ![f] = @ + 1]
  \/ UNCHANGED newest /\ \A f \in Files : disk'[f].v >= disk[f].v

\* A step of one terminal.
LEMMA TerminalStep ==
  ASSUME WellTyped, Moves, NEW t \in Terminals, Others(t), TerminalOK(t)',
         UNCHANGED disk \/ sy[t].pc # "none",
         \/ sy'[t].pc # "none" => sy[t].pc # "none"
         \/ \A s \in Terminals : sy[s].pc = "none"
  PROVE  Moves'
<1>1. ASSUME NEW s \in Terminals PROVE TerminalOK(s)'
  <2>1. CASE s = t
    BY <2>1
  <2>2. CASE s # t
    <3>1. UNCHANGED disk \/ sy[s].pc = "none"
      BY <2>2 DEF Moves, Alone
    <3> QED
      BY <2>2, <3>1, OthersOK
  <2> QED
    BY <2>1, <2>2
<1>2. Alone'
  <2>1. \A s \in Terminals \ {t} : sy'[s].pc # "none" => sy[s].pc # "none"
    BY DEF Others
  <2> QED
    BY <2>1 DEF Moves, Alone
<1> QED
  BY <1>1, <1>2 DEF Moves

LEMMA ClientStepMoves ==
  ASSUME WellTyped, Tracked, InOrder, Moves, NEW t \in Terminals, ClientStep(t)
  PROVE  Moves' /\ UNCHANGED <<newest, disk>>
<1>0. /\ TerminalOK(t) /\ WriterOK /\ writer[t].fit
      /\ wire[t] # None => wire[t].head # "JUNK"
  BY DEF Moves, Tracked, InOrder, WriterOK, WireOK, PackOK
<1>1. Others(t) /\ TerminalOK(t)' /\ UNCHANGED <<newest, disk, sy>>
  <2>1. CASE Connect(t)
    BY <1>0, <2>1, ConnectEffect, ConnectMoves
  <2>2. CASE ClientReply(t)
    BY <1>0, <2>2, ClientReplyEffect, ClientReplyMoves
  <2>3. CASE ClientData(t)
    BY <1>0, <2>3, ClientDataEffect, ClientDataMoves
  <2>4. CASE ClientApplied(t)
    BY <1>0, <2>4, ClientAppliedEffect, ClientAppliedMoves
  <2>5. CASE ClientTurn(t)
    BY <1>0, <2>5, ClientTurnEffect, ClientTurnMoves
  <2>6. CASE ClientWrite(t)
    BY <1>0, <2>6, ClientWriteEffect, ClientWriteMoves
  <2>7. CASE ClientBroken(t)
    BY <1>0, <2>7, ClientBrokenEffect, ClientBrokenMoves
  <2>8. CASE \E p \in Paths : ClientApply(t, p)
    BY <1>0, <2>8, ClientApplyEffect, ClientApplyMoves
  <2>9. CASE \E p \in Paths : WriteEntry(t, p)
    BY <1>0, <2>9, WriteEntryEffect, WriteEntryMoves
  <2>10. CASE WriteContent(t)
    BY <1>0, <2>10, WriteContentEffect, WriteContentMoves
  <2>11. ~ClientJunk(t)
    BY <1>0, ClientJunkEffect DEF Arrived
  <2> QED
    BY <2>1, <2>2, <2>3, <2>4, <2>5, <2>6, <2>7, <2>8, <2>9, <2>10, <2>11 DEF ClientStep
<1> QED
  BY <1>1, TerminalStep

LEMMA SyncerStepMoves ==
  ASSUME WellTyped, Tracked, InOrder, Moves, NEW t \in Terminals, SyncerStep(t)
  PROVE  Moves' /\ Advance
<1>0. /\ TerminalOK(t) /\ Alone /\ WireOK /\ left = <<>>
      /\ wire[t] # None => wire[t].head # "JUNK"
  BY DEF Moves, Tracked, InOrder, LeftOK, WireOK, PackOK
<1>1. /\ Others(t) /\ TerminalOK(t)' /\ Advance
      /\ UNCHANGED disk \/ sy[t].pc # "none"
      /\ sy'[t].pc = "none" \/ sy[t].pc # "none"
  <2>1. CASE SyncerTurn(t)
    <3>1. /\ Others(t) /\ sy[t].pc = "read" /\ UNCHANGED <<newest, disk>>
      BY <2>1, SyncerTurnEffect
    <3> QED
      BY <1>0, <2>1, <3>1, SyncerTurnMoves DEF Advance
  <2>2. CASE SyncerData(t)
    <3>1. /\ Others(t) /\ sy[t].pc = "read" /\ UNCHANGED <<newest, disk>>
      BY <2>2, SyncerDataEffect
    <3> QED
      BY <1>0, <2>2, <3>1, SyncerDataMoves DEF Advance
  <2>3. CASE SyncerApplied(t)
    <3>1. /\ Others(t) /\ sy[t].pc = "apply" /\ UNCHANGED <<newest, disk>>
      BY <2>3, SyncerAppliedEffect
    <3> QED
      BY <1>0, <2>3, <3>1, SyncerAppliedMoves DEF Advance
  <2>4. CASE SyncerBroken(t)
    <3>1. /\ Others(t) /\ sy[t].pc = "read" /\ UNCHANGED <<newest, disk>>
      BY <2>4, SyncerBrokenEffect
    <3> QED
      BY <1>0, <2>4, <3>1, SyncerBrokenMoves DEF Advance
  <2>5. ASSUME NEW p \in Paths, SyncerApply(t, p)
        PROVE  /\ Others(t) /\ TerminalOK(t)' /\ Advance
               /\ sy[t].pc # "none"
    <3>1. /\ Others(t) /\ sy[t].pc = "apply" /\ UNCHANGED newest
          /\ UNCHANGED disk \/ disk' = Applied(sy[t], disk, p)
      BY <1>0, <2>5, SyncerApplyEffect
    <3>2. Fresh(sy[t])
      BY <1>0, <3>1 DEF TerminalOK, FlightOK
    <3>3. ASSUME NEW f \in Files, disk' = Applied(sy[t], disk, p)
          PROVE  disk'[f].v >= disk[f].v
      <4>1. /\ disk'[f] = disk[f]
               \/ (disk'[f].v = sy[t].vals[f].v /\ sy[t].vals[f].v >= disk[f].v)
            /\ disk[f].v \in Nat
        BY <3>2, <3>3, AppliedIsNewer
      <4> QED
        BY <4>1
    <3>4. Advance
      BY <3>1, <3>3 DEF Advance
    <3> QED
      BY <1>0, <2>5, <3>1, <3>4, SyncerApplyMoves
  <2>6. CASE SyncerEnds(t)
    BY <1>0, <2>6, SyncerEndsEffect, SyncerEndsMoves DEF Advance
  <2>7. ~SyncerMeddled(t) /\ ~SyncerJunk(t)
    <3>1. DOMAIN left = {}
      BY <1>0
    <3>2. ASSUME NEW s \in Terminals \ {t}, sy[t].pc = "read" PROVE sy[s].pc # "apply"
      BY <1>0, <3>2 DEF Alone
    <3> QED
      BY <1>0, <3>1, <3>2, SyncerMeddledEffect, SyncerJunkEffect DEF Arrived
  <2> QED
    BY <2>1, <2>2, <2>3, <2>4, <2>5, <2>6, <2>7 DEF SyncerStep
<1> QED
  BY <1>1, TerminalStep

LEMMA MovesStep ==
  ASSUME WellTyped, Tracked, InOrder, InOrder', Moves, [Next]_vars
  PROVE  Moves' /\ Advance
<1>0. \A t \in Terminals : TerminalOK(t)
  BY DEF Moves
<1>1. ASSUME NEW t \in Terminals, Start(t) \/ Abort(t) \/ Accept(t) \/ Cut(t) \/ ClientCrash(t)
      PROVE  Moves' /\ Advance
  <2>1. CASE Start(t) \/ Abort(t) \/ Cut(t) \/ ClientCrash(t)
    <3>1. Others(t) /\ UNCHANGED <<newest, disk, sy>>
      BY <2>1, StartEffect, AbortEffect, CutEffect, ClientCrashEffect
    <3>2. TerminalOK(t)'
      BY <1>0, <2>1, StartMoves, AbortMoves, CutMoves, ClientCrashMoves
    <3> QED
      BY <3>1, <3>2, TerminalStep DEF Advance
  <2>2. CASE Accept(t)
    <3>1. /\ Others(t) /\ UNCHANGED <<newest, disk>>
          /\ UNCHANGED sy \/ \A s \in Terminals : sy[s].pc = "none"
      BY <2>2, AcceptEffect DEF InOrder
    <3>2. TerminalOK(t)'
      BY <1>0, <2>2, AcceptMoves
    <3> QED
      BY <3>1, <3>2, TerminalStep DEF Advance
  <2> QED
    BY <1>1, <2>1, <2>2
<1>2. ASSUME NEW t \in Terminals, NEW p \in Paths, Edit(t, p)
      PROVE  Moves' /\ Advance
  <2>1. Others(t) /\ UNCHANGED <<disk, sy>> /\ (FileEdit(t, p) \/ DirEdit(t, p))
    BY <1>2, EditEffect
  <2>2. TerminalOK(t)'
    BY <1>0, <1>2, EditMoves
  <2>3. Moves'
    BY <2>1, <2>2, TerminalStep
  <2>4. Advance
    BY <2>1 DEF Advance, FileEdit, DirEdit
  <2> QED
    BY <2>1, <2>3, <2>4
<1>3. CASE garbageCollection \/ CancelSyncers
  <2>1. /\ UNCHANGED <<newest, disk>>
        /\ \A t \in Terminals : sy'[t].pc # "none" => sy[t].pc # "none"
    BY <1>3, GarbageEffect
  <2>2. Alone'
    BY <2>1 DEF Moves, Alone
  <2>3. \A t \in Terminals : TerminalOK(t)'
    BY <1>0, <1>3, GarbageMoves
  <2> QED
    BY <2>1, <2>2, <2>3 DEF Moves, Advance
<1>4. CASE ServerCrash
  <2>1. /\ UNCHANGED <<newest, disk>> /\ \A t \in Terminals : sy'[t].pc = "none"
    BY <1>4, ServerCrashEffect
  <2>2. Alone'
    BY <2>1 DEF Alone
  <2>3. \A t \in Terminals : TerminalOK(t)'
    BY <1>4, ServerCrashMoves
  <2> QED
    BY <2>1, <2>2, <2>3 DEF Moves, Advance
<1>5. CASE UNCHANGED vars
  <2>1. UNCHANGED <<home, cl, sy, disk, up, orphans, wire, newest, local>>
    BY <1>5 DEF vars
  <2>3. ASSUME NEW t \in Terminals PROVE TerminalOK(t)'
    <3>1. TerminalOK(t)
      BY <1>0
    <3> QED
      BY <2>1, <3>1 DEF TerminalOK, SessionOK, Turns, FlightOK, HomeOK, DownloadOK,
                        Synced, Arrived, Fresh, Changed, Covers
  <2>4. Alone'
    BY <2>1 DEF Moves, Alone
  <2> QED
    BY <2>1, <2>3, <2>4 DEF Moves, Advance
<1>6. ASSUME NEW t \in Terminals, ClientStep(t) \/ SyncerStep(t)
      PROVE  Moves' /\ Advance
  BY <1>6, ClientStepMoves, SyncerStepMoves DEF Advance
<1>7. ~LateStep
  BY LateEffect DEF Tracked, LeftOK, InOrder
<1> QED
  BY <1>1, <1>2, <1>3, <1>4, <1>5, <1>6, <1>7 DEF Next

LEMMA TypedIsTypeOK == WellTyped /\ Tracked => TypeOK
<1> SUFFICES ASSUME WellTyped, Tracked PROVE TypeOK
  OBVIOUS
<1>1. /\ home \in [Terminals -> Trees] /\ disk \in Trees
      /\ cl \in [Terminals -> Clients] /\ sy \in [Terminals -> Syncers]
      /\ wire \in [Terminals -> Packs \cup {None}]
      /\ up \in [Terminals -> BOOLEAN] /\ orphans \subseteq Terminals
      /\ newest \in [Files -> Nat] /\ local \in [Terminals -> SUBSET Paths]
  BY DEF WellTyped, HomeTyped, DiskTyped, ClTyped, SyTyped, WireTyped, RestTyped, Real
<1>2. Closed(disk) /\ \A t \in Terminals : Closed(home[t])
  BY DEF WellTyped, HomeTyped, DiskTyped
<1>3. ASSUME NEW f \in Files, NEW dir \in {disk} \cup {home[t] : t \in Terminals}
      PROVE  dir[f].there /\ In[f] # Home => dir[In[f]].there
  BY <1>2 DEF Closed
<1>4. /\ writer \in [Terminals -> Writers] /\ left \in Seq(Syncers)
      /\ list \subseteq Terminals /\ ending \subseteq Terminals
      /\ overlap \in BOOLEAN /\ garbled \in BOOLEAN
  BY DEF Tracked, FlagsTyped, LeftOK, WriterOK
<1> QED
  BY <1>1, <1>3, <1>4 DEF TypeOK

\* What every step keeps; more is kept while all is in order.
Kept == WellTyped /\ Tracked /\ (InOrder => Moves)

LEMMA KeptStep ==
  ASSUME Kept, [Next]_vars
  PROVE  Kept' /\ (InOrder' => InOrder /\ Advance)
<1>1. WellTyped' /\ Tracked' /\ (InOrder' => InOrder)
  BY TypedStep, TrackedStep DEF Kept
<1>2. InOrder' => Moves' /\ Advance
  BY <1>1, MovesStep DEF Kept
<1> QED
  BY <1>1, <1>2 DEF Kept

-----------------------------------------------------------------------------
(* The refinement.                                                           *)

LEMMA ReplicaStep ==
  ASSUME Kept, Kept', InOrder' => InOrder /\ Advance
  PROVE  [Replica!Next]_<<newest, [f \in Files |-> disk[f].v], InOrder>>
<1> DEFINE stored == [f \in Files |-> disk[f].v]
<1>0. WellTyped /\ WellTyped'
  BY DEF Kept
<1>1. CASE InOrder'
  <2>0. InOrder /\ InOrder' = InOrder /\ Advance
    BY <1>1 DEF InOrder
  <2>1. CASE UNCHANGED <<newest, disk>>
    BY <2>0, <2>1
  <2>2. CASE UNCHANGED disk /\ \E f \in Files : newest' = [newest EXCEPT ![f] = @ + 1]
    <3>1. PICK f \in Files : newest' = [newest EXCEPT ![f] = @ + 1]
      BY <2>2
    <3>2. stored' = stored
      BY <2>2
    <3>3. Replica!Make(f)
      BY <3>1, <3>2 DEF Replica!Make
    <3> QED
      BY <2>0, <3>3 DEF Replica!Next, Replica!InOrder
  <2>3. CASE UNCHANGED newest /\ \A f \in Files : disk'[f].v >= disk[f].v
    <3>0. PICK fs \in SUBSET Files : fs = {f \in Files : disk'[f].v # disk[f].v}
      OBVIOUS
    <3>1. ASSUME NEW f \in Files
          PROVE  disk[f].v \in Nat /\ disk'[f].v \in Nat /\ disk'[f].v <= newest[f]
      <4>1. disk[f] \in Entries /\ disk'[f] \in Entries /\ disk'[f].v <= newest'[f]
        BY <1>0, PathFacts DEF WellTyped, DiskTyped, Real, Trees
      <4> QED
        BY <2>3, <4>1 DEF Entries
    <3>2. stored' \in [Files -> Nat]
      BY <3>1
    <3>3. \A f \in Files \ fs : stored'[f] = stored[f]
      BY <3>0
    <3>4. \A f \in fs : stored'[f] > stored[f] /\ stored'[f] <= newest[f]
      BY <2>3, <3>0, <3>1
    <3>5. Replica!StoreAll(fs)
      BY <2>3, <3>2, <3>3, <3>4 DEF Replica!StoreAll
    <3> QED
      BY <2>0, <3>5 DEF Replica!Next, Replica!InOrder
  <2> QED
    BY <2>0, <2>1, <2>2, <2>3 DEF Advance
<1>2. CASE ~InOrder'
  <2>1. newest' \in [Files -> Nat] /\ (InOrder' = FALSE)
    BY <1>0, <1>2 DEF WellTyped, RestTyped, InOrder
  <2>2. ASSUME NEW f \in Files PROVE disk'[f].v \in Nat
    BY <1>0, PathFacts DEF WellTyped, DiskTyped, Real, Trees, Entries
  <2>3. stored' \in [Files -> Nat]
    BY <2>2
  <2> QED
    BY <2>1, <2>3 DEF Replica!Lapse, Replica!Next
<1> QED
  BY <1>1, <1>2

\* The copy of a file on the server never goes back to an older version while
\* synchronisation is in order: it implements DropboxReplica, whatever terminals
\* take turns, however edits race the streams that carry them, wherever a
\* connection, a client or the file server fails, and whenever the syncers are
\* cancelled, until one is accepted beside a cancelled one or an edit between a
\* length and its content puts a stream out of step (processReceivedFileMap on
\* the server).
THEOREM ServerNeverGoesBack == Spec => ServerMovesOn
<1>1. Init => Kept
  BY InitMoves DEF Kept
<1>2. Kept /\ [Next]_vars => Kept' /\ (InOrder' => InOrder /\ Advance)
  BY KeptStep
<1>3. Kept /\ Kept' /\ (InOrder' => InOrder /\ Advance)
        => [Replica!Next]_<<newest, [f \in Files |-> disk[f].v], InOrder>>
  BY ReplicaStep
<1>4. Init => Replica!Init
  BY PathFacts DEF Init, Replica!Init, Nothing, Absent, InOrder
<1> QED
  BY <1>1, <1>2, <1>3, <1>4, PTL DEF Spec, ServerMovesOn, Replica!Spec

-----------------------------------------------------------------------------
(* Synchronised terminals: what the steps do to SyncedBy.                    *)

LEMMA OperationIs ==
  ASSUME NEW known \in Knowledge, NEW dir \in Trees, NEW p \in Paths
  PROVE  LET op == Operations(known, dir)[p]
         IN  /\ op \in {"-", "ADD", "MOD", "DEL"}
             /\ op \in {"ADD", "MOD"} => dir[p].there
             /\ op = "ADD" => known[p] = "none"
             /\ op = "MOD" => known[p] = "old"
             /\ op = "DEL" => ~dir[p].there /\ known[p] # "none"
             /\ op = "-" <=> Current(dir[p], known[p])
<1>1. dir[p].there \in BOOLEAN /\ known[p] \in {"none", "same", "old"}
  BY DEF Trees, Entries, Knowledge
<1>2. Operations(known, dir)[p] =
        CASE dir[p].there /\ known[p] = "none" -> "ADD"
          [] dir[p].there /\ known[p] = "old"  -> "MOD"
          [] ~dir[p].there /\ known[p] # "none" -> "DEL"
          [] OTHER -> "-"
  BY DEF Operations
<1> QED
  BY <1>1, <1>2 DEF Current

\* After the first download: what differs is on record.
LEMMA SyncedStart ==
  ASSUME NEW dir \in Trees, NEW old \in Trees
  PROVE  SyncedBy(dir, Scan(dir), {p \in Paths : ~Same(dir[p], old[p])}, NoOps, Nothing, old)
<1> DEFINE unsent == {p \in Paths : ~Same(dir[p], old[p])}
<1>1. \A p \in Paths : Scan(dir)[p] = (IF dir[p].there THEN "same" ELSE "none") /\ NoOps[p] = "-"
  BY DEF Scan, NoOps
<1>2. \A p \in Paths \ unsent : Same(dir[p], old[p]) /\ (dir[p].there <=> old[p].there)
  <2>1. \A p \in Paths : dir[p].there \in BOOLEAN /\ old[p].there \in BOOLEAN
    BY DEF Trees, Entries
  <2> QED
    BY <2>1 DEF Same
<1> HIDE DEF unsent
<1>3. ASSUME NEW f \in Files \ unsent
      PROVE  FileSynced(dir[f], Scan(dir)[f], NoOps[f], Nothing[f], old[f])
  BY <1>1, <1>2, PathFacts DEF FileSynced
<1>4. ASSUME NEW d \in Dirs \ unsent PROVE DirSynced(Scan(dir)[d], NoOps[d], old[d])
  BY <1>1, <1>2, PathFacts DEF DirSynced
<1>5. SyncedBy(dir, Scan(dir), unsent, NoOps, Nothing, old)
  BY <1>1, <1>3, <1>4, PathFacts DEF SyncedBy
<1> QED
  BY <1>5 DEF unsent

\* The client's turn: what differs is going to be written.
LEMMA SyncedTurn ==
  ASSUME NEW dir \in Trees, Closed(dir), NEW known \in Knowledge, NEW unsent, NEW vals,
         NEW old \in Trees, SyncedBy(dir, known, unsent, NoOps, vals, old)
  PROVE  SyncedBy(dir, Scan(dir), unsent \ Sends(Operations(known, dir)),
                  Operations(known, dir), dir, old)
<1> DEFINE ops == Operations(known, dir)
           rest == unsent \ Sends(ops)
<1>1. \A p \in Paths : Scan(dir)[p] = (IF dir[p].there THEN "same" ELSE "none") /\ NoOps[p] = "-"
  BY DEF Scan, NoOps
<1>2. \A p \in Paths : dir[p].there \in BOOLEAN /\ old[p].there \in BOOLEAN
  BY DEF Trees, Entries
<1>3. \A p \in Paths :
        /\ ops[p] \in {"-", "ADD", "MOD", "DEL"}
        /\ ops[p] \in {"ADD", "MOD"} => dir[p].there
        /\ ops[p] = "ADD" => known[p] = "none"
        /\ ops[p] = "MOD" => known[p] = "old"
        /\ ops[p] = "DEL" => ~dir[p].there /\ known[p] # "none"
        /\ ops[p] = "-" <=> Current(dir[p], known[p])
  BY OperationIs
<1> HIDE DEF ops
<1>4. /\ \A f \in Files \ rest : ops[f] = "-" => f \notin unsent
      /\ \A d \in Dirs \ rest : ops[d] \in {"-", "MOD"} => d \notin unsent
  BY PathFacts DEF Sends
<1> HIDE DEF rest
<1>5. ASSUME NEW f \in Files \ rest
      PROVE  FileSynced(dir[f], Scan(dir)[f], ops[f], dir[f], old[f])
  <2>1. f \in Paths /\ NoOps[f] = "-"
    BY <1>1, PathFacts
  <2>2. CASE ops[f] # "-"
    BY <1>1, <1>2, <1>3, <2>1, <2>2 DEF FileSynced
  <2>3. CASE ops[f] = "-"
    <3>1. FileSynced(dir[f], known[f], NoOps[f], vals[f], old[f])
      BY <1>4, <2>3 DEF SyncedBy
    <3>2. Current(dir[f], known[f])
      BY <1>3, <2>1, <2>3
    <3>3. Same(dir[f], old[f]) /\ (known[f] = "none" => ~old[f].there)
      BY <2>1, <3>1, <3>2 DEF FileSynced
    <3>4. Scan(dir)[f] = known[f]
      BY <1>1, <2>1, <3>2 DEF Current
    <3> QED
      BY <2>3, <3>3, <3>4 DEF FileSynced
  <2> QED
    BY <2>2, <2>3
<1>6. ASSUME NEW d \in Dirs \ rest PROVE DirSynced(Scan(dir)[d], ops[d], old[d])
  <2>1. d \in Paths /\ NoOps[d] = "-"
    BY <1>1, PathFacts
  <2>2. CASE ops[d] \notin {"-", "MOD"}
    BY <1>1, <1>2, <1>3, <2>1, <2>2 DEF DirSynced
  <2>3. CASE ops[d] \in {"-", "MOD"}
    <3>1. DirSynced(known[d], NoOps[d], old[d])
      BY <1>4, <2>3 DEF SyncedBy
    <3>2. known[d] # "none" <=> old[d].there
      BY <2>1, <3>1 DEF DirSynced
    <3>3. Scan(dir)[d] # "none" <=> known[d] # "none"
      BY <1>1, <1>2, <1>3, <2>1, <2>3 DEF Current
    <3> QED
      BY <2>3, <3>2, <3>3 DEF DirSynced
  <2> QED
    BY <2>2, <2>3
<1>7. ASSUME NEW f \in Files, ops[f] = "DEL" PROVE ~dir[f].there
  BY <1>3, <1>7, PathFacts
<1>8. ASSUME NEW f \in Files, In[f] # Home, ops[In[f]] = "DEL" PROVE Scan(dir)[f] = "none"
  <2>1. In[f] \in Paths /\ f \in Paths
    BY <1>8, PathFacts
  <2>2. ~dir[In[f]].there
    BY <1>3, <1>8, <2>1
  <2>3. ~dir[f].there
    BY <1>8, <2>2 DEF Closed
  <2> QED
    BY <1>1, <2>1, <2>3
<1>9. SyncedBy(dir, Scan(dir), rest, ops, dir, old)
  BY <1>5, <1>6, <1>7, <1>8 DEF SyncedBy
<1> QED
  BY <1>9 DEF rest, ops

\* writeOperations sends the entries as they are now.
LEMMA SyncedWrite ==
  ASSUME NEW dir, NEW known, NEW unsent, NEW ops, NEW vals, NEW old,
         SyncedBy(dir, known, unsent, ops, vals, old),
         NEW new,
         \A p \in Paths : new[p] = vals[p] \/ (ops[p] \in {"ADD", "MOD"} /\ new[p] = dir[p])
  PROVE  SyncedBy(dir, known, unsent, ops, new, old)
<1>1. ASSUME NEW f \in Files \ unsent
      PROVE  FileSynced(dir[f], known[f], ops[f], new[f], old[f])
  <2>1. FileSynced(dir[f], known[f], ops[f], vals[f], old[f]) /\ f \in Paths
    BY PathFacts DEF SyncedBy
  <2> QED
    BY <2>1 DEF FileSynced
<1>2. ASSUME NEW f \in Files, ops[f] = "DEL" PROVE ~new[f].there
  BY <1>2, PathFacts DEF SyncedBy
<1> QED
  BY <1>1, <1>2 DEF SyncedBy

\* The server applies one entry.
LEMMA SyncedApply ==
  ASSUME NEW dir \in Trees, NEW known \in Knowledge, NEW unsent,
         NEW x, x.ops \in OpMaps, x.vals \in Trees, NEW old \in Trees,
         SyncedBy(dir, known, unsent, x.ops, x.vals, old), NEW p \in Paths, x.ops[p] # "-"
  PROVE  SyncedBy(dir, known, unsent, [x.ops EXCEPT ![p] = "-"], x.vals, Applied(x, old, p))
<1> DEFINE ops == [x.ops EXCEPT ![p] = "-"]
           new == Applied(x, old, p)
<1>1. \A q \in Paths : ops[q] = (IF q = p THEN "-" ELSE x.ops[q])
                       /\ x.ops[q] \in {"-", "ADD", "MOD", "DEL"}
  BY DEF OpMaps
<1> HIDE DEF ops
<1>2. ASSUME NEW f \in Files
      PROVE  \/ new[f] = old[f]
             \/ /\ p = f /\ x.ops[f] # "-" /\ new[f] = x.vals[f]
             \/ /\ p \in Dirs /\ x.ops[p] = "DEL" /\ In[f] = p /\ old[f].there
                /\ new[f] = [v |-> x.vals[f].v, there |-> FALSE]
  BY AppliedFile
<1>3. ASSUME NEW d \in Dirs
      PROVE  new[d] = IF p = d /\ x.ops[d] = "ADD" THEN [v |-> old[d].v, there |-> TRUE]
                      ELSE IF p = d /\ x.ops[d] = "DEL" THEN Absent ELSE old[d]
  BY AppliedDir
<1>4. /\ p \in Files /\ x.ops[p] \in {"ADD", "MOD"} => new = [old EXCEPT ![p] = x.vals[p]]
      /\ p \in Files /\ x.ops[p] = "DEL" =>
           new = IF old[p].there THEN [old EXCEPT ![p] = x.vals[p]] ELSE old
  BY AppliedCases
<1>4a. new \in Trees
  BY AppliedTyped
<1> HIDE DEF new
<1>4b. \A q \in Paths : new[q].there \in BOOLEAN
  BY <1>4a DEF Trees, Entries
<1>5. ASSUME NEW f \in Files \ unsent
      PROVE  FileSynced(dir[f], known[f], ops[f], x.vals[f], new[f])
  <2>0. /\ f \in Paths /\ FileSynced(dir[f], known[f], x.ops[f], x.vals[f], old[f])
        /\ x.ops[f] = "DEL" => ~x.vals[f].there
    BY PathFacts DEF SyncedBy
  <2>1. CASE f = p
    <3>1. ops[f] = "-" /\ x.ops[f] \in {"ADD", "MOD", "DEL"}
      BY <1>1, <2>0, <2>1
    <3>2. CASE x.ops[f] \in {"ADD", "MOD"}
      <4>1. new[f] = x.vals[f]
        BY <1>4, <2>0, <2>1, <3>2 DEF Trees
      <4>2. known[f] # "none"
        BY <2>0, <3>2 DEF FileSynced
      <4>3. Current(dir[f], known[f]) => Same(dir[f], new[f])
        BY <2>0, <3>2, <4>1 DEF FileSynced, Same
      <4> QED
        BY <3>1, <4>2, <4>3 DEF FileSynced
    <3>3. CASE x.ops[f] = "DEL"
      <4>1. ~new[f].there
        <5>1. CASE old[f].there
          <6>1. new[f] = x.vals[f]
            BY <1>4, <2>0, <2>1, <3>3, <5>1 DEF Trees
          <6> QED
            BY <2>0, <3>3, <6>1
        <5>2. CASE ~old[f].there
          BY <1>4, <2>1, <3>3, <5>2
        <5> QED
          BY <5>1, <5>2
      <4>2. Current(dir[f], known[f]) => Same(dir[f], new[f])
        <5>1. Current(dir[f], known[f]) => ~dir[f].there
          BY <2>0, <3>3 DEF FileSynced
        <5>2. dir[f].there \in BOOLEAN
          BY <2>0 DEF Trees, Entries
        <5> QED
          BY <1>4b, <2>0, <4>1, <5>1, <5>2 DEF Same
      <4> QED
        BY <3>1, <4>1, <4>2 DEF FileSynced
    <3> QED
      BY <3>1, <3>2, <3>3
  <2>2. CASE f # p
    <3>1. ops[f] = x.ops[f]
      BY <1>1, <2>0, <2>2
    <3>2. CASE new[f] = old[f]
      BY <2>0, <3>1, <3>2
    <3>3. CASE p \in Dirs /\ x.ops[p] = "DEL" /\ In[f] = p
               /\ new[f] = [v |-> x.vals[f].v, there |-> FALSE]
      <4>1. known[f] = "none"
        <5>1. In[f] # Home
          BY <3>3, SyncAssumption DEF Paths
        <5> QED
          BY <3>3, <5>1 DEF SyncedBy
      <4>2. ~new[f].there
        BY <3>3
      <4>3. Current(dir[f], known[f]) => ~dir[f].there
        BY <4>1 DEF Current
      <4>4. Current(dir[f], known[f]) => Same(dir[f], new[f])
        <5>1. dir[f].there \in BOOLEAN
          BY <2>0 DEF Trees, Entries
        <5> QED
          BY <1>4b, <2>0, <4>2, <4>3, <5>1 DEF Same
      <4> QED
        BY <2>0, <3>1, <4>1, <4>2, <4>4 DEF FileSynced
    <3> QED
      BY <1>2, <2>2, <3>2, <3>3
  <2> QED
    BY <2>1, <2>2
<1>6. ASSUME NEW d \in Dirs \ unsent PROVE DirSynced(known[d], ops[d], new[d])
  <2>0. d \in Paths /\ DirSynced(known[d], x.ops[d], old[d]) /\ old[d].there \in BOOLEAN
    BY PathFacts DEF SyncedBy, Trees, Entries
  <2>1. CASE d = p
    <3>1. ops[d] = "-" /\ x.ops[d] \in {"ADD", "MOD", "DEL"}
      BY <1>1, <2>0, <2>1
    <3>2. CASE x.ops[d] = "ADD"
      <4>1. new[d].there
        <5>1. d \in Dirs /\ p = d
          BY <2>1
        <5>2. new[d] = [v |-> old[d].v, there |-> TRUE]
          BY <1>3, <3>2, <5>1
        <5> QED
          BY <5>2
      <4> QED
        BY <2>0, <3>1, <3>2, <4>1 DEF DirSynced
    <3>3. CASE x.ops[d] = "DEL"
      <4>1. ~new[d].there
        <5>1. d \in Dirs /\ p = d
          BY <2>1
        <5>2. new[d] = Absent
          BY <1>3, <3>3, <5>1
        <5> QED
          BY <5>2 DEF Absent
      <4> QED
        BY <2>0, <3>1, <3>3, <4>1 DEF DirSynced
    <3>4. CASE x.ops[d] = "MOD"
      <4>1. new[d] = old[d]
        BY <1>3, <3>4
      <4> QED
        BY <2>0, <3>1, <3>4, <4>1 DEF DirSynced
    <3> QED
      BY <3>1, <3>2, <3>3, <3>4
  <2>2. CASE d # p
    <3>1. ops[d] = x.ops[d] /\ new[d] = old[d]
      BY <1>1, <1>3, <2>0, <2>2
    <3> QED
      BY <2>0, <3>1
  <2> QED
    BY <2>1, <2>2
<1>7. ASSUME NEW f \in Files, ops[f] = "DEL" PROVE ~x.vals[f].there
  BY <1>1, <1>7, PathFacts DEF SyncedBy
<1>8. ASSUME NEW f \in Files, In[f] # Home, ops[In[f]] = "DEL" PROVE known[f] = "none"
  <2>1. In[f] \in Paths
    BY <1>8, PathFacts
  <2>2. x.ops[In[f]] = "DEL"
    BY <1>1, <1>8, <2>1
  <2> QED
    BY <1>8, <2>2 DEF SyncedBy
<1>9. SyncedBy(dir, known, unsent, ops, x.vals, new)
  BY <1>5, <1>6, <1>7, <1>8 DEF SyncedBy
<1> QED
  BY <1>9 DEF ops, new

\* All entries are applied.
LEMMA SyncedApplied ==
  ASSUME NEW dir, NEW known, NEW unsent, NEW ops, NEW vals, NEW old,
         SyncedBy(dir, known, unsent, ops, vals, old), \A p \in Paths : ops[p] = "-"
  PROVE  SyncedBy(dir, known, unsent, NoOps, Nothing, old)
<1>1. \A p \in Paths : NoOps[p] = "-"
  BY DEF NoOps
<1>2. ASSUME NEW f \in Files \ unsent
      PROVE  FileSynced(dir[f], known[f], NoOps[f], Nothing[f], old[f])
  <2>1. FileSynced(dir[f], known[f], "-", vals[f], old[f]) /\ f \in Paths
    BY PathFacts DEF SyncedBy
  <2> QED
    BY <1>1, <2>1 DEF FileSynced
<1>3. ASSUME NEW d \in Dirs \ unsent PROVE DirSynced(known[d], NoOps[d], old[d])
  BY <1>1, PathFacts DEF SyncedBy
<1> QED
  BY <1>1, <1>2, <1>3, PathFacts DEF SyncedBy

\* The user edits one entry: e is what it is then.
LEMMA SyncedEdit ==
  ASSUME NEW dir \in Trees, NEW known \in Knowledge, NEW unsent, NEW ops \in OpMaps,
         NEW vals, NEW old \in Trees, SyncedBy(dir, known, unsent, ops, vals, old),
         NEW p \in Paths, NEW e \in Entries,
         p \in Files => e.there \/ dir[p].there
  PROVE  SyncedBy([dir EXCEPT ![p] = e], Touch(known, p), unsent, ops, vals, old)
<1> DEFINE new == [dir EXCEPT ![p] = e]
           more == Touch(known, p)
<1>1. \A q \in Paths : new[q] = IF q = p THEN e ELSE dir[q]
  BY DEF Trees
<1>2. \A q \in Paths : /\ more[q] = "none" <=> known[q] = "none"
                       /\ q = p => more[q] # "same"
                       /\ q # p /\ q \in Files => more[q] = known[q]
  BY PathFacts DEF Touch, Knowledge
<1>3. \A q \in Paths : more[q] \in {"none", "same", "old"}
  BY TouchTyped DEF Knowledge
<1> HIDE DEF new, more
<1>4. ASSUME NEW f \in Files \ unsent
      PROVE  FileSynced(new[f], more[f], ops[f], vals[f], old[f])
  <2>0. f \in Paths /\ FileSynced(dir[f], known[f], ops[f], vals[f], old[f])
        /\ ops[f] \in {"-", "ADD", "MOD", "DEL"}
    BY PathFacts DEF SyncedBy, OpMaps
  <2>1. CASE f # p
    BY <1>1, <1>2, <2>0, <2>1
  <2>2. CASE f = p
    <3>1. new[f] = e /\ e.there \in BOOLEAN
      BY <1>1, <2>0, <2>2 DEF Entries
    <3>2. Current(e, more[f]) => ~e.there /\ more[f] = "none" /\ known[f] = "none"
      BY <1>2, <2>0, <2>2 DEF Current
    <3>3. known[f] = "none" => ops[f] \notin {"ADD", "MOD"} /\ (ops[f] = "-" => ~old[f].there)
      BY <2>0 DEF FileSynced
    <3>4. old[f].there \in BOOLEAN
      BY <2>0 DEF Trees, Entries
    <3> QED
      BY <1>2, <2>0, <3>1, <3>2, <3>3, <3>4 DEF FileSynced, Same
  <2> QED
    BY <2>1, <2>2
<1>5. ASSUME NEW d \in Dirs \ unsent PROVE DirSynced(more[d], ops[d], old[d])
  <2>1. d \in Paths /\ DirSynced(known[d], ops[d], old[d])
    BY PathFacts DEF SyncedBy
  <2> QED
    BY <1>2, <2>1 DEF DirSynced
<1>6. ASSUME NEW f \in Files, In[f] # Home, ops[In[f]] = "DEL" PROVE more[f] = "none"
  BY <1>2, <1>6, PathFacts DEF SyncedBy
<1>7. SyncedBy(new, more, unsent, ops, vals, old)
  BY <1>4, <1>5, <1>6 DEF SyncedBy
<1> QED
  BY <1>7 DEF new, more
-----------------------------------------------------------------------------
(* SyncOK is kept.                                                           *)

LEMMA NotSynced ==
  ASSUME NEW t \in Terminals, t \in orphans' \/ cl'[t].pc \notin {"wait", "write"}
  PROVE  SyncOK(t)'
  BY DEF SyncOK, Synced

\* A terminal that a step does not concern.
LEMMA OthersSynced ==
  ASSUME Moves, NEW t \in Terminals, SyncOK(t),
         home'[t] = home[t], cl'[t] = cl[t],
         sy'[t] = sy[t] \/ sy[t].pc \in {"none", "dead", "hung"},
         t \in orphans' <=> t \in orphans, wire'[t] = wire[t], local'[t] = local[t],
         UNCHANGED disk \/ sy[t].pc = "none"
  PROVE  SyncOK(t)'
<1>1. CASE t \in orphans
  BY <1>1, NotSynced
<1>2. CASE t \notin orphans
  <2>1. sy[t].pc \notin {"none", "dead", "hung"}
    BY <1>2, SessionFacts DEF Moves
  <2>2. UNCHANGED disk /\ sy'[t] = sy[t]
    BY <2>1
  <2> QED
    BY <1>2, <2>2 DEF SyncOK, Synced, By, Arrived
<1> QED
  BY <1>1, <1>2

LEMMA ClientAppliedSynced ==
  ASSUME WellTyped, NEW t \in Terminals, TerminalOK(t), ClientApplied(t)
  PROVE  SyncOK(t)'
<1>1. /\ cl[t].pc = "apply" /\ cl'[t].pc = "wait" /\ cl'[t].known = Scan(home[t])
      /\ wire'[t] = (IF up[t] THEN Message("server", "NULL") ELSE None)
      /\ local'[t] = {p \in Paths : ~Same(home[t][p], disk[p])}
      /\ UNCHANGED <<home, sy, disk, up, orphans>>
  BY ClientAppliedEffect
<1>2. CASE t \in orphans
  BY <1>1, <1>2, NotSynced
<1>3. CASE t \notin orphans
  <2>1. up[t] /\ sy[t].pc = "read"
    BY <1>1, <1>3, SessionFacts DEF Turns
  <2>2. wire'[t].head = "NULL"
    BY <1>1, <2>1, MessageTyped
  <2>3. By(t, NoOps, Nothing)'
    <3>1. SyncedBy(home[t], Scan(home[t]), {p \in Paths : ~Same(home[t][p], disk[p])},
                   NoOps, Nothing, disk)
      BY SyncedStart, TypedParts
    <3>2. SyncedBy(home'[t], cl'[t].known, local'[t], NoOps, Nothing, disk')
      BY <1>1, <3>1
    <3> QED
      BY <3>2 DEF By, NoOps, Nothing
  <2> QED
    BY <1>1, <2>1, <2>2, <2>3 DEF SyncOK, Arrived
<1> QED
  BY <1>2, <1>3

LEMMA ClientTurnSynced ==
  ASSUME WellTyped, NEW t \in Terminals, TerminalOK(t), SyncOK(t), ClientTurn(t)
  PROVE  SyncOK(t)'
<1>1. /\ cl[t].pc = "wait" /\ Arrived(t, "client", "NULL")
      /\ UNCHANGED <<home, sy, disk, up, orphans>>
  BY ClientTurnEffect
<1>2. CASE t \in orphans
  BY <1>1, <1>2, NotSynced
<1>3. CASE t \notin orphans
  <2>1. up[t] /\ sy[t].pc = "read"
    BY <1>1, <1>3, SessionFacts DEF Turns, Arrived
  <2>2. SyncedBy(home[t], cl[t].known, local[t], NoOps, Nothing, disk)
    BY <1>1, <1>3 DEF SyncOK, Synced, By
  <2>3. CASE /\ UNCHANGED <<cl, local>>
             /\ wire'[t] = (IF up[t] THEN Message("server", "NULL") ELSE None)
    <3>1. wire'[t].head = "NULL"
      BY <2>1, <2>3, MessageTyped
    <3>2. By(t, NoOps, Nothing)'
      BY <1>1, <2>2, <2>3 DEF By, NoOps, Nothing
    <3> QED
      BY <1>1, <2>1, <2>3, <3>1, <3>2 DEF SyncOK, Arrived
  <2>4. CASE /\ cl'[t].pc = "write" /\ cl'[t].ops = Operations(cl[t].known, home[t])
             /\ cl'[t].vals = home[t] /\ cl'[t].known = Scan(home[t])
             /\ wire'[t] = None
             /\ local'[t] = local[t] \ Sends(Operations(cl[t].known, home[t]))
    <3>1. SyncedBy(home[t], Scan(home[t]), local[t] \ Sends(Operations(cl[t].known, home[t])),
                   Operations(cl[t].known, home[t]), home[t], disk)
      BY <2>2, SyncedTurn, TypedParts
    <3>2. SyncedBy(home'[t], cl'[t].known, local'[t], cl'[t].ops, cl'[t].vals, disk')
      BY <1>1, <2>4, <3>1
    <3>3. By(t, cl[t].ops, cl[t].vals)'
      BY <3>2 DEF By
    <3> QED
      BY <1>1, <2>1, <2>4, <3>3 DEF SyncOK, Arrived
  <2> QED
    BY <2>3, <2>4, ClientTurnEffect
<1> QED
  BY <1>2, <1>3

LEMMA RewriteSynced ==
  ASSUME WellTyped, NEW t \in Terminals, NEW p \in Paths, NEW v, TerminalOK(t), SyncOK(t),
         cl[t].pc = "write", cl[t].ops[p] \in {"ADD", "MOD"},
         v \in {cl[t].vals[p], home[t][p]}, Rewritten(t, p, v),
         UNCHANGED <<home, sy, disk, orphans, wire, local>>
  PROVE  SyncOK(t)'
<1>1. /\ cl'[t].pc = "write" /\ cl'[t].known = cl[t].known /\ cl'[t].ops = cl[t].ops
      /\ cl'[t].vals = [cl[t].vals EXCEPT ![p] = v]
      /\ UNCHANGED <<home, sy, disk, orphans, wire, local>>
  BY DEF Rewritten
<1>2. CASE t \in orphans
  BY <1>1, <1>2, NotSynced
<1>3. CASE t \notin orphans
  <2>1. sy[t].pc = "read" /\ wire[t] = None
    BY <1>3, SessionFacts DEF Turns
  <2>2. SyncedBy(home[t], cl[t].known, local[t], cl[t].ops, cl[t].vals, disk)
    BY <1>3 DEF SyncOK, Synced, By
  <2>3. ASSUME NEW q \in Paths
        PROVE  \/ cl'[t].vals[q] = cl[t].vals[q]
               \/ cl[t].ops[q] \in {"ADD", "MOD"} /\ cl'[t].vals[q] = home[t][q]
    <3>1. cl[t].vals \in Trees
      BY TypedParts
    <3> QED
      BY <1>1, <3>1 DEF Trees
  <2>4. SyncedBy(home[t], cl[t].known, local[t], cl[t].ops, cl'[t].vals, disk)
    BY <2>2, <2>3, SyncedWrite
  <2>5. SyncedBy(home'[t], cl'[t].known, local'[t], cl'[t].ops, cl'[t].vals, disk')
    BY <1>1, <2>4
  <2>6. By(t, cl[t].ops, cl[t].vals)'
    BY <2>5 DEF By
  <2> QED
    BY <1>1, <2>1, <2>6 DEF SyncOK, Arrived
<1> QED
  BY <1>2, <1>3

LEMMA WriteEntrySynced ==
  ASSUME WellTyped, NEW t \in Terminals, NEW p \in Paths, TerminalOK(t), SyncOK(t),
         WriteEntry(t, p)
  PROVE  SyncOK(t)'
<1>1. /\ cl[t].pc = "write" /\ cl[t].ops[p] \in {"ADD", "MOD"}
      /\ UNCHANGED <<home, sy, disk, wire, local>>
  BY WriteEntryEffect
<1>2. CASE cl'[t].pc = "connect"
  BY <1>2, NotSynced
<1>3. CASE Rewritten(t, p, home[t][p]) /\ UNCHANGED <<up, orphans>>
  BY <1>1, <1>3, RewriteSynced
<1> QED
  BY <1>2, <1>3, WriteEntryEffect

LEMMA WriteContentSynced ==
  ASSUME WellTyped, WriterOK, NEW t \in Terminals, TerminalOK(t), SyncOK(t), WriteContent(t)
  PROVE  SyncOK(t)'
<1> DEFINE p == writer[t].open
<1>1. /\ cl[t].pc = "write" /\ p \in Paths /\ cl[t].ops[p] \in {"ADD", "MOD"}
      /\ UNCHANGED <<home, sy, disk, orphans, wire, local>>
      /\ \E v \in {cl[t].vals[p], home[t][p]} : Rewritten(t, p, v)
  BY WriteContentEffect
<1> HIDE DEF p
<1> QED
  BY <1>1, RewriteSynced

LEMMA ClientWriteSynced ==
  ASSUME WellTyped, NEW t \in Terminals, TerminalOK(t), SyncOK(t), writer[t].fit,
         ClientWrite(t)
  PROVE  SyncOK(t)'
<1>1. /\ cl[t].pc = "write" /\ up[t] /\ UNCHANGED <<home, sy, disk, orphans, local>>
      /\ cl'[t].pc = "wait" /\ cl'[t].known = cl[t].known
      /\ wire'[t].head = "DATA"
      /\ wire'[t].ops = cl[t].ops /\ wire'[t].vals = cl[t].vals
  BY ClientWriteEffect
<1>2. t \notin orphans
  BY <1>1, SessionFacts
<1>3. sy[t].pc = "read"
  BY <1>1, <1>2, SessionFacts DEF Turns
<1>4. SyncedBy(home[t], cl[t].known, local[t], cl[t].ops, cl[t].vals, disk)
  BY <1>1, <1>2 DEF SyncOK, Synced, By
<1>5. SyncedBy(home'[t], cl'[t].known, local'[t], wire'[t].ops, wire'[t].vals, disk')
  BY <1>1, <1>4
<1>6. By(t, wire[t].ops, wire[t].vals)'
  BY <1>5 DEF By
<1> QED
  BY <1>1, <1>3, <1>6 DEF SyncOK, Arrived

LEMMA SyncerTurnSynced ==
  ASSUME WellTyped, NEW t \in Terminals, TerminalOK(t), SyncOK(t), SyncerTurn(t)
  PROVE  SyncOK(t)'
<1>1. /\ sy[t].pc = "read" /\ wire[t] # None /\ wire[t].to = "server"
      /\ wire[t].head \in {"QUERY", "NULL"} /\ UNCHANGED <<home, cl, disk, up, orphans, local>>
  BY SyncerTurnEffect
<1>2. CASE t \in orphans \/ cl[t].pc \notin {"wait", "write"}
  BY <1>1, <1>2, NotSynced
<1>3. CASE t \notin orphans /\ cl[t].pc \in {"wait", "write"}
  <2>1. up[t] /\ cl[t].pc = "wait" /\ sy[t].known = Scan(disk) /\ wire[t].head = "NULL"
    BY <1>1, <1>3, SessionFacts DEF Turns, Arrived
  <2>2. checkDiff(sy[t].known, disk)
    BY <2>1, ScanIsCurrent, TypedParts DEF checkDiff
  <2>3. UNCHANGED sy /\ wire'[t] = Message("client", "NULL")
    BY <2>1, <2>2, SyncerTurnEffect
  <2>4. wire'[t].head = "NULL"
    BY <2>3, MessageTyped
  <2>5. By(t, NoOps, Nothing)
    BY <1>1, <1>3, <2>1 DEF SyncOK, Synced, Arrived
  <2>6. By(t, NoOps, Nothing)'
    BY <1>1, <2>5 DEF By, NoOps, Nothing
  <2> QED
    BY <1>1, <2>1, <2>3, <2>4, <2>6 DEF SyncOK, Arrived
<1> QED
  BY <1>2, <1>3

LEMMA SyncerDataSynced ==
  ASSUME WellTyped, NEW t \in Terminals, TerminalOK(t), SyncOK(t), SyncerData(t)
  PROVE  SyncOK(t)'
<1>1. /\ sy[t].pc = "read" /\ Arrived(t, "server", "DATA")
      /\ sy'[t].pc = "apply" /\ sy'[t].ops = wire[t].ops /\ sy'[t].vals = wire[t].vals
      /\ wire'[t] = None
      /\ UNCHANGED <<home, cl, disk, up, orphans, local>>
  BY SyncerDataEffect
<1>2. CASE t \in orphans
  BY <1>1, <1>2, NotSynced
<1>3. CASE t \notin orphans
  <2>1. cl[t].pc = "wait"
    BY <1>1, <1>3, SessionFacts DEF Turns, Arrived
  <2>2. By(t, wire[t].ops, wire[t].vals)
    BY <1>1, <1>3, <2>1 DEF SyncOK, Synced
  <2>3. By(t, sy[t].ops, sy[t].vals)'
    BY <1>1, <2>2 DEF By
  <2> QED
    BY <1>1, <2>1, <2>3 DEF SyncOK, Arrived
<1> QED
  BY <1>2, <1>3

LEMMA SyncerApplySynced ==
  ASSUME WellTyped, NEW t \in Terminals, NEW p \in Paths, TerminalOK(t), SyncOK(t),
         SyncerApply(t, p)
  PROVE  SyncOK(t)'
<1>1. sy[t].pc = "apply" /\ Ready(sy[t], p) /\ UNCHANGED <<home, cl, wire, local>>
  BY SyncerApplyEffect
<1>2. CASE t \in orphans'
  BY <1>2, NotSynced
<1>3. CASE t \notin orphans'
  <2>1. /\ sy'[t].pc = "apply" /\ sy'[t].ops = [sy[t].ops EXCEPT ![p] = "-"]
        /\ sy'[t].vals = sy[t].vals
        /\ disk' = Applied(sy[t], disk, p)
        /\ UNCHANGED orphans
    BY <1>3, SyncerApplyEffect
  <2>2. cl[t].pc = "wait" /\ wire[t] = None
    BY <1>1, <1>3, <2>1, SessionFacts DEF Turns
  <2>3. SyncedBy(home[t], cl[t].known, local[t], sy[t].ops, sy[t].vals, disk)
    BY <1>1, <1>3, <2>1, <2>2 DEF SyncOK, Synced, By
  <2>4. sy[t].ops[p] # "-"
    BY <1>1 DEF Ready, Todo
  <2>5. /\ home[t] \in Trees /\ cl[t].known \in Knowledge /\ sy[t].ops \in OpMaps
        /\ sy[t].vals \in Trees /\ disk \in Trees
    BY TypedParts
  <2>6. SyncedBy(home[t], cl[t].known, local[t], [sy[t].ops EXCEPT ![p] = "-"], sy[t].vals,
                 Applied(sy[t], disk, p))
    BY <2>3, <2>4, <2>5, SyncedApply
  <2>7. SyncedBy(home'[t], cl'[t].known, local'[t], sy'[t].ops, sy'[t].vals, disk')
    BY <1>1, <2>1, <2>6
  <2>8. By(t, sy[t].ops, sy[t].vals)'
    BY <2>7 DEF By
  <2> QED
    BY <1>1, <2>1, <2>2, <2>8 DEF SyncOK, Arrived
<1> QED
  BY <1>2, <1>3

LEMMA SyncerAppliedSynced ==
  ASSUME WellTyped, NEW t \in Terminals, TerminalOK(t), SyncOK(t), SyncerApplied(t)
  PROVE  SyncOK(t)'
<1>1. /\ sy[t].pc = "apply" /\ Todo(sy[t]) = {} /\ sy'[t].pc = "read"
      /\ wire'[t] = (IF t \in orphans THEN wire[t]
                     ELSE IF up[t] THEN Message("client", "NULL") ELSE None)
      /\ UNCHANGED <<home, cl, disk, up, orphans, local>>
  BY SyncerAppliedEffect
<1>2. CASE t \in orphans
  BY <1>1, <1>2, NotSynced
<1>3. CASE t \notin orphans
  <2>1. up[t] /\ cl[t].pc = "wait"
    BY <1>1, <1>3, SessionFacts DEF Turns
  <2>2. wire'[t].head = "NULL"
    BY <1>1, <1>3, <2>1, MessageTyped
  <2>3. SyncedBy(home[t], cl[t].known, local[t], sy[t].ops, sy[t].vals, disk)
    BY <1>1, <1>3, <2>1 DEF SyncOK, Synced, By
  <2>4. \A p \in Paths : sy[t].ops[p] = "-"
    BY <1>1 DEF Todo
  <2>5. SyncedBy(home[t], cl[t].known, local[t], NoOps, Nothing, disk)
    BY <2>3, <2>4, SyncedApplied
  <2>6. By(t, NoOps, Nothing)'
    BY <1>1, <2>5 DEF By, NoOps, Nothing
  <2> QED
    BY <1>1, <2>1, <2>2, <2>6 DEF SyncOK, Arrived
<1> QED
  BY <1>2, <1>3

LEMMA EditSynced ==
  ASSUME WellTyped, NEW t \in Terminals, NEW p \in Paths, TerminalOK(t), SyncOK(t), Edit(t, p)
  PROVE  SyncOK(t)'
<1>1. /\ UNCHANGED <<sy, disk, up, orphans, wire, local>>
      /\ cl'[t].pc = cl[t].pc /\ cl'[t].known = Touch(cl[t].known, p)
      /\ cl'[t].ops = cl[t].ops /\ cl'[t].vals = cl[t].vals
      /\ FileEdit(t, p) \/ DirEdit(t, p)
  BY EditEffect
<1>2. home[t] \in Trees /\ cl[t].known \in Knowledge /\ disk \in Trees /\ newest \in [Files -> Nat]
  BY TypedParts
<1>3. PICK e \in Entries : /\ home'[t] = [home[t] EXCEPT ![p] = e]
                           /\ p \in Files => e.there \/ home[t][p].there
  <2>1. CASE FileEdit(t, p)
    <3>1. PICK b \in BOOLEAN :
            /\ b \/ home[t][p].there
            /\ home'[t] = [home[t] EXCEPT ![p] = [v |-> newest[p] + 1, there |-> b]]
      BY <2>1 DEF FileEdit
    <3> DEFINE e == [v |-> newest[p] + 1, there |-> b]
    <3>2. newest[p] + 1 \in Nat
      BY <1>2, <2>1 DEF FileEdit
    <3>3. e \in Entries /\ e.there = b /\ home'[t] = [home[t] EXCEPT ![p] = e]
      BY <3>1, <3>2 DEF Entries
    <3> HIDE DEF e
    <3> QED
      BY <3>1, <3>3
  <2>2. CASE DirEdit(t, p)
    <3> DEFINE e == [v |-> 0, there |-> ~home[t][p].there]
    <3>1. e \in Entries /\ home'[t] = [home[t] EXCEPT ![p] = e] /\ p \notin Files
      BY <2>2, PathFacts DEF Entries, DirEdit
    <3> HIDE DEF e
    <3> QED
      BY <3>1
  <2> QED
    BY <1>1, <2>1, <2>2
<1>4. ASSUME NEW ops \in OpMaps, NEW vals, By(t, ops, vals)
      PROVE  SyncedBy(home'[t], cl'[t].known, local'[t], ops, vals, disk')
  <2>1. SyncedBy([home[t] EXCEPT ![p] = e], Touch(cl[t].known, p), local[t], ops, vals, disk)
    BY <1>2, <1>3, <1>4, SyncedEdit DEF By
  <2> QED
    BY <1>1, <1>3, <2>1
<1>5. CASE ~Synced(t)
  BY <1>1, <1>5 DEF SyncOK, Synced
<1>6. CASE Synced(t)
  <2>1. ASSUME Arrived(t, "server", "DATA") PROVE By(t, wire[t].ops, wire[t].vals)'
    <3>1. By(t, wire[t].ops, wire[t].vals) /\ wire[t].ops \in OpMaps
      BY <1>6, <2>1, TypedParts DEF SyncOK, Arrived
    <3>2. SyncedBy(home'[t], cl'[t].known, local'[t], wire[t].ops, wire[t].vals, disk')
      BY <1>4, <3>1
    <3> QED
      BY <1>1, <3>2 DEF By
  <2>2. ASSUME sy[t].pc = "apply" PROVE By(t, sy[t].ops, sy[t].vals)'
    <3>1. By(t, sy[t].ops, sy[t].vals) /\ sy[t].ops \in OpMaps
      BY <1>6, <2>2, TypedParts DEF SyncOK
    <3>2. SyncedBy(home'[t], cl'[t].known, local'[t], sy[t].ops, sy[t].vals, disk')
      BY <1>4, <3>1
    <3> QED
      BY <1>1, <3>2 DEF By
  <2>3. ASSUME cl[t].pc = "write" PROVE By(t, cl[t].ops, cl[t].vals)'
    <3>1. By(t, cl[t].ops, cl[t].vals) /\ cl[t].ops \in OpMaps
      BY <1>6, <2>3, TypedParts DEF SyncOK
    <3>2. SyncedBy(home'[t], cl'[t].known, local'[t], cl[t].ops, cl[t].vals, disk')
      BY <1>4, <3>1
    <3> QED
      BY <1>1, <3>2 DEF By
  <2>4. ASSUME Arrived(t, "server", "NULL") \/ Arrived(t, "client", "NULL")
        PROVE  By(t, NoOps, Nothing)'
    <3>1. By(t, NoOps, Nothing) /\ NoOps \in OpMaps
      BY <1>6, <2>4, EmptyTyped DEF SyncOK
    <3>2. SyncedBy(home'[t], cl'[t].known, local'[t], NoOps, Nothing, disk')
      BY <1>4, <3>1
    <3> QED
      BY <3>2 DEF By, NoOps, Nothing
  <2> QED
    BY <1>1, <2>1, <2>2, <2>3, <2>4 DEF SyncOK, Arrived
<1> QED
  BY <1>5, <1>6

\* No step of a terminal spoils it for that terminal.
LEMMA TerminalSynced ==
  ASSUME WellTyped, Tracked, InOrder, Moves, NEW t \in Terminals, SyncOK(t),
         \/ Start(t) \/ Abort(t) \/ ClientStep(t) \/ Accept(t) \/ SyncerStep(t)
         \/ Cut(t) \/ ClientCrash(t)
         \/ \E p \in Paths : Edit(t, p)
  PROVE  SyncOK(t)' /\ Others(t) /\ (UNCHANGED disk \/ sy[t].pc # "none")
<1>0. /\ TerminalOK(t) /\ Alone /\ WriterOK /\ writer[t].fit /\ left = <<>>
      /\ wire[t] # None => wire[t].head # "JUNK"
  BY DEF Moves, Tracked, InOrder, LeftOK, WriterOK, WireOK, PackOK
<1>1. CASE Start(t) \/ Abort(t)
  BY <1>1, StartEffect, AbortEffect, NotSynced
<1>2. CASE ClientStep(t)
  <2>1. CASE Connect(t)
    BY <2>1, ConnectEffect, NotSynced
  <2>2. CASE ClientReply(t)
    <3>1. Others(t) /\ UNCHANGED disk /\ cl'[t].pc \in {"query", "off"}
      BY <2>2, ClientReplyEffect
    <3> QED
      BY <3>1, NotSynced
  <2>3. CASE ClientData(t)
    BY <2>3, ClientDataEffect, NotSynced
  <2>4. CASE ClientApplied(t)
    BY <1>0, <2>4, ClientAppliedEffect, ClientAppliedSynced
  <2>5. CASE ClientTurn(t)
    BY <1>0, <2>5, ClientTurnEffect, ClientTurnSynced
  <2>6. CASE ClientWrite(t)
    BY <1>0, <2>6, ClientWriteEffect, ClientWriteSynced
  <2>7. CASE ClientBroken(t)
    BY <2>7, ClientBrokenEffect, NotSynced
  <2>8. ASSUME NEW p \in Paths, ClientApply(t, p)
        PROVE  SyncOK(t)' /\ Others(t) /\ UNCHANGED disk
    <3>1. Others(t) /\ UNCHANGED disk /\ cl'[t].pc \in {"connect", "apply"}
      BY <2>8, ClientApplyEffect
    <3> QED
      BY <3>1, NotSynced
  <2>9. ASSUME NEW p \in Paths, WriteEntry(t, p)
        PROVE  SyncOK(t)' /\ Others(t) /\ UNCHANGED disk
    BY <1>0, <2>9, WriteEntryEffect, WriteEntrySynced
  <2>10. CASE WriteContent(t)
    BY <1>0, <2>10, WriteContentEffect, WriteContentSynced
  <2>11. ~ClientJunk(t)
    BY <1>0, ClientJunkEffect DEF Arrived
  <2> QED
    BY <1>2, <2>1, <2>2, <2>3, <2>4, <2>5, <2>6, <2>7, <2>8, <2>9, <2>10, <2>11 DEF ClientStep
<1>3. CASE Accept(t)
  <2>1. Arrived(t, "server", "INIT") /\ UNCHANGED <<cl, disk>> /\ Others(t)
    BY <1>3, AcceptEffect
  <2>2. t \in orphans
    BY <1>0, <2>1, SessionFacts DEF Turns, Arrived
  <2>3. t \in orphans' \/ up[t]
    BY <1>3, <2>2, AcceptEffect
  <2>4. up[t] => cl[t].pc = "init"
    BY <1>0, <2>2, SessionFacts
  <2> QED
    BY <2>1, <2>3, <2>4, NotSynced
<1>4. CASE SyncerStep(t)
  <2>1. CASE SyncerTurn(t)
    <3>1. Others(t) /\ UNCHANGED disk
      BY <2>1, SyncerTurnEffect
    <3> QED
      BY <1>0, <2>1, <3>1, SyncerTurnSynced
  <2>2. CASE SyncerData(t)
    BY <1>0, <2>2, SyncerDataEffect, SyncerDataSynced
  <2>3. CASE SyncerApplied(t)
    BY <1>0, <2>3, SyncerAppliedEffect, SyncerAppliedSynced
  <2>4. CASE SyncerBroken(t)
    BY <2>4, SyncerBrokenEffect, NotSynced
  <2>5. ASSUME NEW p \in Paths, SyncerApply(t, p)
        PROVE  SyncOK(t)' /\ Others(t) /\ sy[t].pc # "none"
    <3>1. Others(t) /\ sy[t].pc = "apply"
      BY <1>0, <2>5, SyncerApplyEffect
    <3> QED
      BY <1>0, <2>5, <3>1, SyncerApplySynced
  <2>6. CASE SyncerEnds(t)
    BY <2>6, SyncerEndsEffect, NotSynced
  <2>7. ~SyncerMeddled(t) /\ ~SyncerJunk(t)
    <3>1. DOMAIN left = {}
      BY <1>0
    <3>2. ASSUME NEW s \in Terminals \ {t}, sy[t].pc = "read" PROVE sy[s].pc # "apply"
      BY <1>0, <3>2 DEF Alone
    <3> QED
      BY <1>0, <3>1, <3>2, SyncerMeddledEffect, SyncerJunkEffect DEF Arrived
  <2> QED
    BY <1>4, <2>1, <2>2, <2>3, <2>4, <2>5, <2>6, <2>7 DEF SyncerStep
<1>5. CASE Cut(t) \/ ClientCrash(t)
  BY <1>5, CutEffect, ClientCrashEffect, NotSynced
<1>6. ASSUME NEW p \in Paths, Edit(t, p)
      PROVE  SyncOK(t)' /\ Others(t) /\ UNCHANGED disk
  <2>1. Others(t) /\ UNCHANGED disk
    BY <1>6, EditEffect
  <2> QED
    BY <1>0, <1>6, <2>1, EditSynced
<1> QED
  BY <1>1, <1>2, <1>3, <1>4, <1>5, <1>6

SyncAll == \A t \in Terminals : SyncOK(t)

LEMMA SyncStep ==
  ASSUME WellTyped, Tracked, InOrder, Moves, SyncAll, [Next]_vars
  PROVE  SyncAll'
<1>1. ASSUME NEW t \in Terminals,
             \/ Start(t) \/ Abort(t) \/ ClientStep(t) \/ Accept(t) \/ SyncerStep(t)
             \/ Cut(t) \/ ClientCrash(t)
             \/ \E p \in Paths : Edit(t, p)
      PROVE  SyncAll'
  <2>1. SyncOK(t)' /\ Others(t) /\ (UNCHANGED disk \/ sy[t].pc # "none")
    BY <1>1, TerminalSynced DEF SyncAll
  <2>2. ASSUME NEW s \in Terminals PROVE SyncOK(s)'
    <3>1. CASE s = t
      BY <2>1, <3>1
    <3>2. CASE s # t
      <4>1. /\ home'[s] = home[s] /\ cl'[s] = cl[s]
            /\ sy'[s] = sy[s] \/ sy[s].pc \in {"none", "dead", "hung"}
            /\ s \in orphans' <=> s \in orphans
            /\ wire'[s] = wire[s] /\ local'[s] = local[s]
        BY <2>1, <3>2 DEF Others
      <4>2. UNCHANGED disk \/ sy[s].pc = "none"
        BY <2>1, <3>2 DEF Moves, Alone
      <4>3. SyncOK(s)
        BY DEF SyncAll
      <4> QED
        BY <4>1, <4>2, <4>3, OthersSynced
    <3> QED
      BY <3>1, <3>2
  <2> QED
    BY <2>2 DEF SyncAll
<1>2. CASE garbageCollection \/ CancelSyncers
  <2>1. /\ UNCHANGED <<home, cl, disk, orphans, wire, local>>
        /\ \A t \in Terminals :
             sy'[t] = sy[t] \/ sy[t].pc \in {"none", "dead", "hung"}
    BY <1>2, GarbageEffect
  <2>2. ASSUME NEW t \in Terminals PROVE SyncOK(t)'
    <3>1. SyncOK(t)
      BY DEF SyncAll
    <3> QED
      BY <2>1, <3>1, OthersSynced
  <2> QED
    BY <2>2 DEF SyncAll
<1>3. CASE ServerCrash
  <2>1. orphans' = Terminals
    BY <1>3, ServerCrashEffect
  <2> QED
    BY <2>1, NotSynced DEF SyncAll
<1>4. CASE UNCHANGED vars
  <2>1. UNCHANGED <<home, cl, sy, disk, orphans, wire, local>>
    BY <1>4 DEF vars
  <2>2. ASSUME NEW t \in Terminals PROVE SyncOK(t)'
    <3>1. SyncOK(t)
      BY DEF SyncAll
    <3> QED
      BY <2>1, <3>1, OthersSynced
  <2> QED
    BY <2>2 DEF SyncAll
<1>5. ~LateStep
  BY LateEffect DEF Tracked, LeftOK, InOrder
<1> QED
  BY <1>1, <1>2, <1>3, <1>4, <1>5 DEF Next

LEMMA SyncedSuffices == WellTyped /\ Tracked /\ (InOrder => SyncAll) => SyncedIsOnServer
<1> SUFFICES ASSUME WellTyped, SyncAll, NEW t \in Terminals, Synced(t),
                    Arrived(t, "server", "NULL") \/ Arrived(t, "client", "NULL"),
                    NEW p \in Paths \ local[t], Operations(cl[t].known, home[t])[p] = "-"
             PROVE  Same(home[t][p], disk[p])
  BY TypedIsTypeOK DEF SyncedIsOnServer
<1>1. SyncedBy(home[t], cl[t].known, local[t], NoOps, Nothing, disk)
  BY DEF SyncAll, SyncOK, By
<1>2. /\ home[t] \in Trees /\ cl[t].known \in Knowledge /\ disk \in Trees /\ NoOps[p] = "-"
      /\ Real(home[t], newest) /\ Real(disk, newest)
  BY TypedParts DEF NoOps
<1>3. Current(home[t][p], cl[t].known[p])
  BY <1>2, OperationIs
<1>4. CASE p \in Files
  BY <1>1, <1>2, <1>3, <1>4 DEF SyncedBy, FileSynced
<1>5. CASE p \in Dirs
  <2>1. cl[t].known[p] # "none" <=> disk[p].there
    BY <1>1, <1>2, <1>5 DEF SyncedBy, DirSynced
  <2>2. home[t][p].v = 0 /\ disk[p].v = 0
    BY <1>2, <1>5 DEF Real
  <2>3. home[t][p].there \in BOOLEAN /\ disk[p].there \in BOOLEAN
    BY <1>2 DEF Trees, Entries
  <2>4. cl[t].known[p] # "none" <=> home[t][p].there
    BY <1>3, <2>3 DEF Current
  <2> QED
    BY <2>1, <2>2, <2>3, <2>4 DEF Same
<1> QED
  BY <1>4, <1>5 DEF Paths

\* What a client takes for synchronised is on the server while all is in order,
\* for any number of terminals, files and directories and any number of edits
\* and faults: the file map of a client that waits for its turn (sync, checkDiff)
\* only hides an entry that the server has as it is, or one recorded unsent
\* before. In order or not, the state is well typed and closed.
THEOREM SyncedFilesAreOnServer == Spec => []SyncedIsOnServer
<1> DEFINE Inv == Kept /\ (InOrder => SyncAll)
<1>1. Init => Inv
  <2>1. Init => orphans = Terminals
    BY DEF Init
  <2>2. Init => SyncAll
    BY <2>1 DEF SyncAll, SyncOK, Synced
  <2> QED
    BY <2>2, InitMoves DEF Kept
<1>2. Inv /\ [Next]_vars => Inv'
  <2> SUFFICES ASSUME Inv, [Next]_vars PROVE Inv'
    OBVIOUS
  <2>1. Kept' /\ (InOrder' => InOrder)
    BY KeptStep
  <2>2. InOrder' => SyncAll'
    BY <2>1, SyncStep DEF Kept
  <2> QED
    BY <2>1, <2>2
<1>3. Inv => SyncedIsOnServer
  BY SyncedSuffices DEF Kept
<1> QED
  BY <1>1, <1>2, <1>3, PTL DEF Spec
=============================================================================
