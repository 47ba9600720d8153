------------------------------- MODULE VfsProof -------------------------------
(***************************************************************************)
(* The references and the mutexes of vnodes are exact, whatever the calls  *)
(* of however many processes do between each other's steps.                *)
(***************************************************************************)
EXTENDS Vfs, LeastNumbers, FiniteSetTheorems

-----------------------------------------------------------------------------
(* The invariant.                                                            *)

Vnodes == [in : BOOLEAN, refs : Nat, pages : BOOLEAN, lock : Procs \cup {None}]
Files == [v : Inodes \cup {None}, refs : Nat, w : BOOLEAN]

\* Entries of a directory name inodes.
EntriesOK(q) == q \in Seq(Range(q)) /\ \A e \in Range(q) : e.i \in Inodes

\* A vnode that is not in use has no reference and no owner.
VnodeOK(v) == v \in Vnodes /\ (~v.in => v.refs = 0 /\ v.lock = None)

InodeOK(x) ==
  DOMAIN x = {"type", "link", "direct", "ind", "next"} /\ x.next \in Inodes \cup {None}

\* What the references and mutexes need of a file system.
FsOK(s) ==
  /\ DOMAIN s = {"sb", "table", "inode", "ent", "vn", "ifree"}
  /\ DOMAIN s.vn = Inodes /\ \A i \in Inodes : VnodeOK(s.vn[i])
  /\ DOMAIN s.inode = Inodes /\ \A i \in Inodes : InodeOK(s.inode[i])
  /\ DOMAIN s.ent = Inodes /\ \A d \in Inodes : EntriesOK(s.ent[d])
  /\ s.ifree \in Inodes \cup {None}

\* The files of a process: one reference for each descriptor, and a vnode if
\* there is one, but for the file that an open has not finished (descriptor o).
FilesOK(r, o) ==
  /\ r.fds \in [Fds -> 0 .. NFILES] /\ r.file \in [FileIds -> Files]
  /\ \A f \in FileIds : /\ r.file[f].refs = Count({d \in Fds : r.fds[d] = f})
                        /\ r.file[f].refs = 0 => r.file[f].v = None
  /\ \A d \in Fds : r.fds[d] # 0 /\ d # o => r.file[r.fds[d]].v # None
  /\ o # None => /\ o \in Fds /\ r.fds[o] # 0
                 /\ r.file[r.fds[o]].refs = 1 /\ r.file[r.fds[o]].v = None

\* What a call under way holds, wherever it is.
Busy(r) ==
  /\ DOMAIN r = {"pc", "op", "names", "to", "at", "tgt", "src", "fd", "mark", "blk",
                 "cwd", "fds", "file"}
  /\ r.cwd \in Inodes /\ r.at \in Inodes /\ r.op \in Ops
  /\ r.src \in Inodes \cup {None} /\ (r.src # None => r.op = "link")
  /\ r.fd # None <=> r.op \in Opens
  /\ FilesOK(r, r.fd)

Resting(r) ==
  /\ DOMAIN r = {"pc", "op", "names", "to", "at", "tgt", "src", "fd", "mark", "blk",
                 "cwd", "fds", "file"}
  /\ r.cwd \in Inodes /\ r.at = None /\ r.tgt = None /\ r.src = None /\ r.fd = None
  /\ FilesOK(r, None)

Locking == {"link", "dot", "dotdot", "rmdir2"}
Making == {"make", "alloc", "link", "dot", "dotdot"}

ProcOK(r) ==
  \/ r.pc = "idle" /\ Resting(r)
  \/ /\ r.pc \in {"walk", "look", "rmdir", "unlink", "rmdir2"} \cup Making /\ Busy(r)
     /\ IF r.pc \in Locking \cup {"unlink"} THEN r.tgt \in Inodes ELSE r.tgt = None
     /\ r.pc = "look" => r.op # "rmdir"
     /\ r.pc \in Making => r.op \in Makes
     /\ r.pc \in {"rmdir", "rmdir2"} => r.op = "rmdir"
     /\ r.pc = "unlink" => r.op = "unlink"
     /\ r.pc \in {"dot", "dotdot"} => r.op = "mkdir"

\* The references of vnode i.
Owed(i) ==
  (IF i = Root THEN 1 ELSE 0)
  + Count({p \in Procs : proc[p].cwd = i}) + Count({p \in Procs : proc[p].at = i})
  + Count({p \in Procs : proc[p].tgt = i}) + Count({p \in Procs : proc[p].src = i})
  + Count({x \in Procs \X FileIds : proc[x[1]].file[x[2]].v = i})

HeldBy(r, i) == r.at = i /\ r.pc \in Locking

Exact ==
  /\ FsOK(fs)
  /\ DOMAIN proc = Procs /\ \A p \in Procs : ProcOK(proc[p])
  /\ \A i \in Inodes : fs.vn[i].refs = Owed(i)
  /\ \A i \in Inodes, p \in Procs : fs.vn[i].lock = p <=> HeldBy(proc[p], i)

\* The rest of the type invariant.
Bounded ==
  /\ panic \in {"no", "assert", "free"} /\ calls \in 0 .. MaxCalls
  /\ raced \subseteq Inodes /\ stray \subseteq Inodes

-----------------------------------------------------------------------------
(* Entries, vnodes and inodes.                                               *)

LEMMA Numbers ==
  /\ None = -1 /\ None \notin Inodes /\ None \notin Procs /\ Root \in Inodes /\ IsFiniteSet(Procs)
  /\ Inodes \subseteq Nat /\ NumInodes \in Nat \ {0} /\ NFILES \in Nat \ {0} /\ MaxCalls \in Nat
  BY VfsAssumption, S5Assumption DEF None, Inodes, Root

LEMMA EntriesIntro ==
  ASSUME NEW S, NEW q \in Seq(S), \A e \in S : e.i \in Inodes
  PROVE  EntriesOK(q)
<1>1. Range(q) \subseteq S
  BY DEF Range
<1>2. q \in Seq(Range(q))
  <2>1. Len(q) \in Nat /\ DOMAIN q = 1 .. Len(q) /\ q = [k \in 1 .. Len(q) |-> q[k]]
    OBVIOUS
  <2>2. \A k \in 1 .. Len(q) : q[k] \in Range(q)
    BY <2>1 DEF Range
  <2>3. [k \in 1 .. Len(q) |-> q[k]] \in [1 .. Len(q) -> Range(q)]
    BY <2>2
  <2> QED
    BY <2>1, <2>3
<1> QED
  BY <1>1, <1>2 DEF EntriesOK

LEMMA EntryIsInode ==
  ASSUME NEW q, EntriesOK(q), NEW k \in 1 .. Len(q)
  PROVE  q[k].i \in Inodes
<1>1. q[k] \in Range(q)
  BY DEF EntriesOK
<1> QED
  BY <1>1 DEF EntriesOK

LEMMA EntriesAppend ==
  ASSUME NEW q, EntriesOK(q), NEW name, NEW i \in Inodes
  PROVE  EntriesOK(Append(q, Entry(name, i)))
<1>1. PICK S : S = Range(q) \cup {Entry(name, i)}
  OBVIOUS
<1>2. Append(q, Entry(name, i)) \in Seq(S)
  <2>1. q \in Seq(S) /\ Entry(name, i) \in S
    <3>1. q \in Seq(Range(q)) /\ Range(q) \subseteq S
      BY <1>1 DEF EntriesOK
    <3> QED
      BY <1>1, <3>1
  <2> QED
    BY <2>1
<1>3. \A e \in S : e.i \in Inodes
  BY <1>1 DEF EntriesOK, Entry
<1> QED
  BY <1>2, <1>3, EntriesIntro

LEMMA EntriesWithout ==
  ASSUME NEW q, EntriesOK(q), NEW k \in 1 .. Len(q)
  PROVE  EntriesOK(WithoutEntry(q, k))
<1>1. PICK S : S = Range(q)
  OBVIOUS
<1>2. q \in Seq(S) /\ \A e \in S : e.i \in Inodes
  BY <1>1 DEF EntriesOK
<1>3. Len(q) \in Nat /\ Len(q) >= 1 /\ q[Len(q)] \in S
  BY <1>2
<1>4. PICK t : t = [q EXCEPT ![k] = q[Len(q)]]
  OBVIOUS
<1>5. t \in Seq(S) /\ Len(t) = Len(q)
  BY <1>2, <1>3, <1>4
<1>6. SubSeq(t, 1, Len(t) - 1) \in Seq(S)
  BY <1>3, <1>5
<1>7. WithoutEntry(q, k) = SubSeq(t, 1, Len(t) - 1)
  BY <1>4 DEF WithoutEntry, Front, Last
<1> QED
  BY <1>2, <1>6, <1>7, EntriesIntro

-----------------------------------------------------------------------------
(* What an operation does to references and mutexes: t has the references of *)
(* s, one less of j, or one more; the mutexes are the same.                  *)

On(x, i) == IF x = i THEN 1 ELSE 0

Same(s, t) ==
  /\ FsOK(t)
  /\ \A i \in Inodes : t.vn[i].refs = s.vn[i].refs /\ t.vn[i].lock = s.vn[i].lock

Put(s, t, j) ==
  /\ FsOK(t)
  /\ \A i \in Inodes : /\ t.vn[i].refs = s.vn[i].refs - On(j, i)
                       /\ t.vn[i].lock = s.vn[i].lock

Got(s, t, j) ==
  /\ FsOK(t)
  /\ \A i \in Inodes : /\ t.vn[i].refs = s.vn[i].refs + On(j, i)
                       /\ t.vn[i].lock = s.vn[i].lock

\* Operations on vnodes and the rest of a file system are apart.
LEMMA VnodesApart ==
  ASSUME NEW s, FsOK(s), NEW t, DOMAIN t = DOMAIN s,
         \A x \in {"sb", "table", "inode", "ent", "ifree"} : t[x] = s[x],
         DOMAIN t.vn = Inodes, \A i \in Inodes : VnodeOK(t.vn[i])
  PROVE  FsOK(t)
<1>1. t.inode = s.inode /\ t.ent = s.ent /\ t.ifree = s.ifree
  OBVIOUS
<1> QED
  BY <1>1 DEF FsOK

\* One vnode is replaced.
WithVnode(s, i, v) == [s EXCEPT !.vn[i] = v]

LEMMA SetVnode ==
  ASSUME NEW s, FsOK(s), NEW i \in Inodes, NEW v, VnodeOK(v),
         NEW t, t = WithVnode(s, i, v)
  PROVE  /\ FsOK(t) /\ t.vn[i] = v
         /\ \A j \in Inodes : j # i => t.vn[j] = s.vn[j]
         /\ t.inode = s.inode /\ t.ent = s.ent /\ t.ifree = s.ifree
<1>1. /\ DOMAIN s = {"sb", "table", "inode", "ent", "vn", "ifree"}
      /\ DOMAIN s.vn = Inodes /\ \A j \in Inodes : VnodeOK(s.vn[j])
  BY DEF FsOK
<1>2. /\ t.vn = [s.vn EXCEPT ![i] = v] /\ DOMAIN t = DOMAIN s
      /\ \A x \in {"sb", "table", "inode", "ent", "ifree"} : t[x] = s[x]
  BY <1>1 DEF WithVnode
<1>3. /\ DOMAIN t.vn = Inodes /\ t.vn[i] = v
      /\ \A j \in Inodes : j # i => t.vn[j] = s.vn[j]
  BY <1>1, <1>2
<1>4. \A j \in Inodes : VnodeOK(t.vn[j])
  BY <1>1, <1>3
<1>5. FsOK(t)
  BY <1>2, <1>3, <1>4, VnodesApart
<1> QED
  BY <1>2, <1>3, <1>5

LEMMA VnodeType ==
  ASSUME NEW s, FsOK(s), NEW i \in Inodes
  PROVE  /\ VnodeOK(s.vn[i]) /\ s.vn[i].refs \in Nat /\ s.vn[i].lock \in Procs \cup {None}
         /\ s.vn[i] \in Vnodes
         /\ s.vn[i].refs > 0 \/ s.vn[i].lock # None => s.vn[i].in
  BY DEF FsOK, VnodeOK, Vnodes

LEMMA PagesSame ==
  ASSUME NEW s, FsOK(s), NEW d \in Inodes
  PROVE  /\ Same(s, ReadPages(s, d)) /\ ReadPages(s, d).inode = s.inode
         /\ ReadPages(s, d).ent = s.ent
<1>1. VnodeOK(s.vn[d])
  BY VnodeType
<1>2. PICK v : v = [s.vn[d] EXCEPT !.pages = TRUE]
  OBVIOUS
<1>3. VnodeOK(v) /\ v.refs = s.vn[d].refs /\ v.lock = s.vn[d].lock
  BY <1>1, <1>2 DEF VnodeOK, Vnodes
<1>4. PICK t : t = ReadPages(s, d)
  OBVIOUS
<1>5. t = WithVnode(s, d, v)
  BY <1>2, <1>4 DEF ReadPages, WithVnode
<1>6. /\ FsOK(t) /\ t.vn[d] = v
      /\ \A j \in Inodes : j # d => t.vn[j] = s.vn[j]
      /\ t.inode = s.inode /\ t.ent = s.ent
  BY <1>3, <1>5, SetVnode
<1> QED
  BY <1>3, <1>4, <1>6 DEF Same

\* One vnode has a reference more or less.
LEMMA AddsOne ==
  ASSUME NEW s, FsOK(s), NEW t, FsOK(t), NEW d \in Inodes,
         \A j \in Inodes : j # d => t.vn[j] = s.vn[j], t.vn[d].lock = s.vn[d].lock
  PROVE  /\ t.vn[d].refs = s.vn[d].refs + 1 => Got(s, t, d)
         /\ t.vn[d].refs = s.vn[d].refs - 1 => Put(s, t, d)
<1>1. \A i \in Inodes : s.vn[i].refs \in Nat
  BY VnodeType
<1>2. \A i \in Inodes : t.vn[i].lock = s.vn[i].lock
  OBVIOUS
<1>3. \A i \in Inodes : i # d => t.vn[i].refs = s.vn[i].refs /\ On(d, i) = 0
  BY DEF On
<1>4. On(d, d) = 1
  BY DEF On
<1> QED
  BY <1>1, <1>2, <1>3, <1>4 DEF Got, Put

LEMMA VrefGot ==
  ASSUME NEW s, FsOK(s), NEW d \in Inodes, s.vn[d].refs > 0
  PROVE  Got(s, vref(s, d), d) /\ vref(s, d).inode = s.inode
<1>1. VnodeOK(s.vn[d]) /\ s.vn[d].refs \in Nat
  BY VnodeType
<1>2. PICK v : v = [s.vn[d] EXCEPT !.refs = s.vn[d].refs + 1]
  OBVIOUS
<1>3. VnodeOK(v) /\ v.refs = s.vn[d].refs + 1 /\ v.lock = s.vn[d].lock
  BY <1>1, <1>2 DEF VnodeOK, Vnodes
<1>4. PICK t : t = vref(s, d)
  OBVIOUS
<1>5. t = WithVnode(s, d, v)
  BY <1>2, <1>4 DEF vref, WithVnode
<1>6. /\ FsOK(t) /\ t.vn[d] = v /\ t.inode = s.inode
      /\ \A j \in Inodes : j # d => t.vn[j] = s.vn[j]
  BY <1>3, <1>5, SetVnode
<1>7. Got(s, t, d)
  BY <1>3, <1>6, AddsOne
<1> QED
  BY <1>4, <1>6, <1>7

LEMMA LockOnly ==
  ASSUME NEW s, FsOK(s), NEW d \in Inodes, s.vn[d].refs > 0, NEW x \in Procs \cup {None},
         NEW t, t = Lock(s, d, x)
  PROVE  /\ FsOK(t) /\ t.inode = s.inode /\ t.vn[d].lock = x
         /\ \A i \in Inodes : /\ t.vn[i].refs = s.vn[i].refs
                              /\ i # d => t.vn[i].lock = s.vn[i].lock
<1>1. VnodeOK(s.vn[d]) /\ s.vn[d].refs \in Nat
  BY VnodeType
<1>2. PICK v : v = [s.vn[d] EXCEPT !.lock = x]
  OBVIOUS
<1>3. VnodeOK(v) /\ v.refs = s.vn[d].refs /\ v.lock = x
  BY <1>1, <1>2 DEF VnodeOK, Vnodes
<1>4. t = WithVnode(s, d, v)
  BY <1>2 DEF WithVnode, Lock
<1>5. /\ FsOK(t) /\ t.vn[d] = v /\ t.inode = s.inode
      /\ \A j \in Inodes : j # d => t.vn[j] = s.vn[j]
  BY <1>3, <1>4, SetVnode
<1> QED
  BY <1>3, <1>5

\* The inodes, the entries and the lists change.
LEMMA SameVnodes ==
  ASSUME NEW s, FsOK(s), NEW t, DOMAIN t = DOMAIN s, t.vn = s.vn,
         DOMAIN t.inode = Inodes, \A i \in Inodes : InodeOK(t.inode[i]),
         DOMAIN t.ent = Inodes, \A d \in Inodes : EntriesOK(t.ent[d]),
         t.ifree \in Inodes \cup {None}
  PROVE  Same(s, t)
  BY DEF FsOK, Same

LEMMA InodeSet ==
  ASSUME NEW m, DOMAIN m = Inodes, \A i \in Inodes : InodeOK(m[i]),
         NEW i \in Inodes, NEW x, InodeOK(x), NEW w, w = [m EXCEPT ![i] = x]
  PROVE  DOMAIN w = Inodes /\ \A j \in Inodes : InodeOK(w[j])
  OBVIOUS

LEMMA LinkSet ==
  ASSUME NEW m, DOMAIN m = Inodes, \A i \in Inodes : InodeOK(m[i]),
         NEW i \in Inodes, NEW n, NEW w, w = [m EXCEPT ![i].link = n]
  PROVE  DOMAIN w = Inodes /\ \A j \in Inodes : InodeOK(w[j])
<1>1. PICK x : x = [m[i] EXCEPT !.link = n]
  OBVIOUS
<1>2. InodeOK(x)
  BY <1>1 DEF InodeOK
<1>3. w = [m EXCEPT ![i] = x]
  BY <1>1
<1>4. DOMAIN w = DOMAIN m /\ \A j \in Inodes : w[j] = IF j = i THEN x ELSE m[j]
  BY <1>3
<1> QED
  BY <1>2, <1>4

\* s5_free_inode keeps vnodes.
LEMMA FreeSame ==
  ASSUME NEW s, FsOK(s), NEW i \in Inodes
  PROVE  Same(s, s5_free_inode(s, i))
<1>1. PICK sb, table, x, t :
        /\ x = FreeInode(s.ifree)
        /\ t = [s EXCEPT !.sb = sb, !.table = table,
                         !.inode[i] = x, !.ifree = i, !.ent[i] = <<>>]
        /\ t = s5_free_inode(s, i)
  BY DEF s5_free_inode
<1>2. /\ DOMAIN s = {"sb", "table", "inode", "ent", "vn", "ifree"}
      /\ DOMAIN s.inode = Inodes /\ \A j \in Inodes : InodeOK(s.inode[j])
      /\ DOMAIN s.ent = Inodes /\ \A d \in Inodes : EntriesOK(s.ent[d])
      /\ s.ifree \in Inodes \cup {None}
  BY DEF FsOK
<1>3. InodeOK(x)
  BY <1>1, <1>2 DEF InodeOK, FreeInode
<1>4. EntriesOK(<<>>)
  <2>1. PICK S : S = Range(s.ent[i])
    OBVIOUS
  <2>2. \A e \in S : e.i \in Inodes
    BY <1>2, <2>1 DEF EntriesOK
  <2>3. <<>> \in Seq(S)
    OBVIOUS
  <2> QED
    BY <2>2, <2>3, EntriesIntro
<1>5. /\ DOMAIN t = DOMAIN s /\ t.vn = s.vn /\ t.ifree = i
      /\ t.inode = [s.inode EXCEPT ![i] = x]
      /\ t.ent = [s.ent EXCEPT ![i] = <<>>]
  BY <1>1, <1>2
<1>6. DOMAIN t.inode = Inodes /\ \A j \in Inodes : InodeOK(t.inode[j])
  BY <1>2, <1>3, <1>5
<1>7. DOMAIN t.ent = Inodes /\ \A j \in Inodes : EntriesOK(t.ent[j])
  BY <1>2, <1>4, <1>5
<1>8. Same(s, t)
  BY <1>5, <1>6, <1>7, SameVnodes
<1> QED
  BY <1>1, <1>8

\* A file system gets the inodes m.
LEMMA InodesSame ==
  ASSUME NEW s, FsOK(s), NEW m, DOMAIN m = Inodes, \A i \in Inodes : InodeOK(m[i]),
         NEW t, t = [s EXCEPT !.inode = m]
  PROVE  FsOK(t) /\ t.vn = s.vn
  BY DEF FsOK

\* vget adds a reference.
LEMMA VgetGot ==
  ASSUME NEW s, FsOK(s), NEW i \in Inodes
  PROVE  Got(s, vget(s, i), i)
<1>1. VnodeOK(s.vn[i]) /\ s.vn[i].refs \in Nat
  BY VnodeType
<1>2. CASE s.vn[i].in
  <2>1. PICK v : v = [s.vn[i] EXCEPT !.refs = s.vn[i].refs + 1]
    OBVIOUS
  <2>2. VnodeOK(v) /\ v.refs = s.vn[i].refs + 1 /\ v.lock = s.vn[i].lock
    BY <1>1, <1>2, <2>1 DEF VnodeOK, Vnodes
  <2>3. PICK t : t = vget(s, i)
    OBVIOUS
  <2>4. t = WithVnode(s, i, v)
    BY <1>2, <2>1, <2>3 DEF vget, WithVnode
  <2>5. FsOK(t) /\ t.vn[i] = v /\ \A j \in Inodes : j # i => t.vn[j] = s.vn[j]
    BY <2>2, <2>4, SetVnode
  <2>6. Got(s, t, i)
    BY <2>2, <2>5, AddsOne
  <2> QED
    BY <2>3, <2>6
<1>3. CASE ~s.vn[i].in
  <2>1. s.vn[i].refs = 0 /\ s.vn[i].lock = None
    BY <1>1, <1>3 DEF VnodeOK
  <2>2. PICK v : v = [NoVnode EXCEPT !.in = TRUE, !.refs = 1]
    OBVIOUS
  <2>3. VnodeOK(v) /\ v.refs = 1 /\ v.lock = None
    BY <2>2 DEF VnodeOK, Vnodes, NoVnode
  <2>4. PICK u : u = WithVnode(s, i, v)
    OBVIOUS
  <2>5. /\ FsOK(u) /\ u.vn[i] = v /\ \A j \in Inodes : j # i => u.vn[j] = s.vn[j]
        /\ u.inode = s.inode
    BY <2>3, <2>4, SetVnode
  <2>6. PICK m : m = [s.inode EXCEPT ![i].link = s.inode[i].link + 1]
    OBVIOUS
  <2>7. DOMAIN s.inode = Inodes /\ \A j \in Inodes : InodeOK(s.inode[j])
    BY DEF FsOK
  <2>8. DOMAIN m = Inodes /\ \A j \in Inodes : InodeOK(m[j])
    BY <2>6, <2>7, LinkSet
  <2>9. PICK t : t = vget(s, i)
    OBVIOUS
  <2>10. t = [u EXCEPT !.inode = m]
    BY <1>3, <2>2, <2>4, <2>6, <2>9 DEF vget, WithVnode, FsOK
  <2>11. FsOK(t) /\ t.vn = u.vn
    BY <2>5, <2>8, <2>10, InodesSame
  <2>12. Got(s, t, i)
    <3>1. /\ \A j \in Inodes : j # i => t.vn[j] = s.vn[j]
          /\ t.vn[i].lock = s.vn[i].lock /\ t.vn[i].refs = s.vn[i].refs + 1
      BY <2>1, <2>3, <2>5, <2>11
    <3> QED
      BY <2>11, <3>1, AddsOne
  <2> QED
    BY <2>9, <2>12
<1> QED
  BY <1>2, <1>3

\* There is a reference to put, and one more if a process has the mutex.
Enough(s, i) == s.vn[i].refs >= 1 /\ (s.vn[i].lock # None => s.vn[i].refs >= 2)

\* s5fs_delete_vnode of a vnode with no reference left.
LEMMA DeleteSame ==
  ASSUME NEW s, FsOK(s), NEW i \in Inodes, s.vn[i].refs = 0, s.vn[i].lock = None
  PROVE  Same(s, s5fs_delete_vnode(s, i))
<1>1. VnodeOK(NoVnode) /\ NoVnode.refs = 0 /\ NoVnode.lock = None
  BY DEF VnodeOK, Vnodes, NoVnode
<1>2. PICK u : u = WithVnode(s, i, NoVnode)
  OBVIOUS
<1>3. /\ FsOK(u) /\ u.vn[i] = NoVnode /\ \A j \in Inodes : j # i => u.vn[j] = s.vn[j]
      /\ u.inode = s.inode
  BY <1>1, <1>2, SetVnode
<1>4. PICK m : m = [s.inode EXCEPT ![i].link = s.inode[i].link - 1]
  OBVIOUS
<1>5. DOMAIN s.inode = Inodes /\ \A j \in Inodes : InodeOK(s.inode[j])
  BY DEF FsOK
<1>6. DOMAIN m = Inodes /\ \A j \in Inodes : InodeOK(m[j])
  BY <1>4, <1>5, LinkSet
<1>7. PICK t : t = [u EXCEPT !.inode = m]
  OBVIOUS
<1>8. FsOK(t) /\ t.vn = u.vn
  BY <1>3, <1>6, <1>7, InodesSame
<1>9. Same(s, t)
  <2>1. \A j \in Inodes : t.vn[j].refs = s.vn[j].refs /\ t.vn[j].lock = s.vn[j].lock
    BY <1>1, <1>3, <1>8
  <2> QED
    BY <1>8, <2>1 DEF Same
<1>10. s5fs_delete_vnode(s, i) \in {t, s5_free_inode(t, i)}
  <2>1. t = [s EXCEPT !.vn[i] = NoVnode, !.inode[i].link = @ - 1]
    BY <1>2, <1>4, <1>7 DEF WithVnode, FsOK
  <2> QED
    BY <2>1 DEF s5fs_delete_vnode
<1>11. Same(t, s5_free_inode(t, i))
  BY <1>8, FreeSame
<1> QED
  BY <1>9, <1>10, <1>11 DEF Same

LEMMA SameFacts ==
  ASSUME NEW s, NEW t, NEW u, Same(t, u)
  PROVE  /\ FsOK(u)
         /\ Same(s, t) => Same(s, u)
         /\ \A j : Put(s, t, j) => Put(s, u, j)
         /\ \A j : Got(s, t, j) => Got(s, u, j)
  BY DEF Same, Put, Got

LEMMA VputPut ==
  ASSUME NEW s, FsOK(s), NEW i \in Inodes, Enough(s, i)
  PROVE  Put(s, vput(s, i), i)
<1>1. VnodeOK(s.vn[i]) /\ s.vn[i].refs \in Nat /\ s.vn[i].in
  BY VnodeType DEF Enough
<1>2. PICK v : v = [s.vn[i] EXCEPT !.refs = s.vn[i].refs - 1]
  OBVIOUS
<1>3. VnodeOK(v) /\ v.refs = s.vn[i].refs - 1 /\ v.lock = s.vn[i].lock
  BY <1>1, <1>2 DEF VnodeOK, Vnodes, Enough
<1>4. PICK t : t = WithVnode(s, i, v)
  OBVIOUS
<1>5. FsOK(t) /\ t.vn[i] = v /\ \A j \in Inodes : j # i => t.vn[j] = s.vn[j]
  BY <1>3, <1>4, SetVnode
<1>6. Put(s, t, i)
  BY <1>3, <1>5, AddsOne
<1>7. t = [s EXCEPT !.vn[i].refs = @ - 1]
  BY <1>2, <1>4 DEF WithVnode
<1>8. CASE t.vn[i].refs > 0 \/ (t.vn[i].pages /\ s5fs_query_vnode(t, i))
  BY <1>6, <1>7, <1>8 DEF vput
<1>9. CASE ~(t.vn[i].refs > 0 \/ (t.vn[i].pages /\ s5fs_query_vnode(t, i)))
  <2>1. t.vn[i].refs = 0 /\ t.vn[i].lock = None
    BY <1>1, <1>3, <1>5, <1>9 DEF Enough
  <2>2. Same(t, s5fs_delete_vnode(t, i))
    BY <1>5, <2>1, DeleteSame
  <2>3. vput(s, i) = s5fs_delete_vnode(t, i)
    BY <1>7, <1>9 DEF vput
  <2> QED
    BY <1>6, <2>2, <2>3, SameFacts
<1> QED
  BY <1>8, <1>9

LEMMA PageOutSame ==
  ASSUME NEW s, FsOK(s), NEW i \in Inodes, s.vn[i].lock # None => s.vn[i].refs > 0
  PROVE  Same(s, PageOut(s, i))
<1>1. VnodeOK(s.vn[i]) /\ s.vn[i].refs \in Nat
  BY VnodeType
<1>2. PICK v : v = [s.vn[i] EXCEPT !.pages = FALSE]
  OBVIOUS
<1>3. VnodeOK(v) /\ v.refs = s.vn[i].refs /\ v.lock = s.vn[i].lock
  BY <1>1, <1>2 DEF VnodeOK, Vnodes
<1>4. PICK t : t = WithVnode(s, i, v)
  OBVIOUS
<1>5. FsOK(t) /\ t.vn[i] = v /\ \A j \in Inodes : j # i => t.vn[j] = s.vn[j]
  BY <1>3, <1>4, SetVnode
<1>6. Same(s, t)
  BY <1>3, <1>5 DEF Same
<1>7. t = [s EXCEPT !.vn[i].pages = FALSE]
  BY <1>2, <1>4 DEF WithVnode
<1>8. CASE t.vn[i].refs > 0
  BY <1>6, <1>7, <1>8 DEF PageOut
<1>9. CASE ~(t.vn[i].refs > 0)
  <2>1. t.vn[i].refs = 0 /\ t.vn[i].lock = None
    BY <1>1, <1>3, <1>5, <1>9
  <2>2. Same(t, s5fs_delete_vnode(t, i))
    BY <1>5, <2>1, DeleteSame
  <2>3. PageOut(s, i) = s5fs_delete_vnode(t, i)
    BY <1>7, <1>9 DEF PageOut
  <2> QED
    BY <1>6, <2>2, <2>3, SameFacts
<1> QED
  BY <1>8, <1>9

\* s5_alloc_inode takes an inode of the free list.
LEMMA AllocSame ==
  ASSUME NEW s, FsOK(s), NEW type
  PROVE  LET a == s5_alloc_inode(s, type)
         IN  Same(s, a.s) /\ (a.i # None => a.i \in Inodes)
<1>1. /\ DOMAIN s = {"sb", "table", "inode", "ent", "vn", "ifree"}
      /\ DOMAIN s.inode = Inodes /\ \A j \in Inodes : InodeOK(s.inode[j])
      /\ DOMAIN s.ent = Inodes /\ \A d \in Inodes : EntriesOK(s.ent[d])
      /\ s.ifree \in Inodes \cup {None}
  BY DEF FsOK
<1>2. CASE s.ifree = None
  BY <1>2 DEF s5_alloc_inode, Same
<1>3. CASE s.ifree # None
  <2>1. PICK i \in Inodes : i = s.ifree
    BY <1>1, <1>3
  <2>2. PICK x : x = [FreeInode(0) EXCEPT !.type = type]
    OBVIOUS
  <2>3. InodeOK(x)
    BY <2>2, Numbers DEF InodeOK, FreeInode, Root
  <2>4. PICK t : t = [s EXCEPT !.ifree = s.inode[s.ifree].next, !.inode[s.ifree] = x]
    OBVIOUS
  <2>5. /\ DOMAIN t = DOMAIN s /\ t.vn = s.vn /\ t.ent = s.ent
        /\ t.ifree = s.inode[i].next /\ t.inode = [s.inode EXCEPT ![i] = x]
    BY <1>1, <2>1, <2>4
  <2>6. DOMAIN t.inode = Inodes /\ \A j \in Inodes : InodeOK(t.inode[j])
    BY <1>1, <2>3, <2>5
  <2>7. t.ifree \in Inodes \cup {None}
    BY <1>1, <2>1, <2>5 DEF InodeOK
  <2>8. Same(s, t)
    BY <1>1, <2>5, <2>6, <2>7, SameVnodes
  <2>9. s5_alloc_inode(s, type) = [i |-> s.ifree, s |-> t]
    BY <1>3, <2>2, <2>4 DEF s5_alloc_inode
  <2> QED
    BY <2>1, <2>8, <2>9
<1> QED
  BY <1>2, <1>3

\* s5_write_file changes the list of free blocks and the blocks of one file.
LEMMA WriteSame ==
  ASSUME NEW s, FsOK(s), NEW i \in Inodes, NEW first, NEW last
  PROVE  /\ Same(s, s5_write_file(s, i, first, last))
         /\ s5_write_file(s, i, first, last).ent = s.ent
<1>1. PICK u : u = ReadPages(s, i)
  OBVIOUS
<1>2. Same(s, u) /\ FsOK(u) /\ u.ent = s.ent
  BY <1>1, PagesSame DEF Same
<1>0. CASE WriteFails(s, i, first)
  <2>1. s5_write_file(s, i, first, last) = s
    BY <1>0 DEF s5_write_file
  <2> QED
    BY <2>1 DEF Same
<1> SUFFICES ASSUME ~WriteFails(s, i, first)
             PROVE  /\ Same(s, s5_write_file(s, i, first, last))
                    /\ s5_write_file(s, i, first, last).ent = s.ent
  BY <1>0
<1>3. PICK w : \/ w = Started(s, i, first) /\ s5_write_file(s, i, first, last) = Written(s, i, w)
               \/ /\ w = DirtyPages(s, i, first, last)
                  /\ s5_write_file(s, i, first, last) = Written(s, i, w)
  BY DEF s5_write_file
<1>12. PICK sb, table, direct, ind :
         sb = w.sb /\ table = w.table /\ direct = w.inode[i].direct /\ ind = w.inode[i].ind
  OBVIOUS
<1>13. PICK t : t = s5_write_file(s, i, first, last)
  OBVIOUS
<1>14. t = [u EXCEPT !.sb = sb, !.table = table, !.inode[i].direct = direct,
                     !.inode[i].ind = ind]
  BY <1>1, <1>3, <1>12, <1>13 DEF Written
<1>4. /\ DOMAIN u = {"sb", "table", "inode", "ent", "vn", "ifree"}
      /\ DOMAIN u.inode = Inodes /\ \A j \in Inodes : InodeOK(u.inode[j])
      /\ DOMAIN u.ent = Inodes /\ \A d \in Inodes : EntriesOK(u.ent[d])
      /\ u.ifree \in Inodes \cup {None}
  BY <1>2 DEF FsOK
<1>5. PICK x : x = [u.inode[i] EXCEPT !.direct = direct, !.ind = ind]
  OBVIOUS
<1>6. InodeOK(x)
  BY <1>4, <1>5 DEF InodeOK
<1>7. /\ DOMAIN t = DOMAIN u /\ t.vn = u.vn /\ t.ent = u.ent /\ t.ifree = u.ifree
      /\ t.inode = [u.inode EXCEPT ![i].direct = direct, ![i].ind = ind]
  BY <1>4, <1>14
<1>8. DOMAIN t.inode = Inodes /\ \A j \in Inodes : InodeOK(t.inode[j])
  <2>1. PICK m : m = [u.inode EXCEPT ![i].direct = direct, ![i].ind = ind]
    OBVIOUS
  <2>2. DOMAIN m = Inodes /\ m[i] = x /\ \A j \in Inodes : j # i => m[j] = u.inode[j]
    BY <1>4, <1>5, <2>1
  <2> QED
    BY <1>4, <1>6, <1>7, <2>1, <2>2
<1>9. Same(u, t)
  BY <1>2, <1>4, <1>7, <1>8, SameVnodes
<1>10. Same(s, t) /\ t.ent = s.ent
  BY <1>2, <1>7, <1>9, SameFacts
<1> QED
  BY <1>10, <1>13

LEMMA LinkSame ==
  ASSUME NEW s, FsOK(s), NEW d \in Inodes, NEW i \in Inodes, NEW name
  PROVE  Same(s, s5_link(s, d, i, name))
<1>1. PICK u : u = s5_write_file(s, d, PageOf(Len(s.ent[d])), PageOf(Len(s.ent[d]) + 1))
  OBVIOUS
<1>2. Same(s, u) /\ FsOK(u)
  BY <1>1, WriteSame DEF Same
<1>3. /\ DOMAIN u = {"sb", "table", "inode", "ent", "vn", "ifree"}
      /\ DOMAIN u.inode = Inodes /\ \A j \in Inodes : InodeOK(u.inode[j])
      /\ DOMAIN u.ent = Inodes /\ \A j \in Inodes : EntriesOK(u.ent[j])
      /\ u.ifree \in Inodes \cup {None}
  BY <1>2 DEF FsOK
<1>4. PICK q : q = Append(u.ent[d], Entry(name, i))
  OBVIOUS
<1>5. EntriesOK(q)
  BY <1>3, <1>4, EntriesAppend
<1>6. PICK n, t :
        /\ t = [u EXCEPT !.ent[d] = q, !.inode[i].link = n]
        /\ t = s5_link(s, d, i, name)
  BY <1>1, <1>4 DEF s5_link
<1>7. /\ DOMAIN t = DOMAIN u /\ t.vn = u.vn /\ t.ifree = u.ifree
      /\ t.ent = [u.ent EXCEPT ![d] = q] /\ t.inode = [u.inode EXCEPT ![i].link = n]
  BY <1>3, <1>6
<1>8. DOMAIN t.inode = Inodes /\ \A j \in Inodes : InodeOK(t.inode[j])
  <2>1. PICK m : m = [u.inode EXCEPT ![i].link = n]
    OBVIOUS
  <2>2. DOMAIN m = Inodes /\ \A j \in Inodes : InodeOK(m[j])
    BY <1>3, <2>1, LinkSet
  <2> QED
    BY <1>7, <2>1, <2>2
<1>9. DOMAIN t.ent = Inodes /\ \A j \in Inodes : EntriesOK(t.ent[j])
  BY <1>3, <1>5, <1>7
<1>10. Same(u, t)
  BY <1>2, <1>3, <1>7, <1>8, <1>9, SameVnodes
<1> QED
  BY <1>2, <1>6, <1>10, SameFacts

\* The place of a name that a directory has.
LEMMA NamePlace ==
  ASSUME NEW s, FsOK(s), NEW d \in Inodes, NEW name, At(s, d, name) # {}
  PROVE  /\ Min(At(s, d, name)) \in 1 .. Len(s.ent[d])
         /\ s.ent[d][Min(At(s, d, name))].i \in Inodes
<1>1. EntriesOK(s.ent[d])
  BY DEF FsOK
<1>2. PICK A : A = At(s, d, name)
  OBVIOUS
<1>3. A # {} /\ A \subseteq 1 .. Len(s.ent[d]) /\ A \in SUBSET Nat
  <2>1. Len(s.ent[d]) \in Nat
    BY <1>1 DEF EntriesOK
  <2> QED
    BY <1>2, <2>1 DEF At
<1>4. \E n \in A : \A m \in A : n <= m
  BY <1>3, LeastNumber
<1>5. Min(A) \in A
  BY <1>4 DEF Min
<1>6. PICK k : k = Min(A)
  OBVIOUS
<1>7. k \in 1 .. Len(s.ent[d])
  BY <1>3, <1>5, <1>6
<1>8. s.ent[d][k].i \in Inodes
  BY <1>1, <1>7, EntryIsInode
<1> QED
  BY <1>2, <1>6, <1>7, <1>8

\* s5_remove_dirent gets and puts the vnode of the entry.
LEMMA RemoveSame ==
  ASSUME NEW s, FsOK(s), NEW d \in Inodes, NEW name, At(s, d, name) # {},
         \A j \in Inodes : s.vn[j].lock # None => s.vn[j].refs > 0
  PROVE  Same(s, s5_remove_dirent(s, d, name))
<1>1. PICK k : k = Min(At(s, d, name))
  OBVIOUS
<1>2. PICK i : i = s.ent[d][k].i
  OBVIOUS
<1>3. k \in 1 .. Len(s.ent[d]) /\ i \in Inodes
  BY <1>1, <1>2, NamePlace
<1>4. PICK t : t = IF k < Len(s.ent[d]) THEN s5_write_file(s, d, PageOf(k - 1), PageOf(k))
                   ELSE ReadPages(s, d)
  OBVIOUS
<1>5. Same(s, t) /\ FsOK(t) /\ t.ent = s.ent
  BY <1>4, WriteSame, PagesSame DEF Same
<1>6. /\ DOMAIN t = {"sb", "table", "inode", "ent", "vn", "ifree"}
      /\ DOMAIN t.inode = Inodes /\ \A j \in Inodes : InodeOK(t.inode[j])
      /\ DOMAIN t.ent = Inodes /\ \A j \in Inodes : EntriesOK(t.ent[j])
      /\ t.ifree \in Inodes \cup {None}
  BY <1>5 DEF FsOK
<1>7. PICK q : q = WithoutEntry(t.ent[d], k)
  OBVIOUS
<1>8. EntriesOK(q)
  BY <1>3, <1>5, <1>6, <1>7, EntriesWithout
<1>9. PICK w : w = [t EXCEPT !.ent[d] = q]
  OBVIOUS
<1>10. /\ DOMAIN w = DOMAIN t /\ w.vn = t.vn /\ w.ifree = t.ifree /\ w.inode = t.inode
       /\ w.ent = [t.ent EXCEPT ![d] = q]
  BY <1>6, <1>9
<1>11. DOMAIN w.ent = Inodes /\ \A j \in Inodes : EntriesOK(w.ent[j])
  BY <1>6, <1>8, <1>10
<1>12. Same(s, w) /\ FsOK(w)
  <2>1. Same(t, w)
    BY <1>5, <1>6, <1>10, <1>11, SameVnodes
  <2> QED
    BY <1>5, <2>1, SameFacts
<1>13. PICK u : u = vget(w, i)
  OBVIOUS
<1>14. Got(w, u, i)
  BY <1>3, <1>12, <1>13, VgetGot
<1>15. FsOK(u) /\ DOMAIN u.inode = Inodes /\ \A j \in Inodes : InodeOK(u.inode[j])
  BY <1>14 DEF Got, FsOK
<1>16. PICK m : m = [u.inode EXCEPT ![i].link = u.inode[i].link - 1]
  OBVIOUS
<1>17. DOMAIN m = Inodes /\ \A j \in Inodes : InodeOK(m[j])
  BY <1>3, <1>15, <1>16, LinkSet
<1>18. PICK x : x = [u EXCEPT !.inode = m]
  OBVIOUS
<1>19. FsOK(x) /\ x.vn = u.vn
  BY <1>15, <1>17, <1>18, InodesSame
<1>20. \A j \in Inodes : /\ x.vn[j].refs = s.vn[j].refs + On(i, j)
                         /\ x.vn[j].lock = s.vn[j].lock /\ s.vn[j].refs \in Nat
  BY <1>12, <1>14, <1>19, VnodeType DEF Got, Same
<1>21. Enough(x, i)
  BY <1>3, <1>20 DEF Enough, On
<1>22. Put(x, vput(x, i), i)
  BY <1>3, <1>19, <1>21, VputPut
<1>23. Same(s, vput(x, i))
  <2>1. \A j \in Inodes : On(i, j) \in {0, 1}
    BY DEF On
  <2> QED
    BY <1>20, <1>22, <2>1 DEF Put, Same
<1>24. s5_remove_dirent(s, d, name) = vput(x, i)
  <2>1. x = [u EXCEPT !.inode[i].link = @ - 1]
    BY <1>16, <1>18
  <2> QED
    BY <1>1, <1>2, <1>4, <1>7, <1>9, <1>13, <2>1 DEF s5_remove_dirent
<1> QED
  BY <1>23, <1>24

\* s5fs_lookup gets the vnode that it finds.
LEMMA LookupGot ==
  ASSUME NEW s, FsOK(s), NEW d \in Inodes, NEW name, NEW l, l = s5fs_lookup(s, d, name)
  PROVE  \/ l.ret = "ENOENT" /\ Same(s, l.s)
         \/ l.ret = "panic"
         \/ l.ret = "ok" /\ l.i \in Inodes /\ Got(s, l.s, l.i)
<1>1. PICK i : i = s5_find_dirent(s, d, name)
  OBVIOUS
<1>2. PICK u : u = ReadPages(s, d)
  OBVIOUS
<1>3. Same(s, u) /\ FsOK(u)
  BY <1>2, PagesSame DEF Same
<1>4. CASE ~Found(s, d, name)
  BY <1>2, <1>3, <1>4 DEF s5fs_lookup
<1>5. CASE Found(s, d, name)
  <2>1. i \in Inodes
    BY <1>1, <1>5, NamePlace, Numbers DEF s5_find_dirent, Found
  <2>2. CASE VgetPanics(s, i)
    BY <1>1, <1>5, <2>2 DEF s5fs_lookup
  <2>3. CASE ~VgetPanics(s, i)
    <3>1. Got(u, vget(u, i), i)
      BY <1>3, <2>1, VgetGot
    <3>2. Got(s, vget(u, i), i)
      BY <1>3, <3>1 DEF Got, Same
    <3>3. l = [ret |-> "ok", i |-> i, s |-> vget(u, i)]
      BY <1>1, <1>2, <1>5, <2>3 DEF s5fs_lookup
    <3> QED
      BY <2>1, <3>2, <3>3
  <2> QED
    BY <2>2, <2>3
<1> QED
  BY <1>4, <1>5

-----------------------------------------------------------------------------
(* Counting references.                                                      *)

LEMMA CountChange ==
  ASSUME NEW A, NEW B, IsFiniteSet(A), IsFiniteSet(B), NEW x,
         \A y : y # x => (y \in A <=> y \in B)
  PROVE  /\ Count(A) \in Nat /\ Count(B) \in Nat
         /\ Count(B) = Count(A) - (IF x \in A THEN 1 ELSE 0) + (IF x \in B THEN 1 ELSE 0)
<1>1. A \ {x} = B \ {x}
  OBVIOUS
<1>2. /\ Cardinality(A) \in Nat /\ Cardinality(B) \in Nat
      /\ Cardinality(A \ {x}) = IF x \in A THEN Cardinality(A) - 1 ELSE Cardinality(A)
      /\ Cardinality(B \ {x}) = IF x \in B THEN Cardinality(B) - 1 ELSE Cardinality(B)
  BY FS_CardinalityType, FS_RemoveElement
<1>3. PICK n \in Int : n = Cardinality(A) /\ n = Count(A)
  BY <1>2 DEF Count
<1>4. PICK m \in Int : m = Cardinality(B) /\ m = Count(B)
  BY <1>2 DEF Count
<1>5. (IF x \in A THEN n - 1 ELSE n) = (IF x \in B THEN m - 1 ELSE m)
  BY <1>1, <1>2, <1>3, <1>4
<1>6. m = n - (IF x \in A THEN 1 ELSE 0) + (IF x \in B THEN 1 ELSE 0)
  BY <1>5
<1> QED
  BY <1>2, <1>3, <1>4, <1>6

LEMMA CountLow ==
  ASSUME NEW A, IsFiniteSet(A)
  PROVE  /\ Count(A) \in Nat
         /\ \A x \in A : Count(A) >= 1
         /\ \A x \in A, y \in A : x # y => Count(A) >= 2
<1>1. Cardinality(A) \in Nat
  BY FS_CardinalityType
<1>2. ASSUME NEW x \in A PROVE Cardinality(A \ {x}) = Cardinality(A) - 1 /\ Cardinality(A \ {x}) \in Nat
                               /\ IsFiniteSet(A \ {x})
  <2>1. IsFiniteSet(A \ {x}) /\ Cardinality(A \ {x}) = Cardinality(A) - 1
    BY FS_RemoveElement
  <2> QED
    BY <2>1, FS_CardinalityType
<1>3. ASSUME NEW x \in A PROVE Cardinality(A) >= 1
  <2>1. Cardinality(A) - 1 \in Nat
    BY <1>2
  <2> QED
    BY <1>1, <2>1
<1>4. ASSUME NEW x \in A, NEW y \in A, x # y PROVE Cardinality(A) >= 2
  <2>1. PICK B : B = A \ {x}
    OBVIOUS
  <2>2. y \in B /\ IsFiniteSet(B) /\ Cardinality(B) = Cardinality(A) - 1
    BY <1>2, <1>4, <2>1
  <2>3. Cardinality(B \ {y}) = Cardinality(B) - 1 /\ IsFiniteSet(B \ {y})
    BY <2>2, FS_RemoveElement
  <2>4. Cardinality(B \ {y}) \in Nat
    BY <2>3, FS_CardinalityType
  <2> QED
    BY <1>1, <2>2, <2>3, <2>4
<1> QED
  BY <1>1, <1>3, <1>4 DEF Count

LEMMA FilesFinite ==
  /\ IsFiniteSet(FileIds) /\ IsFiniteSet(Fds) /\ IsFiniteSet(Procs \X FileIds)
  /\ Cardinality(FileIds) = NFILES /\ Cardinality(Fds) = NFILES
<1>1. NFILES \in Nat \ {0} /\ IsFiniteSet(Procs)
  BY Numbers
<1>2. IsFiniteSet(FileIds) /\ Cardinality(FileIds) = NFILES
  BY <1>1, FS_Interval DEF FileIds
<1>3. IsFiniteSet(Fds) /\ Cardinality(Fds) = NFILES
  BY <1>1, FS_Interval DEF Fds
<1> QED
  BY <1>1, <1>2, <1>3, FS_Product

\* The references to i that a process has, those of its files but g apart.
Mine(r, g, i) == On(r.cwd, i) + On(r.at, i) + On(r.tgt, i) + On(r.src, i) + On(r.file[g].v, i)

\* The sets that Owed counts are finite.
LEMMA OwedFinite ==
  ASSUME NEW i
  PROVE  /\ IsFiniteSet({p \in Procs : proc[p].cwd = i}) /\ IsFiniteSet({p \in Procs : proc[p].at = i})
         /\ IsFiniteSet({p \in Procs : proc[p].tgt = i}) /\ IsFiniteSet({p \in Procs : proc[p].src = i})
         /\ IsFiniteSet({x \in Procs \X FileIds : proc[x[1]].file[x[2]].v = i})
<1>1. IsFiniteSet(Procs) /\ IsFiniteSet(Procs \X FileIds)
  BY FilesFinite, Numbers
<1> QED
  BY <1>1, FS_Subset

\* A step of p changes what is owed by what p has.
LEMMA OwedChange ==
  ASSUME NEW p \in Procs, NEW r, DOMAIN proc = Procs, proc' = [proc EXCEPT ![p] = r],
         NEW g \in FileIds, \A f \in FileIds : f # g => r.file[f].v = proc[p].file[f].v,
         NEW i \in Inodes
  PROVE  Owed(i)' = Owed(i) - Mine(proc[p], g, i) + Mine(r, g, i)
<1> DEFINE C == {q \in Procs : proc[q].cwd = i}
           A == {q \in Procs : proc[q].at = i}
           T == {q \in Procs : proc[q].tgt = i}
           S == {q \in Procs : proc[q].src = i}
           F == {x \in Procs \X FileIds : proc[x[1]].file[x[2]].v = i}
<1>1. /\ IsFiniteSet(C) /\ IsFiniteSet(A) /\ IsFiniteSet(T) /\ IsFiniteSet(S) /\ IsFiniteSet(F)
      /\ IsFiniteSet(C') /\ IsFiniteSet(A') /\ IsFiniteSet(T') /\ IsFiniteSet(S') /\ IsFiniteSet(F')
  <2>1. /\ C' = {q \in Procs : proc'[q].cwd = i} /\ A' = {q \in Procs : proc'[q].at = i}
        /\ T' = {q \in Procs : proc'[q].tgt = i} /\ S' = {q \in Procs : proc'[q].src = i}
        /\ F' = {x \in Procs \X FileIds : proc'[x[1]].file[x[2]].v = i}
    OBVIOUS
  <2>2. IsFiniteSet(Procs) /\ IsFiniteSet(Procs \X FileIds)
    BY FilesFinite, Numbers
  <2>3. C \subseteq Procs /\ A \subseteq Procs /\ T \subseteq Procs /\ S \subseteq Procs
        /\ F \subseteq Procs \X FileIds
    OBVIOUS
  <2>4. C' \subseteq Procs /\ A' \subseteq Procs /\ T' \subseteq Procs /\ S' \subseteq Procs
        /\ F' \subseteq Procs \X FileIds
    OBVIOUS
  <2> HIDE DEF C, A, T, S, F
  <2> QED
    BY <2>2, <2>3, <2>4, FS_Subset
<1>2. proc'[p] = r /\ \A q \in Procs : q # p => proc'[q] = proc[q]
  OBVIOUS
<1>3. /\ \A y : y # p => (y \in C <=> y \in C')
      /\ \A y : y # p => (y \in A <=> y \in A')
      /\ \A y : y # p => (y \in T <=> y \in T')
      /\ \A y : y # p => (y \in S <=> y \in S')
      /\ p \in C <=> proc[p].cwd = i
      /\ p \in C' <=> r.cwd = i
      /\ p \in A <=> proc[p].at = i
      /\ p \in A' <=> r.at = i
      /\ p \in T <=> proc[p].tgt = i
      /\ p \in T' <=> r.tgt = i
      /\ p \in S <=> proc[p].src = i
      /\ p \in S' <=> r.src = i
  BY <1>2
<1>4. PICK z : z = <<p, g>>
  OBVIOUS
<1>5. /\ \A y : y # z => (y \in F <=> y \in F')
      /\ z \in F <=> proc[p].file[g].v = i
      /\ z \in F' <=> r.file[g].v = i
  <2>1. ASSUME NEW y \in Procs \X FileIds, y # z
        PROVE  y \in F <=> y \in F'
    <3>1. y[1] \in Procs /\ y[2] \in FileIds /\ (y[1] # p \/ y[2] # g)
      BY <1>4, <2>1
    <3>2. proc'[y[1]].file[y[2]].v = proc[y[1]].file[y[2]].v
      BY <1>2, <3>1
    <3> QED
      BY <3>2
  <2>2. z \in Procs \X FileIds /\ z[1] = p /\ z[2] = g
    BY <1>4
  <2> QED
    BY <1>2, <2>1, <2>2
<1>6. /\ Owed(i) = On(i, Root) + Count(C) + Count(A) + Count(T) + Count(S) + Count(F)
      /\ Owed(i)' = On(i, Root) + Count(C') + Count(A') + Count(T') + Count(S') + Count(F')
  BY DEF Owed, On, Count
<1> HIDE DEF C, A, T, S, F
<1>7. /\ Count(C) \in Nat /\ Count(A) \in Nat /\ Count(T) \in Nat /\ Count(S) \in Nat /\ Count(F) \in Nat
  BY <1>1, CountLow
<1>8. /\ Count(C') = Count(C) - On(proc[p].cwd, i) + On(r.cwd, i)
      /\ Count(A') = Count(A) - On(proc[p].at, i) + On(r.at, i)
      /\ Count(T') = Count(T) - On(proc[p].tgt, i) + On(r.tgt, i)
      /\ Count(S') = Count(S) - On(proc[p].src, i) + On(r.src, i)
  <2>1. Count(C') = Count(C) - On(proc[p].cwd, i) + On(r.cwd, i)
    BY <1>1, <1>3, CountChange DEF On
  <2>2. Count(A') = Count(A) - On(proc[p].at, i) + On(r.at, i)
    BY <1>1, <1>3, CountChange DEF On
  <2>3. Count(T') = Count(T) - On(proc[p].tgt, i) + On(r.tgt, i)
    BY <1>1, <1>3, CountChange DEF On
  <2>4. Count(S') = Count(S) - On(proc[p].src, i) + On(r.src, i)
    BY <1>1, <1>3, CountChange DEF On
  <2> QED
    BY <2>1, <2>2, <2>3, <2>4
<1>9. Count(F') = Count(F) - On(proc[p].file[g].v, i) + On(r.file[g].v, i)
  BY <1>1, <1>5, CountChange DEF On
<1>10. /\ Mine(proc[p], g, i) = On(proc[p].cwd, i) + On(proc[p].at, i) + On(proc[p].tgt, i)
                                 + On(proc[p].src, i) + On(proc[p].file[g].v, i)
       /\ Mine(r, g, i) = On(r.cwd, i) + On(r.at, i) + On(r.tgt, i) + On(r.src, i)
                          + On(r.file[g].v, i)
  BY DEF Mine
<1>11. /\ On(proc[p].cwd, i) \in Int /\ On(proc[p].at, i) \in Int /\ On(proc[p].tgt, i) \in Int
       /\ On(proc[p].src, i) \in Int /\ On(proc[p].file[g].v, i) \in Int
       /\ On(r.cwd, i) \in Int /\ On(r.at, i) \in Int /\ On(r.tgt, i) \in Int
       /\ On(r.src, i) \in Int /\ On(r.file[g].v, i) \in Int /\ On(i, Root) \in Int
  BY DEF On
<1> QED
  BY <1>6, <1>7, <1>8, <1>9, <1>10, <1>11

\* Another process than p has the mutex of i.
Other(s, p, i) == IF s.vn[i].lock \in Procs \ {p} THEN 1 ELSE 0

\* A vnode has the references of p, and one of the process that has its mutex.
LEMMA Shares ==
  ASSUME Exact, NEW p \in Procs, NEW i \in Inodes, NEW g \in FileIds
  PROVE  /\ fs.vn[i].refs \in Nat
         /\ fs.vn[i].refs >= On(Root, i) + Mine(proc[p], g, i) + Other(fs, p, i)
<1> DEFINE C == {q \in Procs : proc[q].cwd = i}
           A == {q \in Procs : proc[q].at = i}
           T == {q \in Procs : proc[q].tgt = i}
           S == {q \in Procs : proc[q].src = i}
           F == {x \in Procs \X FileIds : proc[x[1]].file[x[2]].v = i}
<1>1. IsFiniteSet(C) /\ IsFiniteSet(A) /\ IsFiniteSet(T) /\ IsFiniteSet(S) /\ IsFiniteSet(F)
  BY OwedFinite
<1>2. fs.vn[i].refs = On(i, Root) + Count(C) + Count(A) + Count(T) + Count(S) + Count(F)
  BY DEF Exact, Owed, On
<1>3. /\ proc[p].cwd = i => p \in C
      /\ proc[p].at = i => p \in A
      /\ proc[p].tgt = i => p \in T
      /\ proc[p].src = i => p \in S
  OBVIOUS
<1>4. proc[p].file[g].v = i => \E x : x \in F
  <2> SUFFICES ASSUME proc[p].file[g].v = i PROVE <<p, g>> \in F
    OBVIOUS
  <2> QED
    OBVIOUS
<1>5. ASSUME NEW q \in Procs \ {p}, fs.vn[i].lock = q
      PROVE  q \in A
  BY <1>5 DEF Exact, HeldBy
<1> HIDE DEF C, A, T, S, F
<1>6. /\ Count(C) \in Nat /\ Count(C) >= On(proc[p].cwd, i)
      /\ Count(T) \in Nat /\ Count(T) >= On(proc[p].tgt, i)
      /\ Count(S) \in Nat /\ Count(S) >= On(proc[p].src, i)
      /\ Count(F) \in Nat /\ Count(F) >= On(proc[p].file[g].v, i)
  BY <1>1, <1>3, <1>4, CountLow DEF On
<1>7. Count(A) \in Nat /\ Count(A) >= On(proc[p].at, i) + Other(fs, p, i)
  <2>1. Count(A) \in Nat /\ (\A x \in A : Count(A) >= 1)
        /\ (\A x \in A, y \in A : x # y => Count(A) >= 2)
    BY <1>1, CountLow
  <2>2. Other(fs, p, i) = 1 => \E q \in Procs \ {p} : q \in A
    BY <1>5 DEF Other
  <2>3. Other(fs, p, i) \in {0, 1} /\ On(proc[p].at, i) \in {0, 1}
    BY DEF Other, On
  <2>4. On(proc[p].at, i) = 1 => p \in A
    BY <1>3 DEF On
  <2> QED
    BY <2>1, <2>2, <2>3, <2>4
<1>8. /\ On(proc[p].cwd, i) \in Int /\ On(proc[p].at, i) \in Int /\ On(proc[p].tgt, i) \in Int
      /\ On(proc[p].src, i) \in Int /\ On(proc[p].file[g].v, i) \in Int
      /\ On(i, Root) \in Nat /\ On(Root, i) = On(i, Root) /\ Other(fs, p, i) \in Int
  BY DEF On, Other
<1> QED
  BY <1>2, <1>6, <1>7, <1>8 DEF Mine

\* s has a reference for each of a, b, c and d, and those of mutexes.
Covers(s, p, a, b, c, d) ==
  \A i \in Inodes : s.vn[i].refs >= On(a, i) + On(b, i) + On(c, i) + On(d, i) + Other(s, p, i)

LEMMA OnInt == \A x, i : On(x, i) \in {0, 1} /\ On(x, i) \in Int
  BY DEF On

LEMMA OtherInt == \A s, p, i : Other(s, p, i) \in {0, 1} /\ Other(s, p, i) \in Int
  BY DEF Other

LEMMA CoversMove ==
  ASSUME NEW s, NEW p, NEW a, NEW b, NEW c, NEW d, Covers(s, p, a, b, c, d)
  PROVE  /\ Covers(s, p, b, a, c, d) /\ Covers(s, p, c, a, b, d) /\ Covers(s, p, d, a, b, c)
<1>1. \A i \in Inodes : /\ On(a, i) \in Int /\ On(b, i) \in Int /\ On(c, i) \in Int
                        /\ On(d, i) \in Int /\ Other(s, p, i) \in Int
  BY OnInt, OtherInt
<1>2. \A i \in Inodes :
        /\ On(a, i) + On(b, i) + On(c, i) + On(d, i) = On(b, i) + On(a, i) + On(c, i) + On(d, i)
        /\ On(a, i) + On(b, i) + On(c, i) + On(d, i) = On(c, i) + On(a, i) + On(b, i) + On(d, i)
        /\ On(a, i) + On(b, i) + On(c, i) + On(d, i) = On(d, i) + On(a, i) + On(b, i) + On(c, i)
  BY <1>1
<1> QED
  BY <1>2 DEF Covers

LEMMA CoversSame ==
  ASSUME NEW s, NEW t, Same(s, t), NEW p, NEW a, NEW b, NEW c, NEW d, Covers(s, p, a, b, c, d)
  PROVE  Covers(t, p, a, b, c, d)
  BY DEF Same, Covers, Other

LEMMA OnNone == \A i \in Inodes : On(None, i) = 0
  BY Numbers DEF On

LEMMA CoversGot ==
  ASSUME NEW s, FsOK(s), NEW t, NEW x, Got(s, t, x), NEW p, NEW a, NEW b, NEW c,
         Covers(s, p, a, b, c, None)
  PROVE  Covers(t, p, x, a, b, c)
<1> SUFFICES ASSUME NEW i \in Inodes
             PROVE  t.vn[i].refs >= On(x, i) + On(a, i) + On(b, i) + On(c, i) + Other(t, p, i)
  BY DEF Covers
<1>1. /\ t.vn[i].refs = s.vn[i].refs + On(x, i) /\ Other(t, p, i) = Other(s, p, i)
      /\ s.vn[i].refs \in Nat
  BY VnodeType DEF Got, Other
<1>2. s.vn[i].refs >= On(a, i) + On(b, i) + On(c, i) + On(None, i) + Other(s, p, i)
  BY DEF Covers
<1>3. /\ On(a, i) \in Int /\ On(b, i) \in Int /\ On(c, i) \in Int /\ On(None, i) = 0
      /\ On(x, i) \in Int /\ Other(s, p, i) \in Int
  BY OnInt, OtherInt, OnNone
<1> QED
  BY <1>1, <1>2, <1>3

LEMMA PutFirst ==
  ASSUME NEW s, FsOK(s), NEW p \in Procs, NEW a \in Inodes, NEW b, NEW c, NEW d,
         Covers(s, p, a, b, c, d), s.vn[a].lock # p
  PROVE  Put(s, vput(s, a), a) /\ Covers(vput(s, a), p, b, c, d, None) /\ FsOK(vput(s, a))
<1>1. s.vn[a].refs \in Nat /\ s.vn[a].lock \in Procs \cup {None}
  BY VnodeType
<1>2. s.vn[a].refs >= On(a, a) + On(b, a) + On(c, a) + On(d, a) + Other(s, p, a)
  BY DEF Covers
<1>3. /\ On(a, a) = 1 /\ On(b, a) \in {0, 1} /\ On(c, a) \in {0, 1} /\ On(d, a) \in {0, 1}
      /\ Other(s, p, a) \in {0, 1} /\ (s.vn[a].lock # None => Other(s, p, a) = 1)
  BY <1>1 DEF On, Other
<1>4. Enough(s, a)
  BY <1>1, <1>2, <1>3 DEF Enough
<1>5. PICK t : t = vput(s, a)
  OBVIOUS
<1>6. Put(s, t, a)
  BY <1>4, <1>5, VputPut
<1>7. ASSUME NEW i \in Inodes
      PROVE  t.vn[i].refs >= On(b, i) + On(c, i) + On(d, i) + On(None, i) + Other(t, p, i)
  <2>1. /\ t.vn[i].refs = s.vn[i].refs - On(a, i) /\ Other(t, p, i) = Other(s, p, i)
        /\ s.vn[i].refs \in Nat
    BY <1>6, VnodeType DEF Put, Other
  <2>2. s.vn[i].refs >= On(a, i) + On(b, i) + On(c, i) + On(d, i) + Other(s, p, i)
    BY DEF Covers
  <2>3. /\ On(a, i) \in Int /\ On(b, i) \in Int /\ On(c, i) \in Int /\ On(d, i) \in Int
        /\ On(None, i) = 0 /\ Other(s, p, i) \in Int
    BY OnInt, OtherInt, OnNone
  <2> QED
    BY <2>1, <2>2, <2>3
<1> QED
  BY <1>5, <1>6, <1>7 DEF Covers, Put

\* vput of a vnode that there may be.
LEMMA PutIf ==
  ASSUME NEW s, FsOK(s), NEW p \in Procs, NEW a \in Inodes \cup {None}, NEW b, NEW c, NEW d,
         Covers(s, p, a, b, c, d), a # None => s.vn[a].lock # p
  PROVE  /\ Put(s, vput_if(s, a), a) /\ Covers(vput_if(s, a), p, b, c, d, None)
         /\ FsOK(vput_if(s, a))
<1>1. CASE a # None
  <2>1. a \in Inodes /\ vput_if(s, a) = vput(s, a)
    BY <1>1 DEF vput_if
  <2> QED
    BY <1>1, <2>1, PutFirst
<1>2. CASE a = None
  <2>1. vput_if(s, a) = s
    BY <1>2 DEF vput_if
  <2>2. \A i \in Inodes : On(a, i) = 0 /\ s.vn[i].refs \in Nat
    BY <1>2, OnNone, VnodeType
  <2>3. Put(s, s, a)
    BY <2>2 DEF Put
  <2>4. Covers(s, p, b, c, d, None)
    <3> SUFFICES ASSUME NEW i \in Inodes
                 PROVE  s.vn[i].refs >= On(b, i) + On(c, i) + On(d, i) + On(None, i) + Other(s, p, i)
      BY DEF Covers
    <3>1. s.vn[i].refs >= On(a, i) + On(b, i) + On(c, i) + On(d, i) + Other(s, p, i)
      BY DEF Covers
    <3>2. /\ On(b, i) \in Int /\ On(c, i) \in Int /\ On(d, i) \in Int
          /\ On(None, i) = 0 /\ On(a, i) = 0 /\ Other(s, p, i) \in Int
      BY <2>2, OnInt, OtherInt, OnNone
    <3> QED
      BY <2>2, <3>1, <3>2
  <2> QED
    BY <2>1, <2>3, <2>4
<1> QED
  BY <1>1, <1>2

-----------------------------------------------------------------------------
(* A step of a process.                                                      *)

\* The files of a process have the vnodes they had.
SameFiles(p, r) == \A f \in FileIds : r.file[f].v = proc[p].file[f].v

\* A step of p keeps the invariant if it changes the references by what p has
\* more or less, and the mutexes by what p takes or releases.
LEMMA StepKept ==
  ASSUME Exact, NEW p \in Procs, NEW r, ProcOK(r), NEW s, FsOK(s), Go(p, r, s),
         NEW g \in FileIds, \A f \in FileIds : f # g => r.file[f].v = proc[p].file[f].v,
         \A i \in Inodes : s.vn[i].refs = fs.vn[i].refs - Mine(proc[p], g, i) + Mine(r, g, i),
         \A i \in Inodes : HeldBy(r, i) => s.vn[i].lock = p /\ fs.vn[i].lock \in {None, p},
         \A i \in Inodes : ~HeldBy(r, i) =>
           s.vn[i].lock = IF HeldBy(proc[p], i) THEN None ELSE fs.vn[i].lock
  PROVE  Exact'
<1>1. fs' = s /\ proc' = [proc EXCEPT ![p] = r] /\ DOMAIN proc = Procs
  BY DEF Go, Exact
<1>2. DOMAIN proc' = Procs /\ proc'[p] = r /\ \A q \in Procs : q # p => proc'[q] = proc[q]
  BY <1>1
<1>3. FsOK(fs)'
  BY <1>1 DEF FsOK, VnodeOK, InodeOK, EntriesOK, Vnodes
<1>4. \A q \in Procs : ProcOK(proc[q])'
  <2> SUFFICES ASSUME NEW q \in Procs PROVE ProcOK(proc[q])'
    OBVIOUS
  <2>1. ProcOK(proc'[q])
    BY <1>2 DEF Exact
  <2> QED
    BY <2>1 DEF ProcOK, Busy, Resting, FilesOK, Files, Count
<1>5. \A i \in Inodes : (fs.vn[i].refs = Owed(i))'
  <2> SUFFICES ASSUME NEW i \in Inodes PROVE fs'.vn[i].refs = Owed(i)'
    OBVIOUS
  <2>1. Owed(i)' = Owed(i) - Mine(proc[p], g, i) + Mine(r, g, i)
    BY <1>1, OwedChange
  <2> QED
    BY <1>1, <2>1 DEF Exact
<1>6. ASSUME NEW i \in Inodes, NEW q \in Procs
      PROVE  s.vn[i].lock = q <=> HeldBy(proc'[q], i)
  <2>1. /\ fs.vn[i].lock = q <=> HeldBy(proc[q], i)
        /\ fs.vn[i].lock = p <=> HeldBy(proc[p], i)
    BY DEF Exact
  <2>2. None \notin Procs
    BY Numbers
  <2>3. CASE q = p
    BY <1>2, <2>1, <2>2, <2>3
  <2>4. CASE q # p
    <3>1. HeldBy(proc'[q], i) <=> fs.vn[i].lock = q
      BY <1>2, <2>1, <2>4
    <3>2. CASE HeldBy(r, i)
      BY <2>2, <2>4, <3>1, <3>2
    <3>3. CASE ~HeldBy(r, i)
      BY <2>1, <2>2, <2>4, <3>1, <3>3
    <3> QED
      BY <3>2, <3>3
  <2> QED
    BY <2>3, <2>4
<1>7. \A i \in Inodes, q \in Procs : (fs.vn[i].lock = q <=> HeldBy(proc[q], i))'
  BY <1>1, <1>6 DEF HeldBy, Locking
<1> QED
  BY <1>2, <1>3, <1>4, <1>5, <1>7 DEF Exact

\* What a process and its call have, and a file system in which p has the
\* references a, b, c and d instead, and no mutex.
Holds(r, i) == On(r.cwd, i) + On(r.at, i) + On(r.tgt, i) + On(r.src, i)

Has(p, s, a, b, c, d) ==
  /\ FsOK(s)
  /\ \A i \in Inodes :
       /\ s.vn[i].refs = fs.vn[i].refs - Holds(proc[p], i) + On(a, i) + On(b, i) + On(c, i) + On(d, i)
       /\ s.vn[i].lock = IF HeldBy(proc[p], i) THEN None ELSE fs.vn[i].lock

LEMMA HoldsInt ==
  \A r, i : Holds(r, i) \in Int
  BY OnInt DEF Holds

LEMMA HasNatural ==
  ASSUME Exact, NEW i \in Inodes
  PROVE  fs.vn[i].refs \in Int
  BY VnodeType DEF Exact

LEMMA HasMove ==
  ASSUME NEW p, NEW s, NEW a, NEW b, NEW c, NEW d, Has(p, s, a, b, c, d), Exact
  PROVE  /\ Has(p, s, b, a, c, d) /\ Has(p, s, a, c, b, d) /\ Has(p, s, a, b, d, c)
         /\ Has(p, s, c, a, b, d) /\ Has(p, s, b, c, a, d) /\ Has(p, s, d, a, b, c)
         /\ Has(p, s, b, c, d, a) /\ Has(p, s, a, c, d, b) /\ Has(p, s, a, d, b, c)
<1>1. ASSUME NEW i \in Inodes, NEW n \in Int
      PROVE  /\ n + On(a, i) + On(b, i) + On(c, i) + On(d, i) = n + On(b, i) + On(a, i) + On(c, i) + On(d, i)
             /\ n + On(a, i) + On(b, i) + On(c, i) + On(d, i) = n + On(a, i) + On(c, i) + On(b, i) + On(d, i)
             /\ n + On(a, i) + On(b, i) + On(c, i) + On(d, i) = n + On(a, i) + On(b, i) + On(d, i) + On(c, i)
             /\ n + On(a, i) + On(b, i) + On(c, i) + On(d, i) = n + On(c, i) + On(a, i) + On(b, i) + On(d, i)
             /\ n + On(a, i) + On(b, i) + On(c, i) + On(d, i) = n + On(b, i) + On(c, i) + On(a, i) + On(d, i)
             /\ n + On(a, i) + On(b, i) + On(c, i) + On(d, i) = n + On(d, i) + On(a, i) + On(b, i) + On(c, i)
             /\ n + On(a, i) + On(b, i) + On(c, i) + On(d, i) = n + On(b, i) + On(c, i) + On(d, i) + On(a, i)
             /\ n + On(a, i) + On(b, i) + On(c, i) + On(d, i) = n + On(a, i) + On(c, i) + On(d, i) + On(b, i)
             /\ n + On(a, i) + On(b, i) + On(c, i) + On(d, i) = n + On(a, i) + On(d, i) + On(b, i) + On(c, i)
  <2>1. On(a, i) \in Int /\ On(b, i) \in Int /\ On(c, i) \in Int /\ On(d, i) \in Int
    BY OnInt
  <2> QED
    BY <2>1
<1>2. \A i \in Inodes : fs.vn[i].refs - Holds(proc[p], i) \in Int
  BY HoldsInt, HasNatural
<1> QED
  BY <1>1, <1>2 DEF Has

LEMMA HasSame ==
  ASSUME NEW p, NEW s, NEW t, NEW a, NEW b, NEW c, NEW d, Has(p, s, a, b, c, d), Same(s, t)
  PROVE  Has(p, t, a, b, c, d)
  BY DEF Has, Same

LEMMA HasGot ==
  ASSUME NEW p, NEW s, NEW t, NEW x, NEW a, NEW b, NEW c, Has(p, s, a, b, c, None), Got(s, t, x),
         Exact
  PROVE  Has(p, t, x, a, b, c)
<1> SUFFICES ASSUME NEW i \in Inodes
             PROVE  t.vn[i].refs = fs.vn[i].refs - Holds(proc[p], i) + On(x, i) + On(a, i) + On(b, i) + On(c, i)
  BY DEF Has, Got
<1>1. t.vn[i].refs = s.vn[i].refs + On(x, i)
  BY DEF Got
<1>2. s.vn[i].refs = fs.vn[i].refs - Holds(proc[p], i) + On(a, i) + On(b, i) + On(c, i) + On(None, i)
  BY DEF Has
<1>3. /\ On(a, i) \in Int /\ On(b, i) \in Int /\ On(c, i) \in Int /\ On(None, i) = 0
      /\ On(x, i) \in Int /\ Holds(proc[p], i) \in Int /\ fs.vn[i].refs \in Int
  BY OnInt, OnNone, HoldsInt, HasNatural
<1> QED
  BY <1>1, <1>2, <1>3

\* The vnodes in question have their references and those of mutexes.
LEMMA HasCovers ==
  ASSUME NEW p \in Procs, NEW s, NEW a, NEW b, NEW c, NEW d, Has(p, s, a, b, c, d), Exact
  PROVE  Covers(s, p, a, b, c, d) /\ \A i \in Inodes : s.vn[i].lock # p
<1>1. ASSUME NEW i \in Inodes PROVE s.vn[i].lock # p /\ Other(s, p, i) = Other(fs, p, i)
  <2>1. /\ s.vn[i].lock = IF HeldBy(proc[p], i) THEN None ELSE fs.vn[i].lock
        /\ fs.vn[i].lock = p <=> HeldBy(proc[p], i)
        /\ None \notin Procs
    BY Numbers DEF Has, Exact
  <2> QED
    BY <2>1 DEF Other
<1>2. 1 \in FileIds
  BY Numbers DEF FileIds
<1>3. ASSUME NEW i \in Inodes
      PROVE  s.vn[i].refs >= On(a, i) + On(b, i) + On(c, i) + On(d, i) + Other(s, p, i)
  <2>1. fs.vn[i].refs >= On(Root, i) + Mine(proc[p], 1, i) + Other(fs, p, i)
    BY <1>2, Shares
  <2>2. s.vn[i].refs = fs.vn[i].refs - Holds(proc[p], i) + On(a, i) + On(b, i) + On(c, i) + On(d, i)
    BY DEF Has
  <2>3. Mine(proc[p], 1, i) = Holds(proc[p], i) + On(proc[p].file[1].v, i)
    BY DEF Mine, Holds
  <2>4. /\ On(a, i) \in Int /\ On(b, i) \in Int /\ On(c, i) \in Int /\ On(d, i) \in Int
        /\ Holds(proc[p], i) \in Int /\ fs.vn[i].refs \in Int /\ Other(fs, p, i) \in Int
        /\ On(Root, i) \in {0, 1} /\ On(proc[p].file[1].v, i) \in {0, 1}
        /\ Other(s, p, i) = Other(fs, p, i)
    BY OnInt, OtherInt, HoldsInt, HasNatural, <1>1
  <2> QED
    BY <2>1, <2>2, <2>3, <2>4
<1> QED
  BY <1>1, <1>3 DEF Covers

LEMMA HasPut ==
  ASSUME NEW p \in Procs, NEW s, NEW a \in Inodes \cup {None}, NEW b, NEW c, NEW d,
         Has(p, s, a, b, c, d), Exact
  PROVE  /\ Has(p, vput_if(s, a), b, c, d, None)
         /\ a \in Inodes => Has(p, vput(s, a), b, c, d, None)
<1>1. PICK t : t = vput_if(s, a)
  OBVIOUS
<1>2. Put(s, t, a) /\ FsOK(t)
  BY <1>1, HasCovers, PutIf DEF Has
<1>3. ASSUME NEW i \in Inodes
      PROVE  t.vn[i].refs = fs.vn[i].refs - Holds(proc[p], i) + On(b, i) + On(c, i) + On(d, i) + On(None, i)
  <2>1. t.vn[i].refs = s.vn[i].refs - On(a, i)
    BY <1>2 DEF Put
  <2>2. s.vn[i].refs = fs.vn[i].refs - Holds(proc[p], i) + On(a, i) + On(b, i) + On(c, i) + On(d, i)
    BY DEF Has
  <2>3. /\ On(a, i) \in Int /\ On(b, i) \in Int /\ On(c, i) \in Int /\ On(d, i) \in Int
        /\ Holds(proc[p], i) \in Int /\ fs.vn[i].refs \in Int /\ On(None, i) = 0
    BY OnInt, OnNone, HoldsInt, HasNatural
  <2> QED
    BY <2>1, <2>2, <2>3
<1>4. Has(p, t, b, c, d, None)
  BY <1>2, <1>3 DEF Has, Put
<1>5. a \in Inodes => vput_if(s, a) = vput(s, a)
  BY Numbers DEF vput_if
<1> QED
  BY <1>1, <1>4, <1>5

-----------------------------------------------------------------------------
(* Descriptors and files.                                                    *)

\* The descriptors of file f.
FdsOf(m, f) == {d \in Fds : m[d] = f}

\* A descriptor that changes from one file to another takes a reference along.
LEMMA FdsChange ==
  ASSUME NEW r, NEW o, FilesOK(r, o), NEW t, NEW d \in Fds, NEW x \in 0 .. NFILES,
         t.fds \in [Fds -> 0 .. NFILES], t.fds[d] = x,
         \A e \in Fds : e # d => t.fds[e] = r.fds[e], t.file \in [FileIds -> Files],
         \A g \in FileIds : t.file[g].refs = r.file[g].refs - On(r.fds[d], g) + On(x, g)
  PROVE  /\ t.fds \in [Fds -> 0 .. NFILES]
         /\ \A g \in FileIds : t.file[g].refs = Count({e \in Fds : t.fds[e] = g})
         /\ \A e \in Fds : t.fds[e] # 0 => t.fds[e] \in FileIds /\ t.file[t.fds[e]].refs > 0
<1>1. t.fds \in [Fds -> 0 .. NFILES] /\ t.fds[d] = x /\ \A e \in Fds : e # d => t.fds[e] = r.fds[e]
  OBVIOUS
<1>2. ASSUME NEW g \in FileIds
      PROVE  /\ t.file[g].refs = Count(FdsOf(t.fds, g))
             /\ \A e \in FdsOf(t.fds, g) : t.file[g].refs > 0
  <2>1. IsFiniteSet(FdsOf(r.fds, g)) /\ IsFiniteSet(FdsOf(t.fds, g))
    <3>1. FdsOf(r.fds, g) \subseteq Fds /\ FdsOf(t.fds, g) \subseteq Fds
      BY DEF FdsOf
    <3> QED
      BY <3>1, FilesFinite, FS_Subset
  <2>2. \A y : y # d => (y \in FdsOf(r.fds, g) <=> y \in FdsOf(t.fds, g))
    BY <1>1 DEF FdsOf
  <2>3. /\ d \in FdsOf(r.fds, g) <=> r.fds[d] = g
        /\ d \in FdsOf(t.fds, g) <=> x = g
    BY <1>1 DEF FdsOf
  <2>4. /\ Count(FdsOf(r.fds, g)) \in Nat
        /\ Count(FdsOf(t.fds, g)) = Count(FdsOf(r.fds, g)) - On(r.fds[d], g) + On(x, g)
    BY <2>1, <2>2, <2>3, CountChange DEF On
  <2>5. r.file[g].refs = Count(FdsOf(r.fds, g))
    BY DEF FilesOK, FdsOf
  <2>6. t.file[g].refs = Count(FdsOf(t.fds, g))
    BY <2>4, <2>5
  <2>7. Count(FdsOf(t.fds, g)) \in Nat /\ \A e \in FdsOf(t.fds, g) : Count(FdsOf(t.fds, g)) >= 1
    BY <2>1, CountLow
  <2> QED
    BY <2>6, <2>7
<1>3. ASSUME NEW e \in Fds, t.fds[e] # 0
      PROVE  t.fds[e] \in FileIds /\ t.file[t.fds[e]].refs > 0
  <2>1. t.fds[e] \in FileIds
    BY <1>1, <1>3, Numbers DEF FileIds
  <2>2. e \in FdsOf(t.fds, t.fds[e])
    BY DEF FdsOf
  <2> QED
    BY <1>2, <2>1, <2>2
<1> QED
  BY <1>1, <1>2, <1>3 DEF FdsOf

LEMMA FileParts ==
  ASSUME NEW r, NEW o, FilesOK(r, o)
  PROVE  /\ \A f \in FileIds : /\ r.file[f] \in Files /\ r.file[f].refs \in Nat
                               /\ r.file[f].v \in Inodes \cup {None}
                               /\ r.file[f].refs = 0 => r.file[f].v = None
         /\ \A d \in Fds : r.fds[d] # 0 =>
              /\ r.fds[d] \in FileIds /\ r.file[r.fds[d]].refs \in Nat \ {0}
              /\ d # o => r.file[r.fds[d]].v # None
         /\ DOMAIN r.file = FileIds
<1>1. r.file \in [FileIds -> Files]
  BY DEF FilesOK
<1>2. \A f \in FileIds : /\ r.file[f] \in Files /\ r.file[f].refs \in Nat
                         /\ r.file[f].v \in Inodes \cup {None}
  BY <1>1 DEF Files
<1>3. ASSUME NEW d \in Fds, r.fds[d] # 0
      PROVE  r.fds[d] \in FileIds /\ r.file[r.fds[d]].refs \in Nat \ {0}
  <2>1. r.fds[d] \in FileIds
    BY <1>3, Numbers DEF FileIds, FilesOK
  <2>2. IsFiniteSet(FdsOf(r.fds, r.fds[d])) /\ d \in FdsOf(r.fds, r.fds[d])
    <3>1. FdsOf(r.fds, r.fds[d]) \subseteq Fds /\ d \in FdsOf(r.fds, r.fds[d])
      BY DEF FdsOf
    <3> QED
      BY <3>1, FilesFinite, FS_Subset
  <2>3. Count(FdsOf(r.fds, r.fds[d])) \in Nat /\ Count(FdsOf(r.fds, r.fds[d])) >= 1
    BY <2>2, CountLow
  <2>4. r.file[r.fds[d]].refs = Count(FdsOf(r.fds, r.fds[d]))
    BY <2>1 DEF FilesOK, FdsOf
  <2> QED
    BY <2>1, <2>3, <2>4
<1>4. /\ \A f \in FileIds : r.file[f].refs = 0 => r.file[f].v = None
      /\ \A d \in Fds : r.fds[d] # 0 => (d # o => r.file[r.fds[d]].v # None)
  BY DEF FilesOK
<1> QED
  BY <1>1, <1>2, <1>3, <1>4

LEMMA NoFileType == NoFile \in Files /\ NoFile.refs = 0 /\ NoFile.v = None
  BY DEF NoFile, Files

Shape == {"pc", "op", "names", "to", "at", "tgt", "src", "fd", "mark", "blk", "cwd", "fds", "file"}

\* fput and the descriptor taken from r.
Closed(r, d, t, x) ==
  LET f == r.fds[d] IN
  /\ DOMAIN x = Shape /\ x.cwd = r.cwd
  /\ x.fds \in [Fds -> 0 .. NFILES] /\ x.fds[d] = 0
  /\ \A e \in Fds : e # d => x.fds[e] = r.fds[e]
  /\ x.file \in [FileIds -> Files]
  /\ \A g \in FileIds : g # f => x.file[g] = r.file[g]
  /\ x.file[f].refs = r.file[f].refs - 1
  /\ \/ r.file[f].refs > 1 /\ x.file[f].v = r.file[f].v /\ t.v = None
     \/ r.file[f].refs = 1 /\ x.file[f].v = None /\ t.v = r.file[f].v

LEMMA FputCloses ==
  ASSUME NEW r, DOMAIN r = Shape, NEW o, FilesOK(r, o), NEW d \in Fds, r.fds[d] # 0,
         NEW t, t = fput(r, r.fds[d]), NEW x, x = [t.r EXCEPT !.fds[d] = 0]
  PROVE  Closed(r, d, t, x)
<1>1. PICK f : f = r.fds[d]
  OBVIOUS
<1>2. /\ f \in FileIds /\ r.file[f].refs \in Nat \ {0} /\ r.file[f] \in Files
      /\ r.file[f].v \in Inodes \cup {None}
  BY <1>1, FileParts
<1>3. r.file \in [FileIds -> Files] /\ r.fds \in [Fds -> 0 .. NFILES]
  BY DEF FilesOK
<1>4. /\ DOMAIN x = Shape /\ x.cwd = r.cwd
      /\ x.fds \in [Fds -> 0 .. NFILES] /\ x.fds[d] = 0
      /\ \A e \in Fds : e # d => x.fds[e] = r.fds[e]
      /\ x.file \in [FileIds -> Files]
      /\ \A g \in FileIds : g # f => x.file[g] = r.file[g]
      /\ x.file[f].refs = r.file[f].refs - 1
      /\ \/ r.file[f].refs > 1 /\ x.file[f].v = r.file[f].v /\ t.v = None
         \/ r.file[f].refs = 1 /\ x.file[f].v = None /\ t.v = r.file[f].v
  <2>0. 0 \in 0 .. NFILES
    BY Numbers
  <2>1. CASE r.file[f].refs > 1
    <3>1. t.r = [r EXCEPT !.file[f].refs = @ - 1] /\ t.v = None
      BY <1>1, <2>1 DEF fput
    <3>2. PICK y : y = [r.file[f] EXCEPT !.refs = @ - 1]
      OBVIOUS
    <3>3. y \in Files /\ y.refs = r.file[f].refs - 1 /\ y.v = r.file[f].v
      BY <1>2, <2>1, <3>2 DEF Files
    <3>4. x.file = [r.file EXCEPT ![f] = y] /\ x.fds = [r.fds EXCEPT ![d] = 0]
          /\ DOMAIN x = Shape /\ x.cwd = r.cwd
      BY <1>2, <1>3, <3>1, <3>2 DEF Shape
    <3> QED
      BY <1>2, <1>3, <2>0, <2>1, <3>1, <3>3, <3>4
  <2>2. CASE ~(r.file[f].refs > 1)
    <3>1. t.r = [r EXCEPT !.file[f] = NoFile] /\ t.v = r.file[f].v /\ r.file[f].refs = 1
      BY <1>1, <1>2, <2>2 DEF fput
    <3>2. x.file = [r.file EXCEPT ![f] = NoFile] /\ x.fds = [r.fds EXCEPT ![d] = 0]
          /\ DOMAIN x = Shape /\ x.cwd = r.cwd
      BY <3>1 DEF Shape
    <3> QED
      BY <1>2, <1>3, <2>0, <3>1, <3>2, NoFileType
  <2> QED
    BY <2>1, <2>2
<1> QED
  BY <1>1, <1>4 DEF Closed

\* A file given back: with the last reference goes its vnode.
LEMMA CloseFile ==
  ASSUME NEW r, NEW o, FilesOK(r, o), NEW d \in Fds, r.fds[d] # 0, o \in {None, d},
         NEW t, NEW x, Closed(r, d, t, x)
  PROVE  /\ FilesOK(x, None)
         /\ \A f \in FileIds : f # r.fds[d] => x.file[f].v = r.file[f].v
         /\ t.v \in Inodes \cup {None}
         /\ \A i \in Inodes : On(x.file[r.fds[d]].v, i) = On(r.file[r.fds[d]].v, i) - On(t.v, i)
<1>1. PICK f : f = r.fds[d]
  OBVIOUS
<1>2. /\ f \in FileIds /\ r.file[f].refs \in Nat \ {0} /\ r.file[f] \in Files
      /\ r.file[f].v \in Inodes \cup {None}
  BY <1>1, FileParts
<1>3. r.file \in [FileIds -> Files] /\ r.fds \in [Fds -> 0 .. NFILES]
  BY DEF FilesOK
<1>4. /\ x.fds \in [Fds -> 0 .. NFILES] /\ x.fds[d] = 0
      /\ \A e \in Fds : e # d => x.fds[e] = r.fds[e]
      /\ x.file \in [FileIds -> Files]
      /\ \A g \in FileIds : g # f => x.file[g] = r.file[g]
      /\ x.file[f].refs = r.file[f].refs - 1
      /\ \/ r.file[f].refs > 1 /\ x.file[f].v = r.file[f].v /\ t.v = None
         \/ r.file[f].refs = 1 /\ x.file[f].v = None /\ t.v = r.file[f].v
  BY <1>1 DEF Closed
<1>5. \A g \in FileIds : x.file[g].refs = r.file[g].refs - On(r.fds[d], g) + On(0, g)
  <2>1. \A g \in FileIds : On(0, g) = 0 /\ On(f, g) = IF g = f THEN 1 ELSE 0
    BY DEF On, FileIds
  <2>2. \A g \in FileIds : r.file[g].refs \in Nat
    BY FileParts
  <2> QED
    BY <1>1, <1>4, <2>1, <2>2
<1>6. /\ x.fds \in [Fds -> 0 .. NFILES]
      /\ \A g \in FileIds : x.file[g].refs = Count({e \in Fds : x.fds[e] = g})
      /\ \A e \in Fds : x.fds[e] # 0 => x.fds[e] \in FileIds /\ x.file[x.fds[e]].refs > 0
  <2>1. 0 \in 0 .. NFILES
    BY Numbers
  <2>2. /\ x.fds \in [Fds -> 0 .. NFILES] /\ x.fds[d] = 0
        /\ \A e \in Fds : e # d => x.fds[e] = r.fds[e]
    BY <1>4
  <2>3. x.file \in [FileIds -> Files]
    BY <1>4
  <2> QED
    BY <1>5, <2>1, <2>2, <2>3, FdsChange
<1>7. \A g \in FileIds : x.file[g].refs = 0 => x.file[g].v = None
  <2>1. \A g \in FileIds : r.file[g].refs = 0 => r.file[g].v = None
    BY FileParts
  <2> QED
    BY <1>2, <1>4, <2>1
<1>8. ASSUME NEW e \in Fds, x.fds[e] # 0
      PROVE  x.file[x.fds[e]].v # None
  <2>1. e # d /\ x.fds[e] = r.fds[e]
    BY <1>3, <1>4, <1>8
  <2>2. r.file[r.fds[e]].v # None /\ r.fds[e] \in FileIds
    <3>1. e # o
      BY <2>1, Numbers DEF Fds
    <3> QED
      BY <1>8, <2>1, <3>1, FileParts
  <2>3. CASE r.fds[e] = f
    <3>1. x.file[f].refs > 0
      BY <1>6, <1>8, <2>1, <2>3
    <3> QED
      BY <1>2, <1>4, <2>1, <2>2, <2>3, <3>1
  <2>4. CASE r.fds[e] # f
    BY <1>4, <2>1, <2>2, <2>4
  <2> QED
    BY <2>3, <2>4
<1>9. FilesOK(x, None)
  BY <1>4, <1>6, <1>7, <1>8 DEF FilesOK
<1>10. \A i \in Inodes : On(x.file[f].v, i) = On(r.file[f].v, i) - On(t.v, i)
  <2>1. \A i \in Inodes : /\ On(None, i) = 0
                          /\ On(r.file[f].v, i) - 0 = On(r.file[f].v, i)
                          /\ On(r.file[f].v, i) - On(r.file[f].v, i) = 0
    BY OnInt, OnNone
  <2> QED
    BY <1>4, <2>1
<1> QED
  BY <1>1, <1>2, <1>4, <1>9, <1>10

\* A descriptor more, or another one, for file f of descriptor d: dup, and
\* dup2 when it has closed descriptor e.
LEMMA DupFile ==
  ASSUME NEW r, FilesOK(r, None), NEW d \in Fds, r.fds[d] # 0, NEW e \in Fds, r.fds[e] = 0,
         NEW x, x.fds \in [Fds -> 0 .. NFILES], x.fds[e] = r.fds[d],
         \A k \in Fds : k # e => x.fds[k] = r.fds[k],
         x.file \in [FileIds -> Files],
         \A g \in FileIds : /\ x.file[g].refs = r.file[g].refs + On(r.fds[d], g)
                            /\ x.file[g].v = r.file[g].v
  PROVE  /\ FilesOK(x, None)
         /\ \A f \in FileIds : x.file[f].v = r.file[f].v
<1>1. PICK f : f = r.fds[d]
  OBVIOUS
<1>2. /\ f \in FileIds /\ r.file[f].refs \in Nat \ {0} /\ r.file[f].v # None
  <2>1. d # None
    BY Numbers DEF Fds
  <2> QED
    BY <1>1, <2>1, FileParts
<1>3. \A g \in FileIds : x.file[g].refs = r.file[g].refs - On(r.fds[e], g) + On(f, g)
  <2>1. \A g \in FileIds : On(0, g) = 0 /\ On(f, g) \in Nat
    BY DEF On, FileIds
  <2>2. \A g \in FileIds : r.file[g].refs \in Nat
    BY FileParts
  <2> QED
    BY <1>1, <2>1, <2>2
<1>4. f \in 0 .. NFILES
  BY <1>2, Numbers DEF FileIds
<1>5. /\ \A g \in FileIds : x.file[g].refs = Count({k \in Fds : x.fds[k] = g})
      /\ \A k \in Fds : x.fds[k] # 0 => x.fds[k] \in FileIds /\ x.file[x.fds[k]].refs > 0
  BY <1>1, <1>3, <1>4, FdsChange
<1>6. \A g \in FileIds : /\ x.file[g].v = r.file[g].v
                         /\ x.file[g].refs = 0 => x.file[g].v = None
  <2>1. \A g \in FileIds : /\ r.file[g].refs = 0 => r.file[g].v = None
                           /\ r.file[g].refs \in Nat /\ On(f, g) \in Nat
    BY FileParts DEF On
  <2>2. \A g \in FileIds : x.file[g].refs = 0 => r.file[g].refs = 0
    BY <1>1, <2>1
  <2> QED
    BY <2>1, <2>2
<1>7. ASSUME NEW k \in Fds, x.fds[k] # 0
      PROVE  x.file[x.fds[k]].v # None
  <2>1. k # None
    BY Numbers DEF Fds
  <2>2. r.fds[k] # 0 => r.file[r.fds[k]].v # None
    BY <2>1, FileParts
  <2> QED
    BY <1>1, <1>2, <1>5, <1>6, <1>7, <2>2
<1> QED
  BY <1>5, <1>6, <1>7 DEF FilesOK

LEMMA LeastOf ==
  ASSUME NEW S \in SUBSET Nat, S # {}
  PROVE  Min(S) \in S
<1>1. \E n \in S : \A m \in S : n <= m
  BY LeastNumber
<1> QED
  BY <1>1 DEF Min

\* There are as many file objects as descriptors, so that a process with a
\* free descriptor has a free one of those.
LEMMA FileLeft ==
  ASSUME NEW r, FilesOK(r, None), NEW e \in Fds, r.fds[e] = 0
  PROVE  \E g \in FileIds : r.file[g].refs = 0
<1> SUFFICES ASSUME \A g \in FileIds : r.file[g].refs # 0
             PROVE  FALSE
  OBVIOUS
<1>1. ASSUME NEW g \in FileIds PROVE \E d \in Fds \ {e} : r.fds[d] = g
  <2>1. Count(FdsOf(r.fds, g)) # 0
    BY DEF FilesOK, FdsOf
  <2>2. FdsOf(r.fds, g) # {}
    BY <2>1, FS_EmptySet DEF Count
  <2>3. PICK d : d \in FdsOf(r.fds, g)
    BY <2>2
  <2> QED
    BY <2>3 DEF FdsOf, FileIds
<1>2. PICK h : h = [g \in FileIds |-> CHOOSE d \in Fds \ {e} : r.fds[d] = g]
  OBVIOUS
<1>3. \A g \in FileIds : h[g] \in Fds \ {e} /\ r.fds[h[g]] = g
  BY <1>1, <1>2
<1>4. h \in [FileIds -> Fds \ {e}]
  BY <1>2, <1>3
<1>5. /\ IsFiniteSet(FileIds) /\ IsFiniteSet(Fds \ {e})
      /\ Cardinality(Fds \ {e}) < Cardinality(FileIds)
  <2>1. IsFiniteSet(Fds \ {e}) /\ Cardinality(Fds \ {e}) = Cardinality(Fds) - 1
    BY FilesFinite, FS_RemoveElement
  <2> QED
    BY <2>1, FilesFinite, Numbers
<1>6. \E x, y \in FileIds : x # y /\ h[x] = h[y]
  BY <1>4, <1>5, FS_PigeonHole
<1> QED
  BY <1>3, <1>6

\* Descriptor e and file object f are taken.
LEMMA TakenFile ==
  ASSUME NEW r, FilesOK(r, None), NEW e \in Fds, r.fds[e] = 0, NEW f \in FileIds, r.file[f].refs = 0,
         NEW y \in Files, y.refs = 1, y.v = None, NEW x, NEW m, NEW n, x.fds = m, x.file = n,
         m \in [Fds -> 0 .. NFILES], m[e] = f, \A k \in Fds : k # e => m[k] = r.fds[k],
         n \in [FileIds -> Files], n[f] = y, \A g \in FileIds : g # f => n[g] = r.file[g]
  PROVE  FilesOK(x, e) /\ \A g \in FileIds : x.file[g].v = r.file[g].v
<1>1. \A g \in FileIds : /\ r.file[g].refs \in Nat
                         /\ r.file[g].refs = 0 => r.file[g].v = None
  BY FileParts
<1>2. \A g \in FileIds : n[g].refs = r.file[g].refs - On(r.fds[e], g) + On(f, g)
  <2>1. \A g \in FileIds : On(0, g) = 0 /\ On(f, g) = IF g = f THEN 1 ELSE 0
    BY DEF On, FileIds
  <2> QED
    BY <1>1, <2>1
<1>3. f \in 0 .. NFILES
  BY Numbers DEF FileIds
<1>4. /\ \A g \in FileIds : x.file[g].refs = Count({k \in Fds : x.fds[k] = g})
      /\ \A k \in Fds : x.fds[k] # 0 => x.fds[k] \in FileIds /\ x.file[x.fds[k]].refs > 0
  BY <1>2, <1>3, FdsChange
<1>5. \A g \in FileIds : x.file[g].v = r.file[g].v /\ (x.file[g].refs = 0 => x.file[g].v = None)
  BY <1>1
<1>6. ASSUME NEW k \in Fds, x.fds[k] # 0, k # e
      PROVE  x.file[x.fds[k]].v # None
  <2>1. k # None
    BY Numbers DEF Fds
  <2>2. r.fds[k] # 0 => r.file[r.fds[k]].v # None
    BY <2>1, FileParts
  <2> QED
    BY <1>4, <1>5, <1>6, <2>2
<1>7. e \in Fds /\ x.fds[e] # 0 /\ x.file[x.fds[e]].refs = 1 /\ x.file[x.fds[e]].v = None
  BY DEF FileIds
<1> QED
  BY <1>4, <1>5, <1>6, <1>7 DEF FilesOK

\* What do_open takes.
LEMMA TakeFile ==
  ASSUME NEW r, DOMAIN r = Shape, FilesOK(r, None), FdLeft(r), NEW w \in BOOLEAN,
         NEW x, x = TakeFd(r, w)
  PROVE  /\ DOMAIN x = Shape /\ x.fd \in Fds /\ FilesOK(x, x.fd)
         /\ \A f \in FileIds : x.file[f].v = r.file[f].v
         /\ \A y \in Shape \ {"fd", "fds", "file"} : x[y] = r[y]
<1>1. PICK e : e = get_empty_fd(r)
  OBVIOUS
<1>2. e \in Fds /\ r.fds[e] = 0
  <2>1. PICK S : S = {d \in Fds : r.fds[d] = 0}
    OBVIOUS
  <2>2. S \in SUBSET Nat /\ S # {}
    BY <2>1, Numbers DEF Fds, FdLeft
  <2>3. Min(S) \in S
    BY <2>2, LeastOf
  <2> QED
    BY <1>1, <2>1, <2>3 DEF get_empty_fd
<1>3. PICK S : S = {g \in FileIds : r.file[g].refs = 0}
  OBVIOUS
<1>4. PICK f : f = Min(S)
  OBVIOUS
<1>5. f \in FileIds /\ r.file[f].refs = 0
  <2>1. S \in SUBSET Nat /\ S # {}
    BY <1>2, <1>3, FileLeft, Numbers DEF FileIds
  <2> QED
    BY <1>3, <1>4, <2>1, LeastOf
<1>6. PICK y : y = [NoFile EXCEPT !.refs = 1, !.w = w]
  OBVIOUS
<1>7. y \in Files /\ y.refs = 1 /\ y.v = None
  BY <1>6 DEF NoFile, Files
<1>8. x = [r EXCEPT !.fd = e, !.fds[e] = f, !.file[f] = y]
  BY <1>1, <1>3, <1>4, <1>6 DEF TakeFd
<1>9. /\ r.fds \in [Fds -> 0 .. NFILES] /\ r.file \in [FileIds -> Files] /\ f \in 0 .. NFILES
  BY <1>5, Numbers DEF FilesOK, FileIds
<1>10. PICK m, n : m = [r.fds EXCEPT ![e] = f] /\ n = [r.file EXCEPT ![f] = y]
  OBVIOUS
<1>11. /\ DOMAIN x = Shape /\ x.fd = e /\ x.fds = m /\ x.file = n
       /\ \A z \in Shape \ {"fd", "fds", "file"} : x[z] = r[z]
  BY <1>8, <1>10 DEF Shape
<1>12. /\ m \in [Fds -> 0 .. NFILES] /\ m[e] = f /\ (\A k \in Fds : k # e => m[k] = r.fds[k])
       /\ n \in [FileIds -> Files] /\ n[f] = y /\ (\A g \in FileIds : g # f => n[g] = r.file[g])
  BY <1>2, <1>5, <1>7, <1>9, <1>10
<1>13. FilesOK(x, e) /\ \A g \in FileIds : x.file[g].v = r.file[g].v
  BY <1>2, <1>5, <1>7, <1>9, <1>11, <1>12, TakenFile
<1> QED
  BY <1>2, <1>11, <1>13

-----------------------------------------------------------------------------
(* How a call goes on and ends.                                              *)

LEMMA IdleRests ==
  ASSUME NEW r, DOMAIN r = Shape, r.cwd \in Inodes, FilesOK(r, None), NEW x, x = Idle(r)
  PROVE  /\ ProcOK(x) /\ x.cwd = r.cwd /\ x.file = r.file /\ \A i : ~HeldBy(x, i)
         /\ \A i \in Inodes : Holds(x, i) = On(r.cwd, i)
<1>1. /\ DOMAIN x = Shape /\ x.pc = "idle" /\ x.at = None /\ x.tgt = None /\ x.src = None
      /\ x.fd = None /\ x.cwd = r.cwd /\ x.fds = r.fds /\ x.file = r.file
  BY DEF Idle, Shape
<1>2. FilesOK(x, None)
  BY <1>1 DEF FilesOK
<1>3. ProcOK(x)
  BY <1>1, <1>2 DEF ProcOK, Resting, Shape
<1>4. \A i : ~HeldBy(x, i)
  BY <1>1 DEF HeldBy, Locking
<1>5. \A i \in Inodes : Holds(x, i) = On(r.cwd, i)
  <2>1. \A i \in Inodes : On(None, i) = 0 /\ On(r.cwd, i) + 0 + 0 + 0 = On(r.cwd, i)
    BY OnNone, OnInt
  <2> QED
    BY <1>1, <2>1 DEF Holds
<1> QED
  BY <1>1, <1>3, <1>4, <1>5

LEMMA GiveBack ==
  ASSUME NEW r, Busy(r), NEW x, x = GiveFd(r)
  PROVE  /\ DOMAIN x = Shape /\ x.cwd = r.cwd /\ FilesOK(x, None)
         /\ \A f \in FileIds : x.file[f].v = r.file[f].v
<1>1. DOMAIN r = Shape /\ FilesOK(r, r.fd)
  BY DEF Busy, Shape
<1>2. CASE r.fd = None
  BY <1>1, <1>2 DEF GiveFd
<1>3. CASE r.fd # None
  <2>1. PICK d : d = r.fd
    OBVIOUS
  <2>2. d \in Fds /\ r.fds[d] # 0 /\ r.file[r.fds[d]].v = None /\ r.file[r.fds[d]].refs = 1
    BY <1>1, <1>3, <2>1 DEF FilesOK
  <2>3. PICK t : t = fput(r, r.fds[d])
    OBVIOUS
  <2>4. x = [t.r EXCEPT !.fds[d] = 0]
    BY <1>3, <2>1, <2>3 DEF GiveFd
  <2>5. Closed(r, d, t, x)
    BY <1>1, <2>2, <2>3, <2>4, FputCloses
  <2>6. FilesOK(x, None)
    BY <1>1, <2>1, <2>2, <2>5, CloseFile
  <2>7. /\ DOMAIN x = Shape /\ x.cwd = r.cwd /\ x.file[r.fds[d]].v = None
        /\ \A f \in FileIds : f # r.fds[d] => x.file[f] = r.file[f]
    BY <2>2, <2>5 DEF Closed
  <2> QED
    BY <2>2, <2>6, <2>7
<1> QED
  BY <1>2, <1>3

\* A step in which the files keep their vnodes.
LEMMA HasStep ==
  ASSUME Exact, NEW p \in Procs, NEW r, ProcOK(r), SameFiles(p, r), NEW s, FsOK(s), Go(p, r, s),
         \A i \in Inodes : s.vn[i].refs = fs.vn[i].refs - Holds(proc[p], i) + Holds(r, i),
         \A i \in Inodes : HeldBy(r, i) => s.vn[i].lock = p /\ fs.vn[i].lock \in {None, p},
         \A i \in Inodes : ~HeldBy(r, i) =>
           s.vn[i].lock = IF HeldBy(proc[p], i) THEN None ELSE fs.vn[i].lock
  PROVE  Exact'
<1>1. PICK g \in FileIds : g = 1
  BY Numbers DEF FileIds
<1>2. ASSUME NEW i \in Inodes
      PROVE  s.vn[i].refs = fs.vn[i].refs - Mine(proc[p], g, i) + Mine(r, g, i)
  <2>1. /\ Mine(proc[p], g, i) = Holds(proc[p], i) + On(proc[p].file[g].v, i)
        /\ Mine(r, g, i) = Holds(r, i) + On(r.file[g].v, i)
        /\ r.file[g].v = proc[p].file[g].v
    BY DEF Mine, Holds, SameFiles
  <2>2. /\ Holds(proc[p], i) \in Int /\ Holds(r, i) \in Int /\ fs.vn[i].refs \in Int
        /\ On(r.file[g].v, i) \in Int
    BY HoldsInt, HasNatural, OnInt
  <2> QED
    BY <2>1, <2>2
<1>3. \A f \in FileIds : f # g => r.file[f].v = proc[p].file[f].v
  BY DEF SameFiles
<1> QED
  BY <1>2, <1>3, StepKept

\* The call returns with the working directory that the process then has.
LEMMA FinishKept ==
  ASSUME Exact, NEW p \in Procs, NEW r, DOMAIN r = Shape, r.cwd \in Inodes, FilesOK(r, None),
         SameFiles(p, r), NEW s, Has(p, s, r.cwd, None, None, None), Finish(p, r, s)
  PROVE  Exact'
<1>1. PICK x : x = Idle(r)
  OBVIOUS
<1>2. /\ ProcOK(x) /\ x.file = r.file /\ (\A i : ~HeldBy(x, i))
      /\ \A i \in Inodes : Holds(x, i) = On(r.cwd, i)
  BY <1>1, IdleRests
<1>3. SameFiles(p, x) /\ Go(p, x, s) /\ FsOK(s)
  BY <1>1, <1>2 DEF SameFiles, Finish, Has
<1>4. ASSUME NEW i \in Inodes
      PROVE  s.vn[i].refs = fs.vn[i].refs - Holds(proc[p], i) + Holds(x, i)
  <2>1. s.vn[i].refs = fs.vn[i].refs - Holds(proc[p], i) + On(r.cwd, i) + On(None, i) + On(None, i) + On(None, i)
    BY DEF Has
  <2>2. /\ Holds(proc[p], i) \in Int /\ fs.vn[i].refs \in Int /\ On(None, i) = 0 /\ On(r.cwd, i) \in Int
    BY HoldsInt, HasNatural, OnInt, OnNone
  <2> QED
    BY <1>2, <2>1, <2>2
<1>5. \A i \in Inodes : s.vn[i].lock = IF HeldBy(proc[p], i) THEN None ELSE fs.vn[i].lock
  BY DEF Has
<1> QED
  BY <1>2, <1>3, <1>4, <1>5, HasStep

\* An error: the descriptor is given back.
LEMMA FailKept ==
  ASSUME Exact, NEW p \in Procs, NEW r, Busy(r), SameFiles(p, r),
         NEW s, Has(p, s, r.cwd, None, None, None), Fail(p, r, s)
  PROVE  Exact'
<1>1. PICK x : x = GiveFd(r)
  OBVIOUS
<1>2. /\ DOMAIN x = Shape /\ x.cwd = r.cwd /\ FilesOK(x, None)
      /\ \A f \in FileIds : x.file[f].v = r.file[f].v
  BY <1>1, GiveBack
<1>3. SameFiles(p, x) /\ Finish(p, x, s) /\ r.cwd \in Inodes
  BY <1>1, <1>2 DEF SameFiles, Fail, Busy
<1> QED
  BY <1>2, <1>3, FinishKept

\* The call goes on without a mutex.
LEMMA GoKept ==
  ASSUME Exact, NEW p \in Procs, NEW r, ProcOK(r), r.pc \notin Locking, SameFiles(p, r),
         NEW s, Has(p, s, r.cwd, r.at, r.tgt, r.src), Go(p, r, s)
  PROVE  Exact'
<1>1. FsOK(s) /\ \A i \in Inodes : ~HeldBy(r, i)
  BY DEF Has, HeldBy
<1>2. ASSUME NEW i \in Inodes
      PROVE  s.vn[i].refs = fs.vn[i].refs - Holds(proc[p], i) + Holds(r, i)
  <2>1. s.vn[i].refs = fs.vn[i].refs - Holds(proc[p], i) + On(r.cwd, i) + On(r.at, i) + On(r.tgt, i) + On(r.src, i)
    BY DEF Has
  <2>2. /\ Holds(proc[p], i) \in Int /\ fs.vn[i].refs \in Int /\ On(r.cwd, i) \in Int
        /\ On(r.at, i) \in Int /\ On(r.tgt, i) \in Int /\ On(r.src, i) \in Int
    BY HoldsInt, HasNatural, OnInt
  <2>3. Holds(r, i) = On(r.cwd, i) + On(r.at, i) + On(r.tgt, i) + On(r.src, i)
    BY DEF Holds
  <2> QED
    BY <2>1, <2>2, <2>3
<1>3. \A i \in Inodes : s.vn[i].lock = IF HeldBy(proc[p], i) THEN None ELSE fs.vn[i].lock
  BY DEF Has
<1> QED
  BY <1>1, <1>2, <1>3, HasStep

\* The call goes on with the mutex of r.at, which nobody has.
LEMMA LockKept ==
  ASSUME Exact, NEW p \in Procs, NEW r, ProcOK(r), r.pc \in Locking, r.at \in Inodes, SameFiles(p, r),
         NEW s, Has(p, s, r.cwd, r.at, r.tgt, r.src), fs.vn[r.at].lock = None,
         NEW t, t = Lock(s, r.at, p), Go(p, r, t)
  PROVE  Exact'
<1>1. \A i \in Inodes : s.vn[i].lock = IF HeldBy(proc[p], i) THEN None ELSE fs.vn[i].lock
  BY DEF Has
<1>2. FsOK(s) /\ s.vn[r.at].refs > 0
  <2>1. Covers(s, p, r.cwd, r.at, r.tgt, r.src)
    BY HasCovers
  <2>2. s.vn[r.at].refs >= On(r.cwd, r.at) + On(r.at, r.at) + On(r.tgt, r.at) + On(r.src, r.at) + Other(s, p, r.at)
    BY <2>1 DEF Covers
  <2>3. /\ On(r.cwd, r.at) \in {0, 1} /\ On(r.at, r.at) = 1 /\ On(r.tgt, r.at) \in {0, 1}
        /\ On(r.src, r.at) \in {0, 1} /\ Other(s, p, r.at) \in {0, 1}
    BY DEF On, Other
  <2>4. FsOK(s) /\ s.vn[r.at].refs \in Nat
    BY VnodeType DEF Has
  <2> QED
    BY <2>2, <2>3, <2>4
<1>3. /\ FsOK(t) /\ t.vn[r.at].lock = p
      /\ \A i \in Inodes : t.vn[i].refs = s.vn[i].refs /\ (i # r.at => t.vn[i].lock = s.vn[i].lock)
  BY <1>2, LockOnly
<1>4. ASSUME NEW i \in Inodes
      PROVE  t.vn[i].refs = fs.vn[i].refs - Holds(proc[p], i) + Holds(r, i)
  <2>1. s.vn[i].refs = fs.vn[i].refs - Holds(proc[p], i) + On(r.cwd, i) + On(r.at, i) + On(r.tgt, i) + On(r.src, i)
    BY DEF Has
  <2>2. /\ Holds(proc[p], i) \in Int /\ fs.vn[i].refs \in Int /\ On(r.cwd, i) \in Int
        /\ On(r.at, i) \in Int /\ On(r.tgt, i) \in Int /\ On(r.src, i) \in Int
    BY HoldsInt, HasNatural, OnInt
  <2>3. Holds(r, i) = On(r.cwd, i) + On(r.at, i) + On(r.tgt, i) + On(r.src, i)
    BY DEF Holds
  <2> QED
    BY <1>3, <2>1, <2>2, <2>3
<1>5. \A i \in Inodes : HeldBy(r, i) <=> i = r.at
  BY DEF HeldBy
<1>6. /\ \A i \in Inodes : HeldBy(r, i) => t.vn[i].lock = p /\ fs.vn[i].lock \in {None, p}
      /\ \A i \in Inodes : ~HeldBy(r, i) =>
           t.vn[i].lock = IF HeldBy(proc[p], i) THEN None ELSE fs.vn[i].lock
  BY <1>1, <1>3, <1>5
<1> QED
  BY <1>3, <1>4, <1>6, HasStep

\* The call goes on with what it has, the mutex too.
LEMMA OnKept ==
  ASSUME Exact, NEW p \in Procs, NEW r, ProcOK(r), r.pc \in Locking, proc[p].pc \in Locking,
         SameFiles(p, r), r.at = proc[p].at, r.cwd = proc[p].cwd, r.tgt = proc[p].tgt,
         r.src = proc[p].src, NEW s, Same(fs, s), Go(p, r, s)
  PROVE  Exact'
<1>1. ASSUME NEW i \in Inodes
      PROVE  s.vn[i].refs = fs.vn[i].refs - Holds(proc[p], i) + Holds(r, i)
  <2>1. s.vn[i].refs = fs.vn[i].refs /\ Holds(r, i) = Holds(proc[p], i)
    BY DEF Same, Holds
  <2>2. Holds(proc[p], i) \in Int /\ fs.vn[i].refs \in Int
    BY HoldsInt, HasNatural
  <2> QED
    BY <2>1, <2>2
<1>2. \A i \in Inodes : /\ HeldBy(r, i) <=> HeldBy(proc[p], i)
                        /\ s.vn[i].lock = fs.vn[i].lock
                        /\ fs.vn[i].lock = p <=> HeldBy(proc[p], i)
  BY DEF HeldBy, Same, Exact
<1>3. FsOK(s)
  BY DEF Same
<1> QED
  BY <1>1, <1>2, <1>3, HasStep

\* Busy is about these fields.
LEMMA BusyLike ==
  ASSUME NEW r, Busy(r), NEW x, DOMAIN x = Shape, x.op = r.op, x.at \in Inodes, x.src = r.src,
         x.fd = r.fd, x.cwd = r.cwd, x.fds = r.fds, x.file = r.file
  PROVE  Busy(x) /\ \A p : SameFiles(p, r) => SameFiles(p, x)
<1>1. FilesOK(x, x.fd)
  BY DEF Busy, FilesOK
<1> QED
  BY <1>1 DEF Busy, Shape, SameFiles

LEMMA BusyPc ==
  ASSUME NEW r, Busy(r), NEW c, NEW x, x = [r EXCEPT !.pc = c]
  PROVE  /\ Busy(x) /\ x.pc = c /\ x.op = r.op /\ x.at = r.at /\ x.tgt = r.tgt /\ x.src = r.src
         /\ x.cwd = r.cwd /\ \A p : SameFiles(p, r) => SameFiles(p, x)
<1>1. /\ DOMAIN x = Shape /\ x.pc = c /\ x.op = r.op /\ x.at = r.at /\ x.tgt = r.tgt /\ x.src = r.src
      /\ x.cwd = r.cwd /\ x.fd = r.fd /\ x.fds = r.fds /\ x.file = r.file /\ r.at \in Inodes
  BY DEF Busy, Shape
<1> QED
  BY <1>1, BusyLike

\* What p has when its step starts.
LEMMA HasStart ==
  ASSUME Exact, NEW p \in Procs, proc[p].pc \notin Locking, NEW s, Same(fs, s)
  PROVE  Has(p, s, proc[p].cwd, proc[p].at, proc[p].tgt, proc[p].src)
<1>1. ASSUME NEW i \in Inodes
      PROVE  s.vn[i].refs = fs.vn[i].refs - Holds(proc[p], i) + On(proc[p].cwd, i) + On(proc[p].at, i)
                              + On(proc[p].tgt, i) + On(proc[p].src, i)
  <2>1. s.vn[i].refs = fs.vn[i].refs
    BY DEF Same
  <2>2. Holds(proc[p], i) = On(proc[p].cwd, i) + On(proc[p].at, i) + On(proc[p].tgt, i) + On(proc[p].src, i)
    BY DEF Holds
  <2>3. /\ On(proc[p].cwd, i) \in Int /\ On(proc[p].at, i) \in Int /\ On(proc[p].tgt, i) \in Int
        /\ On(proc[p].src, i) \in Int /\ fs.vn[i].refs \in Int
    BY OnInt, HasNatural
  <2> QED
    BY <2>1, <2>2, <2>3
<1>2. \A i \in Inodes : ~HeldBy(proc[p], i) /\ s.vn[i].lock = fs.vn[i].lock
  BY DEF HeldBy, Same
<1> QED
  BY <1>1, <1>2 DEF Has, Same

LEMMA HasUnlocked ==
  ASSUME Exact, NEW p \in Procs, proc[p].pc \in Locking, proc[p].at \in Inodes, NEW s, Same(fs, s),
         NEW t, t = Unlock(s, proc[p].at)
  PROVE  Has(p, t, proc[p].cwd, proc[p].at, proc[p].tgt, proc[p].src)
<1>1. PICK d \in Inodes : d = proc[p].at
  OBVIOUS
<1>2. /\ FsOK(s) /\ \A i \in Inodes : s.vn[i].refs = fs.vn[i].refs /\ s.vn[i].lock = fs.vn[i].lock
  BY DEF Same
<1>3. s.vn[d].refs > 0
  <2>1. 1 \in FileIds
    BY Numbers DEF FileIds
  <2>2. fs.vn[d].refs \in Nat /\ fs.vn[d].refs >= On(Root, d) + Mine(proc[p], 1, d) + Other(fs, p, d)
    BY <2>1, Shares
  <2>3. /\ Mine(proc[p], 1, d) = On(proc[p].cwd, d) + On(proc[p].at, d) + On(proc[p].tgt, d)
                                  + On(proc[p].src, d) + On(proc[p].file[1].v, d)
        /\ On(proc[p].at, d) = 1
    BY <1>1 DEF Mine, On
  <2>4. /\ On(proc[p].cwd, d) \in {0, 1} /\ On(proc[p].tgt, d) \in {0, 1} /\ On(Root, d) \in {0, 1}
        /\ On(proc[p].src, d) \in {0, 1} /\ On(proc[p].file[1].v, d) \in {0, 1} /\ Other(fs, p, d) \in {0, 1}
    BY OnInt, OtherInt
  <2> QED
    BY <1>2, <2>2, <2>3, <2>4
<1>4. t = Lock(s, d, None)
  BY <1>1 DEF Lock, Unlock
<1>5. /\ FsOK(t) /\ t.vn[d].lock = None
      /\ \A i \in Inodes : t.vn[i].refs = s.vn[i].refs /\ (i # d => t.vn[i].lock = s.vn[i].lock)
  BY <1>2, <1>3, <1>4, LockOnly
<1>6. \A i \in Inodes : HeldBy(proc[p], i) <=> i = d
  BY <1>1 DEF HeldBy
<1>7. ASSUME NEW i \in Inodes
      PROVE  t.vn[i].refs = fs.vn[i].refs - Holds(proc[p], i) + On(proc[p].cwd, i) + On(proc[p].at, i)
                              + On(proc[p].tgt, i) + On(proc[p].src, i)
  <2>1. Holds(proc[p], i) = On(proc[p].cwd, i) + On(proc[p].at, i) + On(proc[p].tgt, i) + On(proc[p].src, i)
    BY DEF Holds
  <2>2. /\ On(proc[p].cwd, i) \in Int /\ On(proc[p].at, i) \in Int /\ On(proc[p].tgt, i) \in Int
        /\ On(proc[p].src, i) \in Int /\ fs.vn[i].refs \in Int
    BY OnInt, HasNatural
  <2> QED
    BY <1>2, <1>5, <2>1, <2>2
<1>8. \A i \in Inodes : t.vn[i].lock = IF HeldBy(proc[p], i) THEN None ELSE fs.vn[i].lock
  BY <1>2, <1>5, <1>6
<1> QED
  BY <1>5, <1>7, <1>8 DEF Has

\* dir_namev has come to r.at.
LEMMA ArriveKept ==
  ASSUME Exact, NEW p \in Procs, NEW r, Busy(r), r.tgt = None, SameFiles(p, r),
         NEW s, Has(p, s, r.at, r.src, r.cwd, None), Arrive(p, r, s)
  PROVE  Exact'
<1>1. r.at \in Inodes /\ r.src \in Inodes \cup {None}
  BY DEF Busy
<1>2. Has(p, s, r.cwd, r.at, r.tgt, r.src)
  <2>1. Has(p, s, r.cwd, r.at, r.src, None)
    BY HasMove
  <2> QED
    BY <2>1, HasMove
<1>3. CASE Len(r.names) > 1
  <2>1. PICK x : x = [r EXCEPT !.pc = "walk"]
    OBVIOUS
  <2>2. /\ Busy(x) /\ x.pc = "walk" /\ x.op = r.op /\ x.at = r.at /\ x.tgt = r.tgt /\ x.src = r.src
        /\ x.cwd = r.cwd /\ SameFiles(p, x)
    BY <2>1, BusyPc
  <2>3. ProcOK(x) /\ x.pc \notin Locking
    BY <2>2 DEF ProcOK, Locking, Making
  <2>4. Go(p, x, s) /\ Has(p, s, x.cwd, x.at, x.tgt, x.src)
    BY <1>2, <1>3, <2>1, <2>2 DEF Arrive
  <2> QED
    BY <2>2, <2>3, <2>4, GoKept
<1>4. CASE Fail(p, r, vput_if(vput(s, r.at), r.src))
  <2>1. Has(p, vput(s, r.at), r.src, r.cwd, None, None)
    BY <1>1, HasPut
  <2>2. Has(p, vput_if(vput(s, r.at), r.src), r.cwd, None, None, None)
    BY <1>1, <2>1, HasPut
  <2> QED
    BY <1>4, <2>2, FailKept
<1>5. CASE /\ ~(r.op = "rmdir" /\ Name(r) \in Dots)
           /\ Go(p, [r EXCEPT !.pc = IF r.op = "rmdir" THEN "rmdir" ELSE "look"], s)
  <2>1. PICK c : c = IF r.op = "rmdir" THEN "rmdir" ELSE "look"
    OBVIOUS
  <2>2. PICK x : x = [r EXCEPT !.pc = c]
    OBVIOUS
  <2>3. /\ Busy(x) /\ x.pc = c /\ x.op = r.op /\ x.at = r.at /\ x.tgt = r.tgt /\ x.src = r.src
        /\ x.cwd = r.cwd /\ SameFiles(p, x)
    BY <2>2, BusyPc
  <2>4. ProcOK(x) /\ x.pc \notin Locking
    BY <2>1, <2>3 DEF ProcOK, Locking, Making
  <2>5. Go(p, x, s) /\ Has(p, s, x.cwd, x.at, x.tgt, x.src)
    BY <1>2, <1>5, <2>1, <2>2, <2>3
  <2> QED
    BY <2>3, <2>4, <2>5, GoKept
<1> QED
  BY <1>3, <1>4, <1>5 DEF Arrive

LEMMA OpenedOK ==
  ASSUME NEW r, NEW d \in Fds, FilesOK(r, d), NEW g \in FileIds, r.fds[d] = g, r.file[g].refs = 1,
         NEW y \in Files, y.v # None, y.refs = 1, NEW x, NEW n, x.file = n, x.fds = r.fds,
         n \in [FileIds -> Files], n[g] = y, \A f \in FileIds : f # g => n[f] = r.file[f]
  PROVE  FilesOK(x, None)
<1>1. /\ r.fds \in [Fds -> 0 .. NFILES]
      /\ \A f \in FileIds : /\ r.file[f].refs = Count({e \in Fds : r.fds[e] = f})
                            /\ r.file[f].refs = 0 => r.file[f].v = None
  BY DEF FilesOK
<1>2. \A f \in FileIds : /\ n[f].refs = r.file[f].refs
                         /\ n[f].refs = 0 => n[f].v = None
  <2>1. \A f \in FileIds : r.file[f].refs = 0 => r.file[f].v = None
    BY <1>1
  <2> QED
    BY <2>1
<1>3. ASSUME NEW e \in Fds, r.fds[e] # 0 PROVE n[r.fds[e]].v # None
  <2>1. r.fds[e] \in FileIds /\ (e # d => r.file[r.fds[e]].v # None)
    BY <1>3, FileParts
  <2> QED
    BY <2>1
<1> QED
  BY <1>1, <1>2, <1>3 DEF FilesOK

\* The file of a descriptor that do_open has taken gets its vnode.
WithFile(r, g, i) == [r EXCEPT !.file[g].v = i]

LEMMA FileOpened ==
  ASSUME NEW r, Busy(r), r.op \in Opens, NEW i \in Inodes, NEW g, g = r.fds[r.fd],
         NEW x, x = WithFile(r, g, i)
  PROVE  /\ g \in FileIds /\ DOMAIN x = Shape /\ x.cwd = r.cwd /\ FilesOK(x, None)
         /\ x.file[g].v = i /\ r.file[g].v = None
         /\ \A f \in FileIds : f # g => x.file[f].v = r.file[f].v
<1>1. PICK d : d = r.fd
  OBVIOUS
<1>2. d # None /\ FilesOK(r, d) /\ DOMAIN r = Shape
  BY <1>1 DEF Busy, Shape
<1>3. /\ d \in Fds /\ r.fds[d] = g /\ g \in FileIds /\ r.file[g] \in Files
      /\ r.file[g].refs = 1 /\ r.file[g].v = None
  <2>1. d \in Fds /\ r.fds[d] # 0 /\ r.file[r.fds[d]].refs = 1 /\ r.file[r.fds[d]].v = None
    BY <1>2 DEF FilesOK
  <2> QED
    BY <1>1, <1>2, <2>1, FileParts
<1>4. PICK y : y = [r.file[g] EXCEPT !.v = i]
  OBVIOUS
<1>5. y \in Files /\ y.v = i /\ y.refs = 1 /\ i # None
  BY <1>3, <1>4, Numbers DEF Files
<1>6. PICK n : n = [r.file EXCEPT ![g] = y]
  OBVIOUS
<1>7. r.file \in [FileIds -> Files] /\ r.fds \in [Fds -> 0 .. NFILES]
  BY <1>2 DEF FilesOK
<1>8. DOMAIN x = Shape /\ x.file = n /\ x.fds = r.fds /\ x.cwd = r.cwd
  BY <1>2, <1>3, <1>4, <1>6, <1>7 DEF Shape, WithFile
<1>9. n \in [FileIds -> Files] /\ n[g] = y /\ \A f \in FileIds : f # g => n[f] = r.file[f]
  BY <1>3, <1>5, <1>6, <1>7
<1>10. FilesOK(x, None)
  BY <1>2, <1>3, <1>5, <1>7, <1>8, <1>9, OpenedOK
<1> QED
  BY <1>3, <1>5, <1>8, <1>9, <1>10

LEMMA OpenedKept ==
  ASSUME Exact, NEW p \in Procs, NEW r, Busy(r), r.op \in Opens, SameFiles(p, r), NEW i \in Inodes,
         NEW s, Has(p, s, i, r.cwd, None, None), Opened(p, r, s, i)
  PROVE  Exact'
<1>1. PICK g : g = r.fds[r.fd]
  OBVIOUS
<1>2. PICK y : y = WithFile(r, g, i)
  OBVIOUS
<1>3. PICK x : x = Idle(y)
  OBVIOUS
<1>4. /\ g \in FileIds /\ DOMAIN y = Shape /\ y.cwd = r.cwd /\ FilesOK(y, None)
      /\ y.file[g].v = i /\ r.file[g].v = None
      /\ \A f \in FileIds : f # g => y.file[f].v = r.file[f].v
  BY <1>1, <1>2, FileOpened
<1>5. r.cwd \in Inodes
  BY DEF Busy
<1>6. /\ ProcOK(x) /\ x.file = y.file /\ (\A j : ~HeldBy(x, j))
      /\ \A j \in Inodes : Holds(x, j) = On(r.cwd, j)
  BY <1>3, <1>4, <1>5, IdleRests
<1>7. Go(p, x, s) /\ FsOK(s)
  BY <1>1, <1>2, <1>3 DEF Opened, Finish, Has, WithFile
<1>8. \A f \in FileIds : f # g => x.file[f].v = proc[p].file[f].v
  BY <1>4, <1>6 DEF SameFiles
<1>9. ASSUME NEW j \in Inodes
      PROVE  s.vn[j].refs = fs.vn[j].refs - Mine(proc[p], g, j) + Mine(x, g, j)
  <2>1. s.vn[j].refs = fs.vn[j].refs - Holds(proc[p], j) + On(i, j) + On(r.cwd, j) + On(None, j) + On(None, j)
    BY DEF Has
  <2>2. /\ Mine(proc[p], g, j) = Holds(proc[p], j) + On(None, j)
        /\ Mine(x, g, j) = Holds(x, j) + On(i, j)
    <3>1. proc[p].file[g].v = None /\ x.file[g].v = i
      BY <1>4, <1>6 DEF SameFiles
    <3> QED
      BY <3>1 DEF Mine, Holds
  <2>3. /\ Holds(proc[p], j) \in Int /\ fs.vn[j].refs \in Int /\ On(None, j) = 0
        /\ On(r.cwd, j) \in Int /\ On(i, j) \in Int
    BY HoldsInt, HasNatural, OnInt, OnNone
  <2> QED
    BY <1>6, <2>1, <2>2, <2>3
<1>10. \A j \in Inodes : s.vn[j].lock = IF HeldBy(proc[p], j) THEN None ELSE fs.vn[j].lock
  BY DEF Has
<1> QED
  BY <1>4, <1>6, <1>7, <1>8, <1>9, <1>10, StepKept

-----------------------------------------------------------------------------
(* The actions.                                                              *)

\* A process that makes no call.
LEMMA Rests ==
  ASSUME Exact, NEW p \in Procs, proc[p].pc = "idle"
  PROVE  /\ DOMAIN proc[p] = Shape /\ proc[p].cwd \in Inodes /\ FilesOK(proc[p], None)
         /\ proc[p].at = None /\ proc[p].tgt = None /\ proc[p].src = None /\ proc[p].fd = None
         /\ SameFiles(p, proc[p]) /\ proc[p].pc \notin Locking
         /\ \A s : Same(fs, s) => Has(p, s, proc[p].cwd, None, None, None)
<1>1. ProcOK(proc[p])
  BY DEF Exact
<1>2. Resting(proc[p])
  BY <1>1 DEF ProcOK, Making
<1>3. proc[p].pc \notin Locking
  BY DEF Locking
<1> QED
  BY <1>2, <1>3, HasStart DEF Resting, Shape, SameFiles

LEMMA FsSame ==
  ASSUME Exact
  PROVE  Same(fs, fs) /\ FsOK(fs)
  BY DEF Exact, Same

\* A reference that p has is one of the vnode's.
LEMMA Referenced ==
  ASSUME Exact, NEW p \in Procs, NEW s, NEW a, NEW b, NEW c, NEW d, Has(p, s, a, b, c, d)
  PROVE  a \in Inodes => s.vn[a].refs > 0
<1>1. ASSUME a \in Inodes PROVE s.vn[a].refs > 0
  <2>1. Covers(s, p, a, b, c, d)
    BY HasCovers
  <2>2. s.vn[a].refs >= On(a, a) + On(b, a) + On(c, a) + On(d, a) + Other(s, p, a)
    BY <1>1, <2>1 DEF Covers
  <2>3. /\ On(a, a) = 1 /\ On(b, a) \in {0, 1} /\ On(c, a) \in {0, 1} /\ On(d, a) \in {0, 1}
        /\ Other(s, p, a) \in {0, 1}
    BY DEF On, Other
  <2>4. s.vn[a].refs \in Nat
    BY <1>1, VnodeType DEF Has
  <2> QED
    BY <2>2, <2>3, <2>4
<1> QED
  BY <1>1

\* A process with a call under way.
LEMMA Calling ==
  ASSUME Exact, NEW p \in Procs, proc[p].pc # "idle"
  PROVE  /\ Busy(proc[p]) /\ SameFiles(p, proc[p]) /\ DOMAIN proc[p] = Shape
         /\ proc[p].at \in Inodes /\ proc[p].cwd \in Inodes /\ proc[p].src \in Inodes \cup {None}
         /\ IF proc[p].pc \in Locking \cup {"unlink"} THEN proc[p].tgt \in Inodes ELSE proc[p].tgt = None
         /\ proc[p].src # None => proc[p].op = "link"
         /\ proc[p].op \in Ops
         /\ proc[p].pc = "look" => proc[p].op # "rmdir"
         /\ proc[p].pc \in Making => proc[p].op \in Makes
         /\ proc[p].pc \in {"rmdir", "rmdir2"} => proc[p].op = "rmdir"
         /\ proc[p].pc = "unlink" => proc[p].op = "unlink"
         /\ proc[p].pc \in {"dot", "dotdot"} => proc[p].op = "mkdir"
<1>1. ProcOK(proc[p])
  BY DEF Exact
<1> QED
  BY <1>1 DEF ProcOK, Busy, SameFiles, Shape

LEMMA CallKept ==
  ASSUME Exact, NEW p \in Procs, NEW c \in Calls, Call(p, c)
  PROVE  Exact'
<1>1. proc[p].pc = "idle"
  BY DEF Call, Starts
<1>2. /\ DOMAIN proc[p] = Shape /\ proc[p].cwd \in Inodes /\ FilesOK(proc[p], None)
      /\ proc[p].at = None /\ proc[p].tgt = None /\ proc[p].src = None /\ proc[p].fd = None
      /\ \A s : Same(fs, s) => Has(p, s, proc[p].cwd, None, None, None)
  BY <1>1, Rests
<1>3. PICK start : start = IF c.abs THEN Root ELSE proc[p].cwd
  OBVIOUS
<1>4. start \in Inodes
  BY <1>2, <1>3, Numbers
<1>5. PICK r : r = [proc[p] EXCEPT !.op = c.op, !.names = c.names, !.to = c.to, !.at = start]
  OBVIOUS
<1>6. /\ DOMAIN r = Shape /\ r.op = c.op /\ r.at = start /\ r.tgt = None /\ r.src = None /\ r.fd = None
      /\ r.cwd = proc[p].cwd /\ r.fds = proc[p].fds /\ r.file = proc[p].file
  BY <1>2, <1>5 DEF Shape
<1>7. PICK x : x = IF c.op \in Opens THEN TakeFd(r, c.op = "creat") ELSE r
  OBVIOUS
<1>8. (c.op \in Opens => FdLeft(r)) /\ Arrive(p, x, vref(fs, start))
  BY <1>3, <1>5, <1>7 DEF Call
<1>9. /\ DOMAIN x = Shape /\ x.op = c.op /\ x.at = start /\ x.tgt = None /\ x.src = None
      /\ x.cwd = proc[p].cwd /\ (x.fd # None <=> c.op \in Opens) /\ FilesOK(x, x.fd)
      /\ \A f \in FileIds : x.file[f].v = proc[p].file[f].v
  <2>1. FilesOK(r, None)
    BY <1>2, <1>6 DEF FilesOK
  <2>2. CASE c.op \in Opens
    <3>1. PICK w \in BOOLEAN : x = TakeFd(r, w)
      <4>1. x = TakeFd(r, c.op = "creat") /\ (c.op = "creat") \in BOOLEAN
        BY <1>7, <2>2
      <4> QED
        BY <4>1, Zenon
    <3>2. /\ DOMAIN x = Shape /\ x.fd \in Fds /\ FilesOK(x, x.fd)
          /\ \A f \in FileIds : x.file[f].v = r.file[f].v
          /\ \A y \in Shape \ {"fd", "fds", "file"} : x[y] = r[y]
      BY <1>6, <1>8, <2>1, <2>2, <3>1, TakeFile
    <3>3. x.op = r.op /\ x.at = r.at /\ x.tgt = r.tgt /\ x.src = r.src /\ x.cwd = r.cwd
      BY <3>2 DEF Shape
    <3>4. x.fd # None
      BY <3>2, Numbers DEF Fds
    <3> QED
      BY <1>6, <2>2, <3>2, <3>3, <3>4
  <2>3. CASE c.op \notin Opens
    <3>1. x = r
      BY <1>7, <2>3
    <3> QED
      BY <1>6, <2>1, <2>3, <3>1
  <2> QED
    BY <2>2, <2>3
<1>10. Busy(x) /\ SameFiles(p, x)
  <2>1. c.op \in Ops
    BY VfsAssumption
  <2> QED
    BY <1>2, <1>4, <1>9, <2>1 DEF Busy, Shape, SameFiles
<1>11. FsOK(fs) /\ Has(p, fs, proc[p].cwd, None, None, None)
  BY <1>2, FsSame
<1>12. fs.vn[start].refs > 0
  <2>1. 1 \in FileIds
    BY Numbers DEF FileIds
  <2>2. /\ fs.vn[start].refs \in Nat
        /\ fs.vn[start].refs >= On(Root, start) + Mine(proc[p], 1, start) + Other(fs, p, start)
    BY <1>4, <2>1, Shares
  <2>3. /\ Mine(proc[p], 1, start) = On(proc[p].cwd, start) + On(proc[p].at, start)
              + On(proc[p].tgt, start) + On(proc[p].src, start) + On(proc[p].file[1].v, start)
        /\ On(Root, start) = 1 \/ On(proc[p].cwd, start) = 1
    BY <1>3 DEF Mine, On
  <2>4. /\ On(proc[p].cwd, start) \in {0, 1} /\ On(proc[p].tgt, start) \in {0, 1}
        /\ On(proc[p].at, start) \in {0, 1} /\ On(Root, start) \in {0, 1}
        /\ On(proc[p].src, start) \in {0, 1} /\ On(proc[p].file[1].v, start) \in {0, 1}
        /\ Other(fs, p, start) \in {0, 1}
    BY OnInt, OtherInt
  <2> QED
    BY <2>2, <2>3, <2>4
<1>13. Got(fs, vref(fs, start), start)
  BY <1>4, <1>11, <1>12, VrefGot
<1>14. Has(p, vref(fs, start), start, proc[p].cwd, None, None)
  BY <1>11, <1>13, HasGot
<1>15. Has(p, vref(fs, start), x.at, x.src, x.cwd, None)
  BY <1>9, <1>14, HasMove
<1> QED
  BY <1>8, <1>9, <1>10, <1>15, ArriveKept

\* The error path of a walk.
LEMMA WalkFails ==
  ASSUME Exact, NEW p \in Procs, NEW r, Busy(r), SameFiles(p, r),
         NEW s, Has(p, s, r.cwd, r.at, None, r.src), Fail(p, r, vput_if(vput(s, r.at), r.src))
  PROVE  Exact'
<1>1. r.at \in Inodes /\ r.src \in Inodes \cup {None}
  BY DEF Busy
<1>2. Has(p, s, r.at, r.src, r.cwd, None)
  <2>1. Has(p, s, r.at, None, r.src, r.cwd)
    BY HasMove
  <2>2. Has(p, s, r.at, r.src, r.cwd, None)
    BY <2>1, HasMove
  <2> QED
    BY <2>2
<1>3. Has(p, vput(s, r.at), r.src, r.cwd, None, None)
  BY <1>1, <1>2, HasPut
<1>4. Has(p, vput_if(vput(s, r.at), r.src), r.cwd, None, None, None)
  BY <1>1, <1>3, HasPut
<1> QED
  BY <1>4, FailKept

LEMMA ExactStays ==
  ASSUME Exact, UNCHANGED <<fs, proc>>
  PROVE  Exact'
<1>1. fs' = fs /\ proc' = proc
  OBVIOUS
<1>2. FsOK(fs)' <=> FsOK(fs)
  BY <1>1 DEF FsOK, VnodeOK, InodeOK, EntriesOK, Vnodes
<1>3. \A p \in Procs : ProcOK(proc[p])' <=> ProcOK(proc[p])
  BY <1>1 DEF ProcOK, Busy, Resting, FilesOK, Files, Count
<1>4. \A i \in Inodes : Owed(i)' = Owed(i)
  BY <1>1 DEF Owed, Count
<1>5. \A i \in Inodes, p \in Procs : HeldBy(proc[p], i)' <=> HeldBy(proc[p], i)
  BY <1>1 DEF HeldBy, Locking
<1> QED
  BY <1>1, <1>2, <1>3, <1>4, <1>5 DEF Exact

LEMMA PanicKept ==
  ASSUME Exact, NEW kind, Panic(kind)
  PROVE  Exact'
<1>1. UNCHANGED <<fs, proc>>
  BY DEF Panic
<1> QED
  BY <1>1, ExactStays

LEMMA WalkKept ==
  ASSUME Exact, NEW p \in Procs, Walk(p)
  PROVE  Exact'
<1>1. PICK r : r = proc[p]
  OBVIOUS
<1>2. PICK l : l = s5fs_lookup(fs, r.at, Head(r.names))
  OBVIOUS
<1>3. proc[p].pc = "walk"
  BY DEF Walk, Quiet, Inside
<1>4. /\ Busy(r) /\ SameFiles(p, r) /\ DOMAIN r = Shape /\ r.at \in Inodes /\ r.tgt = None
      /\ r.src \in Inodes \cup {None}
  BY <1>1, <1>3, Calling DEF Locking
<1>5. Same(fs, fs) /\ FsOK(fs)
  BY FsSame
<1>6. \A s : Same(fs, s) => Has(p, s, r.cwd, r.at, None, r.src)
  BY <1>1, <1>3, <1>4, HasStart DEF Locking
<1>7. CASE Fail(p, r, vput_if(vput(fs, r.at), r.src))
  BY <1>4, <1>5, <1>6, <1>7, WalkFails
<1>8. CASE /\ \/ l.ret = "ENOENT" /\ Same(fs, l.s)
              \/ l.ret = "panic"
              \/ l.ret = "ok" /\ l.i \in Inodes /\ Got(fs, l.s, l.i)
           /\ \/ l.ret = "ENOENT" /\ Fail(p, r, vput_if(vput(l.s, r.at), r.src))
              \/ l.ret = "panic" /\ Panic("free")
              \/ l.ret = "ok" /\ Arrive(p, [r EXCEPT !.at = l.i, !.names = Tail(@)], vput(l.s, r.at))
  <2>1. CASE l.ret = "ENOENT"
    <3>1. Same(fs, l.s) /\ Fail(p, r, vput_if(vput(l.s, r.at), r.src))
      BY <1>8, <2>1
    <3> QED
      BY <1>4, <1>6, <3>1, WalkFails
  <2>2. CASE l.ret = "panic"
    BY <1>8, <2>2, PanicKept
  <2>3. CASE l.ret = "ok"
    <3>1. PICK x : x = [r EXCEPT !.at = l.i, !.names = Tail(@)]
      OBVIOUS
    <3>2. l.i \in Inodes /\ Got(fs, l.s, l.i) /\ Arrive(p, x, vput(l.s, r.at))
      BY <1>8, <2>3, <3>1
    <3>3. /\ DOMAIN x = Shape /\ x.op = r.op /\ x.at = l.i /\ x.src = r.src /\ x.tgt = None
          /\ x.fd = r.fd /\ x.cwd = r.cwd /\ x.fds = r.fds /\ x.file = r.file
      BY <1>4, <3>1 DEF Shape
    <3>4. Busy(x) /\ SameFiles(p, x)
      BY <1>4, <3>2, <3>3, BusyLike
    <3>5. Has(p, fs, r.cwd, r.at, r.src, None)
      <4>1. Has(p, fs, r.cwd, r.at, None, r.src)
        BY <1>5, <1>6
      <4> QED
        BY <4>1, HasMove
    <3>6. Has(p, l.s, l.i, r.cwd, r.at, r.src)
      BY <3>2, <3>5, HasGot
    <3>7. Has(p, l.s, r.at, l.i, r.src, r.cwd)
      <4>1. Has(p, l.s, r.at, l.i, r.cwd, r.src)
        BY <3>6, HasMove
      <4> QED
        BY <4>1, HasMove
    <3>8. Has(p, vput(l.s, r.at), l.i, r.src, r.cwd, None)
      BY <1>4, <3>7, HasPut
    <3> QED
      BY <3>2, <3>3, <3>4, <3>8, ArriveKept
  <2> QED
    BY <1>8, <2>1, <2>2, <2>3
<1>9. Fail(p, r, vput_if(vput(fs, r.at), r.src)) \/
      /\ l.ret \in {"ENOENT", "panic", "ok"} =>
           \/ l.ret = "ENOENT" /\ Fail(p, r, vput_if(vput(l.s, r.at), r.src))
           \/ l.ret = "panic" /\ Panic("free")
           \/ l.ret = "ok" /\ Arrive(p, [r EXCEPT !.at = l.i, !.names = Tail(@)], vput(l.s, r.at))
  BY <1>1, <1>2 DEF Walk
<1>10. \/ l.ret = "ENOENT" /\ Same(fs, l.s)
       \/ l.ret = "panic"
       \/ l.ret = "ok" /\ l.i \in Inodes /\ Got(fs, l.s, l.i)
  BY <1>2, <1>4, <1>5, LookupGot
<1> QED
  BY <1>7, <1>8, <1>9, <1>10

\* Two references are put in one order or the other.
LEMMA PutBoth ==
  ASSUME Exact, NEW p \in Procs, NEW s, NEW a \in Inodes, NEW b \in Inodes, NEW c,
         Has(p, s, a, b, c, None)
  PROVE  /\ Has(p, vput(vput(s, a), b), c, None, None, None)
         /\ Has(p, vput(vput(s, b), a), c, None, None, None)
<1>1. Has(p, s, b, a, c, None)
  BY HasMove
<1>2. Has(p, vput(s, a), b, c, None, None) /\ Has(p, vput(s, b), a, c, None, None)
  BY <1>1, HasPut
<1> QED
  BY <1>2, HasPut

\* The error paths that put the directory and the vnode found in it.
LEMMA BothFail ==
  ASSUME Exact, NEW p \in Procs, NEW r, Busy(r), SameFiles(p, r), NEW i \in Inodes,
         NEW s, Has(p, s, r.at, i, r.cwd, None),
         Fail(p, r, vput(vput(s, r.at), i)) \/ Fail(p, r, vput(vput(s, i), r.at))
  PROVE  Exact'
<1>1. r.at \in Inodes
  BY DEF Busy
<1>2. /\ Has(p, vput(vput(s, r.at), i), r.cwd, None, None, None)
      /\ Has(p, vput(vput(s, i), r.at), r.cwd, None, None, None)
  BY <1>1, PutBoth
<1> QED
  BY <1>2, FailKept

LEMMA OpenHitKept ==
  ASSUME Exact, NEW p \in Procs, NEW r, Busy(r), SameFiles(p, r), NEW i \in Inodes,
         NEW s, Has(p, s, r.at, i, r.cwd, None), r.op \in Opens, OpenHit(p, r, s, i)
  PROVE  Exact'
<1>1. CASE Fail(p, r, vput(vput(s, r.at), i))
  BY <1>1, BothFail
<1>2. CASE Opened(p, r, vput(s, r.at), i)
  <2>1. Has(p, vput(s, r.at), i, r.cwd, None, None)
    BY HasPut DEF Busy
  <2> QED
    BY <1>2, <2>1, OpenedKept
<1> QED
  BY <1>1, <1>2 DEF OpenHit

LEMMA UnlinkHitKept ==
  ASSUME Exact, NEW p \in Procs, NEW r, Busy(r), SameFiles(p, r), NEW i \in Inodes,
         NEW s, Has(p, s, r.at, i, r.cwd, None), r.op = "unlink", r.src = None, do_unlink(p, r, s, i)
  PROVE  Exact'
<1>1. CASE Fail(p, r, vput(vput(s, i), r.at))
  BY <1>1, BothFail
<1>2. CASE Go(p, [r EXCEPT !.pc = "unlink", !.tgt = i], s)
  <2>1. PICK x : x = [r EXCEPT !.pc = "unlink", !.tgt = i]
    OBVIOUS
  <2>2. /\ DOMAIN x = Shape /\ x.pc = "unlink" /\ x.op = r.op /\ x.at = r.at /\ x.tgt = i /\ x.src = r.src
        /\ x.cwd = r.cwd /\ x.fd = r.fd /\ x.fds = r.fds /\ x.file = r.file /\ r.at \in Inodes
    BY <2>1 DEF Busy, Shape
  <2>3. Busy(x) /\ SameFiles(p, x)
    BY <2>2, BusyLike
  <2>4. ProcOK(x) /\ x.pc \notin Locking
    BY <2>2, <2>3 DEF ProcOK, Locking, Making
  <2>5. Has(p, s, x.cwd, x.at, x.tgt, x.src)
    BY <2>2, HasMove
  <2> QED
    BY <1>2, <2>1, <2>3, <2>4, <2>5, GoKept
<1> QED
  BY <1>1, <1>2 DEF do_unlink

LEMMA ChdirHitKept ==
  ASSUME Exact, NEW p \in Procs, NEW r, Busy(r), SameFiles(p, r), NEW i \in Inodes,
         NEW s, Has(p, s, r.at, i, r.cwd, None), r.op = "chdir", do_chdir(p, r, s, i)
  PROVE  Exact'
<1>1. CASE Fail(p, r, vput(vput(s, r.at), i))
  BY <1>1, BothFail
<1>2. CASE Finish(p, [r EXCEPT !.cwd = i], vput(vput(s, r.at), r.cwd))
  <2>1. PICK x : x = [r EXCEPT !.cwd = i]
    OBVIOUS
  <2>2. DOMAIN x = Shape /\ x.cwd = i /\ x.fds = r.fds /\ x.file = r.file
    BY <2>1 DEF Busy, Shape
  <2>3. FilesOK(x, None)
    <3>1. FilesOK(r, None)
      BY DEF Busy, Opens
    <3> QED
      BY <2>2, <3>1 DEF FilesOK
  <2>4. SameFiles(p, x)
    BY <2>2 DEF SameFiles
  <2>5. r.at \in Inodes /\ r.cwd \in Inodes
    BY DEF Busy
  <2>6. Has(p, s, r.at, r.cwd, i, None)
    BY HasMove
  <2>7. Has(p, vput(vput(s, r.at), r.cwd), x.cwd, None, None, None)
    BY <2>2, <2>5, <2>6, PutBoth
  <2> QED
    BY <1>2, <2>1, <2>2, <2>3, <2>4, <2>7, FinishKept
<1> QED
  BY <1>1, <1>2 DEF do_chdir

LEMMA LinkHitKept ==
  ASSUME Exact, NEW p \in Procs, NEW r, Busy(r), SameFiles(p, r), r.tgt = None, NEW i \in Inodes,
         NEW s, Has(p, s, r.at, i, r.cwd, r.src), r.op = "link", do_link(p, r, s, i)
  PROVE  Exact'
<1>1. r.at \in Inodes /\ r.cwd \in Inodes /\ r.src \in Inodes \cup {None}
  BY DEF Busy
<1>2. CASE r.src # None
  <2>1. r.src \in Inodes
    BY <1>1, <1>2
  <2>2. Has(p, s, r.src, r.at, i, r.cwd)
    BY HasMove
  <2>3. Has(p, vput(s, r.src), r.at, i, r.cwd, None)
    BY <2>1, <2>2, HasPut
  <2>4. Fail(p, r, vput(vput(vput(s, r.src), r.at), i))
    BY <1>2 DEF do_link
  <2> QED
    BY <2>3, <2>4, BothFail
<1>3. CASE r.src = None /\ Fail(p, r, vput(vput(s, r.at), i))
  BY <1>3, BothFail
<1>4. CASE /\ r.src = None
           /\ Arrive(p, [r EXCEPT !.src = i, !.at = r.cwd, !.names = r.to], vref(vput(s, r.at), r.cwd))
  <2>1. PICK x : x = [r EXCEPT !.src = i, !.at = r.cwd, !.names = r.to]
    OBVIOUS
  <2>2. /\ DOMAIN x = Shape /\ x.op = r.op /\ x.at = r.cwd /\ x.src = i /\ x.tgt = None
        /\ x.fd = r.fd /\ x.cwd = r.cwd /\ x.fds = r.fds /\ x.file = r.file
    BY <2>1 DEF Busy, Shape
  <2>3. Busy(x) /\ SameFiles(p, x)
    <3>1. FilesOK(x, x.fd)
      BY <2>2 DEF Busy, FilesOK
    <3> QED
      BY <1>1, <2>2, <3>1 DEF Busy, Shape, SameFiles
  <2>4. PICK t : t = vput(s, r.at)
    OBVIOUS
  <2>5. Has(p, t, i, r.cwd, None, None)
    BY <1>1, <1>4, <2>4, HasPut
  <2>6. Has(p, t, r.cwd, i, None, None)
    BY <2>5, HasMove
  <2>7. t.vn[r.cwd].refs > 0 /\ FsOK(t)
    BY <1>1, <2>6, Referenced DEF Has
  <2>8. Got(t, vref(t, r.cwd), r.cwd)
    BY <1>1, <2>7, VrefGot
  <2>9. Has(p, vref(t, r.cwd), r.cwd, i, r.cwd, None)
    BY <2>5, <2>8, HasGot
  <2>10. Arrive(p, x, vref(t, r.cwd)) /\ Has(p, vref(t, r.cwd), x.at, x.src, x.cwd, None)
    BY <1>4, <2>1, <2>2, <2>4, <2>9
  <2> QED
    BY <2>2, <2>3, <2>10, ArriveKept
<1> QED
  BY <1>2, <1>3, <1>4 DEF do_link

LEMMA MakesAre == Makes = {"creat", "mkdir", "mknod"}
  BY DEF Makes, TypeMade

LEMMA LookKept ==
  ASSUME Exact, NEW p \in Procs, Look(p)
  PROVE  Exact'
<1>1. PICK r : r = proc[p]
  OBVIOUS
<1>2. PICK l : l = s5fs_lookup(fs, r.at, Name(r))
  OBVIOUS
<1>3. proc[p].pc = "look"
  BY DEF Look, Quiet, Inside
<1>4. /\ Busy(r) /\ SameFiles(p, r) /\ DOMAIN r = Shape /\ r.at \in Inodes /\ r.tgt = None
      /\ r.src \in Inodes \cup {None} /\ (r.src # None => r.op = "link") /\ r.op \in Ops
      /\ r.op # "rmdir"
  BY <1>1, <1>3, Calling DEF Locking
<1>5. Same(fs, fs) /\ FsOK(fs)
  BY FsSame
<1>6. \A s : Same(fs, s) => Has(p, s, r.cwd, r.at, None, r.src)
  BY <1>1, <1>3, <1>4, HasStart DEF Locking
<1>7. ASSUME l.i \in Inodes, Got(fs, l.s, l.i), LookHit(p, r, l.s, l.i)
      PROVE  Exact'
  <2>1. Has(p, fs, r.cwd, r.at, r.src, None)
    <3>1. Has(p, fs, r.cwd, r.at, None, r.src)
      BY <1>5, <1>6
    <3> QED
      BY <3>1, HasMove
  <2>2. Has(p, l.s, l.i, r.cwd, r.at, r.src)
    BY <1>7, <2>1, HasGot
  <2>3. Has(p, l.s, r.at, l.i, r.cwd, r.src)
    BY <2>2, HasMove
  <2>4. CASE r.op = "link"
    <3>1. do_link(p, r, l.s, l.i)
      BY <1>7, <2>4 DEF LookHit, Opens
    <3> QED
      BY <1>4, <1>7, <2>3, <2>4, <3>1, LinkHitKept
  <2>5. CASE r.op # "link"
    <3>1. r.src = None /\ Has(p, l.s, r.at, l.i, r.cwd, None)
      BY <1>4, <2>3, <2>5
    <3>2. CASE r.op \in Opens
      <4>1. OpenHit(p, r, l.s, l.i)
        BY <1>7, <3>2 DEF LookHit, Opens
      <4> QED
        BY <1>4, <1>7, <3>1, <3>2, <4>1, OpenHitKept
    <3>3. CASE r.op \in {"mkdir", "mknod"}
      <4>1. Fail(p, r, vput(vput(l.s, l.i), r.at))
        BY <1>7, <3>3 DEF LookHit, Opens, ExistsHit
      <4> QED
        BY <1>4, <1>7, <3>1, <4>1, BothFail
    <3>4. CASE r.op = "unlink"
      <4>1. do_unlink(p, r, l.s, l.i)
        BY <1>7, <3>4 DEF LookHit, Opens
      <4> QED
        BY <1>4, <1>7, <3>1, <3>4, <4>1, UnlinkHitKept
    <3>5. CASE r.op = "chdir"
      <4>1. do_chdir(p, r, l.s, l.i)
        BY <1>7, <3>5 DEF LookHit, Opens
      <4> QED
        BY <1>4, <1>7, <3>1, <3>5, <4>1, ChdirHitKept
    <3> QED
      BY <1>4, <2>5, <3>2, <3>3, <3>4, <3>5, MakesAre DEF Ops, Opens
  <2> QED
    BY <2>4, <2>5
<1>8. ASSUME Same(fs, l.s), r.op \in Makes, Go(p, [r EXCEPT !.pc = "make"], l.s)
      PROVE  Exact'
  <2>1. PICK x : x = [r EXCEPT !.pc = "make"]
    OBVIOUS
  <2>2. /\ Busy(x) /\ x.pc = "make" /\ x.op = r.op /\ x.at = r.at /\ x.tgt = r.tgt /\ x.src = r.src
        /\ x.cwd = r.cwd /\ SameFiles(p, x)
    BY <1>4, <2>1, BusyPc
  <2>3. ProcOK(x) /\ x.pc \notin Locking
    BY <1>4, <1>8, <2>2 DEF ProcOK, Locking, Making
  <2>4. Has(p, l.s, x.cwd, x.at, x.tgt, x.src)
    BY <1>4, <1>6, <1>8, <2>2
  <2> QED
    BY <1>8, <2>1, <2>2, <2>3, <2>4, GoKept
<1>9. ASSUME Same(fs, l.s), Fail(p, r, vput(vput_if(l.s, r.src), r.at))
      PROVE  Exact'
  <2>1. Has(p, l.s, r.cwd, r.at, None, r.src)
    BY <1>6, <1>9
  <2>2. Has(p, l.s, r.src, r.at, r.cwd, None)
    <3>1. Has(p, l.s, r.src, r.cwd, r.at, None)
      BY <2>1, HasMove
    <3> QED
      BY <3>1, HasMove
  <2>3. Has(p, vput_if(l.s, r.src), r.at, r.cwd, None, None)
    BY <1>4, <2>2, HasPut
  <2>4. Has(p, vput(vput_if(l.s, r.src), r.at), r.cwd, None, None, None)
    BY <1>4, <2>3, HasPut
  <2> QED
    BY <1>4, <1>9, <2>4, FailKept
<1>10. \/ l.ret = "ENOENT" /\ Same(fs, l.s)
       \/ l.ret = "panic"
       \/ l.ret = "ok" /\ l.i \in Inodes /\ Got(fs, l.s, l.i)
  BY <1>2, <1>4, <1>5, LookupGot
<1>11. /\ l.ret = "ok" => LookHit(p, r, l.s, l.i)
       /\ l.ret = "panic" => Panic("free")
       /\ l.ret = "ENOENT" /\ r.op \in Makes => Go(p, [r EXCEPT !.pc = "make"], l.s)
       /\ l.ret = "ENOENT" /\ r.op \notin Makes => Fail(p, r, vput(vput_if(l.s, r.src), r.at))
  BY <1>1, <1>2 DEF Look
<1> QED
  BY <1>7, <1>8, <1>9, <1>10, <1>11, PanicKept

LEMMA MakeKept ==
  ASSUME Exact, NEW p \in Procs, Make(p)
  PROVE  Exact'
<1>1. PICK r : r = proc[p]
  OBVIOUS
<1>2. PICK l : l = s5fs_lookup(fs, r.at, Name(r))
  OBVIOUS
<1>3. proc[p].pc = "make"
  BY DEF Make, Quiet, Inside
<1>4. Busy(r) /\ SameFiles(p, r) /\ r.at \in Inodes /\ r.tgt = None /\ r.op \in Makes
  BY <1>1, <1>3, Calling DEF Locking, Making
<1>5. Same(fs, fs) /\ FsOK(fs)
  BY FsSame
<1>6. \A s : Same(fs, s) => Has(p, s, r.cwd, r.at, r.tgt, r.src)
  BY <1>1, <1>3, HasStart DEF Locking
<1>7. ASSUME Same(fs, l.s), Go(p, [r EXCEPT !.pc = "alloc"], l.s)
      PROVE  Exact'
  <2>1. PICK x : x = [r EXCEPT !.pc = "alloc"]
    OBVIOUS
  <2>2. /\ Busy(x) /\ x.pc = "alloc" /\ x.op = r.op /\ x.at = r.at /\ x.tgt = r.tgt /\ x.src = r.src
        /\ x.cwd = r.cwd /\ SameFiles(p, x)
    BY <1>4, <2>1, BusyPc
  <2>3. ProcOK(x) /\ x.pc \notin Locking
    BY <1>4, <2>2 DEF ProcOK, Locking, Making
  <2>4. Has(p, l.s, x.cwd, x.at, x.tgt, x.src)
    BY <1>6, <1>7, <2>2
  <2> QED
    BY <1>7, <2>1, <2>2, <2>3, <2>4, GoKept
<1>8. \/ l.ret = "ENOENT" /\ Same(fs, l.s)
      \/ l.ret = "panic"
      \/ l.ret = "ok" /\ l.i \in Inodes /\ Got(fs, l.s, l.i)
  BY <1>2, <1>4, <1>5, LookupGot
<1>9. /\ l.ret = "ok" => Panic("assert")
      /\ l.ret = "panic" => Panic("free")
      /\ l.ret = "ENOENT" => Go(p, [r EXCEPT !.pc = "alloc"], l.s)
  BY <1>1, <1>2 DEF Make
<1> QED
  BY <1>7, <1>8, <1>9, PanicKept

LEMMA AllocKept ==
  ASSUME Exact, NEW p \in Procs, Alloc(p)
  PROVE  Exact'
<1>1. PICK r : r = proc[p]
  OBVIOUS
<1>2. PICK a : a = s5_alloc_inode(fs, TypeMade[r.op])
  OBVIOUS
<1>3. proc[p].pc = "alloc" /\ fs.vn[r.at].lock = None
  BY <1>1 DEF Alloc, Inside, Unlocked
<1>4. /\ Busy(r) /\ SameFiles(p, r) /\ r.at \in Inodes /\ r.tgt = None /\ r.op \in Makes
      /\ r.src = None /\ DOMAIN r = Shape
  <2>1. /\ Busy(r) /\ SameFiles(p, r) /\ r.at \in Inodes /\ r.tgt = None /\ r.op \in Makes
        /\ (r.src # None => r.op = "link") /\ DOMAIN r = Shape
    BY <1>1, <1>3, Calling DEF Locking, Making
  <2> QED
    BY <2>1, MakesAre
<1>5. Same(fs, fs) /\ FsOK(fs)
  BY FsSame
<1>6. \A s : Same(fs, s) => Has(p, s, r.cwd, r.at, None, None)
  BY <1>1, <1>3, <1>4, HasStart DEF Locking
<1>7. Same(fs, a.s) /\ (a.i # None => a.i \in Inodes)
  BY <1>2, <1>5, AllocSame
<1>8. CASE a.i = None
  <2>1. Fail(p, r, vput(fs, r.at))
    BY <1>1, <1>2, <1>8 DEF Alloc
  <2>2. Has(p, fs, r.at, r.cwd, None, None)
    <3>1. Has(p, fs, r.cwd, r.at, None, None)
      BY <1>5, <1>6
    <3> QED
      BY <3>1, HasMove
  <2>3. Has(p, vput(fs, r.at), r.cwd, None, None, None)
    BY <1>4, <2>2, HasPut
  <2> QED
    BY <1>4, <2>1, <2>3, FailKept
<1>9. CASE a.i # None
  <2>1. PICK n : n = fs.inode[r.at].link
    OBVIOUS
  <2>2. PICK x : x = [r EXCEPT !.pc = "link", !.tgt = a.i, !.mark = n]
    OBVIOUS
  <2>3. PICK s : s = vget(a.s, a.i)
    OBVIOUS
  <2>4. Go(p, x, Lock(s, r.at, p))
    BY <1>1, <1>2, <1>9, <2>1, <2>2, <2>3 DEF Alloc
  <2>5. /\ DOMAIN x = Shape /\ x.pc = "link" /\ x.op = r.op /\ x.at = r.at /\ x.tgt = a.i /\ x.src = r.src
        /\ x.cwd = r.cwd /\ x.fd = r.fd /\ x.fds = r.fds /\ x.file = r.file
    BY <1>4, <2>2 DEF Shape
  <2>6. Busy(x) /\ SameFiles(p, x)
    BY <1>4, <2>5, BusyLike
  <2>7. ProcOK(x) /\ x.pc \in Locking
    BY <1>4, <1>7, <1>9, <2>5, <2>6 DEF ProcOK, Locking, Making
  <2>8. Has(p, s, a.i, r.cwd, r.at, None)
    <3>1. Has(p, a.s, r.cwd, r.at, None, None) /\ FsOK(a.s)
      BY <1>6, <1>7 DEF Same
    <3>2. Got(a.s, s, a.i)
      BY <1>7, <1>9, <2>3, <3>1, VgetGot
    <3> QED
      BY <3>1, <3>2, HasGot
  <2>9. Has(p, s, x.cwd, x.at, x.tgt, x.src)
    BY <1>4, <2>5, <2>8, HasMove
  <2>10. PICK t : t = Lock(s, x.at, p)
    OBVIOUS
  <2>11. Go(p, x, t) /\ x.at \in Inodes /\ fs.vn[x.at].lock = None
    BY <1>3, <1>4, <2>4, <2>5, <2>10
  <2> QED
    BY <2>6, <2>7, <2>9, <2>10, <2>11, LockKept
<1> QED
  BY <1>8, <1>9

\* The mutex is released and the references of the call are dropped.
LEMMA EndKept ==
  ASSUME Exact, NEW p \in Procs, NEW r, r = proc[p], r.pc \in Locking, r.src = None,
         NEW s, Same(fs, s), MakeFails(p, r, s) \/ (MakeEnds(p, r, s) /\ r.op \notin Opens)
  PROVE  Exact'
<1>1. r.pc # "idle"
  BY DEF Locking
<1>2. /\ Busy(r) /\ SameFiles(p, r) /\ r.at \in Inodes /\ r.tgt \in Inodes /\ r.cwd \in Inodes
      /\ DOMAIN r = Shape
  BY <1>1, Calling
<1>3. PICK t : t = Unlock(s, r.at)
  OBVIOUS
<1>4. Has(p, t, r.cwd, r.at, r.tgt, None)
  BY <1>2, <1>3, HasUnlocked
<1>5. Has(p, t, r.at, r.tgt, r.cwd, None)
  BY <1>4, HasMove
<1>6. Has(p, vput(vput(t, r.tgt), r.at), r.cwd, None, None, None)
  BY <1>2, <1>5, PutBoth
<1>7. CASE MakeFails(p, r, s)
  <2>1. Fail(p, r, vput(vput(t, r.tgt), r.at))
    BY <1>3, <1>7 DEF MakeFails
  <2> QED
    BY <1>2, <1>6, <2>1, FailKept
<1>8. CASE MakeEnds(p, r, s) /\ r.op \notin Opens
  <2>1. Finish(p, r, vput(vput(t, r.tgt), r.at))
    BY <1>3, <1>8 DEF MakeEnds
  <2>2. FilesOK(r, None)
    BY <1>2, <1>8 DEF Busy
  <2> QED
    BY <1>2, <1>6, <2>1, <2>2, FinishKept
<1> QED
  BY <1>7, <1>8

LEMMA LinkNameKept ==
  ASSUME Exact, NEW p \in Procs, LinkName(p)
  PROVE  Exact'
<1>1. PICK r : r = proc[p]
  OBVIOUS
<1>2. PICK s : s = s5_link(fs, r.at, r.tgt, Name(r))
  OBVIOUS
<1>3. r.pc = "link"
  BY <1>1 DEF LinkName, Inside
<1>4. /\ Busy(r) /\ SameFiles(p, r) /\ r.at \in Inodes /\ r.tgt \in Inodes /\ r.cwd \in Inodes
      /\ r.op \in Makes /\ r.src = None /\ DOMAIN r = Shape /\ r.pc \in Locking
  <2>1. /\ Busy(r) /\ SameFiles(p, r) /\ r.at \in Inodes /\ r.tgt \in Inodes /\ r.cwd \in Inodes
        /\ r.op \in Makes /\ (r.src # None => r.op = "link") /\ DOMAIN r = Shape /\ r.pc \in Locking
    BY <1>1, <1>3, Calling DEF Locking, Making
  <2> QED
    BY <2>1, MakesAre
<1>5. FsOK(fs) /\ Same(fs, s) /\ Same(fs, ReadPages(fs, r.at))
  <2>1. FsOK(fs)
    BY FsSame
  <2>2. Same(fs, s)
    BY <1>2, <1>4, <2>1, LinkSame
  <2> QED
    BY <1>4, <2>1, <2>2, PagesSame
<1>6. CASE MakeFails(p, r, ReadPages(fs, r.at))
  BY <1>1, <1>4, <1>5, <1>6, EndKept
<1>7. CASE r.op = "mkdir" /\ Go(p, [r EXCEPT !.pc = "dot"], s)
  <2>1. PICK x : x = [r EXCEPT !.pc = "dot"]
    OBVIOUS
  <2>2. /\ Busy(x) /\ x.pc = "dot" /\ x.op = r.op /\ x.at = r.at /\ x.tgt = r.tgt /\ x.src = r.src
        /\ x.cwd = r.cwd /\ SameFiles(p, x)
    BY <1>4, <2>1, BusyPc
  <2>3. ProcOK(x) /\ x.pc \in Locking
    BY <1>4, <1>7, <2>2 DEF ProcOK, Locking, Making
  <2>4. Go(p, x, s)
    BY <1>7, <2>1
  <2> QED
    BY <1>1, <1>4, <1>5, <2>2, <2>3, <2>4, OnKept
<1>8. CASE r.op = "creat" /\ Opened(p, r, vput(Unlock(s, r.at), r.at), r.tgt)
  <2>1. PICK t : t = Unlock(s, r.at)
    OBVIOUS
  <2>2. Has(p, t, r.cwd, r.at, r.tgt, None)
    BY <1>1, <1>4, <1>5, <2>1, HasUnlocked
  <2>3. Has(p, t, r.at, r.tgt, r.cwd, None)
    BY <2>2, HasMove
  <2>4. Has(p, vput(t, r.at), r.tgt, r.cwd, None, None)
    BY <1>4, <2>3, HasPut
  <2>5. r.op \in Opens /\ Opened(p, r, vput(t, r.at), r.tgt)
    BY <1>8, <2>1 DEF Opens
  <2> QED
    BY <1>4, <2>4, <2>5, OpenedKept
<1>9. CASE r.op = "mknod" /\ MakeEnds(p, r, s)
  <2>1. r.op \notin Opens
    BY <1>9 DEF Opens
  <2> QED
    BY <1>1, <1>4, <1>5, <1>9, <2>1, EndKept
<1>10. \/ MakeFails(p, r, ReadPages(fs, r.at))
       \/ /\ r.op = "mkdir" => Go(p, [r EXCEPT !.pc = "dot"], s)
          /\ r.op # "mkdir" => \/ Panic("assert")
                               \/ r.op = "creat" /\ Opened(p, r, vput(Unlock(s, r.at), r.at), r.tgt)
                               \/ r.op = "mknod" /\ MakeEnds(p, r, s)
  BY <1>1, <1>2, <1>4, MakesAre DEF LinkName
<1> QED
  BY <1>6, <1>7, <1>8, <1>9, <1>10, PanicKept

LEMMA DotKept ==
  ASSUME Exact, NEW p \in Procs, Dot(p) \/ DotDot(p)
  PROVE  Exact'
<1>1. PICK r : r = proc[p]
  OBVIOUS
<1>2. r.pc \in {"dot", "dotdot"}
  BY <1>1 DEF Dot, DotDot, Quiet, Inside
<1>3. /\ Busy(r) /\ SameFiles(p, r) /\ r.at \in Inodes /\ r.tgt \in Inodes
      /\ r.op \in Makes /\ r.op = "mkdir" /\ r.src = None /\ DOMAIN r = Shape /\ r.pc \in Locking
  BY <1>1, <1>2, Calling, MakesAre DEF Locking, Making
<1>4. FsOK(fs) /\ Same(fs, ReadPages(fs, r.tgt))
  BY <1>3, FsSame, PagesSame
<1>5. CASE MakeFails(p, r, ReadPages(fs, r.tgt))
  BY <1>1, <1>3, <1>4, <1>5, EndKept
<1>6. ASSUME NEW n, Go(p, [r EXCEPT !.pc = "dotdot", !.blk = n], s5_link(fs, r.tgt, r.tgt, "."))
      PROVE  Exact'
  <2>1. PICK x : x = [r EXCEPT !.pc = "dotdot", !.blk = n]
    OBVIOUS
  <2>2. PICK s : s = s5_link(fs, r.tgt, r.tgt, ".")
    OBVIOUS
  <2>3. Same(fs, s)
    BY <1>3, <1>4, <2>2, LinkSame
  <2>4. /\ DOMAIN x = Shape /\ x.pc = "dotdot" /\ x.op = r.op /\ x.at = r.at /\ x.tgt = r.tgt
        /\ x.src = r.src /\ x.cwd = r.cwd /\ x.fd = r.fd /\ x.fds = r.fds /\ x.file = r.file
    BY <1>3, <2>1 DEF Shape
  <2>5. Busy(x) /\ SameFiles(p, x)
    BY <1>3, <2>4, BusyLike
  <2>6. ProcOK(x) /\ x.pc \in Locking
    BY <1>3, <2>4, <2>5 DEF ProcOK, Locking, Making
  <2>7. Go(p, x, s)
    BY <1>6, <2>1, <2>2
  <2> QED
    BY <1>1, <1>3, <2>3, <2>4, <2>5, <2>6, <2>7, OnKept
<1>7. CASE Dot(p)
  <2>1. \/ MakeFails(p, r, ReadPages(fs, r.tgt))
        \/ \E n : Go(p, [r EXCEPT !.pc = "dotdot", !.blk = n], s5_link(fs, r.tgt, r.tgt, "."))
    BY <1>1, <1>7 DEF Dot
  <2> QED
    BY <1>5, <1>6, <2>1
<1>8. CASE DotDot(p)
  <2>1. PICK s : s = s5_link(fs, r.tgt, r.at, "..")
    OBVIOUS
  <2>2. Same(fs, s)
    BY <1>3, <1>4, <2>1, LinkSame
  <2>3. CASE MakeEnds(p, r, s)
    <3>1. r.op \notin Opens
      BY <1>3 DEF Opens
    <3> QED
      BY <1>1, <1>3, <2>2, <2>3, <3>1, EndKept
  <2>4. \/ MakeFails(p, r, ReadPages(fs, r.tgt))
        \/ MakeEnds(p, r, s)
        \/ Panic("assert")
    BY <1>1, <1>8, <2>1 DEF DotDot
  <2> QED
    BY <1>5, <2>3, <2>4, PanicKept
<1> QED
  BY <1>7, <1>8

LEMMA RmdirKept ==
  ASSUME Exact, NEW p \in Procs, Rmdir(p)
  PROVE  Exact'
<1>1. PICK r : r = proc[p]
  OBVIOUS
<1>2. PICK l : l = s5fs_lookup(fs, r.at, Name(r))
  OBVIOUS
<1>3. proc[p].pc = "rmdir" /\ fs.vn[r.at].lock = None
  BY <1>1 DEF Rmdir, Quiet, Inside, Unlocked
<1>4. /\ Busy(r) /\ SameFiles(p, r) /\ DOMAIN r = Shape /\ r.at \in Inodes /\ r.tgt = None
      /\ r.src = None /\ r.op = "rmdir"
  BY <1>1, <1>3, Calling DEF Locking
<1>5. Same(fs, fs) /\ FsOK(fs)
  BY FsSame
<1>6. \A s : Same(fs, s) => Has(p, s, r.cwd, r.at, None, None)
  BY <1>1, <1>3, <1>4, HasStart DEF Locking
<1>7. ASSUME l.i \in Inodes, Got(fs, l.s, l.i), RmdirTarget(p, r, l.s, l.i)
      PROVE  Exact'
  <2>1. Has(p, fs, r.cwd, r.at, None, None)
    BY <1>5, <1>6
  <2>2. Has(p, l.s, l.i, r.cwd, r.at, None)
    BY <1>7, <2>1, HasGot
  <2>3. Has(p, l.s, r.cwd, r.at, l.i, None)
    BY <2>2, HasMove
  <2>4. Has(p, l.s, r.at, l.i, r.cwd, None)
    BY <2>2, HasMove
  <2>5. CASE Fail(p, r, vput(vput(l.s, l.i), r.at))
    BY <1>4, <1>7, <2>4, <2>5, BothFail
  <2>6. CASE Go(p, [r EXCEPT !.pc = "rmdir2", !.tgt = l.i], Lock(l.s, r.at, p))
    <3>1. PICK x : x = [r EXCEPT !.pc = "rmdir2", !.tgt = l.i]
      OBVIOUS
    <3>2. /\ DOMAIN x = Shape /\ x.pc = "rmdir2" /\ x.op = r.op /\ x.at = r.at /\ x.tgt = l.i
          /\ x.src = r.src /\ x.cwd = r.cwd /\ x.fd = r.fd /\ x.fds = r.fds /\ x.file = r.file
      BY <1>4, <3>1 DEF Shape
    <3>3. Busy(x) /\ SameFiles(p, x)
      BY <1>4, <3>2, BusyLike
    <3>4. ProcOK(x) /\ x.pc \in Locking
      BY <1>4, <1>7, <3>2, <3>3 DEF ProcOK, Locking, Making
    <3>5. Has(p, l.s, x.cwd, x.at, x.tgt, x.src)
      BY <1>4, <2>3, <3>2
    <3>6. PICK t : t = Lock(l.s, x.at, p)
      OBVIOUS
    <3>7. Go(p, x, t) /\ x.at \in Inodes /\ fs.vn[x.at].lock = None
      BY <1>3, <1>4, <2>6, <3>1, <3>2, <3>6
    <3> QED
      BY <3>3, <3>4, <3>5, <3>6, <3>7, LockKept
  <2> QED
    BY <1>7, <2>5, <2>6 DEF RmdirTarget
<1>8. ASSUME Same(fs, l.s), Fail(p, r, vput(l.s, r.at))
      PROVE  Exact'
  <2>1. Has(p, l.s, r.cwd, r.at, None, None)
    BY <1>6, <1>8
  <2>2. Has(p, l.s, r.at, r.cwd, None, None)
    BY <2>1, HasMove
  <2>3. Has(p, vput(l.s, r.at), r.cwd, None, None, None)
    BY <1>4, <2>2, HasPut
  <2> QED
    BY <1>4, <1>8, <2>3, FailKept
<1>9. \/ l.ret = "ENOENT" /\ Same(fs, l.s)
      \/ l.ret = "panic"
      \/ l.ret = "ok" /\ l.i \in Inodes /\ Got(fs, l.s, l.i)
  BY <1>2, <1>4, <1>5, LookupGot
<1>10. /\ l.ret = "ENOENT" => Fail(p, r, vput(l.s, r.at))
       /\ l.ret = "panic" => Panic("free")
       /\ l.ret = "ok" => RmdirTarget(p, r, l.s, l.i)
  BY <1>1, <1>2 DEF Rmdir
<1> QED
  BY <1>7, <1>8, <1>9, <1>10, PanicKept

\* A mutex that somebody has is that of a vnode with a reference.
LEMMA LockedReferenced ==
  ASSUME Exact, NEW j \in Inodes, fs.vn[j].lock # None
  PROVE  fs.vn[j].refs > 0
<1>1. PICK q \in Procs : fs.vn[j].lock = q
  BY VnodeType DEF Exact
<1>2. proc[q].at = j
  BY <1>1 DEF Exact, HeldBy
<1>3. 1 \in FileIds
  BY Numbers DEF FileIds
<1>4. fs.vn[j].refs \in Nat /\ fs.vn[j].refs >= On(Root, j) + Mine(proc[q], 1, j) + Other(fs, q, j)
  BY <1>3, Shares
<1>5. /\ Mine(proc[q], 1, j) = On(proc[q].cwd, j) + On(proc[q].at, j) + On(proc[q].tgt, j)
                                + On(proc[q].src, j) + On(proc[q].file[1].v, j)
      /\ On(proc[q].at, j) = 1
  BY <1>2 DEF Mine, On
<1>6. /\ On(proc[q].cwd, j) \in {0, 1} /\ On(proc[q].tgt, j) \in {0, 1} /\ On(Root, j) \in {0, 1}
      /\ On(proc[q].src, j) \in {0, 1} /\ On(proc[q].file[1].v, j) \in {0, 1} /\ Other(fs, q, j) \in {0, 1}
  BY OnInt, OtherInt
<1> QED
  BY <1>4, <1>5, <1>6

\* The directory loses an entry and the link of its "..".
LEMMA RmdirSame ==
  ASSUME Exact, NEW d \in Inodes, NEW name, At(fs, d, name) # {},
         NEW t, t = s5_remove_dirent(fs, d, name)
  PROVE  Same(fs, [t EXCEPT !.inode[d].link = @ - 1])
<1>1. FsOK(fs) /\ Same(fs, t)
  BY FsSame, LockedReferenced, RemoveSame
<1>2. PICK m : m = [t.inode EXCEPT ![d].link = @ - 1]
  OBVIOUS
<1>3. PICK s : s = [t EXCEPT !.inode = m]
  OBVIOUS
<1>4. [t EXCEPT !.inode[d].link = @ - 1] = s
  BY <1>2, <1>3
<1>5. FsOK(t) /\ DOMAIN t.inode = Inodes /\ \A i \in Inodes : InodeOK(t.inode[i])
  BY <1>1 DEF Same, FsOK
<1>6. DOMAIN m = Inodes /\ \A i \in Inodes : InodeOK(m[i])
  <2>1. PICK n : n = t.inode[d].link - 1
    OBVIOUS
  <2>2. m = [t.inode EXCEPT ![d].link = n]
    BY <1>2, <2>1
  <2> QED
    BY <1>5, <2>2, LinkSet
<1>7. FsOK(s) /\ s.vn = t.vn
  BY <1>3, <1>5, <1>6, InodesSame
<1> QED
  BY <1>1, <1>4, <1>7 DEF Same

LEMMA Rmdir2Kept ==
  ASSUME Exact, NEW p \in Procs, Rmdir2(p)
  PROVE  Exact'
<1>1. PICK r : r = proc[p]
  OBVIOUS
<1>2. r.pc = "rmdir2"
  BY <1>1 DEF Rmdir2, Inside
<1>3. /\ Busy(r) /\ r.at \in Inodes /\ r.src = None /\ r.op = "rmdir" /\ r.pc \in Locking
  BY <1>1, <1>2, Calling DEF Locking
<1>4. FsOK(fs) /\ Same(fs, fs)
  BY FsSame
<1>5. CASE At(fs, r.at, Name(r)) = {}
  <2>1. MakeFails(p, r, fs)
    BY <1>1, <1>5 DEF Rmdir2
  <2> QED
    BY <1>1, <1>3, <1>4, <2>1, EndKept
<1>6. CASE At(fs, r.at, Name(r)) # {}
  <2>1. PICK t : t = s5_remove_dirent(fs, r.at, Name(r))
    OBVIOUS
  <2>2. PICK s : s = [t EXCEPT !.inode[r.at].link = @ - 1]
    OBVIOUS
  <2>3. MakeEnds(p, r, s)
    BY <1>1, <1>6, <2>1, <2>2 DEF Rmdir2
  <2>4. Same(fs, s)
    BY <1>3, <1>6, <2>1, <2>2, RmdirSame
  <2>5. r.op \notin Opens
    BY <1>3 DEF Opens
  <2> QED
    BY <1>1, <1>3, <2>3, <2>4, <2>5, EndKept
<1> QED
  BY <1>5, <1>6

LEMMA UnlinkKept ==
  ASSUME Exact, NEW p \in Procs, Unlink(p)
  PROVE  Exact'
<1>1. PICK r : r = proc[p]
  OBVIOUS
<1>2. PICK s : s = s5_remove_dirent(fs, r.at, Name(r))
  OBVIOUS
<1>3. proc[p].pc = "unlink"
  BY DEF Unlink, Inside
<1>4. /\ Busy(r) /\ SameFiles(p, r) /\ DOMAIN r = Shape /\ r.at \in Inodes /\ r.tgt \in Inodes
      /\ r.src = None /\ r.op = "unlink" /\ r.cwd \in Inodes
  BY <1>1, <1>3, Calling DEF Locking
<1>5. FsOK(fs) /\ Same(fs, ReadPages(fs, r.at))
  BY <1>4, FsSame, PagesSame
<1>6. ASSUME NEW t, Same(fs, t)
      PROVE  Has(p, vput(vput(t, r.at), r.tgt), r.cwd, None, None, None)
  <2>1. Has(p, t, r.cwd, r.at, r.tgt, None)
    BY <1>1, <1>3, <1>4, <1>6, HasStart DEF Locking
  <2>2. Has(p, t, r.at, r.tgt, r.cwd, None)
    BY <2>1, HasMove
  <2> QED
    BY <1>4, <2>2, PutBoth
<1>7. CASE Fail(p, r, vput(vput(ReadPages(fs, r.at), r.at), r.tgt))
  BY <1>4, <1>5, <1>6, <1>7, FailKept
<1>8. CASE At(fs, r.at, Name(r)) # {} /\ Finish(p, r, vput(vput(s, r.at), r.tgt))
  <2>1. Same(fs, s)
    BY <1>2, <1>4, <1>5, <1>8, LockedReferenced, RemoveSame
  <2>2. Has(p, vput(vput(s, r.at), r.tgt), r.cwd, None, None, None)
    BY <1>6, <2>1
  <2>3. FilesOK(r, None)
    BY <1>4 DEF Busy, Opens
  <2> QED
    BY <1>4, <1>8, <2>2, <2>3, FinishKept
<1>9. \/ Fail(p, r, vput(vput(ReadPages(fs, r.at), r.at), r.tgt))
      \/ Panic("free")
      \/ At(fs, r.at, Name(r)) # {} /\ Finish(p, r, vput(vput(s, r.at), r.tgt))
  BY <1>1, <1>2 DEF Unlink
<1> QED
  BY <1>7, <1>8, <1>9, PanicKept

\* A call with descriptors: the last reference to file g takes that to its
\* vnode along.
LEMMA FileStep ==
  ASSUME Exact, NEW p \in Procs, proc[p].pc = "idle", NEW g \in FileIds, NEW v \in Inodes \cup {None},
         NEW x, DOMAIN x = Shape, FilesOK(x, None), x.cwd = proc[p].cwd,
         \A f \in FileIds : f # g => x.file[f].v = proc[p].file[f].v,
         \A i \in Inodes : On(x.file[g].v, i) = On(proc[p].file[g].v, i) - On(v, i),
         Finish(p, x, vput_if(fs, v))
  PROVE  Exact'
<1>1. /\ proc[p].cwd \in Inodes /\ proc[p].at = None /\ proc[p].tgt = None /\ proc[p].src = None
      /\ \A i \in Inodes : ~HeldBy(proc[p], i)
  BY Rests DEF HeldBy
<1>2. FsOK(fs)
  BY FsSame
<1>3. Covers(fs, p, v, None, None, None)
  <2> SUFFICES ASSUME NEW i \in Inodes
               PROVE  fs.vn[i].refs >= On(v, i) + On(None, i) + On(None, i) + On(None, i) + Other(fs, p, i)
    BY DEF Covers
  <2>1. fs.vn[i].refs \in Nat /\ fs.vn[i].refs >= On(Root, i) + Mine(proc[p], g, i) + Other(fs, p, i)
    BY Shares
  <2>2. Mine(proc[p], g, i) = On(proc[p].cwd, i) + On(proc[p].at, i) + On(proc[p].tgt, i)
                              + On(proc[p].src, i) + On(proc[p].file[g].v, i)
    BY DEF Mine
  <2>3. /\ On(proc[p].cwd, i) \in {0, 1} /\ On(proc[p].tgt, i) \in {0, 1} /\ On(Root, i) \in {0, 1}
        /\ On(proc[p].src, i) \in {0, 1} /\ On(proc[p].at, i) \in {0, 1}
        /\ On(proc[p].file[g].v, i) \in {0, 1} /\ Other(fs, p, i) \in {0, 1}
        /\ On(x.file[g].v, i) \in {0, 1} /\ On(v, i) \in {0, 1} /\ On(None, i) = 0
    BY OnInt, OtherInt, OnNone
  <2>4. On(x.file[g].v, i) = On(proc[p].file[g].v, i) - On(v, i)
    OBVIOUS
  <2> QED
    BY <2>1, <2>2, <2>3, <2>4
<1>4. v # None => fs.vn[v].lock # p
  BY <1>1 DEF Exact
<1>5. PICK s : s = vput_if(fs, v)
  OBVIOUS
<1>6. Put(fs, s, v) /\ FsOK(s)
  BY <1>2, <1>3, <1>4, <1>5, PutIf
<1>7. PICK y : y = Idle(x)
  OBVIOUS
<1>8. /\ ProcOK(y) /\ y.file = x.file /\ (\A i : ~HeldBy(y, i))
      /\ \A i \in Inodes : Holds(y, i) = On(x.cwd, i)
  BY <1>1, <1>7, IdleRests
<1>9. Go(p, y, s)
  BY <1>5, <1>7 DEF Finish
<1>10. ASSUME NEW i \in Inodes
       PROVE  s.vn[i].refs = fs.vn[i].refs - Mine(proc[p], g, i) + Mine(y, g, i)
  <2>1. s.vn[i].refs = fs.vn[i].refs - On(v, i)
    BY <1>6 DEF Put
  <2>2. Mine(proc[p], g, i) = On(proc[p].cwd, i) + On(None, i) + On(None, i) + On(None, i)
                              + On(proc[p].file[g].v, i)
    BY <1>1 DEF Mine
  <2>3. Mine(y, g, i) = Holds(y, i) + On(y.file[g].v, i)
    BY DEF Mine, Holds
  <2>4. Mine(y, g, i) = On(proc[p].cwd, i) + On(x.file[g].v, i)
    BY <1>8, <2>3
  <2>5. On(x.file[g].v, i) = On(proc[p].file[g].v, i) - On(v, i)
    OBVIOUS
  <2>6. /\ On(proc[p].cwd, i) \in Int /\ On(None, i) = 0 /\ On(v, i) \in Int
        /\ On(proc[p].file[g].v, i) \in Int /\ fs.vn[i].refs \in Int
    BY OnInt, OnNone, HasNatural
  <2> QED
    BY <2>1, <2>2, <2>4, <2>5, <2>6
<1>11. \A i \in Inodes : s.vn[i].lock = fs.vn[i].lock
  BY <1>6 DEF Put
<1>12. \A f \in FileIds : f # g => y.file[f].v = proc[p].file[f].v
  BY <1>8
<1>13. /\ \A i \in Inodes : HeldBy(y, i) => s.vn[i].lock = p /\ fs.vn[i].lock \in {None, p}
       /\ \A i \in Inodes : ~HeldBy(y, i) =>
            s.vn[i].lock = IF HeldBy(proc[p], i) THEN None ELSE fs.vn[i].lock
  BY <1>1, <1>8, <1>11
<1> QED
  BY <1>6, <1>8, <1>9, <1>10, <1>12, <1>13, StepKept

LEMMA CloseKept ==
  ASSUME Exact, NEW p \in Procs, NEW d \in Fds, do_close(p, d)
  PROVE  Exact'
<1>1. PICK r : r = proc[p]
  OBVIOUS
<1>2. PICK t : t = fput(r, r.fds[d])
  OBVIOUS
<1>3. PICK x : x = [t.r EXCEPT !.fds[d] = 0]
  OBVIOUS
<1>4. r.pc = "idle" /\ r.fds[d] # 0 /\ Finish(p, x, vput_if(fs, t.v))
  BY <1>1, <1>2, <1>3 DEF do_close, Starts, Open
<1>5. DOMAIN r = Shape /\ FilesOK(r, None)
  BY <1>1, <1>4, Rests
<1>6. Closed(r, d, t, x)
  BY <1>2, <1>3, <1>4, <1>5, FputCloses
<1>7. /\ FilesOK(x, None) /\ t.v \in Inodes \cup {None}
      /\ \A f \in FileIds : f # r.fds[d] => x.file[f].v = r.file[f].v
      /\ \A i \in Inodes : On(x.file[r.fds[d]].v, i) = On(r.file[r.fds[d]].v, i) - On(t.v, i)
  <2>1. None \in {None, d}
    OBVIOUS
  <2> QED
    BY <1>4, <1>5, <1>6, <2>1, CloseFile
<1>8. DOMAIN x = Shape /\ x.cwd = r.cwd
  BY <1>6 DEF Closed
<1>9. r.fds[d] \in FileIds
  BY <1>4, <1>5, FileParts
<1> QED
  BY <1>1, <1>4, <1>7, <1>8, <1>9, FileStep

LEMMA FrefFacts ==
  ASSUME NEW r, DOMAIN r = Shape, r.file \in [FileIds -> Files], NEW f \in FileIds,
         NEW x, x = fref(r, f)
  PROVE  /\ DOMAIN x = Shape /\ x.fds = r.fds /\ x.cwd = r.cwd /\ x.file \in [FileIds -> Files]
         /\ \A g \in FileIds : g # f => x.file[g] = r.file[g]
         /\ x.file[f].refs = r.file[f].refs + 1 /\ x.file[f].v = r.file[f].v
         /\ \A z \in Shape \ {"file"} : x[z] = r[z]
<1>1. PICK y : y = [r.file[f] EXCEPT !.refs = @ + 1]
  OBVIOUS
<1>2. r.file[f] \in Files
  OBVIOUS
<1>3. y \in Files /\ y.refs = r.file[f].refs + 1 /\ y.v = r.file[f].v
  BY <1>1, <1>2 DEF Files
<1>4. x.file = [r.file EXCEPT ![f] = y] /\ x.fds = r.fds /\ DOMAIN x = Shape /\ x.cwd = r.cwd
      /\ \A z \in Shape \ {"file"} : x[z] = r[z]
  BY <1>1 DEF Shape, fref
<1> QED
  BY <1>3, <1>4

\* Descriptor e is set to file f: x is what becomes of r.
WithFd(r, e, f) == [r EXCEPT !.fds[e] = f]
FdSet(r, e, f, x) ==
  /\ DOMAIN r = Shape /\ r.fds \in [Fds -> 0 .. NFILES] /\ e \in Fds /\ f \in 0 .. NFILES
  /\ x = WithFd(r, e, f)
HasFd(r, e, f, x) ==
  /\ DOMAIN x = Shape /\ x.cwd = r.cwd /\ x.file = r.file
  /\ x.fds \in [Fds -> 0 .. NFILES] /\ x.fds[e] = f
  /\ \A k \in Fds : k # e => x.fds[k] = r.fds[k]
  /\ \A z \in Shape \ {"fds"} : x[z] = r[z]

LEMMA FdSetFacts ==
  ASSUME NEW r, NEW e, NEW f, NEW x, FdSet(r, e, f, x)
  PROVE  HasFd(r, e, f, x)
  BY DEF FdSet, HasFd, Shape, WithFd

LEMMA DupedFile ==
  ASSUME NEW r, DOMAIN r = Shape, FilesOK(r, None), NEW d \in Fds, r.fds[d] # 0,
         NEW e \in Fds, r.fds[e] = 0, NEW y, y = fref(r, r.fds[d]),
         NEW x, x = WithFd(y, e, r.fds[d])
  PROVE  /\ DOMAIN x = Shape /\ FilesOK(x, None)
         /\ \A f \in FileIds : x.file[f].v = r.file[f].v
         /\ \A z \in Shape \ {"fds", "file"} : x[z] = r[z]
<1>1. PICK f : f = r.fds[d]
  OBVIOUS
<1>2. f \in FileIds /\ r.file[f] \in Files /\ r.file[f].refs \in Nat
  BY <1>1, FileParts
<1>3. r.fds \in [Fds -> 0 .. NFILES] /\ r.file \in [FileIds -> Files] /\ f \in 0 .. NFILES
  BY <1>1 DEF FilesOK
<1>4. /\ DOMAIN y = Shape /\ y.fds = r.fds /\ y.file \in [FileIds -> Files]
      /\ \A g \in FileIds : g # f => y.file[g] = r.file[g]
      /\ y.file[f].refs = r.file[f].refs + 1 /\ y.file[f].v = r.file[f].v
      /\ \A z \in Shape \ {"file"} : y[z] = r[z]
  <2>1. y = fref(r, f)
    BY <1>1
  <2> QED
    BY <1>2, <1>3, <2>1, FrefFacts
<1>5. /\ DOMAIN x = Shape /\ x.file = y.file
      /\ x.fds \in [Fds -> 0 .. NFILES] /\ x.fds[e] = f
      /\ \A k \in Fds : k # e => x.fds[k] = y.fds[k]
      /\ \A z \in Shape \ {"fds"} : x[z] = y[z]
  <2>1. FdSet(y, e, f, x)
    BY <1>1, <1>3, <1>4 DEF FdSet
  <2>2. HasFd(y, e, f, x)
    BY <2>1, FdSetFacts
  <2> QED
    BY <2>2 DEF HasFd
<1>6. /\ x.fds \in [Fds -> 0 .. NFILES] /\ x.fds[e] = r.fds[d]
      /\ (\A k \in Fds : k # e => x.fds[k] = r.fds[k])
      /\ x.file \in [FileIds -> Files]
      /\ \A g \in FileIds : x.file[g].refs = r.file[g].refs + On(r.fds[d], g) /\ x.file[g].v = r.file[g].v
  <2>1. \A g \in FileIds : r.file[g].refs \in Nat /\ On(f, g) = IF g = f THEN 1 ELSE 0
    BY FileParts DEF On
  <2> QED
    BY <1>1, <1>4, <1>5, <2>1
<1>7. FilesOK(x, None) /\ \A g \in FileIds : x.file[g].v = r.file[g].v
  BY <1>6, DupFile
<1> QED
  BY <1>4, <1>5, <1>7

LEMMA DupKept ==
  ASSUME Exact, NEW p \in Procs, NEW d \in Fds, do_dup(p, d)
  PROVE  Exact'
<1>1. PICK r : r = proc[p]
  OBVIOUS
<1>2. PICK e : e = get_empty_fd(r)
  OBVIOUS
<1>3. PICK y, x : y = fref(r, r.fds[d]) /\ x = WithFd(y, e, r.fds[d])
  OBVIOUS
<1>4. r.pc = "idle" /\ r.fds[d] # 0 /\ FdLeft(r) /\ Go(p, x, fs)
  BY <1>1, <1>2, <1>3 DEF do_dup, Starts, Open, WithFd
<1>5. e \in Fds /\ r.fds[e] = 0
  <2>1. PICK S : S = {k \in Fds : r.fds[k] = 0}
    OBVIOUS
  <2>2. S \in SUBSET Nat /\ S # {}
    BY <1>4, <2>1, Numbers DEF Fds, FdLeft
  <2>3. Min(S) \in S
    BY <2>2, LeastOf
  <2> QED
    BY <1>2, <2>1, <2>3 DEF get_empty_fd
<1>6. /\ DOMAIN r = Shape /\ FilesOK(r, None) /\ r.cwd \in Inodes /\ r.at = None /\ r.tgt = None
      /\ r.src = None /\ r.fd = None /\ \A s : Same(fs, s) => Has(p, s, r.cwd, None, None, None)
  BY <1>1, <1>4, Rests
<1>7. /\ DOMAIN x = Shape /\ FilesOK(x, None) /\ (\A f \in FileIds : x.file[f].v = r.file[f].v)
      /\ \A z \in Shape \ {"fds", "file"} : x[z] = r[z]
  BY <1>3, <1>4, <1>5, <1>6, DupedFile
<1>8. /\ x.pc = "idle" /\ x.cwd = r.cwd /\ x.at = None /\ x.tgt = None /\ x.src = None /\ x.fd = None
  BY <1>4, <1>6, <1>7 DEF Shape
<1>9. ProcOK(x) /\ x.pc \notin Locking /\ SameFiles(p, x)
  BY <1>1, <1>6, <1>7, <1>8 DEF ProcOK, Resting, Locking, SameFiles, Shape
<1>10. Has(p, fs, x.cwd, x.at, x.tgt, x.src)
  BY <1>6, <1>8, FsSame
<1> QED
  BY <1>4, <1>9, <1>10, GoKept

LEMMA WriteKept ==
  ASSUME Exact, NEW p \in Procs, NEW d \in Fds, NEW span \in Spans, do_write(p, d, span)
  PROVE  Exact'
<1>1. PICK v : v = proc[p].file[proc[p].fds[d]].v
  OBVIOUS
<1>2. PICK s : s = s5_write_file(fs, v, span[1], span[2])
  OBVIOUS
<1>3. proc[p].pc = "idle" /\ proc[p].fds[d] # 0 /\ Go(p, proc[p], s)
  BY <1>1, <1>2 DEF do_write, Starts, Open
<1>4. /\ FilesOK(proc[p], None) /\ SameFiles(p, proc[p]) /\ proc[p].pc \notin Locking
  BY <1>3, Rests
<1>5. v \in Inodes
  <2>1. d # None
    BY Numbers DEF Fds
  <2> QED
    BY <1>1, <1>3, <1>4, <2>1, FileParts
<1>6. FsOK(fs)
  BY FsSame
<1>7. Same(fs, s)
  BY <1>2, <1>5, <1>6, WriteSame
<1>8. Has(p, s, proc[p].cwd, proc[p].at, proc[p].tgt, proc[p].src)
  BY <1>4, <1>7, HasStart
<1>9. ProcOK(proc[p])
  BY DEF Exact
<1> QED
  BY <1>3, <1>4, <1>8, <1>9, GoKept

LEMMA PageoutKept ==
  ASSUME Exact, NEW i \in Inodes, pageoutd(i)
  PROVE  Exact'
<1>1. fs' = PageOut(fs, i) /\ proc' = proc
  BY DEF pageoutd
<1>2. FsOK(fs)
  BY FsSame
<1>3. Same(fs, PageOut(fs, i))
  BY <1>2, LockedReferenced, PageOutSame
<1>4. Same(fs, fs')
  BY <1>1, <1>3
<1>5. FsOK(fs)'
  BY <1>4 DEF Same, FsOK, VnodeOK, InodeOK, EntriesOK, Vnodes
<1>6. \A p \in Procs : ProcOK(proc[p])' <=> ProcOK(proc[p])
  BY <1>1 DEF ProcOK, Busy, Resting, FilesOK, Files, Count
<1>7. \A j \in Inodes : Owed(j)' = Owed(j)
  BY <1>1 DEF Owed, Count
<1>8. \A j \in Inodes, p \in Procs : HeldBy(proc[p], j)' <=> HeldBy(proc[p], j)
  BY <1>1 DEF HeldBy, Locking
<1>9. \A j \in Inodes : fs'.vn[j].refs = fs.vn[j].refs /\ fs'.vn[j].lock = fs.vn[j].lock
  BY <1>4 DEF Same
<1> QED
  BY <1>1, <1>5, <1>6, <1>7, <1>8, <1>9 DEF Exact

\* fput of file h.
LEMMA FputFacts ==
  ASSUME NEW r, DOMAIN r = Shape, r.file \in [FileIds -> Files], NEW h \in FileIds,
         r.file[h].refs \in Nat \ {0}, NEW t, t = fput(r, h)
  PROVE  /\ DOMAIN t.r = Shape /\ t.r.fds = r.fds /\ t.r.cwd = r.cwd
         /\ t.r.file \in [FileIds -> Files]
         /\ \A g \in FileIds : g # h => t.r.file[g] = r.file[g]
         /\ t.r.file[h].refs = r.file[h].refs - 1
         /\ \/ r.file[h].refs > 1 /\ t.r.file[h].v = r.file[h].v /\ t.v = None
            \/ r.file[h].refs = 1 /\ t.r.file[h].v = None /\ t.v = r.file[h].v
<1>1. CASE r.file[h].refs > 1
  <2>1. PICK y : y = [r.file[h] EXCEPT !.refs = @ - 1]
    OBVIOUS
  <2>2. y \in Files /\ y.refs = r.file[h].refs - 1 /\ y.v = r.file[h].v
    BY <1>1, <2>1 DEF Files
  <2>3. t.r = [r EXCEPT !.file[h].refs = @ - 1] /\ t.v = None
    BY <1>1 DEF fput
  <2>4. t.r.file = [r.file EXCEPT ![h] = y] /\ t.r.fds = r.fds /\ DOMAIN t.r = Shape /\ t.r.cwd = r.cwd
    BY <2>1, <2>3 DEF Shape
  <2> QED
    BY <1>1, <2>2, <2>3, <2>4
<1>2. CASE ~(r.file[h].refs > 1)
  <2>1. t.r = [r EXCEPT !.file[h] = NoFile] /\ t.v = r.file[h].v /\ r.file[h].refs = 1
    BY <1>2 DEF fput
  <2>2. t.r.file = [r.file EXCEPT ![h] = NoFile] /\ t.r.fds = r.fds /\ DOMAIN t.r = Shape /\ t.r.cwd = r.cwd
    BY <2>1 DEF Shape
  <2> QED
    BY <2>1, <2>2, NoFileType
<1> QED
  BY <1>1, <1>2

\* Descriptor nfd of a file other than that of d becomes one of this.
Replaced(r, f, h, nfd, x, v) ==
  /\ x.file \in [FileIds -> Files]
  /\ \A g \in FileIds : g # h => /\ x.file[g].refs = r.file[g].refs + On(f, g)
                                 /\ x.file[g].v = r.file[g].v
  /\ x.file[h].refs = r.file[h].refs - 1
  /\ \/ r.file[h].refs > 1 /\ x.file[h].v = r.file[h].v /\ v = None
     \/ r.file[h].refs = 1 /\ x.file[h].v = None /\ v = r.file[h].v
  /\ x.fds \in [Fds -> 0 .. NFILES] /\ x.fds[nfd] = f
  /\ \A k \in Fds : k # nfd => x.fds[k] = r.fds[k]

Replaceable(r, d, nfd, f, h) ==
  /\ FilesOK(r, None) /\ d \in Fds /\ nfd \in Fds /\ nfd # d
  /\ f = r.fds[d] /\ h = r.fds[nfd] /\ f # 0 /\ h # 0 /\ f # h
GaveUp(r, x, h, v) ==
  /\ FilesOK(x, None)
  /\ \A g \in FileIds : g # h => x.file[g].v = r.file[g].v
  /\ v \in Inodes \cup {None}
  /\ \A i \in Inodes : On(x.file[h].v, i) = On(r.file[h].v, i) - On(v, i)

LEMMA Dup2OK ==
  ASSUME NEW r, NEW d, NEW nfd, NEW f, NEW h, Replaceable(r, d, nfd, f, h),
         NEW x, NEW v, Replaced(r, f, h, nfd, x, v)
  PROVE  GaveUp(r, x, h, v)
<1> USE DEF Replaceable
<1>0. /\ x.file \in [FileIds -> Files]
      /\ \A g \in FileIds : g # h => /\ x.file[g].refs = r.file[g].refs + On(f, g)
                                     /\ x.file[g].v = r.file[g].v
      /\ x.file[h].refs = r.file[h].refs - 1
      /\ \/ r.file[h].refs > 1 /\ x.file[h].v = r.file[h].v /\ v = None
         \/ r.file[h].refs = 1 /\ x.file[h].v = None /\ v = r.file[h].v
      /\ x.fds \in [Fds -> 0 .. NFILES] /\ x.fds[nfd] = f
      /\ \A k \in Fds : k # nfd => x.fds[k] = r.fds[k]
  BY DEF Replaced
<1>1. /\ f \in FileIds /\ h \in FileIds /\ f \in 0 .. NFILES /\ r.file[h].v \in Inodes \cup {None}
  <2>1. r.fds \in [Fds -> 0 .. NFILES]
    BY DEF FilesOK
  <2> QED
    BY <2>1, FileParts
<1>2. \A g \in FileIds : /\ r.file[g].refs \in Nat
                         /\ r.file[g].refs = 0 => r.file[g].v = None
                         /\ g # h => x.file[g].v = r.file[g].v
  <2>1. \A g \in FileIds : r.file[g].refs \in Nat /\ (r.file[g].refs = 0 => r.file[g].v = None)
    BY FileParts
  <2> QED
    BY <1>0, <2>1
<1>3. \A g \in FileIds : x.file[g].refs = r.file[g].refs - On(r.fds[nfd], g) + On(f, g)
  <2>1. \A g \in FileIds : /\ On(h, g) = IF g = h THEN 1 ELSE 0
                           /\ On(f, g) = IF g = f THEN 1 ELSE 0
    BY DEF On
  <2> QED
    BY <1>0, <1>1, <1>2, <2>1
<1>4. /\ \A g \in FileIds : x.file[g].refs = Count({k \in Fds : x.fds[k] = g})
      /\ \A k \in Fds : x.fds[k] # 0 => x.fds[k] \in FileIds /\ x.file[x.fds[k]].refs > 0
  BY <1>0, <1>1, <1>3, FdsChange
<1>5. \A g \in FileIds : x.file[g].refs = 0 => x.file[g].v = None
  <2>1. \A g \in FileIds : On(f, g) \in Nat
    BY DEF On
  <2>2. \A g \in FileIds : g # h => (x.file[g].refs = 0 => r.file[g].refs = 0)
    BY <1>0, <1>2, <2>1
  <2> QED
    BY <1>0, <1>1, <1>2, <2>2
<1>6. ASSUME NEW k \in Fds, x.fds[k] # 0
      PROVE  x.file[x.fds[k]].v # None
  <2>1. d # None /\ k # None
    BY Numbers DEF Fds
  <2>2. r.file[f].v # None /\ (r.fds[k] # 0 => r.file[r.fds[k]].v # None)
    BY <2>1, FileParts
  <2>3. x.fds[k] \in FileIds /\ x.file[x.fds[k]].refs > 0
    BY <1>4, <1>6
  <2>4. CASE x.fds[k] = h
    <3>1. k # nfd /\ r.fds[k] = h /\ r.file[h].v # None
      BY <1>0, <1>6, <2>2, <2>4
    <3>2. r.file[h].refs > 1
      BY <1>0, <1>1, <1>2, <2>3, <2>4
    <3> QED
      BY <1>0, <2>4, <3>1, <3>2
  <2>5. CASE x.fds[k] # h
    BY <1>0, <1>2, <1>6, <2>2, <2>3, <2>5
  <2> QED
    BY <2>4, <2>5
<1>7. FilesOK(x, None)
  BY <1>0, <1>4, <1>5, <1>6 DEF FilesOK
<1>8. \A i \in Inodes : On(x.file[h].v, i) = On(r.file[h].v, i) - On(v, i)
  <2>1. \A i \in Inodes : /\ On(None, i) = 0
                          /\ On(r.file[h].v, i) - 0 = On(r.file[h].v, i)
                          /\ On(r.file[h].v, i) - On(r.file[h].v, i) = 0
    BY OnInt, OnNone
  <2> QED
    BY <1>0, <2>1
<1> QED
  BY <1>0, <1>1, <1>2, <1>7, <1>8 DEF GaveUp

LEMMA Dup2Files ==
  ASSUME NEW r, DOMAIN r = Shape, FilesOK(r, None), NEW d \in Fds, r.fds[d] # 0,
         NEW nfd \in Fds, nfd # d, r.fds[nfd] # 0, r.fds[nfd] # r.fds[d],
         NEW y, y = fref(r, r.fds[d]),
         NEW t, t = fput(y, r.fds[nfd]), NEW x, x = WithFd(t.r, nfd, r.fds[d])
  PROVE  /\ DOMAIN x = Shape /\ x.cwd = r.cwd /\ FilesOK(x, None)
         /\ \A g \in FileIds : g # r.fds[nfd] => x.file[g].v = r.file[g].v
         /\ t.v \in Inodes \cup {None}
         /\ \A i \in Inodes : On(x.file[r.fds[nfd]].v, i) = On(r.file[r.fds[nfd]].v, i) - On(t.v, i)
<1>1. PICK f, h : f = r.fds[d] /\ h = r.fds[nfd]
  OBVIOUS
<1>2. /\ f \in FileIds /\ h \in FileIds /\ f # h /\ r.file[h].refs \in Nat \ {0}
      /\ r.file[f].refs \in Nat
  BY <1>1, FileParts
<1>3. r.file \in [FileIds -> Files] /\ r.fds \in [Fds -> 0 .. NFILES] /\ f \in 0 .. NFILES
  BY <1>1 DEF FilesOK
<1>4. /\ DOMAIN y = Shape /\ y.fds = r.fds /\ y.cwd = r.cwd /\ y.file \in [FileIds -> Files]
      /\ \A g \in FileIds : g # f => y.file[g] = r.file[g]
      /\ y.file[f].refs = r.file[f].refs + 1 /\ y.file[f].v = r.file[f].v
  BY <1>1, <1>2, <1>3, FrefFacts
<1>5. /\ DOMAIN t.r = Shape /\ t.r.fds = r.fds /\ t.r.cwd = r.cwd
      /\ t.r.file \in [FileIds -> Files]
      /\ \A g \in FileIds : g # h => t.r.file[g] = y.file[g]
      /\ t.r.file[h].refs = r.file[h].refs - 1
      /\ \/ r.file[h].refs > 1 /\ t.r.file[h].v = r.file[h].v /\ t.v = None
         \/ r.file[h].refs = 1 /\ t.r.file[h].v = None /\ t.v = r.file[h].v
  <2>1. y.file[h] = r.file[h] /\ y.fds = r.fds /\ y.cwd = r.cwd
    BY <1>2, <1>4
  <2>2. /\ DOMAIN t.r = Shape /\ t.r.fds = y.fds /\ t.r.cwd = y.cwd
        /\ t.r.file \in [FileIds -> Files]
        /\ \A g \in FileIds : g # h => t.r.file[g] = y.file[g]
        /\ t.r.file[h].refs = y.file[h].refs - 1
        /\ \/ y.file[h].refs > 1 /\ t.r.file[h].v = y.file[h].v /\ t.v = None
           \/ y.file[h].refs = 1 /\ t.r.file[h].v = None /\ t.v = y.file[h].v
    <3>1. t = fput(y, h) /\ y.file[h].refs \in Nat \ {0} /\ DOMAIN y = Shape /\ y.file \in [FileIds -> Files]
      BY <1>1, <1>2, <1>4, <2>1
    <3> QED
      BY <1>2, <3>1, FputFacts
  <2> QED
    BY <2>1, <2>2
<1>6. /\ DOMAIN x = Shape /\ x.cwd = r.cwd /\ x.file = t.r.file
      /\ x.fds \in [Fds -> 0 .. NFILES] /\ x.fds[nfd] = f
      /\ \A k \in Fds : k # nfd => x.fds[k] = r.fds[k]
  <2>1. PICK q : q = t.r
    OBVIOUS
  <2>2. FdSet(q, nfd, f, x)
    BY <1>1, <1>3, <1>5, <2>1 DEF FdSet
  <2>3. HasFd(q, nfd, f, x)
    BY <2>2, FdSetFacts
  <2> QED
    BY <1>5, <2>1, <2>3 DEF HasFd
<1>7. Replaced(r, f, h, nfd, x, t.v)
  <2>1. \A g \in FileIds : r.file[g].refs \in Nat /\ On(f, g) = IF g = f THEN 1 ELSE 0
    BY FileParts DEF On
  <2>2. \A g \in FileIds : g # h => /\ x.file[g].refs = r.file[g].refs + On(f, g)
                                    /\ x.file[g].v = r.file[g].v
    <3> SUFFICES ASSUME NEW g \in FileIds, g # h
                 PROVE  /\ x.file[g].refs = r.file[g].refs + On(f, g)
                        /\ x.file[g].v = r.file[g].v
      OBVIOUS
    <3>1. x.file[g] = y.file[g] /\ r.file[g].refs \in Nat
      BY <1>5, <1>6, <2>1
    <3>2. CASE g = f
      BY <1>4, <2>1, <3>1, <3>2
    <3>3. CASE g # f
      BY <1>4, <2>1, <3>1, <3>3
    <3> QED
      BY <3>2, <3>3
  <2> QED
    BY <1>5, <1>6, <2>2 DEF Replaced
<1>8. /\ FilesOK(x, None)
      /\ \A g \in FileIds : g # h => x.file[g].v = r.file[g].v
      /\ t.v \in Inodes \cup {None}
      /\ \A i \in Inodes : On(x.file[h].v, i) = On(r.file[h].v, i) - On(t.v, i)
  <2>1. Replaceable(r, d, nfd, f, h)
    BY <1>1 DEF Replaceable
  <2>2. GaveUp(r, x, h, t.v)
    BY <1>7, <2>1, Dup2OK
  <2> QED
    BY <2>2 DEF GaveUp
<1> QED
  BY <1>1, <1>6, <1>8

LEMMA FilesAlike ==
  ASSUME NEW r, FilesOK(r, None), NEW x, x.fds \in [Fds -> 0 .. NFILES],
         \A k \in Fds : x.fds[k] = r.fds[k], x.file \in [FileIds -> Files],
         \A g \in FileIds : x.file[g].refs = r.file[g].refs /\ x.file[g].v = r.file[g].v
  PROVE  FilesOK(x, None)
<1>1. x.fds = r.fds
  <2>1. r.fds \in [Fds -> 0 .. NFILES]
    BY DEF FilesOK
  <2> QED
    BY <2>1
<1>2. \A f \in FileIds : /\ r.file[f].refs = Count(FdsOf(r.fds, f))
                         /\ r.file[f].refs = 0 => r.file[f].v = None
  BY DEF FilesOK, FdsOf
<1>3. ASSUME NEW d \in Fds, r.fds[d] # 0 PROVE x.file[r.fds[d]].v # None
  <2>1. d # None
    BY Numbers DEF Fds
  <2> QED
    BY <1>3, <2>1, FileParts
<1>4. \A f \in FileIds : /\ x.file[f].refs = Count(FdsOf(x.fds, f))
                         /\ x.file[f].refs = 0 => x.file[f].v = None
  BY <1>1, <1>2
<1>5. \A d \in Fds : x.fds[d] # 0 => x.file[x.fds[d]].v # None
  BY <1>1, <1>3
<1> QED
  BY <1>4, <1>5 DEF FilesOK, FdsOf

LEMMA Dup2Kept ==
  ASSUME Exact, NEW p \in Procs, NEW d \in Fds, NEW nfd \in Fds, do_dup2(p, d, nfd)
  PROVE  Exact'
<1>1. PICK r : r = proc[p]
  OBVIOUS
<1>2. PICK f : f = r.fds[d]
  OBVIOUS
<1>3. PICK y : y = fref(r, f)
  OBVIOUS
<1>4. PICK t : t = IF y.fds[nfd] = 0 THEN [r |-> y, v |-> None] ELSE fput(y, y.fds[nfd])
  OBVIOUS
<1>5. PICK x : x = WithFd(t.r, nfd, f)
  OBVIOUS
<1>6. r.pc = "idle" /\ r.fds[d] # 0 /\ nfd # d /\ Finish(p, x, vput_if(fs, t.v))
  <2>1. x = [t.r EXCEPT !.fds[nfd] = f]
    BY <1>5 DEF WithFd
  <2>2. r.pc = "idle" /\ r.fds[d] # 0 /\ nfd # d
    BY <1>1 DEF do_dup2, Starts, Open
  <2>3. Finish(p, [t.r EXCEPT !.fds[nfd] = f], vput_if(fs, t.v))
    BY <1>1, <1>2, <1>3, <1>4, Zenon DEF do_dup2
  <2> QED
    BY <2>1, <2>2, <2>3
<1>7. DOMAIN r = Shape /\ FilesOK(r, None)
  BY <1>1, <1>6, Rests
<1>8. /\ f \in FileIds /\ r.file[f].refs \in Nat \ {0} /\ f \in 0 .. NFILES
      /\ r.file \in [FileIds -> Files] /\ r.fds \in [Fds -> 0 .. NFILES]
  <2>1. r.file \in [FileIds -> Files] /\ r.fds \in [Fds -> 0 .. NFILES]
    BY <1>7 DEF FilesOK
  <2> QED
    BY <1>2, <1>6, <1>7, <2>1, FileParts
<1>9. /\ DOMAIN y = Shape /\ y.fds = r.fds /\ y.cwd = r.cwd /\ y.file \in [FileIds -> Files]
      /\ \A g \in FileIds : g # f => y.file[g] = r.file[g]
      /\ y.file[f].refs = r.file[f].refs + 1 /\ y.file[f].v = r.file[f].v
  BY <1>3, <1>7, <1>8, FrefFacts
<1>10. \A i \in Inodes : On(r.file[f].v, i) = On(r.file[f].v, i) - On(None, i)
  <2>1. \A i \in Inodes : On(None, i) = 0 /\ On(r.file[f].v, i) \in Int
    BY OnInt, OnNone
  <2> QED
    BY <2>1
<1>11. CASE r.fds[nfd] = 0
  <2>1. t.r = y /\ t.v = None
    BY <1>4, <1>9, <1>11
  <2>2. /\ x = WithFd(y, nfd, f) /\ y.fds \in [Fds -> 0 .. NFILES] /\ DOMAIN y = Shape
        /\ f \in 0 .. NFILES
    BY <1>5, <1>8, <1>9, <2>1
  <2>3. /\ DOMAIN x = Shape /\ x.cwd = y.cwd /\ x.file = y.file
        /\ x.fds \in [Fds -> 0 .. NFILES] /\ x.fds[nfd] = f
        /\ \A k \in Fds : k # nfd => x.fds[k] = y.fds[k]
    <3>1. FdSet(y, nfd, f, x)
      BY <2>2 DEF FdSet
    <3>2. HasFd(y, nfd, f, x)
      BY <3>1, FdSetFacts
    <3> QED
      BY <3>2 DEF HasFd
  <2>4. \A g \in FileIds : x.file[g].refs = r.file[g].refs + On(r.fds[d], g) /\ x.file[g].v = r.file[g].v
    <3>1. \A g \in FileIds : r.file[g].refs \in Nat /\ On(f, g) = IF g = f THEN 1 ELSE 0
      BY <1>7, FileParts DEF On
    <3> QED
      BY <1>2, <1>9, <2>3, <3>1
  <2>5. x.fds[nfd] = r.fds[d] /\ (\A k \in Fds : k # nfd => x.fds[k] = r.fds[k]) /\ x.file \in [FileIds -> Files]
    BY <1>2, <1>9, <2>3
  <2>6. FilesOK(x, None) /\ \A g \in FileIds : x.file[g].v = r.file[g].v
    BY <1>6, <1>7, <1>11, <2>3, <2>4, <2>5, DupFile
  <2>7. None \in Inodes \cup {None} /\ DOMAIN x = Shape /\ x.cwd = r.cwd /\ Finish(p, x, vput_if(fs, None))
    BY <1>6, <1>9, <2>1, <2>3
  <2> QED
    BY <1>1, <1>6, <1>8, <1>10, <2>6, <2>7, FileStep
<1>12. CASE r.fds[nfd] = f
  <2>1. t = fput(y, f) /\ y.file[f].refs \in Nat \ {0} /\ y.file[f].refs > 1
    <3>1. t = fput(y, f)
      BY <1>2, <1>4, <1>6, <1>9, <1>12
    <3> QED
      BY <1>8, <1>9, <3>1
  <2>2. PICK q : q = t.r
    OBVIOUS
  <2>3. /\ DOMAIN q = Shape /\ q.fds = y.fds /\ q.cwd = y.cwd /\ q.file \in [FileIds -> Files]
        /\ \A g \in FileIds : g # f => q.file[g] = y.file[g]
        /\ q.file[f].refs = y.file[f].refs - 1 /\ q.file[f].v = y.file[f].v /\ t.v = None
    BY <1>8, <1>9, <2>1, <2>2, FputFacts
  <2>4. x = WithFd(q, nfd, f) /\ q.fds \in [Fds -> 0 .. NFILES]
    BY <1>5, <1>8, <1>9, <2>2, <2>3
  <2>5. /\ DOMAIN x = Shape /\ x.cwd = q.cwd /\ x.file = q.file
        /\ x.fds \in [Fds -> 0 .. NFILES] /\ x.fds[nfd] = f
        /\ \A k \in Fds : k # nfd => x.fds[k] = q.fds[k]
    <3>1. FdSet(q, nfd, f, x)
      BY <1>8, <2>3, <2>4 DEF FdSet
    <3>2. HasFd(q, nfd, f, x)
      BY <3>1, FdSetFacts
    <3> QED
      BY <3>2 DEF HasFd
  <2>6. \A k \in Fds : x.fds[k] = r.fds[k]
    BY <1>9, <1>12, <2>3, <2>5
  <2>7. \A g \in FileIds : x.file[g].refs = r.file[g].refs /\ x.file[g].v = r.file[g].v
    <3>1. (r.file[f].refs + 1) - 1 = r.file[f].refs
      BY <1>8
    <3> QED
      BY <1>9, <2>3, <2>5, <3>1
  <2>8. FilesOK(x, None)
    BY <1>7, <2>3, <2>5, <2>6, <2>7, FilesAlike
  <2>9. None \in Inodes \cup {None} /\ DOMAIN x = Shape /\ x.cwd = r.cwd /\ Finish(p, x, vput_if(fs, None))
    BY <1>6, <1>9, <2>3, <2>5
  <2> QED
    BY <1>1, <1>6, <1>8, <1>10, <2>7, <2>8, <2>9, FileStep
<1>13. CASE r.fds[nfd] # 0 /\ r.fds[nfd] # f
  <2>1. t = fput(y, r.fds[nfd]) /\ y = fref(r, r.fds[d]) /\ x = WithFd(t.r, nfd, r.fds[d])
        /\ r.fds[nfd] # r.fds[d]
    BY <1>2, <1>3, <1>4, <1>5, <1>9, <1>13
  <2>2. /\ DOMAIN x = Shape /\ x.cwd = r.cwd /\ FilesOK(x, None)
        /\ \A g \in FileIds : g # r.fds[nfd] => x.file[g].v = r.file[g].v
        /\ t.v \in Inodes \cup {None}
        /\ \A i \in Inodes : On(x.file[r.fds[nfd]].v, i) = On(r.file[r.fds[nfd]].v, i) - On(t.v, i)
    BY <1>6, <1>7, <1>13, <2>1, Dup2Files
  <2>3. r.fds[nfd] \in FileIds
    BY <1>7, <1>13, FileParts
  <2> QED
    BY <1>1, <1>6, <2>2, <2>3, FileStep
<1> QED
  BY <1>11, <1>12, <1>13

LEMMA NextExact ==
  ASSUME Exact, Next
  PROVE  Exact'
<1>1. ASSUME NEW p \in Procs, \E c \in Calls : Call(p, c) PROVE Exact'
  BY <1>1, CallKept
<1>2. ASSUME NEW p \in Procs,
             \/ Walk(p) \/ Look(p) \/ Make(p) \/ Alloc(p) \/ LinkName(p) \/ Dot(p) \/ DotDot(p)
             \/ Rmdir(p) \/ Rmdir2(p) \/ Unlink(p)
      PROVE  Exact'
  BY <1>2, WalkKept, LookKept, MakeKept, AllocKept, LinkNameKept, DotKept, RmdirKept, Rmdir2Kept, UnlinkKept
<1>3. ASSUME NEW p \in Procs, \E d \in Fds : do_close(p, d) \/ do_dup(p, d) PROVE Exact'
  BY <1>3, CloseKept, DupKept
<1>4. ASSUME NEW p \in Procs, \E d, nfd \in Fds : do_dup2(p, d, nfd) PROVE Exact'
  BY <1>4, Dup2Kept
<1>5. ASSUME NEW p \in Procs, \E d \in Fds, span \in Spans : do_write(p, d, span) PROVE Exact'
  BY <1>5, WriteKept
<1>6. ASSUME \E i \in Inodes : pageoutd(i) PROVE Exact'
  BY <1>6, PageoutKept
<1> QED
  BY <1>1, <1>2, <1>3, <1>4, <1>5, <1>6 DEF Next

-----------------------------------------------------------------------------
(* The rest of the type invariant.                                           *)

LEMMA LostInodes ==
  ASSUME NEW s, FsOK(s)
  PROVE  Lost(s) \subseteq Inodes
<1>1. \A d \in Inodes : \A e \in Range(s.ent[d]) : e.i \in Inodes
  BY DEF FsOK, EntriesOK
<1>2. PICK gone : gone = {i \in Inodes : IsDir(s, i)} \ Reachable(s)
  OBVIOUS
<1> DEFINE Named(d) == {e.i : e \in {x \in Range(s.ent[d]) : x.name \notin Dots}}
<1>3. \A d \in gone : d \in Inodes /\ Named(d) \subseteq Inodes
  BY <1>1, <1>2
<1>4. PICK A, B : A = UNION {Named(d) : d \in gone} /\ B = {d \in gone : \E i \in Named(d) : IsDir(s, i)}
  OBVIOUS
<1>5. Lost(s) = A \cup B
  BY <1>2, <1>4 DEF Lost
<1> HIDE DEF Named
<1>6. A \subseteq Inodes
  BY <1>3, <1>4
<1>7. B \subseteq Inodes
  BY <1>3, <1>4
<1> QED
  BY <1>5, <1>6, <1>7

\* However a call goes on, only an assertion or vget changes panic.
Calm == panic' \in {"no", "assert", "free"}

LEMMA StaysCalm ==
  ASSUME panic = "no", NEW p, NEW r, NEW s
  PROVE  /\ Go(p, r, s) => Calm
         /\ Finish(p, r, s) => Calm
         /\ Fail(p, r, s) => Calm
         /\ Arrive(p, r, s) => Calm
         /\ MakeFails(p, r, s) => Calm
         /\ MakeEnds(p, r, s) => Calm
         /\ Panic("free") => Calm
         /\ Panic("assert") => Calm
<1>1. ASSUME NEW x, NEW t, Go(p, x, t) PROVE Calm
  BY <1>1 DEF Go, Calm
<1>2. \A x, t : Finish(p, x, t) => Calm
  BY <1>1 DEF Finish
<1>3. \A x, t : Fail(p, x, t) => Calm
  BY <1>2 DEF Fail
<1>4. Arrive(p, r, s) => Calm
  BY <1>1, <1>3, Zenon DEF Arrive
<1>5. (MakeFails(p, r, s) => Calm) /\ (MakeEnds(p, r, s) => Calm)
  BY <1>2, <1>3 DEF MakeFails, MakeEnds
<1>6. (Panic("free") => Calm) /\ (Panic("assert") => Calm)
  BY DEF Panic, Calm
<1> QED
  BY <1>1, <1>2, <1>3, <1>4, <1>5, <1>6

LEMMA HitCalm ==
  ASSUME panic = "no", NEW p, NEW r, NEW s, NEW i, r.op \in Ops, r.op # "rmdir", LookHit(p, r, s, i)
  PROVE  Calm
<1>1. /\ \A x, t : Go(p, x, t) => Calm
      /\ \A x, t : Finish(p, x, t) => Calm
      /\ \A x, t : Fail(p, x, t) => Calm
      /\ \A x, t : Arrive(p, x, t) => Calm
  BY StaysCalm
<1>2. OpenHit(p, r, s, i) => Calm
  BY <1>1, Zenon DEF OpenHit, Opened
<1>3. ExistsHit(p, r, s, i) => Calm
  BY <1>1, Zenon DEF ExistsHit
<1>4. do_unlink(p, r, s, i) => Calm
  BY <1>1, Zenon DEF do_unlink
<1>5. do_chdir(p, r, s, i) => Calm
  BY <1>1, Zenon DEF do_chdir
<1>6. do_link(p, r, s, i) => Calm
  BY <1>1, Zenon DEF do_link
<1>7. r.op \in Opens \cup {"mkdir", "mknod", "unlink", "chdir", "link"}
  BY MakesAre DEF Ops, Opens
<1>8. \/ OpenHit(p, r, s, i) \/ ExistsHit(p, r, s, i) \/ do_unlink(p, r, s, i)
      \/ do_chdir(p, r, s, i) \/ do_link(p, r, s, i)
  BY <1>7 DEF LookHit
<1> QED
  BY <1>2, <1>3, <1>4, <1>5, <1>6, <1>8

LEMMA NextCalm ==
  ASSUME Exact, Next, Bounded
  PROVE  Calm
<1>1. ASSUME panic = "no", NEW p
      PROVE  /\ \A x, t : Go(p, x, t) => Calm
             /\ \A x, t : Finish(p, x, t) => Calm
             /\ \A x, t : Fail(p, x, t) => Calm
             /\ \A x, t : Arrive(p, x, t) => Calm
             /\ \A x, t : MakeFails(p, x, t) => Calm
             /\ \A x, t : MakeEnds(p, x, t) => Calm
             /\ Panic("free") => Calm
             /\ Panic("assert") => Calm
  BY <1>1, StaysCalm
<1>2. ASSUME NEW p \in Procs, NEW c \in Calls, Call(p, c) PROVE Calm
  <2>1. panic = "no" /\ \E x, t : Arrive(p, x, t)
    BY <1>2, Zenon DEF Call, Starts
  <2> QED
    BY <1>1, <2>1
<1>3. ASSUME NEW p \in Procs, NEW r, NEW name, NEW l, r = proc[p], r.pc # "idle",
             l = s5fs_lookup(fs, r.at, name)
      PROVE  l.ret \in {"ENOENT", "panic", "ok"}
  BY <1>3, Calling, FsSame, LookupGot
<1>4. ASSUME NEW p \in Procs, Walk(p) PROVE Calm
  <2>1. PICK r : r = proc[p]
    OBVIOUS
  <2>2. PICK l : l = s5fs_lookup(fs, r.at, Head(r.names))
    OBVIOUS
  <2>3. panic = "no" /\ r.pc = "walk"
    BY <1>4, <2>1 DEF Walk, Quiet, Inside
  <2>4. l.ret \in {"ENOENT", "panic", "ok"}
    BY <1>3, <2>1, <2>2, <2>3
  <2>5. (\E x, t : Fail(p, x, t)) \/ (\E x, t : Arrive(p, x, t)) \/ Panic("free")
    BY <1>4, <2>1, <2>2, <2>4 DEF Walk
  <2> QED
    BY <1>1, <2>3, <2>5
<1>5. ASSUME NEW p \in Procs, Look(p) PROVE Calm
  <2>1. PICK r : r = proc[p]
    OBVIOUS
  <2>2. PICK l : l = s5fs_lookup(fs, r.at, Name(r))
    OBVIOUS
  <2>3. panic = "no" /\ r.pc = "look"
    BY <1>5, <2>1 DEF Look, Quiet, Inside
  <2>4. l.ret \in {"ENOENT", "panic", "ok"}
    BY <1>3, <2>1, <2>2, <2>3
  <2>5. \/ LookHit(p, r, l.s, l.i) \/ (\E x, t : Fail(p, x, t)) \/ (\E x, t : Go(p, x, t))
        \/ Panic("free")
    BY <1>5, <2>1, <2>2, <2>4 DEF Look
  <2>6. r.op \in Ops /\ r.op # "rmdir"
    BY <2>1, <2>3, Calling
  <2> QED
    BY <1>1, <2>3, <2>5, <2>6, HitCalm
<1>6. ASSUME NEW p \in Procs, Make(p) PROVE Calm
  <2>1. PICK r : r = proc[p]
    OBVIOUS
  <2>2. PICK l : l = s5fs_lookup(fs, r.at, Name(r))
    OBVIOUS
  <2>3. panic = "no" /\ r.pc = "make"
    BY <1>6, <2>1 DEF Make, Quiet, Inside
  <2>4. l.ret \in {"ENOENT", "panic", "ok"}
    BY <1>3, <2>1, <2>2, <2>3
  <2>5. (\E x, t : Go(p, x, t)) \/ Panic("free") \/ Panic("assert")
    BY <1>6, <2>1, <2>2, <2>4 DEF Make
  <2> QED
    BY <1>1, <2>3, <2>5
<1>7. ASSUME NEW p \in Procs, Alloc(p) PROVE Calm
  <2>1. panic = "no" /\ ((\E x, t : Go(p, x, t)) \/ \E x, t : Fail(p, x, t))
    BY <1>7, Zenon DEF Alloc, Inside
  <2> QED
    BY <1>1, <2>1
<1>8. ASSUME NEW p \in Procs, LinkName(p) PROVE Calm
  <2>1. PICK r : r = proc[p]
    OBVIOUS
  <2>2. PICK s : s = s5_link(fs, r.at, r.tgt, Name(r))
    OBVIOUS
  <2>3. panic = "no" /\ r.pc = "link"
    BY <1>8, <2>1 DEF LinkName, Inside
  <2>4. r.op \in {"creat", "mkdir", "mknod"}
    BY <2>1, <2>3, Calling, MakesAre DEF Making
  <2>5. \A x, t, i : Opened(p, x, t, i) => Calm
    BY <1>1, <2>3, Zenon DEF Opened
  <2>6. \/ (\E x, t : MakeFails(p, x, t)) \/ (\E x, t : Go(p, x, t)) \/ Panic("assert")
        \/ (\E x, t, i : Opened(p, x, t, i)) \/ (\E x, t : MakeEnds(p, x, t))
    BY <1>8, <2>1, <2>2, <2>4 DEF LinkName
  <2> QED
    BY <1>1, <2>3, <2>5, <2>6
<1>9. ASSUME NEW p \in Procs, Dot(p) \/ DotDot(p) PROVE Calm
  <2>1. /\ panic = "no"
        /\ \/ (\E x, t : MakeFails(p, x, t)) \/ (\E x, t : MakeEnds(p, x, t))
           \/ (\E x, t : Go(p, x, t)) \/ Panic("assert")
    BY <1>9, Zenon DEF Dot, DotDot, Quiet, Inside
  <2> QED
    BY <1>1, <2>1
<1>10. ASSUME NEW p \in Procs, Rmdir(p) PROVE Calm
  <2>1. PICK r : r = proc[p]
    OBVIOUS
  <2>2. PICK l : l = s5fs_lookup(fs, r.at, Name(r))
    OBVIOUS
  <2>3. panic = "no" /\ r.pc = "rmdir"
    BY <1>10, <2>1 DEF Rmdir, Quiet, Inside
  <2>4. l.ret \in {"ENOENT", "panic", "ok"}
    BY <1>3, <2>1, <2>2, <2>3
  <2>5. (\E x, t : Fail(p, x, t)) \/ Panic("free") \/ \E t, i : RmdirTarget(p, r, t, i)
    BY <1>10, <2>1, <2>2, <2>4 DEF Rmdir
  <2>6. \A t, i : RmdirTarget(p, r, t, i) => (\E x, u : Fail(p, x, u)) \/ \E x, u : Go(p, x, u)
    BY Zenon DEF RmdirTarget
  <2> QED
    BY <1>1, <2>3, <2>5, <2>6
<1>11. ASSUME NEW p \in Procs, Rmdir2(p) PROVE Calm
  <2>1. panic = "no" /\ ((\E x, t : MakeFails(p, x, t)) \/ \E x, t : MakeEnds(p, x, t))
    BY <1>11, Zenon DEF Rmdir2, Inside
  <2> QED
    BY <1>1, <2>1
<1>12. ASSUME NEW p \in Procs, Unlink(p) PROVE Calm
  <2>1. /\ panic = "no"
        /\ (\E x, t : Fail(p, x, t)) \/ Panic("free") \/ \E x, t : Finish(p, x, t)
    BY <1>12, Zenon DEF Unlink, Inside
  <2> QED
    BY <1>1, <2>1
<1>13. ASSUME NEW p \in Procs, NEW d \in Fds, do_close(p, d) \/ do_dup(p, d) PROVE Calm
  <2>1. panic = "no" /\ ((\E x, t : Finish(p, x, t)) \/ \E x, t : Go(p, x, t))
    BY <1>13, Zenon DEF do_close, do_dup, Starts
  <2> QED
    BY <1>1, <2>1
<1>14. ASSUME NEW p \in Procs, NEW d \in Fds, NEW nfd \in Fds, do_dup2(p, d, nfd) PROVE Calm
  <2>1. panic = "no" /\ \E x, t : Finish(p, x, t)
    BY <1>14, Zenon DEF do_dup2, Starts
  <2> QED
    BY <1>1, <2>1
<1>15. ASSUME NEW p \in Procs, NEW d \in Fds, NEW span \in Spans, do_write(p, d, span) PROVE Calm
  <2>1. panic = "no" /\ \E x, t : Go(p, x, t)
    BY <1>15, Zenon DEF do_write, Starts
  <2> QED
    BY <1>1, <2>1
<1>16. ASSUME NEW i \in Inodes, pageoutd(i) PROVE Calm
  BY <1>16 DEF pageoutd, Calm
<1> QED
  BY <1>2, <1>4, <1>5, <1>6, <1>7, <1>8, <1>9, <1>10, <1>11, <1>12, <1>13, <1>14, <1>15, <1>16 DEF Next

LEMMA NextBounded ==
  ASSUME Exact, Bounded, Next
  PROVE  Bounded'
<1>1. panic' \in {"no", "assert", "free"}
  BY NextCalm DEF Calm
<1> DEFINE Rest == calls' \in 0 .. MaxCalls /\ raced' \subseteq Inodes /\ stray' \subseteq Inodes
<1>2. calls \in 0 .. MaxCalls /\ raced \subseteq Inodes /\ stray \subseteq Inodes /\ FsOK(fs)
  BY FsSame DEF Bounded
<1>3. ASSUME NEW p, Starts(p) PROVE Rest
  <2>1. calls < MaxCalls /\ calls' = calls + 1 /\ raced' = raced /\ stray' = stray
    BY <1>3 DEF Starts
  <2> QED
    BY <1>2, <2>1, Numbers
<1>4. ASSUME NEW p, NEW pc, Quiet(p, pc) PROVE Rest
  BY <1>2, <1>4 DEF Quiet, Inside
<1>5. ASSUME NEW p \in Procs, proc[p].pc # "idle", NEW name
      PROVE  /\ proc[p].at \in Inodes /\ (At(fs, proc[p].at, name) # {} =>
                  s5_find_dirent(fs, proc[p].at, name) \in Inodes)
             /\ (At(fs, proc[p].at, name) # {} => FsOK(s5_remove_dirent(fs, proc[p].at, name)))
  <2>1. proc[p].at \in Inodes
    BY <1>5, Calling
  <2>2. At(fs, proc[p].at, name) # {} => s5_find_dirent(fs, proc[p].at, name) \in Inodes
    BY <1>2, <2>1, NamePlace, Numbers DEF s5_find_dirent
  <2>3. At(fs, proc[p].at, name) # {} => FsOK(s5_remove_dirent(fs, proc[p].at, name))
    BY <1>2, <2>1, LockedReferenced, RemoveSame DEF Same
  <2> QED
    BY <2>1, <2>2, <2>3
<1>6. ASSUME NEW p \in Procs, Alloc(p) PROVE Rest
  <2>1. calls' = calls /\ raced' = raced /\ stray' \subseteq stray
    BY <1>6 DEF Alloc, Inside
  <2> QED
    BY <1>2, <2>1
<1>7. ASSUME NEW p \in Procs, LinkName(p) PROVE Rest
  <2>1. PICK s : s = s5_link(fs, proc[p].at, proc[p].tgt, Name(proc[p]))
    OBVIOUS
  <2>2. proc[p].pc = "link" /\ calls' = calls /\ raced' = raced
        /\ (stray' = stray \/ stray' = stray \cup Lost(s))
    BY <1>7, <2>1 DEF LinkName, Inside
  <2>3. proc[p].at \in Inodes /\ proc[p].tgt \in Inodes
    BY <2>2, Calling DEF Locking
  <2>4. FsOK(s)
    BY <1>2, <2>1, <2>3, LinkSame DEF Same
  <2> QED
    BY <1>2, <2>2, <2>4, LostInodes
<1>8. ASSUME NEW p \in Procs, Rmdir2(p) PROVE Rest
  <2>1. PICK t : t = s5_remove_dirent(fs, proc[p].at, Name(proc[p]))
    OBVIOUS
  <2>2. PICK s : s = [t EXCEPT !.inode[proc[p].at].link = @ - 1]
    OBVIOUS
  <2>3. /\ proc[p].pc = "rmdir2" /\ calls' = calls /\ raced' = raced
        /\ \/ stray' = stray
           \/ At(fs, proc[p].at, Name(proc[p])) # {} /\ stray' = stray \cup Lost(s)
    BY <1>8, <2>1, <2>2 DEF Rmdir2, Inside
  <2>4. At(fs, proc[p].at, Name(proc[p])) # {} => FsOK(s)
    <3>1. proc[p].at \in Inodes
      BY <1>5, <2>3
    <3> QED
      BY <2>1, <2>2, <3>1, RmdirSame DEF Same
  <2> QED
    BY <1>2, <2>3, <2>4, LostInodes
<1>9. ASSUME NEW p \in Procs, Unlink(p) PROVE Rest
  <2>1. PICK i, s : /\ i = s5_find_dirent(fs, proc[p].at, Name(proc[p]))
                    /\ s = s5_remove_dirent(fs, proc[p].at, Name(proc[p]))
    OBVIOUS
  <2>2. /\ proc[p].pc = "unlink" /\ calls' = calls
        /\ \/ stray' = stray /\ raced' = raced
           \/ /\ At(fs, proc[p].at, Name(proc[p])) # {} /\ stray' = stray \cup Lost(s)
              /\ raced' \subseteq raced \cup {proc[p].at, i}
    BY <1>9, <2>1 DEF Unlink, Inside
  <2>3. /\ proc[p].at \in Inodes
        /\ At(fs, proc[p].at, Name(proc[p])) # {} => i \in Inodes /\ FsOK(s)
    BY <1>5, <2>1, <2>2
  <2> QED
    BY <1>2, <2>2, <2>3, LostInodes
<1>10. ASSUME NEW p \in Procs, \E c \in Calls : Call(p, c) PROVE Rest
  <2>1. Starts(p)
    BY <1>10, Zenon DEF Call
  <2> QED
    BY <1>3, <2>1
<1>11. ASSUME NEW p \in Procs, Walk(p) \/ Look(p) \/ Make(p) \/ Dot(p) \/ DotDot(p) \/ Rmdir(p) PROVE Rest
  <2>1. \E pc : Quiet(p, pc)
    BY <1>11, Zenon DEF Walk, Look, Make, Dot, DotDot, Rmdir
  <2> QED
    BY <1>4, <2>1
<1>12. ASSUME NEW p \in Procs, NEW d \in Fds, do_close(p, d) \/ do_dup(p, d) PROVE Rest
  <2>1. Starts(p)
    BY <1>12, Zenon DEF do_close, do_dup
  <2> QED
    BY <1>3, <2>1
<1>13. ASSUME NEW p \in Procs, NEW d \in Fds, NEW nfd \in Fds, do_dup2(p, d, nfd) PROVE Rest
  <2>1. Starts(p)
    BY <1>13, Zenon DEF do_dup2
  <2> QED
    BY <1>3, <2>1
<1>14. ASSUME NEW p \in Procs, NEW d \in Fds, NEW span \in Spans, do_write(p, d, span) PROVE Rest
  <2>1. Starts(p)
    BY <1>14, Zenon DEF do_write
  <2> QED
    BY <1>3, <2>1
<1>15. ASSUME NEW i \in Inodes, pageoutd(i) PROVE Rest
  BY <1>2, <1>15 DEF pageoutd
<1>16. Rest
  <2> HIDE DEF Rest
  <2> QED
    BY <1>6, <1>7, <1>8, <1>9, <1>10, <1>11, <1>12, <1>13, <1>14, <1>15 DEF Next
<1> QED
  BY <1>1, <1>16 DEF Bounded

-----------------------------------------------------------------------------
(* The start.                                                                *)

LEMMA FreshRests ==
  /\ DOMAIN Fresh = Shape /\ Fresh.pc = "idle" /\ Fresh.cwd = Root /\ Fresh.at = None
  /\ Fresh.tgt = None /\ Fresh.src = None /\ Fresh.fd = None
  /\ \A f \in FileIds : Fresh.file[f].v = None
  /\ ProcOK(Fresh)
<1>1. /\ DOMAIN Fresh = Shape /\ Fresh.pc = "idle" /\ Fresh.cwd = Root /\ Fresh.at = None
      /\ Fresh.tgt = None /\ Fresh.src = None /\ Fresh.fd = None
      /\ Fresh.fds = [d \in Fds |-> 0] /\ Fresh.file = [f \in FileIds |-> NoFile]
  BY DEF Fresh, Shape
<1>2. \A f \in FileIds : Fresh.file[f] = NoFile /\ Fresh.file[f].refs = 0 /\ Fresh.file[f].v = None
  BY <1>1, NoFileType
<1>3. Fresh.fds \in [Fds -> 0 .. NFILES] /\ Fresh.file \in [FileIds -> Files]
  BY <1>1, NoFileType, Numbers
<1>4. \A f \in FileIds : Count({d \in Fds : Fresh.fds[d] = f}) = 0
  <2> SUFFICES ASSUME NEW f \in FileIds PROVE Count({d \in Fds : Fresh.fds[d] = f}) = 0
    OBVIOUS
  <2>1. f # 0
    BY Numbers DEF FileIds
  <2>2. {d \in Fds : Fresh.fds[d] = f} = {}
    BY <1>1, <2>1
  <2> QED
    BY <2>2, FS_EmptySet DEF Count
<1>5. FilesOK(Fresh, None)
  <2>1. \A d \in Fds : Fresh.fds[d] = 0
    BY <1>1
  <2>2. \A f \in FileIds : /\ Fresh.file[f].refs = Count({d \in Fds : Fresh.fds[d] = f})
                           /\ Fresh.file[f].refs = 0 => Fresh.file[f].v = None
    BY <1>2, <1>4
  <2> QED
    BY <1>3, <2>1, <2>2 DEF FilesOK
<1>6. Root \in Inodes
  BY Numbers
<1> QED
  BY <1>1, <1>2, <1>5, <1>6 DEF ProcOK, Resting, Shape

LEMMA UnusedOK ==
  ASSUME NEW s, Unused(s)
  PROVE  FsOK(s) /\ (\A i \in Inodes : s.vn[i].lock = None /\ s.vn[i].refs = On(Root, i)) /\ s.vn[Root].in
<1>1. /\ s.vn \in [Inodes -> [in : BOOLEAN, refs : {0, 1}, pages : BOOLEAN, lock : {None}]]
      /\ \A i \in Inodes : s.vn[i].refs = IF i = Root THEN 1 ELSE 0
      /\ s.vn[Root].in
  BY DEF Unused
<1>2. \A i \in Inodes : s.vn[i].lock = None /\ s.vn[i].refs = On(Root, i)
  BY <1>1 DEF On
<1>3. DOMAIN s.vn = Inodes /\ \A i \in Inodes : VnodeOK(s.vn[i])
  <2>1. \A i \in Inodes : s.vn[i] \in Vnodes
    BY <1>1 DEF Vnodes
  <2>2. \A i \in Inodes : ~s.vn[i].in => s.vn[i].refs = 0
    BY <1>1
  <2> QED
    BY <1>1, <1>2, <2>1, <2>2 DEF VnodeOK
<1>4. /\ DOMAIN s = {"sb", "table", "inode", "ent", "vn", "ifree"}
      /\ DOMAIN s.inode = Inodes /\ s.ifree \in Inodes \cup {None} /\ DOMAIN s.ent = Inodes
  BY DEF Unused
<1>5. \A i \in Inodes : InodeOK(s.inode[i]) /\ EntriesOK(s.ent[i])
  BY DEF Unused, InodeOK, EntriesOK
<1> QED
  BY <1>1, <1>2, <1>3, <1>4, <1>5 DEF FsOK

LEMMA InitExact ==
  ASSUME Init
  PROVE  Exact /\ Bounded
<1>1. PICK s \in Disks : fs = [s EXCEPT !.vn[Root].refs = 1 + Cardinality(Procs)]
  BY DEF Init
<1>2. PICK n : n = Cardinality(Procs)
  OBVIOUS
<1>3. n \in Nat
  BY <1>2, Numbers, FS_CardinalityType
<1>4. FsOK(s) /\ (\A i \in Inodes : s.vn[i].lock = None /\ s.vn[i].refs = On(Root, i)) /\ s.vn[Root].in
  BY VfsAssumption, UnusedOK
<1>5. PICK v : v = [s.vn[Root] EXCEPT !.refs = 1 + n]
  OBVIOUS
<1>6. VnodeOK(v) /\ v.refs = 1 + n /\ v.lock = None
  <2>1. s.vn[Root] \in Vnodes /\ Root \in Inodes
    BY <1>4, Numbers, VnodeType
  <2>2. v \in Vnodes /\ v.in = s.vn[Root].in /\ v.lock = s.vn[Root].lock /\ v.refs = 1 + n
    BY <1>3, <1>5, <2>1 DEF Vnodes
  <2> QED
    BY <1>4, <2>1, <2>2 DEF VnodeOK
<1>7. fs = WithVnode(s, Root, v)
  BY <1>1, <1>2, <1>5 DEF WithVnode
<1>8. FsOK(fs) /\ fs.vn[Root] = v /\ \A j \in Inodes : j # Root => fs.vn[j] = s.vn[j]
  BY <1>4, <1>6, <1>7, Numbers, SetVnode
<1>9. DOMAIN proc = Procs /\ \A p \in Procs : proc[p] = Fresh
  BY DEF Init
<1>10. \A p \in Procs : ProcOK(proc[p])
  BY <1>9, FreshRests
<1>11. ASSUME NEW i \in Inodes PROVE fs.vn[i].refs = Owed(i)
  <2>1. i # None
    BY Numbers
  <2>2. /\ {p \in Procs : proc[p].at = i} = {} /\ {p \in Procs : proc[p].tgt = i} = {}
        /\ {p \in Procs : proc[p].src = i} = {}
    BY <1>9, <2>1, FreshRests
  <2>3. {x \in Procs \X FileIds : proc[x[1]].file[x[2]].v = i} = {}
    <3>1. ASSUME NEW x \in Procs \X FileIds PROVE proc[x[1]].file[x[2]].v = None
      <4>1. x[1] \in Procs /\ x[2] \in FileIds
        OBVIOUS
      <4> QED
        BY <1>9, <4>1, FreshRests
    <3> QED
      BY <2>1, <3>1
  <2>4. Count({}) = 0
    BY FS_EmptySet DEF Count
  <2>5. CASE i = Root
    <3>1. {p \in Procs : proc[p].cwd = i} = Procs
      BY <1>9, <2>5, FreshRests
    <3>2. Count(Procs) = n
      BY <1>2 DEF Count
    <3>3. Owed(i) = 1 + n + 0 + 0 + 0 + 0
      BY <2>2, <2>3, <2>4, <2>5, <3>1, <3>2 DEF Owed
    <3> QED
      BY <1>3, <1>6, <1>8, <2>5, <3>3
  <2>6. CASE i # Root
    <3>1. {p \in Procs : proc[p].cwd = i} = {}
      BY <1>9, <2>6, FreshRests
    <3>2. Owed(i) = 0 + 0 + 0 + 0 + 0 + 0
      BY <2>2, <2>3, <2>4, <2>6, <3>1 DEF Owed
    <3>3. fs.vn[i].refs = 0
      BY <1>4, <1>8, <2>6 DEF On
    <3> QED
      BY <3>2, <3>3
  <2> QED
    BY <2>5, <2>6
<1>12. ASSUME NEW i \in Inodes, NEW p \in Procs PROVE fs.vn[i].lock = p <=> HeldBy(proc[p], i)
  <2>1. fs.vn[i].lock = None
    BY <1>4, <1>6, <1>8
  <2>2. i # None /\ p # None
    BY Numbers
  <2> QED
    BY <1>9, <2>1, <2>2, FreshRests DEF HeldBy
<1>13. Bounded
  BY Numbers DEF Init, Bounded
<1> QED
  BY <1>8, <1>9, <1>10, <1>11, <1>12, <1>13 DEF Exact

-----------------------------------------------------------------------------
(* The theorems.                                                             *)

LEMMA AlwaysExact == Spec => [](Exact /\ Bounded)
<1>1. Init => Exact /\ Bounded
  BY InitExact
<1>2. Exact /\ Bounded /\ [Next]_vars => (Exact /\ Bounded)'
  <2> SUFFICES ASSUME Exact, Bounded, [Next]_vars PROVE (Exact /\ Bounded)'
    OBVIOUS
  <2>1. CASE Next
    BY <2>1, NextExact, NextBounded
  <2>2. CASE UNCHANGED vars
    <3>1. fs' = fs /\ proc' = proc /\ calls' = calls /\ panic' = panic /\ raced' = raced /\ stray' = stray
      BY <2>2 DEF vars
    <3>2. Exact'
      BY <3>1, ExactStays
    <3>3. Bounded'
      BY <3>1 DEF Bounded
    <3> QED
      BY <3>2, <3>3
  <2> QED
    BY <2>1, <2>2
<1> QED
  BY <1>1, <1>2, PTL DEF Spec

LEMMA ProcTypes ==
  ASSUME Exact, NEW p \in Procs
  PROVE  /\ proc[p].at \in Inodes \cup {None} /\ proc[p].cwd \in Inodes
         /\ \A d \in Fds : proc[p].fds[d] \in 0 .. NFILES
         /\ \A f \in FileIds : /\ proc[p].file[f].refs = Count({d \in Fds : proc[p].fds[d] = f})
                               /\ proc[p].file[f].refs \in 0 .. NFILES
<1>1. PICK r : r = proc[p]
  OBVIOUS
<1>2. r.at \in Inodes \cup {None} /\ r.cwd \in Inodes /\ \E o : FilesOK(r, o)
  BY <1>1 DEF Exact, ProcOK, Busy, Resting
<1>3. /\ r.fds \in [Fds -> 0 .. NFILES]
      /\ \A f \in FileIds : r.file[f].refs = Count({d \in Fds : r.fds[d] = f})
  BY <1>2 DEF FilesOK
<1>4. IsFiniteSet(Fds) /\ Cardinality(Fds) = NFILES
  <2>1. PICK n : n = NFILES - 1
    OBVIOUS
  <2>2. n \in Int /\ ~(0 > n) /\ n - 0 + 1 = NFILES
    BY <2>1, Numbers
  <2>3. IsFiniteSet(0 .. n) /\ Cardinality(0 .. n) = NFILES
    BY <2>2, FS_Interval
  <2> QED
    BY <2>1, <2>3 DEF Fds
<1>5. ASSUME NEW f \in FileIds PROVE r.file[f].refs \in 0 .. NFILES
  <2>1. PICK D : D = {d \in Fds : r.fds[d] = f}
    OBVIOUS
  <2>2. D \subseteq Fds
    BY <2>1
  <2>3. IsFiniteSet(D) /\ Cardinality(D) <= Cardinality(Fds)
    BY <1>4, <2>2, FS_Subset
  <2>4. Cardinality(D) \in Nat
    BY <2>3, FS_CardinalityType
  <2>5. r.file[f].refs = Cardinality(D)
    BY <1>3, <2>1 DEF Count
  <2> QED
    BY <1>4, <2>3, <2>4, <2>5, Numbers
<1> QED
  BY <1>1, <1>2, <1>3, <1>5

\* The references of a vnode are those of the mount, of the working directories,
\* of the open files and of the calls under way, and those of a file object are
\* its descriptors: whatever calls of however many processes interleave, no path
\* through namev.c, open.c and vfs_syscall.c forgets a vput or an fput or does
\* one twice.
THEOREM ReferencesAreExact == Spec => []RefsExact
<1>1. Exact => RefsExact
  <2> SUFFICES ASSUME Exact PROVE RefsExact
    OBVIOUS
  <2>1. \A i \in Inodes : fs.vn[i].refs = Owed(i)
    BY DEF Exact
  <2>2. \A p \in Procs, f \in FileIds :
          proc[p].file[f].refs = Count({d \in Fds : proc[p].fds[d] = f})
    BY ProcTypes
  <2> QED
    BY <2>1, <2>2 DEF RefsExact, Owed
<1> QED
  BY <1>1, AlwaysExact, PTL

\* The mutex of a directory is held exactly by the call that makes or removes an
\* entry in it, so that no error path of s5fs_create, s5fs_mknod, s5fs_mkdir and
\* s5fs_rmdir returns with it, for any disk, processes and calls; and the state
\* stays well typed.
THEOREM MutexesAreExact == Spec => []LocksExact
<1>1. Exact /\ Bounded => LocksExact
  <2> SUFFICES ASSUME Exact, Bounded PROVE LocksExact
    OBVIOUS
  <2>1. FsOK(fs) /\ fs.ifree \in Inodes \cup {None}
    BY DEF Exact, FsOK
  <2>2. \A i \in Inodes : fs.vn[i].refs \in Nat /\ fs.vn[i].lock \in Procs \cup {None}
    BY <2>1, VnodeType
  <2>3. TypeOK
    BY <2>1, <2>2, ProcTypes DEF TypeOK, Bounded
  <2>4. \A i \in Inodes, p \in Procs :
          fs.vn[i].lock = p <=>
            proc[p].at = i /\ proc[p].pc \in {"link", "dot", "dotdot", "rmdir2"}
    BY DEF Exact, HeldBy, Locking
  <2> QED
    BY <2>3, <2>4 DEF LocksExact
<1> QED
  BY <1>1, AlwaysExact, PTL
=============================================================================
