---------------------------------- MODULE Vfs ----------------------------------
(***************************************************************************)
(* The file system calls of Weenix (src/S5FS_wrapper/my_work/open.c,       *)
(* namev.c, vfs_syscall.c, s5fs.c) on one s5fs.  The kernel is not         *)
(* preemptive: a process runs until it waits for a mutex or for the disk.  *)
(* An action is what one process does between two such points that other   *)
(* processes can tell apart.  proc[p] is a process and its call:           *)
(*   cwd    p_cwd, fds p_files, file the file objects                      *)
(*   names  what is left of the path, to the second path of link           *)
(*   at     the directory reached (dir, parent), tgt the other vnode of    *)
(*          the call (vn, target), src from_node of do_link: references    *)
(*   fd     the descriptor do_open has taken                               *)
(*   mark   parent_link, blk the block a of s5fs_mkdir                     *)
(***************************************************************************)
EXTENDS S5fs

CONSTANTS
  Procs,
  Disks,      \* the file systems to start with, mounted and not used
  Calls,      \* the calls with a path: [op, abs, names, to]
  Spans,      \* first and last page of a write
  NFILES,     \* descriptors of a process
  MaxCalls    \* bound: calls made by all processes together

VARIABLES
  fs, proc,
  calls,      \* calls made
  panic,      \* "no", "assert" (a KASSERT fails), "free" (vget of a free inode)
  overlap,    \* history: two calls have overlapped
  raced,      \* history: inodes whose link count a removed directory spoils
  stray       \* history: inodes with an entry in a removed directory

vars == <<fs, proc, calls, panic, overlap, raced, stray>>

Fds == 0 .. NFILES - 1
FileIds == 1 .. NFILES
NoFile == [v |-> None, refs |-> 0, w |-> FALSE]
Idle(r) == [r EXCEPT !.pc = "idle", !.op = "none", !.names = <<>>, !.to = <<>>,
                     !.at = None, !.tgt = None, !.src = None, !.fd = None,
                     !.mark = 0, !.blk = 0]
Fresh == [pc |-> "idle", op |-> "none", names |-> <<>>, to |-> <<>>,
          at |-> None, tgt |-> None, src |-> None, fd |-> None, mark |-> 0, blk |-> 0,
          cwd |-> Root, fds |-> [d \in Fds |-> 0], file |-> [f \in FileIds |-> NoFile]]
Opens == {"open", "creat"}
TypeMade == [creat |-> "data", mkdir |-> "dir", mknod |-> "chr"]
Makes == DOMAIN TypeMade

\* The calls of vfs_syscall.c and open.c that take a path.
Ops == Opens \cup Makes \cup {"rmdir", "unlink", "chdir", "link"}

\* A file system as s5fs_mount leaves it: nobody but the mount uses a vnode,
\* and entries and lists have inodes of the disk.
Unused(s) ==
  /\ DOMAIN s = {"sb", "table", "inode", "ent", "vn", "ifree"}
  /\ s.vn \in [Inodes -> [in : BOOLEAN, refs : {0, 1}, pages : BOOLEAN, lock : {None}]]
  /\ \A i \in Inodes : s.vn[i].refs = (IF i = Root THEN 1 ELSE 0)
  /\ s.vn[Root].in
  /\ DOMAIN s.inode = Inodes
  /\ \A i \in Inodes : /\ DOMAIN s.inode[i] = {"type", "link", "direct", "ind", "next"}
                       /\ s.inode[i].next \in Inodes \cup {None}
  /\ s.ifree \in Inodes \cup {None}
  /\ DOMAIN s.ent = Inodes
  /\ \A d \in Inodes : /\ s.ent[d] \in Seq(Range(s.ent[d]))
                       /\ \A e \in Range(s.ent[d]) : e.i \in Inodes

ASSUME VfsAssumption ==
  /\ IsFiniteSet(Procs) /\ None \notin Procs
  /\ NFILES \in Nat \ {0} /\ MaxCalls \in Nat
  /\ \A c \in Calls : c.op \in Ops
  /\ \A s \in Disks : Unused(s)

Init ==
  /\ \E s \in Disks : fs = [s EXCEPT !.vn[Root].refs = 1 + Cardinality(Procs)]
  /\ proc = [p \in Procs |-> Fresh]
  /\ calls = 0 /\ panic = "no" /\ overlap = FALSE
  /\ raced = {} /\ stray = {}

\* The inodes that have a path from the root.
Reachable(s) ==
  LET r[n \in 0 .. NumInodes] ==
        IF n = 0 THEN {Root}
        ELSE r[n - 1] \cup UNION {{e.i : e \in Range(s.ent[d])} : d \in r[n - 1]}
  IN  r[NumInodes]

Dots == {".", ".."}
\* What keeps a directory without a path from the root allocated, or is kept
\* by it: the inodes it names, and itself if one of them is a directory.
Lost(s) ==
  LET gone == {i \in Inodes : IsDir(s, i)} \ Reachable(s)
      Named(d) == {e.i : e \in {x \in Range(s.ent[d]) : x.name \notin Dots}}
  IN  (UNION {Named(d) : d \in gone}) \cup
      {d \in gone : \E i \in Named(d) : IsDir(s, i)}

-----------------------------------------------------------------------------
(* Files of a process r *)

fref(r, f) == [r EXCEPT !.file[f].refs = @ + 1]

\* fput: the process, and the vnode it gives up.
fput(r, f) ==
  IF r.file[f].refs > 1
  THEN [r |-> [r EXCEPT !.file[f].refs = @ - 1], v |-> None]
  ELSE [r |-> [r EXCEPT !.file[f] = NoFile], v |-> r.file[f].v]

FdLeft(r) == \E d \in Fds : r.fds[d] = 0
get_empty_fd(r) == Min({d \in Fds : r.fds[d] = 0})

\* do_open takes a descriptor and a file object before it looks at the path,
\* and gives them back on an error.
TakeFd(r, w) ==
  LET d == get_empty_fd(r)
      f == Min({g \in FileIds : r.file[g].refs = 0})
  IN  [r EXCEPT !.fd = d, !.fds[d] = f, !.file[f] = [NoFile EXCEPT !.refs = 1, !.w = w]]
GiveFd(r) ==
  IF r.fd = None THEN r ELSE [fput(r, r.fds[r.fd]).r EXCEPT !.fds[r.fd] = 0]

-----------------------------------------------------------------------------
(* How a call goes on and ends *)

Panic(kind) == panic' = kind /\ UNCHANGED <<fs, proc>>

Go(p, r, s) ==
  /\ fs' = s
  /\ proc' = [proc EXCEPT ![p] = r]
  /\ UNCHANGED panic

\* The call returns; s is the file system when it has put its vnodes.
Finish(p, r, s) == Go(p, Idle(r), s)
Fail(p, r, s) == Finish(p, GiveFd(r), s)
Opened(p, r, s, i) == Finish(p, [r EXCEPT !.file[r.fds[r.fd]].v = i], s)

\* vput of a vnode that there may be: that of a file, and from_node of a link.
vput_if(s, v) == IF v = None THEN s ELSE vput(s, v)

\* dir_namev has come to r.at: the last name needs a directory; rmdir refuses
\* "." and "..".
Name(r) == IF r.names = <<>> THEN "" ELSE Head(r.names)
Arrive(p, r, s) ==
  IF Len(r.names) > 1 THEN Go(p, [r EXCEPT !.pc = "walk"], s)
  ELSE IF (r.names # <<>> /\ ~IsDir(s, r.at)) \/ (r.op = "rmdir" /\ Name(r) \in Dots)
  THEN Fail(p, r, vput_if(vput(s, r.at), r.src))
  ELSE Go(p, [r EXCEPT !.pc = IF r.op = "rmdir" THEN "rmdir" ELSE "look"], s)

Unlocked(d) == fs.vn[d].lock = None
Lock(s, d, p) == [s EXCEPT !.vn[d].lock = p]
Unlock(s, d) == [s EXCEPT !.vn[d].lock = None]

\* s5fs_lookup: under the mutex of the directory, the name and then vget.
s5fs_lookup(s, d, name) ==
  LET i == s5_find_dirent(s, d, name) IN
  IF ~Found(s, d, name) THEN [ret |-> "ENOENT", i |-> None, s |-> ReadPages(s, d)]
  ELSE IF VgetPanics(s, i) THEN [ret |-> "panic", i |-> i, s |-> s]
  ELSE [ret |-> "ok", i |-> i, s |-> vget(ReadPages(s, d), i)]

\* A call starts: the history variable sees whether another one is under way.
Starts(p) ==
  /\ panic = "no" /\ proc[p].pc = "idle" /\ calls < MaxCalls
  /\ calls' = calls + 1
  /\ overlap' = (overlap \/ \E q \in Procs \ {p} : proc[q].pc # "idle")
  /\ UNCHANGED <<raced, stray>>

\* The next step of a call; a quiet one removes and adds no name.
Inside(p, pc) == panic = "no" /\ proc[p].pc = pc /\ UNCHANGED <<calls, overlap>>
Quiet(p, pc) == Inside(p, pc) /\ UNCHANGED <<raced, stray>>

-----------------------------------------------------------------------------
(* Paths *)

\* A call with a path starts at the root or at the working directory.
Call(p, c) ==
  LET start == IF c.abs THEN Root ELSE proc[p].cwd
      r == [proc[p] EXCEPT !.op = c.op, !.names = c.names, !.to = c.to, !.at = start]
  IN  /\ Starts(p)
      /\ c.op \in Opens => FdLeft(r)
      /\ Arrive(p, IF c.op \in Opens THEN TakeFd(r, c.op = "creat") ELSE r,
                vref(fs, start))

\* dir_namev: the next directory of the path.
Walk(p) ==
  LET r == proc[p]
      l == s5fs_lookup(fs, r.at, Head(r.names))
  IN  /\ Quiet(p, "walk")
      /\ IF ~IsDir(fs, r.at) THEN Fail(p, r, vput_if(vput(fs, r.at), r.src))
         ELSE /\ Unlocked(r.at)
              /\ CASE l.ret = "ENOENT" -> Fail(p, r, vput_if(vput(l.s, r.at), r.src))
                   [] l.ret = "panic" -> Panic("free")
                   [] l.ret = "ok" -> Arrive(p, [r EXCEPT !.at = l.i, !.names = Tail(@)],
                                             vput(l.s, r.at))

-----------------------------------------------------------------------------
(* What a call does when lookup has found vnode i under its last name *)

\* do_open: a directory cannot be opened for writing.
OpenHit(p, r, s, i) ==
  IF r.op = "creat" /\ IsDir(s, i) THEN Fail(p, r, vput(vput(s, r.at), i))
  ELSE Opened(p, r, vput(s, r.at), i)

\* Mutant: an existing name is left to s5fs_mkdir and s5fs_mknod.
MutantExistsHit(p, r, s, i) == Go(p, [r EXCEPT !.pc = "make"], vput(s, i))

\* do_mkdir, do_mknod: EEXIST
ExistsHit(p, r, s, i) == Fail(p, r, vput(vput(s, i), r.at))

do_unlink(p, r, s, i) ==
  IF IsDir(s, i) THEN Fail(p, r, vput(vput(s, i), r.at))
  ELSE Go(p, [r EXCEPT !.pc = "unlink", !.tgt = i], s)

do_chdir(p, r, s, i) ==
  IF ~IsDir(s, i) THEN Fail(p, r, vput(vput(s, r.at), i))
  ELSE Finish(p, [r EXCEPT !.cwd = i], vput(vput(s, r.at), r.cwd))

\* do_link: from must be a directory; then the walk to the second path.  The
\* comparison with ENOENT never holds (lookup returns -ENOENT), so that the
\* call fails whether the name exists or not, and with it do_rename.
do_link(p, r, s, i) ==
  IF r.src # None THEN Fail(p, r, vput(vput(vput(s, r.src), r.at), i))
  ELSE IF ~IsDir(s, i) THEN Fail(p, r, vput(vput(s, r.at), i))
  ELSE Arrive(p, [r EXCEPT !.src = i, !.at = r.cwd, !.names = r.to],
              vref(vput(s, r.at), r.cwd))

\* The last name is looked up.
LookHit(p, r, s, i) ==
  CASE r.op \in Opens -> OpenHit(p, r, s, i)
    [] r.op \in {"mkdir", "mknod"} -> ExistsHit(p, r, s, i)
    [] r.op = "unlink" -> do_unlink(p, r, s, i)
    [] r.op = "chdir" -> do_chdir(p, r, s, i)
    [] r.op = "link" -> do_link(p, r, s, i)

Look(p) ==
  LET r == proc[p]
      l == s5fs_lookup(fs, r.at, Name(r))
  IN  /\ Quiet(p, "look") /\ Unlocked(r.at)
      /\ CASE l.ret = "ok" -> LookHit(p, r, l.s, l.i)
           [] l.ret = "panic" -> Panic("free")
           [] l.ret = "ENOENT" /\ r.op \in Makes -> Go(p, [r EXCEPT !.pc = "make"], l.s)
           [] l.ret = "ENOENT" /\ r.op \notin Makes ->
                Fail(p, r, vput(vput_if(l.s, r.src), r.at))

-----------------------------------------------------------------------------
(* s5fs_create, s5fs_mknod, s5fs_mkdir *)

\* The name is looked up once more, and a KASSERT fails if it is there.
Make(p) ==
  LET r == proc[p]
      l == s5fs_lookup(fs, r.at, Name(r))
  IN  /\ Quiet(p, "make") /\ Unlocked(r.at)
      /\ CASE l.ret = "ok" -> Panic("assert")
           [] l.ret = "panic" -> Panic("free")
           [] l.ret = "ENOENT" -> Go(p, [r EXCEPT !.pc = "alloc"], l.s)

Alloc(p) ==
  LET r == proc[p]
      a == s5_alloc_inode(fs, TypeMade[r.op])
  IN  /\ Inside(p, "alloc") /\ Unlocked(r.at)
      /\ UNCHANGED raced
      /\ IF a.i = None THEN Fail(p, r, vput(fs, r.at)) /\ UNCHANGED stray
         ELSE /\ Go(p, [r EXCEPT !.pc = "link", !.tgt = a.i,
                                 !.mark = fs.inode[r.at].link],
                    Lock(vget(a.s, a.i), r.at, p))
              /\ stray' = stray \ {a.i}

\* Mutant: the error path keeps the mutex.
MutantMakeFails(p, r, s) == Fail(p, r, vput(vput(s, r.tgt), r.at))

\* The mutex is released and the references of the call are dropped.
MakeFails(p, r, s) == Fail(p, r, vput(vput(Unlock(s, r.at), r.tgt), r.at))
MakeEnds(p, r, s) == Finish(p, r, vput(vput(Unlock(s, r.at), r.tgt), r.at))

\* The KASSERTs at the end: vn_refcount is 1, and for create s5_linkcount is 2.
IsNew(r, s) ==
  /\ s.vn[r.tgt].refs = 1 /\ ~s.vn[r.tgt].pages
  /\ r.op = "creat" => s.inode[r.tgt].link = 2

LinkName(p) ==
  LET r == proc[p]
      s == s5_link(fs, r.at, r.tgt, Name(r))
  IN  /\ Inside(p, "link") /\ UNCHANGED raced
      /\ IF LinkFails(fs, r.at, Name(r))
         THEN MakeFails(p, r, ReadPages(fs, r.at)) /\ UNCHANGED stray
         ELSE /\ stray' = stray \cup Lost(s)
              /\ CASE r.op = "mkdir" -> Go(p, [r EXCEPT !.pc = "dot"], s)
                   [] r.op # "mkdir" /\ ~IsNew(r, s) -> Panic("assert")
                   [] r.op = "creat" /\ IsNew(r, s) ->
                        Opened(p, r, vput(Unlock(s, r.at), r.at), r.tgt)
                   [] r.op = "mknod" /\ IsNew(r, s) -> MakeEnds(p, r, s)

Dot(p) ==
  LET r == proc[p]
      s == s5_link(fs, r.tgt, r.tgt, ".")
  IN  /\ Quiet(p, "dot")
      /\ IF LinkFails(fs, r.tgt, ".") THEN MakeFails(p, r, ReadPages(fs, r.tgt))
         ELSE Go(p, [r EXCEPT !.pc = "dotdot", !.blk = s.inode[r.tgt].direct[1]], s)

DotDot(p) ==
  LET r == proc[p]
      s == s5_link(fs, r.tgt, r.at, "..")
  IN  /\ Quiet(p, "dotdot")
      /\ IF LinkFails(fs, r.tgt, "..") THEN MakeFails(p, r, ReadPages(fs, r.tgt))
         ELSE IF /\ s.inode[r.tgt].direct[1] = r.blk
                 /\ s.inode[r.tgt].link = 2
                 /\ s.inode[r.at].link = r.mark + 1
         THEN MakeEnds(p, r, s)
         ELSE Panic("assert")

-----------------------------------------------------------------------------
(* s5fs_rmdir, s5fs_unlink *)

\* Mutant: the directory that is not empty is not put.
MutantRmdirTarget(p, r, s, i) ==
  IF ~IsDir(s, i) THEN Fail(p, r, vput(vput(s, i), r.at))
  ELSE IF Len(s.ent[i]) > 2 THEN Fail(p, r, vput(s, r.at))
  ELSE Go(p, [r EXCEPT !.pc = "rmdir2", !.tgt = i], Lock(s, r.at, p))

\* Only the number of entries of the directory is looked at, without its mutex.
RmdirTarget(p, r, s, i) ==
  IF ~IsDir(s, i) \/ Len(s.ent[i]) > 2 THEN Fail(p, r, vput(vput(s, i), r.at))
  ELSE Go(p, [r EXCEPT !.pc = "rmdir2", !.tgt = i], Lock(s, r.at, p))

Rmdir(p) ==
  LET r == proc[p]
      l == s5fs_lookup(fs, r.at, Name(r))
  IN  /\ Quiet(p, "rmdir") /\ Unlocked(r.at)
      /\ CASE l.ret = "ENOENT" -> Fail(p, r, vput(l.s, r.at))
           [] l.ret = "panic" -> Panic("free")
           [] l.ret = "ok" -> RmdirTarget(p, r, l.s, l.i)

\* Mutant: the parent keeps the link of "..".
MutantRmdir2(p) ==
  LET r == proc[p]
      s == s5_remove_dirent(fs, r.at, Name(r))
  IN  /\ Inside(p, "rmdir2")
      /\ IF At(fs, r.at, Name(r)) = {}
         THEN MakeFails(p, r, fs) /\ UNCHANGED stray
         ELSE MakeEnds(p, r, s) /\ stray' = stray \cup Lost(s)
      /\ UNCHANGED raced

\* s5_remove_dirent does not find the empty name (path "/"); the parent loses
\* the link of "..".
Rmdir2(p) ==
  LET r == proc[p]
      s == [s5_remove_dirent(fs, r.at, Name(r)) EXCEPT !.inode[r.at].link = @ - 1]
  IN  /\ Inside(p, "rmdir2")
      /\ IF At(fs, r.at, Name(r)) = {}
         THEN MakeFails(p, r, fs) /\ UNCHANGED stray
         ELSE MakeEnds(p, r, s) /\ stray' = stray \cup Lost(s)
      /\ UNCHANGED raced

\* The entry that is removed may be another one than do_unlink has looked up.
Unlink(p) ==
  LET r == proc[p]
      i == s5_find_dirent(fs, r.at, Name(r))
      s == s5_remove_dirent(fs, r.at, Name(r))
  IN  /\ Inside(p, "unlink") /\ Unlocked(r.at)
      /\ IF At(fs, r.at, Name(r)) = {}
         THEN /\ Fail(p, r, vput(vput(ReadPages(fs, r.at), r.at), r.tgt))
              /\ UNCHANGED <<raced, stray>>
         ELSE IF VgetPanics(fs, i) THEN Panic("free") /\ UNCHANGED <<raced, stray>>
         ELSE /\ Finish(p, r, vput(vput(s, r.at), r.tgt))
              /\ stray' = stray \cup Lost(s)
              /\ raced' = raced \cup (IF IsDir(fs, i) THEN {r.at} ELSE {})
                                \cup (IF r.at \in Reachable(fs) THEN {} ELSE {i})

-----------------------------------------------------------------------------
(* Calls with a descriptor *)

Open(p) == {d \in Fds : proc[p].fds[d] # 0}

do_close(p, d) ==
  LET t == fput(proc[p], proc[p].fds[d]) IN
  /\ Starts(p) /\ d \in Open(p)
  /\ Finish(p, [t.r EXCEPT !.fds[d] = 0], vput_if(fs, t.v))

do_dup(p, d) ==
  LET f == proc[p].fds[d] IN
  /\ Starts(p) /\ d \in Open(p) /\ FdLeft(proc[p])
  /\ Go(p, [fref(proc[p], f) EXCEPT !.fds[get_empty_fd(proc[p])] = f], fs)

\* The descriptor that is replaced is closed first.
do_dup2(p, d, nfd) ==
  LET f == proc[p].fds[d]
      r == fref(proc[p], f)
      t == IF r.fds[nfd] = 0 THEN [r |-> r, v |-> None] ELSE fput(r, r.fds[nfd])
  IN  /\ Starts(p) /\ d \in Open(p) /\ nfd # d
      /\ Finish(p, [t.r EXCEPT !.fds[nfd] = f], vput_if(fs, t.v))

\* do_write on a data file that is open for writing, under its mutex.
do_write(p, d, span) ==
  LET f == proc[p].file[proc[p].fds[d]] IN
  /\ Starts(p) /\ d \in Open(p) /\ f.w /\ fs.inode[f.v].type = "data"
  /\ Go(p, proc[p], s5_write_file(fs, f.v, span[1], span[2]))

\* pageoutd evicts the pages of a vnode.  A directory keeps them while one has
\* no block: what it would lose is not modelled.
Backed(s, d) ==
  \A k \in 0 .. PageOf(Len(s.ent[d]) - 1) : HasBlock(s, d, k)
pageoutd(i) ==
  /\ panic = "no" /\ fs.vn[i].in /\ fs.vn[i].pages
  /\ IsDir(fs, i) => Backed(fs, i)
  /\ fs' = PageOut(fs, i)
  /\ UNCHANGED <<proc, calls, panic, overlap, raced, stray>>

-----------------------------------------------------------------------------
Next ==
  \/ \E p \in Procs :
       \/ \E c \in Calls : Call(p, c)
       \/ Walk(p) \/ Look(p)
       \/ Make(p) \/ Alloc(p) \/ LinkName(p) \/ Dot(p) \/ DotDot(p)
       \/ Rmdir(p) \/ Rmdir2(p) \/ Unlink(p)
       \/ \E d \in Fds : do_close(p, d) \/ do_dup(p, d)
       \/ \E d, nfd \in Fds : do_dup2(p, d, nfd)
       \/ \E d \in Fds, span \in Spans : do_write(p, d, span)
  \/ \E i \in Inodes : pageoutd(i)

Spec == Init /\ [][Next]_vars

-----------------------------------------------------------------------------
(* Properties *)

\* The vnodes, the calls and the files stay in their ranges.
TypeOK ==
  /\ fs.ifree \in Inodes \cup {None}
  /\ \A i \in Inodes : /\ fs.vn[i].refs \in Nat
                       /\ fs.vn[i].lock \in Procs \cup {None}
  /\ \A p \in Procs : /\ proc[p].at \in Inodes \cup {None} /\ proc[p].cwd \in Inodes
                      /\ \A d \in Fds : proc[p].fds[d] \in 0 .. NFILES
                      /\ \A f \in FileIds : proc[p].file[f].refs \in 0 .. NFILES
  /\ panic \in {"no", "assert", "free"} /\ calls \in 0 .. MaxCalls
  /\ raced \subseteq Inodes /\ stray \subseteq Inodes

\* Every block of the disk is exactly once on the chained free list or in one
\* inode: s5_alloc_block, s5_free_block and s5_free_inode neither lose a block
\* nor give one away twice, also when a node of the chain is used up or a call
\* fails half way on a full disk.
FreeChain(s) ==
  LET c[k \in 0 .. NumBlocks] ==
        IF k = 0 THEN s.sb.free[N]
        ELSE IF c[k - 1] = None THEN None ELSE s.sb.node[c[k - 1]][N]
  IN  SelectSeq([k \in 1 .. NumBlocks |-> c[k - 1]], LAMBDA b : b # None)

BlocksExact ==
  LET chain == FreeChain(fs)
      inner == FlattenSeq([k \in 1 .. Len(chain) |-> SubSeq(fs.sb.node[chain[k]], 1, N - 1)])
      owned == FlattenSeq([i \in 1 .. NumInodes |-> BlocksOf(fs, i - 1)])
      all == SubSeq(fs.sb.free, 1, fs.sb.nfree) \o chain \o inner \o owned
  IN  /\ fs.sb.nfree \in 0 .. N - 1
      /\ Len(all) = NumBlocks /\ Range(all) = Blocks

\* What s5fs_check_refcounts expects, in every state: the link count of an
\* inode that has a path, without the link of its vnode, is the number of its
\* entries other than ".".  The exception is what the stale check of do_unlink
\* spoils: the parent of a directory that unlink removed.  No count
\* ever falls below zero.
LinksExact ==
  LET live == Reachable(fs) IN
  /\ \A i \in Inodes : fs.inode[i].link \in Nat
  /\ \A i \in live \ raced :
       fs.inode[i].link - (IF fs.vn[i].in THEN 1 ELSE 0) =
         Cardinality({x \in live \X (1 .. 2 * DirentsPerBlock * MaxPages) :
                        /\ x[2] <= Len(fs.ent[x[1]])
                        /\ fs.ent[x[1]][x[2]].i = i /\ fs.ent[x[1]][x[2]].name # "."})

\* The references of a vnode are the root of the mount, the working
\* directories, the open files and what the calls under way hold: no path
\* through namev.c, open.c and vfs_syscall.c forgets a vput or does one twice.
\* A file object has one reference for each descriptor.
Count(S) == Cardinality(S)
RefsExact ==
  /\ \A i \in Inodes :
       fs.vn[i].refs = (IF i = Root THEN 1 ELSE 0)
         + Count({p \in Procs : proc[p].cwd = i}) + Count({p \in Procs : proc[p].at = i})
         + Count({p \in Procs : proc[p].tgt = i}) + Count({p \in Procs : proc[p].src = i})
         + Count({x \in Procs \X FileIds : proc[x[1]].file[x[2]].v = i})
  /\ \A p \in Procs, f \in FileIds :
       proc[p].file[f].refs = Count({d \in Fds : proc[p].fds[d] = f})

\* Nothing leaks: an inode is in use only if it has a path, is referenced, or
\* was named in a directory that is gone; and every path leads to an inode in
\* use, so that vget of a free inode needs the ".." of a removed directory.
UnusedIsFree ==
  LET live == Reachable(fs)
      used == {i \in Inodes : fs.inode[i].type # "free"}
  IN  /\ live \subseteq used
      /\ \A i \in used : i \in live \/ fs.vn[i].refs > 0 \/ i \in stray

\* The mutex of a directory is held exactly by the call that makes or removes
\* an entry in it: no error path of s5fs_create, s5fs_mknod, s5fs_mkdir and
\* s5fs_rmdir returns with it.  And the state is well typed.
LocksExact ==
  /\ TypeOK
  /\ \A i \in Inodes, p \in Procs :
       fs.vn[i].lock = p <=>
         proc[p].at = i /\ proc[p].pc \in {"link", "dot", "dotdot", "rmdir2"}

\* The assertions of s5fs_create, s5fs_mknod and s5fs_mkdir hold as long as no
\* two calls overlap.  (When they do, "must be non-exist" fails if both make
\* the same name, and those of s5fs_mkdir on the block and on the link count of
\* the parent if the other one frees blocks or removes the parent.)
AssertsHoldAlone == panic = "assert" => overlap
=============================================================================
