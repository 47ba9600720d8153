--------------------------------- MODULE S5fs ---------------------------------
(***************************************************************************)
(* Vnodes (src/S5FS_wrapper/Weenix/kernel/fs/vnode.c) and the directory    *)
(* operations of s5fs (src/S5FS_wrapper/my_work/s5fs_subr.c, s5fs.c).  A   *)
(* file system s is a record: the fields of S5Blocks, the entries ent of   *)
(* every directory, and the vnodes vn:                                     *)
(*   in     the vnode is on vnode_inuse_list                               *)
(*   refs   vn_refcount without the references of resident pages           *)
(*   pages  it has resident pages                                          *)
(*   lock   the process that holds vn_mutex                                *)
(* Entries are what the page cache has.  Types are "dir", "data" and "chr" *)
(* (block devices are like character devices).                             *)
(***************************************************************************)
EXTENDS S5Blocks

CONSTANTS DirentsPerBlock   \* directory entries in a block (128)

NoVnode == [in |-> FALSE, refs |-> 0, pages |-> FALSE, lock |-> None]
Entry(name, i) == [name |-> name, i |-> i]

\* The file system after s5fs_mount: fs_root is referenced.
Mounted ==
  [Formatted(<<Entry(".", Root), Entry("..", Root)>>,
             Root :> [NoVnode EXCEPT !.in = TRUE, !.refs = 1] @@ [i \in Inodes |-> NoVnode])
     EXCEPT !.inode[Root].link = 2]

IsDir(s, i) == s.inode[i].type = "dir"

-----------------------------------------------------------------------------
(* Vnodes *)

\* A vnode of a free inode makes s5fs_read_vnode panic.
VgetPanics(s, i) == s.inode[i].type = "free"

\* vget: s5fs_read_vnode adds the link of the vnode.
vget(s, i) ==
  IF s.vn[i].in THEN [s EXCEPT !.vn[i].refs = @ + 1]
  ELSE [s EXCEPT !.vn[i] = [NoVnode EXCEPT !.in = TRUE, !.refs = 1],
                 !.inode[i].link = @ + 1]

vref(s, i) == [s EXCEPT !.vn[i].refs = @ + 1]

\* s5fs_delete_vnode
s5fs_delete_vnode(s, i) ==
  LET t == [s EXCEPT !.vn[i] = NoVnode, !.inode[i].link = @ - 1] IN
  IF t.inode[i].link = 0 THEN s5_free_inode(t, i) ELSE t

\* Mutant: the link of the vnode itself counts.
Mutants5fs_query_vnode(s, i) == s.inode[i].link > 0

s5fs_query_vnode(s, i) == s.inode[i].link > 1

\* vput: the last reference to a vnode without links drops its pages; a
\* vnode without references and pages is deleted.
vput(s, i) ==
  LET t == [s EXCEPT !.vn[i].refs = @ - 1] IN
  IF t.vn[i].refs > 0 \/ (t.vn[i].pages /\ s5fs_query_vnode(t, i)) THEN t
  ELSE s5fs_delete_vnode(t, i)

\* pageoutd takes the pages of a vnode: vput for every page.
PageOut(s, i) ==
  LET t == [s EXCEPT !.vn[i].pages = FALSE] IN
  IF t.vn[i].refs > 0 THEN t ELSE s5fs_delete_vnode(t, i)

-----------------------------------------------------------------------------
(* Directories *)

\* Positions of a name in a directory.
At(s, d, name) == {k \in 1 .. Len(s.ent[d]) : s.ent[d][k].name = name}

\* s5_find_dirent returns the first entry of that name, and inode 0, which
\* is the root, for the empty name (the path "/").
Found(s, d, name) == name = "" \/ At(s, d, name) # {}
s5_find_dirent(s, d, name) ==
  IF name = "" THEN Root ELSE s.ent[d][Min(At(s, d, name))].i

\* Reading makes pages resident.
ReadPages(s, d) == [s EXCEPT !.vn[d].pages = TRUE]

\* s5_write_file gets the pages of the first byte and of the one behind the
\* last, which makes the indirect block if one of them needs it.  That fails
\* out of range and on a full disk.
WriteFails(s, i, last) ==
  \/ last >= MaxPages
  \/ last >= S5_NDIRECT_BLOCKS /\ WithIndirect(s, i).inode[i].ind = 0

\* Then it dirties all pages from the first to the last.  A page that gets no
\* block stays in memory, and nobody is told.
DirtyPages(s, i, first, last) ==
  LET t == IF last >= S5_NDIRECT_BLOCKS THEN WithIndirect(s, i) ELSE s IN
  FoldLeft(LAMBDA u, k : s5_seek_to_block(u, i, k), t,
           [k \in 1 .. last - first + 1 |-> first + k - 1])

\* A write that fails on its last page keeps the indirect block that was made
\* for the first one.
Started(s, i, first) == IF first >= S5_NDIRECT_BLOCKS THEN WithIndirect(s, i) ELSE s

\* What changes is the list of free blocks and the blocks of the file: t has
\* them.
Written(s, i, t) ==
  [ReadPages(s, i) EXCEPT !.sb = t.sb, !.table = t.table,
                          !.inode[i].direct = t.inode[i].direct,
                          !.inode[i].ind = t.inode[i].ind]

s5_write_file(s, i, first, last) ==
  IF WriteFails(s, i, first) THEN s
  ELSE IF WriteFails(s, i, last) THEN Written(s, i, Started(s, i, first))
  ELSE Written(s, i, DirtyPages(s, i, first, last))

\* The page of the byte behind n entries.
PageOf(n) == n \div DirentsPerBlock

\* s5_link fails on a name that exists and when the entry cannot be written.
LinkFails(s, d, name) ==
  Found(s, d, name) \/ WriteFails(s, d, PageOf(Len(s.ent[d]) + 1))

\* s5_link: the entry is appended; "." does not count as a link.
s5_link(s, d, i, name) ==
  LET len == Len(s.ent[d]) IN
  [s5_write_file(s, d, PageOf(len), PageOf(len + 1)) EXCEPT
     !.ent[d] = Append(@, Entry(name, i)),
     !.inode[i].link = IF name = "." THEN @ ELSE @ + 1]

\* s5_remove_dirent: the last entry is written over the removed one, then the
\* inode of the removed entry loses a link.
WithoutEntry(ents, k) == Front([ents EXCEPT ![k] = Last(ents)])

s5_remove_dirent(s, d, name) ==
  LET k == Min(At(s, d, name))
      i == s.ent[d][k].i
      t == IF k < Len(s.ent[d]) THEN s5_write_file(s, d, PageOf(k - 1), PageOf(k))
           ELSE ReadPages(s, d)
      u == vget([t EXCEPT !.ent[d] = WithoutEntry(@, k)], i)
  IN  vput([u EXCEPT !.inode[i].link = @ - 1], i)
=============================================================================
