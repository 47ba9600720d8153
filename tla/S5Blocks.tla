------------------------------- MODULE S5Blocks -------------------------------
(***************************************************************************)
(* Blocks and inodes of s5fs (src/S5FS_wrapper/my_work/s5fs_subr.c): the   *)
(* chained list of free blocks in the super block, the list of free        *)
(* inodes, and the direct and indirect blocks of an inode.  The operators  *)
(* map a file system s to the file system after the call; each call that   *)
(* changes the lists runs under s5f_mutex.                                 *)
(***************************************************************************)
EXTENDS Integers, Sequences, SequencesExt, FiniteSets, TLC

CONSTANTS
  S5_NBLKS_PER_FNODE,   \* entries of a node of the free-block list (30)
  S5_NDIRECT_BLOCKS,    \* direct blocks of an inode (28)
  S5_NIDIRECT_BLOCKS,   \* entries of an indirect block (1024)
  NumBlocks, NumInodes  \* size of the disk

ASSUME S5Assumption ==
  /\ S5_NBLKS_PER_FNODE \in Nat \ {0, 1} /\ NumInodes \in Nat \ {0}
  /\ S5_NDIRECT_BLOCKS \in Nat \ {0} /\ S5_NIDIRECT_BLOCKS \in Nat \ {0}
  /\ NumBlocks \in Nat \ {0}

Blocks == 1 .. NumBlocks
Inodes == 0 .. NumInodes - 1
Root == 0
None == -1         \* the end marker of both lists
N == S5_NBLKS_PER_FNODE
MaxPages == S5_NDIRECT_BLOCKS + S5_NIDIRECT_BLOCKS

Times(n, x) == SubSeq([k \in 1 .. n |-> x], 1, n)
NoTable == Times(S5_NIDIRECT_BLOCKS, 0)
NoBlocks == Times(S5_NDIRECT_BLOCKS, 0)
FreeInode(next) == [type |-> "free", link |-> 0, direct |-> NoBlocks, ind |-> 0,
                    next |-> next]

-----------------------------------------------------------------------------
(* Blocks: sb is the list of free blocks.  s5s_free_blocks (free) has nfree *)
(* blocks and, in its last entry, the block that holds the next node.       *)
(* Dead data is 0: the entries from nfree on, the node in a block that is   *)
(* in use, the table of a free block.                                       *)

NodeLinkedTo(b) == Append(Times(N - 1, 0), b)
NoNode == NodeLinkedTo(0)

\* Mutant: the full node is copied, but the new one is not linked to it.
Mutants5_free_block(sb, b) ==
  IF sb.nfree = N - 1
  THEN [sb EXCEPT !.node[b] = sb.free, !.nfree = 0, !.free = NodeLinkedTo(sb.free[N])]
  ELSE [sb EXCEPT !.free[sb.nfree + 1] = b, !.nfree = @ + 1]

s5_free_block(sb, b) ==
  IF sb.nfree = N - 1
  THEN [sb EXCEPT !.node[b] = sb.free, !.nfree = 0, !.free = NodeLinkedTo(b)]
  ELSE [sb EXCEPT !.free[sb.nfree + 1] = b, !.nfree = @ + 1]

\* The block, and what is left; no block when the disk is full.
s5_alloc_block(s) ==
  LET sb == s.sb
      last == sb.free[N]
  IN  IF sb.nfree > 0
      THEN [b |-> sb.free[sb.nfree],
            s |-> [s EXCEPT !.sb.nfree = @ - 1, !.sb.free[sb.nfree] = 0]]
      ELSE IF last = None THEN [b |-> 0, s |-> s]
      ELSE [b |-> last, s |-> [s EXCEPT !.sb.free = sb.node[last], !.sb.nfree = N - 1,
                                        !.sb.node[last] = NoNode]]

\* s5_seek_to_block, indirect part: the indirect block is made on demand.
WithIndirect(s, i) ==
  IF s.inode[i].ind # 0 THEN s
  ELSE LET a == s5_alloc_block(s) IN
       IF a.b = 0 THEN s
       ELSE [a.s EXCEPT !.inode[i].ind = a.b, !.table[a.b] = NoTable]

\* s5_seek_to_block with alloc: page k of the file gets a block if it has
\* none and there is one.
s5_seek_to_block(s, i, k) ==
  IF k < S5_NDIRECT_BLOCKS
  THEN IF s.inode[i].direct[k + 1] # 0 THEN s
       ELSE LET a == s5_alloc_block(s) IN
            IF a.b = 0 THEN s ELSE [a.s EXCEPT !.inode[i].direct[k + 1] = a.b]
  ELSE LET t == WithIndirect(s, i)
           ind == t.inode[i].ind
           j == k - S5_NDIRECT_BLOCKS + 1
       IN  IF ind = 0 \/ t.table[ind][j] # 0 THEN t
           ELSE LET a == s5_alloc_block(t) IN
                IF a.b = 0 THEN t ELSE [a.s EXCEPT !.table[ind][j] = a.b]

HasBlock(s, i, k) ==
  IF k < S5_NDIRECT_BLOCKS THEN s.inode[i].direct[k + 1] # 0
  ELSE s.inode[i].ind # 0 /\ s.table[s.inode[i].ind][k - S5_NDIRECT_BLOCKS + 1] # 0

-----------------------------------------------------------------------------
(* Inodes *)

s5_alloc_inode(s, type) ==
  IF s.ifree = None THEN [i |-> None, s |-> s]
  ELSE [i |-> s.ifree,
        s |-> [s EXCEPT !.ifree = s.inode[s.ifree].next,
                        !.inode[s.ifree] = [FreeInode(0) EXCEPT !.type = type]]]

Used(seq) == SelectSeq(seq, LAMBDA b : b # 0)

\* The blocks of an inode, in the order in which s5_free_inode frees them.
\* A device has no blocks: its s5_indirect_block is the device id.
BlocksOf(s, i) ==
  LET v == s.inode[i] IN
  Used(v.direct) \o
  (IF v.type = "chr" \/ v.ind = 0 THEN <<>> ELSE Append(Used(s.table[v.ind]), v.ind))

s5_free_inode(s, i) ==
  LET ind == s.inode[i].ind IN
  [s EXCEPT !.sb = FoldLeft(s5_free_block, @, BlocksOf(s, i)),
            !.table = IF ind = 0 THEN @ ELSE [@ EXCEPT ![ind] = NoTable],
            !.inode[i] = FreeInode(s.ifree), !.ifree = i, !.ent[i] = <<>>]

-----------------------------------------------------------------------------
(* The disk as fsmaker formats it: all blocks freed in turn, all inodes in *)
(* order, and the root directory with its first block.                     *)

Formatted(entries, nodes) ==
  LET empty == [nfree |-> 0, free |-> NodeLinkedTo(None), node |-> Times(NumBlocks, NoNode)]
      disk == s5_alloc_block(
                [sb |-> FoldLeft(s5_free_block, empty, [b \in Blocks |-> b]),
                 table |-> Times(NumBlocks, NoTable),
                 inode |-> Root :> FreeInode(0), ent |-> Root :> entries, vn |-> nodes,
                 ifree |-> IF NumInodes = 1 THEN None ELSE 1])
      root == [FreeInode(0) EXCEPT !.type = "dir", !.link = 1, !.direct[1] = disk.b]
  IN  [disk.s EXCEPT
         !.inode = Root :> root @@
           [i \in Inodes |-> FreeInode(IF i = NumInodes - 1 THEN None ELSE i + 1)],
         !.ent = @ @@ [i \in Inodes |-> <<>>]]
=============================================================================
