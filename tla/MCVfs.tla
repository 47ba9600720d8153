--------------------------------- MODULE MCVfs ---------------------------------
(***************************************************************************)
(* Two processes on a disk of a few blocks.                                *)
(***************************************************************************)
EXTENDS Vfs

CONSTANTS nameA, nameB, p1, p2

MCProcs == {p1, p2}
MCSpans == {<<0, 0>>, <<0, 2>>, <<2, 3>>}
Path(op, names) == [op |-> op, abs |-> FALSE, names |-> names, to |-> <<>>]
MCCalls ==
  {Path("creat", <<nameA>>), Path("mkdir", <<nameA>>), Path("creat", <<nameA, nameB>>),
   Path("mkdir", <<nameA, nameB>>), Path("rmdir", <<nameA>>), Path("unlink", <<nameA>>),
   Path("unlink", <<nameA, nameB>>), Path("chdir", <<nameA>>), Path("open", <<"..", nameA>>),
   Path("mknod", <<nameB>>), Path("chdir", <<nameA, nameB>>), Path("rmdir", <<nameA, nameB>>),
   [op |-> "chdir", abs |-> TRUE, names |-> <<>>, to |-> <<>>],
   [op |-> "link", abs |-> FALSE, names |-> <<nameA>>, to |-> <<nameB>>]}

\* The directory name in d of s, as mkdir leaves it.
WithDir(s, d, name) ==
  LET t == s5_alloc_inode(vget(s, d), "dir")
      u == s5_link(vget(t.s, t.i), d, t.i, name)
      v == s5_link(s5_link(u, t.i, t.i, "."), t.i, d, "..")
  IN  PageOut(vput(PageOut(vput(v, t.i), t.i), d), d)

\* An empty disk, and one with the directories a and a/b.
MCDisks == {Mounted, WithDir(WithDir(Mounted, Root, nameA), 1, nameB)}

Symmetry == Permutations(MCProcs)
=============================================================================
