------------------------------- MODULE Files --------------------------------
(***************************************************************************)
(* The file layer of xtkernel/fs.c with the ram disk's tar archive and the *)
(* device file system below it: the tree of path nodes, mounting, opening  *)
(* files and listing directories.  Contents and locking are in other       *)
(* modules (RWLock, FAT).  A path is a sequence of names of equal length.  *)
(*                                                                         *)
(* xtFindPathNode steps over the terminating zero of a path that ends at a *)
(* node and reads what is behind it: old names in the buffer, if           *)
(* xtNormalizePath has cut it, then bytes nobody has written (`stale').    *)
(***************************************************************************)
EXTENDS Devices

CONSTANTS
    Components,     \* names that paths are made of
    MaxDepth,       \* bound on the components of a path
    BufferSize,     \* of xtOpenFile, in characters, for names of one character
    Stale,          \* sequences of names that may be found behind a path
    Archive,        \* the ram disk, block by block: the path each seems to name
    DirLength,      \* entries that the driver's ReadDirectory has
    MaxNodes        \* bound on the path nodes

FileSystems == {"tarfs", "devfs", "vfat"}
NoFS == "none"
Dot == "."
DotDot == ".."
Paths == SeqOf(Components \cup {Dot, DotDot}, MaxDepth)

ASSUME FilesAssumption ==
    /\ MaxDepth \in Nat /\ BufferSize \in Nat /\ DirLength \in Nat /\ MaxNodes \in Nat \ {0}
    /\ Stale \subseteq Seq(Components)

VARIABLES
    filesystems,    \* the registered file systems
    nodes,          \* the path nodes in the order of creation: parent, name, mp->fs
    file,           \* mountPoint of an open file, or NoFile
    dir             \* the directory being listed: node, pos; history: what it has yet to list,
                    \*   and what the last listing had not listed at its end

fileVars == <<filesystems, nodes, file, dir>>
vars == <<devVars, fileVars>>

NoFile == 0
NoDir == [node |-> 0, pos |-> 0, due |-> {}, missed |-> {}]

TypeOK ==
    /\ DevTypeOK
    /\ filesystems \subseteq FileSystems
    /\ \A n \in DOMAIN nodes :
          /\ nodes[n].parent \in 0..(n - 1) /\ nodes[n].parent = 0 <=> n = 1
          /\ nodes[n].fs \in filesystems \cup {NoFS}
    /\ file \in 0..Len(nodes) /\ dir.node \in 0..Len(nodes)

xtCreatePathNode(parent, name, fs) == [parent |-> parent, name |-> name, fs |-> fs]

(***************************************************************************)
(* xtFileSystemInit: the root, with the static rootMP.  The start-up code  *)
(* registers tarfs and devfs before anything is mounted.                   *)
(***************************************************************************)
Init ==
    /\ DevInit
    /\ filesystems = {"tarfs", "devfs"}
    /\ nodes = <<xtCreatePathNode(0, NoName, NoFS)>>
    /\ file = NoFile
    /\ dir = NoDir

xtRegisterFileSystem(fs) ==
    /\ fs \notin filesystems
    /\ filesystems' = filesystems \cup {fs}
    /\ UNCHANGED <<devVars, nodes, file, dir>>

-----------------------------------------------------------------------------
(* The children of a node; its list has them in the order of creation, so   *)
(* the position of one is the number of those before it.                    *)
Children(n) == {i \in DOMAIN nodes : nodes[i].parent = n}
Position(n, i) == Cardinality({j \in Children(n) : j < i})
Child(n, name) == {i \in Children(n) : nodes[i].name = name}

(* The node reached from n along the names, and how many of them it took. *)
Further(at, name) ==
    IF Child(at.node, name) = {} THEN at
    ELSE [node |-> Min(Child(at.node, name)), taken |-> at.taken + 1]
Walk(n, names) ==
    LET at[k \in 0..Len(names)] ==
            IF k = 0 THEN [node |-> n, taken |-> 0]
            ELSE LET was == at[k - 1] IN
                 IF was.taken < k - 1 THEN was ELSE Further(was, names[k])
    IN  at[Len(names)]

LeftOf(names, taken) == SubSeq(names, taken + 1, Len(names))

(* behind: the names found behind the zero, each ended by another zero. *)
xtFindPathNode(path, behind) ==
    LET at == Walk(1, path)
        on == Walk(at.node, behind)
    IN  IF path = <<>> \/ at.taken < Len(path)
        THEN [node |-> at.node, left |-> LeftOf(path, at.taken)]
        ELSE [node |-> on.node,
              left |-> IF on.taken < Len(behind) THEN <<behind[on.taken + 1]>> ELSE <<>>]

(***************************************************************************)
(* xtNormalizePath.  Going up writes a zero and leaves the name behind it. *)
(***************************************************************************)
StayAtOne(path) == IF Len(path) <= 1 THEN path ELSE Front(path)
GoUp(path) == IF path = <<>> THEN path ELSE Front(path)

xtNormalizePath(path) ==
    LET Add(b, name) ==
            LET n == Len(b.path) IN
            CASE name = Dot \/ b.error -> b
              [] name = DotDot /\ ~b.error ->
                    [b EXCEPT !.path = GoUp(b.path),
                              !.cut = IF n > 0 THEN <<Last(b.path)>> \o b.cut ELSE b.cut]
              [] OTHER -> IF 2 * (n + 1) >= BufferSize THEN [b EXCEPT !.error = TRUE]
                          ELSE [b EXCEPT !.path = Append(b.path, name),
                                         !.cut = IF b.cut = <<>> THEN <<>> ELSE Tail(b.cut)]
    IN  FoldLeft(Add, [path |-> <<>>, cut |-> <<>>, error |-> FALSE], path)

Normalized == [path \in Paths |-> xtNormalizePath(path)]

Registered(fs) == fs \in filesystems

(***************************************************************************)
(* xtMount, called with a path as it stands (`behind' it whatever          *)
(* follows).  A mount on an existing node keeps its XTMountPoint and       *)
(* changes file system and device even if the driver's Mount fails; a node *)
(* for a mount that fails is not put into the tree.                        *)
(***************************************************************************)
xtMount(path, fs, behind, works) == LET at == xtFindPathNode(path, behind) IN
    /\ Registered(fs)                       \* else XT_NOT_FOUND
    /\ works \/ fs = "vfat"                 \* the only Mount that can fail
    /\ \/ /\ at.left = <<>>
          /\ nodes' = [nodes EXCEPT ![at.node].fs = fs]
       \/ /\ Len(at.left) = 1 /\ works      \* xtCheckName, else XT_BAD_NAME
          /\ Len(nodes) < MaxNodes
          /\ nodes' = Append(nodes, xtCreatePathNode(at.node, at.left[1], fs))
    /\ UNCHANGED <<devVars, filesystems, file, dir>>

-----------------------------------------------------------------------------
(* The drivers' OpenFile; vfat is in module FAT and finds anything here. *)
tarOpenFile(left) == \E i \in DOMAIN Archive : Archive[i] = left
devfsOpenFile(left) == Len(left) = 1 /\ xtFindDevice(left[1])
OpenFile(fs, left) ==
    CASE fs = "tarfs" -> tarOpenFile(left)
      [] fs = "devfs" -> devfsOpenFile(left)
      [] OTHER -> TRUE

xtOpenFile(path, stale) ==
    LET buff == Normalized[path]
        at == xtFindPathNode(buff.path, buff.cut \o stale)
    IN  /\ ~damaged
        /\ file = NoFile /\ dir = NoDir        \* one file or listing at a time
        /\ ~buff.error                      \* else XT_OUT_OF_BOUNDARY
        /\ nodes[at.node].fs # NoFS         \* else XT_NOT_IMPLEMENTED
        /\ OpenFile(nodes[at.node].fs, at.left)
        /\ file' = at.node
        /\ UNCHANGED <<devVars, filesystems, nodes, dir>>

xtCloseFile ==
    /\ file # NoFile
    /\ file' = NoFile
    /\ UNCHANGED <<devVars, filesystems, nodes, dir>>

(***************************************************************************)
(* xtOpenDirectory and xtReadDirectory: the children of the node first,    *)
(* then what the driver lists from dir->pos on.  Only vfat lists.          *)
(***************************************************************************)
xtOpenDirectory(path, behind) == LET at == xtFindPathNode(path, behind) IN
    /\ file = NoFile /\ dir = NoDir
    /\ nodes[at.node].fs = "vfat"           \* else XT_NOT_IMPLEMENTED
    /\ dir' = [NoDir EXCEPT !.node = at.node,
                            !.due = {<<"node", n>> : n \in Children(at.node)}
                                    \cup {<<"entry", k>> : k \in 1..DirLength}]
    /\ UNCHANGED <<devVars, filesystems, nodes, file>>

NextPosUnreduced(pos, length) == pos + length + 1
NextPos(pos, length) == pos - length + (length + 1)

xtReadDirectory ==
    LET length == Cardinality(Children(dir.node))
    IN  /\ dir.node # 0 /\ nodes[dir.node].fs = "vfat"
        /\ \/ \E i \in Children(dir.node) :
              /\ Position(dir.node, i) = dir.pos
              /\ dir' = [dir EXCEPT !.pos = @ + 1, !.due = @ \ {<<"node", i>>}]
           \/ /\ dir.pos >= length /\ dir.pos - length < DirLength
              /\ dir' = [dir EXCEPT !.pos = NextPos(@, length),
                                    !.due = @ \ {<<"entry", dir.pos - length + 1>>}]
           \/ /\ dir.pos >= length /\ dir.pos - length >= DirLength     \* XT_END_OF_FILE
              /\ dir' = [NoDir EXCEPT !.missed = dir.due]
        /\ UNCHANGED <<devVars, filesystems, nodes, file>>

FilesNext ==
    \/ \E fs \in FileSystems : xtRegisterFileSystem(fs)
    \/ \E path \in SeqOf(Components, MaxDepth), fs \in FileSystems,
          behind \in Stale, works \in BOOLEAN : xtMount(path, fs, behind, works)
    \/ \E path \in Paths, stale \in Stale : xtOpenFile(path, stale)
    \/ xtCloseFile
    \/ \E path \in SeqOf(Components, MaxDepth), behind \in Stale : xtOpenDirectory(path, behind)
    \/ xtReadDirectory

Next == FilesNext \/ (DevNext /\ UNCHANGED fileVars)

Spec == Init /\ [][Next]_vars

-----------------------------------------------------------------------------
(* Reference: the node of the longest prefix of the path that is mounted. *)
IsNode(path) == Walk(1, path).taken = Len(path)
NodeOf(path) == Walk(1, path).node
Prefix(path, k) == SubSeq(path, 1, k)
Cancel(path, name) ==
    CASE name = Dot -> path
      [] name = DotDot -> IF path = <<>> THEN path ELSE Front(path)
      [] OTHER -> Append(path, name)
Up == [path \in Paths |-> FoldLeft(Cancel, <<>>, path)]

(***************************************************************************)
(* A path that does not end at a path node itself is opened in the deepest *)
(* node above it, with the rest of the path, whatever is behind it in the  *)
(* buffer (fs.c:81-119, 121-201, 283-328).                                 *)
(***************************************************************************)
OpensInDeepestMount == \A path \in Paths, stale \in Stale :
    LET buff == Normalized[path]
        at == xtFindPathNode(buff.path, buff.cut \o stale)
        goal == Up[path]
        depth == Max({k \in 0..Len(goal) : IsNode(Prefix(goal, k))})
    IN  ~buff.error /\ ~IsNode(goal) =>
            at.node = NodeOf(Prefix(goal, depth)) /\ at.left = LeftOf(goal, depth)

(***************************************************************************)
(* No two children of a node have the same name, though the name under     *)
(* which a node is created may come from behind the path (fs.c:463-489).   *)
(***************************************************************************)
SiblingsDistinct == \A i, j \in DOMAIN nodes :
    i # j => nodes[i].parent # nodes[j].parent \/ nodes[i].name # nodes[j].name

(***************************************************************************)
(* A listing that has come to its end has had every node that was in the   *)
(* directory when it began and every entry of the driver, also when other  *)
(* nodes were mounted there in the middle of it and dir->pos counts more   *)
(* nodes than before (fs.c:44-62).  An entry may then come twice.          *)
(***************************************************************************)
NothingSkipped == dir.missed = {}

(* What makes it inductive: what a listing has yet to give is a node at or  *)
(* behind dir->pos, or an entry of the driver's that is not passed.         *)
DueIsAhead ==
    /\ dir.pos \in Nat
    /\ \A x \in dir.due :
          \/ \E i \in Children(dir.node) : x = <<"node", i>> /\ Position(dir.node, i) >= dir.pos
          \/ \E k \in 1..DirLength :
                x = <<"entry", k>> /\ dir.pos < Cardinality(Children(dir.node)) + k

ListingInv == NothingSkipped /\ DueIsAhead

(* The tree of mount points: a path leads to the deepest mount on it        *)
(* (fs.c:110), and no two nodes answer to one name (fs.c:488).              *)
TreeInv == TypeOK /\ OpensInDeepestMount /\ SiblingsDistinct
=============================================================================
