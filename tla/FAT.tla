-------------------------------- MODULE FAT ---------------------------------
(***************************************************************************)
(* The FAT driver of drivers/vfat/main.c, as tools/mkimage.c runs it: the  *)
(* host build, one thread, a device that never fails.  A disk unit is the  *)
(* size of one directory entry; file contents are counted in units too.    *)
(* Clusters are never given back: vfatDeleteFile is in no table.           *)
(*                                                                         *)
(* Left out: times and attributes other than SUBDIR.  The model ends where *)
(* a chain leaves the volume or the code follows a null pointer (`fault'). *)
(***************************************************************************)
EXTENDS Naturals, Sequences, FiniteSets, FiniteSetsExt, SequencesExt

CONSTANTS
    SectorCounts,       \* sizes of the partition in sectors, without the reserved ones
    PerCluster,         \* SECTORS_PER_CLUSTER
    UnitsPerSector,     \* directory entries in a sector
    LinksPerSector,     \* FAT entries in a sector
    Length,             \* the names, with their lengths in characters
    Paths,              \* paths that are asked for, sequences of names
    Handles,            \* open files
    Offsets, Counts,    \* where and how much one write may write
    MaxWrites           \* bound on the number of writes

Names == DOMAIN Length
Zero == [kind |-> "zero"]
Closed == [path |-> <<>>]
EOC == 1                \* 0x0fffffff; no cluster has the number 1
Free == 0
Root == 2

-----------------------------------------------------------------------------
(* calc_fat_size: the first size whose table has an entry per cluster. *)
cluster_count(total, perFat) == (total - 2 * perFat) \div PerCluster

calc_fat_size(total) == Min({s \in 1..(total \div 2) :
    (cluster_count(total, s) + LinksPerSector - 1) \div LinksPerSector <= s})

K == PerCluster * UnitsPerSector                        \* units in a cluster
LinksOf(total) == 2..(calc_fat_size(total) * LinksPerSector - 1)
ClustersOf(total) == 2..(cluster_count(total, calc_fat_size(total)) + 1)

ASSUME FATAssumption ==
    /\ UnitsPerSector \in Nat \ {0} /\ LinksPerSector \in Nat \ {0}
    /\ K > 2 /\ \A total \in SectorCounts : Root \in LinksOf(total) \cap ClustersOf(total)
    /\ \A p \in Paths : p \in Seq(Names) /\ p # <<>>

VARIABLES
    total_sectors,
    volume,     \* the two copies of the table and the units of the clusters
    open,       \* vfatFileData of the open files
    fault,      \* "outside" the volume, "null" pointer, or "none"
    made,       \* history: what was created, in order: its path, whether it is a
                \*   directory, the data written, whether a write was refused
    writes      \* number of writes

vars == <<total_sectors, volume, open, fault, made, writes>>

Table == [total \in SectorCounts |-> [links |-> LinksOf(total), clusters |-> ClustersOf(total)]]
Links == Table[total_sectors].links         \* entries of the table
Clusters == Table[total_sectors].clusters   \* clusters of the volume

sfn_dir_entry(dir, first, size) == [kind |-> "sfn", dir |-> dir, first |-> first, size |-> size]
lfn_dir_entry(n, i) == [kind |-> "lfn", name |-> n, part |-> i]
IsEntry(u, kind) == u.kind = kind

Units ==
    {Zero} \cup [kind : {"data"}, write : 1..MaxWrites]
    \cup [kind : {"sfn"}, dir : BOOLEAN, first : Links, size : 0..(Max(Offsets) + Max(Counts))]
    \cup [kind : {"lfn"}, name : Names, part : 1..3] \cup [kind : {"dot"}, first : Links]

TypeOK ==
    /\ volume.fat \in [Links -> Links \cup {Free, EOC}]
    /\ volume.mirror = volume.fat
    /\ volume.disk \in [Clusters -> [0..(K - 1) -> Units]]
    /\ \A h \in Handles : open[h] # Closed => open[h].first \in Links /\ open[h].parent \in Clusters
    /\ fault \in {"none", "outside", "null"}
    /\ \A k \in DOMAIN made : made[k].path \in Paths
    /\ writes \in 0..MaxWrites

(* vfatMakeFS and vfatMount: an empty root directory in cluster 2. *)
vfatMakeFS == LET table == [c \in Links |-> IF c = Root THEN EOC ELSE Free] IN
    [fat |-> table, mirror |-> table,
     disk |-> [c \in Clusters |-> [u \in 0..(K - 1) |-> Zero]]]

Init ==
    /\ total_sectors \in SectorCounts
    /\ volume = vfatMakeFS
    /\ open = [h \in Handles |-> Closed]
    /\ fault = "none"
    /\ made = <<>> /\ writes = 0

-----------------------------------------------------------------------------
get_next_cluster(v, c) == v.fat[c]

set_next_cluster(v, from, to) == [v EXCEPT !.fat[from] = to, !.mirror[from] = to]

find_free_last(v) ==
    LET free == {c \in Links : v.fat[c] = Free} IN IF free = {} THEN EOC ELSE Max(free)
find_free_cluster(v) ==
    LET free == {c \in Links : v.fat[c] = Free} IN IF free = {} THEN EOC ELSE Min(free)

IsFull(v) == \A c \in Clusters \cap Links : v.fat[c] # Free
InVolume(v) == \A c \in Links \ Clusters : v.fat[c] = Free

(***************************************************************************)
(* The cursor of vfatWriteFile: the volume so far, current_cluster, and    *)
(* how the write ended early.  Follow goes to the next cluster and takes a *)
(* free one at the end of the chain; the model ends when this is not one   *)
(* of the volume.                                                          *)
(***************************************************************************)
Cursor(v, first) == [vol |-> v, cluster |-> first, stop |-> "no"]

LinkUnmarked(v, last, new) == set_next_cluster(v, last, new)
LinkNew(v, last, new) == set_next_cluster(set_next_cluster(v, last, new), new, EOC)

Follow(at) ==
    LET next == get_next_cluster(at.vol, at.cluster)
        new == find_free_cluster(at.vol)
    IN  CASE at.stop # "no" -> at
          [] at.stop = "no" /\ next # EOC ->
                [at EXCEPT !.cluster = next, !.stop = IF next \in Clusters THEN "no" ELSE "outside"]
          [] at.stop = "no" /\ next = EOC /\ new # EOC ->
                [vol |-> LinkNew(at.vol, at.cluster, new), cluster |-> new,
                 stop |-> IF new \in Clusters THEN "no" ELSE "outside"]
          [] OTHER -> [at EXCEPT !.stop = "full"]     \* XT_END_OF_FILE

PutUnit(at, position, unit) ==
    LET pos == position % K
        put == [at EXCEPT !.vol.disk[at.cluster][pos] = unit]
    IN  IF at.stop # "no" THEN at ELSE IF pos = K - 1 THEN Follow(put) ELSE put

(* Up to the size update of vfatWriteFile: walk, then write. *)
WriteUnits(v, first, offset, units) ==
    LET walk[i \in 0..(offset \div K)] ==
            IF i = 0 THEN Cursor(v, first) ELSE Follow(walk[i - 1])
        write[i \in 0..Len(units)] ==
            IF i = 0 THEN walk[offset \div K]
            ELSE PutUnit(write[i - 1], offset + i - 1, units[i])
    IN  write[Len(units)]

(* The clusters of a file, first to last, and its units (vfatReadFile). *)
Chain(v, first) ==
    LET Extend(clusters) ==
            LET next == get_next_cluster(v, Last(clusters)) IN
            IF next \in Links THEN Append(clusters, next) ELSE clusters
        chain[i \in 0..Cardinality(Links)] ==      \* at most once per entry, so that a cycle ends
            IF i = 0 THEN <<first>> ELSE Extend(chain[i - 1])
    IN  chain[Cardinality(Links)]

vfatReadFile(v, first, offset, count) ==
    LET chain == Chain(v, first)
        end == Min({offset + count, K * Len(chain)})
    IN  [i \in 1..(end - offset) |->
            v.disk[chain[(offset + i - 1) \div K + 1]][(offset + i - 1) % K]]

-----------------------------------------------------------------------------
(***************************************************************************)
(* Long names.  Entry i has the 13 characters from lfn_pos on, and lfn_pos *)
(* advances by 11.  A name that does not come back from its entries equals *)
(* no name that is asked for.                                              *)
(***************************************************************************)
LFNEntries(n) == (Length[n] + 12) \div 13
Restored(length) == FlattenSeq([i \in 1..((length + 12) \div 13) |->
    [k \in 1..Min({13, length - 11 * (i - 1)}) |-> 11 * (i - 1) + k]])
ReadableNames == {n \in Names : Restored(Length[n]) = [k \in 1..Length[n] |-> k]}
Readable(n) == n \in ReadableNames

(* The units of a directory; a read behind its chain leaves zeroes. *)
Slots(v, dir) == vfatReadFile(v, dir, 0, K * Len(Chain(v, dir))) \o <<Zero>>

Entries(slots) == {i \in DOMAIN slots :
    IsEntry(slots[i], "sfn") /\ \A j \in 1..i : slots[j] # Zero}

(* The name of the entry at i: the LFN entries right before it. *)
HasName(slots, i, n) ==
    /\ Readable(n)
    /\ i > 1 /\ slots[i - 1] = lfn_dir_entry(n, 1)
    /\ i = 2 \/ ~IsEntry(slots[i - 2], "lfn")

EntriesNamed(slots, n) == {i \in Entries(slots) : HasName(slots, i, n)}

(***************************************************************************)
(* vfatFindFile: the directory that holds the last component, its index    *)
(* there (counted from 1), and how many components are left.  A component  *)
(* below a file leaves the caller without a directory.  Descend looks for  *)
(* the first of the given number of components that are left.              *)
(***************************************************************************)
Descend(at, slots, found, left) ==
    CASE at.left # 0 \/ at.null -> at
      [] at.left = 0 /\ ~at.null /\ found = {} -> [at EXCEPT !.left = left]
      [] at.left = 0 /\ ~at.null /\ found # {} /\ left = 1 -> [at EXCEPT !.index = Min(found)]
      [] OTHER -> IF slots[Min(found)].dir THEN [at EXCEPT !.dir = slots[Min(found)].first]
                  ELSE [at EXCEPT !.null = TRUE]

vfatFindFile(v, path) ==
    LET Look(at, slots, k) ==
            Descend(at, slots, EntriesNamed(slots, path[k]), Len(path) - k + 1)
        Below(at, k) == Look(at, Slots(v, at.dir), k)
        descent[k \in 0..Len(path)] ==
            IF k = 0 THEN [dir |-> Root, index |-> 1, left |-> 0, null |-> FALSE]
            ELSE Below(descent[k - 1], k)
    IN  descent[Len(path)]

vfatFindFreeEntry(v, dir) == LET slots == Slots(v, dir) IN
    Min({i \in DOMAIN slots : slots[i] = Zero})

(***************************************************************************)
(* vfatSetFileInfo on a new entry: its LFN entries from the last to the    *)
(* first position, then the SFN entry.  The results of the writes are not  *)
(* looked at.  The loop before, which marks the old LFN entries of a file  *)
(* as deleted, finds none: only vfatCreateFile calls xtSetFileInfo.        *)
(***************************************************************************)
vfatSetFileInfo(v, dir, index, n, entry) ==
    LET count == LFNEntries(n)
        named[i \in 0..count] == IF i = 0 THEN v
            ELSE WriteUnits(named[i - 1], dir, index + count - i - 1, <<lfn_dir_entry(n, i)>>).vol
    IN  WriteUnits(named[count], dir, index + count - 1, <<entry>>).vol

(* The dots of a new directory, and the zeroes written over its cluster. *)
Dots(c, parent) == <<[kind |-> "dot", first |-> c], [kind |-> "dot", first |-> parent]>>
MakeDirectory(v, c, parent) ==
    [WriteUnits(v, c, 0, Dots(c, parent)).vol EXCEPT !.disk[c] = [u \in 0..(K - 1) |-> Zero]]

-----------------------------------------------------------------------------
Running == fault = "none"

(* vfatCreateFile, when an unused name is left and there is its directory. *)
CreateEntry(path, dir) ==
    LET at == vfatFindFile(volume, path)
        c == find_free_cluster(volume)
        index == vfatFindFreeEntry(volume, at.dir)
        v == vfatSetFileInfo(set_next_cluster(volume, c, EOC), at.dir, index,
                             path[Len(path)], sfn_dir_entry(dir, c, 0))
    IN  IF c \notin Clusters            \* EOC is used like the number of a cluster, too
        THEN fault' = "outside" /\ UNCHANGED <<total_sectors, volume, open, made, writes>>
        ELSE /\ volume' = IF dir THEN MakeDirectory(v, c, at.dir) ELSE v
             /\ fault' = IF InVolume(v) THEN "none" ELSE "outside"
             /\ made' = Append(made, [path |-> path, dir |-> dir, data |-> <<>>, refused |-> FALSE])
             /\ UNCHANGED <<total_sectors, open, writes>>

AnyLeft(at) == at.left >= 1
Vacant(at) == at.left = 1
vfatCreateFile(path, dir) == LET at == vfatFindFile(volume, path) IN
    /\ Running
    /\ \/ at.null /\ fault' = "null" /\ UNCHANGED <<total_sectors, volume, open, made, writes>>
       \/ ~at.null /\ Vacant(at) /\ CreateEntry(path, dir)
       \/ ~at.null /\ ~Vacant(at) /\ UNCHANGED vars     \* XT_FILE_ALREADY_EXISTS, XT_NOT_FOUND

(* vfatOpenFile: the directory found becomes the file itself. *)
vfatOpenFile(h, path) == LET at == vfatFindFile(volume, path) IN
    /\ Running
    /\ open[h] = Closed
    /\ \/ at.null /\ fault' = "null" /\ UNCHANGED <<total_sectors, volume, open, made, writes>>
       \/ /\ ~at.null /\ at.left = 0
          /\ LET entry == Slots(volume, at.dir)[at.index] IN
             open' = [open EXCEPT ![h] = [first |-> entry.first, parent |-> at.dir,
                                          index |-> at.index, path |-> path]]
          /\ UNCHANGED <<total_sectors, volume, fault, made, writes>>

vfatCloseFile(h) ==
    /\ Running
    /\ open[h] # Closed
    /\ open' = [open EXCEPT ![h] = Closed]
    /\ UNCHANGED <<total_sectors, volume, fault, made, writes>>

(***************************************************************************)
(* vfatWriteFile.  A write that cannot get the next cluster returns before *)
(* the size of the file is brought up to date.  Writes go to files.        *)
(***************************************************************************)
FirstSize(size, end) == IF size = 0 THEN end ELSE size
NewSize(size, end) == IF size < end THEN end ELSE size

UpdateSize(v, file, end) ==
    LET entry == Slots(v, file.parent)[file.index] IN
    WriteUnits(v, file.parent, file.index - 1,
               <<[entry EXCEPT !.size = NewSize(entry.size, end)]>>).vol

Number(path) == CHOOSE i \in DOMAIN made : made[i].path = path

(* A file with the given units put into it; what was never written is Zero. *)
Overwrite(old, offset, units) ==
    LET end == offset + Len(units) IN
    [i \in 1..Max({Len(old), end}) |->
        IF i > offset /\ i <= end THEN units[i - offset]
        ELSE IF i <= Len(old) THEN old[i] ELSE Zero]

vfatWriteFile(h, offset, count) ==
    /\ Running
    /\ open[h] # Closed /\ ~made[Number(open[h].path)].dir
    /\ writes < MaxWrites
    /\ writes' = writes + 1
    /\ LET units == [i \in 1..count |-> [kind |-> "data", write |-> writes + 1]]
           end == WriteUnits(volume, open[h].first, offset, units)
           k == Number(open[h].path)
       IN  /\ fault' = IF InVolume(end.vol) THEN "none" ELSE "outside"
           /\ volume' = IF end.stop = "no" THEN UpdateSize(end.vol, open[h], offset + count)
                        ELSE end.vol
           /\ made' = IF end.stop = "no"
                      THEN [made EXCEPT ![k].data = Overwrite(@, offset, units)]
                      ELSE [made EXCEPT ![k].refused = TRUE]
    /\ UNCHANGED <<total_sectors, open>>

Next ==
    \/ \E path \in Paths, dir \in BOOLEAN : vfatCreateFile(path, dir)
    \/ \E h \in Handles, path \in Paths : vfatOpenFile(h, path)
    \/ \E h \in Handles : vfatCloseFile(h)
    \/ \E h \in Handles, offset \in Offsets, count \in Counts : vfatWriteFile(h, offset, count)

Spec == Init /\ [][Next]_vars

-----------------------------------------------------------------------------
(* vfatGetFileInfo of a file, and the entries vfatReadDirectory lists. *)
FileSize(path) == LET at == vfatFindFile(volume, path) IN Slots(volume, at.dir)[at.index].size
PhysicalSize(path) == (FileSize(path) \div K + 1) * K

vfatOpenDirectory(path) == vfatFindFile(volume, path).dir
vfatReadDirectory(dir) ==
    LET slots == Slots(volume, dir) IN
    [name \in {n \in Names : EntriesNamed(slots, n) # {}} |-> Cardinality(EntriesNamed(slots, name))]

Findable(path) == LET at == vfatFindFile(volume, path) IN ~at.null /\ at.left = 0
FirstCluster(path) == LET at == vfatFindFile(volume, path) IN Slots(volume, at.dir)[at.index].first
Known == {k \in DOMAIN made : Findable(made[k].path)}

(***************************************************************************)
(* The chains of the root and of all files and directories end, run over   *)
(* clusters that are taken, and no cluster is in two of them or twice in   *)
(* one: what one file writes never appears in another                      *)
(* (main.c:159-172, 185-195, 207-216, 766-768).                            *)
(***************************************************************************)
ChainsDisjoint == Running =>
    LET heads == {Root} \cup {FirstCluster(made[k].path) : k \in Known}
        chain == [c \in heads |-> Chain(volume, c)]
    IN  /\ \A c \in heads : IsInjective(chain[c]) /\ ToSet(chain[c]) \subseteq Clusters
                             /\ volume.fat[Last(chain[c])] = EOC
        /\ \A c, d \in heads : c # d => ToSet(chain[c]) \cap ToSet(chain[d]) = {}
        /\ Cardinality(heads) = Cardinality(Known) + 1

(***************************************************************************)
(* A file whose writes all succeeded has the size of what was written to   *)
(* it and reads back as that, through its path.                            *)
(***************************************************************************)
ReadsBack == Running => \A k \in Known : ~made[k].dir /\ ~made[k].refused =>
    /\ FileSize(made[k].path) = Len(made[k].data)
    /\ vfatReadFile(volume, FirstCluster(made[k].path), 0, Len(made[k].data)) = made[k].data

(***************************************************************************)
(* The physical size that vfatGetFileInfo computes from the file's size is *)
(* that of its chain, the cluster taken ahead included (main.c:489-491).   *)
(***************************************************************************)
PhysicalSizeIsChain == Running => \A k \in Known : ~made[k].dir /\ ~made[k].refused =>
    PhysicalSize(made[k].path) = K * Len(Chain(volume, FirstCluster(made[k].path)))

(***************************************************************************)
(* What was created under a name that can be read is found again, unless   *)
(* there was no cluster left for its entry; and nothing is created twice.  *)
(***************************************************************************)
CreatedIsFound == Running => \A k \in DOMAIN made :
    (\A i \in DOMAIN made[k].path : Readable(made[k].path[i])) =>
        /\ k \in Known \/ IsFull(volume)
        /\ \A j \in DOMAIN made : made[j].path = made[k].path => j = k

(***************************************************************************)
(* A write is refused, or a chain leaves the volume, only when the volume  *)
(* has no free cluster: the table can have more entries than there are     *)
(* clusters, and find_free_cluster looks at all of them (main.c:127-137,   *)
(* 161-171, 190, 212).                                                     *)
(***************************************************************************)
RunsOutOnlyWhenFull ==
    fault = "outside" \/ (\E k \in DOMAIN made : made[k].refused) => IsFull(volume)

(***************************************************************************)
(* Opened as a directory, a path lists what was created beside it, each    *)
(* readable name once: vfatFindFile stops at the containing directory.     *)
(***************************************************************************)
ListsContainingDirectory == Running /\ ~IsFull(volume) => \A k \in Known :
    LET beside == {j \in DOMAIN made : Front(made[j].path) = Front(made[k].path)
                                       /\ Readable(Last(made[j].path))}
    IN  vfatReadDirectory(vfatOpenDirectory(made[k].path)) = [n \in {Last(made[j].path) : j \in beside} |-> 1]

(* The table of clusters: every chain ends and no two share a cluster.      *)
VolumeInv == TypeOK /\ ChainsDisjoint

(* The files: a read gives what was written last (xtReadFile through the    *)
(* chain), and the physical size is the length of the chain.                *)
FilesInv == ReadsBack /\ PhysicalSizeIsChain

(* The directories: what was created is found again under its name, and a   *)
(* listing shows the directory that vfatOpenDirectory really opens.         *)
DirectoryInv == CreatedIsFound /\ ListsContainingDirectory
=============================================================================
