---------------------------- MODULE Files_proofs ----------------------------
(***************************************************************************)
(* The device list and the listing of directories, for every set of        *)
(* drivers and names, all trees of path nodes and all driver directories.  *)
(*                                                                         *)
(* DevInv adds to DuplicateOnlyByRace what a driver knows between its      *)
(* search and its insertion: the part of the list it has searched is still *)
(* there.  It is, because xtRemoveFromList never unlinks the node it was   *)
(* given: a removal changes the list only by damaging it.                  *)
(*                                                                         *)
(* ListingInv adds to NothingSkipped what a listing has yet to give.  Of   *)
(* the nodes only this is needed: each is made at the end, and none ever   *)
(* gets another parent.  Which node a path leads to does not matter.       *)
(***************************************************************************)
EXTENDS Files, Integers, FiniteSetTheorems, SequenceTheorems, WellFoundedInduction, TLAPS

-----------------------------------------------------------------------------
(* The smallest of some numbers is one of them. *)
LEMMA LeastOfNaturals ==
    ASSUME NEW D, D \subseteq Nat, D # {}
    PROVE  Min(D) \in D
  <1>1. PICK d \in D : \A m \in D : ~(<<m, d>> \in OpToRel(<, Nat))
    BY NatLessThanWellFounded, WFMin, Zenon
  <1>2. \A m \in D : ~(m < d)
    BY <1>1 DEF OpToRel
  <1>3. \A m \in D : d <= m
    BY <1>2
  <1> QED
    BY <1>3 DEF Min

(* What xtRemoveFromList leaves is a list of the same devices, not longer. *)
LEMMA RemovedIsAList ==
    ASSUME NEW S, NEW list \in Seq(S), NEW i \in Nat
    PROVE  /\ xtRemoveFromList(list, i) \in Seq(S)
           /\ Len(xtRemoveFromList(list, i)) <= Len(list)
  <1>1. CASE Victim(i) > Len(list)
    BY <1>1 DEF xtRemoveFromList
  <1>2. CASE ~(Victim(i) > Len(list))
    <2>1. Victim(i) \in 1..Len(list)
      BY <1>2 DEF Victim
    <2>2. PICK v \in 1..Len(list) : v = Victim(i)
      BY <2>1
    <2>3. /\ SubSeq(list, 1, v - 1) \in Seq(S)
          /\ Len(SubSeq(list, 1, v - 1)) = v - 1
      OBVIOUS
    <2>4. /\ SubSeq(list, v + 1, Len(list)) \in Seq(S)
          /\ Len(SubSeq(list, v + 1, Len(list))) = Len(list) - v
      OBVIOUS
    <2>5. xtRemoveFromList(list, i) = SubSeq(list, 1, v - 1) \o SubSeq(list, v + 1, Len(list))
      BY <1>2, <2>2 DEF xtRemoveFromList, RemoveAt
    <2> DEFINE front == SubSeq(list, 1, v - 1)
               rest == SubSeq(list, v + 1, Len(list))
    <2>6. front \in Seq(S) /\ rest \in Seq(S) /\ Len(front) = v - 1 /\ Len(rest) = Len(list) - v
      BY <2>3, <2>4
    <2>7. xtRemoveFromList(list, i) = front \o rest
      BY <2>5
    <2>8. Len(list) \in Nat
      OBVIOUS
    <2> HIDE DEF front, rest
    <2>9. front \o rest \in Seq(S) /\ Len(front \o rest) = Len(front) + Len(rest)
      BY <2>6
    <2> QED
      BY <2>6, <2>7, <2>8, <2>9
  <1> QED
    BY <1>1, <1>2

(* A removal that leaves no freed node behind has changed nothing. *)
LEMMA UndamagedIsUnchanged ==
    ASSUME NEW list, NEW i \in Nat \ {0}, Len(list) \in Nat, ~Dangles(list, i)
    PROVE  xtRemoveFromList(list, i) = list
  BY DEF Dangles, xtRemoveFromList, Victim

-----------------------------------------------------------------------------
(* The empty list before any driver runs. *)
LEMMA DevInitially == DevInit => DevInv
  <1> SUFFICES ASSUME DevInit PROVE DevInv
    OBVIOUS
  <1>1. DevTypeOK
    <2>1. devices \in Seq([name : DeviceNames, seen : 0..MaxDevices]) /\ Len(devices) <= MaxDevices
      BY DevicesAssumption DEF DevInit
    <2>2. /\ registering \in [Drivers -> DeviceNames \cup {NoName}]
          /\ seen \in [Drivers -> 0..MaxDevices]
      BY DevicesAssumption DEF DevInit
    <2>3. damaged \in BOOLEAN
      BY Zenon DEF DevInit
    <2> QED
      BY <2>1, <2>2, <2>3 DEF DevTypeOK
  <1>2. DuplicateOnlyByRace
    BY DEF DevInit, DuplicateOnlyByRace
  <1>3. SearchStillHolds
    BY DEF DevInit, SearchStillHolds
  <1> QED
    BY <1>1, <1>2, <1>3 DEF DevInv

(* The search: what it did not find is not among the devices so far. *)
LEMMA SearchStep ==
    ASSUME DevInv, NEW d \in Drivers, NEW name \in DeviceNames, xtRegisterDevice(d, name)
    PROVE  DevInv'
  <1> USE DevicesAssumption
  <1>1. DevTypeOK'
    BY DEF DevInv, DevTypeOK, xtRegisterDevice
  <1>2. DuplicateOnlyByRace'
    BY DEF DevInv, DuplicateOnlyByRace, xtRegisterDevice
  <1>3. SearchStillHolds'
    <2> SUFFICES ASSUME NEW e \in Drivers
                 PROVE  /\ seen'[e] <= Len(devices)
                        /\ registering'[e] # NoName =>
                              \A i \in 1..seen'[e] : devices[i].name # registering'[e]
      BY DEF SearchStillHolds, xtRegisterDevice
    <2>1. Len(devices) \in Nat /\ DOMAIN devices = 1..Len(devices)
      BY DEF DevInv, DevTypeOK
    <2>2. CASE e = d
      <3>1. seen'[e] = Len(devices) /\ registering'[e] = name
        BY <2>2 DEF DevInv, DevTypeOK, xtRegisterDevice
      <3>2. \A i \in 1..Len(devices) : devices[i].name # name
        BY <2>1 DEF xtRegisterDevice, xtFindDevice
      <3> QED
        BY <2>1, <3>1, <3>2
    <2>3. CASE e # d
      BY <2>3 DEF DevInv, DevTypeOK, SearchStillHolds, xtRegisterDevice
    <2> QED
      BY <2>2, <2>3
  <1> QED
    BY <1>1, <1>2, <1>3 DEF DevInv

(* A registration given up. *)
LEMMA FailStep ==
    ASSUME DevInv, NEW d \in Drivers, RegisterFails(d)
    PROVE  DevInv'
  <1> USE DevicesAssumption
  <1>1. DevTypeOK'
    BY DEF DevInv, DevTypeOK, RegisterFails
  <1>2. DuplicateOnlyByRace'
    BY DEF DevInv, DuplicateOnlyByRace, RegisterFails
  <1>3. SearchStillHolds'
    BY DEF DevInv, DevTypeOK, SearchStillHolds, RegisterFails
  <1> QED
    BY <1>1, <1>2, <1>3 DEF DevInv

(* The insertion: an older device of the same name is behind what the       *)
(* driver had searched.                                                     *)
LEMMA AppendStep ==
    ASSUME DevInv, NEW d \in Drivers, xtAppendList(d)
    PROVE  DevInv'
  <1> USE DevicesAssumption
  <1> DEFINE new == [name |-> registering[d], seen |-> seen[d]]
             n == Len(devices)
  <1>1. /\ devices \in Seq([name : DeviceNames, seen : 0..MaxDevices]) /\ n \in Nat
        /\ new \in [name : DeviceNames, seen : 0..MaxDevices] /\ n < MaxDevices
    BY DEF DevInv, DevTypeOK, xtAppendList
  <1>2. /\ devices' = Append(devices, new)
        /\ devices' \in Seq([name : DeviceNames, seen : 0..MaxDevices])
        /\ Len(devices') = n + 1
        /\ DOMAIN devices' = 1..(n + 1) /\ DOMAIN devices = 1..n
        /\ \A i \in 1..n : devices'[i] = devices[i]
        /\ devices'[n + 1] = new
    BY <1>1 DEF xtAppendList
  <1>3. DevTypeOK'
    BY <1>1, <1>2 DEF DevInv, DevTypeOK, xtAppendList
  <1>4. ~damaged /\ ~damaged' /\ seen' = seen /\ registering[d] # NoName
    BY DEF xtAppendList
  <1>5. seen[d] \in Nat /\ seen[d] <= n /\ \A i \in 1..seen[d] : devices[i].name # registering[d]
    BY <1>4 DEF DevInv, DevTypeOK, SearchStillHolds
  <1>6. DuplicateOnlyByRace'
    <2> SUFFICES ASSUME NEW i \in 1..(n + 1), NEW j \in 1..(n + 1), i < j,
                        devices'[i].name = devices'[j].name
                 PROVE  devices'[j].seen < i
      BY <1>2 DEF DuplicateOnlyByRace
    <2>1. i \in 1..n
      BY <1>1
    <2>2. CASE j = n + 1
      <3>1. devices[i].name = registering[d] /\ devices'[j].seen = seen[d]
        BY <1>2, <2>1, <2>2
      <3>2. ~(i \in 1..seen[d])
        BY <1>5, <3>1
      <3> QED
        BY <1>1, <1>5, <2>1, <3>1, <3>2
    <2>3. CASE j # n + 1
      <3>1. j \in 1..n
        BY <1>1, <2>3
      <3> QED
        BY <1>2, <1>4, <2>1, <3>1 DEF DevInv, DuplicateOnlyByRace
    <2> QED
      BY <2>2, <2>3
  <1>7. SearchStillHolds'
    <2> SUFFICES ASSUME NEW e \in Drivers
                 PROVE  /\ seen[e] <= n + 1
                        /\ registering'[e] # NoName =>
                              \A i \in 1..seen[e] : devices'[i].name # registering'[e]
      BY <1>2, <1>4 DEF SearchStillHolds
    <2>1. seen[e] \in Nat /\ seen[e] <= n
      BY <1>4 DEF DevInv, DevTypeOK, SearchStillHolds
    <2>2. ASSUME registering'[e] # NoName
          PROVE  registering'[e] = registering[e] /\ registering[e] # NoName
      BY <2>2 DEF DevInv, DevTypeOK, xtAppendList
    <2>3. ASSUME registering'[e] # NoName, NEW i \in 1..seen[e]
          PROVE  devices'[i].name # registering'[e]
      <3>1. i \in 1..n
        BY <1>1, <2>1
      <3>2. devices[i].name # registering[e]
        BY <1>4, <2>2, <2>3 DEF DevInv, SearchStillHolds
      <3> QED
        BY <1>2, <2>2, <2>3, <3>1, <3>2
    <2> QED
      BY <1>1, <2>1, <2>3
  <1> QED
    BY <1>3, <1>6, <1>7 DEF DevInv

(* A removal damages the list or changes nothing. *)
LEMMA UnregisterStep ==
    ASSUME DevInv, NEW name \in DeviceNames, xtUnregisterDevice(name)
    PROVE  DevInv'
  <1> USE DevicesAssumption
  <1> DEFINE S == [name : DeviceNames, seen : 0..MaxDevices]
             named == {j \in DOMAIN devices : devices[j].name = name}
  <1>1. devices \in Seq(S) /\ Len(devices) \in Nat /\ Len(devices) <= MaxDevices
        /\ DOMAIN devices = 1..Len(devices)
    BY DEF DevInv, DevTypeOK
  <1>2. named # {} /\ named \subseteq Nat
    BY <1>1 DEF xtUnregisterDevice, xtFindDevice
  <1>3. PICK i : /\ i = Min(named)
                 /\ devices' = xtRemoveFromList(devices, i)
                 /\ damaged' = Dangles(devices, i)
    BY DEF xtUnregisterDevice
  <1>4. i \in named
    BY <1>2, <1>3, LeastOfNaturals
  <1>5. i \in Nat \ {0}
    BY <1>1, <1>4
  <1>6. registering' = registering /\ seen' = seen /\ ~damaged
    BY DEF xtUnregisterDevice
  <1>7. DevTypeOK'
    <2> HIDE DEF S
    <2>1. devices' \in Seq(S) /\ Len(devices') \in Nat /\ Len(devices') <= MaxDevices
      BY <1>1, <1>3, <1>5, RemovedIsAList
    <2>2. damaged' \in BOOLEAN
      BY <1>3 DEF Dangles
    <2> QED
      BY <1>6, <2>1, <2>2 DEF DevInv, DevTypeOK, S
  <1>8. ASSUME ~damaged' PROVE devices' = devices
    BY <1>1, <1>3, <1>5, <1>8, UndamagedIsUnchanged
  <1>9. DuplicateOnlyByRace'
    BY <1>6, <1>8 DEF DevInv, DuplicateOnlyByRace
  <1>10. SearchStillHolds'
    BY <1>6, <1>8 DEF DevInv, SearchStillHolds
  <1> QED
    BY <1>7, <1>9, <1>10 DEF DevInv

-----------------------------------------------------------------------------
(* The steps of the drivers together. *)
LEMMA DriversStep ==
    ASSUME DevInv, [DevNext]_devVars
    PROVE  DevInv'
  <1>1. CASE \E d \in Drivers : \E name \in DeviceNames : xtRegisterDevice(d, name)
    BY <1>1, SearchStep
  <1>2. CASE \E d \in Drivers : RegisterFails(d)
    BY <1>2, FailStep
  <1>3. CASE \E d \in Drivers : xtAppendList(d)
    BY <1>3, AppendStep
  <1>4. CASE \E name \in DeviceNames : xtUnregisterDevice(name)
    BY <1>4, UnregisterStep
  <1>5. CASE UNCHANGED devVars
    BY <1>5 DEF DevInv, DevTypeOK, DuplicateOnlyByRace, SearchStillHolds, devVars
  <1> QED
    BY <1>1, <1>2, <1>3, <1>4, <1>5 DEF DevNext

(* One device may get the name of another only while their registrations    *)
(* overlap: the drivers' searches and insertions at devfs.c:34-37 and       *)
(* 62-69, for all drivers, names and lengths of the list, whatever is       *)
(* mounted, opened and listed at the same time.                             *)
THEOREM DuplicatesNeedARace == Spec => []DuplicateOnlyByRace
  <1>1. Init => DevInv
    BY DevInitially DEF Init
  <1>2. ASSUME DevInv, [Next]_vars PROVE DevInv'
    <2>1. CASE DevNext
      BY <1>2, <2>1, DriversStep
    <2>2. CASE FilesNext
      BY <1>2, <2>2, DriversStep DEF FilesNext, xtRegisterFileSystem, xtMount, xtOpenFile, xtCloseFile,
          xtOpenDirectory, xtReadDirectory
    <2>3. CASE UNCHANGED vars
      BY <1>2, <2>3, DriversStep DEF vars
    <2> QED
      BY <1>2, <2>1, <2>2, <2>3 DEF Next
  <1>3. DevInv => DuplicateOnlyByRace
    BY DEF DevInv
  <1> QED
    BY <1>1, <1>2, <1>3, PTL DEF Spec

-----------------------------------------------------------------------------
(* The path nodes are a list, and what is in them is records. *)
IsNodeRecord(r) == r = [parent |-> r.parent, name |-> r.name, fs |-> r.fs]
NodesAreAList == (\E S : nodes \in Seq(S)) /\ \A i \in DOMAIN nodes : IsNodeRecord(nodes[i])
DirIsARecord == dir = [node |-> dir.node, pos |-> dir.pos, due |-> dir.due, missed |-> dir.missed]

(* A child comes before the end of its parent's list. *)
LEMMA ChildrenCounted ==
    ASSUME NodesAreAList, NEW n
    PROVE  /\ DOMAIN nodes = 1..Len(nodes) /\ Len(nodes) \in Nat
           /\ IsFiniteSet(Children(n)) /\ Cardinality(Children(n)) \in Nat
           /\ \A i \in Children(n) :
                 Position(n, i) \in Nat /\ Position(n, i) < Cardinality(Children(n))
  <1>1. DOMAIN nodes = 1..Len(nodes) /\ Len(nodes) \in Nat
    BY DEF NodesAreAList
  <1>2. IsFiniteSet(1..Len(nodes)) /\ Children(n) \subseteq 1..Len(nodes)
    BY <1>1, FS_Interval DEF Children
  <1>3. IsFiniteSet(Children(n)) /\ Cardinality(Children(n)) \in Nat
    BY <1>2, FS_Subset, FS_CardinalityType
  <1>4. ASSUME NEW i \in Children(n)
        PROVE  Position(n, i) \in Nat /\ Position(n, i) < Cardinality(Children(n))
    <2> DEFINE before == {j \in Children(n) : j < i}
    <2>1. before \subseteq Children(n) /\ i \notin before
      BY <1>1 DEF Children
    <2>2. /\ IsFiniteSet(before) /\ Cardinality(before) \in Nat
          /\ Cardinality(before) <= Cardinality(Children(n))
          /\ Cardinality(before) # Cardinality(Children(n))
      BY <1>3, <2>1, FS_Subset, FS_CardinalityType
    <2> QED
      BY <1>3, <2>2 DEF Position
  <1> QED
    BY <1>1, <1>3, <1>4

(* Two children of a node are at different positions. *)
LEMMA PositionsDiffer ==
    ASSUME NodesAreAList, NEW n, NEW i \in Children(n), NEW j \in Children(n), i < j
    PROVE  Position(n, i) # Position(n, j)
  <1> DEFINE early == {k \in Children(n) : k < i}
             late == {k \in Children(n) : k < j}
  <1>1. Children(n) \subseteq Nat /\ IsFiniteSet(Children(n))
    <2>1. DOMAIN nodes = 1..Len(nodes) /\ IsFiniteSet(Children(n))
      BY ChildrenCounted
    <2> QED
      BY <2>1 DEF Children
  <1>2. early \subseteq late /\ i \in late /\ i \notin early
    BY <1>1
  <1>3. IsFiniteSet(late)
    BY <1>1, FS_Subset
  <1>4. Cardinality(early) # Cardinality(late)
    BY <1>2, <1>3, FS_Subset
  <1> QED
    BY <1>4 DEF Position

(* What was made before a node is where it was, and its parent keeps it. *)
LEMMA TreeGrows ==
    ASSUME NodesAreAList, NodesAreAList', NEW n, Len(nodes) <= Len(nodes'),
           \A i \in DOMAIN nodes : nodes'[i].parent = nodes[i].parent
    PROVE  /\ Children(n) \subseteq Children(n)'
           /\ Cardinality(Children(n)) <= Cardinality(Children(n)')
           /\ \A i \in Children(n) : Position(n, i)' = Position(n, i)
  <1>1. /\ DOMAIN nodes = 1..Len(nodes) /\ Len(nodes) \in Nat
        /\ DOMAIN nodes' = 1..Len(nodes') /\ Len(nodes') \in Nat
    BY DEF NodesAreAList
  <1>2. Children(n) \subseteq Children(n)'
    BY <1>1 DEF Children
  <1>3. IsFiniteSet(Children(n)')
    <2>1. IsFiniteSet(1..Len(nodes')) /\ Children(n)' \subseteq 1..Len(nodes')
      BY <1>1, FS_Interval DEF Children
    <2> QED
      BY <2>1, FS_Subset
  <1>4. ASSUME NEW i \in Children(n)
        PROVE  Position(n, i)' = Position(n, i)
    <2>1. {j \in Children(n)' : j < i} = {j \in Children(n) : j < i}
      BY <1>1 DEF Children
    <2> QED
      BY <2>1 DEF Position
  <1> QED
    BY <1>2, <1>3, <1>4, FS_Subset

(* The name and the parent of a node stay when its file system is changed. *)
LEMMA OtherFileSystem ==
    ASSUME NEW r, IsNodeRecord(r), NEW fs
    PROVE  IsNodeRecord([r EXCEPT !.fs = fs]) /\ [r EXCEPT !.fs = fs].parent = r.parent
  <1>1. PICK p, m, f : r = [parent |-> p, name |-> m, fs |-> f] /\ p = r.parent
    BY DEF IsNodeRecord
  <1>2. PICK v : v = [r EXCEPT !.fs = fs]
    OBVIOUS
  <1>3. v = [[parent |-> p, name |-> m, fs |-> f] EXCEPT !.fs = fs]
    BY <1>1, <1>2
  <1>4. v = [parent |-> p, name |-> m, fs |-> fs]
    BY <1>3
  <1>5. IsNodeRecord(v) /\ v.parent = r.parent
    BY <1>1, <1>4 DEF IsNodeRecord
  <1> QED
    BY <1>2, <1>5

(* A mount makes a node at the end or changes a file system. *)
LEMMA MountGrows ==
    ASSUME NodesAreAList, NEW path, NEW fs, NEW behind, NEW works, xtMount(path, fs, behind, works)
    PROVE  /\ NodesAreAList' /\ Len(nodes) <= Len(nodes')
           /\ \A i \in DOMAIN nodes : nodes'[i].parent = nodes[i].parent
  <1>1. PICK S : nodes \in Seq(S)
    BY DEF NodesAreAList
  <1>2. PICK a, left : a = xtFindPathNode(path, behind).node /\ left = xtFindPathNode(path, behind).left
    OBVIOUS
  <1>3. CASE nodes' = [nodes EXCEPT ![a].fs = fs]
    <2>1. PICK v : v = [nodes[a] EXCEPT !.fs = fs]
      OBVIOUS
    <2>2. nodes' = [nodes EXCEPT ![a] = v]
      BY <1>3, <2>1
    <2>3. a \in DOMAIN nodes => IsNodeRecord(v) /\ v.parent = nodes[a].parent
      BY <2>1, OtherFileSystem DEF NodesAreAList
    <2>4. nodes' \in Seq(S \cup {v}) /\ Len(nodes') = Len(nodes) /\ DOMAIN nodes' = DOMAIN nodes
      <3>1. PICK n \in Nat : n = Len(nodes) /\ DOMAIN nodes = 1..n /\ nodes \in [1..n -> S]
        BY <1>1
      <3>2. nodes' \in [1..n -> S \cup {v}] /\ DOMAIN nodes' = 1..n
        BY <2>2, <3>1
      <3>3. nodes' \in Seq(S \cup {v})
        BY <3>2, SeqDef, Zenon
      <3>4. Len(nodes') = n
        BY <3>2, <3>3
      <3> QED
        BY <3>1, <3>2, <3>3, <3>4
    <2>5. \A i \in DOMAIN nodes : nodes'[i] = IF i = a THEN v ELSE nodes[i]
      BY <2>2
    <2>6. Len(nodes) \in Nat
      BY <1>1
    <2> QED
      BY <2>3, <2>4, <2>5, <2>6 DEF NodesAreAList
  <1>4. CASE nodes' = Append(nodes, xtCreatePathNode(a, left[1], fs))
    <2>1. PICK v : v = xtCreatePathNode(a, left[1], fs)
      OBVIOUS
    <2>2. IsNodeRecord(v)
      BY <2>1 DEF xtCreatePathNode, IsNodeRecord
    <2>3. nodes \in Seq(S \cup {v}) /\ v \in S \cup {v}
      BY <1>1
    <2>4. /\ nodes' \in Seq(S \cup {v}) /\ Len(nodes') = Len(nodes) + 1 /\ Len(nodes) \in Nat
          /\ DOMAIN nodes' = 1..(Len(nodes) + 1) /\ DOMAIN nodes = 1..Len(nodes)
          /\ \A i \in 1..Len(nodes) : nodes'[i] = nodes[i]
          /\ nodes'[Len(nodes) + 1] = v
      BY <1>4, <2>1, <2>3
    <2>5. \A i \in 1..(Len(nodes) + 1) : i \in 1..Len(nodes) \/ i = Len(nodes) + 1
      BY <2>4
    <2>6. \A i \in DOMAIN nodes' : IsNodeRecord(nodes'[i])
      BY <2>2, <2>4, <2>5 DEF NodesAreAList
    <2> QED
      BY <2>4, <2>6 DEF NodesAreAList
  <1> QED
    BY <1>2, <1>3, <1>4 DEF xtMount

(* A tree that only grows keeps what a listing has yet to give ahead of it. *)
LEMMA DueStaysAhead ==
    ASSUME NodesAreAList, NodesAreAList', DueIsAhead, Len(nodes) <= Len(nodes'), dir' = dir,
           \A i \in DOMAIN nodes : nodes'[i].parent = nodes[i].parent
    PROVE  DueIsAhead'
  <1>1. PICK n : n = dir.node
    OBVIOUS
  <1>2. /\ Children(n) \subseteq Children(n)'
        /\ Cardinality(Children(n)) <= Cardinality(Children(n)')
        /\ \A i \in Children(n) : Position(n, i)' = Position(n, i)
    BY TreeGrows
  <1>3. Cardinality(Children(n)) \in Nat /\ Cardinality(Children(n))' \in Nat
    <2>1. Cardinality(Children(n)) \in Nat
      BY ChildrenCounted
    <2>2. IsFiniteSet(1..Len(nodes')) /\ Children(n)' \subseteq 1..Len(nodes')
      BY FS_Interval DEF Children, NodesAreAList
    <2>3. Cardinality(Children(n)') \in Nat
      BY <2>2, FS_Subset, FS_CardinalityType
    <2> QED
      BY <2>1, <2>3
  <1> SUFFICES ASSUME NEW x \in dir.due
               PROVE  \/ \E i \in Children(n)' : x = <<"node", i>> /\ Position(n, i)' >= dir.pos
                      \/ \E k \in 1..DirLength :
                            x = <<"entry", k>> /\ dir.pos < Cardinality(Children(n))' + k
    BY <1>1 DEF DueIsAhead
  <1>4. CASE \E i \in Children(n) : x = <<"node", i>> /\ Position(n, i) >= dir.pos
    BY <1>2, <1>4
  <1>5. CASE \E k \in 1..DirLength : x = <<"entry", k>> /\ dir.pos < Cardinality(Children(n)) + k
    BY <1>2, <1>3, <1>5, FilesAssumption DEF DueIsAhead
  <1> QED
    BY <1>1, <1>4, <1>5 DEF DueIsAhead

(* What is given is the next thing that is due, or nothing was due there. *)
LEMMA ReadStep ==
    ASSUME NodesAreAList, DirIsARecord, ListingInv, xtReadDirectory
    PROVE  DirIsARecord' /\ ListingInv'
  <1>1. PICK n, p, due : /\ dir = [node |-> n, pos |-> p, due |-> due, missed |-> {}]
                         /\ n = dir.node /\ p = dir.pos /\ due = dir.due
    BY DEF DirIsARecord, ListingInv, NothingSkipped
  <1>2. PICK length \in Nat : length = Cardinality(Children(n))
    BY ChildrenCounted
  <1>3. /\ p \in Nat /\ DirLength \in Nat /\ nodes' = nodes
        /\ \A x \in due :
              \/ \E i \in Children(n) : x = <<"node", i>> /\ Position(n, i) >= p
              \/ \E k \in 1..DirLength : x = <<"entry", k>> /\ p < length + k
    BY <1>1, <1>2, FilesAssumption DEF ListingInv, DueIsAhead, xtReadDirectory
  <1>4. \A i \in Children(n) : Position(n, i) \in Nat /\ Position(n, i) < length
    BY <1>2, ChildrenCounted
  <1>5. ASSUME NEW next \in Nat, NEW rest, dir' = [node |-> n, pos |-> next, due |-> rest, missed |-> {}],
               \A x \in rest :
                  \/ \E i \in Children(n) : x = <<"node", i>> /\ Position(n, i) >= next
                  \/ \E k \in 1..DirLength : x = <<"entry", k>> /\ next < length + k
        PROVE  DirIsARecord' /\ ListingInv'
    <2>1. dir'.node = n /\ dir'.pos = next /\ dir'.due = rest /\ dir'.missed = {}
      BY <1>5
    <2>2. Children(n)' = Children(n) /\ \A i : Position(n, i)' = Position(n, i)
      BY <1>3 DEF Children, Position
    <2>3. DueIsAhead'
      BY <1>2, <1>5, <2>1, <2>2 DEF DueIsAhead
    <2> QED
      BY <1>5, <2>1, <2>3 DEF DirIsARecord, ListingInv, NothingSkipped
  <1>6. CASE \E i \in Children(n) :
                /\ Position(n, i) = p
                /\ dir' = [dir EXCEPT !.pos = @ + 1, !.due = @ \ {<<"node", i>>}]
    <2>1. PICK i \in Children(n) : /\ Position(n, i) = p
                                   /\ dir' = [dir EXCEPT !.pos = @ + 1, !.due = @ \ {<<"node", i>>}]
      BY <1>6
    <2>2. dir' = [node |-> n, pos |-> p + 1, due |-> due \ {<<"node", i>>}, missed |-> {}]
      BY <1>1, <2>1
    <2>3. ASSUME NEW x \in due \ {<<"node", i>>}
          PROVE  \/ \E j \in Children(n) : x = <<"node", j>> /\ Position(n, j) >= p + 1
                 \/ \E k \in 1..DirLength : x = <<"entry", k>> /\ p + 1 < length + k
      <3>1. CASE \E j \in Children(n) : x = <<"node", j>> /\ Position(n, j) >= p
        <4>1. PICK j \in Children(n) : x = <<"node", j>> /\ Position(n, j) >= p
          BY <3>1
        <4>2. j # i
          BY <4>1
        <4>3. i \in Nat /\ j \in Nat
          <5>1. DOMAIN nodes = 1..Len(nodes)
            BY ChildrenCounted
          <5> QED
            BY <5>1 DEF Children
        <4>4. Position(n, i) # Position(n, j)
          <5>1. CASE i < j
            BY <5>1, PositionsDiffer
          <5>2. CASE j < i
            BY <5>2, PositionsDiffer
          <5> QED
            BY <4>2, <4>3, <5>1, <5>2
        <4>5. Position(n, j) >= p + 1
          BY <1>3, <1>4, <2>1, <4>1, <4>4
        <4> QED
          BY <4>1, <4>5
      <3>2. CASE \E k \in 1..DirLength : x = <<"entry", k>> /\ p < length + k
        <4>1. PICK k \in 1..DirLength : x = <<"entry", k>>
          BY <3>2
        <4>2. p + 1 < length + k
          BY <1>3, <1>4, <2>1
        <4> QED
          BY <4>1, <4>2
      <3> QED
        BY <1>3, <3>1, <3>2
    <2>4. p + 1 \in Nat
      BY <1>3
    <2> QED
      BY <1>5, <2>2, <2>3, <2>4
  <1>7. CASE /\ p >= length /\ p - length < DirLength
             /\ dir' = [dir EXCEPT !.pos = NextPos(@, length), !.due = @ \ {<<"entry", p - length + 1>>}]
    <2>1. NextPos(p, length) = p + 1
      BY <1>2, <1>3 DEF NextPos
    <2>2. PICK e \in Nat : e = (p - length) + 1
      BY <1>2, <1>3, <1>7
    <2>3. dir' = [dir EXCEPT !.pos = NextPos(@, length), !.due = @ \ {<<"entry", e>>}]
      BY <1>7, <2>2
    <2>4. dir' = [node |-> n, pos |-> NextPos(p, length), due |-> due \ {<<"entry", e>>}, missed |-> {}]
      BY <1>1, <2>3
    <2>5. ASSUME NEW x \in due \ {<<"entry", e>>}
          PROVE  \E k \in 1..DirLength : x = <<"entry", k>> /\ p + 1 < length + k
      <3>1. PICK k \in 1..DirLength : x = <<"entry", k>> /\ p < length + k
        BY <1>2, <1>3, <1>4, <1>7
      <3>2. k # e
        BY <3>1
      <3>3. p + 1 < length + k
        BY <1>2, <1>3, <2>2, <3>1, <3>2
      <3> QED
        BY <3>1, <3>3
    <2>6. p + 1 \in Nat
      BY <1>3
    <2> QED
      BY <1>5, <2>1, <2>4, <2>5, <2>6
  <1>8. CASE p >= length /\ p - length >= DirLength /\ dir' = [NoDir EXCEPT !.missed = dir.due]
    <2>1. due = {}
      <3> SUFFICES ASSUME NEW x \in due PROVE FALSE
        OBVIOUS
      <3>1. CASE \E i \in Children(n) : x = <<"node", i>> /\ Position(n, i) >= p
        BY <1>2, <1>3, <1>4, <1>8, <3>1
      <3>2. CASE \E k \in 1..DirLength : x = <<"entry", k>> /\ p < length + k
        BY <1>2, <1>3, <1>8, <3>2
      <3> QED
        BY <1>3, <3>1, <3>2
    <2>2. dir' = [node |-> 0, pos |-> 0, due |-> {}, missed |-> {}]
      BY <1>1, <1>8, <2>1 DEF NoDir
    <2> QED
      BY <2>2 DEF DirIsARecord, ListingInv, NothingSkipped, DueIsAhead
  <1> QED
    BY <1>1, <1>2, <1>6, <1>7, <1>8 DEF xtReadDirectory

(* Nothing is given yet, and everything is ahead. *)
LEMMA OpenDirectoryStep ==
    ASSUME NodesAreAList, NEW path, NEW behind, xtOpenDirectory(path, behind)
    PROVE  DirIsARecord' /\ ListingInv'
  <1>1. PICK n, due :
            /\ due = {<<"node", i>> : i \in Children(n)} \cup {<<"entry", k>> : k \in 1..DirLength}
            /\ dir' = [NoDir EXCEPT !.node = n, !.due = due]
            /\ nodes' = nodes
    BY DEF xtOpenDirectory
  <1>2. dir' = [node |-> n, pos |-> 0, due |-> due, missed |-> {}]
    BY <1>1 DEF NoDir
  <1>3. dir'.node = n /\ dir'.pos = 0 /\ dir'.due = due /\ dir'.missed = {}
    BY <1>2
  <1>4. Children(n)' = Children(n) /\ \A i : Position(n, i)' = Position(n, i)
    BY <1>1 DEF Children, Position
  <1>5. Cardinality(Children(n)) \in Nat /\ \A i \in Children(n) : Position(n, i) \in Nat
    BY ChildrenCounted
  <1>6. ASSUME NEW x \in due
        PROVE  \/ \E i \in Children(n) : x = <<"node", i>> /\ Position(n, i) >= 0
               \/ \E k \in 1..DirLength : x = <<"entry", k>> /\ 0 < Cardinality(Children(n)) + k
    BY <1>1, <1>5, FilesAssumption
  <1>7. DueIsAhead'
    BY <1>3, <1>4, <1>6 DEF DueIsAhead
  <1> QED
    BY <1>2, <1>3, <1>7 DEF DirIsARecord, ListingInv, NothingSkipped

(* Every listing that comes to its end has given every node that was there  *)
(* when it began and every entry of the driver's, although nodes are        *)
(* mounted in the middle of it (fs.c:44-62).                                *)
THEOREM ListingsAreComplete == Spec => []NothingSkipped
  <1> DEFINE Inv == NodesAreAList /\ DirIsARecord /\ ListingInv
  <1>1. Init => Inv
    <2> SUFFICES ASSUME Init PROVE Inv
      OBVIOUS
    <2>1. nodes = <<[parent |-> 0, name |-> NoName, fs |-> NoFS]>> /\ dir = NoDir
      BY DEF Init, xtCreatePathNode
    <2>2. NodesAreAList
      <3>1. nodes \in Seq({[parent |-> 0, name |-> NoName, fs |-> NoFS]}) /\ DOMAIN nodes = {1}
        BY <2>1
      <3>2. IsNodeRecord(nodes[1])
        BY <2>1 DEF IsNodeRecord
      <3> QED
        BY <3>1, <3>2 DEF NodesAreAList
    <2>3. DirIsARecord /\ ListingInv
      BY <2>1 DEF NoDir, DirIsARecord, ListingInv, NothingSkipped, DueIsAhead
    <2> QED
      BY <2>2, <2>3
  <1>2. ASSUME Inv, [Next]_vars PROVE Inv'
    <2>1. ASSUME UNCHANGED <<nodes, dir>> PROVE Inv'
      BY <1>2, <2>1 DEF NodesAreAList, DirIsARecord, ListingInv, NothingSkipped, DueIsAhead, Children, Position
    <2>2. ASSUME NEW path \in SeqOf(Components, MaxDepth), NEW fs \in FileSystems,
                 NEW behind \in Stale, NEW works \in BOOLEAN, xtMount(path, fs, behind, works)
          PROVE  Inv'
      <3>1. /\ NodesAreAList' /\ Len(nodes) <= Len(nodes')
            /\ \A i \in DOMAIN nodes : nodes'[i].parent = nodes[i].parent
        BY <1>2, <2>2, MountGrows
      <3>2. dir' = dir
        BY <2>2 DEF xtMount
      <3>3. DueIsAhead'
        BY <1>2, <3>1, <3>2, DueStaysAhead DEF ListingInv
      <3> QED
        BY <1>2, <3>1, <3>2, <3>3 DEF DirIsARecord, ListingInv, NothingSkipped
    <2>3. ASSUME NEW path \in SeqOf(Components, MaxDepth), NEW behind \in Stale, xtOpenDirectory(path, behind)
          PROVE  Inv'
      <3>1. NodesAreAList'
        BY <1>2, <2>3 DEF xtOpenDirectory, NodesAreAList
      <3> QED
        BY <1>2, <2>3, <3>1, OpenDirectoryStep
    <2>4. ASSUME xtReadDirectory PROVE Inv'
      <3>1. NodesAreAList'
        BY <1>2, <2>4 DEF xtReadDirectory, NodesAreAList
      <3> QED
        BY <1>2, <2>4, <3>1, ReadStep
    <2>5. ASSUME \/ \E fs \in FileSystems : xtRegisterFileSystem(fs)
                 \/ \E path \in Paths, stale \in Stale : xtOpenFile(path, stale)
                 \/ xtCloseFile
          PROVE  UNCHANGED <<nodes, dir>>
      BY <2>5 DEF xtRegisterFileSystem, xtOpenFile, xtCloseFile
    <2>6. ASSUME DevNext /\ UNCHANGED fileVars PROVE UNCHANGED <<nodes, dir>>
      BY <2>6 DEF fileVars
    <2>7. ASSUME UNCHANGED vars PROVE UNCHANGED <<nodes, dir>>
      BY <2>7 DEF vars, fileVars
    <2> HIDE DEF Inv
    <2> QED
      BY <1>2, <2>1, <2>2, <2>3, <2>4, <2>5, <2>6, <2>7 DEF Next, FilesNext
  <1>3. Inv => NothingSkipped
    BY DEF ListingInv
  <1> QED
    BY <1>1, <1>2, <1>3, PTL DEF Spec
=============================================================================
