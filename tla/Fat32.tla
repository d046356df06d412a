------------------------------- MODULE Fat32 --------------------------------
(***************************************************************************)
(* The FAT32 driver: fs/fat32.c and its node operations in                 *)
(* fs/fat32_vfs.c.                                                         *)
(*                                                                         *)
(* A loop over the disk takes one step per read: a chunk of the table, a   *)
(* sector of a directory, a cluster of a file.  Every read may fail, and   *)
(* so may every allocation.  A sector of the disk is a sequence: of table  *)
(* entries, of directory entries, or of bytes.  What a caller has          *)
(* allocated is tracked by name in heap.                                   *)
(***************************************************************************)
EXTENDS Integers, Sequences, FiniteSets, SequencesExt

CONSTANTS
  Volumes,       \* what may be on the disk: [boot, sector]
  BYTES,         \* bytes_per_sector: 512
  CHUNK,         \* sectors of the table read at once: 255
  EOF,           \* 0x0FFFFFF8, the least end mark of a chain
  WORD,          \* 2^32
  Lower,         \* tolower, on the parts of names
  Names, Offsets, Sizes, Indices,   \* what callers ask for
  MaxNodes       \* bound on the nodes that are handed out

-----------------------------------------------------------------------------
(* Volumes *)

g_fat_begin_lba(b) == b.reserved_sector_count
g_cluster_begin_lba(b) == g_fat_begin_lba(b) + b.num_fats * b.fat_size_32
is_eof_cluster(c) == c >= EOF
get_first_sector_of_cluster(b, c) == g_cluster_begin_lba(b) + (c - 2) * b.sectors_per_cluster

\* The contents of n sectors from lba on, and of a cluster.
SectorsOf(v, lba, n) == FlattenSeq([i \in 1 .. n |-> v.sector[lba + i - 1]])
ClusterOf(v, c) ==
  SectorsOf(v, get_first_sector_of_cluster(v.boot, c), v.boot.sectors_per_cluster)

\* The table, the clusters it is about, and the chain that begins at a cluster.
TableOf(v) == SectorsOf(v, g_fat_begin_lba(v.boot), v.boot.fat_size_32)
ClustersOf(v) == 2 .. Len(TableOf(v)) - 1
ChainOf(v, c) ==
  LET t == TableOf(v)
      upTo[k \in 1 .. Len(t)] ==
        IF k = 1 THEN <<c>>
        ELSE LET l == upTo[k - 1][Len(upTo[k - 1])]
             IN IF t[l + 1] \in ClustersOf(v) THEN Append(upTo[k - 1], t[l + 1])
                ELSE upTo[k - 1]
  IN IF c \in ClustersOf(v) THEN upTo[Len(t)] ELSE <<>>

\* All that is in the clusters of a chain, in order.
InChainOf(v, c) == FlattenSeq([i \in DOMAIN ChainOf(v, c) |-> ClusterOf(v, ChainOf(v, c)[i])])

\* The entries that are not skipped.  An entry that marks the end of the
\* directory is skipped like a deleted one; the search goes on behind it.
Shown(de) == de.mark = "used" /\ de.attributes \cap {"VOLUME_ID", "HIDDEN", "SYSTEM"} = {}
ShownIn(s) == {i \in DOMAIN s : Shown(s[i])}

\* A chain that ends with an end mark.
Ends(v, c) ==
  LET ch == ChainOf(v, c) IN c \in ClustersOf(v) /\ is_eof_cluster(TableOf(v)[ch[Len(ch)] + 1])

\* A file lies in a chain of clusters that is long enough for it; it has none if it
\* is empty.
FileIn(v, c, size) ==
  /\ c \in Nat /\ size \in Nat
  /\ size = 0 \/ /\ Ends(v, c) /\ size <= Len(InChainOf(v, c))
                 /\ \A i \in DOMAIN ChainOf(v, c), s \in 0 .. v.boot.sectors_per_cluster - 1 :
                      Len(v.sector[get_first_sector_of_cluster(v.boot, ChainOf(v, c)[i]) + s]) = BYTES

\* The clusters of the directories.  A directory is a chain too, and its entries
\* lead to directories (.. to 0 if that is the root) and files.
Directories(v, dirs) ==
  \A c \in dirs :
    /\ Ends(v, c)
    /\ TableOf(v)[c + 1] \in dirs \/ is_eof_cluster(TableOf(v)[c + 1])
    /\ \A i \in ShownIn(ClusterOf(v, c)) :
         LET de == ClusterOf(v, c)[i] IN
         IF "DIRECTORY" \in de.attributes
         THEN de.cluster \in dirs \cup {0} /\ de.file_size \in Nat
         ELSE FileIn(v, de.cluster, de.file_size)

\* A sound volume.
Sound(v) ==
  LET b == v.boot IN
  /\ {b.reserved_sector_count, b.num_fats, b.fat_size_32} \subseteq Nat
  /\ b.sectors_per_cluster \in Nat \ {0}
  /\ \A lba \in DOMAIN v.sector :
       v.sector[lba] \in Seq({v.sector[lba][i] : i \in DOMAIN v.sector[lba]})
  /\ \A i \in 1 .. b.fat_size_32 : v.sector[g_fat_begin_lba(b) + i - 1] \in Seq(Nat)
  /\ Len(TableOf(v)) <= EOF
  /\ \A c \in ClustersOf(v), s \in 0 .. b.sectors_per_cluster - 1 :
       get_first_sector_of_cluster(b, c) + s \in DOMAIN v.sector
  /\ \E dirs \in SUBSET ClustersOf(v) : b.root_cluster \in dirs /\ Directories(v, dirs)

ASSUME Fat32Assumption ==
  /\ {BYTES, CHUNK, EOF, WORD, MaxNodes} \subseteq Nat \ {0}
  /\ Sizes \subseteq Nat /\ Indices \subseteq Nat
  \* The buffer of a request does not reach around the address space.
  /\ \A o \in Offsets, s \in Sizes : o \in Nat /\ o + s < WORD
  /\ \A v \in Volumes : v.boot.fs_type = "FAT32" => Sound(v)

-----------------------------------------------------------------------------
VARIABLES
  disk,
  g_boot_sector, g_fat, g_initialized,
  heap,          \* the blocks allocated
  nodes,         \* the nodes handed out: [cluster, size, is_dir, priv]
  pc,            \* "idle", or the loop the call is in
  req,           \* the call: [op, n, a, b]
  at,            \* its locals: [cluster, s, n, left, out]
  res,           \* what it answered: [ok, val]
  fault          \* history: a read or an allocation has failed in it

fsVars == <<disk, g_boot_sector, g_fat, g_initialized>>
vars == <<fsVars, heap, nodes, pc, req, at, res, fault>>

\* The table, the buffer of a read, and two blocks for each node.
FatBlock == <<"fat", 0>>
ClusterBlock == <<"cluster", 0>>
Blocks(n) == {<<"priv", n>>, <<"node", n>>}

Start == [cluster |-> 0, s |-> 0, n |-> 0, left |-> 0, out |-> <<>>]
NoRes == [ok |-> FALSE, val |-> <<>>]
Request(op, n, a, b) == req' = [op |-> op, n |-> n, a |-> a, b |-> b]

Answer(ok, val) == pc' = "idle" /\ at' = Start /\ res' = [ok |-> ok, val |-> val]
Walk(loop, locals) == pc' = loop /\ at' = locals /\ res' = NoRes

\* A call that ends at once, because it is refused, because it is done, because a
\* read or an allocation fails; or that goes into a loop.
Refuse == Answer(FALSE, <<>>) /\ fault' = FALSE
Grant(val) == Answer(TRUE, val) /\ fault' = FALSE
Fault == Answer(FALSE, <<>>) /\ fault' = TRUE
Enter(loop, locals) == Walk(loop, locals) /\ fault' = FALSE

\* What is read from the disk.
Sectors(lba, n) == SectorsOf(disk, lba, n)

\* The table's entry for a cluster.
NextCluster(c) == g_fat[c + 1]
bytes_per_cluster == BYTES * g_boot_sector.sectors_per_cluster

-----------------------------------------------------------------------------
(* Nodes *)

\* Two allocations; when the second fails the first is freed.  The caller answers
\* with the node or, when there is none, in fat32_mount with NULL and in
\* fat32_finddir with success and a NULL.
fat32_create_node(cluster, size, is_dir) ==
  \/ /\ Len(nodes) < MaxNodes
     /\ nodes' = Append(nodes, [cluster |-> cluster, size |-> size, is_dir |-> is_dir, priv |-> TRUE])
     /\ heap' = heap \cup Blocks(Len(nodes) + 1)
     /\ Grant(<<Len(nodes) + 1>>)
  \/ /\ UNCHANGED <<nodes, heap>>
     /\ Answer(req'.op = "find", <<>>)
     /\ fault' = TRUE

-----------------------------------------------------------------------------
(* fat32_init and fat32_mount *)

\* The driver is not initialised: as far as the first read of the table.
fat32_init ==
  \/ Fault /\ UNCHANGED <<fsVars, heap>>
  \/ /\ g_boot_sector' = disk.boot
     /\ disk.boot.fs_type # "FAT32"
     /\ Refuse
     /\ UNCHANGED <<disk, g_fat, g_initialized, heap>>
  \/ /\ g_boot_sector' = disk.boot
     /\ disk.boot.fs_type = "FAT32"
     /\ g_fat' = <<>>
     /\ \/ Fault /\ UNCHANGED heap
        \/ /\ heap' = heap \cup {FatBlock}
           /\ Enter("fat", [Start EXCEPT !.left = disk.boot.fat_size_32,
                                         !.n = g_fat_begin_lba(disk.boot)])
     /\ UNCHANGED <<disk, g_initialized>>

\* A second mount keeps the table that is there.
fat32_mount ==
  /\ pc = "idle"
  /\ Request("mount", 0, 0, 0)
  /\ \/ ~g_initialized /\ fat32_init /\ UNCHANGED nodes
     \/ /\ g_initialized
        /\ fat32_create_node(g_boot_sector.root_cluster, 0, TRUE)
        /\ UNCHANGED fsVars

Chunk == IF at.left > CHUNK THEN CHUNK ELSE at.left

\* Mutant: every chunk is read from the beginning of the table.
FatChunk_sameLba ==
  /\ pc = "fat" /\ at.left > 0
  /\ \/ /\ g_fat' = g_fat \o Sectors(at.n, Chunk)
        /\ Walk("fat", [at EXCEPT !.left = @ - Chunk])
        /\ UNCHANGED <<heap, fault>>
     \/ heap' = heap \ {FatBlock} /\ Fault /\ UNCHANGED g_fat
  /\ UNCHANGED <<disk, g_boot_sector, g_initialized, nodes, req>>

\* One chunk of the table.  After an error the table is freed; the pointer to it
\* is not cleared.
FatChunk ==
  /\ pc = "fat" /\ at.left > 0
  /\ \/ /\ g_fat' = g_fat \o Sectors(at.n, Chunk)
        /\ Walk("fat", [at EXCEPT !.left = @ - Chunk, !.n = @ + Chunk])
        /\ UNCHANGED <<heap, fault>>
     \/ heap' = heap \ {FatBlock} /\ Fault /\ UNCHANGED g_fat
  /\ UNCHANGED <<disk, g_boot_sector, g_initialized, nodes, req>>

\* The table is complete: the driver is initialised, and the root's node made.
FatLoaded ==
  /\ pc = "fat" /\ at.left = 0
  /\ g_initialized' = TRUE
  /\ UNCHANGED req
  /\ fat32_create_node(g_boot_sector.root_cluster, 0, TRUE)
  /\ UNCHANGED <<disk, g_boot_sector, g_fat>>

\* The private data is freed; the node is the caller's.
fat32_umount(n) ==
  /\ pc = "idle"
  /\ Request("umount", n, 0, 0)
  /\ IF nodes[n].priv
     THEN /\ nodes' = [nodes EXCEPT ![n].priv = FALSE]
          /\ heap' = heap \ {<<"priv", n>>}
          /\ Grant(<<>>)
     ELSE Refuse /\ UNCHANGED <<nodes, heap>>
  /\ UNCHANGED fsVars

fat32_cleanup ==
  /\ pc = "idle"
  /\ Request("cleanup", 0, 0, 0)
  /\ heap' = heap \ {FatBlock}
  /\ g_fat' = <<>> /\ g_initialized' = FALSE
  /\ Grant(<<>>)
  /\ UNCHANGED <<disk, g_boot_sector, nodes>>

-----------------------------------------------------------------------------
(* Directories *)

\* From 8.3 to readable: lower case, and a dot only before an extension.
entry_name(de) ==
  IF de.ext = " " THEN <<Lower[de.base]>> ELSE <<Lower[de.base], Lower[de.ext]>>

\* strcasecmp.
SameName(name, de) ==
  entry_name(de) = [i \in DOMAIN name |-> Lower[name[i]]]

InDir == ~is_eof_cluster(at.cluster) /\ at.cluster # 0
DirSector == Sectors(get_first_sector_of_cluster(g_boot_sector, at.cluster) + at.s, 1)

\* The entries with that name, and how many of a set of entries come before one.
Named(name, s) == {i \in ShownIn(s) : SameName(name, s[i])}
Before(i, S) == Cardinality({j \in S : j < i})

\* Mutant: only the first sector of a cluster is searched.
NextSector_first == [at EXCEPT !.s = 0, !.cluster = NextCluster(@)]

\* Mutant: the chain is not followed.
NextSector_stay == [at EXCEPT !.s = (@ + 1) % g_boot_sector.sectors_per_cluster]

\* The next sector of the cluster, or the first of the next cluster.
NextSector ==
  IF at.s + 1 < g_boot_sector.sectors_per_cluster THEN [at EXCEPT !.s = @ + 1]
  ELSE [at EXCEPT !.s = 0, !.cluster = NextCluster(@)]

\* . is the node itself and .. the root of the whole tree (node 0); neither is
\* looked for on the disk.
fat32_finddir(n, name) ==
  /\ pc = "idle"
  /\ Request("find", n, name, 0)
  /\ IF ~nodes[n].priv \/ ~nodes[n].is_dir THEN Refuse
     ELSE IF name = <<".">> THEN Grant(<<n>>)
     ELSE IF name = <<"..">> THEN Grant(<<0>>)
     ELSE IF ~g_initialized THEN Refuse
     ELSE Enter("find", [Start EXCEPT !.cluster = nodes[n].cluster])
  /\ UNCHANGED <<fsVars, heap, nodes>>

\* One sector of fat32_find_entry.  An error of the disk is answered like a name
\* that is not there.
fat32_find_entry ==
  /\ pc = "find"
  /\ UNCHANGED <<fsVars, req>>
  /\ LET here == Named(req.a, DirSector)
         de == DirSector[Min(here)] IN
     \/ ~InDir /\ Answer(FALSE, <<>>) /\ UNCHANGED <<heap, nodes, fault>>
     \/ InDir /\ Fault /\ UNCHANGED <<heap, nodes>>
     \/ InDir /\ here = {} /\ Walk("find", NextSector) /\ UNCHANGED <<heap, nodes, fault>>
     \/ /\ InDir /\ here # {}
        /\ fat32_create_node(de.cluster, de.file_size, "DIRECTORY" \in de.attributes)

\* . and .. come first, then what is in the directory.
fat32_vfs_readdir(n, index) ==
  /\ pc = "idle"
  /\ Request("list", n, index, 0)
  /\ IF ~nodes[n].priv \/ ~nodes[n].is_dir THEN Refuse
     ELSE IF index = 0 THEN Grant(<<".">>)
     ELSE IF index = 1 THEN Grant(<<"..">>)
     ELSE IF ~g_initialized THEN Refuse
     ELSE Enter("list", [Start EXCEPT !.cluster = nodes[n].cluster, !.left = index - 2])
  /\ UNCHANGED <<fsVars, heap, nodes>>

\* One sector of fat32_readdir_index; at.left is how many entries are still to be
\* passed (index - entries_found).
fat32_readdir_index ==
  /\ pc = "list"
  /\ LET here == ShownIn(DirSector)
         passed == Cardinality(here) IN
     \/ ~InDir /\ Answer(FALSE, <<>>) /\ UNCHANGED fault
     \/ InDir /\ Fault
     \/ InDir /\ at.left >= passed
        /\ Walk("list", [NextSector EXCEPT !.left = @ - passed]) /\ UNCHANGED fault
     \/ InDir /\ UNCHANGED fault
        /\ \E i \in here : Before(i, here) = at.left /\ Answer(TRUE, entry_name(DirSector[i]))
  /\ UNCHANGED <<fsVars, heap, nodes, req>>

-----------------------------------------------------------------------------
(* Files *)

Clip(n, offset, size) ==
  IF (offset + size) % WORD > nodes[n].size THEN nodes[n].size - offset ELSE size

\* fat32_read_file_data as far as its buffer.
ReadStart(n, size) ==
  \/ ~g_initialized /\ Refuse /\ UNCHANGED heap
  \/ g_initialized /\ size = 0 /\ Grant(<<>>) /\ UNCHANGED heap
  \/ g_initialized /\ size > 0 /\ Fault /\ UNCHANGED heap
  \/ /\ g_initialized /\ size > 0
     /\ heap' = heap \cup {ClusterBlock}
     /\ Enter("skip", [Start EXCEPT !.cluster = nodes[n].cluster, !.left = size])

fat32_read(n, offset, size) ==
  /\ pc = "idle"
  /\ Request("read", n, offset, size)
  /\ IF ~nodes[n].priv \/ nodes[n].is_dir THEN Refuse /\ UNCHANGED heap
     ELSE IF offset >= nodes[n].size THEN Grant(<<>>) /\ UNCHANGED heap
     ELSE ReadStart(n, Clip(n, offset, size))
  /\ UNCHANGED <<fsVars, nodes>>

\* The cluster ends before the offset; at.n is current_offset.
BeforeOffset == at.n + bytes_per_cluster <= req.a

ReadSkip ==
  /\ pc = "skip"
  /\ IF BeforeOffset /\ ~is_eof_cluster(at.cluster)
     THEN Walk("skip", [at EXCEPT !.cluster = NextCluster(@), !.n = @ + bytes_per_cluster])
     ELSE Walk("copy", [at EXCEPT !.n = req.a - @])
  /\ UNCHANGED <<fsVars, heap, nodes, req, fault>>

MoreToCopy == at.left > 0 /\ ~is_eof_cluster(at.cluster)

\* Mutant: the offset in the first cluster is used in every cluster.
ReadCopy_keepOffset ==
  /\ pc = "copy" /\ MoreToCopy
  /\ LET data == Sectors(get_first_sector_of_cluster(g_boot_sector, at.cluster),
                         g_boot_sector.sectors_per_cluster)
         room == bytes_per_cluster - at.n
         to_read == IF room > at.left THEN at.left ELSE room
     IN Walk("copy", [at EXCEPT !.out = @ \o SubSeq(data, at.n + 1, at.n + to_read),
                                !.left = @ - to_read, !.cluster = NextCluster(@)])
  /\ UNCHANGED <<fsVars, heap, nodes, req, fault>>

\* One cluster; at.n is the offset in it, which is 0 from the second one on.
ReadCopy ==
  /\ pc = "copy" /\ MoreToCopy
  /\ LET data == Sectors(get_first_sector_of_cluster(g_boot_sector, at.cluster),
                         g_boot_sector.sectors_per_cluster)
         room == bytes_per_cluster - at.n
         to_read == IF room > at.left THEN at.left ELSE room
     IN Walk("copy", [at EXCEPT !.out = @ \o SubSeq(data, at.n + 1, at.n + to_read),
                                !.left = @ - to_read, !.cluster = NextCluster(@), !.n = 0])
  /\ UNCHANGED <<fsVars, heap, nodes, req, fault>>

\* Mutant: the buffer stays allocated after an error.
ReadError_keep ==
  /\ pc = "copy" /\ MoreToCopy
  /\ Fault
  /\ UNCHANGED <<fsVars, heap, nodes, req>>

ReadError ==
  /\ pc = "copy" /\ MoreToCopy
  /\ heap' = heap \ {ClusterBlock}
  /\ Fault
  /\ UNCHANGED <<fsVars, nodes, req>>

ReadDone ==
  /\ pc = "copy" /\ ~MoreToCopy
  /\ heap' = heap \ {ClusterBlock}
  /\ Answer(TRUE, at.out)
  /\ UNCHANGED <<fsVars, nodes, req, fault>>

-----------------------------------------------------------------------------
Init ==
  /\ disk \in Volumes
  /\ g_boot_sector = [fs_type |-> "none"] /\ g_fat = <<>> /\ g_initialized = FALSE
  /\ heap = {} /\ nodes = <<>>
  /\ pc = "idle" /\ req = [op |-> "none", n |-> 0, a |-> 0, b |-> 0]
  /\ at = Start /\ res = NoRes /\ fault = FALSE

Steps ==
  \/ FatChunk \/ FatLoaded
  \/ fat32_find_entry \/ fat32_readdir_index
  \/ ReadSkip \/ ReadCopy \/ ReadError \/ ReadDone

\* Callers clean up only what has been initialised: after a failed mount g_fat still
\* points to the freed table, and fat32_cleanup would free it once more.
Next ==
  \/ fat32_mount
  \/ \E n \in DOMAIN nodes :
       \/ fat32_umount(n)
       \/ \E name \in Names : fat32_finddir(n, name)
       \/ \E i \in Indices : fat32_vfs_readdir(n, i)
       \/ \E o \in Offsets, s \in Sizes : fat32_read(n, o, s)
  \/ g_initialized /\ fat32_cleanup
  \/ Steps

\* A call that has started goes on; the drive answers or times out.
Spec == Init /\ [][Next]_vars /\ WF_vars(Steps)

-----------------------------------------------------------------------------
(* Properties *)

\* Type invariant.
TypeOK ==
  /\ disk \in Volumes
  /\ g_fat \in Seq(Nat) /\ g_initialized \in BOOLEAN
  /\ Len(nodes) <= MaxNodes
  /\ \A n \in DOMAIN nodes : /\ {nodes[n].cluster, nodes[n].size} \subseteq Nat
                             /\ {nodes[n].is_dir, nodes[n].priv} \subseteq BOOLEAN
  /\ pc \in {"idle", "fat", "find", "list", "skip", "copy"}
  /\ {at.cluster, at.s, at.n, at.left} \subseteq Nat
  /\ res.ok \in BOOLEAN /\ fault \in BOOLEAN

\* Each call gives back what it allocated for itself, whatever fails: between calls
\* the heap holds the table if the driver is initialised, and the blocks of the
\* nodes that were handed out.
HeldExactly ==
  /\ TypeOK
  /\ pc = "idle" =>
       heap = (UNION {{<<"node", n>>} \cup (IF nodes[n].priv THEN {<<"priv", n>>} ELSE {})
                       : n \in DOMAIN nodes})
              \cup (IF g_initialized THEN {FatBlock} ELSE {})

\* While the driver is initialised, its copy of the table is the whole table of the
\* disk, however many chunks it was read in and whatever failed before.
CacheIsTable == g_initialized => g_fat = TableOf(disk)

Done(op) == pc = "idle" /\ req.op = op /\ res.ok

\* A read that succeeds returns the bytes of the file from the offset on, all that
\* were asked for or all that are left, and nothing of what lies behind its end in
\* the last cluster.
ReadsContents ==
  Done("read") =>
    LET n == nodes[req.n]
        end == IF req.a + req.b < n.size THEN req.a + req.b ELSE n.size
    IN res.val = SubSeq(InChainOf(disk, n.cluster), req.a + 1, end)

Special == {<<".">>, <<"..">>}

\* A walk over a directory that was let in and met no error.
Walked(op) ==
  /\ pc = "idle" /\ req.op = op /\ ~fault
  /\ nodes[req.n].is_dir /\ nodes[req.n].priv /\ g_initialized

\* fat32_finddir answers with the first entry of that name wherever it stands in the
\* chain, and that there is none only if there is none or the disk has failed.
FirstOfName ==
  Walked("find") /\ req.a \notin Special =>
    LET all == InChainOf(disk, nodes[req.n].cluster)
        named == Named(req.a, all)
    IN IF named = {} THEN ~res.ok
       ELSE /\ res.ok
            /\ LET n == nodes[res.val[1]]
                   de == all[Min(named)]
               IN /\ n.cluster = de.cluster /\ n.size = de.file_size
                  /\ n.is_dir = ("DIRECTORY" \in de.attributes)

\* Counting up the index lists every entry once, in order, and then ends.
EntryAtIndex ==
  Walked("list") /\ req.a > 1 =>
    LET all == InChainOf(disk, nodes[req.n].cluster)
        shown == ShownIn(all)
    IN IF req.a - 1 > Cardinality(shown) THEN ~res.ok
       ELSE /\ res.ok
            /\ \E i \in shown : Before(i, shown) = req.a - 2 /\ res.val = entry_name(all[i])

\* The two walks of a directory, search and listing, agree with what is in its
\* chain on the disk, over the boundaries of sectors and clusters.
DirectoryIsChain == FirstOfName /\ EntryAtIndex

\* Every call ends, on a volume whose chains end.
CallsEnd == (pc # "idle") ~> (pc = "idle")
=============================================================================
