------------------------------- MODULE Initrd -------------------------------
(***************************************************************************)
(* Mounting the initial RAM disk: ata_init and ata_read28_lba of           *)
(* drivers/ata/ata.c, the device table of kernel/block.c, and              *)
(* initrd_mount_from_block and mount_initrd of kernel/initrd.c, in the     *)
(* order in which user_init_launcher calls them.                           *)
(*                                                                         *)
(* The drive (external) answers every read of its status register with     *)
(* any status.  A sector holds the header of an archive member, a part of  *)
(* its contents, or zeros; sizes and offsets are in bytes, SECTOR bytes to *)
(* a sector.  Memory is what is left of the heap, counted in units: what   *)
(* matters is that a request fails once, and then as long as nothing is    *)
(* freed, for every request that is not smaller.                           *)
(***************************************************************************)
EXTENDS Integers, Sequences, FiniteSets

CONSTANTS
  NULL,
  SECTOR,            \* 512
  POLLS,             \* 100000: how often ata_poll reads the status
  MAX_BLK_DEVS,
  max_sectors, max_bytes_cap,   \* what the launcher passes
  NODE, META,        \* units of memory for a node and for its tar_file_meta_t
  Disks,             \* what may be on the disk: sequences of sectors, from LBA 1
  Memory             \* units that may be free at the start

\* A sector.  The header of a member has its path, its size and its permissions.
Zeros == [kind |-> "zero"]
Contents == [kind |-> "data"]
IsHeader(s) == s.kind = "header"

\* An archive: a member's contents fill the sectors behind its header, the last one
\* perhaps in part, and behind them is the next header or the end.
MayStart(s) == s = Zeros \/ IsHeader(s)
Archive(d) ==
  /\ d # <<>> => MayStart(d[1])
  /\ \A i \in DOMAIN d : IsHeader(d[i]) =>
       \A c \in 0 .. Len(d) - i - 1 :
         d[i].size <= c * SECTOR /\ (c - 1) * SECTOR < d[i].size => MayStart(d[i + 1 + c])

ASSUME InitrdAssumption ==
  /\ {SECTOR, POLLS, MAX_BLK_DEVS, NODE, META} \subseteq Nat \ {0}
  /\ {max_sectors, max_bytes_cap} \subseteq Nat /\ Memory \subseteq Nat
  /\ META <= NODE /\ NULL \notin Nat /\ "/" \in STRING
  /\ \A d \in Disks :
       /\ Len(d) \in Nat /\ DOMAIN d = 1 .. Len(d)
       /\ Archive(d)
       /\ \A i \in DOMAIN d :
            IsHeader(d[i]) => /\ d[i].dir \in BOOLEAN /\ d[i].size \in Nat
                              /\ d[i].mode \subseteq {"r", "w"}
                              /\ d[i].path \in Seq(STRING)
                              /\ d[i].dir \/ d[i].path # <<>>

VARIABLES
  disk,
  pc,
  polls,        \* times ata_poll has read the status
  g_blk_devs,   \* names of the registered devices
  image,        \* the sectors read so far, in buf
  buf,          \* buf is allocated
  mem,          \* units of memory left
  short,        \* history: an allocation inside mount_initrd has failed
  tree,         \* the nodes, in the order of their creation; the first is the root
  off,          \* offset of the next header
  mounted       \* vfs_set_root has been called

ataVars == <<polls, g_blk_devs>>
mountVars == <<tree, off, short, mounted>>
vars == <<disk, pc, ataVars, image, buf, mem, mountVars>>

-----------------------------------------------------------------------------
(* The drive *)

\* No drive at all reads as 0.
Status == {"BSY", "ERR", "DF", "DRQ", "DRDY", "0"}

-----------------------------------------------------------------------------
(* ata_init *)

blk_register(name) ==
  g_blk_devs' = IF Len(g_blk_devs) >= MAX_BLK_DEVS THEN g_blk_devs
                ELSE Append(g_blk_devs, name)

\* ata_poll(0) after the command: it is over when BSY is clear.
AtaIdentify(st) ==
  /\ pc = "identify"
  /\ IF st = "BSY"
     THEN /\ polls' = (polls + 1) % POLLS
          /\ pc' = IF polls + 1 = POLLS THEN "mount" ELSE pc
     ELSE pc' = "status" /\ polls' = 0
  /\ UNCHANGED <<disk, g_blk_devs, image, buf, mem, mountVars>>

AtaStatus(st) ==
  /\ pc = "status"
  /\ pc' = IF st = "0" THEN "mount" ELSE "drq"
  /\ UNCHANGED <<disk, ataVars, image, buf, mem, mountVars>>

\* The wait for the data has no limit: a status without ERR, DF or DRQ leaves
\* everything as it is.
AtaWait(st) ==
  /\ pc = "drq"
  /\ st \in {"ERR", "DF", "DRQ"}
  /\ pc' = "mount"
  /\ IF st = "DRQ" THEN blk_register("hda") ELSE UNCHANGED g_blk_devs
  /\ UNCHANGED <<disk, polls, image, buf, mem, mountVars>>

-----------------------------------------------------------------------------
(* initrd_mount_from_block *)

to_read == IF max_sectors < max_bytes_cap \div SECTOR THEN max_sectors
           ELSE max_bytes_cap \div SECTOR
Bytes == to_read * SECTOR

blk_find(name) == {i \in DOMAIN g_blk_devs : g_blk_devs[i] = name}

\* The tests, the buffer, and blk_read_byname as far as the first sector.  Without
\* a device the buffer is freed again.
initrd_mount_from_block ==
  /\ pc = "mount"
  /\ IF to_read = 0 \/ mem < to_read \/ blk_find("hda") = {}
     THEN pc' = "failed" /\ UNCHANGED <<buf, mem>>
     ELSE pc' = "sector" /\ buf' = TRUE /\ mem' = mem - to_read
  /\ UNCHANGED <<disk, ataVars, image, mountVars>>

\* Give the buffer back and fail.
Abandon == pc' = "failed" /\ buf' = FALSE /\ mem' = mem + to_read

Waiting == {"BSY", "DRDY", "0"}

\* The sector after those in the buffer goes into the buffer.
Store(sector) ==
  /\ image' = Append(image, sector)
  /\ polls' = 0
  /\ pc' = IF Len(image') = to_read THEN "root" ELSE pc
  /\ UNCHANGED <<buf, mem>>
OnDisk == IF Len(image) < Len(disk) THEN disk[Len(image) + 1] ELSE Zeros

PollAgain == polls' = polls + 1 /\ UNCHANGED <<pc, image, buf, mem>>
GiveUp == polls' = 0 /\ Abandon /\ UNCHANGED image

\* Mutant: after a time-out the read goes on with the next sector.
ata_read28_lba_noTimeout(st) ==
  /\ pc = "sector"
  /\ \/ st = "DRQ" /\ Store(OnDisk)
     \/ st \in {"ERR", "DF"} /\ GiveUp
     \/ st \in Waiting /\ polls + 1 < POLLS /\ PollAgain
     \/ st \in Waiting /\ polls + 1 = POLLS /\ Store(Contents)
  /\ UNCHANGED <<disk, g_blk_devs, mountVars>>

\* Mutant: the number of polls has no limit.
ata_read28_lba_noLimit(st) ==
  /\ pc = "sector"
  /\ \/ st = "DRQ" /\ Store(OnDisk)
     \/ st \in {"ERR", "DF"} /\ GiveUp
     \/ st \in Waiting /\ polls' = (polls + 1) % POLLS /\ UNCHANGED <<pc, image, buf, mem>>
  /\ UNCHANGED <<disk, g_blk_devs, mountVars>>

\* One reading of the status in ata_poll(1).  An error or a time-out ends the
\* whole read.
ata_read28_lba(st) ==
  /\ pc = "sector"
  /\ \/ st = "DRQ" /\ Store(OnDisk)
     \/ st \in {"ERR", "DF"} /\ GiveUp
     \/ st \in Waiting /\ polls + 1 < POLLS /\ PollAgain
     \/ st \in Waiting /\ polls + 1 = POLLS /\ GiveUp
  /\ UNCHANGED <<disk, g_blk_devs, mountVars>>

-----------------------------------------------------------------------------
(* mount_initrd *)

Node(name, dir, perm, size, data_off, parent) ==
  [name |-> name, dir |-> dir, perm |-> perm, size |-> size,
   data_off |-> data_off, parent |-> parent, children |-> <<>>]

NewDir(name, parent) == Node(name, TRUE, {"r", "w"}, 0, 0, parent)

\* vfs_node_add_child: a new node in front of its parent's children.
AddChild(t, parent, n) ==
  Append([t EXCEPT ![parent].children = <<Len(t) + 1>> \o @], n)

\* The directory named c among the children of d: the first on the list.
ChildDir(t, d, c) ==
  LET ch == t[d].children
      named == {i \in DOMAIN ch : t[ch[i]].dir /\ t[ch[i]].name = c}
  IN {ch[i] : i \in {i \in named : \A j \in named : i <= j}}

\* One component: the directory is found or made.  When the memory is used up,
\* whatever has been reached stays.
DirStep(w, c) ==
  LET found == ChildDir(w.tree, w.cur, c)
  IN IF w.stop THEN w
     ELSE IF found # {} THEN [w EXCEPT !.cur = CHOOSE d \in found : TRUE]
     ELSE IF w.mem < NODE THEN [w EXCEPT !.stop = TRUE]
     ELSE [tree |-> AddChild(w.tree, w.cur, NewDir(c, w.cur)),
           mem |-> w.mem - NODE, cur |-> Len(w.tree) + 1, stop |-> FALSE]

\* The directories of the path, one after the other.
ensure_dir(t, m, path) ==
  LET walk[i \in 0 .. Len(path)] ==
        IF i = 0 THEN [tree |-> t, mem |-> m, cur |-> 1, stop |-> FALSE]
        ELSE DirStep(walk[i - 1], path[i])
  IN walk[Len(path)]

MountRoot ==
  /\ pc = "root"
  /\ IF mem < NODE
     THEN Abandon /\ UNCHANGED mountVars
     ELSE /\ tree' = <<NewDir("/", NULL)>>
          /\ mem' = mem - NODE
          /\ off' = 0
          /\ pc' = "member"
          /\ UNCHANGED <<buf, short, mounted>>
  /\ UNCHANGED <<disk, ataVars, image>>

Hdr == image[off \div SECTOR + 1]
AtHeader == off + SECTOR <= Bytes /\ Hdr # Zeros

\* Mutant: the size is not rounded up to whole sectors.
NextHeader_truncate(size) == off + SECTOR + (size \div SECTOR) * SECTOR

NextHeader(size) == off + SECTOR + ((size + SECTOR - 1) \div SECTOR) * SECTOR

FileNode(parent) ==
  Node(Hdr.path[Len(Hdr.path)], FALSE, IF Hdr.mode = {} THEN {"r", "w"} ELSE Hdr.mode,
       Hdr.size, off + SECTOR, parent)
DirOf(path) == SubSeq(path, 1, Len(path) - 1)

\* Mutant: the node is allocated before its directory is looked for.
MountFile_nodeFirst ==
  /\ pc = "member" /\ AtHeader /\ ~Hdr.dir
  /\ LET ok == mem >= NODE + META
         w == ensure_dir(tree, IF ok THEN mem - NODE - META ELSE mem, DirOf(Hdr.path))
     IN /\ tree' = IF ok THEN AddChild(w.tree, w.cur, FileNode(w.cur)) ELSE w.tree
        /\ mem' = w.mem
        /\ short' = (short \/ ~ok)
  /\ off' = NextHeader(Hdr.size)
  /\ UNCHANGED <<disk, pc, ataVars, image, buf, mounted>>

\* A regular file under its directory.  Without memory it is left out, and its
\* node is freed again if only the second allocation fails.
MountFile ==
  /\ pc = "member" /\ AtHeader /\ ~Hdr.dir
  /\ LET w == ensure_dir(tree, mem, DirOf(Hdr.path))
         ok == w.mem >= NODE + META
     IN /\ tree' = IF ok THEN AddChild(w.tree, w.cur, FileNode(w.cur)) ELSE w.tree
        /\ mem' = IF ok THEN w.mem - NODE - META ELSE w.mem
        /\ short' = (short \/ ~ok)
  /\ off' = NextHeader(Hdr.size)
  /\ UNCHANGED <<disk, pc, ataVars, image, buf, mounted>>

\* A directory, which may exist already: only its permissions are new.
MountDir ==
  /\ pc = "member" /\ AtHeader /\ Hdr.dir
  /\ LET w == ensure_dir(tree, mem, Hdr.path)
     IN /\ tree' = IF Hdr.mode = {} THEN w.tree
                   ELSE [w.tree EXCEPT ![w.cur].perm = Hdr.mode]
        /\ mem' = w.mem
        /\ short' = (short \/ w.stop)
  /\ off' = NextHeader(Hdr.size)
  /\ UNCHANGED <<disk, pc, ataVars, image, buf, mounted>>

\* Zeros, or the end of the buffer: vfs_set_root.
MountDone ==
  /\ pc = "member" /\ ~AtHeader
  /\ mounted' = TRUE
  /\ pc' = "done"
  /\ UNCHANGED <<disk, ataVars, image, buf, mem, tree, off, short>>

-----------------------------------------------------------------------------
Init ==
  /\ disk \in Disks /\ mem \in Memory
  /\ pc = "identify" /\ polls = 0 /\ g_blk_devs = <<>>
  /\ image = <<>> /\ buf = FALSE
  /\ tree = <<>> /\ off = 0 /\ short = FALSE /\ mounted = FALSE

\* The launcher has come to the end of the mount, one way or the other.
Over == pc \in {"done", "failed"} /\ UNCHANGED vars

Read == \E st \in Status : ata_read28_lba(st)
Mount == initrd_mount_from_block \/ Read \/ MountRoot \/ MountFile \/ MountDir \/ MountDone

Next ==
  \/ \E st \in Status : AtaIdentify(st) \/ AtaStatus(st) \/ AtaWait(st)
  \/ Mount
  \/ Over

\* The launcher's thread keeps running; what the drive answers is left open.
Spec == Init /\ [][Next]_vars /\ WF_vars(Mount)

-----------------------------------------------------------------------------
(* Properties *)

\* Type invariant.
TypeOK ==
  /\ pc \in {"identify", "status", "drq", "mount", "sector", "root", "member", "done", "failed"}
  /\ polls \in 0 .. POLLS - 1
  /\ g_blk_devs \in Seq({"hda"}) /\ Len(g_blk_devs) <= MAX_BLK_DEVS
  /\ Len(image) <= to_read
  /\ buf \in BOOLEAN /\ mem \in Nat /\ off \in Nat
  /\ \A a \in DOMAIN tree : tree[a].perm \subseteq {"r", "w"} /\ tree[a].size \in Nat
  /\ short \in BOOLEAN /\ mounted \in BOOLEAN

\* A failed mount gives its memory back and mounts nothing; a tree is built, and
\* mounted, only from a buffer that holds every sector asked for, as it is on the
\* disk, whatever errors and time-outs the drive has answered with on the way.
AllOrNothing ==
  /\ TypeOK
  /\ pc = "failed" => ~buf /\ ~mounted /\ tree = <<>>
  /\ tree # <<>> => buf /\ Len(image) = to_read
  /\ \A i \in DOMAIN image : image[i] = IF i <= Len(disk) THEN disk[i] ELSE Zeros

\* The walk over the archive never takes the contents of a file for a header.
InStep ==
  pc = "member" /\ off + SECTOR <= Bytes => Hdr = Zeros \/ IsHeader(Hdr)

\* The path of a node.
PathOf(a) ==
  LET up[i \in 0 .. Len(tree)] ==
        IF i = 0 THEN [at |-> a, path |-> <<>>]
        ELSE LET w == up[i - 1]
             IN IF tree[w.at].parent = NULL THEN w
                ELSE [at |-> tree[w.at].parent, path |-> <<tree[w.at].name>> \o w.path]
  IN up[Len(tree)].path

Members == {disk[i] : i \in {i \in DOMAIN disk : IsHeader(disk[i])}}
Prefixes(p) == {SubSeq(p, 1, k) : k \in 0 .. Len(p)}

\* Every node stands where the archive has it: memory that runs out in ensure_dir,
\* which then returns another directory than the one asked for, never puts a file
\* there.
EachInItsPlace ==
  \A a \in DOMAIN tree :
    IF tree[a].dir
    THEN PathOf(a) = <<>> \/ \E m \in Members : PathOf(a) \in Prefixes(m.path)
    ELSE \E m \in Members : ~m.dir /\ m.path = PathOf(a) /\ m.size = tree[a].size

\* The mounted tree as kernel/vfs.c sees it.
FS == INSTANCE Vfs WITH
        MAX_OPEN_FILES <- 0, WORD <- 8, Addr <- {}, Tree <- <<>>, TreeRoot <- 1,
        Paths <- {}, Options <- {}, Counts <- {}, Offsets <- {},
        node <- tree, vfs_root <- tree[1], open_files <- <<>>, res <- 0

\* The last header with that path wins.
Wins(i) == \A j \in DOMAIN disk : j > i /\ IsHeader(disk[j]) => disk[j].path # disk[i].path

\* If no allocation failed, vfs_lookup finds every member whose header was read
\* under its path, with its size, its permissions and the offset of its contents.
EachUnderItsPath ==
  mounted /\ ~short =>
    \A i \in 1 .. to_read :
      (i <= Len(disk) /\ IsHeader(disk[i]) /\ Wins(i)) =>
        LET m == disk[i] IN
        \E n \in FS!vfs_lookup(m.path) :
          /\ n.dir = m.dir
          /\ m.mode # {} => n.perm = m.mode
          /\ ~m.dir => n.size = m.size /\ n.data_off = i * SECTOR

\* The tree is the archive: at every step of the walk, with or without memory, it
\* holds nothing that the archive has elsewhere, and once mounted with enough
\* memory it answers for every member.
TreeIsArchive == EachInItsPlace /\ EachUnderItsPath

\* Reading the archive and building the tree ends, also with a drive that stops
\* answering.
MountEnds == (pc = "mount") ~> (pc \in {"done", "failed"})
=============================================================================
