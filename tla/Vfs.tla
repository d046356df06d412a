-------------------------------- MODULE Vfs ---------------------------------
(***************************************************************************)
(* The virtual file system, kernel/vfs.c, over the one file system that    *)
(* the kernel mounts, the read-only tree of kernel/initrd.c.               *)
(*                                                                         *)
(* Nodes are copied, not shared: a lookup returns a copy of a node, and a  *)
(* descriptor holds one.  A node record keeps the fields that some         *)
(* operation tests; its children are the addresses on its child list, in   *)
(* list order (nodes are only ever put in front).  A path is the sequence  *)
(* of its components.  Sizes, positions and counts are machine words.      *)
(* Calls do not interleave: the kernel is not preempted inside one.        *)
(***************************************************************************)
EXTENDS Integers, Sequences, FiniteSets

CONSTANTS
  MAX_OPEN_FILES,
  WORD,         \* 2^32 in the code
  Addr,         \* heap addresses with room for a node
  NULL,
  Tree,         \* the nodes mount_initrd makes, by address
  TreeRoot,     \* the address of its root
  Paths, Options, Counts, Offsets  \* what callers pass

Fds == 0 .. MAX_OPEN_FILES - 1
Words == 0 .. WORD - 1

\* A node: dir is S_IFDIR, perm the permission classes any user has, tar the
\* operations of initrd.c, obj what it stands for (its payload).
Nodes == [name : STRING, dir : BOOLEAN, perm : SUBSET {"r", "w"}, tar : BOOLEAN,
          size : Words, position : Words, obj : Addr \cup {NULL},
          parent : Addr \cup {NULL}, children : Seq(Addr)]

ASSUME VfsAssumption ==
  /\ WORD \in Nat /\ WORD > 1 /\ WORD % 2 = 0
  /\ MAX_OPEN_FILES \in Nat /\ MAX_OPEN_FILES <= WORD
  /\ Addr \subseteq Nat /\ NULL \notin Addr
  /\ DOMAIN Tree \subseteq Addr /\ TreeRoot \in DOMAIN Tree
  /\ \A a \in DOMAIN Tree :
       /\ Tree[a] \in Nodes
       /\ Tree[a].obj = a /\ Tree[a].tar /\ Tree[a].position = 0
       /\ Tree[a].name # "" /\ 2 * Tree[a].size < WORD
       /\ Tree[a].parent \in DOMAIN Tree \cup {NULL}
       /\ \A i \in DOMAIN Tree[a].children : Tree[a].children[i] \in DOMAIN Tree
  /\ "" \in STRING /\ Paths \subseteq Seq(STRING)
  /\ Options \subseteq SUBSET {"CREAT", "EXCL", "APPEND"}
  /\ Counts \subseteq Words
  /\ \A o \in Offsets : o \in Int /\ 0 - WORD <= 2 * o /\ 2 * o < WORD

VARIABLES
  node,        \* the nodes on the heap, by address
  vfs_root,    \* a copy of the root of what is mounted
  open_files,  \* a copy of a node per descriptor; no name: free
  res          \* the answer to the last call: [err, val]

vars == <<node, vfs_root, open_files, res>>

ZeroNode == [name |-> "", dir |-> FALSE, perm |-> {}, tar |-> FALSE, size |-> 0,
             position |-> 0, obj |-> NULL, parent |-> NULL, children |-> <<>>]

Answer(v) == res' = [err |-> "OK", val |-> v]
Error(e) == res' = [err |-> e, val |-> -1]
\* A call that only answers.
Refuse(e) == Error(e) /\ UNCHANGED <<node, vfs_root, open_files>>

-----------------------------------------------------------------------------
(* vfs_lookup *)

\* The first child of that name.  The finddir of initrd.c never finds anything,
\* so that the search always falls through to the child list.
FindChild(dir, c) ==
  LET named == {i \in DOMAIN dir.children : node[dir.children[i]].name = c}
  IN {node[dir.children[i]] : i \in {i \in named : \A j \in named : i <= j}}

Component(n, c) ==
  CASE c = "."  -> {n}
    [] c = ".." -> {IF n.parent = NULL THEN n ELSE node[n.parent]}
    [] OTHER    -> FindChild(n, c)

\* {} when a component is missing, else {a copy of the node}.
vfs_lookup(path) ==
  LET walk[i \in 0 .. Len(path)] ==
        IF i = 0 THEN {vfs_root}
        ELSE UNION {Component(n, path[i]) : n \in walk[i - 1]}
  IN walk[Len(path)]

Directory(path) == IF path = <<>> THEN <<>> ELSE SubSeq(path, 1, Len(path) - 1)

-----------------------------------------------------------------------------
(* vfs_create *)

Free == Addr \ DOMAIN node
Lowest(S) == CHOOSE a \in S : \A b \in S : a <= b

\* Why vfs_create gives up, in the order of its tests.  A copy of the parent is
\* allocated first, the new node last.
CreateError(path) ==
  IF Free = {} THEN "ENOMEM"
  ELSE IF vfs_lookup(Directory(path)) = {} THEN "ENOENT"
  ELSE IF \E n \in vfs_lookup(Directory(path)) : ~n.dir THEN "ENOTDIR"
  ELSE IF vfs_lookup(path) # {} THEN "EEXIST"
  ELSE IF Free \ {Lowest(Free)} = {} THEN "ENOMEM"
  ELSE "OK"

\* The new node is linked into the COPY of its parent, which is then freed: the
\* node stays allocated and nothing that is mounted refers to it.
NewNode(path, isDir) ==
  LET parent == Lowest(Free)
      new    == Lowest(Free \ {parent})
  IN node' = [a \in DOMAIN node \cup {new} |->
                IF a # new THEN node[a]
                ELSE [ZeroNode EXCEPT
                        !.name = path[Len(path)], !.dir = isDir,
                        !.perm = {"r", "w"}, !.parent = parent]]

vfs_create(path, isDir) ==
  LET e == CreateError(path) IN
  \/ e # "OK" /\ Refuse(e)
  \/ /\ e = "OK"
     /\ NewNode(path, isDir)
     /\ Answer(0)
     /\ UNCHANGED <<vfs_root, open_files>>

vfs_mkdir(path) == vfs_create(path, TRUE)

-----------------------------------------------------------------------------
(* Descriptors *)

FreeFds == {d \in Fds : open_files[d].name = ""}
Bad(fd) == fd \notin Fds \/ fd \in FreeFds

\* The test on permissions: what O_RDWR asks for is read OR write.
Denied(n, access) ==
  CASE access = "RDONLY" -> "r" \notin n.perm
    [] access = "WRONLY" -> "w" \notin n.perm
    [] access = "RDWR"   -> n.perm = {}

\* The end of vfs_open, for a node that was found.  O_TRUNC does nothing to a
\* node of the initrd, and its open operation always succeeds.
OpenFound(n, access, opts) ==
  CASE n.dir /\ access # "RDONLY"        -> Refuse("EISDIR")
    [] ~(n.dir /\ access # "RDONLY") /\ Denied(n, access) -> Refuse("EACCES")
    [] ~(n.dir /\ access # "RDONLY") /\ ~Denied(n, access)
         /\ {"EXCL", "CREAT"} \subseteq opts -> Refuse("EEXIST")
    [] OTHER ->
         LET fd == Lowest(FreeFds) IN
         /\ open_files' = [open_files EXCEPT ![fd] =
              [n EXCEPT !.position = IF "APPEND" \in opts THEN n.size ELSE 0]]
         /\ Answer(fd)
         /\ UNCHANGED <<node, vfs_root>>

\* The path was not found and O_CREAT is given.  After vfs_create the path is
\* looked up again; it is still not there.
OpenCreate(path) ==
  LET dirs == vfs_lookup(Directory(path)) IN
  CASE dirs = {}                                 -> Refuse("ENOENT")
    [] dirs # {} /\ \E d \in dirs : ~d.dir       -> Refuse("ENOTDIR")
    [] \E d \in dirs : d.dir /\ "w" \notin d.perm -> Refuse("EACCES")
    [] OTHER ->
         IF CreateError(path) # "OK" THEN Refuse(CreateError(path))
         ELSE /\ NewNode(path, FALSE)
              /\ Error("ENOENT")
              /\ UNCHANGED <<vfs_root, open_files>>

vfs_open(path, access, opts) ==
  \/ FreeFds = {} /\ Refuse("EMFILE")
  \/ /\ FreeFds # {}
     /\ \/ \E n \in vfs_lookup(path) : OpenFound(n, access, opts)
        \/ vfs_lookup(path) = {} /\ "CREAT" \notin opts /\ Refuse("ENOENT")
        \/ vfs_lookup(path) = {} /\ "CREAT" \in opts /\ OpenCreate(path)

\* The close operation of initrd.c does nothing.
vfs_close(fd) ==
  \/ Bad(fd) /\ Refuse("EBADF")
  \/ /\ ~Bad(fd)
     /\ open_files' = [open_files EXCEPT ![fd] = ZeroNode]
     /\ Answer(0)
     /\ UNCHANGED <<node, vfs_root>>

\* Mutant: the request is trusted, since vfs_read has clipped it.
tar_read_noClip(n, offset, count) ==
  IF offset >= Tree[n.obj].size THEN 0 ELSE count

\* The operation of initrd.c: it clips the request to the file again.
tar_read(n, offset, count) ==
  IF offset >= Tree[n.obj].size THEN 0
  ELSE LET remaining == Tree[n.obj].size - offset
       IN IF count < remaining THEN count ELSE remaining

\* Clip the request to the file; the sum may wrap around, and then it does not.
ReadLen(n, count) ==
  IF n.position >= n.size THEN 0
  ELSE tar_read(n, n.position,
                IF (n.position + count) % WORD > n.size THEN n.size - n.position
                ELSE count)

vfs_read(fd, count) ==
  \/ Bad(fd) /\ Refuse("EBADF")
  \/ ~Bad(fd) /\ open_files[fd].dir /\ Refuse("EISDIR")
  \/ /\ ~Bad(fd) /\ ~open_files[fd].dir
     /\ LET n == open_files[fd] IN
        /\ open_files' = [open_files EXCEPT ![fd].position =
                            (@ + ReadLen(n, count)) % WORD]
        /\ Answer(ReadLen(n, count))
     /\ UNCHANGED <<node, vfs_root>>

\* No node of the initrd has a write operation, and none has the mode bit that
\* the code takes for O_APPEND.
vfs_write(fd) ==
  \/ Bad(fd) /\ Refuse("EBADF")
  \/ ~Bad(fd) /\ Refuse(IF open_files[fd].dir THEN "EISDIR" ELSE "EBADF")

\* The word x read as an off_t.
Signed(x) == IF 2 * (x % WORD) < WORD THEN x % WORD ELSE (x % WORD) - WORD

\* Mutant: the new position is an unsigned word.
vfs_lseek_unsigned(fd, offset, whence) ==
  \/ Bad(fd) /\ Refuse("EBADF")
  \/ /\ ~Bad(fd)
     /\ LET n == open_files[fd]
            new_pos == CASE whence = "SET" -> offset % WORD
                         [] whence = "CUR" -> (n.position + offset) % WORD
                         [] whence = "END" -> (n.size + offset) % WORD
        IN /\ open_files' = [open_files EXCEPT ![fd].position = new_pos]
           /\ Answer(new_pos)
           /\ UNCHANGED <<node, vfs_root>>

vfs_lseek(fd, offset, whence) ==
  \/ Bad(fd) /\ Refuse("EBADF")
  \/ /\ ~Bad(fd)
     /\ LET n == open_files[fd]
            new_pos == CASE whence = "SET" -> offset
                         [] whence = "CUR" -> Signed(n.position + offset)
                         [] whence = "END" -> Signed(n.size + offset)
        IN \/ new_pos < 0 /\ Refuse("EINVAL")
           \/ /\ new_pos >= 0
              /\ open_files' = [open_files EXCEPT ![fd].position = new_pos]
              /\ Answer(new_pos)
              /\ UNCHANGED <<node, vfs_root>>

\* vfs_open, vfs_read and vfs_close in a row.
vfs_read_all(path, maxlen) ==
  LET found == vfs_lookup(path) IN
  CASE maxlen = 0                               -> Refuse("EINVAL")
    [] maxlen > 0 /\ FreeFds = {}               -> Refuse("EMFILE")
    [] maxlen > 0 /\ FreeFds # {} /\ found = {} -> Refuse("ENOENT")
    [] OTHER ->
         \E n \in found :
           IF Denied(n, "RDONLY") THEN Refuse("EACCES")
           ELSE IF n.dir THEN Refuse("EISDIR")
           ELSE Answer(ReadLen(n, maxlen - 1)) /\ UNCHANGED <<node, vfs_root, open_files>>

\* What it finds goes to the caller's structure: the node's size.
vfs_stat(path) ==
  LET found == vfs_lookup(path) IN
  \/ found = {} /\ Refuse("ENOENT")
  \/ found # {} /\ Answer(0) /\ UNCHANGED <<node, vfs_root, open_files>>

vfs_size(fd) == IF Bad(fd) THEN -1 ELSE open_files[fd].size

-----------------------------------------------------------------------------
(* Directories *)

\* vfs_list: as many children as the caller has room for.
vfs_list(path, max_entries) ==
  LET found == vfs_lookup(path) IN
  CASE max_entries = 0                  -> Refuse("EINVAL")
    [] max_entries > 0 /\ found = {}    -> Refuse("ENOENT")
    [] OTHER ->
         \E n \in found :
           IF ~n.dir THEN Refuse("ENOTDIR")
           ELSE /\ Answer(IF max_entries < Len(n.children) THEN max_entries
                          ELSE Len(n.children))
                /\ UNCHANGED <<node, vfs_root, open_files>>

\* The stream is a copy of the node in the caller's memory; vfs_closedir resets
\* its position and can do nothing else.
vfs_opendir(path) ==
  LET found == vfs_lookup(path) IN
  \/ found = {} /\ Refuse("ENOENT")
  \/ \E n \in found : ~n.dir /\ Refuse("ENOTDIR")
  \/ \E n \in found : n.dir /\ Answer(0) /\ UNCHANGED <<node, vfs_root, open_files>>

\* On a stream, or what was to become one.  The readdir of initrd.c lists nothing,
\* so that a stream of a mounted directory is at its end from the start.
vfs_readdir(path) ==
  \E n \in vfs_lookup(path) : Refuse(IF n.dir THEN "ENOENT" ELSE "ENOTDIR")

-----------------------------------------------------------------------------
(* Removal *)

\* "Remove a file": the search compares the address of the name in a copy of the
\* node with those of the names in the nodes, which are never equal.  A file that
\* exists is answered with -ENOENT, and nothing is removed.
vfs_remove(path) ==
  LET found == vfs_lookup(path) IN
  \/ found = {} /\ Refuse("ENOENT")
  \/ \E n \in found : Refuse(IF n.dir THEN "EISDIR" ELSE "ENOENT")

\* Mutant: the search for the node succeeds, and the directory's node goes away.
vfs_rmdir_unlinks(path) ==
  LET found == vfs_lookup(path) IN
  \/ found = {} /\ Refuse("ENOENT")
  \/ \E n \in found : ~n.dir /\ Refuse("ENOTDIR")
  \/ \E n \in found :
       /\ n.dir /\ n.parent # NULL
       /\ node' = [a \in DOMAIN node |->
                     [node[a] EXCEPT !.children = SelectSeq(@, LAMBDA c : c # n.obj)]]
       /\ vfs_root' = [vfs_root EXCEPT !.children = SelectSeq(@, LAMBDA c : c # n.obj)]
       /\ Answer(0) /\ UNCHANGED open_files

\* "Remove a directory": the test for an empty one reads it with the readdir of
\* initrd.c, which lists nothing, so every directory passes it; then the search is
\* for the address of a copy of the node, and again nothing matches.
vfs_rmdir(path) ==
  LET found == vfs_lookup(path) IN
  \/ found = {} /\ Refuse("ENOENT")
  \/ \E n \in found : Refuse(IF n.dir THEN "ENOENT" ELSE "ENOTDIR")

-----------------------------------------------------------------------------
\* mount_initrd ends in vfs_set_root, which copies the root node.  Before it no
\* node exists: the root that vfs.c starts with is no directory.
vfs_set_root ==
  /\ vfs_root = ZeroNode
  /\ node' = Tree
  /\ vfs_root' = Tree[TreeRoot]
  /\ Answer(0)
  /\ UNCHANGED open_files

\* vfs_mount of the root that mount_initrd made.  At / it becomes the root once
\* more.  Elsewhere it is copied over a copy of the mount point and forgotten; and
\* a mount point that is missing is created, with nothing mounted on it.
MissingMountPoint(path) ==
  LET parent == vfs_lookup(Directory(path)) IN
  CASE Len(path) > 1 /\ parent = {}                         -> Refuse("ENOENT")
    [] Len(path) > 1 /\ \E n \in parent : ~n.dir            -> Refuse("ENOTDIR")
    [] OTHER                                                 -> vfs_mkdir(path)

vfs_mount(path) ==
  LET found == vfs_lookup(path) IN
  \/ found = {} /\ MissingMountPoint(path)
  \/ \E n \in found : ~n.dir /\ Refuse("ENOTDIR")
  \/ \E n \in found :
       /\ n.dir
       /\ vfs_root' = IF path = <<>> THEN Tree[TreeRoot] ELSE vfs_root
       /\ Answer(0)
       /\ UNCHANGED <<node, open_files>>

Init ==
  /\ node = [a \in {} |-> ZeroNode]
  /\ vfs_root = ZeroNode
  /\ open_files = [d \in Fds |-> ZeroNode]
  /\ res = [err |-> "OK", val |-> 0]

Accesses == {"RDONLY", "WRONLY", "RDWR"}

Next ==
  \/ vfs_set_root
  \/ \E p \in Paths :
       \/ \E a \in Accesses, o \in Options : vfs_open(p, a, o)
       \/ \E n \in Counts : vfs_read_all(p, n) \/ vfs_list(p, n)
       \/ vfs_opendir(p) \/ vfs_readdir(p) \/ vfs_mount(p)
       \/ vfs_create(p, FALSE) \/ vfs_mkdir(p)
       \/ vfs_remove(p) \/ vfs_rmdir(p) \/ vfs_stat(p)
  \/ \E fd \in -1 .. MAX_OPEN_FILES :
       \/ vfs_close(fd) \/ vfs_write(fd)
       \/ \E n \in Counts : vfs_read(fd, n)
       \/ \E o \in Offsets, w \in {"SET", "CUR", "END"} : vfs_lseek(fd, o, w)

Spec == Init /\ [][Next]_vars

-----------------------------------------------------------------------------
(* Properties *)

\* Type invariant.
TypeOK ==
  /\ DOMAIN node \subseteq Addr /\ \A a \in DOMAIN node : node[a] \in Nodes
  /\ vfs_root \in Nodes
  /\ open_files \in [Fds -> Nodes]
  /\ res.val \in -1 .. WORD

\* An open descriptor still describes the object it was opened for, and no
\* object that was never mounted: its copy of the size is the object's, and its
\* position cannot have wrapped around.
DescriptorsCurrent ==
  /\ TypeOK
  /\ \A d \in Fds \ FreeFds :
       LET n == open_files[d] IN
       /\ n.obj \in DOMAIN Tree /\ node[n.obj] = Tree[n.obj]
       /\ n.size = Tree[n.obj].size
       /\ 2 * n.position < WORD

\* What the calls of vfs.c do to the mounted tree, which is not what vfs.h:198 and
\* vfs.h:203 announce: vfs_remove and vfs_rmdir never find what they search for,
\* and vfs_create and vfs_mkdir link what they make into a copy of its parent and
\* answer 0.  So every path goes on resolving to the node it resolved to, and
\* no node is changed or freed: what vfs_create allocated, it keeps for ever.
NothingCreatedOrRemoved ==
  [][ vfs_root # ZeroNode =>
        /\ \A p \in Paths : vfs_lookup(p)' = vfs_lookup(p)
        /\ \A a \in DOMAIN node : a \in DOMAIN node' /\ node'[a] = node[a]
    ]_<<node, vfs_root>>

\* The table of node copies implements a table of descriptors in unbounded
\* arithmetic; a listing is as long as some directory of the tree, or as the
\* caller's room.
OF == INSTANCE OpenFiles WITH
        Fd <- Fds, File <- DOMAIN Tree, Size <- [a \in DOMAIN Tree |-> Tree[a].size],
        Entries <- [a \in DOMAIN Tree |-> Len(Tree[a].children)],
        None <- NULL, Positions <- Words,
        Requests <- Counts \cup {n - 1 : n \in Counts \ {0}},
        fds <- [d \in Fds |-> [file |-> open_files[d].obj,
                               pos |-> open_files[d].position]],
        answer <- res.val
RefinesOpenFiles == OF!Spec
=============================================================================
