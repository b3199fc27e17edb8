----------------------------- MODULE Namespace -----------------------------
(***************************************************************************)
(* The name space of the virtual file system: src/fs/path.c, the paths,    *)
(* mounts and descriptors of src/vfs.c, and the inode operations of kvfs,  *)
(* procfs and devfs that it calls.                                         *)
(*                                                                         *)
(* The operations exclude each other by vfs_sem (module VfsGate), so each  *)
(* one is a single step here; kmt_create and kmt_teardown change the       *)
(* thread pool in between.  A pointer to a dentry or to a vfsmount is an   *)
(* index into the sequence of all those ever made: neither dentries nor    *)
(* inodes are freed once they are linked in.                               *)
(*                                                                         *)
(* A path is the sequence of its components, and whether it ends in '/'.   *)
(* All kernel threads have uid and gid 0, and root and pwd at root_dentry, *)
(* so a path that starts with '/' and one that does not are the same.      *)
(***************************************************************************)
EXTENDS Integers, Sequences, FiniteSets, SequencesExt, FiniteSetsExt

CONSTANTS
    Names,                  \* components of paths, other than "." and ".."
    Paths,                  \* the paths the threads use
    kvfs, procfs, devfs,    \* file_system_type objects the kernel has ...
    OtherKvfs,              \* ... and kvfs ones that a thread has allocated
    Pids,                   \* names of procfs: slots of thread_pool, from 1 on
    Devices,                \* names of devfs
    AclUnset,               \* those of them whose lookup sets no i_acl
    Modes,                  \* the i_acl mkdir is asked for
    KVFS_MAX_FILE,
    MAX_FILE_PER_THREAD,
    Threads,
    MaxDentries,            \* bound of the model: dentries ever made
    NULL

ASSUME NamesAssumption ==
    /\ Pids \cup Devices \subseteq Names
    /\ {".", ".."} \cap Names = {}
    /\ Paths \subseteq [names : Seq(Names \cup {".", ".."}), dir : BOOLEAN]
ASSUME FsAssumption == {kvfs, procfs, devfs} \cap OtherKvfs = {}
ASSUME BoundsAssumption ==
    /\ KVFS_MAX_FILE \in Nat /\ MAX_FILE_PER_THREAD \in Nat
    /\ MaxDentries \in Nat \ {0}

VARIABLES
    dentry,         \* every dentry made, with what it needs of its inode
    mount,          \* every vfsmount made
    mnt_list,       \* mnt_head and its mnt_next chain
    kvfs_inuse,     \* the kvfs_files that are in use
    pool,           \* the names of the slots of thread_pool in use
    fds             \* file_descriptors of each thread: the dentry of the file

vars == <<dentry, mount, mnt_list, kvfs_inuse, pool, fds>>

FsObjects == {kvfs, procfs, devfs} \cup OtherKvfs
Inodes == 0..(KVFS_MAX_FILE - 1)
Fds == 3..(MAX_FILE_PER_THREAD - 1)     \* above STDERR_FILENO
root_dentry == 1
root_mnt == 1

(* What an i_acl allows the owner, the group and the others.               *)
Acls == [owner : SUBSET {"r", "w"}, group : SUBSET {"r", "w"}, other : SUBSET {"r", "w"}]

Acl(o, g, x) == [owner |-> o, group |-> g, other |-> x]

ASSUME ModesAssumption == Modes \subseteq Acls /\ NULL \notin Inodes

(* struct inode: NULL is what pmm->alloc gave.  struct dentry, its d_child *)
(* list as a sequence, and struct vfsmount.                                *)
Inode == [uid : {0, NULL}, gid : {0, NULL}, acl : Acls \cup {NULL}, ino : Inodes \cup {NULL}]

Dentry == [name : Names \cup {NULL}, inode : Inode, parent : DOMAIN dentry,
           subdirs : Seq(DOMAIN dentry), mounted : Nat, isdir : BOOLEAN, fs : FsObjects]

Vfsmount == [root : DOMAIN dentry, mountpoint : DOMAIN dentry,
             parent : DOMAIN mount \cup {NULL}, fs : FsObjects]

TypeOK ==
    /\ \A d \in DOMAIN dentry : dentry[d] \in Dentry
    /\ \A m \in DOMAIN mount : mount[m] \in Vfsmount
    /\ mnt_list \in Seq(DOMAIN mount)
    /\ kvfs_inuse \subseteq Inodes
    /\ pool \subseteq Pids
    /\ fds \in [Threads -> [Fds -> DOMAIN dentry \cup {NULL}]]

ReadAll == Acl({"r"}, {"r"}, {"r"})

(* The root that proc_mount, devfs_mount and kvfs_mount make belongs to    *)
(* root; its dentry is its own parent.                                     *)
RootAcl(fs) ==
    IF fs = procfs THEN ReadAll
    ELSE IF fs = devfs THEN Acl({"r", "w"}, {"r", "w"}, {"r", "w"})
    ELSE Acl({"r", "w"}, {"r"}, {"r"})

Owned(acl, ino) == [uid |-> 0, gid |-> 0, acl |-> acl, ino |-> ino]

RootOf(fs, d) ==
    [name |-> NULL, inode |-> Owned(RootAcl(fs), NULL), parent |-> d, subdirs |-> <<>>,
     mounted |-> 0, isdir |-> TRUE, fs |-> fs]

Init ==
    /\ dentry = <<RootOf(kvfs, root_dentry)>>
    /\ mount = <<[root |-> root_dentry, mountpoint |-> root_dentry,
                  parent |-> NULL, fs |-> kvfs]>>
    /\ mnt_list = <<root_mnt>>
    /\ kvfs_inuse = {}
    /\ pool = {}
    /\ fds = [t \in Threads |-> [i \in Fds |-> NULL]]

-----------------------------------------------------------------------------
(* A walk along a path: struct nameidata, the dentries and kvfs inodes as  *)
(* the walk has changed them, and how it fares.                            *)
Start == [d |-> root_dentry, m |-> root_mnt, tree |-> dentry, inuse |-> kvfs_inuse,
          res |-> "ok"]

Again(w) == [w EXCEPT !.d = root_dentry, !.m = root_mnt, !.res = "ok"]

(* After a panic nothing more happens.                                     *)
Fail(w) == [w EXCEPT !.res = IF @ = "panic" THEN @ ELSE "failed"]

FailUnless(w, cond) == IF cond THEN w ELSE Fail(w)

(* A new dentry becomes the first in its directory's list.                 *)
Link(w, name, isdir, inode, fs) ==
    LET d == Len(w.tree) + 1
        subdirs == <<d>> \o w.tree[w.d].subdirs
        new == [name |-> name, inode |-> inode, parent |-> w.d, subdirs |-> <<>>,
                mounted |-> 0, isdir |-> isdir, fs |-> fs]
    IN  [w EXCEPT !.d = d,
                  !.tree = Append([w.tree EXCEPT ![w.d].subdirs = subdirs], new)]

(* Mutants: nd->mnt stays behind; the root of a mount is not left.         *)
StaysMounted(w) == [w EXCEPT !.d = mount[w.m].mountpoint]

StaysInside(w) == w

(* The root of a mounted file system is left through its mount point.      *)
ToMountpoint(w) == [w EXCEPT !.d = mount[w.m].mountpoint, !.m = mount[w.m].parent]

DotDot(w) ==
    LET v == IF w.tree[w.d].parent = w.d THEN ToMountpoint(w) ELSE w
    IN  IF w.d = root_dentry THEN w ELSE [v EXCEPT !.d = w.tree[v.d].parent]

(* Mutant: mount points are not crossed.                                   *)
CrossNever(w) == w

(* At a mount point, do_lookup steps onto the file system mounted there.   *)
Cross(w) ==
    LET here == {i \in DOMAIN mnt_list : mount[mnt_list[i]].mountpoint = w.d}
        m == mnt_list[Min(here)]
    IN  IF ~w.tree[w.d].isdir \/ w.tree[w.d].mounted = 0 THEN w
        ELSE IF here = {} THEN [w EXCEPT !.res = "panic"]
        ELSE [w EXCEPT !.d = mount[m].root, !.m = m]

(* What i_op->lookup finds in the root directories: the threads in the     *)
(* pool ("cpuinfo" and "meminfo", always there, are like the devices), the *)
(* devices, and in a kvfs nothing, since all there is has a dentry.        *)
proc_lookup == pool
devfs_lookup == Devices

Provides(fs) == IF fs = procfs THEN proc_lookup ELSE IF fs = devfs THEN devfs_lookup ELSE {}

(* Mutant: only the first dentry of the list is compared.                  *)
FirstHit(w, name) ==
    {i \in DOMAIN w.tree[w.d].subdirs : w.tree[w.tree[w.d].subdirs[i]].name = name /\ i = 1}

(* Where the dentries of a name are in the list of a directory.            *)
Hits(w, name) ==
    {i \in DOMAIN w.tree[w.d].subdirs : w.tree[w.tree[w.d].subdirs[i]].name = name}

(* The inode of a name of procfs or devfs belongs to anybody.              *)
Found(name) ==
    [uid |-> NULL, gid |-> NULL, acl |-> IF name \in AclUnset THEN NULL ELSE ReadAll, ino |-> NULL]

(* do_lookup: a dentry in the list is always taken, since the test of      *)
(* d_revalidate is true whenever there is such a function.                 *)
do_lookup(w, name) ==
    LET hits == Hits(w, name)
        fs == w.tree[w.d].fs
    IN  IF hits # {} THEN Cross([w EXCEPT !.d = w.tree[w.d].subdirs[Min(hits)]])
        ELSE IF name \in Provides(fs) /\ w.tree[w.d].parent = w.d
          THEN Link(w, name, FALSE, Found(name), mount[w.m].fs)
        ELSE Fail(w)

(* One component of path_lookup: a file can only be the last one.          *)
LookupStep(w, name, last) ==
    LET v == do_lookup(w, name)
    IN  IF w.res # "ok" \/ name = "." THEN w
        ELSE IF name = ".." THEN DotDot(w)
        ELSE FailUnless(v, v.res = "ok" /\ (last \/ v.tree[v.d].isdir))

path_lookup(p) ==
    LET n == Len(p.names)
        walk[i \in 0..n] ==
            IF i = 0 THEN Start ELSE LookupStep(walk[i - 1], p.names[i], i = n)
        w == walk[n]
    IN  FailUnless(w, w.res = "ok" /\ (p.dir => w.tree[w.d].isdir))

(* The class of a user in a group, and what it is allowed.                 *)
check_acl(uid, gid, ip, flags) ==
    flags \subseteq IF uid = ip.uid THEN ip.acl.owner
                   ELSE IF gid = ip.gid THEN ip.acl.group ELSE ip.acl.other

(* Mutant: it is not looked at which are in use.                           *)
FirstInode(w) == 0

FreeInode(w) == Min(Inodes \ w.inuse)

kvfs_create(w, name, mode) ==
    IF Inodes \subseteq w.inuse THEN Fail(w)
    ELSE Link([w EXCEPT !.inuse = @ \cup {FreeInode(w)}],
              name, FALSE, Owned(mode, FreeInode(w)), mount[w.m].fs)

kvfs_mkdir(w, name, mode) == Link(w, name, TRUE, Owned(mode, NULL), mount[w.m].fs)

(* create and mkdir of the read-only file systems                          *)
proc_create(w) == Fail(w)
devfs_create(w) == Fail(w)

Create(w, name, isdir, mode) ==
    LET fs == mount[w.m].fs
        allowed == check_acl(0, 0, w.tree[w.d].inode, {"r", "w"})
    IN  IF ~allowed THEN Fail(w)
        ELSE IF fs = procfs THEN proc_create(w)
        ELSE IF fs = devfs THEN devfs_create(w)
        ELSE IF isdir THEN kvfs_mkdir(w, name, mode)
        ELSE kvfs_create(w, name, mode)

(* One component of make_path; wantdir is LOOKUP_DIRECTORY.                *)
MakeStep(w, name, last, dir, wantdir, mode) ==
    LET found == do_lookup(w, name)
        v == IF found.res = "failed" THEN Create(w, name, ~last \/ wantdir, mode) ELSE found
    IN  IF w.res # "ok" THEN w
        ELSE IF last /\ ~wantdir /\ (dir \/ name \in {".", ".."}) THEN Fail(w)
        ELSE IF name = "." THEN w
        ELSE IF name = ".." THEN DotDot(w)
        ELSE FailUnless(v, v.res = "ok" /\ v.tree[v.d].isdir = (~last \/ wantdir))

make_path(w0, p, wantdir, mode) ==
    LET n == Len(p.names)
        walk[i \in 0..n] ==
            IF i = 0 THEN w0
            ELSE MakeStep(walk[i - 1], p.names[i], i = n, p.dir, wantdir, mode)
    IN  IF n = 0 THEN FailUnless(w0, wantdir) ELSE walk[n]

(* What a walk has done to the tree stays, also when it fails.             *)
Keep(w) ==
    /\ Len(w.tree) <= MaxDentries
    /\ dentry' = w.tree
    /\ kvfs_inuse' = w.inuse

-----------------------------------------------------------------------------
(* The operations.                                                         *)

ACL_DEFAULT == Acl({"r", "w"}, {"r", "w"}, {"r"})

(* open creates the file when it is not there; it takes the lowest free    *)
(* descriptor, and fails, with the file made, when none is free.           *)
Open(t, p) ==
    LET w == make_path(Start, p, FALSE, ACL_DEFAULT)
        free == {i \in Fds : fds[t][i] = NULL}
    IN  /\ Keep(w)
        /\ fds' = IF w.res = "ok" /\ free # {} THEN [fds EXCEPT ![t][Min(free)] = w.d] ELSE fds
        /\ UNCHANGED <<mount, mnt_list, pool>>

Close(t, i) ==
    /\ fds[t][i] # NULL
    /\ fds' = [fds EXCEPT ![t][i] = NULL]
    /\ UNCHANGED <<dentry, mount, mnt_list, kvfs_inuse, pool>>

(* mkdir looks the path up first, and makes it only when that fails.       *)
Mkdir(p, mode) ==
    LET w == path_lookup(p)
    IN  /\ Keep(IF w.res = "failed" THEN make_path(Again(w), p, TRUE, mode) ELSE w)
        /\ UNCHANGED <<mount, mnt_list, pool, fds>>

(* access looks up and answers, and so does a mount or an unmount that     *)
(* fails.                                                                  *)
Access(p) ==
    /\ Keep(path_lookup(p))
    /\ UNCHANGED <<mount, mnt_list, pool, fds>>

(* Mutant: the parent is the mount made before.                            *)
LastMount(w) == Head(mnt_list)

ParentMount(w) == w.m

(* The new mount goes to the head of the list.  Two callers of vfs_mount   *)
(* have one procfs and one devfs, the others allocate a file_system_type   *)
(* for each mount: that none is mounted twice is theirs to see to, since   *)
(* vfs_mount does not ask and unmount frees what it finds.                 *)
Mount(p, fs) ==
    LET w == path_lookup(p)
        root == Len(w.tree) + 1
        tree == [w.tree EXCEPT ![w.d].mounted = @ + 1]
    IN  /\ fs # kvfs /\ \A m \in DOMAIN mount : mount[m].fs # fs
        /\ w.res = "ok" /\ w.tree[w.d].isdir
        /\ Keep([w EXCEPT !.tree = Append(tree, RootOf(fs, root))])
        /\ mount' = Append(mount, [root |-> root, mountpoint |-> w.d,
                                   parent |-> ParentMount(w), fs |-> fs])
        /\ mnt_list' = <<Len(mount')>> \o mnt_list
        /\ UNCHANGED <<pool, fds>>

(* Mutant: the mount point is still marked.                                *)
StillMarked(n) == n

Unmarked(n) == n - 1

(* The first mount in the list whose root the path names.  Only mounts     *)
(* with an allocated file_system_type are undone.                          *)
Unmount(p) ==
    LET w == path_lookup(p)
        here == {i \in DOMAIN mnt_list : mount[mnt_list[i]].root = w.d}
        m == mnt_list[Min(here)]
        tree == [w.tree EXCEPT ![mount[m].mountpoint].mounted = Unmarked(@)]
    IN  /\ w.res = "ok" /\ here # {}
        /\ mount[m].fs \in OtherKvfs
        /\ Keep([w EXCEPT !.tree = tree])
        /\ mnt_list' = RemoveAt(mnt_list, Min(here))
        /\ UNCHANGED <<mount, pool, fds>>

(* kmt_create and kmt_teardown, as far as procfs sees them.                *)
ThreadStarts(pid) ==
    /\ pid \notin pool
    /\ pool' = pool \cup {pid}
    /\ UNCHANGED <<dentry, mount, mnt_list, kvfs_inuse, fds>>

ThreadEnds(pid) ==
    /\ pid \in pool
    /\ pool' = pool \ {pid}
    /\ UNCHANGED <<dentry, mount, mnt_list, kvfs_inuse, fds>>

Next ==
    \/ \E t \in Threads, p \in Paths : Open(t, p)
    \/ \E t \in Threads, i \in Fds : Close(t, i)
    \/ \E p \in Paths, mode \in Modes : Mkdir(p, mode)
    \/ \E p \in Paths : Access(p) \/ Unmount(p)
    \/ \E p \in Paths, fs \in FsObjects : Mount(p, fs)
    \/ \E pid \in Pids : ThreadStarts(pid) \/ ThreadEnds(pid)

Spec == Init /\ [][Next]_vars

-----------------------------------------------------------------------------
(* Properties.                                                             *)

(* Every dentry but the roots is once in the list of its directory, and no *)
(* directory holds two of the same name: whatever open, mkdir and the      *)
(* lookups of procfs and devfs add is found again by do_lookup.            *)
TreeSound ==
    /\ TypeOK
    /\ \A d \in DOMAIN dentry :
         LET subdirs == dentry[d].subdirs
         IN  /\ \A i, j \in DOMAIN subdirs :
                   dentry[subdirs[i]].name = dentry[subdirs[j]].name => i = j
             /\ dentry[d].parent # d =>
                   /\ d \in Range(dentry[dentry[d].parent].subdirs)
                   /\ dentry[dentry[d].parent].isdir

(* d_mounted counts the mounts in the list that cover a directory, so that *)
(* do_lookup never meets the "mount issue" on which it panics.             *)
MountsExact ==
    \A d \in DOMAIN dentry \ {root_dentry} :
       dentry[d].mounted = Cardinality({m \in Range(mnt_list) : mount[m].mountpoint = d})

(* What make_path adds to a directory belongs to the file system of that   *)
(* directory: nd->mnt and nd->dentry go together along every walk.         *)
OneFsPerTree ==
    \A d \in DOMAIN dentry : dentry[d].fs = dentry[dentry[d].parent].fs

(* No two files share an entry of kvfs_files, in whichever mounted kvfs    *)
(* they are, and no entry in use belongs to none.                          *)
InodesExact ==
    LET files == {d \in DOMAIN dentry : dentry[d].inode.ino # NULL}
    IN  /\ {dentry[d].inode.ino : d \in files} = kvfs_inuse
        /\ Cardinality(files) = Cardinality(kvfs_inuse)

(* The file system type that a walk takes its operations from has not been *)
(* freed by unmount: a walk only passes mounts that are in the list.       *)
WalksLiveMounts ==
    \A p \in Paths : path_lookup(p).m \in Range(mnt_list)

(* Names from the root to d, as do_tracefile of vfs_test.c collects them.  *)
Trace(w) ==
    LET up[d \in DOMAIN w.tree] ==
          LET here == {i \in DOMAIN mnt_list : mount[mnt_list[i]].root = d}
          IN  IF d = root_dentry THEN <<>>
              ELSE IF w.tree[d].parent # d THEN Append(up[w.tree[d].parent], w.tree[d].name)
              ELSE IF here = {} THEN <<NULL>>
              ELSE up[mount[mnt_list[Min(here)]].mountpoint]
    IN  up[w.d]

(* A path with "." and ".." worked out.                                    *)
Normal(names) ==
    LET norm[i \in 0..Len(names)] ==
          IF i = 0 THEN <<>>
          ELSE IF names[i] = "." THEN norm[i - 1]
          ELSE IF names[i] # ".." THEN Append(norm[i - 1], names[i])
          ELSE IF norm[i - 1] = <<>> THEN <<>>
          ELSE Front(norm[i - 1])
    IN  norm[Len(names)]

(* The way up from what a path names spells the path: the tracefile of     *)
(* vfs_test.c, which reports "Mount issue!" when the way is lost.          *)
TraceSpells ==
    \A p \in Paths : LET w == path_lookup(p)
                     IN  w.res = "ok" => Trace(w) = Normal(p.names)

(* A directory that a mount covers keeps its entries until the unmount     *)
(* (vfs_test.c: "we should still get the old test words").  The roots of   *)
(* file systems are apart: do_lookup crosses one mount only, so that what  *)
(* is mounted on a root cannot be reached and covers nothing.              *)
CoveredUntouched ==
    [][\A d \in DOMAIN dentry :
          (dentry[d].mounted > 0 /\ dentry[d].parent # d) =>
             dentry[d].subdirs = dentry'[d].subdirs]_vars

(* A file system mounted where one is mounted already lands on its root:   *)
(* no directory is covered twice.  do_lookup crosses one mount only, so    *)
(* what is mounted on a root is out of every path's reach, and what was    *)
(* there first stays in sight.                                             *)
IsRoot(d) == dentry[d].parent = d

MountsApart ==
    /\ \A m, n \in Range(mnt_list) :
          m # n /\ mount[m].mountpoint = mount[n].mountpoint => IsRoot(mount[m].mountpoint)
    /\ \A p \in Paths :
          LET m == path_lookup(p).m
          IN  m # root_mnt => ~IsRoot(mount[m].mountpoint)

(* procfs.c:94 "always invalid, needs to lookup all the time": a name of   *)
(* procfs is there while its thread is.                                    *)
ProcFollowsPool ==
    \A p \in Paths, pid \in Pids :
       LET w == path_lookup(p)
       IN  (p.names # <<>> /\ Last(p.names) = pid /\ w.res = "ok" /\ w.tree[w.d].fs = procfs)
              => pid \in pool
=============================================================================
