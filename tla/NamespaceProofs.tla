--------------------------- MODULE NamespaceProofs ---------------------------
(***************************************************************************)
(* Proofs about Namespace, for any names, paths, file systems and bounds.  *)
(*                                                                         *)
(* The invariant is about a tree of dentries and the mounts on it, and a   *)
(* walk keeps it at each component, whatever becomes of the walk.  That a  *)
(* walk of any length keeps it is induction on the components, by way of   *)
(* sets of numbers: every number is in a set that 0 is in and that holds   *)
(* the successors of its members.                                          *)
(***************************************************************************)
EXTENDS Namespace, FiniteSetTheorems, SequenceTheorems, WellFoundedInduction, TLAPS

(* A dentry and a vfsmount, whatever their pointers lead to.               *)
DentryRec == [name : Names \cup {NULL}, inode : Inode, parent : Nat, subdirs : Seq(Nat),
              mounted : Nat, isdir : BOOLEAN, fs : FsObjects]
MountRec == [root : Nat, mountpoint : Nat, parent : Nat \cup {NULL}, fs : FsObjects]

(* The dentries of t are trees: parents come before their children, are    *)
(* directories of the same file system, and have them once in their lists, *)
(* under different names.                                                  *)
Tree(t) ==
    /\ t \in Seq(DentryRec) /\ Len(t) >= 1
    /\ t[1].parent = 1
    /\ \A d \in DOMAIN t :
         /\ t[d].parent \in 1..d
         /\ t[t[d].parent].isdir
         /\ t[t[d].parent].fs = t[d].fs
         /\ t[d].mounted > 0 => t[d].isdir
    /\ \A d \in DOMAIN t : \A i \in DOMAIN t[d].subdirs :
         t[d].subdirs[i] \in DOMAIN t /\ t[d].subdirs[i] # d /\ t[t[d].subdirs[i]].parent = d
    /\ \A d \in DOMAIN t : \A i, j \in DOMAIN t[d].subdirs :
         t[t[d].subdirs[i]].name = t[t[d].subdirs[j]].name => i = j
    /\ \A d \in DOMAIN t : t[d].parent # d =>
         \E i \in DOMAIN t[t[d].parent].subdirs : t[t[d].parent].subdirs[i] = d

(* Every file system has one root and was mounted once: a dentry belongs   *)
(* to the mount of its file system.                                        *)
Mounts(t, mnt) ==
    /\ mnt \in Seq(MountRec) /\ Len(mnt) >= 1
    /\ mnt[1].root = 1 /\ mnt[1].mountpoint = 1 /\ mnt[1].fs = kvfs /\ mnt[1].parent = NULL
    /\ \A m \in DOMAIN mnt :
         /\ mnt[m].root \in DOMAIN t /\ mnt[m].mountpoint \in DOMAIN t
         /\ t[mnt[m].root].parent = mnt[m].root
         /\ t[mnt[m].root].fs = mnt[m].fs
    /\ \A m \in DOMAIN mnt \ {1} :
         /\ mnt[m].parent \in DOMAIN mnt
         /\ mnt[m].mountpoint < mnt[m].root
         /\ t[mnt[m].mountpoint].fs = mnt[mnt[m].parent].fs
    /\ \A m, n \in DOMAIN mnt : mnt[m].fs = mnt[n].fs => m = n
    /\ \A d \in DOMAIN t : t[d].parent = d => \E m \in DOMAIN mnt : mnt[m].root = d

(* The list of mounts: the root is in it, and none is there twice.         *)
List(list, mnt) ==
    /\ list \in Seq(DOMAIN mnt)
    /\ \A i, j \in DOMAIN list : list[i] = list[j] => i = j
    /\ \E i \in DOMAIN list : list[i] = 1

(* The mounts in the list that cover d, which d_mounted counts.            *)
Covering(d, mnt, list) == {m \in Range(list) : mnt[m].mountpoint = d}

Exact(t, mnt, list) ==
    \A d \in DOMAIN t \ {root_dentry} : t[d].mounted = Cardinality(Covering(d, mnt, list))

(* Each entry of kvfs_files that is in use is the inode of one dentry.     *)
Files(t, inuse) ==
    /\ inuse \subseteq Inodes
    /\ \A d \in DOMAIN t : t[d].inode.ino # NULL => t[d].inode.ino \in inuse
    /\ \A i \in inuse : \E d \in DOMAIN t : t[d].inode.ino = i
    /\ \A d, e \in DOMAIN t :
         t[d].inode.ino = t[e].inode.ino /\ t[d].inode.ino # NULL => d = e

(* No directory but a root is covered twice.                               *)
Once(t) == \A d \in DOMAIN t : t[d].parent # d => t[d].mounted <= 1

Sound(t, inuse, mnt, list) ==
    Tree(t) /\ Mounts(t, mnt) /\ List(list, mnt) /\ Exact(t, mnt, list) /\ Files(t, inuse) /\ Once(t)

NamespaceInv ==
    /\ Sound(dentry, kvfs_inuse, mount, mnt_list)
    /\ pool \subseteq Pids
    /\ fds \in [Threads -> [Fds -> DOMAIN dentry \cup {NULL}]]

(* What is below d can be reached through d.                               *)
Enters(t, d) == t[d].mounted = 0 \/ t[d].parent = d

(* U holds with each dentry the way by which a walk came to it: through    *)
(* directories that nothing covers, and mounts that are in the list.       *)
Way(t, mnt, list, U) ==
    /\ U \subseteq DOMAIN t
    /\ \A d \in U :
         \/ d = 1
         \/ t[d].parent # d /\ t[d].parent \in U /\ Enters(t, t[d].parent)
         \/ t[d].parent = d /\ \E m \in Range(list) :
              /\ mnt[m].root = d /\ mnt[m].mountpoint \in U
              /\ t[mnt[m].mountpoint].parent # mnt[m].mountpoint
              /\ mnt[mnt[m].parent].root \in U

(* From tree t to tree u dentries were only added, and nothing below a     *)
(* directory that a mount covers.                                          *)
Grown(t, u) ==
    /\ Len(t) <= Len(u)
    /\ \A d \in DOMAIN t :
         /\ u[d].name = t[d].name /\ u[d].inode = t[d].inode /\ u[d].parent = t[d].parent
         /\ u[d].mounted = t[d].mounted /\ u[d].isdir = t[d].isdir /\ u[d].fs = t[d].fs
         /\ t[d].mounted > 0 /\ t[d].parent # d => u[d].subdirs = t[d].subdirs

(* Walks.                                                                  *)
WalkRec == [d : Nat, m : Nat, tree : Seq(DentryRec), inuse : SUBSET Nat,
            res : {"ok", "failed"}]

(* What holds of a walk after every component, found or not.               *)
OnTheWay(w) ==
    \E U \in SUBSET DOMAIN w.tree :
       Way(w.tree, mount, mnt_list, U) /\ w.d \in U /\ mount[w.m].root \in U

Good(w) ==
    /\ w \in WalkRec
    /\ Sound(w.tree, w.inuse, mount, mnt_list)
    /\ Grown(dentry, w.tree)
    /\ w.d \in DOMAIN w.tree /\ w.m \in DOMAIN mount
    /\ w.tree[w.d].fs = mount[w.m].fs
    /\ OnTheWay(w)
    /\ w.res = "ok" => Enters(w.tree, w.d)

(* And of one that goes on.                                                *)
GoodDir(w) == Good(w) /\ (w.res = "ok" => w.tree[w.d].isdir)

-----------------------------------------------------------------------------
(* Numbers.                                                                *)

(* A nonempty set of numbers has a least element, which is its Min.        *)
LEMMA LeastElement ==
    ASSUME NEW T, T \subseteq Nat, T # {}
    PROVE  Min(T) \in T /\ \A y \in T : Min(T) <= y
  <1> DEFINE Less == {r \in Nat \X Nat : r[1] < r[2]}
  <1>1. IsWellFoundedOn(Less, Nat)
    <2>1. IsWellFoundedOn(OpToRel(<, Nat), Nat)
      BY NatLessThanWellFounded
    <2>2. OpToRel(<, Nat) = Less
      BY DEF OpToRel
    <2> QED
      BY <2>1, <2>2
  <1>2. \E x \in T : \A y \in T : ~(<<y, x>> \in Less)
    <2> HIDE DEF Less
    <2> QED
      BY <1>1, WFMin
  <1>3. PICK x \in T : \A y \in T : ~(<<y, x>> \in Less)
    BY <1>2
  <1>4. \A y \in T : x <= y
    <2> SUFFICES ASSUME NEW y \in T PROVE x <= y
      OBVIOUS
    <2>1. ~(<<y, x>> \in Less)
      BY <1>3
    <2> QED
      BY <2>1
  <1> QED
    BY <1>4 DEF Min

(* Induction: a set that 0 is in and that no successor leaves is Nat.      *)
LEMMA SetInduction ==
    ASSUME NEW S, 0 \in S, \A n \in Nat : n \in S => n + 1 \in S
    PROVE  \A n \in Nat : n \in S
  <1> SUFFICES ASSUME Nat \ S # {} PROVE FALSE
    OBVIOUS
  <1>1. PICK n \in Nat \ S : \A y \in Nat \ S : n <= y
    BY LeastElement
  <1>2. n # 0 /\ n - 1 \in Nat /\ n - 1 \in S
    BY <1>1
  <1>3. (n - 1) + 1 = n
    BY <1>1
  <1> QED
    BY <1>1, <1>2, <1>3

-----------------------------------------------------------------------------
(* A new dentry.                                                           *)

(* Tree u is tree t with one dentry more, the first child of p.            *)
Linked(t, u, p, name, isdir, ip, fs) ==
    /\ u \in Seq(DentryRec) /\ Len(u) = Len(t) + 1
    /\ \A d \in DOMAIN t :
         /\ u[d].name = t[d].name /\ u[d].inode = t[d].inode /\ u[d].parent = t[d].parent
         /\ u[d].mounted = t[d].mounted /\ u[d].isdir = t[d].isdir /\ u[d].fs = t[d].fs
         /\ d # p => u[d].subdirs = t[d].subdirs
    /\ DOMAIN u[p].subdirs = 1..(Len(t[p].subdirs) + 1)
    /\ u[p].subdirs[1] = Len(u)
    /\ \A i \in 2..(Len(t[p].subdirs) + 1) : u[p].subdirs[i] = t[p].subdirs[i - 1]
    /\ u[Len(u)].name = name /\ u[Len(u)].inode = ip /\ u[Len(u)].parent = p
    /\ u[Len(u)].mounted = 0 /\ u[Len(u)].isdir = isdir /\ u[Len(u)].fs = fs
    /\ DOMAIN u[Len(u)].subdirs = {}

LEMMA LinkLinks ==
    ASSUME NEW w \in WalkRec, w.d \in DOMAIN w.tree, NEW name \in Names, NEW isdir \in BOOLEAN,
           NEW ip \in Inode, NEW fs \in FsObjects, NEW v, v = Link(w, name, isdir, ip, fs)
    PROVE  /\ v \in WalkRec /\ v.d = Len(w.tree) + 1
           /\ v.m = w.m /\ v.inuse = w.inuse /\ v.res = w.res
           /\ Linked(w.tree, v.tree, w.d, name, isdir, ip, fs)
  <1> DEFINE t == w.tree
             d == Len(t) + 1
             old == t[w.d].subdirs
             new == [name |-> name, inode |-> ip, parent |-> w.d, subdirs |-> <<>>,
                     mounted |-> 0, isdir |-> isdir, fs |-> fs]
             s == <<d>> \o old
             k == [t EXCEPT ![w.d].subdirs = s]
             u == Append(k, new)
  <1>1. t \in Seq(DentryRec) /\ w.d \in 1..Len(t) /\ Len(t) \in Nat /\ w.d \in Nat
    BY DEF WalkRec
  <1>2. v = [w EXCEPT !.d = d, !.tree = u]
    BY Zenon DEF Link
  <1>3. t[w.d] \in DentryRec
    BY <1>1, ElementOfSeq
  <1>4. old \in Seq(Nat)
    BY <1>3 DEF DentryRec
  <1>5. <<d>> \in Seq(Nat) /\ Len(<<d>>) = 1 /\ <<d>>[1] = d
    BY <1>1
  <1>6. s \in Seq(Nat) /\ Len(s) = Len(old) + 1 /\ s[1] = d
        /\ \A i \in 2..(Len(old) + 1) : s[i] = old[i - 1]
    <2> HIDE DEF d, old
    <2>1. /\ s \in Seq(Nat) /\ Len(s) = Len(<<d>>) + Len(old)
          /\ \A i \in 1..(Len(<<d>>) + Len(old)) :
               s[i] = IF i <= Len(<<d>>) THEN <<d>>[i] ELSE old[i - Len(<<d>>)]
      BY <1>4, <1>5, ConcatProperties
    <2>2. Len(old) \in Nat
      BY <1>4
    <2> QED
      BY <1>5, <2>1, <2>2
  <1>7. new \in DentryRec
    BY <1>1 DEF DentryRec
  <1>8. /\ k \in Seq(DentryRec) /\ Len(k) = Len(t)
        /\ \A e \in 1..Len(t) : k[e] = IF e = w.d THEN [t[e] EXCEPT !.subdirs = s] ELSE t[e]
    <2>1. [t[w.d] EXCEPT !.subdirs = s] \in DentryRec
      <3> HIDE DEF s
      <3> QED
        BY <1>3, <1>6 DEF DentryRec
    <2>2. k = [t EXCEPT ![w.d] = [t[w.d] EXCEPT !.subdirs = s]]
      BY <1>1
    <2> HIDE DEF k, s, t
    <2> QED
      BY <1>1, <2>1, <2>2, ExceptSeq
  <1>9. /\ u \in Seq(DentryRec) /\ Len(u) = Len(t) + 1
        /\ \A e \in 1..Len(t) : u[e] = k[e]
        /\ u[Len(t) + 1] = new
    <2> HIDE DEF k, new, t
    <2> QED
      BY <1>7, <1>8, AppendProperties
  <1>10. v \in WalkRec /\ v.d = d /\ v.tree = u /\ v.m = w.m /\ v.inuse = w.inuse /\ v.res = w.res
    <2>1. d \in Nat
      BY <1>1
    <2> HIDE DEF u, d
    <2> QED
      BY <1>2, <1>9, <2>1 DEF WalkRec
  <1>11. DOMAIN t = 1..Len(t) /\ DOMAIN s = 1..(Len(old) + 1) /\ DOMAIN <<>> = {}
    BY <1>1, <1>6
  <1>12. \A e \in DOMAIN t :
           /\ u[e].name = t[e].name /\ u[e].inode = t[e].inode
           /\ u[e].parent = t[e].parent /\ u[e].mounted = t[e].mounted
           /\ u[e].isdir = t[e].isdir /\ u[e].fs = t[e].fs
           /\ e # w.d => u[e].subdirs = t[e].subdirs
    <2> SUFFICES ASSUME NEW e \in 1..Len(t) PROVE
           /\ u[e].name = t[e].name /\ u[e].inode = t[e].inode
           /\ u[e].parent = t[e].parent /\ u[e].mounted = t[e].mounted
           /\ u[e].isdir = t[e].isdir /\ u[e].fs = t[e].fs
           /\ e # w.d => u[e].subdirs = t[e].subdirs
      BY <1>11
    <2>1. t[e] \in DentryRec
      BY <1>1, ElementOfSeq
    <2> HIDE DEF u, k, s, t
    <2>2. u[e] = IF e = w.d THEN [t[e] EXCEPT !.subdirs = s] ELSE t[e]
      BY <1>8, <1>9
    <2> QED
      BY <2>1, <2>2 DEF DentryRec
  <1>13. u[w.d].subdirs = s
    <2> HIDE DEF u, k, s, t
    <2> QED
      BY <1>1, <1>3, <1>8, <1>9 DEF DentryRec
  <1>14. /\ u[d].name = name /\ u[d].inode = ip /\ u[d].parent = w.d
         /\ u[d].mounted = 0 /\ u[d].isdir = isdir /\ u[d].fs = fs
         /\ DOMAIN u[d].subdirs = {}
    <2> HIDE DEF u, t
    <2> QED
      BY <1>9, <1>11
  <1>15. Len(u) = d /\ d \in Nat /\ u \in Seq(DentryRec)
    BY <1>1, <1>9
  <1>16. /\ DOMAIN u[w.d].subdirs = 1..(Len(old) + 1) /\ u[w.d].subdirs[1] = d
         /\ \A i \in 2..(Len(old) + 1) : u[w.d].subdirs[i] = old[i - 1]
    <2> HIDE DEF u, s, old
    <2> QED
      BY <1>6, <1>11, <1>13
  <1>17. Linked(t, u, w.d, name, isdir, ip, fs)
    <2> HIDE DEF u, t, d
    <2> QED
      BY <1>9, <1>12, <1>14, <1>15, <1>16 DEF Linked
  <1> HIDE DEF u
  <1> QED
    BY <1>10, <1>17

(* What the dentries of a tree are.                                        *)
LEMMA TreeTypes ==
    ASSUME NEW t, Tree(t)
    PROVE  /\ DOMAIN t = 1..Len(t) /\ Len(t) \in Nat \ {0} /\ root_dentry \in DOMAIN t
           /\ \A d \in DOMAIN t :
                /\ t[d] \in DentryRec /\ d \in Nat
                /\ t[d].parent \in DOMAIN t /\ t[d].parent <= d
                /\ t[d].subdirs \in Seq(Nat)
                /\ Len(t[d].subdirs) \in Nat
                /\ DOMAIN t[d].subdirs = 1..Len(t[d].subdirs)
                /\ t[d].mounted \in Nat
  <1>1. t \in Seq(DentryRec) /\ Len(t) >= 1 /\ DOMAIN t = 1..Len(t) /\ Len(t) \in Nat
    BY DEF Tree
  <1>2. ASSUME NEW d \in DOMAIN t
        PROVE  /\ t[d] \in DentryRec /\ d \in Nat
               /\ t[d].parent \in DOMAIN t /\ t[d].parent <= d
               /\ t[d].subdirs \in Seq(Nat)
               /\ Len(t[d].subdirs) \in Nat
               /\ DOMAIN t[d].subdirs = 1..Len(t[d].subdirs)
               /\ t[d].mounted \in Nat
    <2>1. t[d] \in DentryRec
      BY <1>1, ElementOfSeq
    <2>2. t[d].subdirs \in Seq(Nat) /\ t[d].mounted \in Nat
      BY <2>1 DEF DentryRec
    <2>3. t[d].parent \in 1..d
      BY DEF Tree
    <2> QED
      BY <1>1, <2>1, <2>2, <2>3
  <1> QED
    BY <1>1, <1>2 DEF root_dentry

(* The parent is a directory; the name is new in it.                       *)
LEMMA LinkTree ==
    ASSUME NEW t, NEW u, Tree(t), NEW p \in DOMAIN t, t[p].isdir,
           NEW name \in Names, NEW isdir, NEW ip,
           \A i \in DOMAIN t[p].subdirs : t[t[p].subdirs[i]].name # name,
           Linked(t, u, p, name, isdir, ip, t[p].fs)
    PROVE  Tree(u)
  <1> DEFINE n == Len(t) + 1
  <1>1. /\ DOMAIN t = 1..Len(t) /\ Len(t) \in Nat \ {0} /\ p \in Nat /\ 1 \in DOMAIN t
        /\ \A d \in DOMAIN t : d \in Nat /\ t[d].parent \in DOMAIN t /\ t[d].parent <= d
    BY TreeTypes DEF root_dentry
  <1>2. u \in Seq(DentryRec) /\ Len(u) = n /\ DOMAIN u = DOMAIN t \cup {n} /\ n \notin DOMAIN t
    <2>1. u \in Seq(DentryRec) /\ Len(u) = n
      BY DEF Linked
    <2>2. DOMAIN u = 1..n
      BY <2>1
    <2> QED
      BY <1>1, <2>1, <2>2
  <1>3. \A d \in DOMAIN t : d # p => u[d].subdirs = t[d].subdirs
    BY DEF Linked
  <1>4. \A i \in DOMAIN u[p].subdirs :
           \/ i = 1 /\ u[p].subdirs[i] = n
           \/ i # 1 /\ i - 1 \in DOMAIN t[p].subdirs /\ u[p].subdirs[i] = t[p].subdirs[i - 1]
    <2>1. Len(t[p].subdirs) \in Nat /\ DOMAIN t[p].subdirs = 1..Len(t[p].subdirs)
      BY TreeTypes
    <2>2. /\ DOMAIN u[p].subdirs = 1..(Len(t[p].subdirs) + 1)
          /\ u[p].subdirs[1] = Len(u)
          /\ \A i \in 2..(Len(t[p].subdirs) + 1) : u[p].subdirs[i] = t[p].subdirs[i - 1]
      BY DEF Linked
    <2> QED
      BY <1>2, <2>1, <2>2
  <1>5. \A d \in DOMAIN t :
           /\ u[d].name = t[d].name /\ u[d].parent = t[d].parent
           /\ u[d].mounted = t[d].mounted /\ u[d].isdir = t[d].isdir /\ u[d].fs = t[d].fs
    BY DEF Linked
  <1>6. /\ u[n].name = name /\ u[n].parent = p /\ u[n].mounted = 0
        /\ u[n].fs = t[p].fs /\ DOMAIN u[n].subdirs = {}
    BY <1>2 DEF Linked
  <1>7. \A d \in DOMAIN t : \A i \in DOMAIN t[d].subdirs :
           t[d].subdirs[i] \in DOMAIN t /\ t[d].subdirs[i] # d /\ t[t[d].subdirs[i]].parent = d
    BY DEF Tree
  <1> HIDE DEF n
  <1>8. ASSUME NEW d \in DOMAIN u
        PROVE  /\ u[d].parent \in 1..d
               /\ u[u[d].parent].isdir
               /\ u[u[d].parent].fs = u[d].fs
               /\ u[d].mounted > 0 => u[d].isdir
    <2>1. CASE d = n
      BY <1>1, <1>2, <1>5, <1>6, <2>1 DEF n
    <2>2. CASE d \in DOMAIN t
      <3>1. t[d].parent \in DOMAIN t /\ t[d].parent \in 1..d /\ t[t[d].parent].isdir
            /\ t[t[d].parent].fs = t[d].fs /\ (t[d].mounted > 0 => t[d].isdir)
        BY <1>1, <2>2 DEF Tree
      <3> QED
        BY <1>5, <2>2, <3>1
    <2> QED
      BY <1>2, <2>1, <2>2
  <1>9. ASSUME NEW d \in DOMAIN u, NEW i \in DOMAIN u[d].subdirs
        PROVE  u[d].subdirs[i] \in DOMAIN u /\ u[d].subdirs[i] # d /\ u[u[d].subdirs[i]].parent = d
    <2>1. CASE d = n
      BY <1>6, <2>1
    <2>2. CASE d = p
      BY <1>2, <1>4, <1>5, <1>6, <1>7, <2>2
    <2>3. CASE d \in DOMAIN t /\ d # p
      BY <1>2, <1>3, <1>5, <1>7, <2>3
    <2> QED
      BY <1>2, <2>1, <2>2, <2>3
  <1>10. ASSUME NEW d \in DOMAIN u, NEW i \in DOMAIN u[d].subdirs, NEW j \in DOMAIN u[d].subdirs,
                u[u[d].subdirs[i]].name = u[u[d].subdirs[j]].name
         PROVE  i = j
    <2>1. \A e \in DOMAIN t : \A k, l \in DOMAIN t[e].subdirs :
            t[t[e].subdirs[k]].name = t[t[e].subdirs[l]].name => k = l
      BY DEF Tree
    <2>2. CASE d = n
      BY <1>6, <2>2
    <2>3. CASE d = p
      <3>1. ASSUME i # 1, j # 1 PROVE i = j
        <4>1. i - 1 \in DOMAIN t[p].subdirs /\ j - 1 \in DOMAIN t[p].subdirs
              /\ u[p].subdirs[i] = t[p].subdirs[i - 1] /\ u[p].subdirs[j] = t[p].subdirs[j - 1]
          BY <1>4, <2>3, <3>1
        <4>2. t[t[p].subdirs[i - 1]].name = t[t[p].subdirs[j - 1]].name
          BY <1>5, <1>7, <1>10, <2>3, <4>1
        <4>3. i - 1 = j - 1
          BY <2>1, <4>1, <4>2
        <4>4. i \in Int /\ j \in Int
          <5>1. DOMAIN u[p].subdirs = 1..(Len(t[p].subdirs) + 1)
            BY DEF Linked
          <5> QED
            BY <2>3, <5>1
        <4> QED
          BY <4>3, <4>4
      <3>2. \A k \in DOMAIN u[p].subdirs : k # 1 => u[u[p].subdirs[k]].name # name
        BY <1>4, <1>5, <1>7
      <3>3. i = 1 => u[u[p].subdirs[i]].name = name
        BY <1>4, <1>6, <2>3
      <3>4. j = 1 => u[u[p].subdirs[j]].name = name
        BY <1>4, <1>6, <2>3
      <3> QED
        BY <1>10, <2>3, <3>1, <3>2, <3>3, <3>4
    <2>4. CASE d \in DOMAIN t /\ d # p
      BY <1>3, <1>5, <1>7, <1>10, <2>1, <2>4
    <2> QED
      BY <1>2, <2>2, <2>3, <2>4
  <1>11. ASSUME NEW d \in DOMAIN u, u[d].parent # d
         PROVE  \E i \in DOMAIN u[u[d].parent].subdirs : u[u[d].parent].subdirs[i] = d
    <2>1. 1 \in DOMAIN u[p].subdirs /\ u[p].subdirs[1] = n
      <3>1. Len(t[p].subdirs) \in Nat
        BY TreeTypes
      <3> QED
        BY <1>2, <3>1 DEF Linked
    <2>2. CASE d = n
      BY <1>6, <2>1, <2>2
    <2>3. CASE d \in DOMAIN t
      <3>1. t[d].parent # d /\ u[d].parent = t[d].parent /\ t[d].parent \in DOMAIN t
        BY <1>1, <1>5, <1>11, <2>3
      <3>2. PICK i \in DOMAIN t[t[d].parent].subdirs : t[t[d].parent].subdirs[i] = d
        BY <2>3, <3>1 DEF Tree
      <3>3. CASE t[d].parent = p
        <4>1. Len(t[p].subdirs) \in Nat /\ DOMAIN t[p].subdirs = 1..Len(t[p].subdirs)
          BY TreeTypes
        <4>2. i + 1 \in 2..(Len(t[p].subdirs) + 1) /\ (i + 1) - 1 = i
          BY <3>2, <3>3, <4>1
        <4>3. i + 1 \in DOMAIN u[p].subdirs /\ u[p].subdirs[i + 1] = t[p].subdirs[(i + 1) - 1]
          <5>1. /\ DOMAIN u[p].subdirs = 1..(Len(t[p].subdirs) + 1)
                /\ \A k \in 2..(Len(t[p].subdirs) + 1) : u[p].subdirs[k] = t[p].subdirs[k - 1]
            BY DEF Linked
          <5> QED
            BY <4>1, <4>2, <5>1
        <4> QED
          BY <3>1, <3>2, <3>3, <4>2, <4>3
      <3>4. CASE t[d].parent # p
        BY <1>3, <3>1, <3>2, <3>4
      <3> QED
        BY <3>3, <3>4
    <2> QED
      BY <1>2, <2>2, <2>3
  <1>12. Len(u) >= 1 /\ u[1].parent = 1
    BY <1>1, <1>2, <1>5 DEF Tree, n
  <1> QED
    BY <1>2, <1>8, <1>9, <1>10, <1>11, <1>12 DEF Tree

(* The other parts of the invariant.                                       *)
LEMMA LinkMounts ==
    ASSUME NEW t, NEW u, Tree(t), NEW p \in DOMAIN t, NEW mnt, Mounts(t, mnt),
           NEW name, NEW isdir, NEW ip, NEW fs, Linked(t, u, p, name, isdir, ip, fs)
    PROVE  Mounts(u, mnt)
  <1> DEFINE n == Len(t) + 1
  <1>1. DOMAIN t = 1..Len(t) /\ Len(t) \in Nat \ {0}
    BY TreeTypes
  <1>2. DOMAIN u = DOMAIN t \cup {n} /\ n \notin DOMAIN t
    <2>1. u \in Seq(DentryRec) /\ Len(u) = n
      BY DEF Linked
    <2>2. DOMAIN u = 1..n
      BY <2>1
    <2> QED
      BY <1>1, <2>2
  <1>3. \A d \in DOMAIN t : u[d].parent = t[d].parent /\ u[d].fs = t[d].fs
    BY DEF Linked
  <1>4. u[n].parent = p /\ p # n
    BY <1>2 DEF Linked
  <1> HIDE DEF n
  <1>5. \A m \in DOMAIN mnt :
          /\ mnt[m].root \in DOMAIN u /\ mnt[m].mountpoint \in DOMAIN u
          /\ u[mnt[m].root].parent = mnt[m].root
          /\ u[mnt[m].root].fs = mnt[m].fs
    BY <1>2, <1>3 DEF Mounts
  <1>6. \A m \in DOMAIN mnt \ {1} :
          /\ mnt[m].parent \in DOMAIN mnt
          /\ mnt[m].mountpoint < mnt[m].root
          /\ u[mnt[m].mountpoint].fs = mnt[mnt[m].parent].fs
    BY <1>2, <1>3 DEF Mounts
  <1>7. \A d \in DOMAIN u : u[d].parent = d => \E m \in DOMAIN mnt : mnt[m].root = d
    BY <1>2, <1>3, <1>4 DEF Mounts
  <1> QED
    BY <1>5, <1>6, <1>7 DEF Mounts

LEMMA LinkExact ==
    ASSUME NEW t, NEW u, Tree(t), NEW p \in DOMAIN t, NEW mnt, NEW list, Mounts(t, mnt),
           List(list, mnt), Exact(t, mnt, list),
           NEW name, NEW isdir, NEW ip, NEW fs, Linked(t, u, p, name, isdir, ip, fs)
    PROVE  Exact(u, mnt, list)
  <1> DEFINE n == Len(t) + 1
  <1>1. DOMAIN t = 1..Len(t) /\ Len(t) \in Nat \ {0}
    BY TreeTypes
  <1>2. DOMAIN u = DOMAIN t \cup {n} /\ n \notin DOMAIN t
    <2>1. u \in Seq(DentryRec) /\ Len(u) = n
      BY DEF Linked
    <2>2. DOMAIN u = 1..n
      BY <2>1
    <2> QED
      BY <1>1, <2>2
  <1>3. \A d \in DOMAIN t : u[d].mounted = t[d].mounted
    BY DEF Linked
  <1>4. u[n].mounted = 0
    BY DEF Linked
  <1>5. Covering(n, mnt, list) = {}
    <2>1. \A m \in Range(list) : m \in DOMAIN mnt
      BY DEF Range, List
    <2>2. \A m \in DOMAIN mnt : mnt[m].mountpoint \in DOMAIN t
      BY DEF Mounts
    <2> QED
      BY <1>2, <2>1, <2>2 DEF Covering
  <1> HIDE DEF n
  <1> QED
    BY <1>2, <1>3, <1>4, <1>5, FS_EmptySet DEF Exact

LEMMA LinkFiles ==
    ASSUME NEW t, NEW u, Tree(t), NEW p \in DOMAIN t, NEW inuse, Files(t, inuse),
           NEW name, NEW isdir, NEW ip \in Inode, NEW fs, Linked(t, u, p, name, isdir, ip, fs),
           ip.ino = NULL \/ ip.ino \notin inuse
    PROVE  Files(u, IF ip.ino = NULL THEN inuse ELSE inuse \cup {ip.ino})
  <1> DEFINE n == Len(t) + 1
             now == IF ip.ino = NULL THEN inuse ELSE inuse \cup {ip.ino}
  <1>1. DOMAIN t = 1..Len(t) /\ Len(t) \in Nat \ {0}
    BY TreeTypes
  <1>2. DOMAIN u = DOMAIN t \cup {n} /\ n \notin DOMAIN t
    <2>1. u \in Seq(DentryRec) /\ Len(u) = n
      BY DEF Linked
    <2>2. DOMAIN u = 1..n
      BY <2>1
    <2> QED
      BY <1>1, <2>2
  <1>3. \A d \in DOMAIN t : u[d].inode = t[d].inode
    BY DEF Linked
  <1>4. u[n].inode = ip
    BY DEF Linked
  <1> HIDE DEF n
  <1>5. now \subseteq Inodes
    <2>1. ip.ino \in Inodes \cup {NULL}
      BY DEF Inode
    <2> QED
      BY <2>1 DEF Files
  <1>6. \A d \in DOMAIN u : u[d].inode.ino # NULL => u[d].inode.ino \in now
    BY <1>2, <1>3, <1>4 DEF Files
  <1>7. \A i \in now : \E d \in DOMAIN u : u[d].inode.ino = i
    BY <1>2, <1>3, <1>4 DEF Files
  <1>8. \A d, e \in DOMAIN u :
          u[d].inode.ino = u[e].inode.ino /\ u[d].inode.ino # NULL => d = e
    BY <1>2, <1>3, <1>4 DEF Files
  <1> QED
    BY <1>5, <1>6, <1>7, <1>8 DEF Files

LEMMA LinkOnce ==
    ASSUME NEW t, NEW u, Tree(t), NEW p \in DOMAIN t, Once(t),
           NEW name, NEW isdir, NEW ip, NEW fs, Linked(t, u, p, name, isdir, ip, fs)
    PROVE  Once(u)
  <1>1. DOMAIN t = 1..Len(t) /\ Len(t) \in Nat \ {0}
    BY TreeTypes
  <1>2. DOMAIN u = DOMAIN t \cup {Len(u)}
    <2>1. u \in Seq(DentryRec) /\ Len(u) = Len(t) + 1
      BY DEF Linked
    <2>2. DOMAIN u = 1..(Len(t) + 1)
      BY <2>1
    <2> QED
      BY <1>1, <2>1, <2>2
  <1>3. \A d \in DOMAIN t : u[d].mounted = t[d].mounted /\ u[d].parent = t[d].parent
    BY DEF Linked
  <1>4. u[Len(u)].mounted = 0
    BY DEF Linked
  <1>5. 0 <= 1 /\ \A d \in DOMAIN t : u[d].parent # d => u[d].mounted <= 1
    BY <1>3 DEF Once
  <1>6. \A d \in DOMAIN u : u[d].parent # d => u[d].mounted <= 1
    BY <1>2, <1>4, <1>5, Zenon
  <1> QED
    BY <1>6 DEF Once

(* The way to p leads to the new dentry, and all ways stay open.           *)
LEMMA LinkWay ==
    ASSUME NEW t, NEW u, Tree(t), NEW p \in DOMAIN t, NEW mnt, NEW list, Mounts(t, mnt),
           List(list, mnt), NEW U, Way(t, mnt, list, U), p \in U, Enters(t, p),
           NEW name, NEW isdir, NEW ip, NEW fs, Linked(t, u, p, name, isdir, ip, fs)
    PROVE  Way(u, mnt, list, U \cup {Len(t) + 1})
  <1> DEFINE n == Len(t) + 1
             V == U \cup {n}
  <1>1. DOMAIN t = 1..Len(t) /\ Len(t) \in Nat \ {0}
    BY TreeTypes
  <1>2. DOMAIN u = DOMAIN t \cup {n} /\ n \notin DOMAIN t
    <2>1. u \in Seq(DentryRec) /\ Len(u) = n
      BY DEF Linked
    <2>2. DOMAIN u = 1..n
      BY <2>1
    <2> QED
      BY <1>1, <2>2
  <1>3. \A d \in DOMAIN t : u[d].parent = t[d].parent /\ u[d].mounted = t[d].mounted
    BY DEF Linked
  <1>4. u[n].parent = p
    BY DEF Linked
  <1> HIDE DEF n
  <1>5. \A d \in U : t[d].parent \in DOMAIN t /\ d \in DOMAIN t
    BY TreeTypes DEF Way
  <1>6. \A m \in Range(list) : m \in DOMAIN mnt
    BY DEF Range, List
  <1>7. \A m \in DOMAIN mnt : mnt[m].mountpoint \in DOMAIN t
    BY DEF Mounts
  <1>8. ASSUME NEW d \in V
        PROVE  \/ d = 1
               \/ u[d].parent # d /\ u[d].parent \in V /\ Enters(u, u[d].parent)
               \/ u[d].parent = d /\ \E m \in Range(list) :
                    /\ mnt[m].root = d /\ mnt[m].mountpoint \in V
                    /\ u[mnt[m].mountpoint].parent # mnt[m].mountpoint
                    /\ mnt[mnt[m].parent].root \in V
    <2>1. CASE d = n
      BY <1>2, <1>3, <1>4, <2>1 DEF Enters
    <2>2. CASE d \in U /\ d # 1 /\ t[d].parent # d
      BY <1>3, <1>5, <2>2 DEF Way, Enters
    <2>3. CASE d \in U /\ d # 1 /\ t[d].parent = d
      <3>1. PICK m \in Range(list) :
              /\ mnt[m].root = d /\ mnt[m].mountpoint \in U
              /\ t[mnt[m].mountpoint].parent # mnt[m].mountpoint
              /\ mnt[mnt[m].parent].root \in U
        BY <2>3 DEF Way
      <3> QED
        BY <1>3, <1>5, <1>6, <1>7, <2>3, <3>1
    <2> QED
      BY <2>1, <2>2, <2>3
  <1>9. V \subseteq DOMAIN u
    BY <1>2 DEF Way
  <1> QED
    BY <1>8, <1>9 DEF Way, n

(* Trees that grow.                                                        *)
LEMMA GrownOn ==
    ASSUME NEW s, NEW t, NEW u, Len(s) \in Nat, Len(t) \in Nat, Len(u) \in Nat,
           DOMAIN s = 1..Len(s), DOMAIN t = 1..Len(t), Grown(s, t), Grown(t, u)
    PROVE  Grown(s, u)
  <1>1. Len(s) <= Len(u) /\ \A d \in DOMAIN s : d \in DOMAIN t
    BY DEF Grown
  <1> QED
    BY <1>1 DEF Grown

LEMMA LinkGrown ==
    ASSUME NEW t, NEW u, Tree(t), NEW p \in DOMAIN t, Enters(t, p),
           NEW name, NEW isdir, NEW ip, NEW fs, Linked(t, u, p, name, isdir, ip, fs)
    PROVE  Grown(t, u)
  <1>1. Len(t) \in Nat /\ \A d \in DOMAIN t : t[d].mounted \in Nat
    BY TreeTypes
  <1>2. Len(u) = Len(t) + 1
    BY DEF Linked
  <1>3. \A d \in DOMAIN t :
         /\ u[d].name = t[d].name /\ u[d].inode = t[d].inode /\ u[d].parent = t[d].parent
         /\ u[d].mounted = t[d].mounted /\ u[d].isdir = t[d].isdir /\ u[d].fs = t[d].fs
         /\ d # p => u[d].subdirs = t[d].subdirs
    BY DEF Linked
  <1> QED
    BY <1>1, <1>2, <1>3 DEF Grown, Enters

-----------------------------------------------------------------------------
(* The steps of a walk.                                                    *)

LEMMA GoodFacts ==
    ASSUME NEW w, Good(w)
    PROVE  /\ w \in WalkRec /\ w.d \in DOMAIN w.tree /\ w.m \in DOMAIN mount
           /\ Tree(w.tree) /\ Mounts(w.tree, mount) /\ List(mnt_list, mount)
           /\ Exact(w.tree, mount, mnt_list) /\ Files(w.tree, w.inuse) /\ Once(w.tree)
           /\ Grown(dentry, w.tree)
           /\ w.tree[w.d].fs = mount[w.m].fs
           /\ OnTheWay(w)
           /\ w.res = "ok" => Enters(w.tree, w.d)
           /\ DOMAIN w.tree = 1..Len(w.tree) /\ Len(w.tree) \in Nat \ {0}
           /\ w.d \in Nat /\ w.m \in Nat /\ w.inuse \subseteq Nat
  BY TreeTypes DEF Good, Sound, WalkRec

(* A walk x that stands where w stands makes a dentry there.               *)
LEMMA LinkGood ==
    ASSUME Tree(dentry), NEW w, Good(w), w.res = "ok", w.tree[w.d].isdir,
           NEW name \in Names, Hits(w, name) = {},
           NEW isdir \in BOOLEAN, NEW ip \in Inode,
           ip.ino = NULL \/ ip.ino \notin w.inuse,
           NEW x \in WalkRec, x.d = w.d, x.m = w.m, x.tree = w.tree, x.res = "ok",
           x.inuse = IF ip.ino = NULL THEN w.inuse ELSE w.inuse \cup {ip.ino},
           NEW v, v = Link(x, name, isdir, ip, mount[w.m].fs)
    PROVE  Good(v) /\ v.res = "ok" /\ v.tree[v.d].isdir = isdir
  <1>1. /\ w \in WalkRec /\ w.d \in DOMAIN w.tree /\ w.m \in DOMAIN mount
        /\ Tree(w.tree) /\ Mounts(w.tree, mount) /\ List(mnt_list, mount)
        /\ Exact(w.tree, mount, mnt_list) /\ Files(w.tree, w.inuse) /\ Once(w.tree)
        /\ Grown(dentry, w.tree)
        /\ w.tree[w.d].fs = mount[w.m].fs
        /\ OnTheWay(w)
        /\ Enters(w.tree, w.d)
        /\ DOMAIN w.tree = 1..Len(w.tree) /\ Len(w.tree) \in Nat \ {0}
    BY GoodFacts
  <1>2. w.tree[w.d] \in DentryRec
    BY <1>1, TreeTypes
  <1>3. mount[w.m].fs \in FsObjects
    BY <1>1, <1>2 DEF DentryRec
  <1>4. /\ v \in WalkRec /\ v.d = Len(w.tree) + 1
        /\ v.m = w.m /\ v.inuse = x.inuse /\ v.res = "ok"
        /\ Linked(w.tree, v.tree, w.d, name, isdir, ip, mount[w.m].fs)
    BY <1>1, <1>3, LinkLinks
  <1> DEFINE t == w.tree
             u == v.tree
  <1>5. Linked(t, u, w.d, name, isdir, ip, t[w.d].fs)
    BY <1>1, <1>4
  <1>6. \A i \in DOMAIN t[w.d].subdirs : t[t[w.d].subdirs[i]].name # name
    BY DEF Hits
  <1>7. Len(u) = Len(t) + 1 /\ v.d \in DOMAIN u /\ u[v.d].isdir = isdir /\ u[v.d].mounted = 0
        /\ u[v.d].fs = mount[w.m].fs /\ Len(u) \in Nat
    <2>1. u \in Seq(DentryRec) /\ Len(u) = Len(t) + 1
      BY <1>5 DEF Linked
    <2>2. DOMAIN u = 1..Len(u)
      BY <2>1
    <2>3. v.d = Len(u) /\ v.d \in DOMAIN u /\ Len(u) \in Nat
      BY <1>1, <1>4, <2>1, <2>2
    <2>4. u[Len(u)].isdir = isdir /\ u[Len(u)].mounted = 0 /\ u[Len(u)].fs = mount[w.m].fs
      BY <1>4, Zenon DEF Linked
    <2> HIDE DEF u
    <2> QED
      BY <2>1, <2>3, <2>4, Zenon
  <1> HIDE DEF t, u
  <1>8. Tree(u)
    <2>1. t[w.d].isdir /\ w.d \in DOMAIN t /\ Tree(t)
      BY <1>1 DEF t
    <2> QED
      BY <1>5, <1>6, <2>1, LinkTree
  <1>9. Mounts(u, mount)
    BY <1>1, <1>5, LinkMounts DEF t
  <1>10. Exact(u, mount, mnt_list)
    BY <1>1, <1>5, LinkExact DEF t
  <1>11. Files(u, v.inuse)
    <2>1. Files(u, IF ip.ino = NULL THEN w.inuse ELSE w.inuse \cup {ip.ino})
      BY <1>1, <1>5, LinkFiles, Zenon DEF t
    <2> QED
      BY <1>4, <2>1, Zenon
  <1>12. Once(u)
    BY <1>1, <1>5, LinkOnce DEF t
  <1>13. Grown(dentry, u)
    <2>1. Grown(t, u)
      BY <1>1, <1>5, LinkGrown DEF t
    <2>2. Len(dentry) \in Nat /\ DOMAIN dentry = 1..Len(dentry)
      BY TreeTypes
    <2> QED
      BY <1>1, <1>7, <2>1, <2>2, GrownOn DEF t
  <1>14. OnTheWay(v)
    <2>1. PICK U \in SUBSET DOMAIN t :
            Way(t, mount, mnt_list, U) /\ w.d \in U /\ mount[w.m].root \in U
      BY <1>1 DEF OnTheWay, t
    <2>2. Way(u, mount, mnt_list, U \cup {Len(t) + 1})
      BY <1>1, <1>5, <2>1, LinkWay DEF t
    <2>3. U \cup {Len(t) + 1} \in SUBSET DOMAIN u
      BY <2>2 DEF Way
    <2>4. v.d \in U \cup {Len(t) + 1} /\ mount[v.m].root \in U \cup {Len(t) + 1}
      BY <1>4, <2>1 DEF t
    <2> QED
      BY <2>2, <2>3, <2>4 DEF OnTheWay, u
  <1> QED
    BY <1>1, <1>4, <1>7, <1>8, <1>9, <1>10, <1>11, <1>12, <1>13, <1>14 DEF Good, Sound, Enters, u

(* A mount is known by its root, and the root of the mount a walk is in by *)
(* being its own parent.                                                   *)
LEMMA OneMount ==
    ASSUME NEW t, NEW mnt, Tree(t), Mounts(t, mnt)
    PROVE  /\ \A m, n \in DOMAIN mnt : mnt[m].root = mnt[n].root => m = n
           /\ \A m \in DOMAIN mnt, d \in DOMAIN t :
                t[d].parent = d /\ t[d].fs = mnt[m].fs => mnt[m].root = d
           /\ 1 \in DOMAIN mnt
  <1>1. \A m, n \in DOMAIN mnt : mnt[m].root = mnt[n].root => m = n
    BY DEF Mounts
  <1>2. ASSUME NEW m \in DOMAIN mnt, NEW d \in DOMAIN t, t[d].parent = d, t[d].fs = mnt[m].fs
        PROVE  mnt[m].root = d
    <2>1. PICK n \in DOMAIN mnt : mnt[n].root = d
      BY <1>2 DEF Mounts
    <2>2. mnt[n].fs = mnt[m].fs
      BY <1>2, <2>1 DEF Mounts
    <2> QED
      BY <2>1, <2>2 DEF Mounts
  <1>3. 1 \in DOMAIN mnt
    <2>1. mnt \in Seq(MountRec) /\ Len(mnt) >= 1
      BY DEF Mounts
    <2> QED
      BY <2>1
  <1> QED
    BY <1>1, <1>2, <1>3

LEMMA DotDotGood ==
    ASSUME NEW w, Good(w), w.res = "ok"
    PROVE  GoodDir(DotDot(w)) /\ DotDot(w).res = "ok"
  <1>1. /\ w \in WalkRec /\ w.d \in DOMAIN w.tree /\ w.m \in DOMAIN mount
        /\ Tree(w.tree) /\ Mounts(w.tree, mount) /\ List(mnt_list, mount)
        /\ Exact(w.tree, mount, mnt_list) /\ Files(w.tree, w.inuse) /\ Once(w.tree)
        /\ Grown(dentry, w.tree)
        /\ w.tree[w.d].fs = mount[w.m].fs
        /\ OnTheWay(w)
        /\ w.d \in Nat /\ w.m \in Nat
    BY GoodFacts
  <1> DEFINE t == w.tree
  <1>2. PICK U \in SUBSET DOMAIN t :
          Way(t, mount, mnt_list, U) /\ w.d \in U /\ mount[w.m].root \in U
    BY <1>1 DEF OnTheWay
  <1>3. \A d \in DOMAIN t : t[d].parent \in DOMAIN t /\ t[d].parent \in Nat
    BY <1>1, TreeTypes
  (* Where the way up ends is good for a walk.                             *)
  <1>4. ASSUME NEW d \in U, NEW m \in DOMAIN mount, t[d].fs = mount[m].fs, Enters(t, d),
               mount[m].root \in U, t[d].isdir, NEW v, v = [w EXCEPT !.d = d, !.m = m]
        PROVE  GoodDir(v) /\ v.res = "ok"
    <2>1. d \in Nat /\ m \in Nat /\ d \in DOMAIN t
      <3>1. d \in DOMAIN t
        BY <1>2
      <3>2. d \in Nat
        BY <1>1, <3>1, TreeTypes
      <3>3. mount \in Seq(MountRec)
        BY <1>1 DEF Mounts
      <3>4. DOMAIN mount = 1..Len(mount)
        BY <3>3
      <3> QED
        BY <3>1, <3>2, <3>4
    <2>2. v \in WalkRec /\ v.d = d /\ v.m = m /\ v.tree = t /\ v.inuse = w.inuse /\ v.res = w.res
      BY <1>1, <1>4, <2>1 DEF WalkRec
    <2>3. OnTheWay(v)
      BY <1>2, <1>4, <2>2 DEF OnTheWay
    <2> HIDE DEF t
    <2> QED
      BY <1>1, <1>4, <2>1, <2>2, <2>3 DEF GoodDir, Good, Sound, t
  <1>5. CASE w.d = root_dentry
    <2>1. DotDot(w) = w
      BY <1>5 DEF DotDot
    <2>2. t[w.d].isdir
      BY <1>1, <1>5, <1>3 DEF Tree, root_dentry
    <2> QED
      BY <2>1, <2>2 DEF GoodDir
  <1>6. CASE w.d # root_dentry /\ t[w.d].parent # w.d
    <2> DEFINE d == t[w.d].parent
    <2>1. DotDot(w) = [w EXCEPT !.d = d]
      BY <1>6, Zenon DEF DotDot
    <2>2. [w EXCEPT !.d = d] = [w EXCEPT !.d = d, !.m = w.m]
      BY <1>1 DEF WalkRec
    <2>3. d \in U /\ Enters(t, d)
      BY <1>2, <1>6 DEF Way, root_dentry
    <2>4. t[d].fs = mount[w.m].fs /\ t[d].isdir
      BY <1>1 DEF Tree
    <2>5. DotDot(w) = [w EXCEPT !.d = d, !.m = w.m]
      BY <2>1, <2>2, Zenon
    <2> HIDE DEF d, t
    <2> QED
      BY <1>1, <1>2, <1>4, <2>3, <2>4, <2>5, Zenon
  <1>7. CASE w.d # root_dentry /\ t[w.d].parent = w.d
    <2>1. PICK m \in Range(mnt_list) :
            /\ mount[m].root = w.d /\ mount[m].mountpoint \in U
            /\ t[mount[m].mountpoint].parent # mount[m].mountpoint
            /\ mount[mount[m].parent].root \in U
      BY <1>2, <1>7 DEF Way, root_dentry
    <2>2. m \in DOMAIN mount
      BY <1>1 DEF List, Range
    <2>3. m = w.m
      BY <1>1, <1>7, <2>1, <2>2, OneMount
    <2> DEFINE c == mount[w.m].mountpoint
               d == t[c].parent
               n == mount[w.m].parent
    <2>4. w.m # 1
      BY <1>1, <1>7, <2>1, <2>3 DEF Mounts, root_dentry
    <2>5. c \in DOMAIN t /\ n \in DOMAIN mount /\ t[c].fs = mount[n].fs
      BY <1>1, <2>4 DEF Mounts
    <2>6. c # 1
      <3>1. t[1].parent = 1
        BY <1>1 DEF Tree
      <3> QED
        BY <2>1, <2>3, <3>1
    <2>7. d \in U /\ Enters(t, d)
      BY <1>2, <2>1, <2>3, <2>6 DEF Way
    <2>8. t[d].fs = mount[n].fs /\ t[d].isdir
      BY <1>1, <2>5 DEF Tree
    <2>9. DotDot(w) = [w EXCEPT !.d = d, !.m = n]
      <3> DEFINE v == [w EXCEPT !.d = c, !.m = n]
      <3>1. DotDot(w) = [v EXCEPT !.d = t[v.d].parent]
        <4>1. ToMountpoint(w) = v
          BY DEF ToMountpoint
        <4> QED
          BY <1>7, <4>1, Zenon DEF DotDot
      <3>2. v.d = c /\ v.tree = t
        BY <1>1 DEF WalkRec
      <3>3. [v EXCEPT !.d = d] = [w EXCEPT !.d = d, !.m = n]
        BY <1>1 DEF WalkRec
      <3> QED
        BY <3>1, <3>2, <3>3
    <2> HIDE DEF d, n, c
    <2> QED
      BY <1>4, <2>1, <2>3, <2>5, <2>7, <2>8, <2>9 DEF n
  <1> QED
    BY <1>5, <1>6, <1>7


(* A walk of the same tree that stands elsewhere.                          *)
LEMMA GoodAt ==
    ASSUME NEW w, Good(w), NEW v \in WalkRec, v.tree = w.tree, v.inuse = w.inuse,
           v.d \in DOMAIN w.tree, v.m \in DOMAIN mount, w.tree[v.d].fs = mount[v.m].fs,
           OnTheWay(v), v.res = "ok" => Enters(w.tree, v.d)
    PROVE  Good(v)
  BY DEF Good, Sound

Crosses(w, c, x) ==
    \/ w.tree[c].mounted = 0 /\ Cross(x) = x
    \/ \E k \in Range(mnt_list) :
         /\ k \in DOMAIN mount /\ mount[k].mountpoint = c
         /\ Cross(x) = [x EXCEPT !.d = mount[k].root, !.m = k]

(* At a mount point the walk goes on in the mount, which is in the list:   *)
(* that is never searched in vain.                                         *)
LEMMA CrossCases ==
    ASSUME NEW w, Good(w), NEW c \in DOMAIN w.tree, c # root_dentry,
           NEW x \in WalkRec, x.d = c, x.tree = w.tree
    PROVE  Crosses(w, c, x)
  <1> DEFINE t == w.tree
             here == {i \in DOMAIN mnt_list : mount[mnt_list[i]].mountpoint = c}
             k == mnt_list[Min(here)]
  <1>1. Tree(t) /\ Mounts(t, mount) /\ List(mnt_list, mount) /\ Exact(t, mount, mnt_list)
    BY GoodFacts
  <1>2. t[c].mounted \in Nat /\ (t[c].mounted > 0 => t[c].isdir)
    BY <1>1, TreeTypes DEF Tree
  <1>3. CASE t[c].mounted = 0
    <2>1. Cross(x) = x
      BY <1>3, Zenon DEF Cross
    <2> QED
      BY <1>3, <2>1 DEF Crosses
  <1>4. CASE t[c].mounted # 0
    <2>1. PICK n \in Range(mnt_list) : mount[n].mountpoint = c
      <3>1. Covering(c, mount, mnt_list) # {}
        BY <1>1, <1>4, FS_EmptySet DEF Exact
      <3> QED
        BY <3>1 DEF Covering
    <2>2. here # {} /\ here \subseteq Nat
      <3>1. DOMAIN mnt_list \subseteq Nat
        <4>1. mnt_list \in Seq(DOMAIN mount)
          BY <1>1 DEF List
        <4>2. DOMAIN mnt_list = 1..Len(mnt_list)
          BY <4>1
        <4> QED
          BY <4>1, <4>2
      <3>2. PICK i \in DOMAIN mnt_list : mnt_list[i] = n
        BY <2>1 DEF Range
      <3> QED
        BY <2>1, <3>1, <3>2
    <2>3. Min(here) \in here
      BY <2>2, LeastElement
    <2>4. k \in Range(mnt_list) /\ k \in DOMAIN mount /\ mount[k].mountpoint = c
      <3>1. Min(here) \in DOMAIN mnt_list /\ mount[mnt_list[Min(here)]].mountpoint = c
        BY <2>3
      <3>2. mnt_list \in Seq(DOMAIN mount)
        BY <1>1 DEF List
      <3> HIDE DEF here
      <3> QED
        BY <3>1, <3>2 DEF Range
    <2>5. Cross(x) = [x EXCEPT !.d = mount[k].root, !.m = k]
      <3>1. t[c].isdir /\ ~(t[c].mounted = 0) /\ ~(here = {})
        BY <1>2, <1>4, <2>2
      <3> QED
        BY <3>1, Zenon DEF Cross
    <2> HIDE DEF k
    <2> QED
      BY <2>4, <2>5 DEF Crosses
  <1> QED
    BY <1>3, <1>4

(* From a directory to one of its children, and onto what is mounted on it.*)
LEMMA CrossGood ==
    ASSUME NEW w, Good(w), w.res = "ok", NEW c \in DOMAIN w.tree, w.tree[c].parent = w.d, c # w.d,
           NEW x, x = [w EXCEPT !.d = c]
    PROVE  Good(Cross(x)) /\ Cross(x).res = "ok"
  <1> DEFINE t == w.tree
  <1>1. /\ w \in WalkRec /\ w.d \in DOMAIN t /\ w.m \in DOMAIN mount
        /\ Tree(t) /\ Mounts(t, mount) /\ List(mnt_list, mount)
        /\ Exact(t, mount, mnt_list) /\ Files(t, w.inuse) /\ Once(t)
        /\ Grown(dentry, t)
        /\ t[w.d].fs = mount[w.m].fs
        /\ OnTheWay(w) /\ Enters(t, w.d)
        /\ w.m \in Nat
    BY GoodFacts
  <1>2. PICK U \in SUBSET DOMAIN t :
          Way(t, mount, mnt_list, U) /\ w.d \in U /\ mount[w.m].root \in U
    BY <1>1 DEF OnTheWay
  <1>3. /\ c \in Nat /\ t[c].mounted \in Nat /\ t[c].fs = mount[w.m].fs /\ c # 1
        /\ t[c].mounted > 0 => t[c].isdir
    BY <1>1, TreeTypes DEF Tree
  <1>4. x \in WalkRec /\ x.d = c /\ x.m = w.m /\ x.tree = t /\ x.inuse = w.inuse /\ x.res = "ok"
    BY <1>1, <1>3 DEF WalkRec
  <1>5. Way(t, mount, mnt_list, U \cup {c})
    BY <1>1, <1>2 DEF Way
  <1>6. CASE t[c].mounted = 0 /\ Cross(x) = x
    <2>1. Cross(x) = x
      BY <1>6
    <2>2. OnTheWay(x)
      BY <1>2, <1>4, <1>5 DEF OnTheWay
    <2>3. Enters(t, c)
      BY <1>6 DEF Enters
    <2> QED
      BY <1>1, <1>3, <1>4, <2>1, <2>2, <2>3, GoodAt
  <1>7. ASSUME NEW k \in Range(mnt_list), k \in DOMAIN mount, mount[k].mountpoint = c,
               Cross(x) = [x EXCEPT !.d = mount[k].root, !.m = k]
        PROVE  Good(Cross(x)) /\ Cross(x).res = "ok"
    <2> DEFINE r == mount[k].root
    <2>1. k \in Range(mnt_list) /\ k \in DOMAIN mount /\ mount[k].mountpoint = c
      BY <1>7
    <2>2. k # 1
      BY <1>1, <1>3, <2>1 DEF Mounts
    <2>3. /\ mount[k].parent \in DOMAIN mount /\ t[c].fs = mount[mount[k].parent].fs
          /\ r \in DOMAIN t /\ t[r].parent = r /\ t[r].fs = mount[k].fs
      BY <1>1, <2>1, <2>2 DEF Mounts
    <2>4. mount[k].parent = w.m
      BY <1>1, <1>3, <2>3 DEF Mounts
    <2>5. r \in Nat /\ k \in Nat
      <3>1. DOMAIN mount = 1..Len(mount)
        <4>1. mount \in Seq(MountRec)
          BY <1>1 DEF Mounts
        <4> QED
          BY <4>1
      <3>2. DOMAIN t \subseteq Nat
        BY <1>1, TreeTypes
      <3> HIDE DEF r, t
      <3> QED
        BY <2>1, <2>3, <3>1, <3>2
    <2> DEFINE V == U \cup {c, r}
    <2>6. Way(t, mount, mnt_list, V)
      <3> HIDE DEF r, t
      <3>1. t[mount[k].mountpoint].parent # mount[k].mountpoint
        BY <2>1 DEF t
      <3>2. V \subseteq DOMAIN t
        BY <2>3 DEF t
      <3>3. ASSUME NEW d \in V
            PROVE  \/ d = 1
                   \/ t[d].parent # d /\ t[d].parent \in V /\ Enters(t, t[d].parent)
                   \/ t[d].parent = d /\ \E m \in Range(mnt_list) :
                        /\ mount[m].root = d /\ mount[m].mountpoint \in V
                        /\ t[mount[m].mountpoint].parent # mount[m].mountpoint
                        /\ mount[mount[m].parent].root \in V
        <4>1. CASE d = r
          BY <1>2, <2>1, <2>3, <2>4, <3>1, <4>1 DEF r
        <4>2. CASE d \in U \cup {c}
          BY <1>5, <4>2 DEF Way
        <4> QED
          BY <4>1, <4>2
      <3> QED
        BY <3>2, <3>3 DEF Way
    <2> DEFINE v == [x EXCEPT !.d = r, !.m = k]
    <2>7. v \in WalkRec /\ v.d = r /\ v.m = k /\ v.tree = t /\ v.inuse = w.inuse /\ v.res = "ok"
      <3> HIDE DEF r
      <3> QED
        BY <1>4, <2>5 DEF WalkRec
    <2> HIDE DEF v
    <2>8. OnTheWay(v)
      <3>1. V \in SUBSET DOMAIN t /\ r \in V
        BY <2>3
      <3> QED
        BY <2>6, <2>7, <3>1 DEF OnTheWay
    <2> HIDE DEF t, r
    <2>9. Enters(t, r)
      BY <2>3 DEF Enters
    <2>10. Good(v)
      BY <1>1, <2>1, <2>3, <2>7, <2>8, <2>9, GoodAt DEF t
    <2> QED
      BY <1>7, <2>7, <2>10 DEF v, r
  <1>8. Crosses(w, c, x)
    <2>1. c # root_dentry /\ c \in DOMAIN w.tree /\ x.tree = w.tree
      BY <1>3, <1>4 DEF root_dentry
    <2> QED
      BY <1>4, <2>1, CrossCases
  <1> QED
    BY <1>6, <1>7, <1>8 DEF Crosses

LEMMA FailGood ==
    ASSUME NEW w, Good(w)
    PROVE  Good(Fail(w)) /\ Fail(w).res = "failed"
  <1>1. w \in WalkRec /\ w.d \in DOMAIN w.tree /\ w.m \in DOMAIN mount
        /\ w.tree[w.d].fs = mount[w.m].fs /\ OnTheWay(w)
    BY GoodFacts
  <1>2. Fail(w) = [w EXCEPT !.res = "failed"]
    BY <1>1 DEF Fail, WalkRec
  <1> DEFINE v == [w EXCEPT !.res = "failed"]
  <1>3. /\ v \in WalkRec /\ v.d = w.d /\ v.m = w.m /\ v.tree = w.tree /\ v.inuse = w.inuse
        /\ v.res = "failed"
    BY <1>1 DEF WalkRec
  <1> HIDE DEF v
  <1>4. OnTheWay(v)
    BY <1>1, <1>3 DEF OnTheWay
  <1>5. Good(v)
    BY <1>1, <1>3, <1>4, GoodAt
  <1> QED
    BY <1>2, <1>3, <1>5 DEF v

LEMMA FailUnlessGood ==
    ASSUME NEW w, Good(w), NEW cond \in BOOLEAN
    PROVE  /\ Good(FailUnless(w, cond))
           /\ cond => FailUnless(w, cond) = w
           /\ ~cond => FailUnless(w, cond).res = "failed"
  BY FailGood DEF FailUnless

(* do_lookup finds the name, makes its dentry, or leaves it to be made.    *)
LEMMA LookupGood ==
    ASSUME Tree(dentry), NEW w, Good(w), w.res = "ok", w.tree[w.d].isdir, NEW name \in Names
    PROVE  Good(do_lookup(w, name)) /\ (do_lookup(w, name).res # "ok" => Hits(w, name) = {})
  <1> DEFINE t == w.tree
             hits == Hits(w, name)
             c == t[w.d].subdirs[Min(hits)]
  <1>1. w \in WalkRec /\ w.d \in DOMAIN t /\ Tree(t)
    BY GoodFacts
  <1>2. CASE hits # {}
    <2>1. hits \subseteq DOMAIN t[w.d].subdirs /\ hits \subseteq Nat
      <3>1. DOMAIN t[w.d].subdirs = 1..Len(t[w.d].subdirs) /\ Len(t[w.d].subdirs) \in Nat
        BY <1>1, TreeTypes
      <3>2. hits \subseteq DOMAIN t[w.d].subdirs
        BY DEF Hits
      <3> HIDE DEF hits
      <3> QED
        BY <3>1, <3>2
    <2>2. Min(hits) \in DOMAIN t[w.d].subdirs
      BY <1>2, <2>1, LeastElement
    <2> HIDE DEF hits
    <2>3. c \in DOMAIN t /\ c # w.d /\ t[c].parent = w.d
      BY <1>1, <2>2 DEF Tree
    <2>4. do_lookup(w, name) = Cross([w EXCEPT !.d = c])
      BY <1>2, Zenon DEF do_lookup, hits
    <2> HIDE DEF c
    <2>5. Good(Cross([w EXCEPT !.d = c])) /\ Cross([w EXCEPT !.d = c]).res = "ok"
      BY <2>3, CrossGood
    <2> QED
      BY <2>4, <2>5
  <1>3. CASE hits = {} /\ name \in Provides(t[w.d].fs) /\ t[w.d].parent = w.d
    <2>1. do_lookup(w, name) = Link(w, name, FALSE, Found(name), mount[w.m].fs)
      BY <1>3, Zenon DEF do_lookup
    <2>2. Found(name) \in Inode /\ Found(name).ino = NULL
      BY DEF Found, Inode, ReadAll, Acl, Acls
    <2>3. Good(Link(w, name, FALSE, Found(name), mount[w.m].fs))
      BY <1>1, <1>3, <2>2, LinkGood
    <2> QED
      BY <1>3, <2>1, <2>3
  <1>4. CASE hits = {} /\ ~(name \in Provides(t[w.d].fs) /\ t[w.d].parent = w.d)
    <2>1. do_lookup(w, name) = Fail(w)
      BY <1>4, Zenon DEF do_lookup
    <2> QED
      BY <1>4, <2>1, FailGood
  <1> QED
    BY <1>2, <1>3, <1>4

(* What make_path makes where do_lookup found nothing.                     *)
LEMMA CreateGood ==
    ASSUME Tree(dentry), NEW w, Good(w), w.res = "ok", w.tree[w.d].isdir, NEW name \in Names,
           Hits(w, name) = {}, NEW isdir \in BOOLEAN, NEW mode \in Acls
    PROVE  Good(Create(w, name, isdir, mode))
  <1>1. w \in WalkRec /\ w.inuse \subseteq Nat
    BY GoodFacts
  <1>2. Good(kvfs_mkdir(w, name, mode))
    <2>1. Owned(mode, NULL) \in Inode /\ Owned(mode, NULL).ino = NULL
      BY DEF Owned, Inode
    <2> QED
      BY <1>1, <2>1, LinkGood DEF kvfs_mkdir
  <1>3. Good(kvfs_create(w, name, mode))
    <2>1. CASE Inodes \subseteq w.inuse
      BY <2>1, FailGood DEF kvfs_create
    <2>2. CASE ~(Inodes \subseteq w.inuse)
      <3> DEFINE i == FreeInode(w)
                 ip == Owned(mode, i)
                 x == [w EXCEPT !.inuse = @ \cup {i}]
      <3>1. i \in Inodes /\ i \notin w.inuse /\ i \in Nat
        <4>1. Inodes \ w.inuse # {} /\ Inodes \ w.inuse \subseteq Nat
          BY <2>2 DEF Inodes
        <4>2. Min(Inodes \ w.inuse) \in Inodes \ w.inuse
          BY <4>1, LeastElement
        <4> QED
          BY <4>1, <4>2 DEF FreeInode
      <3> HIDE DEF i
      <3>2. i # NULL
        BY <3>1, ModesAssumption
      <3>3. ip \in Inode /\ ip.ino = i
        BY <3>1 DEF Owned, Inode
      <3>4. /\ x \in WalkRec /\ x.d = w.d /\ x.m = w.m /\ x.tree = w.tree /\ x.res = "ok"
            /\ x.inuse = w.inuse \cup {i}
        BY <1>1, <3>1 DEF WalkRec
      <3>5. kvfs_create(w, name, mode) = Link(x, name, FALSE, ip, mount[w.m].fs)
        BY <2>2, Zenon DEF kvfs_create, i
      <3> HIDE DEF x, ip
      <3>6. Good(Link(x, name, FALSE, ip, mount[w.m].fs))
        BY <3>1, <3>2, <3>3, <3>4, LinkGood
      <3> QED
        BY <3>5, <3>6
    <2> QED
      BY <2>1, <2>2
  <1> QED
    BY <1>2, <1>3, FailGood DEF Create, proc_create, devfs_create

(* A component of a path, in path_lookup and in make_path.                 *)
LEMMA LookupStepGood ==
    ASSUME Tree(dentry), NEW w, GoodDir(w), NEW name \in Names \cup {".", ".."}, NEW last \in BOOLEAN
    PROVE  /\ Good(LookupStep(w, name, last))
           /\ ~last => GoodDir(LookupStep(w, name, last))
  <1> DEFINE v == do_lookup(w, name)
  <1>1. Good(w) /\ w \in WalkRec
    BY GoodFacts DEF GoodDir
  <1>2. CASE w.res # "ok" \/ name = "."
    BY <1>1, <1>2 DEF LookupStep
  <1>3. CASE w.res = "ok" /\ name = ".."
    <2>1. LookupStep(w, name, last) = DotDot(w)
      BY <1>3 DEF LookupStep
    <2> QED
      BY <1>1, <1>3, <2>1, DotDotGood DEF GoodDir
  <1>4. CASE w.res = "ok" /\ name # "." /\ name # ".."
    <2> DEFINE cond == v.res = "ok" /\ (last \/ v.tree[v.d].isdir)
    <2>1. LookupStep(w, name, last) = FailUnless(v, cond)
      BY <1>4, Zenon DEF LookupStep
    <2>2. Good(v)
      BY <1>1, <1>4, LookupGood DEF GoodDir
    <2> HIDE DEF v
    <2>3. cond \in BOOLEAN
      OBVIOUS
    <2>4. ~last /\ cond => GoodDir(v)
      BY <2>2 DEF GoodDir
    <2> HIDE DEF cond
    <2>5. /\ Good(FailUnless(v, cond)) /\ (cond => FailUnless(v, cond) = v)
          /\ ~cond => FailUnless(v, cond).res = "failed"
      BY <2>2, <2>3, FailUnlessGood
    <2>6. ~last => GoodDir(FailUnless(v, cond))
      BY <2>4, <2>5 DEF GoodDir
    <2> QED
      BY <2>1, <2>5, <2>6
  <1> QED
    BY <1>2, <1>3, <1>4

LEMMA MakeStepGood ==
    ASSUME Tree(dentry), NEW w, GoodDir(w), NEW name \in Names \cup {".", ".."}, NEW last \in BOOLEAN,
           NEW dir \in BOOLEAN, NEW wantdir \in BOOLEAN, NEW mode \in Acls
    PROVE  /\ Good(MakeStep(w, name, last, dir, wantdir, mode))
           /\ ~last => GoodDir(MakeStep(w, name, last, dir, wantdir, mode))
  <1> DEFINE found == do_lookup(w, name)
             isdir == ~last \/ wantdir
             v == IF found.res = "failed" THEN Create(w, name, isdir, mode) ELSE found
             u == MakeStep(w, name, last, dir, wantdir, mode)
  <1>1. Good(w) /\ w \in WalkRec
    BY GoodFacts DEF GoodDir
  <1>2. CASE w.res # "ok"
    <2>1. u = w
      BY <1>2 DEF MakeStep
    <2> QED
      BY <1>1, <2>1
  <1>3. CASE w.res = "ok" /\ last /\ ~wantdir /\ (dir \/ name \in {".", ".."})
    <2>1. u = Fail(w)
      BY <1>3, Zenon DEF MakeStep
    <2> HIDE DEF u
    <2> QED
      BY <1>1, <1>3, <2>1, FailGood DEF u
  <1>4. CASE w.res = "ok" /\ ~(last /\ ~wantdir /\ (dir \/ name \in {".", ".."})) /\ name = "."
    <2>1. u = w
      BY <1>4, Zenon DEF MakeStep
    <2> QED
      BY <1>1, <2>1
  <1>5. CASE w.res = "ok" /\ ~(last /\ ~wantdir /\ (dir \/ name \in {".", ".."})) /\ name = ".."
    <2>1. u = DotDot(w)
      <3>1. name # "."
        BY <1>5
      <3> QED
        BY <1>5, <3>1, Zenon DEF MakeStep
    <2> HIDE DEF u
    <2> QED
      BY <1>1, <1>5, <2>1, DotDotGood DEF GoodDir, u
  <1>6. CASE w.res = "ok" /\ ~(last /\ ~wantdir /\ (dir \/ name \in {".", ".."}))
             /\ name # "." /\ name # ".."
    <2> DEFINE cond == v.res = "ok" /\ v.tree[v.d].isdir = isdir
    <2>1. u = FailUnless(v, cond)
      BY <1>6, Zenon DEF MakeStep
    <2>2. Good(v)
      <3>1. Good(found) /\ (found.res # "ok" => Hits(w, name) = {})
        BY <1>1, <1>6, LookupGood DEF GoodDir
      <3>2. isdir \in BOOLEAN
        OBVIOUS
      <3> HIDE DEF found, isdir
      <3>3. found.res = "failed" => Good(Create(w, name, isdir, mode))
        BY <1>1, <1>6, <3>1, <3>2, CreateGood DEF GoodDir
      <3> QED
        BY <3>1, <3>3
    <2> HIDE DEF v, u
    <2>3. cond \in BOOLEAN
      OBVIOUS
    <2>4. ~last /\ cond => GoodDir(v)
      BY <2>2 DEF GoodDir
    <2> HIDE DEF cond
    <2>5. /\ Good(FailUnless(v, cond)) /\ (cond => FailUnless(v, cond) = v)
          /\ ~cond => FailUnless(v, cond).res = "failed"
      BY <2>2, <2>3, FailUnlessGood
    <2>6. ~last => GoodDir(FailUnless(v, cond))
      BY <2>4, <2>5 DEF GoodDir
    <2> QED
      BY <2>1, <2>5, <2>6 DEF u
  <1> QED
    BY <1>2, <1>3, <1>4, <1>5, <1>6

(* The walks, of any number of components.                                 *)
IsLookupWalk(p, n, walk) ==
    walk = [i \in 0..n |-> IF i = 0 THEN Start ELSE LookupStep(walk[i - 1], p.names[i], i = n)]

LEMMA PathLookupWalk ==
    ASSUME NEW p, Len(p.names) \in Nat, NEW n, n = Len(p.names)
    PROVE  \E walk :
             /\ IsLookupWalk(p, n, walk)
             /\ path_lookup(p) =
                  FailUnless(walk[n], walk[n].res = "ok" /\ (p.dir => walk[n].tree[walk[n].d].isdir))
  <1> DEFINE IsWalk(k, g) ==
               g = [i \in 0..k |-> IF i = 0 THEN Start ELSE LookupStep(g[i - 1], p.names[i], i = n)]
             S == {k \in Nat : \E g : IsWalk(k, g)}
  <1>1. 0 \in S
    <2>1. IsWalk(0, [i \in 0..0 |-> Start])
      OBVIOUS
    <2> QED
      BY <2>1
  <1>2. ASSUME NEW k \in Nat, k \in S PROVE k + 1 \in S
    <2>1. PICK g : IsWalk(k, g)
      BY <1>2
    <2> DEFINE h == [i \in 0..(k + 1) |->
                       IF i = k + 1 THEN LookupStep(g[k], p.names[k + 1], k + 1 = n) ELSE g[i]]
    <2>2. ASSUME NEW i \in 0..(k + 1)
          PROVE  h[i] = IF i = 0 THEN Start ELSE LookupStep(h[i - 1], p.names[i], i = n)
      <3>1. CASE i = k + 1
        <4>1. i # 0 /\ i - 1 = k /\ k \in 0..(k + 1) /\ k # k + 1
          BY <3>1
        <4>2. h[k] = g[k]
          BY <4>1
        <4>3. h[i] = LookupStep(g[k], p.names[k + 1], k + 1 = n)
          BY <3>1
        <4> QED
          BY <3>1, <4>1, <4>2, <4>3
      <3>2. CASE i \in 0..k
        <4>1. g[i] = IF i = 0 THEN Start ELSE LookupStep(g[i - 1], p.names[i], i = n)
          BY <2>1, <3>2
        <4>2. h[i] = g[i]
          BY <3>2
        <4>3. i # 0 => h[i - 1] = g[i - 1]
          BY <3>2
        <4> QED
          BY <4>1, <4>2, <4>3
      <3> QED
        BY <3>1, <3>2
    <2>3. IsWalk(k + 1, h)
      <3>1. h = [i \in 0..(k + 1) |-> h[i]]
        OBVIOUS
      <3> HIDE DEF h
      <3> QED
        BY <2>2, <3>1
    <2> HIDE DEF IsWalk, h
    <2> QED
      BY <2>3
  <1>3. \E g : IsWalk(n, g)
    <2> HIDE DEF S
    <2>1. \A k \in Nat : k \in S
      BY <1>1, <1>2, SetInduction
    <2> QED
      BY <2>1 DEF S
  <1> DEFINE walk == CHOOSE g : IsWalk(n, g)
  <1>4. IsWalk(n, walk)
    BY <1>3
  <1>5. path_lookup(p) =
          FailUnless(walk[n], walk[n].res = "ok" /\ (p.dir => walk[n].tree[walk[n].d].isdir))
    BY DEF path_lookup
  <1> QED
    BY <1>4, <1>5 DEF IsLookupWalk

LEMMA MakePathWalk ==
    ASSUME NEW w0, NEW p, Len(p.names) \in Nat, NEW wantdir, NEW mode,
           NEW n, n = Len(p.names), n # 0
    PROVE  \E walk :
             /\ walk = [i \in 0..n |->
                          IF i = 0 THEN w0
                          ELSE MakeStep(walk[i - 1], p.names[i], i = n, p.dir, wantdir, mode)]
             /\ make_path(w0, p, wantdir, mode) = walk[n]
  <1> DEFINE IsWalk(k, g) ==
               g = [i \in 0..k |->
                      IF i = 0 THEN w0
                      ELSE MakeStep(g[i - 1], p.names[i], i = n, p.dir, wantdir, mode)]
             S == {k \in Nat : \E g : IsWalk(k, g)}
  <1>1. 0 \in S
    <2>1. IsWalk(0, [i \in 0..0 |-> w0])
      OBVIOUS
    <2> QED
      BY <2>1
  <1>2. ASSUME NEW k \in Nat, k \in S PROVE k + 1 \in S
    <2>1. PICK g : IsWalk(k, g)
      BY <1>2
    <2> DEFINE h == [i \in 0..(k + 1) |->
                       IF i = k + 1
                       THEN MakeStep(g[k], p.names[k + 1], k + 1 = n, p.dir, wantdir, mode)
                       ELSE g[i]]
    <2>2. ASSUME NEW i \in 0..(k + 1)
          PROVE  h[i] = IF i = 0 THEN w0
                     ELSE MakeStep(h[i - 1], p.names[i], i = n, p.dir, wantdir, mode)
      <3>1. CASE i = k + 1
        <4>1. i # 0 /\ i - 1 = k /\ k \in 0..(k + 1) /\ k # k + 1
          BY <3>1
        <4>2. h[k] = g[k]
          BY <4>1
        <4>3. h[i] = MakeStep(g[k], p.names[k + 1], k + 1 = n, p.dir, wantdir, mode)
          BY <3>1
        <4> QED
          BY <3>1, <4>1, <4>2, <4>3
      <3>2. CASE i \in 0..k
        <4>1. g[i] = IF i = 0 THEN w0
                     ELSE MakeStep(g[i - 1], p.names[i], i = n, p.dir, wantdir, mode)
          BY <2>1, <3>2
        <4>2. h[i] = g[i]
          BY <3>2
        <4>3. i # 0 => h[i - 1] = g[i - 1]
          BY <3>2
        <4> QED
          BY <4>1, <4>2, <4>3
      <3> QED
        BY <3>1, <3>2
    <2>3. IsWalk(k + 1, h)
      <3>1. h = [i \in 0..(k + 1) |-> h[i]]
        OBVIOUS
      <3> HIDE DEF h
      <3> QED
        BY <2>2, <3>1
    <2> HIDE DEF IsWalk, h
    <2> QED
      BY <2>3
  <1>3. \E g : IsWalk(n, g)
    <2> HIDE DEF S
    <2>1. \A k \in Nat : k \in S
      BY <1>1, <1>2, SetInduction
    <2> QED
      BY <2>1 DEF S
  <1> DEFINE walk == CHOOSE g : IsWalk(n, g)
  <1>4. IsWalk(n, walk)
    BY <1>3
  <1>5. make_path(w0, p, wantdir, mode) = walk[n]
    BY DEF make_path
  <1> QED
    BY <1>4, <1>5

LEMMA LookupWalkGood ==
    ASSUME Tree(dentry), GoodDir(Start), NEW p, p.names \in Seq(Names \cup {".", ".."}),
           NEW n, n = Len(p.names), NEW walk, IsLookupWalk(p, n, walk)
    PROVE  \A k \in 0..n : Good(walk[k]) /\ (k = n \/ GoodDir(walk[k]))
  <1>1. n \in Nat /\ \A i \in 1..n : p.names[i] \in Names \cup {".", ".."}
    BY ElementOfSeq
  <1> DEFINE S == {k \in Nat : k <= n => Good(walk[k]) /\ (k = n \/ GoodDir(walk[k]))}
  <1>2. walk = [i \in 0..n |-> IF i = 0 THEN Start ELSE LookupStep(walk[i - 1], p.names[i], i = n)]
    BY DEF IsLookupWalk
  <1>3. \A k \in 1..n : walk[k] = LookupStep(walk[k - 1], p.names[k], k = n)
    BY <1>1, <1>2
  <1>4. 0 \in S
    <2>1. walk[0] = Start
      BY <1>1, <1>2
    <2> QED
      BY <2>1 DEF GoodDir
  <1>5. ASSUME NEW k \in Nat, k \in S PROVE k + 1 \in S
    <2> SUFFICES ASSUME k + 1 <= n
                 PROVE  Good(walk[k + 1]) /\ (k + 1 = n \/ GoodDir(walk[k + 1]))
      OBVIOUS
    <2>1. GoodDir(walk[k])
      BY <1>1, <1>5
    <2>2. k + 1 \in 1..n /\ (k + 1) - 1 = k
      BY <1>1
    <2>3. walk[k + 1] = LookupStep(walk[k], p.names[k + 1], k + 1 = n)
      BY <1>3, <2>2
    <2>4. p.names[k + 1] \in Names \cup {".", ".."} /\ (k + 1 = n) \in BOOLEAN
      BY <1>1, <2>2
    <2>5. /\ Good(LookupStep(walk[k], p.names[k + 1], k + 1 = n))
          /\ ~(k + 1 = n) => GoodDir(LookupStep(walk[k], p.names[k + 1], k + 1 = n))
      BY <2>1, <2>4, LookupStepGood
    <2> QED
      BY <2>3, <2>5
  <1>6. \A k \in Nat : k \in S
    <2> HIDE DEF S
    <2> QED
      BY <1>4, <1>5, SetInduction
  <1> QED
    BY <1>1, <1>6

LEMMA PathLookupGood ==
    ASSUME Tree(dentry), GoodDir(Start), NEW p, p.names \in Seq(Names \cup {".", ".."}), p.dir \in BOOLEAN
    PROVE  Good(path_lookup(p))
  <1> DEFINE n == Len(p.names)
  <1>1. n \in Nat
    OBVIOUS
  <1>2. PICK walk :
          /\ IsLookupWalk(p, n, walk)
          /\ path_lookup(p) =
               FailUnless(walk[n], walk[n].res = "ok" /\ (p.dir => walk[n].tree[walk[n].d].isdir))
    BY <1>1, PathLookupWalk
  <1> HIDE DEF n
  <1>3. Good(walk[n])
    BY <1>1, <1>2, LookupWalkGood DEF n
  <1> QED
    BY <1>2, <1>3, FailUnlessGood

LEMMA MakePathGood ==
    ASSUME Tree(dentry), NEW w0, GoodDir(w0), w0.res = "ok",
           NEW p, p.names \in Seq(Names \cup {".", ".."}), p.dir \in BOOLEAN,
           NEW wantdir \in BOOLEAN, NEW mode \in Acls
    PROVE  Good(make_path(w0, p, wantdir, mode))
  <1> DEFINE n == Len(p.names)
  <1>1. n \in Nat /\ \A i \in 1..n : p.names[i] \in Names \cup {".", ".."}
    BY ElementOfSeq
  <1>2. CASE n = 0
    <2>1. make_path(w0, p, wantdir, mode) = FailUnless(w0, wantdir)
      BY <1>2, Zenon DEF make_path
    <2> QED
      BY <2>1, FailUnlessGood DEF GoodDir
  <1>3. CASE n # 0
    <2>1. PICK walk :
            /\ walk = [i \in 0..n |->
                         IF i = 0 THEN w0
                         ELSE MakeStep(walk[i - 1], p.names[i], i = n, p.dir, wantdir, mode)]
            /\ make_path(w0, p, wantdir, mode) = walk[n]
      BY <1>1, <1>3, MakePathWalk
    <2> HIDE DEF n
    <2> DEFINE S == {k \in Nat : k <= n => Good(walk[k]) /\ (k = n \/ GoodDir(walk[k]))}
    <2>2. \A k \in 1..n :
            walk[k] = MakeStep(walk[k - 1], p.names[k], k = n, p.dir, wantdir, mode)
      BY <1>1, <2>1
    <2>3. 0 \in S
      <3>1. walk[0] = w0
        BY <1>1, <2>1
      <3> QED
        BY <3>1 DEF GoodDir
    <2>4. ASSUME NEW k \in Nat, k \in S PROVE k + 1 \in S
      <3> SUFFICES ASSUME k + 1 <= n
                   PROVE  Good(walk[k + 1]) /\ (k + 1 = n \/ GoodDir(walk[k + 1]))
        OBVIOUS
      <3>1. GoodDir(walk[k])
        BY <1>1, <2>4
      <3>2. k + 1 \in 1..n /\ (k + 1) - 1 = k
        BY <1>1
      <3> DEFINE u == MakeStep(walk[k], p.names[k + 1], k + 1 = n, p.dir, wantdir, mode)
      <3>3. walk[k + 1] = u
        BY <2>2, <3>2
      <3>4. p.names[k + 1] \in Names \cup {".", ".."} /\ (k + 1 = n) \in BOOLEAN
        BY <1>1, <3>2
      <3>5. Good(u) /\ (~(k + 1 = n) => GoodDir(u))
        BY <3>1, <3>4, MakeStepGood
      <3> QED
        BY <3>3, <3>5
    <2>5. Good(walk[n])
      <3>1. \A k \in Nat : k \in S
        <4> HIDE DEF S
        <4> QED
          BY <2>3, <2>4, SetInduction
      <3> QED
        BY <1>1, <3>1
    <2> QED
      BY <2>1, <2>5
  <1> QED
    BY <1>2, <1>3

LEMMA AgainGood ==
    ASSUME NEW w, Tree(w.tree), Mounts(w.tree, mount), w \in WalkRec,
           Sound(w.tree, w.inuse, mount, mnt_list), Grown(dentry, w.tree)
    PROVE  GoodDir(Again(w)) /\ Again(w).res = "ok"
  <1> DEFINE t == w.tree
             v == Again(w)
  <1>1. /\ v \in WalkRec /\ v.d = 1 /\ v.m = 1 /\ v.tree = t /\ v.inuse = w.inuse /\ v.res = "ok"
    BY DEF Again, WalkRec, root_dentry, root_mnt
  <1> HIDE DEF v
  <1>2. 1 \in DOMAIN t /\ 1 \in DOMAIN mount /\ t[1].parent = 1
    BY TreeTypes, OneMount DEF Tree, root_dentry
  <1>3. t[1].isdir /\ t[1].fs = mount[1].fs
    BY <1>2 DEF Tree, Mounts
  <1>4. OnTheWay(v)
    <2>1. Way(t, mount, mnt_list, {1}) /\ 1 \in {1} /\ mount[1].root \in {1}
      BY <1>2 DEF Way, Mounts
    <2> QED
      BY <1>1, <1>2, <2>1 DEF OnTheWay
  <1> HIDE DEF t
  <1>5. Enters(t, 1)
    BY <1>2 DEF Enters
  <1>6. Good(v)
    <2>1. Sound(t, v.inuse, mount, mnt_list) /\ Grown(dentry, t)
      BY <1>1 DEF t
    <2> QED
      BY <1>1, <1>2, <1>3, <1>4, <1>5, <2>1 DEF Good
  <1> QED
    BY <1>1, <1>3, <1>6 DEF GoodDir, v

LEMMA StartGood ==
    ASSUME NamespaceInv
    PROVE  Tree(dentry) /\ GoodDir(Start) /\ Start.res = "ok"
  <1>1. Sound(dentry, kvfs_inuse, mount, mnt_list)
    BY DEF NamespaceInv
  <1>2. Tree(dentry) /\ Mounts(dentry, mount) /\ kvfs_inuse \subseteq Nat
    BY <1>1 DEF Sound, Files, Inodes
  <1>3. /\ Start \in WalkRec /\ Start.tree = dentry /\ Start.inuse = kvfs_inuse
        /\ Start.res = "ok" /\ Start.d = root_dentry /\ Start.m = root_mnt
    <2>1. dentry \in Seq(DentryRec) /\ kvfs_inuse \in SUBSET Nat
      BY <1>2 DEF Tree
    <2> QED
      BY <2>1 DEF Start, WalkRec, root_dentry, root_mnt
  <1>4. Grown(dentry, dentry)
    BY <1>2, TreeTypes DEF Grown
  <1>5. Again(Start) = Start
    BY <1>3 DEF Again, WalkRec
  <1>6. GoodDir(Again(Start)) /\ Again(Start).res = "ok"
    BY <1>1, <1>2, <1>3, <1>4, AgainGood
  <1> QED
    BY <1>2, <1>5, <1>6

(* The walks of the operations.                                            *)
LEMMA WalkGood ==
    ASSUME NamespaceInv, NEW p \in Paths
    PROVE  /\ Good(path_lookup(p))
           /\ \A mode \in Acls : Good(make_path(Start, p, FALSE, mode))
           /\ \A mode \in Acls : Good(make_path(Again(path_lookup(p)), p, TRUE, mode))
  <1>1. p.names \in Seq(Names \cup {".", ".."}) /\ p.dir \in BOOLEAN
    BY NamesAssumption
  <1>2. Good(path_lookup(p))
    BY <1>1, StartGood, PathLookupGood
  <1>3. ASSUME NEW mode \in Acls PROVE Good(make_path(Start, p, FALSE, mode))
    BY <1>1, StartGood, MakePathGood
  <1>4. ASSUME NEW mode \in Acls PROVE Good(make_path(Again(path_lookup(p)), p, TRUE, mode))
    <2> DEFINE w == path_lookup(p)
    <2>1. GoodDir(Again(w)) /\ Again(w).res = "ok"
      <3> HIDE DEF w
      <3>1. Sound(w.tree, w.inuse, mount, mnt_list)
        BY <1>2 DEF Good, w
      <3>2. Tree(w.tree) /\ Mounts(w.tree, mount) /\ w \in WalkRec /\ Grown(dentry, w.tree)
        BY <1>2, GoodFacts DEF w
      <3> QED
        BY <3>1, <3>2, AgainGood
    <2> QED
      BY <1>1, <2>1, StartGood, MakePathGood
  <1> QED
    BY <1>2, <1>3, <1>4

-----------------------------------------------------------------------------
(* A new mount.                                                            *)

(* Tree u is tree t with a new root, and p covered once more.              *)
Mounted(t, u, p, fs) ==
    /\ u \in Seq(DentryRec) /\ Len(u) = Len(t) + 1
    /\ \A d \in DOMAIN t :
         /\ u[d].name = t[d].name /\ u[d].inode = t[d].inode /\ u[d].parent = t[d].parent
         /\ u[d].subdirs = t[d].subdirs /\ u[d].isdir = t[d].isdir /\ u[d].fs = t[d].fs
         /\ u[d].mounted = IF d = p THEN t[d].mounted + 1 ELSE t[d].mounted
    /\ u[Len(u)] = RootOf(fs, Len(u))

LEMMA NewRoot ==
    ASSUME NEW t, t \in Seq(DentryRec), NEW p \in DOMAIN t, NEW fs \in FsObjects, NEW u,
           u = Append([t EXCEPT ![p].mounted = @ + 1], RootOf(fs, Len(t) + 1))
    PROVE  Mounted(t, u, p, fs)
  <1> DEFINE k == [t EXCEPT ![p].mounted = @ + 1]
             old == t[p].mounted + 1
             root == RootOf(fs, Len(t) + 1)
  <1>1. p \in 1..Len(t) /\ DOMAIN t = 1..Len(t) /\ Len(t) \in Nat
    OBVIOUS
  <1>2. t[p] \in DentryRec
    BY <1>1, ElementOfSeq
  <1>3. old \in Nat
    BY <1>2 DEF DentryRec
  <1>4. /\ k \in Seq(DentryRec) /\ Len(k) = Len(t)
        /\ \A e \in 1..Len(t) : k[e] = IF e = p THEN [t[e] EXCEPT !.mounted = old] ELSE t[e]
    <2>1. [t[p] EXCEPT !.mounted = old] \in DentryRec
      <3> HIDE DEF old
      <3> QED
        BY <1>2, <1>3 DEF DentryRec
    <2>2. k = [t EXCEPT ![p] = [t[p] EXCEPT !.mounted = old]]
      BY <1>1
    <2> HIDE DEF k, old
    <2> QED
      BY <1>1, <2>1, <2>2, ExceptSeq
  <1>5. root \in DentryRec
    <2>1. Owned(RootAcl(fs), NULL) \in Inode
      BY DEF Owned, RootAcl, Inode, ReadAll, Acl, Acls
    <2>2. <<>> \in Seq(Nat)
      OBVIOUS
    <2> QED
      BY <1>1, <2>1, <2>2 DEF RootOf, DentryRec
  <1>6. /\ u \in Seq(DentryRec) /\ Len(u) = Len(t) + 1
        /\ \A e \in 1..Len(t) : u[e] = k[e]
        /\ u[Len(t) + 1] = root
    <2> HIDE DEF k, root
    <2>1. u = Append(k, root)
      BY DEF k, root
    <2> QED
      BY <1>4, <1>5, <2>1, AppendProperties
  <1>7. ASSUME NEW d \in DOMAIN t
        PROVE  /\ u[d].name = t[d].name /\ u[d].inode = t[d].inode /\ u[d].parent = t[d].parent
               /\ u[d].subdirs = t[d].subdirs /\ u[d].isdir = t[d].isdir /\ u[d].fs = t[d].fs
               /\ u[d].mounted = IF d = p THEN t[d].mounted + 1 ELSE t[d].mounted
    <2>1. t[d] \in DentryRec
      BY <1>1, ElementOfSeq
    <2>2. u[d] = IF d = p THEN [t[d] EXCEPT !.mounted = old] ELSE t[d]
      BY <1>1, <1>4, <1>6
    <2> QED
      BY <2>1, <2>2 DEF DentryRec
  <1> HIDE DEF root
  <1> QED
    BY <1>6, <1>7 DEF Mounted, root

(* The parts of the invariant, when no file system is mounted twice.       *)
LEMMA NewRootTree ==
    ASSUME NEW t, NEW u, Tree(t), NEW p \in DOMAIN t, t[p].isdir, NEW fs, Mounted(t, u, p, fs)
    PROVE  Tree(u)
  <1> DEFINE n == Len(t) + 1
  <1>1. /\ DOMAIN t = 1..Len(t) /\ Len(t) \in Nat \ {0} /\ 1 \in DOMAIN t
        /\ \A d \in DOMAIN t : d \in Nat /\ t[d].parent \in DOMAIN t /\ t[d].mounted \in Nat
    BY TreeTypes DEF root_dentry
  <1>2. u \in Seq(DentryRec) /\ Len(u) = n /\ DOMAIN u = DOMAIN t \cup {n} /\ n \notin DOMAIN t
    <2>1. u \in Seq(DentryRec) /\ Len(u) = n
      BY DEF Mounted
    <2>2. DOMAIN u = 1..n
      BY <2>1
    <2> QED
      BY <1>1, <2>1, <2>2
  <1>3. \A d \in DOMAIN t :
           /\ u[d].name = t[d].name /\ u[d].parent = t[d].parent /\ u[d].subdirs = t[d].subdirs
           /\ u[d].isdir = t[d].isdir /\ u[d].fs = t[d].fs
           /\ u[d].mounted = IF d = p THEN t[d].mounted + 1 ELSE t[d].mounted
    BY DEF Mounted
  <1>4. u[n].parent = n /\ u[n].isdir /\ DOMAIN u[n].subdirs = {} /\ n \in Nat
    BY <1>1, <1>2 DEF Mounted, RootOf
  <1>5. \A d \in DOMAIN t : \A i \in DOMAIN t[d].subdirs :
           t[d].subdirs[i] \in DOMAIN t /\ t[d].subdirs[i] # d /\ t[t[d].subdirs[i]].parent = d
    BY DEF Tree
  <1>6. \A d \in DOMAIN t : \A i, j \in DOMAIN t[d].subdirs :
           t[t[d].subdirs[i]].name = t[t[d].subdirs[j]].name => i = j
    BY DEF Tree
  <1>7. \A d \in DOMAIN t :
           /\ t[d].parent \in 1..d /\ t[t[d].parent].isdir /\ t[t[d].parent].fs = t[d].fs
           /\ t[d].mounted > 0 => t[d].isdir
    BY DEF Tree
  <1>8. \A d \in DOMAIN t : t[d].parent # d =>
           \E i \in DOMAIN t[t[d].parent].subdirs : t[t[d].parent].subdirs[i] = d
    BY DEF Tree
  <1> HIDE DEF n
  <1>9. \A d \in DOMAIN u :
           /\ u[d].parent \in 1..d /\ u[u[d].parent].isdir /\ u[u[d].parent].fs = u[d].fs
           /\ u[d].mounted > 0 => u[d].isdir
    <2>1. n \in 1..n
      BY <1>1, <1>4 DEF n
    <2> QED
      BY <1>1, <1>2, <1>3, <1>4, <1>7, <2>1
  <1>10. \A d \in DOMAIN u : \A i \in DOMAIN u[d].subdirs :
           u[d].subdirs[i] \in DOMAIN u /\ u[d].subdirs[i] # d /\ u[u[d].subdirs[i]].parent = d
    BY <1>2, <1>3, <1>4, <1>5
  <1>11. \A d \in DOMAIN u : \A i, j \in DOMAIN u[d].subdirs :
           u[u[d].subdirs[i]].name = u[u[d].subdirs[j]].name => i = j
    BY <1>2, <1>3, <1>4, <1>5, <1>6
  <1>12. ASSUME NEW d \in DOMAIN u, u[d].parent # d
         PROVE  \E i \in DOMAIN u[u[d].parent].subdirs : u[u[d].parent].subdirs[i] = d
    <2>1. d \in DOMAIN t /\ u[d].parent = t[d].parent /\ t[d].parent \in DOMAIN t
      BY <1>1, <1>2, <1>3, <1>4, <1>12
    <2>2. u[u[d].parent].subdirs = t[t[d].parent].subdirs
      BY <1>3, <2>1
    <2> QED
      BY <1>8, <1>12, <2>1, <2>2
  <1>13. Len(u) >= 1 /\ u[1].parent = 1
    BY <1>1, <1>2, <1>3 DEF Tree, n
  <1> QED
    BY <1>2, <1>9, <1>10, <1>11, <1>12, <1>13 DEF Tree

(* The mounts mnt2 are those of mnt, and one more on p, inside m.          *)
NewMount(mnt, mnt2, root, p, m, fs) ==
    mnt2 = Append(mnt, [root |-> root, mountpoint |-> p, parent |-> m, fs |-> fs])

(* What the list of mounts needs of that.                                  *)
Longer(mnt, mnt2, p) ==
    /\ DOMAIN mnt = 1..Len(mnt) /\ Len(mnt) \in Nat
    /\ DOMAIN mnt2 = DOMAIN mnt \cup {Len(mnt) + 1} /\ Len(mnt2) = Len(mnt) + 1
    /\ \A k \in DOMAIN mnt : mnt2[k] = mnt[k]
    /\ mnt2[Len(mnt) + 1].mountpoint = p

LEMMA NewRootMounts ==
    ASSUME NEW t, NEW u, Tree(t), NEW mnt, Mounts(t, mnt), NEW p \in DOMAIN t, NEW m \in DOMAIN mnt,
           t[p].fs = mnt[m].fs, NEW fs \in FsObjects, \A k \in DOMAIN mnt : mnt[k].fs # fs,
           Mounted(t, u, p, fs), NEW mnt2,
           NewMount(mnt, mnt2, Len(t) + 1, p, m, fs)
    PROVE  Mounts(u, mnt2) /\ Longer(mnt, mnt2, p)
  <1> DEFINE n == Len(t) + 1
             l == Len(mnt) + 1
             new == [root |-> n, mountpoint |-> p, parent |-> m, fs |-> fs]
  <1>1. /\ DOMAIN t = 1..Len(t) /\ Len(t) \in Nat \ {0}
        /\ \A d \in DOMAIN t : d \in Nat
    BY TreeTypes
  <1>2. Len(u) = n /\ DOMAIN u = DOMAIN t \cup {n} /\ n \notin DOMAIN t
    <2>1. u \in Seq(DentryRec) /\ Len(u) = n
      BY DEF Mounted
    <2>2. DOMAIN u = 1..n
      BY <2>1
    <2> QED
      BY <1>1, <2>1, <2>2
  <1>3. \A d \in DOMAIN t : u[d].parent = t[d].parent /\ u[d].fs = t[d].fs
    BY DEF Mounted
  <1>4. u[n].parent = n /\ u[n].fs = fs
    BY <1>2 DEF Mounted, RootOf
  <1>5. mnt \in Seq(MountRec) /\ Len(mnt) >= 1 /\ DOMAIN mnt = 1..Len(mnt) /\ Len(mnt) \in Nat
    <2>1. mnt \in Seq(MountRec) /\ Len(mnt) >= 1
      BY DEF Mounts
    <2> QED
      BY <2>1
  <1>6. new \in MountRec
    BY <1>1, <1>5 DEF MountRec
  <1>7. /\ mnt2 \in Seq(MountRec) /\ Len(mnt2) = l
        /\ \A k \in DOMAIN mnt : mnt2[k] = mnt[k]
        /\ mnt2[l] = new
    <2>1. mnt2 = Append(mnt, new)
      BY DEF NewMount
    <2> HIDE DEF new
    <2> QED
      BY <1>5, <1>6, <2>1, AppendProperties
  <1>8. /\ mnt2[l].root = n /\ mnt2[l].mountpoint = p /\ mnt2[l].parent = m /\ mnt2[l].fs = fs
    BY <1>7
  <1>9. DOMAIN mnt2 = DOMAIN mnt \cup {l} /\ l \notin DOMAIN mnt /\ 1 \in DOMAIN mnt /\ l # 1
    <2>1. DOMAIN mnt2 = 1..l
      BY <1>7
    <2> QED
      BY <1>5, <2>1
  <1>10. p < n
    BY <1>1
  <1> HIDE DEF n, l, new
  <1>11. /\ mnt[1].root = 1 /\ mnt[1].mountpoint = 1 /\ mnt[1].fs = kvfs /\ mnt[1].parent = NULL
         /\ \A k \in DOMAIN mnt :
              /\ mnt[k].root \in DOMAIN t /\ mnt[k].mountpoint \in DOMAIN t
              /\ t[mnt[k].root].parent = mnt[k].root
              /\ t[mnt[k].root].fs = mnt[k].fs
         /\ \A k \in DOMAIN mnt \ {1} :
              /\ mnt[k].parent \in DOMAIN mnt
              /\ mnt[k].mountpoint < mnt[k].root
              /\ t[mnt[k].mountpoint].fs = mnt[mnt[k].parent].fs
         /\ \A k, j \in DOMAIN mnt : mnt[k].fs = mnt[j].fs => k = j
         /\ \A d \in DOMAIN t : t[d].parent = d => \E k \in DOMAIN mnt : mnt[k].root = d
    BY DEF Mounts
  <1>12. ASSUME NEW k \in DOMAIN mnt2
         PROVE  /\ mnt2[k].root \in DOMAIN u /\ mnt2[k].mountpoint \in DOMAIN u
                /\ u[mnt2[k].root].parent = mnt2[k].root
                /\ u[mnt2[k].root].fs = mnt2[k].fs
                /\ k # 1 => /\ mnt2[k].parent \in DOMAIN mnt2
                            /\ mnt2[k].mountpoint < mnt2[k].root
                            /\ u[mnt2[k].mountpoint].fs = mnt2[mnt2[k].parent].fs
    <2>1. CASE k = l
      BY <1>2, <1>3, <1>4, <1>7, <1>8, <1>9, <1>10, <2>1
    <2>2. CASE k \in DOMAIN mnt
      <3>1. mnt2[k] = mnt[k]
        BY <1>7, <2>2
      <3>2. k # 1 => mnt2[mnt[k].parent] = mnt[mnt[k].parent]
        BY <1>7, <1>11, <2>2
      <3>3. /\ mnt[k].root \in DOMAIN t /\ mnt[k].mountpoint \in DOMAIN t
            /\ t[mnt[k].root].parent = mnt[k].root
            /\ t[mnt[k].root].fs = mnt[k].fs
        BY <1>11, <2>2
      <3>4. k # 1 => /\ mnt[k].parent \in DOMAIN mnt
                     /\ mnt[k].mountpoint < mnt[k].root
                     /\ t[mnt[k].mountpoint].fs = mnt[mnt[k].parent].fs
        BY <1>11, <2>2
      <3> QED
        BY <1>2, <1>3, <1>9, <3>1, <3>2, <3>3, <3>4
    <2> QED
      BY <1>9, <2>1, <2>2
  <1>13. \A k, j \in DOMAIN mnt2 : mnt2[k].fs = mnt2[j].fs => k = j
    BY <1>7, <1>8, <1>9, <1>11
  <1>14. ASSUME NEW d \in DOMAIN u, u[d].parent = d PROVE \E k \in DOMAIN mnt2 : mnt2[k].root = d
    <2>1. CASE d = n
      BY <1>8, <1>9, <2>1
    <2>2. CASE d \in DOMAIN t
      <3>1. PICK k \in DOMAIN mnt : mnt[k].root = d
        BY <1>3, <1>11, <1>14, <2>2
      <3>2. k \in DOMAIN mnt2 /\ mnt2[k] = mnt[k]
        BY <1>7, <1>9
      <3> QED
        BY <3>1, <3>2
    <2> QED
      BY <1>2, <2>1, <2>2
  <1>15. Len(mnt2) >= 1
    BY <1>5, <1>7 DEF l
  <1>16. mnt2[1].root = 1 /\ mnt2[1].mountpoint = 1 /\ mnt2[1].fs = kvfs /\ mnt2[1].parent = NULL
    BY <1>7, <1>9, <1>11
  <1>17. Mounts(u, mnt2)
    BY <1>7, <1>12, <1>13, <1>14, <1>15, <1>16 DEF Mounts
  <1> QED
    BY <1>5, <1>7, <1>8, <1>9, <1>17 DEF l, Longer

(* The new mount comes first in the list, and is counted once more.        *)
LEMMA NewRootExact ==
    ASSUME NEW t, NEW u, Tree(t), NEW mnt, NEW mnt2, Mounts(t, mnt), NEW list, List(list, mnt),
           Exact(t, mnt, list), NEW p \in DOMAIN t, NEW fs, Mounted(t, u, p, fs),
           Longer(mnt, mnt2, p),
           NEW list2, list2 = <<Len(mnt) + 1>> \o list
    PROVE  List(list2, mnt2) /\ Exact(u, mnt2, list2)
  <1> DEFINE n == Len(t) + 1
             l == Len(mnt) + 1
  <1>0. /\ DOMAIN mnt = 1..Len(mnt) /\ Len(mnt) \in Nat /\ DOMAIN mnt2 = DOMAIN mnt \cup {l}
        /\ \A k \in DOMAIN mnt : mnt2[k] = mnt[k]
        /\ mnt2[l].mountpoint = p
    BY DEF Longer
  <1>1. list \in Seq(DOMAIN mnt) /\ DOMAIN list = 1..Len(list) /\ Len(list) \in Nat
    <2>1. list \in Seq(DOMAIN mnt)
      BY DEF List
    <2> QED
      BY <2>1
  <1>2. l \notin DOMAIN mnt
    BY <1>0
  <1>3. /\ list2 \in Seq(DOMAIN mnt2) /\ DOMAIN list2 = 1..(Len(list) + 1) /\ list2[1] = l
        /\ \A i \in 2..(Len(list) + 1) : i - 1 \in DOMAIN list /\ list2[i] = list[i - 1]
    <2>1. list \in Seq(DOMAIN mnt2) /\ <<l>> \in Seq(DOMAIN mnt2) /\ Len(<<l>>) = 1 /\ <<l>>[1] = l
      <3>1. \A i \in 1..Len(list) : list[i] \in DOMAIN mnt
        BY <1>1, ElementOfSeq
      <3>2. l \in DOMAIN mnt2 /\ DOMAIN mnt \subseteq DOMAIN mnt2
        BY <1>0
      <3> HIDE DEF l
      <3> QED
        BY <1>1, <3>1, <3>2
    <2> HIDE DEF l
    <2>2. /\ list2 \in Seq(DOMAIN mnt2) /\ Len(list2) = Len(<<l>>) + Len(list)
          /\ \A i \in 1..(Len(<<l>>) + Len(list)) :
               list2[i] = IF i <= Len(<<l>>) THEN <<l>>[i] ELSE list[i - Len(<<l>>)]
      BY <2>1, ConcatProperties DEF l
    <2> QED
      BY <1>1, <2>1, <2>2
  <1>4. \A i \in DOMAIN list : list[i] \in DOMAIN mnt
    BY <1>1, ElementOfSeq
  <1> HIDE DEF l
  <1>5. Range(list2) = Range(list) \cup {l}
    <2>1. ASSUME NEW k \in Range(list2) PROVE k \in Range(list) \cup {l}
      <3>1. PICK i \in 1..(Len(list) + 1) : list2[i] = k
        BY <1>3, <2>1 DEF Range
      <3>2. i = 1 \/ i \in 2..(Len(list) + 1)
        BY <1>1
      <3> QED
        BY <1>3, <3>1, <3>2 DEF Range
    <2>2. ASSUME NEW k \in Range(list) PROVE k \in Range(list2)
      <3>1. PICK i \in DOMAIN list : list[i] = k
        BY <2>2 DEF Range
      <3>2. i + 1 \in 2..(Len(list) + 1) /\ (i + 1) - 1 = i /\ i + 1 \in 1..(Len(list) + 1)
        BY <1>1
      <3>3. list2[i + 1] = k /\ i + 1 \in DOMAIN list2
        BY <1>3, <3>1, <3>2
      <3> QED
        BY <3>3 DEF Range
    <2>3. l \in Range(list2)
      <3>1. 1 \in DOMAIN list2
        BY <1>1, <1>3
      <3> QED
        BY <1>3, <3>1 DEF Range
    <2> QED
      BY <2>1, <2>2, <2>3
  <1>6. List(list2, mnt2)
    <2>1. ASSUME NEW i \in DOMAIN list2, NEW j \in DOMAIN list2, list2[i] = list2[j] PROVE i = j
      <3>1. i \in Int /\ j \in Int /\ (i = 1 \/ i \in 2..(Len(list) + 1)) /\ (j = 1 \/ j \in 2..(Len(list) + 1))
        BY <1>1, <1>3
      <3>2. \A k, m \in DOMAIN list : list[k] = list[m] => k = m
        BY DEF List
      <3>3. CASE i = 1 \/ j = 1
        BY <1>2, <1>3, <1>4, <2>1, <3>1, <3>3
      <3>4. CASE i # 1 /\ j # 1
        <4>1. i - 1 \in DOMAIN list /\ j - 1 \in DOMAIN list /\ list[i - 1] = list[j - 1]
          BY <1>3, <2>1, <3>1, <3>4
        <4>2. i - 1 = j - 1
          BY <3>2, <4>1
        <4> QED
          BY <3>1, <4>2
      <3> QED
        BY <3>3, <3>4
    <2>2. \E i \in DOMAIN list2 : list2[i] = 1
      <3>1. 1 \in Range(list)
        BY DEF List, Range
      <3>2. 1 \in Range(list2)
        BY <1>5, <3>1
      <3> QED
        BY <3>2 DEF Range
    <2> QED
      BY <1>3, <2>1, <2>2 DEF List
  <1>7. /\ DOMAIN t = 1..Len(t) /\ Len(t) \in Nat \ {0}
        /\ \A d \in DOMAIN t : t[d].mounted \in Nat
    BY TreeTypes
  <1>8. u \in Seq(DentryRec) /\ Len(u) = n /\ DOMAIN u = DOMAIN t \cup {n} /\ n \notin DOMAIN t
    <2>1. u \in Seq(DentryRec) /\ Len(u) = n
      BY DEF Mounted
    <2>2. DOMAIN u = 1..n
      BY <2>1
    <2> QED
      BY <1>7, <2>1, <2>2
  <1>9. u[n].mounted = 0
    BY <1>8 DEF Mounted, RootOf
  <1>10. \A d \in DOMAIN t : u[d].mounted = IF d = p THEN t[d].mounted + 1 ELSE t[d].mounted
    BY DEF Mounted
  <1> HIDE DEF n
  <1>11. \A m \in Range(list) : m \in DOMAIN mnt /\ m # l /\ mnt2[m].mountpoint = mnt[m].mountpoint
                                /\ mnt[m].mountpoint \in DOMAIN t
    BY <1>0, <1>2, <1>4 DEF Range, Mounts
  <1>12. \A d : Covering(d, mnt2, list2) =
                   IF d = p THEN Covering(d, mnt, list) \cup {l} ELSE Covering(d, mnt, list)
    BY <1>0, <1>5, <1>11 DEF Covering
  <1>13. \A d : l \notin Covering(d, mnt, list) /\ IsFiniteSet(Covering(d, mnt, list))
    <2> SUFFICES ASSUME NEW d PROVE l \notin Covering(d, mnt, list) /\ IsFiniteSet(Covering(d, mnt, list))
      OBVIOUS
    <2>1. Covering(d, mnt, list) \subseteq DOMAIN mnt
      BY <1>11 DEF Covering
    <2>2. IsFiniteSet(DOMAIN mnt)
      <3>1. IsFiniteSet(1..Len(mnt))
        BY <1>0, FS_Interval
      <3> QED
        BY <1>0, <3>1
    <2> QED
      BY <1>2, <2>1, <2>2, FS_Subset
  <1>14. ASSUME NEW d \in DOMAIN u \ {root_dentry}
         PROVE  u[d].mounted = Cardinality(Covering(d, mnt2, list2))
    <2>1. CASE d = n
      <3>1. Covering(d, mnt, list) = {} /\ d # p
        BY <1>8, <1>11, <2>1 DEF Covering
      <3> QED
        BY <1>9, <1>12, <2>1, <3>1, FS_EmptySet
    <2>2. CASE d \in DOMAIN t
      <3>1. t[d].mounted = Cardinality(Covering(d, mnt, list))
        BY <1>14, <2>2 DEF Exact
      <3>2. Cardinality(Covering(d, mnt, list) \cup {l}) = Cardinality(Covering(d, mnt, list)) + 1
        BY <1>13, FS_AddElement
      <3> QED
        BY <1>10, <1>12, <2>2, <3>1, <3>2
    <2> QED
      BY <1>8, <2>1, <2>2
  <1> QED
    BY <1>6, <1>14 DEF Exact

LEMMA NewRootFiles ==
    ASSUME NEW t, NEW u, Tree(t), NEW inuse, Files(t, inuse), Once(t), NEW p, NEW fs,
           Mounted(t, u, p, fs), t[p].parent # p => t[p].mounted = 0
    PROVE  Files(u, inuse) /\ Once(u)
  <1> DEFINE n == Len(t) + 1
  <1>1. DOMAIN t = 1..Len(t) /\ Len(t) \in Nat \ {0}
    BY TreeTypes
  <1>2. u \in Seq(DentryRec) /\ Len(u) = n /\ DOMAIN u = DOMAIN t \cup {n} /\ n \notin DOMAIN t
    <2>1. u \in Seq(DentryRec) /\ Len(u) = n
      BY DEF Mounted
    <2>2. DOMAIN u = 1..n
      BY <2>1
    <2> QED
      BY <1>1, <2>1, <2>2
  <1>3. \A d \in DOMAIN t : u[d].inode = t[d].inode
    BY DEF Mounted
  <1>4. u[n].inode.ino = NULL /\ u[n].mounted = 0
    BY <1>2 DEF Mounted, RootOf, Owned
  <1> HIDE DEF n
  <1>5. /\ \A d \in DOMAIN u : u[d].inode.ino # NULL => u[d].inode.ino \in inuse
        /\ \A i \in inuse : \E d \in DOMAIN u : u[d].inode.ino = i
        /\ \A d, e \in DOMAIN u :
             u[d].inode.ino = u[e].inode.ino /\ u[d].inode.ino # NULL => d = e
    BY <1>2, <1>3, <1>4 DEF Files
  <1>6. Once(u)
    <2>1. \A d \in DOMAIN t :
            /\ u[d].parent = t[d].parent
            /\ u[d].mounted = IF d = p THEN t[d].mounted + 1 ELSE t[d].mounted
      BY DEF Mounted
    <2> QED
      BY <1>2, <1>4, <2>1 DEF Once
  <1> QED
    BY <1>5, <1>6 DEF Files

-----------------------------------------------------------------------------
(* The end of a mount.                                                     *)

(* Tree u is tree t with p covered once less.                              *)
Unmounted(t, u, p) ==
    /\ u \in Seq(DentryRec) /\ Len(u) = Len(t)
    /\ \A d \in DOMAIN t :
         /\ u[d].name = t[d].name /\ u[d].inode = t[d].inode /\ u[d].parent = t[d].parent
         /\ u[d].subdirs = t[d].subdirs /\ u[d].isdir = t[d].isdir /\ u[d].fs = t[d].fs
         /\ u[d].mounted = IF d = p THEN t[d].mounted - 1 ELSE t[d].mounted

LEMMA Uncovered ==
    ASSUME NEW t, t \in Seq(DentryRec), NEW p \in DOMAIN t, t[p].mounted > 0, NEW u,
           u = [t EXCEPT ![p].mounted = Unmarked(@)]
    PROVE  Unmounted(t, u, p)
  <1> DEFINE old == t[p].mounted - 1
  <1>1. p \in 1..Len(t) /\ DOMAIN t = 1..Len(t)
    OBVIOUS
  <1>2. t[p] \in DentryRec
    BY <1>1, ElementOfSeq
  <1>3. old \in Nat
    BY <1>2 DEF DentryRec
  <1>4. /\ u \in Seq(DentryRec) /\ Len(u) = Len(t)
        /\ \A e \in 1..Len(t) : u[e] = IF e = p THEN [t[e] EXCEPT !.mounted = old] ELSE t[e]
    <2>1. [t[p] EXCEPT !.mounted = old] \in DentryRec
      <3> HIDE DEF old
      <3> QED
        BY <1>2, <1>3 DEF DentryRec
    <2>2. u = [t EXCEPT ![p] = [t[p] EXCEPT !.mounted = old]]
      BY <1>1 DEF Unmarked
    <2> HIDE DEF old
    <2> QED
      BY <1>1, <2>1, <2>2, ExceptSeq
  <1>5. ASSUME NEW d \in DOMAIN t
        PROVE  /\ u[d].name = t[d].name /\ u[d].inode = t[d].inode /\ u[d].parent = t[d].parent
               /\ u[d].subdirs = t[d].subdirs /\ u[d].isdir = t[d].isdir /\ u[d].fs = t[d].fs
               /\ u[d].mounted = IF d = p THEN t[d].mounted - 1 ELSE t[d].mounted
    <2>1. t[d] \in DentryRec
      BY <1>1, ElementOfSeq
    <2>2. u[d] = IF d = p THEN [t[d] EXCEPT !.mounted = old] ELSE t[d]
      BY <1>1, <1>4
    <2> QED
      BY <2>1, <2>2 DEF DentryRec
  <1> QED
    BY <1>4, <1>5 DEF Unmounted

LEMMA UncoveredTree ==
    ASSUME NEW t, NEW u, Tree(t), NEW mnt, Mounts(t, mnt), NEW inuse, Files(t, inuse), Once(t),
           NEW p \in DOMAIN t, Unmounted(t, u, p)
    PROVE  Tree(u) /\ Mounts(u, mnt) /\ Files(u, inuse) /\ Once(u)
  <1>1. /\ DOMAIN t = 1..Len(t) /\ Len(t) \in Nat \ {0} /\ 1 \in DOMAIN t
        /\ \A d \in DOMAIN t : d \in Nat /\ t[d].parent \in DOMAIN t /\ t[d].mounted \in Nat
    BY TreeTypes DEF root_dentry
  <1>2. u \in Seq(DentryRec) /\ Len(u) = Len(t) /\ DOMAIN u = DOMAIN t
    <2>1. u \in Seq(DentryRec) /\ Len(u) = Len(t)
      BY DEF Unmounted
    <2> QED
      BY <1>1, <2>1
  <1>3. \A d \in DOMAIN t :
           /\ u[d].name = t[d].name /\ u[d].inode = t[d].inode /\ u[d].parent = t[d].parent
           /\ u[d].subdirs = t[d].subdirs /\ u[d].isdir = t[d].isdir /\ u[d].fs = t[d].fs
           /\ u[d].mounted = IF d = p THEN t[d].mounted - 1 ELSE t[d].mounted
    BY DEF Unmounted
  <1>4. Tree(u)
    <2>1. Len(u) >= 1 /\ u[1].parent = 1
      BY <1>1, <1>2, <1>3 DEF Tree
    <2>2. \A d \in DOMAIN u :
            /\ u[d].parent \in 1..d
            /\ u[u[d].parent].isdir
            /\ u[u[d].parent].fs = u[d].fs
            /\ u[d].mounted > 0 => u[d].isdir
      <3>1. \A d \in DOMAIN t :
              /\ t[d].parent \in 1..d /\ t[t[d].parent].isdir /\ t[t[d].parent].fs = t[d].fs
              /\ t[d].mounted > 0 => t[d].isdir
        BY DEF Tree
      <3> QED
        BY <1>1, <1>2, <1>3, <3>1
    <2>3. \A d \in DOMAIN u : \A i \in DOMAIN u[d].subdirs :
            u[d].subdirs[i] \in DOMAIN u /\ u[d].subdirs[i] # d /\ u[u[d].subdirs[i]].parent = d
      <3>1. \A d \in DOMAIN t : \A i \in DOMAIN t[d].subdirs :
              t[d].subdirs[i] \in DOMAIN t /\ t[d].subdirs[i] # d /\ t[t[d].subdirs[i]].parent = d
        BY DEF Tree
      <3> QED
        BY <1>2, <1>3, <3>1
    <2>4. \A d \in DOMAIN u : \A i, j \in DOMAIN u[d].subdirs :
            u[u[d].subdirs[i]].name = u[u[d].subdirs[j]].name => i = j
      <3>1. \A d \in DOMAIN t :
              /\ \A i \in DOMAIN t[d].subdirs : t[d].subdirs[i] \in DOMAIN t
              /\ \A i, j \in DOMAIN t[d].subdirs :
                   t[t[d].subdirs[i]].name = t[t[d].subdirs[j]].name => i = j
        BY DEF Tree
      <3> QED
        BY <1>2, <1>3, <3>1
    <2>5. ASSUME NEW d \in DOMAIN u, u[d].parent # d
          PROVE  \E i \in DOMAIN u[u[d].parent].subdirs : u[u[d].parent].subdirs[i] = d
      <3>1. d \in DOMAIN t /\ u[d].parent = t[d].parent /\ t[d].parent \in DOMAIN t
        BY <1>1, <1>2, <1>3
      <3>2. u[u[d].parent].subdirs = t[t[d].parent].subdirs
        BY <1>3, <3>1
      <3>3. \E i \in DOMAIN t[t[d].parent].subdirs : t[t[d].parent].subdirs[i] = d
        BY <2>5, <3>1 DEF Tree
      <3> QED
        BY <3>2, <3>3
    <2> QED
      BY <1>2, <2>1, <2>2, <2>3, <2>4, <2>5 DEF Tree
  <1>5. Mounts(u, mnt)
    <2>1. \A m \in DOMAIN mnt :
            /\ mnt[m].root \in DOMAIN u /\ mnt[m].mountpoint \in DOMAIN u
            /\ u[mnt[m].root].parent = mnt[m].root
            /\ u[mnt[m].root].fs = mnt[m].fs
      BY <1>2, <1>3 DEF Mounts
    <2>2. \A m \in DOMAIN mnt \ {1} :
            /\ mnt[m].parent \in DOMAIN mnt
            /\ mnt[m].mountpoint < mnt[m].root
            /\ u[mnt[m].mountpoint].fs = mnt[mnt[m].parent].fs
      BY <1>2, <1>3 DEF Mounts
    <2>3. \A d \in DOMAIN u : u[d].parent = d => \E m \in DOMAIN mnt : mnt[m].root = d
      BY <1>2, <1>3 DEF Mounts
    <2> QED
      BY <2>1, <2>2, <2>3 DEF Mounts
  <1>6. Files(u, inuse)
    BY <1>2, <1>3 DEF Files
  <1>7. Once(u)
    BY <1>1, <1>2, <1>3 DEF Once
  <1> QED
    BY <1>4, <1>5, <1>6, <1>7

(* The mount leaves the list, and is counted no more.                      *)
LEMMA UncoveredExact ==
    ASSUME NEW t, NEW u, Tree(t), NEW mnt, Mounts(t, mnt), NEW list, List(list, mnt),
           Exact(t, mnt, list), NEW i \in DOMAIN list, NEW m, m = list[i], m # 1,
           NEW p \in DOMAIN t, p = mnt[m].mountpoint, p # root_dentry, Unmounted(t, u, p),
           NEW list2, list2 = RemoveAt(list, i)
    PROVE  List(list2, mnt) /\ Exact(u, mnt, list2)
  <1> DEFINE k == Len(list)
  <1>1. list \in Seq(DOMAIN mnt) /\ DOMAIN list = 1..k /\ k \in Nat /\ i \in 1..k
    <2>1. list \in Seq(DOMAIN mnt)
      BY DEF List
    <2> QED
      BY <2>1
  <1>2. \A j \in 1..k : list[j] \in DOMAIN mnt
    BY <1>1, ElementOfSeq
  <1>3. /\ list2 \in Seq(DOMAIN mnt) /\ Len(list2) = k - 1
        /\ \A j \in 1..(k - 1) : list2[j] = IF j < i THEN list[j] ELSE list[j + 1]
    <2> DEFINE a == SubSeq(list, 1, i - 1)
               b == SubSeq(list, i + 1, k)
    <2>1. /\ a \in Seq(DOMAIN mnt) /\ Len(a) = i - 1
          /\ \A j \in 1..(i - 1) : a[j] = list[j]
      <3>1. 1 \in Int /\ i - 1 \in Int /\ \A j \in 1..(i - 1) : list[j] \in DOMAIN mnt
        BY <1>1, <1>2
      <3>2. /\ a \in Seq(DOMAIN mnt) /\ Len(a) = IF 1 <= i - 1 THEN (i - 1) - 1 + 1 ELSE 0
            /\ \A j \in 1..((i - 1) - 1 + 1) : a[j] = list[1 + j - 1]
        BY <3>1, SubSeqProperties
      <3> HIDE DEF a
      <3> QED
        BY <1>1, <3>2
    <2>2. /\ b \in Seq(DOMAIN mnt) /\ Len(b) = k - i
          /\ \A j \in 1..(k - i) : b[j] = list[i + j]
      <3>1. i + 1 \in Int /\ k \in Int /\ \A j \in (i + 1)..k : list[j] \in DOMAIN mnt
        BY <1>1, <1>2
      <3>2. /\ b \in Seq(DOMAIN mnt) /\ Len(b) = IF i + 1 <= k THEN k - (i + 1) + 1 ELSE 0
            /\ \A j \in 1..(k - (i + 1) + 1) : b[j] = list[(i + 1) + j - 1]
        BY <3>1, SubSeqProperties
      <3> HIDE DEF b, k
      <3>3. Len(b) = k - i
        BY <1>1, <3>2
      <3>4. ASSUME NEW j \in 1..(k - i) PROVE b[j] = list[i + j]
        <4>1. j \in 1..(k - (i + 1) + 1) /\ (i + 1) + j - 1 = i + j
          BY <1>1
        <4>2. b[j] = list[(i + 1) + j - 1]
          BY <3>2, <4>1
        <4> QED
          BY <4>1, <4>2
      <3> QED
        BY <3>2, <3>3, <3>4
    <2>3. list2 = a \o b
      BY DEF RemoveAt
    <2> HIDE DEF a, b
    <2>4. /\ list2 \in Seq(DOMAIN mnt) /\ Len(list2) = Len(a) + Len(b)
          /\ \A j \in 1..(Len(a) + Len(b)) : list2[j] = IF j <= Len(a) THEN a[j] ELSE b[j - Len(a)]
      BY <2>1, <2>2, <2>3, ConcatProperties
    <2> HIDE DEF k
    <2>5. ASSUME NEW j \in 1..(k - 1)
          PROVE  list2[j] = IF j < i THEN list[j] ELSE list[j + 1]
      <3>1. Len(a) + Len(b) = k - 1 /\ (j <= Len(a) <=> j < i)
        BY <1>1, <2>1, <2>2
      <3>2. CASE j < i
        BY <1>1, <2>1, <2>4, <3>1, <3>2
      <3>3. CASE ~(j < i)
        <4>1. j - Len(a) \in 1..(k - i) /\ i + (j - Len(a)) = j + 1
          BY <1>1, <2>1, <3>3
        <4> QED
          BY <2>2, <2>4, <3>1, <3>3, <4>1
      <3> QED
        BY <3>2, <3>3
    <2> QED
      BY <1>1, <2>1, <2>2, <2>4, <2>5
  <1>4. \A j, l \in 1..k : list[j] = list[l] => j = l
    BY <1>1 DEF List
  <1> HIDE DEF k
  <1>5. DOMAIN list2 = 1..(k - 1)
    BY <1>3
  <1>6. Range(list2) = Range(list) \ {m}
    <2>1. ASSUME NEW n \in Range(list2) PROVE n \in Range(list) \ {m}
      <3>1. PICK j \in 1..(k - 1) : list2[j] = n
        BY <1>5, <2>1 DEF Range
      <3>2. \E l \in 1..k : l # i /\ list[l] = n
        BY <1>1, <1>3, <3>1
      <3> QED
        BY <1>1, <1>4, <3>2 DEF Range
    <2>2. ASSUME NEW n \in Range(list), n # m PROVE n \in Range(list2)
      <3>1. PICK j \in 1..k : list[j] = n
        BY <1>1, <2>2 DEF Range
      <3>2. j # i
        BY <2>2, <3>1
      <3>3. \E l \in 1..(k - 1) : list2[l] = n
        <4>1. CASE j < i
          <5>1. j \in 1..(k - 1)
            BY <1>1, <4>1
          <5> QED
            BY <1>3, <3>1, <4>1, <5>1
        <4>2. CASE ~(j < i)
          <5>1. j - 1 \in 1..(k - 1) /\ ~(j - 1 < i) /\ (j - 1) + 1 = j
            BY <1>1, <3>2, <4>2
          <5> QED
            BY <1>3, <3>1, <5>1
        <4> QED
          BY <4>1, <4>2
      <3> QED
        BY <1>5, <3>3 DEF Range
    <2> QED
      BY <2>1, <2>2
  <1>7. List(list2, mnt)
    <2>1. ASSUME NEW j \in 1..(k - 1), NEW l \in 1..(k - 1), list2[j] = list2[l] PROVE j = l
      BY <1>1, <1>3, <1>4, <2>1
    <2>2. 1 \in Range(list2)
      BY <1>6 DEF List, Range
    <2> QED
      BY <1>3, <1>5, <2>1, <2>2 DEF List, Range
  <1>8. u \in Seq(DentryRec) /\ DOMAIN u = DOMAIN t /\ \A d \in DOMAIN t : t[d].mounted \in Nat
    <2>1. u \in Seq(DentryRec) /\ Len(u) = Len(t)
      BY DEF Unmounted
    <2> QED
      BY <2>1, TreeTypes
  <1>9. \A d \in DOMAIN t : u[d].mounted = IF d = p THEN t[d].mounted - 1 ELSE t[d].mounted
    BY DEF Unmounted
  <1>10. \A d : Covering(d, mnt, list2) =
                   IF d = p THEN Covering(d, mnt, list) \ {m} ELSE Covering(d, mnt, list)
    BY <1>6 DEF Covering
  <1>11. m \in Covering(p, mnt, list) /\ IsFiniteSet(Covering(p, mnt, list))
    <2>1. m \in Range(list) /\ Covering(p, mnt, list) \subseteq DOMAIN mnt
      BY <1>1, <1>2 DEF Range, Covering
    <2>2. IsFiniteSet(DOMAIN mnt)
      <3>1. mnt \in Seq(MountRec)
        BY DEF Mounts
      <3>2. DOMAIN mnt = 1..Len(mnt) /\ Len(mnt) \in Nat
        BY <3>1
      <3>3. IsFiniteSet(1..Len(mnt))
        BY <3>2, FS_Interval
      <3> QED
        BY <3>2, <3>3
    <2> QED
      BY <2>1, <2>2, FS_Subset DEF Covering
  <1>12. Cardinality(Covering(p, mnt, list) \ {m}) = Cardinality(Covering(p, mnt, list)) - 1
    BY <1>11, FS_RemoveElement
  <1> QED
    BY <1>7, <1>8, <1>9, <1>10, <1>12 DEF Exact

-----------------------------------------------------------------------------
(* The operations.                                                         *)

(* What CoveredUntouched says of a step.                                   *)
CoveredKept ==
    \A d \in DOMAIN dentry :
       (dentry[d].mounted > 0 /\ dentry[d].parent # d) => dentry[d].subdirs = dentry'[d].subdirs

(* A larger tree has all that a smaller one has.                           *)
LEMMA GrownDomain ==
    ASSUME NEW t, NEW u, Tree(t), Tree(u), Len(t) <= Len(u)
    PROVE  DOMAIN t \subseteq DOMAIN u
  <1>1. DOMAIN t = 1..Len(t) /\ Len(t) \in Nat /\ DOMAIN u = 1..Len(u) /\ Len(u) \in Nat
    BY TreeTypes
  <1> QED
    BY <1>1

LEMMA KeepInv ==
    ASSUME NamespaceInv, NEW w, Good(w), Keep(w), UNCHANGED <<mount, mnt_list, pool>>,
           fds' \in [Threads -> [Fds -> DOMAIN dentry' \cup {NULL}]]
    PROVE  NamespaceInv' /\ CoveredKept
  <1>1. dentry' = w.tree /\ kvfs_inuse' = w.inuse
    BY DEF Keep
  <1>2. Sound(w.tree, w.inuse, mount, mnt_list)
    BY DEF Good
  <1>3. CoveredKept
    BY <1>1 DEF Good, Grown, CoveredKept
  <1> QED
    BY <1>1, <1>2, <1>3 DEF NamespaceInv

LEMMA FdsStay ==
    ASSUME NamespaceInv, NEW t, DOMAIN dentry \subseteq DOMAIN t
    PROVE  fds \in [Threads -> [Fds -> DOMAIN t \cup {NULL}]]
  BY DEF NamespaceInv

LEMMA OpenInv ==
    ASSUME NamespaceInv, NEW t \in Threads, NEW p \in Paths, Open(t, p)
    PROVE  NamespaceInv' /\ CoveredKept
  <1> DEFINE w == make_path(Start, p, FALSE, ACL_DEFAULT)
             free == {i \in Fds : fds[t][i] = NULL}
  <1>1. Good(w)
    <2>1. ACL_DEFAULT \in Acls
      BY DEF ACL_DEFAULT, Acl, Acls
    <2> QED
      BY <2>1, WalkGood
  <1>2. /\ Keep(w)
        /\ fds' = IF w.res = "ok" /\ free # {} THEN [fds EXCEPT ![t][Min(free)] = w.d] ELSE fds
        /\ UNCHANGED <<mount, mnt_list, pool>>
    BY DEF Open
  <1> HIDE DEF w
  <1>3. w.d \in DOMAIN w.tree /\ dentry' = w.tree /\ DOMAIN dentry \subseteq DOMAIN w.tree
    <2>1. w.d \in DOMAIN w.tree /\ Tree(w.tree) /\ Len(dentry) <= Len(w.tree)
      BY <1>1, GoodFacts DEF Grown
    <2> QED
      BY <1>2, <2>1, StartGood, GrownDomain DEF Keep
  <1>4. fds \in [Threads -> [Fds -> DOMAIN dentry' \cup {NULL}]]
    BY <1>3, FdsStay
  <1>5. CASE w.res = "ok" /\ free # {}
    <2>1. Min(free) \in Fds
      <3>1. free \subseteq Nat
        BY DEF Fds
      <3>2. Min(free) \in free
        BY <1>5, <3>1, LeastElement
      <3> QED
        BY <3>2
    <2> HIDE DEF free
    <2>2. fds' = [fds EXCEPT ![t][Min(free)] = w.d]
      BY <1>2, <1>5
    <2>3. [fds[t] EXCEPT ![Min(free)] = w.d] \in [Fds -> DOMAIN dentry' \cup {NULL}]
      BY <1>3, <1>4, <2>1
    <2>4. fds' \in [Threads -> [Fds -> DOMAIN dentry' \cup {NULL}]]
      BY <1>4, <2>2, <2>3
    <2> QED
      BY <1>1, <1>2, <2>4, KeepInv
  <1>6. CASE ~(w.res = "ok" /\ free # {})
    BY <1>1, <1>2, <1>4, <1>6, KeepInv
  <1> QED
    BY <1>5, <1>6

LEMMA MkdirInv ==
    ASSUME NamespaceInv, NEW p \in Paths, NEW mode \in Modes, Mkdir(p, mode)
    PROVE  NamespaceInv' /\ CoveredKept
  <1> DEFINE w == path_lookup(p)
             v == IF w.res = "failed" THEN make_path(Again(w), p, TRUE, mode) ELSE w
  <1>1. Good(v)
    BY WalkGood, ModesAssumption
  <1>2. Keep(v) /\ UNCHANGED <<mount, mnt_list, pool, fds>>
    BY DEF Mkdir
  <1> HIDE DEF v
  <1>3. dentry' = v.tree /\ DOMAIN dentry \subseteq DOMAIN v.tree
    <2>1. Tree(v.tree) /\ Len(dentry) <= Len(v.tree)
      BY <1>1, GoodFacts DEF Grown
    <2> QED
      BY <1>2, <2>1, StartGood, GrownDomain DEF Keep
  <1> QED
    BY <1>1, <1>2, <1>3, FdsStay, KeepInv

LEMMA AccessInv ==
    ASSUME NamespaceInv, NEW p \in Paths, Access(p)
    PROVE  NamespaceInv' /\ CoveredKept
  <1> DEFINE w == path_lookup(p)
  <1>1. Good(w)
    BY WalkGood
  <1>2. Keep(w) /\ UNCHANGED <<mount, mnt_list, pool, fds>>
    BY DEF Access
  <1> HIDE DEF w
  <1>3. dentry' = w.tree /\ DOMAIN dentry \subseteq DOMAIN w.tree
    <2>1. Tree(w.tree) /\ Len(dentry) <= Len(w.tree)
      BY <1>1, GoodFacts DEF Grown
    <2> QED
      BY <1>2, <2>1, StartGood, GrownDomain DEF Keep
  <1> QED
    BY <1>1, <1>2, <1>3, FdsStay, KeepInv

LEMMA MountInv ==
    ASSUME NamespaceInv, NEW p \in Paths, NEW fs \in FsObjects, Mount(p, fs)
    PROVE  NamespaceInv' /\ CoveredKept
  <1> DEFINE w == path_lookup(p)
             t == w.tree
             u == Append([t EXCEPT ![w.d].mounted = @ + 1], RootOf(fs, Len(t) + 1))
             mnt2 == Append(mount, [root |-> Len(t) + 1, mountpoint |-> w.d,
                                    parent |-> w.m, fs |-> fs])
             v == [w EXCEPT !.tree = u]
  <1>1. Good(w)
    BY WalkGood
  <1>2. /\ \A m \in DOMAIN mount : mount[m].fs # fs
        /\ w.res = "ok" /\ t[w.d].isdir
        /\ Keep(v)
        /\ mount' = mnt2
        /\ mnt_list' = <<Len(mount')>> \o mnt_list
        /\ UNCHANGED <<pool, fds>>
    BY DEF Mount, ParentMount
  <1> HIDE DEF w
  <1>3. /\ w \in WalkRec /\ w.d \in DOMAIN t /\ w.m \in DOMAIN mount
        /\ Tree(t) /\ Mounts(t, mount) /\ List(mnt_list, mount)
        /\ Exact(t, mount, mnt_list) /\ Files(t, w.inuse) /\ Once(t)
        /\ t[w.d].fs = mount[w.m].fs /\ Len(dentry) <= Len(t)
    BY <1>1, GoodFacts DEF Grown
  <1>4. Mounted(t, u, w.d, fs)
    <2>1. t \in Seq(DentryRec)
      BY <1>3 DEF Tree
    <2> HIDE DEF t
    <2> QED
      BY <1>3, <2>1, NewRoot
  <1>5. dentry' = u /\ kvfs_inuse' = w.inuse
    <2>1. v.tree = u /\ v.inuse = w.inuse
      <3> HIDE DEF u
      <3> QED
        BY <1>3 DEF WalkRec
    <2> QED
      BY <1>2, <2>1 DEF Keep
  <1> HIDE DEF u
  <1>6. Tree(u)
    BY <1>2, <1>3, <1>4, NewRootTree
  <1>7. Mounts(u, mnt2) /\ Longer(mount, mnt2, w.d)
    <2>1. \A k \in DOMAIN mount : mount[k].fs # fs
      BY <1>2
    <2>2. Tree(t) /\ Mounts(t, mount) /\ w.d \in DOMAIN t /\ w.m \in DOMAIN mount
          /\ t[w.d].fs = mount[w.m].fs
      BY <1>3
    <2>3. NewMount(mount, mnt2, Len(t) + 1, w.d, w.m, fs)
      BY DEF NewMount
    <2> HIDE DEF t, mnt2
    <2> QED
      BY <1>4, <2>1, <2>2, <2>3, NewRootMounts
  <1> HIDE DEF mnt2
  <1>8. mnt_list' = <<Len(mount) + 1>> \o mnt_list
    BY <1>2, <1>7 DEF Longer
  <1>9. List(mnt_list', mnt2) /\ Exact(u, mnt2, mnt_list')
    <2> DEFINE list2 == <<Len(mount) + 1>> \o mnt_list
    <2>1. List(list2, mnt2) /\ Exact(u, mnt2, list2)
      <3> HIDE DEF list2, t
      <3> QED
        BY <1>3, <1>4, <1>7, NewRootExact DEF list2
    <2> QED
      BY <1>8, <2>1
  <1>10. Files(u, w.inuse) /\ Once(u)
    <2>1. t[w.d].parent # w.d => t[w.d].mounted = 0
      BY <1>1, <1>2 DEF Good, Enters
    <2> QED
      BY <1>3, <1>4, <2>1, NewRootFiles
  <1>11. fds' \in [Threads -> [Fds -> DOMAIN dentry' \cup {NULL}]]
    <2>1. Len(u) = Len(t) + 1 /\ Len(t) \in Nat /\ Len(dentry) \in Nat
      BY <1>3, <1>4, StartGood, TreeTypes DEF Mounted
    <2>2. DOMAIN dentry \subseteq DOMAIN u
      BY <1>3, <1>6, <2>1, StartGood, GrownDomain
    <2>3. fds \in [Threads -> [Fds -> DOMAIN u \cup {NULL}]]
      BY <2>2, FdsStay
    <2> QED
      BY <1>2, <1>5, <2>3
  <1>12. Sound(u, w.inuse, mnt2, mnt_list')
    BY <1>6, <1>7, <1>9, <1>10 DEF Sound
  <1>13. CoveredKept
    <2>1. Grown(dentry, t) /\ Tree(dentry)
      BY <1>1, StartGood DEF Good
    <2>2. DOMAIN dentry \subseteq DOMAIN t
      BY <1>3, <2>1, GrownDomain
    <2>3. \A d \in DOMAIN t : u[d].subdirs = t[d].subdirs
      BY <1>4 DEF Mounted
    <2> QED
      BY <1>5, <2>1, <2>2, <2>3 DEF CoveredKept, Grown
  <1> QED
    BY <1>2, <1>5, <1>11, <1>12, <1>13 DEF NamespaceInv

(* What a path names has been reached by a mount in the list, so that its  *)
(* mount point is counted.                                                 *)
LEMMA UnmountInv ==
    ASSUME NamespaceInv, NEW p \in Paths, Unmount(p)
    PROVE  NamespaceInv' /\ CoveredKept
  <1> DEFINE w == path_lookup(p)
             t == w.tree
             here == {i \in DOMAIN mnt_list : mount[mnt_list[i]].root = w.d}
             i == Min(here)
             m == mnt_list[i]
             c == mount[m].mountpoint
             u == [t EXCEPT ![c].mounted = Unmarked(@)]
             v == [w EXCEPT !.tree = u]
  <1>1. Good(w)
    BY WalkGood
  <1>2. /\ w.res = "ok" /\ here # {}
        /\ mount[m].fs \in OtherKvfs
        /\ Keep(v)
        /\ mnt_list' = RemoveAt(mnt_list, i)
        /\ UNCHANGED <<mount, pool, fds>>
    BY DEF Unmount
  <1> HIDE DEF w
  <1>3. /\ w \in WalkRec /\ w.d \in DOMAIN t /\ w.m \in DOMAIN mount
        /\ Tree(t) /\ Mounts(t, mount) /\ List(mnt_list, mount)
        /\ Exact(t, mount, mnt_list) /\ Files(t, w.inuse) /\ Once(t)
        /\ OnTheWay(w) /\ Len(dentry) <= Len(t)
    BY <1>1, GoodFacts DEF Grown
  <1>4. i \in DOMAIN mnt_list /\ mount[m].root = w.d /\ m \in DOMAIN mount
    <2>1. mnt_list \in Seq(DOMAIN mount)
      BY <1>3 DEF List
    <2>2. DOMAIN mnt_list = 1..Len(mnt_list) /\ Len(mnt_list) \in Nat
      BY <2>1
    <2>3. here \subseteq Nat
      BY <2>2
    <2>4. i \in here
      BY <1>2, <2>3, LeastElement
    <2>5. i \in DOMAIN mnt_list /\ mount[m].root = w.d
      BY <2>4
    <2> HIDE DEF i, here
    <2> QED
      BY <2>1, <2>2, <2>5, ElementOfSeq
  <1> HIDE DEF i
  <1>5. m # 1 /\ w.d # 1
    <2>1. mount[1].root = 1 /\ mount[1].fs = kvfs /\ 1 \in DOMAIN mount
      BY <1>3, OneMount DEF Mounts
    <2>2. m # 1
      BY <1>2, <2>1, FsAssumption
    <2> HIDE DEF m
    <2> QED
      BY <1>3, <1>4, <2>1, <2>2, OneMount
  <1>6. c \in DOMAIN t /\ t[c].parent # c /\ c # root_dentry /\ m \in Range(mnt_list)
    <2>1. PICK U \in SUBSET DOMAIN t :
            Way(t, mount, mnt_list, U) /\ w.d \in U /\ mount[w.m].root \in U
      BY <1>3 DEF OnTheWay
    <2>2. t[w.d].parent = w.d
      <3> HIDE DEF m, t
      <3> QED
        BY <1>3, <1>4 DEF Mounts
    <2>3. PICK n \in Range(mnt_list) :
            mount[n].root = w.d /\ t[mount[n].mountpoint].parent # mount[n].mountpoint
      BY <1>5, <2>1, <2>2 DEF Way
    <2>4. m = n
      <3>1. n \in DOMAIN mount
        BY <1>3, <2>3 DEF List, Range
      <3> HIDE DEF m
      <3> QED
        BY <1>3, <1>4, <2>3, <3>1, OneMount
    <2>5. t[1].parent = 1
      BY <1>3 DEF Tree
    <2>6. c \in DOMAIN t
      <3> HIDE DEF m, t
      <3> QED
        BY <1>3, <1>4 DEF Mounts
    <2> HIDE DEF m
    <2> QED
      BY <2>3, <2>4, <2>5, <2>6 DEF root_dentry
  <1>7. t[c].mounted > 0
    <2>1. m \in Covering(c, mount, mnt_list)
      BY <1>6 DEF Covering
    <2>2. IsFiniteSet(Covering(c, mount, mnt_list))
      <3>1. Covering(c, mount, mnt_list) \subseteq DOMAIN mount
        BY <1>3 DEF Covering, List, Range
      <3>2. mount \in Seq(MountRec)
        BY <1>3 DEF Mounts
      <3>3. DOMAIN mount = 1..Len(mount) /\ Len(mount) \in Nat
        BY <3>2
      <3>4. IsFiniteSet(1..Len(mount))
        BY <3>3, FS_Interval
      <3> QED
        BY <3>1, <3>3, <3>4, FS_Subset
    <2> HIDE DEF c, m
    <2>3. Cardinality(Covering(c, mount, mnt_list)) \in Nat /\ Cardinality(Covering(c, mount, mnt_list)) # 0
      BY <2>1, <2>2, FS_CardinalityType, FS_EmptySet
    <2>4. t[c].mounted = Cardinality(Covering(c, mount, mnt_list))
      BY <1>3, <1>6 DEF Exact
    <2> QED
      BY <2>3, <2>4
  <1> HIDE DEF m, c
  <1>8. Unmounted(t, u, c)
    <2>1. t \in Seq(DentryRec)
      BY <1>3 DEF Tree
    <2> HIDE DEF t
    <2> QED
      BY <1>6, <1>7, <2>1, Uncovered
  <1>9. dentry' = u /\ kvfs_inuse' = w.inuse
    <2>1. v.tree = u /\ v.inuse = w.inuse
      <3> HIDE DEF u
      <3> QED
        BY <1>3 DEF WalkRec
    <2> QED
      BY <1>2, <2>1 DEF Keep
  <1> HIDE DEF u
  <1>10. Tree(u) /\ Mounts(u, mount) /\ Files(u, w.inuse) /\ Once(u)
    BY <1>3, <1>6, <1>8, UncoveredTree
  <1>11. List(mnt_list', mount) /\ Exact(u, mount, mnt_list')
    <2>1. m = mnt_list[i] /\ c = mount[m].mountpoint
      BY DEF m, c
    <2> HIDE DEF t
    <2> QED
      BY <1>2, <1>3, <1>4, <1>5, <1>6, <1>8, <2>1, UncoveredExact
  <1>12. fds' \in [Threads -> [Fds -> DOMAIN dentry' \cup {NULL}]]
    <2>1. Len(u) = Len(t) /\ Len(t) \in Nat
      BY <1>3, <1>8, TreeTypes DEF Unmounted
    <2>2. DOMAIN dentry \subseteq DOMAIN u
      BY <1>3, <1>10, <2>1, StartGood, GrownDomain
    <2>3. fds \in [Threads -> [Fds -> DOMAIN u \cup {NULL}]]
      BY <2>2, FdsStay
    <2> QED
      BY <1>2, <1>9, <2>3
  <1>13. Sound(u, w.inuse, mount, mnt_list')
    BY <1>10, <1>11 DEF Sound
  <1>14. CoveredKept
    <2>1. Grown(dentry, t) /\ Tree(dentry)
      BY <1>1, StartGood DEF Good
    <2>2. DOMAIN dentry \subseteq DOMAIN t
      BY <1>3, <2>1, GrownDomain
    <2>3. \A d \in DOMAIN t : u[d].subdirs = t[d].subdirs
      BY <1>8 DEF Unmounted
    <2> QED
      BY <1>9, <2>1, <2>2, <2>3 DEF CoveredKept, Grown
  <1> QED
    BY <1>2, <1>9, <1>12, <1>13, <1>14 DEF NamespaceInv

LEMMA CloseInv ==
    ASSUME NamespaceInv, NEW t \in Threads, NEW i \in Fds, Close(t, i)
    PROVE  NamespaceInv' /\ CoveredKept
  <1>1. fds' \in [Threads -> [Fds -> DOMAIN dentry \cup {NULL}]]
    <2>1. [fds[t] EXCEPT ![i] = NULL] \in [Fds -> DOMAIN dentry \cup {NULL}]
      BY DEF NamespaceInv
    <2>2. fds' = [fds EXCEPT ![t] = [fds[t] EXCEPT ![i] = NULL]]
      BY DEF Close, NamespaceInv
    <2> QED
      BY <2>1, <2>2 DEF NamespaceInv
  <1> QED
    BY <1>1 DEF NamespaceInv, Close, CoveredKept

LEMMA InitInv == Init => NamespaceInv
  <1> SUFFICES ASSUME Init PROVE NamespaceInv
    OBVIOUS
  <1> DEFINE root == RootOf(kvfs, 1)
             mnt == [root |-> 1, mountpoint |-> 1, parent |-> NULL, fs |-> kvfs]
  <1>1. dentry = <<root>> /\ mount = <<mnt>> /\ mnt_list = <<1>> /\ kvfs_inuse = {}
    BY DEF Init, root_dentry, root_mnt
  <1>2. /\ root.parent = 1 /\ root.isdir /\ root.mounted = 0 /\ root.fs = kvfs /\ root.subdirs = <<>>
        /\ root.inode.ino = NULL /\ root.inode.uid = 0 /\ root.inode.gid = 0
    BY DEF RootOf, Owned
  <1>3. root \in DentryRec
    <2>1. Owned(RootAcl(kvfs), NULL) \in Inode
      BY DEF Owned, RootAcl, Inode, ReadAll, Acl, Acls
    <2>2. <<>> \in Seq(Nat) /\ kvfs \in FsObjects
      BY DEF FsObjects
    <2> QED
      BY <2>1, <2>2 DEF RootOf, DentryRec
  <1>4. mnt \in MountRec
    BY DEF MountRec, FsObjects
  <1>5. mnt.root = 1 /\ mnt.mountpoint = 1 /\ mnt.fs = kvfs /\ mnt.parent = NULL
    OBVIOUS
  <1> HIDE DEF root, mnt
  <1>6. /\ dentry \in Seq(DentryRec) /\ Len(dentry) = 1 /\ DOMAIN dentry = {1} /\ dentry[1] = root
        /\ mount \in Seq(MountRec) /\ Len(mount) = 1 /\ DOMAIN mount = {1} /\ mount[1] = mnt
    BY <1>1, <1>3, <1>4
  <1>7. mnt_list \in Seq(DOMAIN mount) /\ DOMAIN mnt_list = {1} /\ mnt_list[1] = 1
    BY <1>1, <1>6
  <1>8. Tree(dentry)
    <2>1. DOMAIN root.subdirs = {}
      BY <1>2
    <2> QED
      BY <1>2, <1>6, <2>1 DEF Tree
  <1>9. Mounts(dentry, mount)
    BY <1>2, <1>5, <1>6 DEF Mounts
  <1>10. List(mnt_list, mount) /\ Exact(dentry, mount, mnt_list)
    BY <1>6, <1>7 DEF List, Exact, root_dentry
  <1>11. Files(dentry, kvfs_inuse) /\ Once(dentry)
    BY <1>1, <1>2, <1>6 DEF Files, Once
  <1>12. Sound(dentry, kvfs_inuse, mount, mnt_list)
    BY <1>8, <1>9, <1>10, <1>11 DEF Sound
  <1>13. pool \subseteq Pids /\ fds \in [Threads -> [Fds -> DOMAIN dentry \cup {NULL}]]
    BY DEF Init
  <1> QED
    BY <1>12, <1>13 DEF NamespaceInv

LEMMA NextInv == NamespaceInv /\ [Next]_vars => NamespaceInv' /\ CoveredKept
  <1> SUFFICES ASSUME NamespaceInv, [Next]_vars PROVE NamespaceInv' /\ CoveredKept
    OBVIOUS
  <1>1. ASSUME NEW t \in Threads, NEW p \in Paths, Open(t, p) PROVE NamespaceInv' /\ CoveredKept
    BY <1>1, OpenInv
  <1>2. ASSUME NEW t \in Threads, NEW i \in Fds, Close(t, i) PROVE NamespaceInv' /\ CoveredKept
    BY <1>2, CloseInv
  <1>3. ASSUME NEW p \in Paths, NEW mode \in Modes, Mkdir(p, mode)
        PROVE  NamespaceInv' /\ CoveredKept
    BY <1>3, MkdirInv
  <1>4. ASSUME NEW p \in Paths, Access(p) PROVE NamespaceInv' /\ CoveredKept
    BY <1>4, AccessInv
  <1>5. ASSUME NEW p \in Paths, Unmount(p) PROVE NamespaceInv' /\ CoveredKept
    BY <1>5, UnmountInv
  <1>6. ASSUME NEW p \in Paths, NEW fs \in FsObjects, Mount(p, fs)
        PROVE  NamespaceInv' /\ CoveredKept
    BY <1>6, MountInv
  <1>7. ASSUME NEW pid \in Pids, ThreadStarts(pid) \/ ThreadEnds(pid)
        PROVE  NamespaceInv' /\ CoveredKept
    BY <1>7 DEF NamespaceInv, ThreadStarts, ThreadEnds, CoveredKept
  <1>8. CASE UNCHANGED vars
    BY <1>8 DEF NamespaceInv, CoveredKept, vars
  <1> QED
    BY <1>1, <1>2, <1>3, <1>4, <1>5, <1>6, <1>7, <1>8 DEF Next

(* The trees, the mounts and the list of them, d_mounted, the kvfs_files   *)
(* and how often each directory is covered are as the invariant says after any operations, along    *)
(* whichever paths (src/src/fs/path.c, src/src/vfs.c).                     *)
THEOREM NamespaceInvariant == Spec => []NamespaceInv
  BY InitInv, NextInv, PTL DEF Spec

(* CoveredUntouched: open, mkdir and lookups add nothing to a directory    *)
(* that a mount covers, and no operation takes anything from one.          *)
THEOREM CoveredStays == Spec => CoveredUntouched
  <1>1. NamespaceInv /\ [Next]_vars =>
          [\A d \in DOMAIN dentry :
             (dentry[d].mounted > 0 /\ dentry[d].parent # d) =>
                dentry[d].subdirs = dentry'[d].subdirs]_vars
    BY NextInv DEF CoveredKept
  <1> QED
    BY <1>1, NamespaceInvariant, PTL DEF Spec, CoveredUntouched

-----------------------------------------------------------------------------
(* What the invariant means for the properties.                            *)

LEMMA InvTreeSound == NamespaceInv => TreeSound
  <1> SUFFICES ASSUME NamespaceInv PROVE TreeSound
    OBVIOUS
  <1>1. Tree(dentry) /\ Mounts(dentry, mount) /\ List(mnt_list, mount) /\ kvfs_inuse \subseteq Inodes
    BY DEF NamespaceInv, Sound, Files
  <1>2. ASSUME NEW d \in DOMAIN dentry PROVE dentry[d] \in Dentry
    <2>1. dentry[d] \in DentryRec /\ dentry[d].parent \in DOMAIN dentry
      BY <1>1, TreeTypes
    <2>2. dentry[d].subdirs \in Seq(DOMAIN dentry)
      <3>1. dentry[d].subdirs \in Seq(Nat)
        BY <1>1, TreeTypes
      <3>2. \A i \in DOMAIN dentry[d].subdirs : dentry[d].subdirs[i] \in DOMAIN dentry
        BY <1>1 DEF Tree
      <3>3. DOMAIN dentry[d].subdirs = 1..Len(dentry[d].subdirs) /\ Len(dentry[d].subdirs) \in Nat
        BY <3>1
      <3>4. \A i \in 1..Len(dentry[d].subdirs) : dentry[d].subdirs[i] \in DOMAIN dentry
        BY <3>2, <3>3
      <3> QED
        BY <3>1, <3>4
    <2> QED
      BY <2>1, <2>2 DEF DentryRec, Dentry
  <1>3. ASSUME NEW m \in DOMAIN mount PROVE mount[m] \in Vfsmount
    <2>1. mount \in Seq(MountRec) /\ 1 \in DOMAIN mount
      BY <1>1, OneMount DEF Mounts
    <2>2. mount[m] \in MountRec
      BY <2>1, ElementOfSeq
    <2>3. mount[m].root \in DOMAIN dentry /\ mount[m].mountpoint \in DOMAIN dentry
          /\ (m # 1 => mount[m].parent \in DOMAIN mount)
      BY <1>1 DEF Mounts
    <2>4. m = 1 => mount[m].parent \in DOMAIN mount \cup {NULL}
      BY <1>1 DEF Mounts
    <2> QED
      BY <2>2, <2>3, <2>4 DEF MountRec, Vfsmount
  <1>4. TypeOK
    BY <1>1, <1>2, <1>3 DEF TypeOK, NamespaceInv, List
  <1>5. ASSUME NEW d \in DOMAIN dentry
        PROVE  /\ \A i, j \in DOMAIN dentry[d].subdirs :
                    dentry[dentry[d].subdirs[i]].name = dentry[dentry[d].subdirs[j]].name => i = j
               /\ dentry[d].parent # d =>
                    /\ d \in Range(dentry[dentry[d].parent].subdirs)
                    /\ dentry[dentry[d].parent].isdir
    BY <1>1 DEF Tree, Range
  <1> QED
    BY <1>4, <1>5 DEF TreeSound

(* TreeSound: every dentry is once in its directory's list, under a name   *)
(* that no other has there, so that do_lookup finds it again.              *)
THEOREM TreeIsSound == Spec => []TreeSound
  BY InvTreeSound, NamespaceInvariant, PTL

LEMMA InvMountsExact == NamespaceInv => MountsExact
  BY DEF NamespaceInv, Sound, Exact, Covering, MountsExact

(* MountsExact: d_mounted counts the mounts in the list, and do_lookup     *)
(* never panics with "mount issue".                                        *)
THEOREM MountsAreExact == Spec => []MountsExact
  BY InvMountsExact, NamespaceInvariant, PTL

LEMMA InvOneFs == NamespaceInv => OneFsPerTree
  BY DEF NamespaceInv, Sound, Tree, OneFsPerTree

(* OneFsPerTree: what make_path adds is of the file system it is added to. *)
THEOREM OneFsInTrees == Spec => []OneFsPerTree
  BY InvOneFs, NamespaceInvariant, PTL

LEMMA InvInodesExact == NamespaceInv => InodesExact
  <1> SUFFICES ASSUME NamespaceInv PROVE InodesExact
    OBVIOUS
  <1> DEFINE files == {d \in DOMAIN dentry : dentry[d].inode.ino # NULL}
             f == [d \in files |-> dentry[d].inode.ino]
  <1>1. Files(dentry, kvfs_inuse) /\ Tree(dentry)
    BY DEF NamespaceInv, Sound
  <1>2. NULL \notin kvfs_inuse
    BY <1>1, ModesAssumption DEF Files
  <1>3. {dentry[d].inode.ino : d \in files} = kvfs_inuse
    BY <1>1, <1>2 DEF Files
  <1>4. IsFiniteSet(files)
    <2>1. DOMAIN dentry = 1..Len(dentry) /\ Len(dentry) \in Nat
      BY <1>1, TreeTypes
    <2>2. IsFiniteSet(1..Len(dentry))
      BY <2>1, FS_Interval
    <2>3. files \subseteq 1..Len(dentry)
      BY <2>1
    <2> HIDE DEF files
    <2> QED
      BY <2>2, <2>3, FS_Subset
  <1>5. f \in Bijection(files, kvfs_inuse)
    <2>1. \A d \in files : dentry[d].inode.ino \in kvfs_inuse
      BY <1>1 DEF Files
    <2>2. \A d, e \in files : dentry[d].inode.ino = dentry[e].inode.ino => d = e
      BY <1>1 DEF Files
    <2>3. \A i \in kvfs_inuse : \E d \in files : dentry[d].inode.ino = i
      BY <1>1, <1>2 DEF Files
    <2> HIDE DEF files
    <2> QED
      BY <2>1, <2>2, <2>3 DEF Bijection, Injection, Surjection, IsInjective
  <1>6. Cardinality(files) = Cardinality(kvfs_inuse)
    <2>1. ExistsBijection(files, kvfs_inuse)
      BY <1>5 DEF ExistsBijection
    <2> HIDE DEF files
    <2> QED
      BY <1>4, <2>1, FS_Bijection
  <1> QED
    BY <1>3, <1>6 DEF InodesExact

(* InodesExact: no two files share an entry of kvfs_files, and none is     *)
(* lost.                                                                   *)
THEOREM InodesAreExact == Spec => []InodesExact
  BY InvInodesExact, NamespaceInvariant, PTL

LEMMA InvWalksLive == NamespaceInv => WalksLiveMounts
  <1> SUFFICES ASSUME NamespaceInv, NEW p \in Paths PROVE path_lookup(p).m \in Range(mnt_list)
    BY DEF WalksLiveMounts
  <1> DEFINE w == path_lookup(p)
             t == w.tree
             r == mount[w.m].root
  <1>1. Good(w)
    BY WalkGood
  <1> HIDE DEF w
  <1>2. /\ w.m \in DOMAIN mount /\ Tree(t) /\ Mounts(t, mount) /\ List(mnt_list, mount)
        /\ OnTheWay(w)
    BY <1>1, GoodFacts
  <1>3. PICK U \in SUBSET DOMAIN t : Way(t, mount, mnt_list, U) /\ r \in U
    BY <1>2 DEF OnTheWay
  <1>4. t[r].parent = r
    BY <1>2 DEF Mounts
  <1>5. CASE r = 1
    <2>1. mount[1].root = 1 /\ 1 \in DOMAIN mount
      BY <1>2, OneMount DEF Mounts
    <2>2. w.m = 1
      BY <1>2, <1>5, <2>1, OneMount
    <2>3. 1 \in Range(mnt_list)
      BY <1>2 DEF List, Range
    <2> QED
      BY <2>2, <2>3 DEF w
  <1>6. CASE r # 1
    <2>1. PICK m \in Range(mnt_list) : mount[m].root = r
      BY <1>3, <1>4, <1>6 DEF Way
    <2>2. m \in DOMAIN mount
      BY <1>2 DEF List, Range
    <2>3. m = w.m
      BY <1>2, <2>1, <2>2, OneMount
    <2> QED
      BY <2>3 DEF w
  <1> QED
    BY <1>5, <1>6

(* WalksLiveMounts: path_lookup ends in a mount that is in the list, whose *)
(* file_system_type unmount has not freed.                                 *)
THEOREM WalksAreLive == Spec => []WalksLiveMounts
  BY InvWalksLive, NamespaceInvariant, PTL

LEMMA InvMountsApart == NamespaceInv => MountsApart
  <1> SUFFICES ASSUME NamespaceInv PROVE MountsApart
    OBVIOUS
  <1>1. /\ Tree(dentry) /\ Mounts(dentry, mount) /\ List(mnt_list, mount)
        /\ Exact(dentry, mount, mnt_list) /\ Once(dentry)
    BY DEF NamespaceInv, Sound
  <1>2. ASSUME NEW m \in Range(mnt_list), NEW n \in Range(mnt_list), m # n,
               mount[m].mountpoint = mount[n].mountpoint, ~IsRoot(mount[m].mountpoint)
        PROVE  FALSE
    <2> DEFINE c == mount[m].mountpoint
               C == Covering(c, mount, mnt_list)
    <2>1. c \in DOMAIN dentry /\ dentry[c].parent # c /\ c # 1
      <3>1. m \in DOMAIN mount
        BY <1>1 DEF List, Range
      <3>2. c \in DOMAIN dentry
        BY <1>1, <3>1 DEF Mounts
      <3>3. dentry[1].parent = 1
        BY <1>1 DEF Tree
      <3>4. dentry[c].parent # c
        BY <1>2 DEF IsRoot
      <3> HIDE DEF c
      <3> QED
        BY <3>2, <3>3, <3>4
    <2>2. m \in C /\ n \in C
      BY <1>2 DEF Covering
    <2>3. IsFiniteSet(C)
      <3>1. C \subseteq DOMAIN mount
        BY <1>1 DEF Covering, List, Range
      <3>2. DOMAIN mount = 1..Len(mount) /\ Len(mount) \in Nat
        BY <1>1 DEF Mounts
      <3>3. IsFiniteSet(1..Len(mount))
        BY <3>2, FS_Interval
      <3> QED
        BY <3>1, <3>2, <3>3, FS_Subset
    <2>4. dentry[c].mounted = Cardinality(C) /\ dentry[c].mounted <= 1
      BY <1>1, <2>1 DEF Exact, Once, root_dentry
    <2> HIDE DEF c, C
    <2>5. {m, n} \subseteq C /\ Cardinality({m, n}) = 2
      <3>1. Cardinality({m}) = 1 /\ IsFiniteSet({m})
        BY FS_Singleton
      <3>2. {m, n} = {m} \cup {n} /\ n \notin {m}
        BY <1>2
      <3> QED
        BY <2>2, <3>1, <3>2, FS_AddElement
    <2>6. 2 <= Cardinality(C) /\ Cardinality(C) \in Nat
      BY <2>3, <2>5, FS_Subset, FS_CardinalityType
    <2> QED
      BY <2>4, <2>6
  <1>3. ASSUME NEW p \in Paths, path_lookup(p).m # root_mnt
        PROVE  ~IsRoot(mount[path_lookup(p).m].mountpoint)
    <2> DEFINE w == path_lookup(p)
               t == w.tree
               r == mount[w.m].root
    <2>1. Good(w)
      BY WalkGood
    <2> HIDE DEF w
    <2>2. /\ w.m \in DOMAIN mount /\ Tree(t) /\ Mounts(t, mount) /\ List(mnt_list, mount)
          /\ OnTheWay(w) /\ Grown(dentry, t)
      BY <2>1, GoodFacts
    <2>3. PICK U \in SUBSET DOMAIN t : Way(t, mount, mnt_list, U) /\ r \in U
      BY <2>2 DEF OnTheWay
    <2>4. r # 1
      <3>1. mount[1].root = 1 /\ 1 \in DOMAIN mount
        BY <2>2, OneMount DEF Mounts
      <3> QED
        BY <1>3, <2>2, <3>1, OneMount DEF root_mnt, w
    <2>5. t[r].parent = r
      BY <2>2 DEF Mounts
    <2>6. PICK m \in Range(mnt_list) :
            mount[m].root = r /\ t[mount[m].mountpoint].parent # mount[m].mountpoint
      BY <2>3, <2>4, <2>5 DEF Way
    <2>7. m \in DOMAIN mount /\ m = w.m
      <3>1. m \in DOMAIN mount
        BY <2>2 DEF List, Range
      <3> QED
        BY <2>2, <2>6, <3>1, OneMount
    <2>8. mount[m].mountpoint \in DOMAIN dentry
      BY <1>1, <2>7 DEF Mounts
    <2>9. t[mount[m].mountpoint].parent = dentry[mount[m].mountpoint].parent
      BY <2>2, <2>8 DEF Grown
    <2> QED
      BY <2>6, <2>7, <2>9 DEF IsRoot, w
  <1> QED
    BY <1>2, <1>3 DEF MountsApart

(* MountsApart: no directory is covered twice, and what is mounted on the  *)
(* root of a file system is not reached by any path.                       *)
THEOREM MountsStayApart == Spec => []MountsApart
  BY InvMountsApart, NamespaceInvariant, PTL

-----------------------------------------------------------------------------
(* The way up spells the path.                                             *)

(* G holds with each dentry the names on the way by which a walk came.     *)
Spelling(t, G, d, s) ==
    /\ s \in Seq(Names \cup {NULL})
    /\ \/ d = 1 /\ s = <<>>
       \/ d # 1 /\ t[d].parent # d /\ t[d].parent \in DOMAIN G
          /\ s = Append(G[t[d].parent], t[d].name)
       \/ d # 1 /\ t[d].parent = d /\ \E m \in Range(mnt_list) :
            /\ mount[m].root = d /\ mount[m].mountpoint \in DOMAIN G
            /\ t[mount[m].mountpoint].parent # mount[m].mountpoint
            /\ s = G[mount[m].mountpoint]

Spelled(t, G) == DOMAIN G \subseteq DOMAIN t /\ \A d \in DOMAIN G : Spelling(t, G, d, G[d])

Spells(w, s) == \E G : Spelled(w.tree, G) /\ w.d \in DOMAIN G /\ G[w.d] = s

(* What Normal does for a name.                                            *)
Spell(s, name) ==
    IF name = "." THEN s
    ELSE IF name # ".." THEN Append(s, name)
    ELSE IF s = <<>> THEN <<>>
    ELSE Front(s)

LEMMA FrontOfAppend ==
    ASSUME NEW S, NEW s \in Seq(S), NEW e \in S
    PROVE  Append(s, e) # <<>> /\ Front(Append(s, e)) = s
  <1> DEFINE a == Append(s, e)
             b == SubSeq(a, 1, Len(a) - 1)
  <1>1. /\ a \in Seq(S) /\ a # <<>> /\ Len(a) = Len(s) + 1 /\ Len(s) \in Nat
        /\ \A i \in 1..Len(s) : a[i] = s[i]
    BY AppendProperties
  <1>2. Len(a) - 1 = Len(s)
    BY <1>1
  <1> HIDE DEF a
  <1>3. \A i \in 1..(Len(a) - 1) : a[i] \in S
    BY <1>1, <1>2, ElementOfSeq
  <1>4. /\ b \in Seq(S)
        /\ Len(b) = IF 1 <= Len(a) - 1 THEN (Len(a) - 1) - 1 + 1 ELSE 0
        /\ \A i \in 1..((Len(a) - 1) - 1 + 1) : b[i] = a[1 + i - 1]
    BY <1>1, <1>3, SubSeqProperties
  <1> HIDE DEF b
  <1>5. Len(b) = Len(s) /\ \A i \in 1..Len(b) : b[i] = s[i]
    BY <1>1, <1>2, <1>4
  <1>6. b = s
    BY <1>4, <1>5, SeqEqual
  <1> QED
    BY <1>1, <1>6 DEF Front, a, b

SpelledWith(u, G, c, s) ==
    \E H : /\ Spelled(u, H) /\ DOMAIN H = DOMAIN G \cup {c} /\ H[c] = s
           /\ \A d \in DOMAIN G : H[d] = G[d]

(* Another dentry in G, in the same tree or in one that was grown.         *)
LEMMA SpelledMore ==
    ASSUME NEW t, NEW G, Spelled(t, G), NEW u, DOMAIN t \subseteq DOMAIN u,
           \A d \in DOMAIN t : u[d].parent = t[d].parent /\ u[d].name = t[d].name,
           Mounts(t, mount), List(mnt_list, mount),
           NEW c \in DOMAIN u, NEW s, Spelling(u, G, c, s), c \in DOMAIN G => G[c] = s
    PROVE  SpelledWith(u, G, c, s)
  <1> DEFINE H == [d \in DOMAIN G \cup {c} |-> IF d = c THEN s ELSE G[d]]
  <1>1. DOMAIN H = DOMAIN G \cup {c} /\ H[c] = s /\ \A d \in DOMAIN G : H[d] = G[d]
    OBVIOUS
  <1> HIDE DEF H
  <1>2. DOMAIN G \subseteq DOMAIN t
    BY DEF Spelled
  <1>3. \A m \in Range(mnt_list) : mount[m].mountpoint \in DOMAIN t
    BY DEF Range, List, Mounts
  <1>4. ASSUME NEW d \in DOMAIN H PROVE Spelling(u, H, d, H[d])
    <2>1. CASE d = c
      BY <1>1, <2>1 DEF Spelling
    <2>2. CASE d \in DOMAIN G
      <3>1. Spelling(t, G, d, G[d])
        BY <2>2 DEF Spelled
      <3>2. CASE d = 1
        BY <1>1, <2>2, <3>1, <3>2 DEF Spelling
      <3>3. CASE d # 1 /\ t[d].parent # d
        BY <1>1, <1>2, <2>2, <3>1, <3>3 DEF Spelling
      <3>4. CASE d # 1 /\ t[d].parent = d
        <4>1. PICK m \in Range(mnt_list) :
                /\ mount[m].root = d /\ mount[m].mountpoint \in DOMAIN G
                /\ t[mount[m].mountpoint].parent # mount[m].mountpoint
                /\ G[d] = G[mount[m].mountpoint]
          BY <3>1, <3>4 DEF Spelling
        <4>2. u[mount[m].mountpoint].parent # mount[m].mountpoint
          BY <1>3, <4>1
        <4>3. H[d] = H[mount[m].mountpoint] /\ mount[m].mountpoint \in DOMAIN H /\ H[d] = G[d]
          BY <1>1, <2>2, <4>1
        <4>4. G[d] \in Seq(Names \cup {NULL}) /\ u[d].parent = d
          BY <1>2, <2>2, <3>1, <3>4 DEF Spelling
        <4> QED
          BY <3>4, <4>1, <4>2, <4>3, <4>4 DEF Spelling
      <3> QED
        BY <3>2, <3>3, <3>4
    <2> QED
      BY <1>1, <2>1, <2>2
  <1>5. Spelled(u, H)
    BY <1>1, <1>2, <1>4 DEF Spelled
  <1> QED
    BY <1>1, <1>5 DEF SpelledWith

(* ".." takes the last name away.                                          *)
LEMMA DotDotSpells ==
    ASSUME NEW w, Good(w), w.res = "ok", NEW s, Spells(w, s)
    PROVE  Spells(DotDot(w), Spell(s, ".."))
  <1> DEFINE t == w.tree
  <1>1. /\ w \in WalkRec /\ w.d \in DOMAIN w.tree /\ w.m \in DOMAIN mount
        /\ Tree(w.tree) /\ Mounts(w.tree, mount) /\ List(mnt_list, mount)
        /\ w.tree[w.d].fs = mount[w.m].fs
        /\ w.d \in Nat /\ w.m \in Nat
    BY GoodFacts
  <1>2. PICK G : Spelled(t, G) /\ w.d \in DOMAIN G /\ G[w.d] = s
    BY DEF Spells
  <1>3. \A d \in DOMAIN G : Spelling(t, G, d, G[d]) /\ t[d].name \in Names \cup {NULL}
    <2>1. \A d \in DOMAIN G : d \in DOMAIN t
      BY <1>2 DEF Spelled
    <2> QED
      BY <1>1, <1>2, <2>1, TreeTypes DEF Spelled, DentryRec
  (* The last name of a dentry below a directory is its own.               *)
  <1>4. ASSUME NEW d \in DOMAIN G, d # 1, t[d].parent # d
        PROVE  /\ t[d].parent \in DOMAIN G
               /\ Spell(G[d], "..") = G[t[d].parent]
    <2>1. t[d].parent \in DOMAIN G /\ G[d] = Append(G[t[d].parent], t[d].name)
      BY <1>3, <1>4 DEF Spelling
    <2>2. G[t[d].parent] \in Seq(Names \cup {NULL}) /\ t[d].name \in Names \cup {NULL}
      BY <1>3, <2>1 DEF Spelling
    <2>3. G[d] # <<>> /\ Front(G[d]) = G[t[d].parent]
      BY <2>1, <2>2, FrontOfAppend
    <2> QED
      BY <2>1, <2>3 DEF Spell
  <1>5. CASE w.d = root_dentry
    <2>1. DotDot(w) = w
      BY <1>5 DEF DotDot
    <2>2. s = <<>>
      BY <1>2, <1>3, <1>5 DEF Spelling, root_dentry
    <2>3. Spell(s, "..") = s
      BY <2>2 DEF Spell
    <2> QED
      BY <2>1, <2>3
  <1>6. CASE w.d # root_dentry /\ t[w.d].parent # w.d
    <2> DEFINE d == t[w.d].parent
    <2>1. DotDot(w) = [w EXCEPT !.d = d]
      BY <1>6, Zenon DEF DotDot
    <2>2. DotDot(w).d = d /\ DotDot(w).tree = t
      BY <1>1, <2>1 DEF WalkRec
    <2>3. d \in DOMAIN G /\ Spell(s, "..") = G[d]
      BY <1>2, <1>4, <1>6 DEF root_dentry
    <2> QED
      BY <1>2, <2>2, <2>3 DEF Spells
  <1>7. CASE w.d # root_dentry /\ t[w.d].parent = w.d
    <2>1. PICK m \in Range(mnt_list) :
            /\ mount[m].root = w.d /\ mount[m].mountpoint \in DOMAIN G
            /\ t[mount[m].mountpoint].parent # mount[m].mountpoint
            /\ G[w.d] = G[mount[m].mountpoint]
      BY <1>2, <1>3, <1>7 DEF Spelling, root_dentry
    <2>2. m \in DOMAIN mount
      BY <1>1 DEF List, Range
    <2>3. m = w.m
      BY <1>1, <1>7, <2>1, <2>2, OneMount
    <2> DEFINE c == mount[w.m].mountpoint
               d == t[c].parent
               n == mount[w.m].parent
               v == [w EXCEPT !.d = c, !.m = n]
    <2>4. c # 1
      <3>1. t[1].parent = 1
        BY <1>1 DEF Tree
      <3> QED
        BY <2>1, <2>3, <3>1
    <2>5. d \in DOMAIN G /\ Spell(s, "..") = G[d]
      BY <1>2, <1>4, <2>1, <2>3, <2>4
    <2>6. DotDot(w) = [v EXCEPT !.d = t[v.d].parent]
      <3>1. ToMountpoint(w) = v
        BY DEF ToMountpoint
      <3> HIDE DEF v
      <3> QED
        BY <1>7, <3>1, Zenon DEF DotDot
    <2>7. DotDot(w).d = d /\ DotDot(w).tree = t
      <3>1. v.d = c /\ v.tree = t /\ DOMAIN v = DOMAIN w
        BY <1>1 DEF WalkRec
      <3> HIDE DEF c, n
      <3> QED
        BY <1>1, <2>6, <3>1 DEF WalkRec
    <2> HIDE DEF d
    <2> QED
      BY <1>2, <2>5, <2>7 DEF Spells
  <1> QED
    BY <1>5, <1>6, <1>7

(* A name is added, and what it leads to has the same names.               *)
LEMMA NameSpells ==
    ASSUME NEW w, Good(w), w.res = "ok", w.tree[w.d].isdir, NEW name \in Names,
           NEW s, Spells(w, s), do_lookup(w, name).res = "ok"
    PROVE  Spells(do_lookup(w, name), Append(s, name))
  <1> DEFINE t == w.tree
             hits == Hits(w, name)
             c == t[w.d].subdirs[Min(hits)]
             next == Append(s, name)
  <1>1. /\ w \in WalkRec /\ w.d \in DOMAIN t /\ w.m \in DOMAIN mount
        /\ Tree(t) /\ Mounts(t, mount) /\ List(mnt_list, mount)
        /\ t[w.d].fs = mount[w.m].fs
        /\ DOMAIN t = 1..Len(t) /\ Len(t) \in Nat \ {0} /\ w.d \in Nat
    BY GoodFacts
  <1>2. PICK G : Spelled(t, G) /\ w.d \in DOMAIN G /\ G[w.d] = s
    BY DEF Spells
  <1>3. s \in Seq(Names \cup {NULL}) /\ next \in Seq(Names \cup {NULL})
    <2>1. s \in Seq(Names \cup {NULL})
      BY <1>2 DEF Spelled, Spelling
    <2> QED
      BY <2>1, AppendProperties
  <1> HIDE DEF next
  <1>4. CASE hits # {}
    <2>1. hits \subseteq DOMAIN t[w.d].subdirs /\ hits \subseteq Nat
      <3>1. DOMAIN t[w.d].subdirs = 1..Len(t[w.d].subdirs) /\ Len(t[w.d].subdirs) \in Nat
        BY <1>1, TreeTypes
      <3>2. hits \subseteq DOMAIN t[w.d].subdirs
        BY DEF Hits
      <3> HIDE DEF hits
      <3> QED
        BY <3>1, <3>2
    <2>2. Min(hits) \in hits
      BY <1>4, <2>1, LeastElement
    <2>3. Min(hits) \in DOMAIN t[w.d].subdirs /\ t[c].name = name
      BY <2>2 DEF Hits
    <2> HIDE DEF hits
    <2>4. c \in DOMAIN t /\ c # w.d /\ t[c].parent = w.d /\ c # 1
      BY <1>1, <2>3 DEF Tree
    <2> DEFINE x == [w EXCEPT !.d = c]
    <2>5. do_lookup(w, name) = Cross(x)
      BY <1>4, Zenon DEF do_lookup, hits
    <2>6. x \in WalkRec /\ x.d = c /\ x.tree = t /\ x.m = w.m
      BY <1>1, <2>4 DEF WalkRec
    <2> HIDE DEF c, x
    <2>7. Spelling(t, G, c, next)
      BY <1>2, <1>3, <2>3, <2>4 DEF Spelling, next
    <2>8. c \in DOMAIN G => G[c] = next
      BY <1>2, <2>3, <2>4 DEF Spelled, Spelling, next
    <2>9. PICK H : Spelled(t, H) /\ DOMAIN H = DOMAIN G \cup {c} /\ H[c] = next
      <3>1. SpelledWith(t, G, c, next)
        BY <1>1, <1>2, <2>4, <2>7, <2>8, SpelledMore
      <3> QED
        BY <3>1 DEF SpelledWith
    <2>10. CASE Cross(x) = x
      BY <2>5, <2>6, <2>9, <2>10 DEF Spells, next
    <2>11. ASSUME NEW k \in Range(mnt_list), k \in DOMAIN mount, mount[k].mountpoint = c,
                  Cross(x) = [x EXCEPT !.d = mount[k].root, !.m = k]
           PROVE  Spells(do_lookup(w, name), next)
      <3> DEFINE r == mount[k].root
      <3>1. k # 1 /\ mount[1].root = 1 /\ 1 \in DOMAIN mount
        BY <1>1, <2>4, <2>11, OneMount DEF Mounts
      <3>2. r \in DOMAIN t /\ t[r].parent = r
        BY <1>1, <2>11 DEF Mounts
      <3>3. r # 1
        BY <1>1, <2>11, <3>1, OneMount
      <3>4. t[mount[k].mountpoint].parent # mount[k].mountpoint /\ H[mount[k].mountpoint] = next
        BY <2>4, <2>9, <2>11
      <3>5. Spelling(t, H, r, next)
        BY <1>3, <2>9, <2>11, <3>2, <3>3, <3>4 DEF Spelling
      <3>6. r \in DOMAIN H => H[r] = next
        <4> SUFFICES ASSUME r \in DOMAIN H PROVE H[r] = next
          OBVIOUS
        <4>1. PICK m \in Range(mnt_list) : mount[m].root = r /\ H[r] = H[mount[m].mountpoint]
          BY <2>9, <3>2, <3>3 DEF Spelled, Spelling
        <4>2. m \in DOMAIN mount
          BY <1>1 DEF List, Range
        <4>3. m = k
          BY <1>1, <2>11, <4>1, <4>2, OneMount
        <4> QED
          BY <3>4, <4>1, <4>3
      <3>7. PICK I : Spelled(t, I) /\ DOMAIN I = DOMAIN H \cup {r} /\ I[r] = next
        <4> HIDE DEF r
        <4>1. SpelledWith(t, H, r, next)
          BY <1>1, <2>9, <3>2, <3>5, <3>6, SpelledMore
        <4> QED
          BY <4>1 DEF SpelledWith
      <3>8. Cross(x).d = r /\ Cross(x).tree = t
        BY <2>6, <2>11 DEF WalkRec
      <3> HIDE DEF r
      <3> QED
        BY <2>5, <3>7, <3>8 DEF Spells
    <2>12. Crosses(w, c, x)
      <3>1. c # root_dentry /\ c \in DOMAIN w.tree /\ x.tree = w.tree
        BY <2>4, <2>6 DEF root_dentry
      <3> QED
        BY <2>6, <3>1, CrossCases
    <2> QED
      BY <2>10, <2>11, <2>12 DEF next, Crosses
  <1>5. CASE hits = {} /\ name \in Provides(t[w.d].fs) /\ t[w.d].parent = w.d
    <2> DEFINE v == Link(w, name, FALSE, Found(name), mount[w.m].fs)
               n == Len(t) + 1
    <2>1. do_lookup(w, name) = v
      BY <1>5, Zenon DEF do_lookup
    <2>2. Found(name) \in Inode
      BY DEF Found, Inode, ReadAll, Acl, Acls
    <2>3. mount[w.m].fs \in FsObjects
      <3>1. t[w.d] \in DentryRec
        BY <1>1, TreeTypes
      <3> QED
        BY <1>1, <3>1 DEF DentryRec
    <2>4. /\ v \in WalkRec /\ v.d = n
          /\ Linked(t, v.tree, w.d, name, FALSE, Found(name), mount[w.m].fs)
      <3> DEFINE isdir == FALSE
      <3>1. v = Link(w, name, isdir, Found(name), mount[w.m].fs) /\ isdir \in BOOLEAN
        OBVIOUS
      <3> HIDE DEF v, isdir
      <3>2. /\ v \in WalkRec /\ v.d = n
            /\ Linked(t, v.tree, w.d, name, isdir, Found(name), mount[w.m].fs)
        BY <1>1, <2>2, <2>3, <3>1, LinkLinks
      <3> QED
        BY <3>2 DEF isdir
    <2> HIDE DEF v
    <2>5. /\ n \in DOMAIN v.tree /\ DOMAIN t \subseteq DOMAIN v.tree /\ n \notin DOMAIN t
          /\ v.tree[n].name = name /\ v.tree[n].parent = w.d
          /\ \A d \in DOMAIN t : v.tree[d].parent = t[d].parent /\ v.tree[d].name = t[d].name
      <3>1. v.tree \in Seq(DentryRec) /\ Len(v.tree) = n
        BY <2>4 DEF Linked
      <3>2. DOMAIN v.tree = 1..n
        BY <3>1
      <3>3. v.tree[n].name = name /\ v.tree[n].parent = w.d
        BY <2>4, <3>1 DEF Linked
      <3>4. \A d \in DOMAIN t : v.tree[d].parent = t[d].parent /\ v.tree[d].name = t[d].name
        BY <2>4 DEF Linked
      <3> QED
        BY <1>1, <3>2, <3>3, <3>4
    <2>6. n # 1 /\ n # w.d
      BY <1>1
    <2> HIDE DEF n, t
    <2>7. Spelling(v.tree, G, n, next)
      BY <1>2, <1>3, <2>5, <2>6 DEF Spelling, next
    <2>8. n \notin DOMAIN G
      BY <1>2, <2>5 DEF Spelled
    <2>9. PICK H : Spelled(v.tree, H) /\ DOMAIN H = DOMAIN G \cup {n} /\ H[n] = next
      <3>1. SpelledWith(v.tree, G, n, next)
        BY <1>1, <1>2, <2>5, <2>7, <2>8, SpelledMore
      <3> QED
        BY <3>1 DEF SpelledWith
    <2> QED
      BY <2>1, <2>4, <2>9 DEF Spells, next
  <1>6. CASE hits = {} /\ ~(name \in Provides(t[w.d].fs) /\ t[w.d].parent = w.d)
    <2>1. do_lookup(w, name) = Fail(w)
      BY <1>6, Zenon DEF do_lookup
    <2> QED
      BY <2>1, FailGood
  <1> QED
    BY <1>4, <1>5, <1>6

(* The way up, which Trace goes: always to dentries made before.           *)
Rooted(d) == {i \in DOMAIN mnt_list : mount[mnt_list[i]].root = d}

LEMMA MountOfRoot ==
    ASSUME NEW t, Tree(t), Mounts(t, mount), List(mnt_list, mount), NEW d, Rooted(d) # {}
    PROVE  /\ mnt_list[Min(Rooted(d))] \in Range(mnt_list) /\ mnt_list[Min(Rooted(d))] \in DOMAIN mount
           /\ mount[mnt_list[Min(Rooted(d))]].root = d
  <1>1. mnt_list \in Seq(DOMAIN mount)
    BY DEF List
  <1>2. DOMAIN mnt_list = 1..Len(mnt_list) /\ Len(mnt_list) \in Nat
    BY <1>1
  <1>3. Rooted(d) \subseteq Nat
    BY <1>2 DEF Rooted
  <1>4. Min(Rooted(d)) \in Rooted(d)
    BY <1>3, LeastElement
  <1>5. Min(Rooted(d)) \in DOMAIN mnt_list /\ mount[mnt_list[Min(Rooted(d))]].root = d
    BY <1>4 DEF Rooted
  <1> QED
    BY <1>1, <1>2, <1>5, ElementOfSeq DEF Range

Up(t, g, d) ==
    IF d = root_dentry THEN <<>>
    ELSE IF t[d].parent # d THEN Append(g[t[d].parent], t[d].name)
    ELSE IF Rooted(d) = {} THEN <<NULL>>
    ELSE g[mount[mnt_list[Min(Rooted(d))]].mountpoint]

LEMMA UpBelow ==
    ASSUME NEW t, Tree(t), Mounts(t, mount), List(mnt_list, mount), NEW d \in DOMAIN t,
           NEW g, NEW h, \A e \in 1..(d - 1) : h[e] = g[e]
    PROVE  Up(t, h, d) = Up(t, g, d)
  <1> DEFINE m == mnt_list[Min(Rooted(d))]
  <1>1. d \in Nat /\ t[d].parent \in 1..d /\ d >= 1
    BY TreeTypes DEF Tree
  <1>2. CASE d = root_dentry
    BY <1>2 DEF Up
  <1>3. CASE d # root_dentry /\ t[d].parent # d
    <2>1. t[d].parent \in 1..(d - 1)
      BY <1>1, <1>3
    <2>2. h[t[d].parent] = g[t[d].parent]
      BY <2>1
    <2> QED
      BY <1>3, <2>2 DEF Up
  <1>4. CASE d # root_dentry /\ t[d].parent = d /\ Rooted(d) = {}
    BY <1>4 DEF Up
  <1>5. CASE d # root_dentry /\ t[d].parent = d /\ Rooted(d) # {}
    <2>1. m \in DOMAIN mount /\ mount[m].root = d
      BY <1>5, MountOfRoot
    <2> HIDE DEF m
    <2>2. m # 1
      BY <1>5, <2>1 DEF Mounts, root_dentry
    <2>3. mount[m].mountpoint \in DOMAIN t /\ mount[m].mountpoint < d
      BY <2>1, <2>2 DEF Mounts
    <2>4. mount[m].mountpoint \in Nat /\ mount[m].mountpoint >= 1
      <3>1. DOMAIN t = 1..Len(t) /\ Len(t) \in Nat
        BY TreeTypes
      <3> HIDE DEF m
      <3> QED
        BY <2>3, <3>1
    <2>5. h[mount[m].mountpoint] = g[mount[m].mountpoint]
      BY <1>1, <2>3, <2>4
    <2> QED
      BY <1>5, <2>5 DEF Up, m
  <1> QED
    BY <1>2, <1>3, <1>4, <1>5

LEMMA TraceGoesUp ==
    ASSUME NEW w, Tree(w.tree), Mounts(w.tree, mount), List(mnt_list, mount)
    PROVE  \E up : /\ up = [d \in DOMAIN w.tree |-> Up(w.tree, up, d)]
                   /\ Trace(w) = up[w.d]
  <1> DEFINE t == w.tree
             IsUp(k, g) == g = [d \in 1..k |-> Up(t, g, d)]
             S == {k \in Nat : k <= Len(t) => \E g : IsUp(k, g)}
  <1>1. DOMAIN t = 1..Len(t) /\ Len(t) \in Nat
    BY TreeTypes
  <1>2. 0 \in S
    <2>1. IsUp(0, [d \in 1..0 |-> d])
      OBVIOUS
    <2> QED
      BY <2>1
  <1>3. ASSUME NEW k \in Nat, k \in S PROVE k + 1 \in S
    <2> SUFFICES ASSUME k + 1 <= Len(t) PROVE \E g : IsUp(k + 1, g)
      OBVIOUS
    <2>1. PICK g : IsUp(k, g)
      BY <1>1, <1>3
    <2> DEFINE h == [d \in 1..(k + 1) |-> IF d = k + 1 THEN Up(t, g, d) ELSE g[d]]
    <2>2. ASSUME NEW d \in 1..(k + 1) PROVE h[d] = Up(t, h, d)
      <3>1. h[d] = Up(t, g, d)
        BY <2>1, <2>2
      <3>2. \A e \in 1..(d - 1) : h[e] = g[e]
        BY <2>2
      <3>3. d \in DOMAIN t
        BY <1>1, <2>2
      <3> HIDE DEF h, t
      <3>4. Up(t, h, d) = Up(t, g, d)
        BY <3>2, <3>3, UpBelow DEF t
      <3> QED
        BY <3>1, <3>4
    <2>3. IsUp(k + 1, h)
      <3>1. h = [d \in 1..(k + 1) |-> h[d]]
        OBVIOUS
      <3> HIDE DEF h
      <3> QED
        BY <2>2, <3>1
    <2> HIDE DEF IsUp, h
    <2> QED
      BY <2>3
  <1>4. \E g : IsUp(Len(t), g)
    <2>1. \A k \in Nat : k \in S
      <3> HIDE DEF S
      <3> QED
        BY <1>2, <1>3, SetInduction
    <2> HIDE DEF IsUp
    <2> QED
      BY <1>1, <2>1
  <1> DEFINE up == CHOOSE g : g = [d \in DOMAIN t |-> Up(t, g, d)]
  <1>5. up = [d \in DOMAIN t |-> Up(t, up, d)]
    BY <1>1, <1>4
  <1>6. Trace(w) = up[w.d]
    BY DEF Trace, Up, Rooted
  <1> QED
    BY <1>5, <1>6

LEMMA TraceIsSpelling ==
    ASSUME NEW w, Good(w), NEW s, Spells(w, s)
    PROVE  Trace(w) = s
  <1> DEFINE t == w.tree
  <1>1. Tree(t) /\ Mounts(t, mount) /\ List(mnt_list, mount) /\ w.d \in Nat
    BY GoodFacts
  <1>2. PICK up : up = [d \in DOMAIN t |-> Up(t, up, d)] /\ Trace(w) = up[w.d]
    BY <1>1, TraceGoesUp
  <1>3. PICK G : Spelled(t, G) /\ w.d \in DOMAIN G /\ G[w.d] = s
    BY DEF Spells
  <1>4. /\ DOMAIN G \subseteq DOMAIN t
        /\ \A d \in DOMAIN G : Spelling(t, G, d, G[d]) /\ up[d] = Up(t, up, d)
    BY <1>2, <1>3 DEF Spelled
  <1>5. \A d \in DOMAIN t : d \in Nat /\ t[d].parent \in Nat /\ t[d].parent <= d
    BY <1>1, TreeTypes
  <1> DEFINE S == {k \in Nat : \A d \in DOMAIN G : d <= k => up[d] = G[d]}
  <1> HIDE DEF t
  <1>6. 0 \in S
    <2>1. \A d \in DOMAIN G : d >= 1
      BY <1>1, <1>4, TreeTypes
    <2>2. \A d \in DOMAIN G : d \in Nat
      BY <1>4, <1>5
    <2> QED
      BY <2>1, <2>2
  <1>7. ASSUME NEW k \in Nat, k \in S PROVE k + 1 \in S
    <2> SUFFICES ASSUME NEW d \in DOMAIN G, d <= k + 1 PROVE up[d] = G[d]
      OBVIOUS
    <2>1. d \in DOMAIN t /\ d \in Nat /\ t[d].parent <= d /\ t[d].parent \in Nat
      BY <1>4, <1>5
    <2>2. \A e \in DOMAIN G : e \in Nat /\ e < d => up[e] = G[e]
      BY <1>7, <2>1
    <2>3. CASE d = 1
      BY <1>4, <2>3 DEF Spelling, Up, root_dentry
    <2>4. CASE d # 1 /\ t[d].parent # d
      <3>1. t[d].parent \in DOMAIN G /\ G[d] = Append(G[t[d].parent], t[d].name)
        BY <1>4, <2>4 DEF Spelling
      <3>2. up[t[d].parent] = G[t[d].parent]
        BY <2>1, <2>2, <2>4, <3>1
      <3>3. up[d] = Append(up[t[d].parent], t[d].name)
        BY <1>4, <2>4 DEF Up, root_dentry
      <3> QED
        BY <3>1, <3>2, <3>3
    <2>5. CASE d # 1 /\ t[d].parent = d
      <3> DEFINE n == mnt_list[Min(Rooted(d))]
      <3>1. PICK m \in Range(mnt_list) :
              mount[m].root = d /\ mount[m].mountpoint \in DOMAIN G /\ G[d] = G[mount[m].mountpoint]
        BY <1>4, <2>5 DEF Spelling
      <3>2. Rooted(d) # {} /\ m \in DOMAIN mount
        <4>1. PICK i \in DOMAIN mnt_list : mnt_list[i] = m
          BY DEF Range
        <4> QED
          BY <1>1, <3>1, <4>1 DEF Rooted, List, Range
      <3>3. n = m
        <4>1. n \in DOMAIN mount /\ mount[n].root = d
          BY <1>1, <3>2, MountOfRoot
        <4> HIDE DEF n
        <4> QED
          BY <1>1, <3>1, <3>2, <4>1, OneMount
      <3>4. up[d] = up[mount[n].mountpoint]
        BY <1>4, <2>5, <3>2 DEF Up, root_dentry
      <3> HIDE DEF n
      <3>5. m # 1
        BY <1>1, <2>5, <3>1 DEF Mounts
      <3>6. mount[m].mountpoint < d /\ mount[m].mountpoint \in Nat
        BY <1>1, <1>4, <1>5, <3>1, <3>2, <3>5 DEF Mounts
      <3> QED
        BY <2>2, <3>1, <3>3, <3>4, <3>6
    <2> QED
      BY <2>3, <2>4, <2>5
  <1>8. w.d \in S
    <2> HIDE DEF S
    <2>1. \A k \in Nat : k \in S
      BY <1>6, <1>7, SetInduction
    <2> QED
      BY <1>1, <2>1
  <1> QED
    BY <1>1, <1>2, <1>3, <1>8

(* The names of a path, one after the other.                               *)
IsNormal(names, norm) ==
    norm = [i \in 0..Len(names) |-> IF i = 0 THEN <<>> ELSE Spell(norm[i - 1], names[i])]

LEMMA NormalSpells ==
    ASSUME NEW names, Len(names) \in Nat
    PROVE  \E norm : IsNormal(names, norm) /\ Normal(names) = norm[Len(names)]
  <1> DEFINE n == Len(names)
             IsSpelt(k, g) ==
               g = [i \in 0..k |-> IF i = 0 THEN <<>> ELSE Spell(g[i - 1], names[i])]
             S == {k \in Nat : \E g : IsSpelt(k, g)}
  <1>1. 0 \in S
    <2>1. IsSpelt(0, [i \in 0..0 |-> <<>>])
      OBVIOUS
    <2> QED
      BY <2>1
  <1>2. ASSUME NEW k \in Nat, k \in S PROVE k + 1 \in S
    <2>1. PICK g : IsSpelt(k, g)
      BY <1>2
    <2> DEFINE h == [i \in 0..(k + 1) |-> IF i = k + 1 THEN Spell(g[k], names[k + 1]) ELSE g[i]]
    <2>2. ASSUME NEW i \in 0..(k + 1)
          PROVE  h[i] = IF i = 0 THEN <<>> ELSE Spell(h[i - 1], names[i])
      <3>1. CASE i = k + 1
        <4>1. i # 0 /\ i - 1 = k /\ k \in 0..(k + 1) /\ k # k + 1
          BY <3>1
        <4>2. h[k] = g[k]
          BY <4>1
        <4>3. h[i] = Spell(g[k], names[k + 1])
          BY <3>1
        <4> QED
          BY <3>1, <4>1, <4>2, <4>3
      <3>2. CASE i \in 0..k
        <4>1. g[i] = IF i = 0 THEN <<>> ELSE Spell(g[i - 1], names[i])
          BY <2>1, <3>2
        <4>2. h[i] = g[i]
          BY <3>2
        <4>3. i # 0 => h[i - 1] = g[i - 1]
          BY <3>2
        <4> QED
          BY <4>1, <4>2, <4>3
      <3> QED
        BY <3>1, <3>2
    <2>3. IsSpelt(k + 1, h)
      <3>1. h = [i \in 0..(k + 1) |-> h[i]]
        OBVIOUS
      <3> HIDE DEF h
      <3> QED
        BY <2>2, <3>1
    <2> HIDE DEF IsSpelt, h
    <2> QED
      BY <2>3
  <1>3. \E g : IsSpelt(n, g)
    <2> HIDE DEF S
    <2>1. \A k \in Nat : k \in S
      BY <1>1, <1>2, SetInduction
    <2> QED
      BY <2>1 DEF S
  <1> DEFINE norm == CHOOSE g : IsSpelt(n, g)
  <1>4. IsSpelt(n, norm)
    BY <1>3
  <1>5. Normal(names) = norm[n]
    BY DEF Normal, Spell
  <1> QED
    BY <1>4, <1>5 DEF IsNormal

LEMMA StartSpells ==
    ASSUME Len(dentry) \in Nat \ {0}
    PROVE  Spells(Start, <<>>)
  <1> DEFINE G == [d \in {1} |-> <<>>]
  <1>1. <<>> \in Seq(Names \cup {NULL})
    OBVIOUS
  <1>2. DOMAIN G = {1} /\ G[1] = <<>>
    OBVIOUS
  <1>3. 1 \in DOMAIN dentry
    OBVIOUS
  <1>4. Start.d = 1 /\ Start.tree = dentry
    BY DEF Start, root_dentry
  <1> HIDE DEF G
  <1>5. Spelled(dentry, G)
    BY <1>1, <1>2, <1>3 DEF Spelled, Spelling
  <1> QED
    BY <1>2, <1>4, <1>5 DEF Spells

LEMMA StepSpells ==
    ASSUME Tree(dentry), NEW w, GoodDir(w), NEW name \in Names \cup {".", ".."}, NEW last \in BOOLEAN,
           NEW s, w.res = "ok" => Spells(w, s), LookupStep(w, name, last).res = "ok"
    PROVE  Spells(LookupStep(w, name, last), Spell(s, name))
  <1>1. CASE w.res # "ok"
    <2>1. LookupStep(w, name, last) = w
      BY <1>1, Zenon DEF LookupStep
    <2> QED
      BY <1>1, <2>1
  <1>2. CASE w.res = "ok" /\ name = "."
    <2>1. LookupStep(w, name, last) = w
      BY <1>2, Zenon DEF LookupStep
    <2>2. Spell(s, name) = s
      BY <1>2 DEF Spell
    <2> QED
      BY <1>2, <2>1, <2>2
  <1>3. CASE w.res = "ok" /\ name = ".."
    <2>1. LookupStep(w, name, last) = DotDot(w)
      BY <1>3 DEF LookupStep
    <2>2. Spells(DotDot(w), Spell(s, ".."))
      BY <1>3, DotDotSpells DEF GoodDir
    <2> QED
      BY <1>3, <2>1, <2>2
  <1>4. CASE w.res = "ok" /\ name \notin {".", ".."}
    <2> DEFINE v == do_lookup(w, name)
               cond == v.res = "ok" /\ (last \/ v.tree[v.d].isdir)
    <2>1. name \in Names /\ Spell(s, name) = Append(s, name)
      BY <1>4 DEF Spell
    <2>2. LookupStep(w, name, last) = FailUnless(v, cond)
      BY <1>4, Zenon DEF LookupStep
    <2>3. Good(v)
      BY <1>4, <2>1, LookupGood DEF GoodDir
    <2>4. cond
      <3> SUFFICES ASSUME ~cond PROVE FALSE
        OBVIOUS
      <3>1. FailUnless(v, cond) = Fail(v)
        BY Zenon DEF FailUnless
      <3>2. Fail(v).res # "ok"
        BY <2>3, FailGood
      <3> QED
        BY <2>2, <3>1, <3>2
    <2>5. LookupStep(w, name, last) = v
      <3>1. FailUnless(v, cond) = v
        BY <2>4, Zenon DEF FailUnless
      <3> QED
        BY <2>2, <3>1
    <2>6. v.res = "ok" /\ w.tree[w.d].isdir
      BY <1>4, <2>4 DEF GoodDir
    <2> HIDE DEF cond
    <2>7. Spells(v, Append(s, name))
      BY <1>4, <2>1, <2>6, NameSpells DEF GoodDir
    <2> QED
      BY <2>1, <2>5, <2>7
  <1> QED
    BY <1>1, <1>2, <1>3, <1>4

LEMMA LookupSpells ==
    ASSUME Tree(dentry), GoodDir(Start), NEW p, p.names \in Seq(Names \cup {".", ".."}),
           p.dir \in BOOLEAN, path_lookup(p).res = "ok"
    PROVE  Trace(path_lookup(p)) = Normal(p.names)
  <1> DEFINE n == Len(p.names)
  <1>1. n \in Nat /\ \A i \in 1..n : p.names[i] \in Names \cup {".", ".."}
    BY ElementOfSeq
  <1>2. PICK norm : IsNormal(p.names, norm) /\ Normal(p.names) = norm[n]
    BY <1>1, NormalSpells
  <1>3. PICK walk :
          /\ IsLookupWalk(p, n, walk)
          /\ path_lookup(p) =
               FailUnless(walk[n], walk[n].res = "ok" /\ (p.dir => walk[n].tree[walk[n].d].isdir))
    BY <1>1, PathLookupWalk
  <1>4. norm = [i \in 0..n |-> IF i = 0 THEN <<>> ELSE Spell(norm[i - 1], p.names[i])]
    BY <1>2 DEF IsNormal
  <1> HIDE DEF n
  <1>5. \A k \in 0..n : Good(walk[k]) /\ (k = n \/ GoodDir(walk[k]))
    BY <1>3, LookupWalkGood DEF n
  <1>6. walk = [i \in 0..n |-> IF i = 0 THEN Start ELSE LookupStep(walk[i - 1], p.names[i], i = n)]
    BY <1>3 DEF IsLookupWalk
  <1>7. \A k \in 1..n : /\ walk[k] = LookupStep(walk[k - 1], p.names[k], k = n)
                        /\ norm[k] = Spell(norm[k - 1], p.names[k])
    BY <1>1, <1>4, <1>6
  <1> DEFINE S == {k \in Nat : k <= n => (walk[k].res = "ok" => Spells(walk[k], norm[k]))}
  <1>8. 0 \in S
    <2>1. walk[0] = Start /\ norm[0] = <<>>
      BY <1>1, <1>4, <1>6
    <2>2. Len(dentry) \in Nat \ {0}
      BY DEF Tree
    <2> QED
      BY <2>1, <2>2, StartSpells
  <1>9. ASSUME NEW k \in Nat, k \in S PROVE k + 1 \in S
    <2> SUFFICES ASSUME k + 1 <= n, walk[k + 1].res = "ok"
                 PROVE  Spells(walk[k + 1], norm[k + 1])
      OBVIOUS
    <2>1. k \in 0..n /\ k # n /\ k + 1 \in 1..n /\ (k + 1) - 1 = k
      BY <1>1
    <2>2. GoodDir(walk[k]) /\ (walk[k].res = "ok" => Spells(walk[k], norm[k]))
      BY <1>1, <1>5, <1>9, <2>1
    <2> DEFINE last == k + 1 = n
    <2>3. /\ walk[k + 1] = LookupStep(walk[k], p.names[k + 1], last)
          /\ norm[k + 1] = Spell(norm[k], p.names[k + 1])
      BY <1>7, <2>1
    <2>4. p.names[k + 1] \in Names \cup {".", ".."} /\ last \in BOOLEAN
      BY <1>1, <2>1
    <2> HIDE DEF last
    <2>5. Spells(LookupStep(walk[k], p.names[k + 1], last), Spell(norm[k], p.names[k + 1]))
      BY <2>2, <2>3, <2>4, StepSpells
    <2> QED
      BY <2>3, <2>5
  <1>10. walk[n].res = "ok" => Spells(walk[n], norm[n])
    <2>1. \A k \in Nat : k \in S
      <3> HIDE DEF S
      <3> QED
        BY <1>8, <1>9, SetInduction
    <2> QED
      BY <1>1, <2>1
  <1>11. Good(walk[n])
    BY <1>1, <1>5
  <1> DEFINE cond == walk[n].res = "ok" /\ (p.dir => walk[n].tree[walk[n].d].isdir)
  <1>12. cond
    <2> SUFFICES ASSUME ~cond PROVE FALSE
      OBVIOUS
    <2>1. FailUnless(walk[n], cond) = Fail(walk[n])
      BY Zenon DEF FailUnless
    <2>2. Fail(walk[n]).res # "ok"
      BY <1>11, FailGood
    <2> QED
      BY <1>3, <2>1, <2>2
  <1>13. path_lookup(p) = walk[n]
    <2>1. FailUnless(walk[n], cond) = walk[n]
      BY <1>12, Zenon DEF FailUnless
    <2> QED
      BY <1>3, <2>1
  <1>14. Trace(walk[n]) = norm[n]
    BY <1>10, <1>11, <1>12, TraceIsSpelling
  <1> QED
    BY <1>2, <1>13, <1>14

(* The way up from what a path names, through the directories and the      *)
(* mounts in the list, spells the path: the tracefile of vfs_test.c is     *)
(* right, and never reports a mount issue.                                 *)
THEOREM TraceSpellsPath == Spec => []TraceSpells
  <1>1. NamespaceInv => TraceSpells
    <2> SUFFICES ASSUME NamespaceInv, NEW p \in Paths, path_lookup(p).res = "ok"
                 PROVE  Trace(path_lookup(p)) = Normal(p.names)
      BY DEF TraceSpells
    <2>1. p.names \in Seq(Names \cup {".", ".."}) /\ p.dir \in BOOLEAN
      BY NamesAssumption
    <2>2. Tree(dentry) /\ GoodDir(Start)
      BY StartGood DEF NamespaceInv, Sound
    <2> QED
      BY <2>1, <2>2, LookupSpells
  <1> QED
    BY <1>1, NamespaceInvariant, PTL
=============================================================================
