-------------------------------- MODULE Vfs ---------------------------------
(***************************************************************************)
(* Path resolution, mounting and the reference counts of vnodes (vfs.c),   *)
(* over the read-only file system of the initrd.                           *)
(*                                                                         *)
(* A path and the name of an entry of the CPIO archive are the sequences   *)
(* of their components; the archive is parsed into its entries, in order,  *)
(* without a leading "./", and "." itself has no component.  An initrd     *)
(* vnode stands for an entry, and every lookup allocates a new one.  All   *)
(* callers resolve paths from g_root_vnode, so a leading "/" makes no      *)
(* difference.  The mount of devfs differs from that of tmpfs in that its  *)
(* root exists before.  What is in a mounted file system and in a file is  *)
(* left out; an open file is closed when its last descriptor goes (module  *)
(* FdTable).                                                               *)
(***************************************************************************)
EXTENDS Integers, Sequences, FiniteSets, FiniteSetsExt, SequencesExt

CONSTANTS
  Archives,    \* the initrds considered: sequences of [name, is_dir]
  MountPoints, \* where kernel_entry mounts a tmpfs after the initrd on "/"
  Paths,       \* bound: the paths used by processes
  NVnodes,     \* bound: the vnodes memory has room for
  Files, Procs, init,
  MaxForks     \* bound on the number of forks

ASSUME VfsConstants ==
  /\ init \in Procs /\ MaxForks \in Nat /\ NVnodes \in Nat \ {0}

VARIABLES
  archive,  \* g_initrd.entries
  vnode,    \* vnode -> refcount (0: not allocated), the entry it stands for,
            \* the root mounted on it and the mount point it covers
  mounted,  \* g_mount_list: [path, root]
  todo,     \* the mounts still to be made while booting
  file,     \* open file -> its vnode
  cwd,      \* process -> its current directory, or NULL if there is none
  forks,
  debt      \* ghost: [owed, lost], vnode -> references in use but not counted
            \* and references counted but gone

vars == <<archive, vnode, mounted, todo, file, cwd, forks, debt>>

NULL == 0
Vnodes == 1 .. NVnodes
RootEnt == 0       \* the entry of the initrd's root
OtherFs == -1      \* that of the root of another file system
NoVnode == [ref |-> 0, ent |-> RootEnt, mount |-> NULL, covered |-> NULL]
g_root_vnode == 1  \* g_initrd.root_vn

-----------------------------------------------------------------------------
(* Reference counts, on the table V of vnodes *)

\* A new vnode for entry e, or NULL when memory is short.
Unused(V) == {v \in Vnodes : V[v].ref = 0}
NewId(V) == IF Unused(V) = {} THEN NULL ELSE Min(Unused(V))
vnode_alloc(V, e) == [V EXCEPT ![NewId(V)] = [NoVnode EXCEPT !.ref = 1, !.ent = e]]

vnode_get(V, v) == [V EXCEPT ![v].ref = @ + 1]

vnode_put(V, v) == [V EXCEPT ![v] = IF @.ref = 1 THEN NoVnode ELSE [@ EXCEPT !.ref = @ - 1]]

-----------------------------------------------------------------------------
(* Path resolution *)

NameOf(e) == IF e = RootEnt THEN <<>> ELSE archive[e].name
IsDir(e) == e \in {RootEnt, OtherFs} \/ archive[e].is_dir

\* Wrong variant: an entry is taken for any directory that has its prefix.
LookupLoose(e, c) ==
  LET match == {i \in DOMAIN archive : Contains(archive[i].name, c)}
  IN IF match = {} THEN NULL ELSE Min(match)

\* initrd_vn_lookup: the first entry below the directory e whose next
\* component is c, be it the child itself or something inside the child.
initrd_vn_lookup(e, c) ==
  LET match == {i \in DOMAIN archive : IsPrefix(Append(NameOf(e), c), archive[i].name)}
  IN IF match = {} THEN NULL ELSE Min(match)

\* Wrong variant: everything below the directory is listed.
ReaddirDeep(e) ==
  SelectSeq(archive, LAMBDA x : IsPrefix(NameOf(e), x.name) /\ Len(x.name) > Len(NameOf(e)))

\* What initrd_vn_readdir gives for the offsets 0, 1, ... of directory e.
initrd_vn_readdir(e) ==
  SelectSeq(archive, LAMBDA x : IF NameOf(e) = <<>> THEN Len(x.name) <= 1
                                ELSE IsPrefix(NameOf(e), x.name) /\ Len(x.name) = Len(NameOf(e)) + 1)

\* Moves a walk from r.at to the vnode v, which is not new.
MoveTo(r, v) == [r EXCEPT !.V = vnode_get(vnode_put(r.V, r.at), v), !.at = v]

IntoMount(r) == IF r.V[r.at].mount = NULL THEN r ELSE MoveTo(r, r.V[r.at].mount)

\* Wrong variant: the directory is not released when a component is missing.
WalkLeaks(r, c) ==
  LET m == IntoMount(r)
      e == initrd_vn_lookup(m.V[m.at].ent, c)
  IN IF r.err # "" THEN r
     ELSE IF c = "." THEN m
     ELSE IF e = NULL \/ NewId(m.V) = NULL THEN [m EXCEPT !.at = NULL, !.err = "ENOENT"]
     ELSE [m EXCEPT !.V = vnode_put(vnode_alloc(m.V, e), m.at), !.at = NewId(m.V)]

\* One component of vfs_lookup from r: the vnodes, where it is, and an error.
\* The initrd has no entry named "..".
Walk(r, c) ==
  LET m == IntoMount(r)
      here == m.V[m.at]
      e == initrd_vn_lookup(here.ent, c)
      Fail(err) == [V |-> vnode_put(m.V, m.at), at |-> NULL, err |-> err]
  IN IF r.err # "" THEN r
     ELSE IF c = "." THEN m
     ELSE IF c = ".." /\ here.covered # NULL THEN MoveTo(m, here.covered)
     ELSE IF here.ent = OtherFs \/ e = NULL THEN Fail("ENOENT")
     ELSE IF NewId(m.V) = NULL THEN Fail("ENOMEM")
     ELSE [m EXCEPT !.V = vnode_put(vnode_alloc(m.V, e), m.at), !.at = NewId(m.V)]

\* vfs_lookup(g_root_vnode, path): on success the caller holds a reference.
vfs_lookup(V, path) ==
  LET start == [V |-> vnode_get(V, g_root_vnode), at |-> g_root_vnode, err |-> ""]
      step[i \in 0 .. Len(path)] == IF i = 0 THEN start ELSE Walk(step[i - 1], path[i])
      end == step[Len(path)]
  IN IF end.err = "" THEN IntoMount(end) ELSE end

\* vfs_lookup_parent: everything but the last component.
vfs_lookup_parent(V, path) == vfs_lookup(V, Front(path))

-----------------------------------------------------------------------------
(* Booting: the initrd is mounted on "/", then the other file systems *)

Init ==
  /\ archive \in Archives
  /\ vnode = [v \in Vnodes |-> IF v = g_root_vnode THEN [NoVnode EXCEPT !.ref = 2] ELSE NoVnode]
  /\ mounted = {} /\ todo = MountPoints
  /\ file = [f \in Files |-> NULL] /\ cwd = [p \in Procs |-> NULL]
  /\ forks = 0 /\ debt = [owed |-> [v \in Vnodes |-> 0], lost |-> [v \in Vnodes |-> 0]]

\* Wrong variant: the reference to the mount point is not recorded.
MountForgetsPoint ==
  /\ todo # <<>>
  /\ LET r == vfs_lookup(vnode_alloc(vnode, OtherFs), Head(todo))
     IN IF NewId(vnode) = NULL \/ r.err # "" THEN UNCHANGED <<vnode, mounted>>
        ELSE /\ vnode' = r.V
             /\ mounted' = mounted \cup {[path |-> Head(todo), root |-> NewId(vnode), mount_pt |-> NULL]}
  /\ todo' = Tail(todo)
  /\ UNCHANGED <<archive, file, cwd, forks, debt>>

\* vfs_mount of a new tmpfs on Head(todo).  The reference to the mount
\* point, a vnode of its own, is kept in mount_pt.
vfs_mount ==
  /\ todo # <<>>
  /\ LET root == NewId(vnode)
         r == vfs_lookup(vnode_alloc(vnode, OtherFs), Head(todo))
     IN IF root = NULL THEN UNCHANGED <<vnode, mounted>>
        ELSE IF r.err # "" THEN vnode' = vnode_put(r.V, root) /\ UNCHANGED mounted
        ELSE /\ vnode' = [r.V EXCEPT ![r.at].mount = root, ![root].covered = r.at]
             /\ mounted' = mounted \cup {[path |-> Head(todo), root |-> root, mount_pt |-> r.at]}
  /\ todo' = Tail(todo)
  /\ UNCHANGED <<archive, file, cwd, forks, debt>>

\* kernel_main_thread: proc_create gives init the root as current directory
\* without taking a reference.
start_init ==
  /\ todo = <<>> /\ cwd[init] = NULL /\ forks = 0
  /\ cwd' = [cwd EXCEPT ![init] = g_root_vnode]
  /\ debt' = [debt EXCEPT !.owed[g_root_vnode] = @ + 1]
  /\ UNCHANGED <<archive, vnode, mounted, todo, file, forks>>

-----------------------------------------------------------------------------
(* System calls *)

Alive(p) == cwd[p] # NULL

\* O_EXCL is read together with O_CREAT only.
Flags == {flags \in SUBSET {"O_CREAT", "O_EXCL", "O_DIRECTORY"} : "O_EXCL" \in flags => "O_CREAT" \in flags}

\* Wrong variant: the file takes no reference of its own.
OpenNoGet(path, flags, f) ==
  LET r == vfs_lookup(vnode, path)
  IN IF r.err # "" THEN [V |-> r.V, at |-> NULL]
     ELSE [V |-> vnode_put(r.V, r.at), at |-> IF f = NULL THEN NULL ELSE r.at]

\* vfs_open: the vnodes, and the vnode of the new file f or NULL.  The
\* initrd creates no files.  f is NULL when memory or descriptors are short.
vfs_open(path, flags, f) ==
  LET r == vfs_lookup(vnode, path)
      parent == vfs_lookup_parent(r.V, path)
      No(V) == [V |-> V, at |-> NULL]
  IN IF r.err = "ENOENT" /\ "O_CREAT" \in flags
     THEN No(IF parent.err # "" THEN parent.V ELSE vnode_put(parent.V, parent.at))
     ELSE IF r.err # "" THEN No(r.V)
     ELSE IF \/ {"O_CREAT", "O_EXCL"} \subseteq flags
             \/ "O_DIRECTORY" \in flags /\ ~IsDir(r.V[r.at].ent)
             \/ f = NULL
     THEN No(vnode_put(r.V, r.at))
     ELSE [V |-> vnode_put(vnode_get(r.V, r.at), r.at), at |-> r.at]

\* open, stat, mkdir and unlink do the same whichever process calls them.
sys_open(path, flags, f) ==
  /\ Alive(init)
  /\ f # NULL => file[f] = NULL
  /\ LET r == vfs_open(path, flags, f)
     IN vnode' = r.V /\ file' = IF r.at = NULL THEN file ELSE [file EXCEPT ![f] = r.at]
  /\ UNCHANGED <<archive, mounted, todo, cwd, forks, debt>>

\* file_put of the last reference to f.
file_put(f) ==
  /\ file[f] # NULL
  /\ vnode' = vnode_put(vnode, file[f]) /\ file' = [file EXCEPT ![f] = NULL]
  /\ UNCHANGED <<archive, mounted, todo, cwd, forks, debt>>

\* sys_stat; sys_mkdir and sys_unlink, which no vnode of the initrd offers.
sys_stat(path) ==
  /\ Alive(init)
  /\ LET r == vfs_lookup(vnode, path)
     IN vnode' = IF r.err = "" THEN vnode_put(r.V, r.at) ELSE r.V
  /\ UNCHANGED <<archive, mounted, todo, file, cwd, forks, debt>>

sys_mkdir(path) ==
  /\ Alive(init)
  /\ LET r == vfs_lookup_parent(vnode, path)
     IN vnode' = IF r.err = "" THEN vnode_put(r.V, r.at) ELSE r.V
  /\ UNCHANGED <<archive, mounted, todo, file, cwd, forks, debt>>

\* sys_chdir drops a reference for the old directory, counted or not.
sys_chdir(p, path) ==
  /\ Alive(p)
  /\ LET r == vfs_lookup(vnode, path)
     IN IF r.err # "" THEN vnode' = r.V /\ UNCHANGED cwd
        ELSE IF ~IsDir(r.V[r.at].ent) THEN vnode' = vnode_put(r.V, r.at) /\ UNCHANGED cwd
        ELSE vnode' = vnode_put(r.V, cwd[p]) /\ cwd' = [cwd EXCEPT ![p] = r.at]
  /\ UNCHANGED <<archive, mounted, todo, file, forks, debt>>

proc_fork(p, c) ==
  /\ Alive(p) /\ ~Alive(c) /\ c # init /\ forks < MaxForks
  /\ vnode' = vnode_get(vnode, cwd[p]) /\ cwd' = [cwd EXCEPT ![c] = cwd[p]]
  /\ forks' = forks + 1
  /\ UNCHANGED <<archive, mounted, todo, file, debt>>

\* proc_exit and proc_destroy keep the reference to the current directory.
proc_destroy(p) ==
  /\ Alive(p) /\ p # init
  /\ cwd' = [cwd EXCEPT ![p] = NULL] /\ debt' = [debt EXCEPT !.lost[cwd[p]] = @ + 1]
  /\ UNCHANGED <<archive, vnode, mounted, todo, file, forks>>

Next ==
  \/ vfs_mount \/ start_init
  \/ \E f \in Files : file_put(f)
  \/ \E path \in Paths :
       \/ \E flags \in Flags, f \in Files \cup {NULL} : sys_open(path, flags, f)
       \/ sys_stat(path) \/ sys_mkdir(path)
       \/ \E p \in Procs : sys_chdir(p, path)
  \/ \E p, c \in Procs : proc_fork(p, c)
  \/ \E p \in Procs : proc_destroy(p)

Spec == Init /\ [][Next]_vars

-----------------------------------------------------------------------------
(* Properties *)

\* The vnodes, mounts, files and directories have their types.
TypeOK ==
  /\ vnode \in [Vnodes -> [ref : Nat, ent : (-1) .. Len(archive), mount : Vnodes \cup {NULL}, 
                           covered : Vnodes \cup {NULL}]]
  /\ \A m \in mounted : m.root \in Vnodes /\ m.mount_pt \in Vnodes
  /\ file \in [Files -> Vnodes \cup {NULL}] /\ cwd \in [Procs -> Vnodes \cup {NULL}]

\* The places that refer to vnode v.
UsesOf(v) ==
  (IF v = g_root_vnode THEN {<<"root_vn">>, <<"/">>} ELSE {})
    \cup {<<"mount", m.path>> : m \in {n \in mounted : n.root = v}}
    \cup {<<"mount_pt", m.path>> : m \in {n \in mounted : n.mount_pt = v}}
    \cup {<<"file", f>> : f \in {g \in Files : file[g] = v}}
    \cup {<<"cwd", p>> : p \in {q \in Procs : cwd[q] = v}}

\* Reference counts are exact: whatever calls succeed, fail half-way or run out
\* of memory, a vnode has a reference for each file, directory and mount that
\* uses it, except for the directory init starts in, for which none was taken,
\* and those of destroyed processes, which are not given back.
RefsExact ==
  \A v \in Vnodes : vnode[v].ref + debt.owed[v] = Cardinality(UsesOf(v)) + debt.lost[v]

\* Nothing refers to a freed vnode; the reference init's directory lacks is not
\* enough for chdir, close and exit to free the root under its users.
UseSafe == \A v \in Vnodes : UsesOf(v) # {} => vnode[v].ref > 0

\* An archive made from a directory tree: directories come before what they
\* contain.
Complete ==
  \A i \in DOMAIN archive : \A n \in 1 .. (Len(archive[i].name) - 1) :
    \E j \in 1 .. (i - 1) : archive[j].name = SubSeq(archive[i].name, 1, n) /\ archive[j].is_dir

\* The paths without "..", and the name such a path stands for.
PlainPaths == {path \in Paths : ~Contains(path, "..")}
Plain(path) == SelectSeq(path, LAMBDA c : c # ".")

Named(path) == {i \in DOMAIN archive : archive[i].name = path}

Covered(name) == \E m \in mounted : IsPrefix(m.path, name)

\* Where no file system is mounted, vfs_lookup finds nothing but what is at or
\* below the path in any archive, and in a complete one the entry of the path,
\* or that there is none.
LookupFinds ==
  \A path \in PlainPaths :
    LET r == vfs_lookup(vnode, path)
        name == Plain(path)
        found == NameOf(r.V[r.at].ent)
    IN r.err # "ENOMEM" /\ ~Covered(name) =>
         /\ r.err = "" => IsPrefix(name, found)
         /\ Complete \/ name = <<>> =>
              IF name = <<>> \/ Named(name) # {} THEN r.err = "" /\ found = name ELSE r.err = "ENOENT"

Names == UNION {Range(x.name) : x \in Range(archive)}

\* The names readdir lists in a directory of a complete archive are those that
\* lookup finds in it, and the empty name that the entry "." got.
ReaddirMatchesLookup ==
  Complete =>
    \A e \in {RootEnt} \cup {i \in DOMAIN archive : IsDir(i)} :
      {x.name : x \in Range(initrd_vn_readdir(e))} =
        {Append(NameOf(e), c) : c \in {d \in Names : initrd_vn_lookup(e, d) # NULL}}
          \cup {archive[i].name : i \in {j \in Named(<<>>) : NameOf(e) = <<>>}}
=============================================================================
