------------------------------- MODULE LfTree -------------------------------
(***************************************************************************)
(* The directory tree that lf searches, and the decisions finder() takes   *)
(* about one directory entry: is it skipped, is it listed, is it descended  *)
(* into.  A directory is visited under a path, the sequence of entries that *)
(* leads to it from the base directory; <<>> is the base itself.            *)
(***************************************************************************)
EXTENDS Naturals, Sequences

CONSTANTS
    Entry,          \* directory entries, one for every name in a directory
    Dir,            \* directories (dev/ino pairs)
    Base,           \* the directory lf was asked to search
    In,             \* In[e]: the directory that holds e
    Kind,           \* Kind[e]: what lstat and stat say of e
    Target,         \* Target[e]: the directory e resolves to, Nowhere otherwise
    Nowhere,
    Hidden,         \* entries whose name starts with a dot
    Wanted,         \* entries the remaining filters of scan_file let through
    Unreadable,     \* directories openat or fdopendir fails on
    FollowLinks, IncludeHidden, HiddenOnly,   \* -L, -H, -Ho
    MaxDepth        \* -d, 0 for no limit

Kinds == {"file", "dir", "dirlink", "dangling", "gone"}

ASSUME TreeAssumption ==
    /\ Base \in Dir
    /\ Nowhere \notin Dir
    /\ In \in [Entry -> Dir]
    /\ Kind \in [Entry -> Kinds]
    /\ Target \in [Entry -> Dir \cup {Nowhere}]
    /\ \A e \in Entry : Kind[e] \in {"dir", "dirlink"} <=> Target[e] \in Dir
    /\ Hidden \subseteq Entry
    /\ Wanted \subseteq Entry
    /\ Unreadable \subseteq Dir
    /\ FollowLinks \in BOOLEAN
    /\ IncludeHidden \in BOOLEAN
    /\ HiddenOnly \in BOOLEAN
    /\ MaxDepth \in Nat

Path == Seq(Entry)
Root == <<>>

DirOf(p) == IF p = Root THEN Base ELSE Target[p[Len(p)]]
EntriesOf(p) == {e \in Entry : In[e] = DirOf(p)}
Readable(p) == DirOf(p) \notin Unreadable

\* The dev/ino array a task carries: one slot for each step of its path.  The
\* slot of the base directory is overwritten by the first child.
History(p) == {Target[p[i]] : i \in 1..Len(p)}

\* The guards of the readdir loop, in the order the code tests them.
StatFails(e) == Kind[e] \in {"gone", "dangling"}
AsDir(e)     == Kind[e] = "dir" \/ (Kind[e] = "dirlink" /\ FollowLinks)
Cyclic(p, e) == Target[e] \in History(p)
TooDeep(p)   == MaxDepth # 0 /\ Len(p) + 1 = MaxDepth

Descends(p, e) == AsDir(e) /\ ~Cyclic(p, e) /\ ~TooDeep(p)

Shown(e) ==
    IF AsDir(e) THEN HiddenOnly => e \in Hidden
                ELSE IF e \in Hidden THEN IncludeHidden ELSE ~HiddenOnly

Lists(p, e) ==
    /\ ~StatFails(e)
    /\ AsDir(e) => Descends(p, e)
    /\ Shown(e)
    /\ e \in Wanted

\* The entries that make finder() record EXIT_FAILURE.
Fails(p, e) == StatFails(e) \/ (AsDir(e) /\ Cyclic(p, e))

\* The number of finder threads init_find starts, from -T (0 when it is not
\* given) and the number of processors.
NThreads(requested, nprocs) ==
    LET n == IF requested > 1 /\ requested < nprocs THEN requested + nprocs
             ELSE IF requested = 0 THEN (nprocs * 40) \div 99 + 1
             ELSE requested
    IN  IF n > nprocs THEN nprocs - 1 ELSE n
=============================================================================
