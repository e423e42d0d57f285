-------------------------------- MODULE Cache --------------------------------
(***************************************************************************)
(* The disk cache of AVFS (src/src/cache.c).  It is a list of cells        *)
(* (struct cacheobj), newest first.  A cell refers to one reference        *)
(* counted object and records how much disk that object uses; when space   *)
(* is short the cells at the end of the list lose their objects.           *)
(*                                                                         *)
(* A V1 cell ("ext") belongs to its users and outlives its object.  A V2   *)
(* cell ("int") belongs to the cache, is found by name, and is freed with  *)
(* its object.  All of the list is guarded by cachelock, but the lock is   *)
(* dropped every time a stored object is released, because the destructor  *)
(* of the object may call the cache again.  Each action below is one       *)
(* stretch of code between two points where other threads can run.         *)
(***************************************************************************)
EXTENDS Integers, Sequences, FiniteSets

CONSTANTS
    Threads,         \* threads that call the cache
    CObjs,           \* addresses of struct cacheobj; each is allocated once
    Objs,            \* the objects stored; each is created once
    Names,           \* names of V2 cells
    Sizes,           \* disk usages a caller reports
    Limits,          \* values written to #avfsstat/cache/limit
    KeepFrees,       \* values written to #avfsstat/cache/keep_free
    FreeSpaces,      \* answers of av_tmp_free, -1 when it does not know
    DefaultLimit,    \* initial disk_cache_limit
    DefaultKeepFree, \* initial disk_keep_free
    MaxOff,          \* AV_MAXOFF, the largest avoff_t
    PerNameLock,     \* do callers of av_cache2_set serialise on the name?
    None             \* the NULL pointer

ASSUME FiniteAssumption == IsFiniteSet(Threads) /\ IsFiniteSet(CObjs)
ASSUME NoneAssumption   == None \notin Threads \cup CObjs \cup Objs \cup Names
ASSUME SizeAssumption ==
    /\ MaxOff \in Nat /\ Sizes \subseteq 0..MaxOff
    /\ Limits \cup KeepFrees \cup {DefaultLimit, DefaultKeepFree} \subseteq 0..MaxOff
    /\ FreeSpaces \subseteq -1..MaxOff
ASSUME LockAssumption == PerNameLock \in BOOLEAN

\* FreeSpaces where av_tmp_free never knows.
OnlyUnknown == {-1}

VARIABLES
    cachelock,        \* the holder of cachelock, or None
    lru,              \* cachelist from cachelist.next to cachelist.prev
    kind,             \* none, ext, int, new (V2, not inserted yet), freed
    obj,              \* cobj->obj
    diskusage,        \* cobj->diskusage
    name,             \* cobj->name of a V2 cell
    users,            \* the holders of a reference to a V1 cell
    disk_usage,
    disk_cache_limit,
    disk_keep_free,
    born,             \* the objects created so far
    refctr,           \* reference count in the object's header
    hold,             \* the object the thread holds a reference to, or None
    pc,               \* where in the cache's code the thread is
    ret,              \* where it continues after releasing an object
    tmp,              \* the object it is about to release (tmpcobj.obj)
    arg,              \* the cell it deletes or inserts
    limit,            \* local of cache_checkspace
    skip,             \* skip_entry
    tmpfree,          \* local of cache_checkspace
    key,              \* the name it has just set and is about to give a size
    exited,           \* the exit handler has started
    crashed           \* a NULL pointer was dereferenced

cells  == <<lru, kind, obj, diskusage, name, users, disk_usage>>
knobs  == <<disk_cache_limit, disk_keep_free>>
objs   == <<born, refctr, hold>>
check  == <<limit, skip, tmpfree, key>>
local  == <<pc, ret, tmp, arg, check>>
vars   == <<cachelock, cells, knobs, objs, local, exited, crashed>>

Kinds  == {"none", "new", "ext", "int", "freed"}
Places == {"idle", "loop", "clear", "destroy", "insert", "delete", "free"}

\* The values of type avoff_t.
Offsets == (-MaxOff - 1)..MaxOff

Listed(s) == {s[i] : i \in DOMAIN s}

----------------------------------------------------------------------------
(* Helpers.                                                                *)

\* avoff_t arithmetic wraps around.
Wrap(x) == ((x + MaxOff + 1) % (2 * MaxOff + 2)) - MaxOff - 1

\* av_ref_obj and av_unref_obj on the counter.
RefForgotten(n) == n  \* mutant: av_ref_obj left out
Ref(n)   == IF n > 0 THEN n + 1 ELSE n
Unref(n) == IF n >= 0 THEN n - 1 ELSE n

\* cacheobj_remove and cacheobj_insert: the list without c, and with c in front.
Position(s, c) == CHOOSE i \in DOMAIN s : s[i] = c
WithoutLast(s, c) == SubSeq(s, 1, Len(s) - 1)  \* mutant: the last cell goes, not c
Without(s, c)  == [j \in 1..(Len(s) - 1) |->
                       IF j < Position(s, c) THEN s[j] ELSE s[j + 1]]
InFront(s, c)  == [j \in 1..(Len(s) + 1) |-> IF j = 1 THEN c ELSE s[j - 1]]

\* cacheobj2_find: the newest V2 cell called n.
Find(n) ==
    LET hits == {i \in DOMAIN lru : kind[lru[i]] = "int" /\ name[lru[i]] = n}
    IN  IF hits = {} THEN None
        ELSE lru[CHOOSE i \in hits : \A j \in hits : i <= j]

\* Mutants of Victim: skip_entry is not looked at; or nothing is tried once
\* the last cell is the one to be skipped.
VictimUnskipped(s) == IF lru = <<>> THEN None ELSE lru[Len(lru)]
VictimLastOnly(s)  == IF lru = <<>> \/ lru[Len(lru)] = s THEN None ELSE lru[Len(lru)]

\* cache_free_one: the last cell of the list, or the one before it when the
\* last one is to be skipped.
Victim(s) ==
    LET n == Len(lru)
        k == IF n > 0 /\ lru[n] = s THEN n - 1 ELSE n
    IN  IF k = 0 THEN None ELSE lru[k]

\* cache_checkspace: the limit, computed once from the usage before the loop.
SpaceLimit(usage, free) ==
    LET known == IF free = -1 THEN MaxOff ELSE free
        room  == Wrap(usage - disk_keep_free + known)
    IN  IF disk_cache_limit < room THEN disk_cache_limit ELSE room

Ready(t)   == pc[t] = "idle" /\ key[t] = None /\ ~exited /\ ~crashed
MayLock(t) == cachelock \in {None, t}

\* The thread leaves the cache.
Return(t) ==
    /\ UNCHANGED key
    /\ pc' = [pc EXCEPT ![t] = "idle"]
    /\ ret' = [ret EXCEPT ![t] = "idle"]
    /\ arg' = [arg EXCEPT ![t] = None]
    /\ limit' = [limit EXCEPT ![t] = 0]
    /\ skip' = [skip EXCEPT ![t] = None]
    /\ tmpfree' = [tmpfree EXCEPT ![t] = 0]

\* Mutant of Unlink: disk_usage is not reduced.
UnlinkUncounted(t, c, dies, next) ==
    /\ lru' = Without(lru, c)
    /\ UNCHANGED disk_usage
    /\ obj' = [obj EXCEPT ![c] = None]
    /\ tmp' = [tmp EXCEPT ![t] = obj[c]]
    /\ kind' = [kind EXCEPT ![c] = IF dies \/ kind[c] = "int" THEN "freed" ELSE @]
    /\ cachelock' = None
    /\ pc' = [pc EXCEPT ![t] = "free"]
    /\ ret' = [ret EXCEPT ![t] = next]

\* Take cell c out of the list, drop the lock and go on to release its
\* object: the common part of cache_free_one and of the two destructors.
\* A V2 cell is freed; a V1 cell stays with its users unless dies.
Unlink(t, c, dies, next) ==
    /\ lru' = Without(lru, c)
    /\ disk_usage' = disk_usage - diskusage[c]
    /\ obj' = [obj EXCEPT ![c] = None]
    /\ tmp' = [tmp EXCEPT ![t] = obj[c]]
    /\ kind' = [kind EXCEPT ![c] = IF dies \/ kind[c] = "int" THEN "freed" ELSE @]
    /\ cachelock' = None
    /\ pc' = [pc EXCEPT ![t] = "free"]
    /\ ret' = [ret EXCEPT ![t] = next]

----------------------------------------------------------------------------
Init ==
    /\ cachelock = None
    /\ lru = <<>>
    /\ kind = [c \in CObjs |-> "none"]
    /\ obj = [c \in CObjs |-> None]
    /\ diskusage = [c \in CObjs |-> 0]
    /\ name = [c \in CObjs |-> None]
    /\ users = [c \in CObjs |-> {}]
    /\ disk_usage = 0
    /\ disk_cache_limit = DefaultLimit
    /\ disk_keep_free = DefaultKeepFree
    /\ born = {}
    /\ refctr = [o \in Objs |-> 0]
    /\ hold = [t \in Threads |-> None]
    /\ pc = [t \in Threads |-> "idle"]
    /\ ret = [t \in Threads |-> "idle"]
    /\ tmp = [t \in Threads |-> None]
    /\ arg = [t \in Threads |-> None]
    /\ limit = [t \in Threads |-> 0]
    /\ skip = [t \in Threads |-> None]
    /\ tmpfree = [t \in Threads |-> 0]
    /\ key = [t \in Threads |-> None]
    /\ exited = FALSE
    /\ crashed = FALSE

----------------------------------------------------------------------------
(* The callers: they create objects, hold at most one reference each, and  *)
(* pass references to V1 cells on (av_filecache_get does).                 *)

NewObj(t, o) ==
    /\ Ready(t) /\ hold[t] = None /\ o \notin born
    /\ born' = born \cup {o}
    /\ refctr' = [refctr EXCEPT ![o] = 1]
    /\ hold' = [hold EXCEPT ![t] = o]
    /\ UNCHANGED <<cachelock, cells, knobs, local, exited, crashed>>

DropObj(t) ==
    /\ Ready(t) /\ hold[t] # None
    /\ refctr' = [refctr EXCEPT ![hold[t]] = Unref(@)]
    /\ hold' = [hold EXCEPT ![t] = None]
    /\ UNCHANGED <<cachelock, cells, knobs, born, local, exited, crashed>>

ShareCell(t, u, c) ==
    /\ Ready(t) /\ t \in users[c] /\ u \notin users[c]
    /\ users' = [users EXCEPT ![c] = @ \cup {u}]
    /\ UNCHANGED <<cachelock, lru, kind, obj, diskusage, name, disk_usage,
                   knobs, objs, local, exited, crashed>>

----------------------------------------------------------------------------
(* The V1 interface.                                                       *)

\* av_cacheobj_new on the object the caller holds.
CacheObjNew(t, c) ==
    /\ Ready(t) /\ cachelock = None
    /\ hold[t] # None /\ kind[c] = "none"
    /\ kind' = [kind EXCEPT ![c] = "ext"]
    /\ obj' = [obj EXCEPT ![c] = hold[t]]
    /\ users' = [users EXCEPT ![c] = {t}]
    /\ refctr' = [refctr EXCEPT ![hold[t]] = Ref(@)]
    /\ lru' = InFront(lru, c)
    /\ UNCHANGED <<cachelock, diskusage, name, disk_usage, knobs, born, hold,
                   local, exited, crashed>>

\* av_cacheobj_get; a cell that lost its object answers NULL.
CacheObjGet(t, c) ==
    /\ Ready(t) /\ cachelock = None
    /\ kind[c] = "ext" /\ t \in users[c] /\ hold[t] = None
    /\ obj[c] # None
    /\ lru' = InFront(Without(lru, c), c)
    /\ refctr' = [refctr EXCEPT ![obj[c]] = Ref(@)]
    /\ hold' = [hold EXCEPT ![t] = obj[c]]
    /\ UNCHANGED <<cachelock, kind, obj, diskusage, name, users, disk_usage,
                   knobs, born, local, exited, crashed>>

\* The first half of cache_checkspace: the limit is fixed, the loop begins
\* with the lock held.
EnterCheck(t, usage, free, s) ==
    /\ limit' = [limit EXCEPT ![t] = SpaceLimit(usage, free)]
    /\ skip' = [skip EXCEPT ![t] = s]
    /\ tmpfree' = [tmpfree EXCEPT ![t] = free]
    /\ cachelock' = t
    /\ pc' = [pc EXCEPT ![t] = "loop"]

\* The part av_cacheobj_setsize and av_cache2_setsize share.
Resize(t, c, size, free) ==
    /\ obj[c] # None /\ diskusage[c] # size
    /\ diskusage' = [diskusage EXCEPT ![c] = size]
    /\ disk_usage' = disk_usage - diskusage[c] + size
    /\ EnterCheck(t, disk_usage', free, c)

CacheObjSetSize(t, c, size, free) ==
    /\ Ready(t) /\ cachelock = None
    /\ kind[c] = "ext" /\ t \in users[c]
    /\ Resize(t, c, size, free)
    /\ UNCHANGED <<lru, kind, obj, name, users, knobs, objs, ret, tmp, arg, key,
                   exited, crashed>>

\* av_unref_obj on a V1 cell; the last reference runs cacheobj_delete.  The
\* cell is still in the list until the destructor gets the lock.
UnrefCell(t, c) ==
    /\ Ready(t) /\ t \in users[c]
    /\ users' = [users EXCEPT ![c] = @ \ {t}]
    /\ IF users[c] = {t}
       THEN /\ pc' = [pc EXCEPT ![t] = "delete"]
            /\ arg' = [arg EXCEPT ![t] = c]
       ELSE UNCHANGED <<pc, arg>>
    /\ UNCHANGED <<cachelock, lru, kind, obj, diskusage, name, disk_usage,
                   knobs, objs, ret, tmp, check, exited, crashed>>

\* cacheobj_delete.
DeleteListed(t) ==
    /\ pc[t] = "delete" /\ cachelock = None /\ obj[arg[t]] # None
    /\ Unlink(t, arg[t], TRUE, "idle")
    /\ arg' = [arg EXCEPT ![t] = None]
    /\ UNCHANGED <<diskusage, name, users, knobs, objs, check, exited, crashed>>

DeleteEvicted(t) ==
    /\ pc[t] = "delete" /\ cachelock = None /\ obj[arg[t]] = None
    /\ kind' = [kind EXCEPT ![arg[t]] = "freed"]
    /\ Return(t)
    /\ UNCHANGED <<cachelock, lru, obj, diskusage, name, users, disk_usage,
                   knobs, objs, tmp, exited, crashed>>

----------------------------------------------------------------------------
(* Making room.                                                            *)

\* av_cache_checkspace and av_cache_diskfull (full: no free space).
Checkspace(t, full, free) ==
    /\ Ready(t) /\ cachelock = None
    /\ full => free = 0
    /\ EnterCheck(t, disk_usage, free, None)
    /\ UNCHANGED <<cells, knobs, objs, ret, tmp, arg, key, exited, crashed>>

\* One round of the loop in cache_checkspace.
LoopEvict(t) ==
    /\ pc[t] = "loop" /\ MayLock(t)
    /\ disk_usage > limit[t] /\ Victim(skip[t]) # None
    /\ Unlink(t, Victim(skip[t]), FALSE, "loop")
    /\ UNCHANGED <<diskusage, name, users, knobs, objs, arg, check, exited,
                   crashed>>

LoopEndsInLimit(t) == disk_usage <= limit[t]  \* mutant: the break is forgotten
LoopEnds(t) == disk_usage <= limit[t] \/ Victim(skip[t]) = None

LoopExit(t) ==
    /\ pc[t] = "loop" /\ MayLock(t)
    /\ LoopEnds(t)
    /\ cachelock' = None
    /\ Return(t)
    /\ UNCHANGED <<cells, knobs, objs, tmp, exited, crashed>>

\* cacheobj_free: the object is released with the lock dropped.
Release(t) ==
    /\ pc[t] = "free" /\ ~crashed
    /\ refctr' = [refctr EXCEPT ![tmp[t]] = Unref(@)]
    /\ tmp' = [tmp EXCEPT ![t] = None]
    /\ pc' = [pc EXCEPT ![t] = ret[t]]
    /\ UNCHANGED <<cachelock, cells, knobs, born, hold, ret, arg, check,
                   exited, crashed>>

\* cache_clear, run by a write to #avfsstat/cache/clear.
Clear(t) ==
    /\ Ready(t) /\ cachelock = None
    /\ cachelock' = t
    /\ pc' = [pc EXCEPT ![t] = "clear"]
    /\ UNCHANGED <<cells, knobs, objs, ret, tmp, arg, check, exited, crashed>>

ClearEvict(t) ==
    /\ pc[t] = "clear" /\ MayLock(t)
    /\ Victim(None) # None
    /\ Unlink(t, Victim(None), FALSE, "clear")
    /\ UNCHANGED <<diskusage, name, users, knobs, objs, arg, check, exited,
                   crashed>>

ClearExit(t) ==
    /\ pc[t] = "clear" /\ MayLock(t)
    /\ Victim(None) = None
    /\ cachelock' = None
    /\ Return(t)
    /\ UNCHANGED <<cells, knobs, objs, tmp, exited, crashed>>

----------------------------------------------------------------------------
(* The V2 interface.                                                       *)

\* A caller that inserts a V2 cell called n is inside the cache.
NameBusy(n) == \E u \in Threads : arg[u] # None /\ kind[arg[u]] = "new" /\ name[arg[u]] = n

\* Mutant of Cache2Set: the old entry of the name is not looked for.
Cache2SetBeside(t, n, c) ==
    /\ Ready(t) /\ cachelock = None /\ ~NameBusy(n)
    /\ hold[t] # None /\ kind[c] = "none"
    /\ name' = [name EXCEPT ![c] = n] /\ key' = [key EXCEPT ![t] = n]
    /\ refctr' = [refctr EXCEPT ![hold[t]] = Ref(@)]
    /\ lru' = InFront(lru, c)
    /\ kind' = [kind EXCEPT ![c] = "int"] /\ obj' = [obj EXCEPT ![c] = hold[t]]
    /\ UNCHANGED <<diskusage, disk_usage, users, knobs, born, hold, cachelock, pc, ret, tmp,
                   arg, limit, skip, tmpfree, exited, crashed>>

\* av_cache2_set on the object the caller holds: a new cell, which replaces
\* the cell of that name.  If there is one, it is destroyed first, and that
\* drops the lock.
Cache2Set(t, n, c) ==
    /\ Ready(t) /\ cachelock = None
    /\ PerNameLock => ~NameBusy(n)
    /\ hold[t] # None /\ kind[c] = "none"
    /\ name' = [name EXCEPT ![c] = n]
    /\ refctr' = [refctr EXCEPT ![hold[t]] = Ref(@)]
    /\ IF Find(n) = None
       THEN /\ lru' = InFront(lru, c)
            /\ kind' = [kind EXCEPT ![c] = "int"]
            /\ obj' = [obj EXCEPT ![c] = hold[t]]
            /\ UNCHANGED <<disk_usage, tmp, cachelock, pc, ret, arg>>
       ELSE /\ lru' = Without(lru, Find(n))
            /\ kind' = [kind EXCEPT ![c] = "new", ![Find(n)] = "freed"]
            /\ obj' = [obj EXCEPT ![c] = hold[t], ![Find(n)] = None]
            /\ disk_usage' = disk_usage - diskusage[Find(n)]
            /\ tmp' = [tmp EXCEPT ![t] = obj[Find(n)]]
            /\ cachelock' = None
            /\ pc' = [pc EXCEPT ![t] = "free"]
            /\ ret' = [ret EXCEPT ![t] = "insert"]
            /\ arg' = [arg EXCEPT ![t] = c]
    /\ key' = [key EXCEPT ![t] = n]
    /\ UNCHANGED <<diskusage, users, knobs, born, hold, limit, skip, tmpfree,
                   exited, crashed>>

\* ... and the insertion, once the old object is released.
Cache2Insert(t) ==
    /\ pc[t] = "insert" /\ cachelock = None
    /\ lru' = InFront(lru, arg[t])
    /\ kind' = [kind EXCEPT ![arg[t]] = "int"]
    /\ Return(t)
    /\ UNCHANGED <<cachelock, obj, diskusage, name, users, disk_usage, knobs,
                   objs, tmp, exited, crashed>>

Cache2Get(t, n) ==
    /\ Ready(t) /\ cachelock = None /\ hold[t] = None
    /\ Find(n) # None
    /\ lru' = InFront(Without(lru, Find(n)), Find(n))
    /\ refctr' = [refctr EXCEPT ![obj[Find(n)]] = Ref(@)]
    /\ hold' = [hold EXCEPT ![t] = obj[Find(n)]]
    /\ UNCHANGED <<cachelock, kind, obj, diskusage, name, users, disk_usage,
                   knobs, born, local, exited, crashed>>

\* av_cache2_setsize reads cobj->obj without asking whether the name was
\* found.  Its caller has just put that name in the cache (extfs_open).
Cache2SetSize(t, n, size, free) ==
    /\ pc[t] = "idle" /\ key[t] = n /\ ~crashed /\ cachelock = None
    /\ key' = [key EXCEPT ![t] = None]
    /\ LET c == Find(n) IN
       \/ /\ c = None
          /\ crashed' = TRUE
          /\ UNCHANGED <<diskusage, disk_usage, limit, skip, tmpfree, cachelock, pc>>
       \/ /\ c # None /\ diskusage[c] = size
          /\ UNCHANGED <<diskusage, disk_usage, limit, skip, tmpfree, cachelock,
                         pc, crashed>>
       \/ /\ c # None
          /\ Resize(t, c, size, free)
          /\ UNCHANGED crashed
    /\ UNCHANGED <<lru, kind, obj, name, users, knobs, objs, ret, tmp, arg,
                   exited>>

----------------------------------------------------------------------------
(* The tunables (cache_setoff) and the exit handler (destroy_cache).       *)

SetOff(t) ==
    /\ Ready(t) /\ cachelock = None
    /\ \/ disk_cache_limit' \in Limits /\ UNCHANGED disk_keep_free
       \/ disk_keep_free' \in KeepFrees /\ UNCHANGED disk_cache_limit
    /\ UNCHANGED <<cachelock, cells, objs, local, exited, crashed>>

\* The handlers run after the last operation of the other threads.
Destroy(t) ==
    /\ \A u \in Threads : Ready(u)
    /\ cachelock = None
    /\ cachelock' = t
    /\ exited' = TRUE
    /\ pc' = [pc EXCEPT ![t] = "destroy"]
    /\ UNCHANGED <<cells, knobs, objs, ret, tmp, arg, check, crashed>>

Internal == {i \in DOMAIN lru : kind[lru[i]] = "int"}

DestroyOne(t) ==
    /\ pc[t] = "destroy" /\ MayLock(t)
    /\ \E i \in Internal :
          /\ \A j \in Internal : i <= j
          /\ Unlink(t, lru[i], TRUE, "destroy")
    /\ UNCHANGED <<diskusage, name, users, knobs, objs, arg, check, exited,
                   crashed>>

DestroyExit(t) ==
    /\ pc[t] = "destroy" /\ MayLock(t)
    /\ Internal = {}
    /\ cachelock' = None
    /\ Return(t)
    /\ UNCHANGED <<cells, knobs, objs, tmp, exited, crashed>>

----------------------------------------------------------------------------
\* The operations a caller starts ...
Call(t) ==
    \/ \E o \in Objs : NewObj(t, o)
    \/ DropObj(t)
    \/ \E u \in Threads, c \in CObjs : ShareCell(t, u, c)
    \/ \E c \in CObjs : CacheObjNew(t, c) \/ CacheObjGet(t, c) \/ UnrefCell(t, c)
    \/ \E c \in CObjs, size \in Sizes, free \in FreeSpaces :
          CacheObjSetSize(t, c, size, free)
    \/ \E full \in BOOLEAN, free \in FreeSpaces \cup {0} : Checkspace(t, full, free)
    \/ Clear(t)
    \/ \E n \in Names, c \in CObjs : Cache2Set(t, n, c)
    \/ \E n \in Names : Cache2Get(t, n)
    \/ \E n \in Names, size \in Sizes, free \in FreeSpaces :
          Cache2SetSize(t, n, size, free)
    \/ SetOff(t)
    \/ Destroy(t)

\* ... and the rest of an operation that has begun.
Continue(t) ==
    /\ ~crashed
    /\ \/ DeleteListed(t) \/ DeleteEvicted(t)
       \/ LoopEvict(t) \/ LoopExit(t)
       \/ Release(t)
       \/ ClearEvict(t) \/ ClearExit(t)
       \/ Cache2Insert(t)
       \/ DestroyOne(t) \/ DestroyExit(t)

Next == \E t \in Threads : Call(t) \/ Continue(t)

Spec == Init /\ [][Next]_vars

\* A thread inside the cache goes on, and gets the lock if it is free again
\* and again.  Nothing obliges a caller to start an operation.
Fairness == \A t \in Threads : SF_vars(Continue(t))

FairSpec == Spec /\ Fairness

----------------------------------------------------------------------------
(* What the cache promises.                                                *)

CellTypes ==
    /\ lru \in Seq(CObjs)
    /\ kind \in [CObjs -> Kinds]
    /\ obj \in [CObjs -> Objs \cup {None}]
    /\ diskusage \in [CObjs -> Sizes \cup {0}]
    /\ name \in [CObjs -> Names \cup {None}]
    /\ users \in [CObjs -> SUBSET Threads]

SpaceTypes ==
    /\ disk_usage \in Int
    /\ disk_cache_limit \in 0..MaxOff
    /\ disk_keep_free \in 0..MaxOff
    /\ limit \in [Threads -> Offsets]
    /\ tmpfree \in [Threads -> -1..MaxOff]

ObjTypes ==
    /\ born \subseteq Objs
    /\ refctr \in [Objs -> Int]
    /\ hold \in [Threads -> Objs \cup {None}]

ThreadTypes ==
    /\ cachelock \in Threads \cup {None}
    /\ pc \in [Threads -> Places]
    /\ ret \in [Threads -> Places]
    /\ tmp \in [Threads -> Objs \cup {None}]
    /\ arg \in [Threads -> CObjs \cup {None}]
    /\ skip \in [Threads -> CObjs \cup {None}]
    /\ key \in [Threads -> Names \cup {None}]
    /\ exited \in BOOLEAN
    /\ crashed \in BOOLEAN

Types == CellTypes /\ SpaceTypes /\ ObjTypes /\ ThreadTypes

\* Every variable has its type, the limit of cache_checkspace that of an
\* avoff_t, and no count has fallen below zero ("Unreferencing deleted object").
TypeOK == Types /\ \A o \in Objs : refctr[o] >= 0

\* A cell is in the list exactly as long as it stores an object, and once:
\* this is what cacheobj_delete and the setsize functions read into
\* "cobj->obj != NULL".  (A V2 cell stores its object a little earlier, while
\* av_cache2_set destroys its predecessor.)
ListMatchesCells ==
    /\ \A i, j \in DOMAIN lru : lru[i] = lru[j] => i = j
    /\ \A c \in CObjs : c \in Listed(lru) <=> obj[c] # None /\ kind[c] # "new"

\* The references to an object that exist: those of callers, of cells, and of
\* threads that are about to release it.
HeldBy(f, o) == {x \in DOMAIN f : f[x] = o}
References(o) ==
    Cardinality(HeldBy(hold, o)) + Cardinality(HeldBy(obj, o)) + Cardinality(HeldBy(tmp, o))

\* Reference counts are exact.  So nobody, neither the list nor a caller that
\* got the object from av_cacheobj_get or av_cache2_get while it was being
\* evicted, holds an object that has been destroyed; no object is released
\* once too often; and one that nobody holds has been destroyed.
RefctrExact == \A o \in Objs : refctr[o] = References(o)

\* The blocks on the disk that the cells in the list use, those of each one numbered.
Blocks == UNION {{c} \X (1..diskusage[c]) : c \in Listed(lru)}

\* disk_usage is the sum of what the cells in the list use, whatever evictions,
\* deletions and changes of size ran at the same time.
UsageIsSum == disk_usage = Cardinality(Blocks)

\* When no operation is under way, the cache is within the largest limit it
\* was ever given, except for the one entry that alone was kept because its
\* own size was being set.
CacheBounded ==
    (\A t \in Threads : pc[t] = "idle") =>
        \/ \E l \in Limits \cup {DefaultLimit} : disk_usage <= l
        \/ Cardinality({i \in DOMAIN lru : diskusage[lru[i]] > 0}) <= 1

\* ChangeLog 2005-06-19: "When setting a new size for a cache entry, the entry
\* is not removed even if it is larger than the cache limit."
OwnEntryKept ==
    [][\A t \in Threads :
          pc[t] = "loop" /\ pc'[t] = "free" /\ skip[t] # None
              => obj'[skip[t]] = obj[skip[t]]]_vars

\* A name finds at most one cell (cache.c:22 "built around the name as a key").
NameIsKey ==
    \A i, j \in DOMAIN lru :
        /\ kind[lru[i]] = "int" /\ kind[lru[j]] = "int"
        /\ name[lru[i]] = name[lru[j]]
        => i = j

\* Every operation of the cache comes to its end, also when the entry whose
\* size is set is alone larger than the limit.
OperationsEnd == \A t \in Threads : pc[t] # "idle" ~> (pc[t] = "idle" \/ crashed)

\* cache.c:301 "If free space can't be determined, then it is taken to be
\* infinite": then only the cache's own limit makes it delete something.
UnknownSpaceIsInfinite ==
    [][\A t \in Threads :
          pc[t] = "loop" /\ pc'[t] = "free" /\ tmpfree[t] = -1
              => disk_usage > disk_cache_limit]_vars

\* cache.c:24 the cache "will destroy it at some point": a caller that names an
\* entry must be prepared for its absence.
NoNullAccess == ~crashed

============================================================================
