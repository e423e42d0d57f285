# A verification of AVFS

AVFS is a library that lets programs look into archives, compressed files and
remote systems as if they were directories: `/tmp/a.tar.gz#/b` names the file
`b` of an archive.  This directory holds TLA+ models of the parts of AVFS that
keep state, the TLC configurations that check them on small instances, and
proofs, checked by TLAPS, of what matters most about them.

All source paths are relative to the repository; `src/`, `include/`, `modules/`
and `doc/` name its directories.  `PROJECT.json` lists for every definition the
lines it models.

## 1. The system

A path is parsed into a stack of handlers (`src/parse.c`), one per `#`.  Each
handler (`struct avfs`) has the operations lookup, open, read, write, getattr,
and so on; it works on the handler below it through `src/oper.c`.

    program
      |  virt_* (src/virtual.c), FUSE daemon (fuse/avfsd.c)
      v
    descriptors  src/fdops.c ----> operations  src/oper.c
                                      |  one call at a time per struct vfile
               +----------------------+----------------------+
               v                      v                      v
      archive framework       filter handler         remote framework
      src/archive.c           src/filter.c           src/remote.c
      |        |              |          |                |
      v        v              v          v                v
    namespace  file cache   serial file  filter program  modules/ftp.c ...
    namespace.c filecache.c serialfile.c filtprog.c
                 |            |
                 v            v
               disk cache  src/cache.c  (all local copies: one limit for /tmp)

Every structure that several threads see is reference counted
(`av_new_obj`, `av_ref_obj`, `av_unref_obj` of `src/utils.c`).  The count is
guarded by one global lock, or by a lock of the structure; the destructor runs
after the lock was dropped, and may call any other part.

### Components

| component | state | operations | shared with, called by |
|---|---|---|---|
| disk cache `src/cache.c` | LRU list of cells, usage, limit, free space to keep; one lock that is dropped while an object is released | cell new, get, set size, unref; named set, get, set size; check space; clear; tunables; exit | filter, serial file, remote, zread index, extfs |
| descriptors `src/fdops.c` | table of vfiles with one lock; a lock per vfile | open, close, read, write, lseek, getattr, truncate, readdir, exit | programs, any number of threads |
| operations `src/oper.c` | a vfile is open while `mnt` is set | open, close and one function per operation | descriptors, handlers |
| serial file `src/serialfile.c` | temporary file, how far the source has been read, dirty flag, connection | pread, size, startget, truncate, pwrite, flush | filter, http |
| namespace `src/namespace.c` | tree of names and a hash table, both without references of their own | lookup, resolve, subdir, next, nth, parent, get and set | archive, remote, state |
| file cache `src/filecache.c` | list of keyed objects, at most 50 if older than ten minutes | get, set, exit | archive, filter, decompressors |
| filter `src/filter.c` | node per base file: serial file, users, base open for writing | open, close, read, write, truncate, getattr | gz, bz2, ... |
| archive `src/archive.c`, `src/archutil.c` | tree of nodes, base file and its readers, whether the parse succeeded | lookup, open, close, read, readdir, replacement of a changed archive | tar, zip, rar, ar, extfs |
| remote `src/remote.c` | tree of nodes with attributes, listings and a local copy, each with an age | lookup, getattr, readdir, open (check of the copy), read (get, wait), readlink | ftp, rsh, floppy, dav |
| state files `src/state.c`, start and exit `src/exit.c`, `src/modload.c` | tunables; exit handlers | get, set; register, run | all |
| paths `src/parse.c`, `src/virtual.c` | a stack of mounts, each with a datum of its file system | parse a path, follow links, call an operation and free all again | programs |
| programs `src/filtprog.c`, `src/prog.c`, `src/filebuf.c`, `src/runprog.c` | a process, its pipes, what has been read ahead | start, read, write, end, get a line, reap | serial file, extfs, rsh |
| decompressors `src/zread.c`, `bzread.c`, `xzread.c`, `lzipread.c`, `zstdread.c` with `modules/ugz.c` and others | saved streams and restart points; a node for each base file in the file cache | read at an offset, size | file cache, uzip |
| archive modules `modules/utar.c`, `uzip.c`, `uar.c`, `urar.c`, `extfs.c` | a position in the file while it is parsed | parse; extract to temporary files | archive framework, disk cache |
| network modules `modules/ftp.c`, `ucftp.c`, `http.c`, `dav.c` | control connections, sessions, lists of entries | list, get, wait; open, read, close | remote framework, disk cache |
| volatile files `modules/volatile.c` | a tree of entries and nodes in memory | all calls of a file system | programs |
| open files of the system `src/local.c` and of the state `src/state.c` | a position, a buffer | open, read, write, truncate, seek, close | all |

`PROJECT.json` lists these and the rest (format parsers, local files, sockets,
scripts, vendored code) with what is modelled of each.

### Which behaviours are hard

* **Locks that are dropped in the middle.**  The disk cache drops its lock each
  time it releases an object: in the eviction loop, in a deletion, in the
  replacement of a named entry.  A descriptor operation drops the table's lock
  before it waits for the file's.  The namespace drops its lock between two
  entries of a listing.
* **Objects without references.**  A name is in the hash table without being
  counted; a cell outlives its object; a slot outlives its file for a moment.
* **Failures half way.**  A filter program dies after some blocks; a source is
  busy; the temporary file is full; a flush has emptied the base file and then
  cannot start the program.
* **Stale results.**  The size of a named entry is set after it was inserted; an
  archive is compared with its base file and replaced; a remote file changes
  during its transfer.
* **Limits and arithmetic.**  Free space that is unknown, an entry larger than
  the whole cache, reads across block boundaries.
* **Two locks.**  `fclock` and `arch->lock`, `nod->lock` and `nod->filelock`,
  `exit_lock` around every handler.

The list `hazards` in `PROJECT.json` gives them line by line, with the property
that would catch each, or the reason why there is none yet.

### What makes the components correct

* disk cache: counts are exact, the list is exactly the cells with an object,
  the usage is the sum over the list, the limit holds between operations, the
  entry whose size is being set stays, names are unique, every operation ends;
* descriptors: the driver sees open files only, one call at a time and the one
  the descriptor names; a descriptor is not reused early; nothing leaks; every
  call returns; all of it is equivalent to a table of atomic operations;
* serial file: readers see the translation of the base file, with the changes
  made since; changes are lost only by a call that fails; every call returns;
* namespace: a path has one entry as long as anybody uses it and none
  afterwards; the path of an entry is alive; a listing misses nothing that stays;
* archive: nothing in use is deleted when the archive is replaced or expires; the
  base file is open exactly while it has readers; an old tree is not taken for a
  new one; nobody waits for ever for a parse;
* filter: who writes can write to the base file; changes have a writer who will
  flush them, or somebody was answered an error; nodes, cells and open base files
  are released once;
* remote: a local copy is kept exactly as long as it is used; what is there is not
  called missing; nobody waits in a circle of locks;
* paths: whatever fails, what was got from the file systems is put back once; a
  rewritten link leads where it led; a call ends;
* programs: bytes arrive whole and in order; neither side waits for ever on a pipe;
* decompressors: a stream is where it is thought to be; what is answered is what the
  file contains; nobody gets the errors of others;
* archive modules: the tree is what the members mean, in whatever order they come;
* network modules: no connection stays busy longer than it is used (one of ftp is busy all
  the time it is used), and what is transferred is what was asked for;
* volatile files: link counts and references are exact.

## 2. The modules

| module | models | used by |
|---|---|---|
| `Cache` | `src/cache.c` with its counters in `src/utils.c` | runs of its own, `CacheProofs` |
| `CacheProofs` | theorems on `Cache` | |
| `Descriptors` | what the descriptors of AVFS promise, each call one step | `FileTable` |
| `FileTable` | `src/fdops.c` over open and close of `src/oper.c`; implements `Descriptors` | `MCInterface`, `InterfaceProofs` |
| `Parse` | `src/parse.c`, the calls of `src/virtual.c` on paths, and `src/oper.c` between them | `MCInterface`, `InterfaceProofs` |
| `InterfaceProofs` | theorems on `FileTable`, among them the refinement, and on `Parse` in `MCInterface` | |
| `TranslatedFile` | what a serial file promises, each call one step | `SerialFile` |
| `SerialFile` | `src/serialfile.c`; implements `TranslatedFile` | `MCSerialFile`, `SerialFileProofs` |
| `Programs` | `src/filtprog.c`, `src/filebuf.c`, `src/prog.c`, `src/runprog.c` | `MCSerialFile`, `SerialFileProofs` |
| `SerialFileProofs` | theorems on `SerialFile`, among them the refinement, and on `Programs` | |
| `Namespace` | `src/namespace.c` with the locked destructor of `src/utils.c` | `MCNamespace`, `NamespaceProofs` |
| `NamespaceProofs` | theorems on `Namespace`, on `OpenFiles` and on `Volatile` in `MCNamespace` | |
| `Archive` | `src/archive.c` for one base file, with its key in `src/filecache.c` | `MCArchive`, `ArchiveProofs` |
| `ArchiveProofs` | theorems on `Archive` | |
| `Remote` | `src/remote.c` for one directory and its entries, with the cells of `src/cache.c` | `MCRemote`, `RemoteProofs` |
| `RemoteProofs` | theorems on `Remote`, `Ftp`, `Ucftp`, `Http`, `Dav` and on `MCRemote`, which has them all | |
| `Volatile` | `modules/volatile.c` | `MCNamespace`, `NamespaceProofs` |
| `OpenFiles` | open files of `src/local.c` and `src/state.c`, as `src/oper.c` and `src/default.c` use them | `MCNamespace`, `NamespaceProofs` |
| `Tree` | `src/archutil.c`: the tree that a parser builds, on entries of `src/namespace.c` | `Tar`, `Zip`, `Ar`, `Rar`, `Extfs` |
| `Tar`, `Zip`, `Ar`, `Rar`, `Extfs` | the parsers of `modules/utar.c`, `uzip.c`, `uar.c`, `urar.c`, `extfs.c`, and what the last two extract | `MCArchive` |
| `Listing` | `src/parsels.c` | `MCArchive` |
| `Ftp`, `Ucftp`, `Http`, `Dav` | `modules/ftp.c`, `ucftp.c`, `http.c`, `dav.c` with `src/passwords.c` | `MCRemote`, `RemoteProofs` |
| `Streams` | what the five readers of compressed files have in common | `Gzip`, `Bzip2`, `Xz`, `Lzip`, `Zstd` |
| `Gzip`, `Bzip2`, `Xz`, `Lzip`, `Zstd` | `src/zread.c`, `bzread.c`, `xzread.c`, `lzipread.c`, `zstdread.c`, each with its handler in `modules/` | `CompressedFile` |
| `CompressedFile` | the five together, on a base file that is replaced and a file cache that forgets | `MCReaders`, `ReaderProofs` |
| `ReaderProofs` | theorems on the readers in `CompressedFile` | |
| `Filter` | `src/filter.c` for one path, with its key in `src/filecache.c` and its cell of `src/cache.c` | `MCFilter`, `FilterProofs` |
| `FilterProofs` | theorems on `Filter` | |

Some MC modules check several components that do not share state: `MCInterface`,
`MCSerialFile`, `MCNamespace`, `MCArchive` and `MCRemote` have a variable `part`, which
says which component a behaviour is of; the variables of the others keep their
initial values, or, where there would be many, the first of them.  The components meet
through what they promise each other: `SerialFile` knows of a program that it
delivers, ends or fails, `Archive` of a parser that it makes a tree or fails, and
`Remote` of a module that it lists or transfers or fails.

Definitions named `...Forgotten`, `...Unskipped` and the like, marked "mutant"
in their comments, are slips a programmer could make in the definition that
follows them.  Nothing uses them; put in the place of that definition, each
makes the property it was written for fail.

### Cache

A **cell** is a `struct cacheobj`; `kind` says whether it belongs to callers
(`ext`, the V1 interface), to the cache (`int`, the V2 interface that is keyed by
name), is being inserted (`new`) or has been freed.  `lru` is the doubly linked
list.  An **object** is whatever is cached, with its counter.

Threads interleave wherever `cachelock` is not held.  An action is the code from
one such point to the next, so `pc[t]` tells which gap the thread is in: `loop`
(about to test the limit again), `free` (about to release `tmp[t]` and then to
continue at `ret[t]`), `delete`, `insert`, `clear`, `destroy`.  The release of an
object runs a destructor that may call the cache; since the lock is not held at
that moment, this is the same as another thread calling it, and is covered.

`hold[t]` is the one reference to an object a thread has of its own.
`ShareCell` hands a reference to a cell to another thread, as
`av_filecache_get` does.  `PerNameLock` says whether callers of `av_cache2_set`
serialise on the name, as `extfs.c`, its only caller, does.

Addresses are used once: a freed cell does not come back as another one.
`avoff_t` is an integer of `MaxOff` bits that wraps; it matters in the one sum
that can overflow (see Findings).

### FileTable and Descriptors

`file_table` is a function on `0..file_table_size-1`.  A call is split where the
code takes or gives a lock: `LookUp` (reference taken under `files_lock`),
`LockFile` (own lock of the vfile, then the test of `vf->mnt`), `Operate` or
`CloseFile` (the driver), `UnlockFile`, `PutFile`, `ClearSlot`, `LastUnref`.
`pc = "op"` and `"close"` mean that the driver is running.

`Descriptors` has no table, no locks and no references: a descriptor names an
open file, a file is opened and closed once and used by one call at a time.  The
refinement mapping names a slot's file only while it is open: a slot that still
points to a file just closed counts as empty.

### Parse

A ventry is the sequence of its mounts, the local file system first; of each only
whether it has data is kept.  `vcall` is the call under way: its place (`pc`), the
ventries it has in its hands, and `frames`, one for each link it is following
(`follow_link` calls `parse_path` again).  `vopen` are the open files with the copies of
mounts they keep.  A step is one segment (`Segment`), one operation of a file system, or
one thing that is freed.  What a segment is (a name, a name with a handler, `#` alone,
a forced name, the local part) is chosen when it is met, and so is whether the file
system fails.  `given` and `fsrefs` count what the file systems have handed out and
the references of mounts, call by call as the code does; `VentriesBalanced` compares
them with what is in use.  `MaxMounts` is the depth of the stack, `MaxLinks` is
`linkctr` (10 in the code).  `LinkSame` compares what `virt_readlink` makes of an absolute
link with where it led, for all paths of at most `MaxSegs` components of two names.

### SerialFile and TranslatedFile

Every function of `src/serialfile.c` runs under the lock of the node that owns
the file, so one call is under way at a time, and what makes it hard is not
interleaving but failure: each step that asks the source or the temporary file
can fail, at any position, with `EAGAIN` or another error.  The steps are
`Started`, `Delivered` (one piece, of any size up to what is wanted), `Ended`,
`Stored`, `Answer`, and a failing form of each; `Retry` and `GiveUp` are
`sfile_pread_force`.

`TranslatedFile` is the user's view: what is stored, what is seen, and the reply
to the last call.  A call that answers an error may have lost all changes since
the last flush; no other may.  The mapping is: a file without changes shows the
source, however little of it has arrived.

### Programs

`use` is what the program is run for: `get` and `put` are the two directions of a
filter, `list` the reading of a listing and `copy` a program that writes a file which
avfs only watches.  `pipes` are bounded; `fbs` are the three `struct filebuf` with
`avail` (poll has reported it) and `eof`.  The actions of avfs are the turns of the loops
of `filtprog_read`, `filtprog_write` and `filtprog_endput`: `CheckError`, then
`ReadTurn`, `WriteTurn` or `EndTurn`, then `Poll`, which waits.  Between any two of them
the program reads, writes, complains or ends.  It is a filter that hands on what it reads
and holds back at most `Hold` bytes; it ends well only when it has read everything, and
closes its pipes only by ending, as those that `modules/gz.c` and its like name do.  A
program that closes its output and then goes on would make `av_wait_prog` wait for it.

### Namespace

`hash` is the set of the entries in the hash table; chains and resizing are left
out.  `subdir` is the list of children of each entry, and of `None` for the root.
`todo[t]` is the stack of references a thread has decided to drop.  `Unref` drops
one; the last reference of an entry takes it out of the tables in the same step
(the destructor that runs with the lock held) and pushes the parent and the
namespace on the stack (the destructor that runs without it), so whole paths come
down step by step while other threads walk.

`Threads` are any callers that drop what they were given.  The nodes of archives
keep an entry alive (`SetNode`, `DelNode`); that archives hold their own lock
around most of this is not assumed.  `reading`, `steady` and `seen` are history:
they record, for a thread that reads a directory from the beginning, what was
there all the time and what it got.

### Volatile and OpenFiles

A call of `modules/volatile.c` holds the lock of its file system and is one step.  An
entry (`vents`) has a parent, a node and holders; a node (`vnodes`) has links and
references; `vhands` are the users, who hold one entry each, and `vfiles` the open
files.  Node and entry numbers are reused, the lowest first.  A renamed directory leaves
the entries in it with their old parent; what uses it later reads NULL, and the model
stops there.

`OpenFiles` has one open file, `of`: a local file, a state file or a directory.  With its
contents it carries `want`, what a POSIX file has after the same calls.

### Archive

`cached` is what the file cache has for the key of the base file; other archives
push it out at any time (`Expire`).  A thread (`pc[t]`) is outside, in one of the
gaps of `get_archive` (`find`, `lock`, `parse`, `unref`, `uncache`), or has an
`archent` (`in`).  `arch[t]` is the reference that `get_archive` takes and the
`archent` keeps; `fil[t]` is that of an open file.  Everything the code does under
`arch->lock` is one step, except for a parse, which holds the lock (`lock`) while
others wait for it and the base file changes.

`version` stands for the attributes of the base file.  `st` is the version that
`check_archive` compares with, `contents` the one the tree was made from, which
is any between the begin and the end of the parse.

The tree is reduced to what reference counts tell apart: names that have a node,
which live as long as the archive, and a name that is missing, which lives as
long as somebody holds its entry.  The transient entry of a missing name comes
last in its directory, so a listing may stop at it but omits nothing.  The entry
of a file is never deleted before its archive, so only `missing` is counted; how
entries come and go is `Namespace`.

When an archive is deleted its address is free again.  After the last close the
code still unlocks the deleted archive; that has no effect on this state.

### Tree, the archive modules, Listing

A run of a parser over a whole archive is one step: an archive is chosen, a sequence of
at most `MaxTarMembers` (and so on) members, laid out as the format has it, and the
parser's operators walk over it as the code does, header by header, with the state
it keeps between headers.  Then the tree is compared with what the members mean, stated
without the walk (`TarTreeTrue`, `ZipTreeTrue`, `ArTreeTrue`, `RarTreeTrue`,
`ExtfsTreeTrue`).  A layout is a sequence of units; positions and sizes count units, so
that a position which is off by one finds something else.

`Rar` and `Extfs` then open files: their programs extract to temporary files while other
users are between two steps, the disk cache drops what it has (`CacheDrops`), and the
archive is replaced (`ArchiveChanges`).

`Listing` is a line of `ls` as columns that look like something; every line of the forms
in use, long and short, with and without group, inode and link, is parsed.

### Filter

A node of `Filter` is a `filtnode` with the part of its serial file that matters
to the base file: whether it is at the beginning, has a connection or is complete
(`sf`), and whether it has changes (`dirty`).  `vf` is `nod->vf` and how it was
opened; `told` says whether the vfile the serial file points to is that one.
Each node has one cell of the disk cache (`incell`, `cellref`), and `cached` is the
cell the file cache has for the path.  `av_filecache_set` drops the cell it had
before it puts in the new one: this is `Expire`, for which `NewNode` waits.

A version stands for the size and the time of a base file.  Other programs change
the base file (`Modify`) or put another in its place (`Rename`), a flush or a
truncation changes it too.  A thread is at `base` when it has opened the base file,
at `new` or `wait` when it has looked for a node, `open` while it has the file, and
at `stat` after the flush of its last close.  Only there is the lock of the node
held from one step to the next.  What the connection does when a vfile is used that
is not open, nobody can say: `crashed` records it and the model stops.

The bytes are not here.  What a reader gets while nobody changes the base file
is `SerialFile`; that a reader may get what the base file was before a change is
in the list of hazards.

### Remote

A directory (`Root`), the files and the directories in it, and one node for each.
Nodes are not removed before the exit, so they are not counted.  `attr` is what a node knows:
nothing, the attributes of an entry that is there, that it is missing, or the
invented attributes of a root that cannot be listed.  Attributes and listings get
too old after some seconds; when is left open (`MayAnswer`, `MayAsk`).

A thread works on the node `at[t]` for `call[t]`: `attr` stands for lookup,
getattr, access and readlink, `check` is the second half of an open, and `sign` is
the part of a read that takes the signature of a new copy.  `pc[t]` is where
it waits for a lock (`parent`, `node`), for the remote host (`list`, and `wait`
for data), or for the locks of the siblings while a listing is stored (`fill`).
`dironly` says whether the module lists directories only (`REM_DIR_ONLY`).

A copy and its cell have one address.  `copyref` counts references to the
`remfile`, `cellref` those to the `cacheobj`.  `nod->file` is written in two
statements (`Drop` and `Clear`, `Replace` and `Store`) under two different locks.
The thread that comes in between uses a cell that has been freed, or NULL:
`crashed` records it, and the model stops.

A version is the time and size of a remote file.  The bytes of a copy are not
here, and neither is which entry of a listing a reader of the directory is at.

### Ftp, Ucftp, Http, Dav

`Ftp` has both ends of each control connection: what the client believes (`cwd`,
`binary`) and what the server has, and the replies that the client has not read yet.
A step is one command with its reply; calls of several users interleave between them.
Faults (a reply that says no, a connection that breaks, a data connection that is
not made) are taken from a budget, `MaxFtpFaults`.

A call of `Ucftp` and of `Http` holds the lock of the file system and is one step; what
makes them hard is what is left between calls: entries that are held while their list
is made anew, transfers under way on the connection of an entry, serial files the disk
cache drops while they are read.  `Dav` has no lock: taking a slot is two steps.

### The readers of compressed files

`Streams` has the variables: `fd` (the vfiles of `Handles`), `nodes` and `cell` (the
nodes of the handler, and the one that the file cache has), `caches` (the sizes and
indexes of `zread.c`), `sc` (the one saved stream), `base` (which content the base file
has), `faults`; `fmt` is the format of the behaviour.  A stream (`s`) has where it
is: how much input it has read and how much output it has given, and of which content.
An image of a compressed file (`Images`, in `MCReaders`) is a sequence of units: header,
data, end of block, trailer.  A read is one step of its vfile; within it, the operators
follow `..._seek`, `..._skip_to`, `..._read` and the refill of the input buffer.  Reads of
two vfiles interleave, and between them the base file is replaced, or the node or the
cache forgotten.

## 3. The runs

| run | instance | shows |
|---|---|---|
| `cache_safety` | 2 threads, 2 cells, 1 object, 1 name, size 3, limits 4 and 2 | counts, list, usage, limit, names and the kept entry, under every interleaving; every operation ends |
| `cache_unknown` | 2 threads, free space unknown | violation: finding 1 |
| `interface_safety` | 3 threads, 2 files, descriptors -1..2, table grows by 1; paths of 2 segments over 3 mounts with 1 link | driver calls, references, no early reuse, refinement of `Descriptors`, every call returns; what a path has got is put back, links keep their meaning, calls on paths end |
| `serialfile_safety` | sources of 1 and 5 bytes, blocks of 2, writes at 0, 3 and 4; programs on pipes of 1 byte | refinement of `TranslatedFile`, what goes through a program is whole, calls return |
| `namespace_safety` | 2 threads, 3 entries, 2 names; 3 volatile nodes and 4 entries; open files of at most 3 bytes | tables and counts agree, one entry per path, complete listings; link counts of volatile files; open files are as POSIX has them |
| `archive_safety` | 2 threads, 2 addresses, 3 versions of the base file, at most 2 tries; every archive of at most 3 members (2 of rar) out of a dozen | references, the present tree, the shared base file, `get_archive` returns; trees and temporary files of the modules |
| `filter_safety` | 2 threads, 3 nodes, 2 inodes, 3 versions of the base file | references, writers who can write, no change without a writer |
| `filter_closed` | the same, one version | violation: finding 2 |
| `remote_safety` | 2 threads, a directory with a file and a directory, 2 copies, 2 versions; 2 users of each module, one serial file of ucftp, 2 connections, 1 or 2 faults | references to copies, nothing there is called missing, no circle of locks; connections, transfers and lists of the modules |
| `readers_safety` | 2 vfiles, 5 formats, for each two or three contents of at most 5 units, 1 fault (none for gzip) | streams in their place, right bytes and sizes, no false error |
| `readers_seek` | the same, bzip2 | violation: finding 3 |
| `dav_slots` | 2 calls, 2 accounts, 2 slots | violation: finding 4 |

Why the bounds are enough to meet the interesting cases:

* `Cache`: two entries of size 3 do not fit in a limit of 4, so every second
  insertion evicts, and with a limit of 2 one entry alone exceeds it.  Setting the
  limit or the space to keep changes the limit while a loop runs.  Two threads
  are one in a gap and one that changes what the first has seen.  The theorems say
  the same of any number of cells, objects and names.
* `FileTable`: three threads are an operation that waits, a close it waits for,
  and an open that wants the slot.  Two files in a table that starts empty and
  grows by one make it grow twice.  Descriptors reach from one below to one above
  those that exist.
* `SerialFile`: five bytes in blocks of two are two whole blocks and a part;
  positions 0, 3 and 4 are inside, at and beyond what has arrived; a write at 4
  to the short file leaves a gap.
* `Parse`: two segments are a directory and a name in it, or a name with a handler and
  one behind it; three mounts are the local file system, a handler and a handler on
  that, where a mount is left between two others; a link leads to one link more than
  may be followed.
* `Programs`: a pipe of one byte is full or empty, three bytes pass through it and the
  `cbuf` of two with one left over, and two things go wrong: one in the program and one
  in the file.  What is complained is longer than its pipe.
* `Volatile`: a rename over another name in another directory needs three nodes and four
  entries.  `OpenFiles`: a write across the end, a hole, and a truncation in front of it.
* The archive modules: three members are a file, its directory before or after it, and a
  link to it or the same name again.  The limits of the formats (`TarBlock`,
  `SearchLen`) are cut down so that they are reached.
* `Ftp`, `Ucftp`, `Http`, `Dav`: two users of one connection, or of one entry; a fault in
  the first call that the second meets.
* The readers: with buffers of two units and an index after every unit, a content is
  refilled and restarted, and a member ended; bzip2 has two blocks, lzip two members.
  The second vfile finds what the first left.  The reads begin in front of, at and behind
  the place where another has ended.
* `Namespace`: three entries are a directory with two children, or a path of
  three; two names collide and differ.
* `Archive`: a thread uses one archive at a time, so two threads need no more than
  two addresses.  Three versions are an archive that is outdated when it is found
  and one whose successor is outdated too, after which one more try than
  `MaxTries = 1` gives up (the code has 5).
* `Filter`: three nodes are one for each thread and one that only the caches keep.
  Three versions are two changes by any of another program, a flush and a
  truncation, such as a change from outside between the open and the flush.
  Finding 2 needs none.
* `Remote`: two threads are two users of a node, or a reader and an open that work
  on its copy.  Two copies are an old one that somebody still uses and its
  successor.  Two versions are a file that has changed and one that changes again
  while it is compared.  A directory among the entries is a sibling whose lock is
  held by a call that has not locked the parent.

Deadlock is not checked by TLC: cells, files and entries are addresses that are given
out once, and the modules that stop at a fault of the code, or when their budget of
faults and calls is used up, have nothing left to do.  That nobody is stuck before is what
`OperationsEnd`, `CallsEnd`, `CallAnswers`, `EveryCallEnds`, `GetEnds` and, for the locks of
`Remote`, `NoCircle` say.  Symmetry is used only in runs without liveness properties.

### Fairness

* `Cache`, `FileTable`: strong fairness of each thread's continuation.  A thread
  inside the library goes on, and one that waits for a mutex that becomes free
  again and again gets it in the end: this assumes that the pthread mutexes do
  not starve a waiter.  Drivers answer, if only with an error.  Nothing obliges a
  program to start a call.
* `Archive`: strong fairness of the steps of `get_archive` of each thread, for the
  same reason: a parse ends, and a waiter gets the lock.
* `SerialFile`: weak fairness of the call under way: the source and the temporary
  file answer, if only by failing.
* `Parse`: weak fairness of the one call under way; file systems answer.
* `Programs`: weak fairness of the call under way, and of the program: one that can read,
  write or end does so in the end.  Nothing obliges it to complain or to fail.

## 4. The proofs

`CacheProofs` proves, for any number of threads, cells, objects and names and any
limits, all safety properties of `Cache`: `TypeOK`, `ListMatchesCells`, `RefctrExact`,
`OwnEntryKept`, `UsageIsSum`, `CacheBounded` and `NameIsKey`.  The first four follow from
the inductive invariant `IInv == Types /\ Structure /\ Counts`:

* `Structure` is `ListMatchesCells` with what it needs to be inductive.
  `ThreadInv` says what the locals of a thread mean in each gap, for example that
  a thread has an object to release exactly at `free`; `CellInv` ties a cell's
  kind to its object and its users, so that a cell that is deleted has no user
  who could find it again.
* `Counts` is `RefctrExact` and that objects not created yet have count 0.  The
  step from one count to another is done once, in the lemma `Counting`: when a
  function changes in one place, the number of places that refer to an object
  changes by at most one.  Every action then moves references between three
  functions: those of callers, of cells and of releases under way.

No count is negative because it equals a number of references; this is how
`TypeOK` follows.  The other three have an invariant each that is inductive together
with `IInv`:

* `SumInv`, for `UsageIsSum`: the usage is the sum over the list, stated as the number of
  blocks `<<cell, i>>` the stored cells have, so that what is known of finite sets says
  how it changes.  A step keeps the usage, or adds, removes or resizes one cell.
* `BoundInv`, for `CacheBounded`: the cache is within a limit it was given, or one cell
  uses all of it, or some thread is in the loop that makes room; and what that thread aims
  at is no more than a limit.  Only a change of size makes the cache larger, and it begins
  the loop in the same step.
* `KeyInv`, for `NameIsKey`: no two cells that have a name, in the list or on the way into
  it, have the same.  This is proved under `PerNameLock`, which is what `extfs.c` does;
  without it two calls of `av_cache2_set` may both find nothing and insert twice.

The assumptions are those of `Cache`: threads and cells are finite sets, `None` is none of
the things, sizes and limits are in the range of `avoff_t`.

`InterfaceProofs` proves all safety properties of `FileTable`: `TypeOK`,
`RefsExact`, `DriverCalls`, `NoLeak`, `SlotKept`, and that `FileTable` implements
`Descriptors`.  The inductive invariant is `IInv == Inv /\ RefsExact`, and `Inv`
has one conjunct per idea: `ThreadInv` (locals), `LockInv` (who is in the driver
has the lock, and a lock has an owner who is there), `TableInv` (a file has one
slot), `CloseInv` (a file that is closed but still in its slot has exactly one
closer, who is on the way to clear it) and `OpenInv` (an open file is in a slot
or in the hands of the thread that opens it).  `CloseInv` is what the order of
the statements in `av_fd_close` is for, and what makes the slot safe to clear
without the lock of the file.  The refinement theorem assumes that `Fds` contains
the natural numbers, since the abstract table has to have a place for each slot.

It also proves both invariants of `Parse`, for paths, links and stacks of mounts of any
length and any number of open files.  `ParseInv` says which ventries a call has in each
place (`CallInv`): the one it is at while a path is parsed, the copy that is being tried,
those it has got, at most two, or the mounts of the file it has opened.  `given` and
`fsrefs` are then the data and mounts of these and of the open files.  `VentriesBalanced`
says the same of one sequence of them all; it is not inductive, since after a failed lookup
the last mount has no data, while all that is got or open has (`Full`).  `Outcome` is what
the steps have in common: a lookup, with the mounts it leaves above a root, and the entry
into a mount change the two counts by what the ventry changes and leave the rest of what is
in use alone.  `LinkSame` holds of what `transform_symlink` makes of any two paths: what it
strips is the beginning of both, and the `..` lead to where it ends.  The assumption is
that the bounds on segments and links are natural numbers.  The theorems are of the
specification that `interface_safety` checks.

`FilterProofs` proves all safety properties of `Filter`, for any number of users, nodes
and inodes: `TypeOK`, `RefctrExact`, `WritersCanWrite`, `NothingUnsaved` and
`BaseFilesClosed`.  They are inductive together, with what a thread has in each place
(`ThreadInv`) and what a node is while it exists (`NodeInv`).  Neither works alone: that
a node with writers has its base file open for writing needs the writers to be counted
exactly, and these are counted among the holders of references.  `OneNode` is the step
that all actions share: where one thread touches one node, everything follows from how
its own counts change.

`NamespaceProofs` proves all safety properties of `Namespace`, for any number of threads,
names and entries: `TypeOK`, `RefctrExact`, `OneEntryPerName`, `WalkComplete`,
`TableIsLive` (the hash table has the entries with references) and `PathAlive`.
References are in four kinds of places, one of them the stacks of references that
threads have yet to drop, so `RefctrExact` counts positions in sequences; each action is a
balance between the four (`Balanced`, `Holding`).  `WalkComplete` needs an invariant of its
own: up to the position of a reader, `seen` has all that was there since it began
(`Scan`), however the list in front of it and behind it changes (`ReadInv`).  `ParentInv`
says that no entry is its own parent, without which an entry that is put in its
directory could be confused with that directory.

It also proves `OpenFileTrue` of `OpenFiles`, for any contents, any bound on their length and
any directory.  The invariant is about one record: the string in the memory of a state file
is what POSIX has (`StringTrue`), a local file is read and written where its pointer is
(`LocalTrue`), and an entry is the one at its position (`EntryTrue`).  The work is in the
arithmetic of buffers: where the first NUL of a buffer is after a write that ends behind the
string (`WrittenPast`), one that does not (`WrittenWithin`) and a truncation (`CutOff`).
A write behind the end is the exception (`gap`), since what is between is not NULs but what
the memory had; that there is a NUL at all is proved for it too.  The assumption is that
the values of state files are strings, which have no NUL in them.

And it proves `VolatileExact`, of the specification that `namespace_safety` checks: the two
counts of `Volatile`, `VolLinkCount` and `VolRefsExact`, for any numbers of names, entries,
nodes, users and open files.  A call is one step, but it takes a reference, changes entries
and nodes, and then drops one; so the lemmas are about worlds (`VolSafe(w, h, f, x, m)`),
in which the entry `x` or the node `m` has one reference more than are there.  Each function
of the code takes such a world to another, and the invariant `VolInv` is the world without
one more.  It needs, besides the counts, that the numbers are in their ranges and that an
entry that is not there has no parent (`FreeIsBare`), or a new entry at its address would
count for a directory that has not got it.  The hard part is `vol_unlink_entry`, which calls
itself for the parent.  What goes with a reference is stated without recursion, as the least
set that is closed upwards (`Gone`): an entry with its last reference takes away one of its
parent's.  Since each entry that goes, but the first, goes for one child that did
(`GoneFacts`), only one of those that go has a parent that stays, and that is the one whose
count falls by one (`GoneSafe`).  The assumptions are that users and open files are finite
sets, and that there is room for the root.  A rename may leave entries below an entry without
a node; the theorem holds up to the step that uses the NULL there, as the run has it.

`SerialFileProofs` proves, for files, blocks and reads of any size, `TypeOK`, `InStep` and
that `SerialFile` implements `TranslatedFile`.  The inductive invariant has three ideas:
`Control` says which states of the file a call can be in at each place, `Arrived` that the
temporary file and the buffer are consecutive pieces of the source up to what the
connection has delivered, and `Arguments` that those of a call are of its kind.  The
refinement is a theorem of `Spec /\ []~CutUnseen`, and this is no technicality:
`CutUnseen` is the truncation that is not noticed (`src/serialfile.c:381`, section 5), after
which the code does not do what its users are promised.  It is one state of one call, a
truncation to exactly what has arrived while there is more; everything else is proved
without exception.  `Whole` is what it would break: a file that has ended, and has no
changes, is all of the source.

It also proves `ProgramTrue` of `Programs`, for files, pipes and buffers of any size.  The
invariant is a conservation law: what the caller has received, followed by what is in the
pipe to it, held by the program, in the pipe to the program and in `cbuf`, is the base file
up to its position (`FileArrives`; `FileLeaves` and `ListingArrives` are the same for the
other direction and for the lines of a listing).  A step moves bytes over one of these
borders and keeps their order.  The law is lost when the program is killed or fails, but by
then only a beginning has been received, so that is a part of its own; it is lost for good
after a short write of the base file, which nobody notices (`src/filtprog.c:145`), and is
therefore stated for the others.  `ProgramSeen` says what avfs may conclude from what it
has seen: that `poll` reported a pipe that turns out to be empty means that the program has
ended, and after that no byte comes.  This is why the end is the end of everything, and
needs that the program's input was closed and the pipes were its own.  The assumptions are
that the input is a sequence, and that pipes, buffers and requests are not of size zero.

`ArchiveProofs` proves all safety properties of `Archive` but the action property
`EntriesGoFirst`, which the code violates (section 5), for any number of users and
archives: `TypeOK`, `RefctrExact`, `MissingExact`, `PresentTree`, `BaseFileShared` and
`ParserAlone`.  `TreeInv` is why an archive that looks present is: what it is compared with
(`st`) was read before its tree (`contents`), and both are not newer than the base file.
The three counts are one argument (`Balance`): a step changes what one thread and the file
cache have, by as much as the counts.  Only the last reference that is dropped is different,
since the archive goes with all that is counted in it; `Deserted` says that nobody has
any of it then.

`RemoteProofs` proves all safety properties of `Remote`, for any number of users, entries
and copies: `TypeOK`, `CopiesExact`, `MissingTrue` and `NoCircle`.  Most of the invariant
is about one thread (`Own`): which call can be where (`CallOk`), which locks it has there
(`LockOk`, `FileLockOk`), whether it has a copy (`FilOk`) and when a listing is that of
the parent (`ListOk`).  `FreshInv` is about two: a copy that a reader has made is not in a
node, a cell or another's hands before `Store`, which is why `Store` may write over
whatever the cell has had.  `MissingTrue` needs `ListOk` in one place, where a call that has
listed the parent does not find the entry (`FillEnd`).  `NoCircle` follows from the locks
alone, without being inductive (`Ordered`): who has the lock of an entry waits for nobody but
while it fills in a listing of the directory, and there is one such call at most,
since that needs the lock of the directory.

It also proves of `Ftp`, for any number of calls, users, directories, connections and faults,
`BusyExact` (a part of `ConnectionsFreed`), `TransferTrue` and `FileWhole` (parts of
`TransfersTrue`).  `FtpInv` is about a connection and the call that has it.  What the
client believes is true only while no reply is on its way (`ConnOk`): a local file that
cannot be made leaves the reply to its transfer unread, and from then on every reply is
that of the command before, so that `cwd` and `binary` are wrong.  `PlaceOk` says how far
this can go.  The desynchronised connection gets through `NOOP`, `TYPE` and `CWD`, and ends
at `PASV`, where only the code 227 will do and no command before could have got it; hence no
connection has the reply to a `PASV` on its way, and at a transfer there is none
(`Commanding`, `FtpOpenDataconn`).  The assumption is that no directory has an empty name,
which is what `cwd` has when it is not known (NULL in the code).

Of `Http` it proves `HttpSizeTrue`, for any number of addresses and files and any length
of a response.  `HttpInv` is about one entry: a serial file that answers has an entry
whose announced size, if there is one, is that of the response it reads
(`HttpEntryOk`); that `http_start` forgets the size of the response before is what keeps it.
Of `Dav` it proves `DavFreed`: `DavInv` says that each slot in use is that of a call, and
that only a call on its way from `dav_get_conn` to its release has one.  It does not say
that there is one such call, which is what the code gets wrong (section 5).

Of `Ucftp` it proves `BusyHasUser`, `UcRefsExact` and `UcOneEntry`, for any number of users,
files, names, entries and connections.  A call is one step here, but a long one: a list is
asked for, refused or cut off, put in place of the list before, dropped again, and the
entry is taken from what is left.  So the lemmas are about worlds, the connections and
entries in the middle of a call: a world is safe (`UcSafe`) when its tree is one
(`UcTree`: an entry is listed where it says it is, once under its name, and one without
references nowhere) and each entry has the references of its holders and its node
(`UcExact`).  Each of the code's functions takes a safe world to a safe one and makes no
connection busy but its own (`UcQuiet`), so that a step is a chain of them; only the
references that users and files have differ at the two ends (`UcHeldBy`).  `over` marks the
entries whose count is wrong, since a list has taken a reference that was a user's: the
theorem says that these are all.  A process that has failed is left out, but for
`UcOneEntry`, which is proved of the state it fails in too (`UcTreeKept`).  The assumptions
are that users and files are finite sets and that the entries are numbered.

`ConnectionsCorrect`, `TransfersCorrect` and `ListCorrect` put these together: they are
theorems of the specification that `remote_safety` checks, with its properties
`ConnectionsFreed`, `TransfersTrue` and `UcListExact`.  A step of the whole is a step of
each module or leaves its variables alone (`PartSteps`).

`ReaderProofs` proves `InPlace` of the five readers, for any number of vfiles, nodes, caches
and faults, any contents of the base file and any sizes of the buffers.  The inductive
invariant is `ReadersInv`: there is a list `own`, of which content each cache is, with which
everything agrees (`Fits`).  The caches are never freed and have no name of their content in
them; what makes a stream of the stream cache, or an index, fit the vfile that takes it is
that a vfile has the id of a cache of its own content only (`FilIs`), and a node the cache of
its signature (`NodeIs`).  `StreamOf` is what is kept of a stream: `InPlace`, and that what its
buffer holds is still in the file.  For lzip and zstd, which count their input in the decoder
and in a buffer, the two counts belong to it (`LzAt`, `ZstAt`), and an index of bzip2 is behind
the end of a block (`InIndexIs`), so that the decoder that starts there begins a block.  Each
function of a reader takes a machine in place to one in place (`MachineOf`) and changes neither
its vfile nor its cache (`Keeps`); the steps of the handlers then put back what they took
(`StepLater`), whichever of the calls of the system fails.  What the models have of a
decompressor is a function of its image, so the arithmetic is that of counting in a part of
it (`DataSum`).  The assumptions are those on the constants: an image is a sequence of tokens
and the sizes are natural numbers (`StreamsAssumption`); and what follows the end of a gzip
member is its trailer, as far as it is there (`GzipAssumption`, `TrailersFollow`).  The trailer
is eight bytes of any value in the code, which an image has as tokens of their own: without
the assumption an image could have data in the place of a trailer, of which no file is the
image.

`TypeOK`, `NoLeak`, `BaseFilesClosed`, `TableIsLive`, `PathAlive`, `InStep`, `MissingExact` and
`ParserAlone` are proved and in no run: the runs have the properties that these serve.
`BusyExact`, `TransferTrue`, `FileWhole`, `HttpSizeTrue`, `DavFreed`, `BusyHasUser`,
`UcRefsExact` and `UcOneEntry` are checked as parts of the properties of `remote_safety`.

Only model-checked: the archive modules (`ModulesTrue`), which are recursive in the length
of a file; of the readers `AnswersTrue` and `NoFalseError`, which need besides `InPlace` what a
call has given so far and which end of the file has been reached; and all liveness, since the
prover has neither fairness nor `ENABLED`.

## 5. Findings

Four disagreements between the code and what its comments and documents say have a run:

1. `cache_unknown`: the comment at `src/cache.c:301` takes unknown free space to
   be infinite.  The code then adds it to the usage (`src/cache.c:309`).  The sum
   overflows, the limit becomes negative and the cache is emptied, although it
   was within its own limit.
2. `filter_closed`: the last close for writing closes the vfile of the base file
   (`src/filter.c:405`), but the serial file keeps the pointer.  If it had a
   connection, because the writer had read a part of the file only, the end of the
   connection seeks in the closed vfile as soon as the node is freed.  A reader
   who is still open meets the NULL that is left (`src/filter.c:459`), and so does
   the next open for writing (`src/filter.c:175`).  The invariants of
   `filter_safety` hold up to the first such access.
3. `readers_seek`: in `src/bzread.c` the flag that the stream has ended belongs to the
   vfile and not to the stream.  After a read to the end, a read in front of it puts an
   earlier stream back and gets nothing (`bzread.c:149-190`, `361-372`).  `ChangeLog:342`
   says of the sibling `src/zread.c`, where the flag is kept with the stream, that seeking
   back from the end works; nothing was written or done for `bzread.c`.
4. `dav_slots`: the search for a connection that is not busy tests and sets without a lock
   (`modules/dav.c:192-201`): two calls get the same one.

Other faults that the models show.  They have no run of their own; where a property
states the opposite it is in its module, with a note that it does not hold, and the
properties of the runs say which behaviours they leave out.

* `src/cache.c:434` (`NoNullAccess` of `Cache`): `av_cache2_setsize` uses the result of the
  search for the name without a test; another thread may have evicted it since
  `av_cache2_set`.
* `src/serialfile.c:381` (`CleanIsComplete` of `SerialFile`): a truncation to exactly what has
  been read so far does not mark the file as changed.  `serialfile_safety` truncates to
  lengths that are not a multiple of the block.  `serialfile.c:455`: when `startput` fails,
  a connection pointer that was never set is released.
* `src/archive.c:316` (`EntriesGoFirst` of `Archive`): the close of a directory drops the
  archive before the entry at which the listing stands; a missing name is freed with the
  tree (`archive.c:37`) and then once more.
* `src/filtprog.c:145`, `206`: a short write to the base file is not noticed.
  `filtprog.c:265-270`: another program that starts meanwhile inherits the pipes.
  `src/filebuf.c:214` (`LastLineGiven` of `Programs`): a last line without newline is lost,
  also of `extfs.ini`.  `modules/rsh.c:266-280`: nobody reads what the copying program
  prints; it stops when its pipe is full.
* `src/zread.c:763-795` (`SizeFound`), `594-598` (`MembersCounted`), `src/lzipread.c:193`
  (`NeverSpins` of `CompressedFile`): the size of a gzip file at its end with a new index is an
  error; that of one with several members may be that of the first; a read to the end of an
  lzip file after a restart may never return.
* `modules/ftp.c`: a data connection is closed twice after an error (`768-782`), the reply
  to `TYPE` is not looked at (`519-548`), and a connection whose write fails is not made
  anew (`284`).
* `modules/ucftp.c` (`OneTransfer`): a list does not look whether the connection is busy with
  a transfer.  Entries without a node lose the reference of their holder when the list is
  made anew.
* `modules/http.c:390`: a body that is cut short is taken as whole when its length was not
  announced or not compared.
* `modules/volatile.c:725-742`: a directory that is renamed leaves its entries with a parent
  that has no node.
* `modules/extfs.c:331`: the key of an extracted file has no version; the file extracted
  from an older archive is given.
* `modules/utar.c:683`, `uzip.c:298`, `urar.c:555-582`: an empty name, a zip archive behind
  other data, and sizes of rar 5 over 2^31 are not read as they should be; the models have
  the archives that lead there left out or as the code treats them.
* `src/parsels.c:206`: a file whose name looks like a year is taken for a date.

## 6. What is not modelled, and why

* Of the modelled parts: `av_cache2_set` with a NULL object and
  `SFILE_NOCACHE`, which no caller uses; the per-file-system lock `AVFS_LOCK`,
  which only removes interleavings; the contents of file operations (`Operate` is
  any of them); failing allocations, since `src/alloc.c` ends the process;
  case-insensitive names and the size of the hash table of the namespace;
  attributes and data of files in an archive, which only read what the
  parse has made, and seeks beyond the end of a listing.
* In `Remote`, a `list` of the host that itself answers `-ENOENT` (`remote.c:409-412`), as
  for a directory that has gone: the node is then taken as missing.  `MissingTrue` is about
  names that are not in a list, and does not see what such an answer does.
* Wording: how a segment, a header or a reply is written, as long as nothing but its
  meaning depends on it; times, modes and owners; checksums of tar, zip and rar.
* `src/filecache.c` as a list with ages: its users are checked with an entry that may
  go at any time, which is what its limits amount to.  That its destructors run with
  `fclock` held is not.
* Attributes, links and the copying of handles (`ucftp_copyent`) over ucftp, which has no
  rename; the XML of dav, and `modules/floppy.c`.
* The exit handlers `Destroy` and `CloseAll` run when no thread is inside; the
  library gives no guarantee otherwise.
* The decompressors are libraries; what they deliver is a function of their input.
* System calls, sockets, processes and module loading are the environment.  What
  they can answer is a nondeterministic choice where a model meets them.
* `zlib/`, `bzlib/`, `patch/`, `scripts/`, `extfs/` scripts and `glassfs/` are
  vendored, generated or outside the library.

## 7. The plan

All components that keep state are modelled.  What is left, in order:

1. Proofs of the rest: `AnswersTrue` and `NoFalseError` of the readers, on top of
   `ReadersInv`, and the archive modules, once their walks are written as folds.
2. `FileCache`: the keyed list, its two limits and the destructors that run with `fclock`
   held; its abstract form is a partial function from keys to objects that may forget.
3. The contents of `Filter`, as one `TranslatedFile` for each base file, and the bytes of a
   copy in `Remote`.
