----------------------------- MODULE Filesystem -----------------------------
(***************************************************************************)
(* filesystem/file_access.cpp and file_access.h: the mount table, the file *)
(* descriptor tables of the processes, and the reference counted files     *)
(* between them.  open() holds the mutex of its table all along and the    *)
(* one of the FilesystemManager only while the path is resolved; close()   *)
(* and the operations on open files take neither and rely on atomic_load() *)
(* and atomic_exchange(); umount() holds the manager's mutex to the end.   *)
(*                                                                         *)
(* Descriptors 0 to 2, of the terminal, belong to no filesystem and are    *)
(* left out.  A filesystem (external) has all directories and may refuse   *)
(* to open a file.                                                         *)
(***************************************************************************)
EXTENDS PathResolution, FiniteSets

CONSTANTS Users,         \* threads that use and close files
          Openers,       \* those that open files as well
          Admins,        \* threads that mount and unmount
          NoThread,
          Tables, KernelTable,
          TableOf,       \* table of each user's process
          MAX_OPEN_FILES,
          Files, NoFile, \* addresses of file objects
          Objects,       \* bound on the filesystem objects of a mount point
          NoFs,
          MountPoints, Paths,
          NamePrefixes   \* pairs of names of which one begins with the other

ASSUME FilesystemAssumption ==
    /\ IsFiniteSet(Users) /\ IsFiniteSet(Admins) /\ IsFiniteSet(Tables)
    /\ NoThread \notin Users \cup Admins
    /\ Users \cap Admins = {} /\ Openers \subseteq Users
    /\ KernelTable \in Tables
    /\ TableOf \in [Users -> Tables]
    /\ NoFile \notin Files
    /\ NoFs \notin MountPoints \X (1 .. Objects)
    /\ <<>> \in MountPoints /\ MountPoints \subseteq Seq(STRING)
    /\ Paths \subseteq Seq(STRING)
    /\ MAX_OPEN_FILES \in Nat /\ Objects \in Nat \ {0}

\* Filesystem objects are named for the mount point they were made for.
Fs       == MountPoints \X (1 .. Objects)
Fds      == 3 .. MAX_OPEN_FILES - 1
maxRetry == 3

VARIABLES
    filesystems,   \* what is mounted at each mount point
    mutex,         \* owner of FilesystemManager::mutex
    fileTables,    \* list of the tables that umount() looks into
    files,         \* entries of each table
    busy,          \* owner of the mutex of each table
    parent,        \* filesystem of each live file
    refs,          \* reference count of each file
    call,          \* what each thread is doing
    late,          \* history: files of calls of open() that had resolved the
                   \* path when umount() began
    torn           \* history: addresses of files whose entry was taken before
                   \* the operator= in open() had counted it

vars == <<filesystems, mutex, fileTables, files, busy, parent, refs, call, late, torn>>

Idle     == [op |-> "idle"]
Mounted  == {m \in MountPoints : filesystems[m] # NoFs}
Alive(o) == parent[o] # NoFs

MaxEntries == Cardinality(Tables) * Cardinality(Fds)

Calls ==
    {Idle}
    \cup [op : {"open"}, fd : Fds]
    \cup [op : {"resolved"}, fd : Fds, fs : Fs, late : BOOLEAN]
    \cup [op : {"created", "published"}, fd : Fds, file : Files]
    \cup [op : {"use"}, file : Files]
    \cup [op : {"scan"}, targets : SUBSET MountPoints, force : BOOLEAN, entry : 1 .. MaxEntries + 1]
    \cup [op : {"close"}, targets : SUBSET MountPoints, file : Files, entry : 1 .. MaxEntries]
    \cup [op : {"check"}, targets : SUBSET MountPoints, force : BOOLEAN, tries : 0 .. maxRetry - 1]
    \cup [op : {"erase"}, targets : SUBSET MountPoints]

TypeOK ==
    /\ filesystems \in [MountPoints -> Fs \cup {NoFs}]
    /\ mutex \in Admins \cup {NoThread}
    /\ fileTables \in Seq(Tables)
    /\ files \in [Tables -> [Fds -> Files \cup {NoFile}]]
    /\ busy \in [Tables -> Users \cup {NoThread}]
    /\ parent \in [Files -> Fs \cup {NoFs}]
    /\ refs \in [Files -> Nat]
    /\ call \in [Users \cup Admins -> Calls]
    /\ late \subseteq Files
    /\ torn \subseteq Files

\* As after basicFilesystemSetup() has mounted the root.
Init ==
    /\ filesystems = [m \in MountPoints |-> IF m = <<>> THEN <<m, 1>> ELSE NoFs]
    /\ mutex = NoThread
    /\ fileTables = <<KernelTable>>
    /\ files = [d \in Tables |-> [i \in Fds |-> NoFile]]
    /\ busy = [d \in Tables |-> NoThread]
    /\ parent = [o \in Files |-> NoFs]
    /\ refs = [o \in Files |-> 0]
    /\ call = [t \in Users \cup Admins |-> Idle]
    /\ late = {} /\ torn = {}
-----------------------------------------------------------------------------
(* Reference counted files *)

Do(t, c)        == call' = [call EXCEPT ![t] = c]
Listed(d)       == \E n \in DOMAIN fileTables : fileTables[n] = d
Store(d, i, o)  == files' = [files EXCEPT ![d][i] = o]
Published(o)    == \E t \in Users : call[t].op = "published" /\ call[t].file = o

\* n[o] references to each file o are given up; the last one deletes it.
Release(n) ==
    /\ refs' = [o \in Files |-> Max0(refs[o] - n[o])]
    /\ parent' = [o \in Files |-> IF refs[o] <= n[o] THEN NoFs ELSE parent[o]]
    /\ late' = {o \in late : refs[o] > n[o]}

One(o) == [x \in Files |-> IF x = o THEN 1 ELSE 0]

\* Mutant: the pointer is read and counted in two steps, and lost between.
getFile_NotCounted(o) == UNCHANGED refs

\* FileDescriptorTable::getFile(): atomic_load().
getFile(o) == refs' = [refs EXCEPT ![o] = refs[o] + 1]

manager == <<filesystems, mutex, fileTables>>

\* Where a new file object can be: also at the address of a deleted one that
\* something still points to.
Fresh(o) == ~Alive(o)

\* atomic_exchange() with an empty pointer: the entry of file o is emptied,
\* maybe before the operator= in open() has counted it.
Take(d, i, o) ==
    /\ Store(d, i, NoFile)
    /\ torn' = IF Published(o) THEN torn \cup {o} ELSE torn
-----------------------------------------------------------------------------
(* File descriptor tables *)

\* FileDescriptorTable::open() locks the table and finds an empty entry.
open(t) ==
    LET d == TableOf[t] IN
    /\ call[t] = Idle /\ Listed(d)
    /\ busy[d] = NoThread
    /\ \E i \in Fds : /\ files[d][i] = NoFile
                      /\ \A k \in 3 .. i - 1 : files[d][k] # NoFile
                      /\ Do(t, [op |-> "open", fd |-> i])
    /\ busy' = [busy EXCEPT ![d] = t]
    /\ UNCHANGED <<manager, files, parent, refs, late, torn>>

\* open() returns, and unlocks the table.
Return(t) ==
    /\ Do(t, Idle)
    /\ busy' = [busy EXCEPT ![TableOf[t]] = NoThread]

\* Mutant: resolvePath() does not lock the mutex.
openResolve_NoLock(t) ==
    /\ call[t].op = "open"
    /\ \E path \in Paths :
         LET r == resolvePath(Mounted, path) IN
         IF r.result < 0 THEN Return(t)
         ELSE /\ Do(t, [op |-> "resolved", fd |-> call[t].fd, fs |-> filesystems[r.fs],
                         late |-> FALSE])
              /\ UNCHANGED busy
    /\ UNCHANGED <<manager, files, parent, refs, late, torn>>

\* ... calls FilesystemManager::resolvePath(), which locks and unlocks.
openResolve(t) ==
    /\ call[t].op = "open" /\ mutex = NoThread
    /\ \E path \in Paths :
         LET r == resolvePath(Mounted, path) IN
         IF r.result < 0 THEN Return(t)
         ELSE /\ Do(t, [op |-> "resolved", fd |-> call[t].fd, fs |-> filesystems[r.fs],
                         late |-> FALSE])
              /\ UNCHANGED busy
    /\ UNCHANGED <<manager, files, parent, refs, late, torn>>

\* ... and FilesystemBase::open(), which fails or constructs a file.
openCreate(t) ==
    /\ call[t].op = "resolved"
    /\ \/ Return(t) /\ UNCHANGED <<parent, refs, late, torn>>
       \/ /\ \E o \in Files :
             /\ Fresh(o)
             /\ parent' = [parent EXCEPT ![o] = call[t].fs]
             /\ refs' = [refs EXCEPT ![o] = 1]
             /\ Do(t, [op |-> "created", fd |-> call[t].fd, file |-> o])
             /\ late' = IF call[t].late THEN late \cup {o} ELSE late
          /\ UNCHANGED <<busy, torn>>
    /\ UNCHANGED <<manager, files>>

\* intrusive_ref_ptr::operator= makes the entry point to the file ...
openPublish(t) ==
    /\ call[t].op = "created"
    /\ Store(TableOf[t], call[t].fd, call[t].file)
    /\ Do(t, [op |-> "published", fd |-> call[t].fd, file |-> call[t].file])
    /\ UNCHANGED <<manager, busy, parent, refs, late, torn>>

\* ... and counts the reference afterwards; the one it was constructed with
\* is then given up.  When the entry has been taken in between the compiled
\* code may count or not, in memory that may have been freed and may be the
\* one of another file by now.  A second delete of freed memory is not
\* followed any further.
openCount(t) ==
    LET o == call[t].file IN
    /\ call[t].op = "published"
    /\ Return(t)
    /\ \/ UNCHANGED <<parent, refs, late>>
       \/ files[TableOf[t]][call[t].fd] # o /\ Alive(o) /\ Release(One(o))
    /\ UNCHANGED <<manager, files, torn>>

\* read(), write(), lseek(), fstat(), isatty(), fcntl(), ioctl(), getdents():
\* the file is in use from here ...
use(t) ==
    \E i \in Fds : LET o == files[TableOf[t]][i] IN
    /\ call[t] = Idle /\ Listed(TableOf[t]) /\ o # NoFile
    /\ getFile(o)
    /\ Do(t, [op |-> "use", file |-> o])
    /\ UNCHANGED <<manager, files, busy, parent, late, torn>>

\* ... to here.
useEnd(t) ==
    /\ call[t].op = "use"
    /\ Release(One(call[t].file))
    /\ Do(t, Idle)
    /\ UNCHANGED <<manager, files, busy, torn>>

\* close(), and a round of closeAll(), of any descriptor there is, without
\* the mutex of the table.
close(t) ==
    \E i \in Fds : LET o == files[TableOf[t]][i] IN
    /\ call[t] = Idle /\ Listed(TableOf[t]) /\ o # NoFile
    /\ Take(TableOf[t], i, o)
    /\ Release(One(o))
    /\ UNCHANGED <<manager, busy, call>>

\* A process is created: its table is added.
addFileDescriptorTable(d) ==
    /\ ~Listed(d) /\ mutex = NoThread
    /\ \A i \in Fds : files[d][i] = NoFile
    /\ fileTables' = Append(fileTables, d)
    /\ UNCHANGED <<filesystems, mutex, files, busy, parent, refs, call, late, torn>>

\* A process is deleted, with no thread left: ~FileDescriptorTable() removes
\* the table (list::remove(), of a list that holds it once) ...
removeFileDescriptorTable(d) ==
    /\ d # KernelTable /\ mutex = NoThread
    /\ \A t \in Users : TableOf[t] = d => call[t] = Idle
    /\ \E n \in DOMAIN fileTables :
          /\ fileTables[n] = d
          /\ fileTables' = [k \in 1 .. Len(fileTables) - 1 |->
                              fileTables[IF k < n THEN k ELSE k + 1]]
    /\ UNCHANGED <<filesystems, mutex, files, busy, parent, refs, call, late, torn>>

\* ... and the entries are destroyed.
DestroyEntry(d) ==
    \E i \in Fds :
    /\ ~Listed(d) /\ files[d][i] # NoFile
    /\ Store(d, i, NoFile)
    /\ Release(One(files[d][i]))
    /\ UNCHANGED <<manager, busy, call, torn>>
-----------------------------------------------------------------------------
(* FilesystemManager *)

\* StringPart::startsWith(): a comparison of characters, not of components.
startsWith(m, n) ==
    LET k == Len(n) IN
    k = 0 \/ /\ Len(m) >= k
             /\ Prefix(m, k - 1) = Prefix(n, k - 1)
             /\ n[k] = m[k] \/ <<n[k], m[k]>> \in NamePrefixes

\* A filesystem object nothing refers to stands for a new one.
Unused(f) == /\ f \notin {filesystems[n] : n \in MountPoints} \cup {parent[o] : o \in Files}
             /\ \A u \in Users : call[u].op = "resolved" => call[u].fs # f

\* kmount() of a new filesystem: the root, or on a directory.
kmount(t, m) ==
    LET r == resolvePath(Mounted, m)
        f == CHOOSE f \in {m} \X (1 .. Objects) : Unused(f)
    IN
    /\ call[t] = Idle /\ mutex = NoThread
    /\ m \notin Mounted
    /\ (m = <<>> /\ Mounted = {}) \/ r.result = 0
    /\ \E x \in {m} \X (1 .. Objects) : Unused(x)
    /\ filesystems' = [filesystems EXCEPT ![m] = f]
    /\ UNCHANGED <<mutex, fileTables, files, busy, parent, refs, call, late, torn>>

\* What umount() of m removes.
FsToUmount(m) == {n \in Mounted : startsWith(n, m)}

\* umount() up to the loop over the descriptors.
umount(t, m, force) ==
    /\ call[t] = Idle /\ mutex = NoThread
    /\ m \in Mounted
    /\ mutex' = t
    /\ call' = [u \in Users \cup Admins |->
                  IF u = t THEN [op |-> "scan", targets |-> FsToUmount(m), force |-> force, entry |-> 1]
                  ELSE IF call[u].op = "resolved" THEN [call[u] EXCEPT !.late = TRUE]
                  ELSE call[u]]
    /\ UNCHANGED <<filesystems, fileTables, files, busy, parent, refs, late, torn>>

Unlock(t) == mutex' = NoThread /\ Do(t, Idle)

InTargets(o, c) == \E m \in c.targets : filesystems[m] = parent[o]

\* Table and descriptor of the n-th round of the loop.
TableAt(n) == fileTables[1 + (n - 1) \div Cardinality(Fds)]
FdAt(n)    == 3 + ((n - 1) % Cardinality(Fds))

\* One descriptor: a file of the filesystems to unmount ends the call, or,
\* in a forced umount, is closed.
umountScan(t) ==
    LET c   == call[t]
        o   == files[TableAt(c.entry)][FdAt(c.entry)]
        hit == o # NoFile /\ InTargets(o, c)
    IN
    /\ c.op = "scan"
    /\ \/ /\ c.entry > Len(fileTables) * Cardinality(Fds)
          /\ Do(t, [op |-> "check", targets |-> c.targets, force |-> c.force, tries |-> 0])
          /\ UNCHANGED <<mutex, refs>>
       \/ /\ c.entry <= Len(fileTables) * Cardinality(Fds)
          /\ \/ ~hit /\ Do(t, [c EXCEPT !.entry = c.entry + 1]) /\ UNCHANGED <<mutex, refs>>
             \/ hit /\ ~c.force /\ Unlock(t) /\ UNCHANGED refs
             \/ /\ hit /\ c.force
                /\ getFile(o)
                /\ Do(t, [op |-> "close", targets |-> c.targets, file |-> o, entry |-> c.entry])
                /\ UNCHANGED mutex
    /\ UNCHANGED <<filesystems, fileTables, files, busy, parent, late, torn>>

\* The close() of a forced umount: of what is in the entry by now.
umountClose(t) ==
    LET c == call[t]
        o == files[TableAt(c.entry)][FdAt(c.entry)]
    IN
    /\ c.op = "close"
    /\ Take(TableAt(c.entry), FdAt(c.entry), o)
    /\ Release([x \in Files |-> One(o)[x] + One(c.file)[x]])
    /\ Do(t, [op |-> "scan", targets |-> c.targets, force |-> TRUE, entry |-> c.entry + 1])
    /\ UNCHANGED <<manager, busy>>

areAllFilesClosed(c) == \A o \in Files : Alive(o) => ~InTargets(o, c)

\* Mutant: the number of retries has no limit.
umountCheck_NoLimit(t) ==
    LET c == call[t] IN
    /\ c.op = "check"
    /\ \/ areAllFilesClosed(c) /\ Do(t, [op |-> "erase", targets |-> c.targets]) /\ UNCHANGED mutex
       \/ ~areAllFilesClosed(c) /\ ~c.force /\ Unlock(t)
       \/ ~areAllFilesClosed(c) /\ c.force /\ UNCHANGED <<call, mutex>>
    /\ UNCHANGED <<filesystems, fileTables, files, busy, parent, refs, late, torn>>

\* A round of the loop that waits, in a forced umount, for the operations
\* on closed files to complete; the mutex is held in the sleep as well.
umountCheck(t) ==
    LET c == call[t] IN
    /\ c.op = "check"
    /\ \/ areAllFilesClosed(c) /\ Do(t, [op |-> "erase", targets |-> c.targets]) /\ UNCHANGED mutex
       \/ ~areAllFilesClosed(c) /\ (~c.force \/ c.tries = maxRetry - 1) /\ Unlock(t)
       \/ /\ ~areAllFilesClosed(c) /\ c.force /\ c.tries < maxRetry - 1
          /\ Do(t, [c EXCEPT !.tries = c.tries + 1]) /\ UNCHANGED mutex
    /\ UNCHANGED <<filesystems, fileTables, files, busy, parent, refs, late, torn>>

\* The end of umount().
umountErase(t) ==
    LET c == call[t] IN
    /\ c.op = "erase"
    /\ filesystems' = [m \in MountPoints |-> IF m \in c.targets THEN NoFs ELSE filesystems[m]]
    /\ Unlock(t)
    /\ UNCHANGED <<fileTables, files, busy, parent, refs, late, torn>>
-----------------------------------------------------------------------------
OpenStep(t)   == openResolve(t) \/ openCreate(t) \/ openPublish(t) \/ openCount(t)
UmountStep(t) == umountScan(t) \/ umountClose(t) \/ umountCheck(t) \/ umountErase(t)

Next ==
    \/ \E t \in Openers : open(t)
    \/ \E t \in Users : OpenStep(t) \/ use(t) \/ useEnd(t) \/ close(t)
    \/ \E d \in Tables : \/ addFileDescriptorTable(d) \/ removeFileDescriptorTable(d)
                         \/ DestroyEntry(d)
    \/ \E t \in Admins : \/ \E m \in MountPoints : kmount(t, m)
                         \/ \E m \in MountPoints, force \in BOOLEAN : umount(t, m, force)
                         \/ UmountStep(t)

Spec == Init /\ [][Next]_vars

\* Threads run inside open() and umount(), and get the manager's mutex in
\* their turn.  An operation on a file may take forever.
FairSpec ==
    /\ Spec
    /\ \A t \in Users : SF_vars(OpenStep(t))
    /\ \A t \in Admins : WF_vars(UmountStep(t))
-----------------------------------------------------------------------------
(* Properties *)

Holders(o) ==
    Cardinality({e \in Tables \X Fds : files[e[1]][e[2]] = o})
      + Cardinality({t \in Users \cup Admins : /\ call[t].op \in {"created", "use", "close"}
                                               /\ call[t].file = o})

\* Every file has as many references as there are entries and calls that
\* point to it, and lives exactly as long as there are any: no operation uses
\* a deleted file, whatever is closed meanwhile.  It can only go wrong for
\* files at an address where an entry was taken before the operator= in open()
\* had counted it.
RefsConsistent ==
    /\ TypeOK
    /\ \A o \in Files \ torn : /\ refs[o] = Holders(o)
                               /\ Alive(o) <=> refs[o] > 0
                               /\ Published(o) => Alive(o)

\* "No need to lock the mutex when deleting": without it close() never deletes
\* a file that an entry or a call in progress still points to.
PointedToIsAlive ==
    /\ \A d \in Tables, i \in Fds : files[d][i] # NoFile => Alive(files[d][i])
    /\ \A t \in Users \cup Admins :
          call[t].op \in {"created", "published", "use", "close"} => Alive(call[t].file)

\* umount() has removed the filesystem f.
Gone(f) == f # NoFs /\ \A m \in MountPoints : filesystems[m] # f

\* "other threads can't open new files concurrently while we check": a
\* filesystem that umount() has removed has no files.
UmountedHasNoFiles == \A o \in Files : ~Gone(parent[o])

\* The files that a filesystem removed by umount() still has, and operations
\* on it, are those of threads that were inside open(), past resolvePath(),
\* when umount() locked the mutex: the checks miss no others.
OnlyLateFilesRemain ==
    /\ \A o \in Files : Gone(parent[o]) => o \in late
    /\ \A t \in Users : call[t].op = "resolved" /\ Gone(call[t].fs) => call[t].late

\* Whatever is mounted when open() resolves a path, it takes the innermost
\* filesystem mounted at or above the directory the path leads to.  A final
\* ".." out of a filesystem does so for the directory above that one: it
\* misses a filesystem mounted where it leads to.
ResolvesToInnermost ==
    \A t \in Users : call[t].op = "open" /\ mutex = NoThread =>
      \A path \in Paths :
        LET r == resolvePath(Mounted, path) IN
        r.result = 0 => r.fs = Innermost(Mounted,
            IF EndsLeavingMount(Mounted, path) /\ r.path # <<>> THEN Up(r.path) ELSE r.path)

\* A forced umount() closes the files of what it unmounts and no others,
\* although the entry it closes may have been emptied since it looked: only an
\* open() that resolves its path later, and so after umount(), can refill it.
\* Files at the addresses RefsConsistent excepts are excepted.
ForcedCloseHitsTargets ==
    [][\A t \in Admins : umountClose(t) =>
         LET o == files[TableAt(call[t].entry)][FdAt(call[t].entry)] IN
         o = NoFile \/ o \in torn \/ InTargets(o, call[t])]_vars

\* open() returns, with umount() and other threads at work.
OpenReturns == \A t \in Users : (call[t].op \in {"open", "resolved"}) ~> (call[t] = Idle)
=============================================================================
