----------------------------- MODULE ModelCache -----------------------------
(***************************************************************************)
(* The compiled-model cache (src/device/loader.zig): loads of Verilog-A    *)
(* sources, in several threads and processes, share one directory of       *)
(* builds.  An index file per cache key names the build of an earlier run; *)
(* each build has a directory with one library file and a lock file.  Any  *)
(* step may fail, and a process may die at any time.                       *)
(*                                                                         *)
(* A file is its inode: unlinking a library leaves the loads that mapped   *)
(* it with the old inode, and copying onto a path that exists truncates    *)
(* and rewrites the inode that is there.                                   *)
(***************************************************************************)
EXTENDS Naturals, FiniteSets

CONSTANTS
  Load,      \* the loads that run concurrently
  Source,    \* sources: what inputKey hashes
  Build,     \* build directories: what the digest of prepareOne hashes
  BuildOf,   \* the build a source compiles to
  Keyed,     \* the sources inputKey can follow
  Inode,     \* bound: inodes; those nobody links or maps are used again
  None

ASSUME CacheAssumption ==
  /\ BuildOf \in [Source -> Build]
  /\ Keyed \subseteq Source
  /\ None \notin Load \union Build \union Inode

VARIABLES
  pc,        \* where the load is in prepareOne
  source,    \* what it loads
  mapped,    \* the inode it has opened with dlopen
  lock,      \* who holds the build's build.lock
  library,   \* the inode at the build's library path
  whole,     \* the inodes whose file is whole
  index      \* the index of a source: "none", "torn" or "named"

vars == <<pc, source, mapped, lock, library, whole, index>>

Init ==
  /\ pc = [p \in Load |-> "idle"]
  /\ source \in [Load -> Source]
  /\ mapped = [p \in Load |-> None]
  /\ lock = [b \in Build |-> None]
  /\ library = [b \in Build |-> None]
  /\ whole = {}
  /\ index = [s \in Source |-> "none"]

Dir(p) == BuildOf[source[p]]

\* What a file system may give a new file.
Free(i) == (\A b \in Build : library[b] # i) /\ (\A p \in Load : mapped[p] # i)

GoTo(p, label) == pc' = [pc EXCEPT ![p] = label]

\* Faulty: takes the lock shared.
LockShared(b, p) == lock' = [lock EXCEPT ![b] = p]
\* createFile(.lock = .exclusive): blocks while another load holds it.
Lock(b, p) == lock[b] = None /\ lock' = [lock EXCEPT ![b] = p]

\* Closing the lock file, at the end of a scope or of the process.
Unlocked(p) == [b \in Build |-> IF lock[b] = p THEN None ELSE lock[b]]

-----------------------------------------------------------------------------
(* cachedLoad. *)

\* A load starts: the source is read and hashed.
Start(p) ==
  /\ pc[p] = "idle"
  /\ \E s \in Source :
       /\ source' = [source EXCEPT ![p] = s]
       /\ GoTo(p, IF s \in Keyed THEN "lookup" ELSE "compile")
  /\ UNCHANGED <<mapped, lock, library, whole, index>>

\* The index is read without a lock; one that is missing or torn is a miss.
Lookup(p) ==
  /\ pc[p] = "lookup"
  /\ GoTo(p, IF index[source[p]] = "named" THEN "hitLock" ELSE "compile")
  /\ UNCHANGED <<source, mapped, lock, library, whole, index>>

HitLock(p) ==
  /\ pc[p] = "hitLock"
  /\ Lock(Dir(p), p)
  /\ GoTo(p, "hitOpen")
  /\ UNCHANGED <<source, mapped, library, whole, index>>

\* dlopen maps what is at the path, and nobody checks that it is whole.
HitOpen(p) ==
  /\ pc[p] = "hitOpen" /\ library[Dir(p)] # None
  /\ mapped' = [mapped EXCEPT ![p] = library[Dir(p)]]
  /\ lock' = Unlocked(p)
  /\ GoTo(p, "done")
  /\ UNCHANGED <<source, library, whole, index>>

\* Faulty: a hit that misses keeps the lock file open.
MissedKept(p) == lock
\* What a miss leaves of the locks.
Missed(p) == Unlocked(p)

\* The library is gone, or the directory, the lock or dlopen fails: a miss,
\* and the model is compiled.
Miss(p) ==
  /\ pc[p] \in {"lookup", "hitLock", "hitOpen"}
  /\ lock' = Missed(p)
  /\ GoTo(p, "compile")
  /\ UNCHANGED <<source, mapped, library, whole, index>>

-----------------------------------------------------------------------------
(* The rest of prepareOne. *)

Compile(p) ==
  /\ pc[p] = "compile"
  /\ GoTo(p, "buildLock")
  /\ UNCHANGED <<source, mapped, lock, library, whole, index>>

BuildLock(p) ==
  /\ pc[p] = "buildLock"
  /\ Lock(Dir(p), p)
  /\ GoTo(p, "unlink")
  /\ UNCHANGED <<source, mapped, library, whole, index>>

\* Faulty: the build copies onto the library that is there.
UnlinkedNot(b) == library
\* deleteFile: the next copy gets an inode of its own.
UnlinkedAt(b) == [library EXCEPT ![b] = None]

Unlink(p) ==
  /\ pc[p] = "unlink"
  /\ library' = UnlinkedAt(Dir(p))
  /\ GoTo(p, "build")
  /\ UNCHANGED <<source, mapped, lock, whole, index>>

\* compileRelease opens the library for writing, then copies it there.
Create(p) ==
  /\ pc[p] = "build"
  /\ \E i \in Inode :
       /\ IF library[Dir(p)] = None THEN Free(i) ELSE i = library[Dir(p)]
       /\ library' = [library EXCEPT ![Dir(p)] = i]
       /\ whole' = whole \ {i}
  /\ GoTo(p, "copy")
  /\ UNCHANGED <<source, mapped, lock, index>>

Copy(p) ==
  /\ pc[p] = "copy"
  /\ whole' = whole \union {library[Dir(p)]}
  /\ GoTo(p, "open")
  /\ UNCHANGED <<source, mapped, lock, library, index>>

Open(p) ==
  /\ pc[p] = "open" /\ library[Dir(p)] # None
  /\ mapped' = [mapped EXCEPT ![p] = library[Dir(p)]]
  /\ GoTo(p, "record")
  /\ UNCHANGED <<source, lock, library, whole, index>>

\* recordInputs: truncate the index file, then write it; either may fail.
Record(p) ==
  /\ pc[p] = "record"
  /\ \/ /\ source[p] \in Keyed
        /\ index' = [index EXCEPT ![source[p]] = "torn"]
        /\ GoTo(p, "write")
        /\ UNCHANGED lock
     \/ lock' = Unlocked(p) /\ GoTo(p, "done") /\ UNCHANGED index
  /\ UNCHANGED <<source, mapped, library, whole>>

Write(p) ==
  /\ pc[p] = "write"
  /\ \/ index' = [index EXCEPT ![source[p]] = "named"]
     \/ UNCHANGED index
  /\ lock' = Unlocked(p)
  /\ GoTo(p, "done")
  /\ UNCHANGED <<source, mapped, library, whole>>

\* A step fails; the load returns its error.
Fail(p) ==
  /\ pc[p] \in {"compile", "buildLock", "unlink", "build", "copy", "open"}
  /\ lock' = Unlocked(p)
  /\ GoTo(p, "idle")
  /\ UNCHANGED <<source, mapped, library, whole, index>>

\* The process ends or dies: a library stays mapped until then.
Exit(p) ==
  /\ pc[p] # "idle"
  /\ mapped' = [mapped EXCEPT ![p] = None]
  /\ lock' = Unlocked(p)
  /\ GoTo(p, "idle")
  /\ UNCHANGED <<source, library, whole, index>>

Step(p) ==
  \/ Lookup(p) \/ HitLock(p) \/ HitOpen(p) \/ Miss(p)
  \/ Compile(p) \/ BuildLock(p) \/ Unlink(p) \/ Create(p) \/ Copy(p) \/ Open(p)
  \/ Record(p) \/ Write(p)

Next == \E p \in Load : Start(p) \/ Step(p) \/ Fail(p) \/ Exit(p)

\* A load that can go on goes on, and a lock that is free again and again is
\* got some time; nobody has to fail or to die.
Fairness ==
  \A p \in Load : /\ WF_vars(Step(p))
                  /\ SF_vars(HitLock(p)) /\ SF_vars(BuildLock(p))

Spec == Init /\ [][Next]_vars /\ Fairness
-----------------------------------------------------------------------------
(* Properties. *)

TypeOK ==
  /\ pc \in [Load -> {"idle", "lookup", "hitLock", "hitOpen", "compile",
                      "buildLock", "unlink", "build", "copy", "open", "record",
                      "write", "done"}]
  /\ source \in [Load -> Source]
  /\ mapped \in [Load -> Inode \union {None}]
  /\ lock \in [Build -> Load \union {None}]
  /\ library \in [Build -> Inode \union {None}]
  /\ whole \subseteq Inode
  /\ index \in [Source -> {"none", "torn", "named"}]

\* No build writes a library that a load has mapped, its own process's or
\* another's: while compileRelease copies, the inode is nobody's.
MappedUntouched ==
  \A p, q \in Load : pc[q] = "copy" => mapped[p] # library[Dir(q)]

\* The library a load has just built is still there, whole, for its dlopen.
BuiltStays ==
  \A p \in Load : pc[p] = "open" => library[Dir(p)] \in whole \ {None}

\* Whatever runs at once, fails or dies half-way, no library changes under a
\* load that has it mapped, and each build opens the file it has written.
LibrariesIntact == MappedUntouched /\ BuiltStays

\* Every load ends: nobody waits for ever on a lock, least of all on its own.
LoadsEnd == \A p \in Load : pc[p] # "idle" ~> pc[p] \in {"idle", "done"}
=============================================================================
