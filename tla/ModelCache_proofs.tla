------------------------- MODULE ModelCache_proofs -------------------------
(***************************************************************************)
(* For any number of loads, sources, builds and inodes: no build writes a *)
(* library that a load has mapped, and the library a load has built is     *)
(* still there, whole, when it opens it.  The argument is the lock: only   *)
(* its holder unlinks, creates or opens a build's library, so from its     *)
(* unlink to its dlopen nobody else touches the path, and the inode it     *)
(* creates is one that nobody maps.                                        *)
(*                                                                         *)
(* That a hit maps a whole library is another matter, since nobody checks  *)
(* it: it is so as long as no build fails or dies in its copy.             *)
(***************************************************************************)
EXTENDS ModelCache, TLAPS

\* Where a load holds its build's lock.
Inside == {"hitOpen", "unlink", "build", "copy", "open", "record", "write"}

Holds   == \A p \in Load : pc[p] \in Inside => lock[Dir(p)] = p
Fresh   == \A p \in Load : pc[p] = "build" => library[Dir(p)] = None
Created == \A p \in Load : pc[p] = "copy" => library[Dir(p)] # None

\* No inode is the library of two builds.
Once ==
  \A b, c \in Build : library[b] = library[c] => library[b] = None \/ b = c

\* The inductive invariant.
IInv == TypeOK /\ Holds /\ Fresh /\ Created /\ Once /\ LibrariesIntact

USE CacheAssumption

\* The build directory of a load is a build.
LEMMA DirIsBuild ==
  ASSUME TypeOK, NEW p \in Load
  PROVE  Dir(p) \in Build
BY DEF TypeOK, Dir

\* Two loads inside the locks of one build are one load.
LEMMA Exclusive ==
  ASSUME TypeOK, Holds, NEW p \in Load, NEW q \in Load,
         pc[p] \in Inside, pc[q] \in Inside, Dir(p) = Dir(q)
  PROVE  p = q
BY DEF Holds

LEMMA InitIInv == Init => IInv
<1> SUFFICES ASSUME Init PROVE IInv
  OBVIOUS
<1>1. TypeOK
  BY DEF Init, TypeOK
<1>2. Holds /\ Fresh /\ Created /\ Once /\ LibrariesIntact
  BY DEF Init, Holds, Fresh, Created, Once, LibrariesIntact, MappedUntouched, BuiltStays, Inside
<1> QED
  BY <1>1, <1>2 DEF IInv

\* Every step keeps the types.
LEMMA TypeStep == TypeOK /\ Created /\ [Next]_vars => TypeOK'
<1> SUFFICES ASSUME TypeOK, Created, [Next]_vars PROVE TypeOK'
  OBVIOUS
<1>1. CASE UNCHANGED vars
  BY <1>1 DEF TypeOK, vars
<1>2. ASSUME NEW p \in Load, Start(p) PROVE TypeOK'
  BY <1>2 DEF TypeOK, Start, GoTo
<1>3. ASSUME NEW p \in Load, Lookup(p) PROVE TypeOK'
  BY <1>3 DEF TypeOK, Lookup, GoTo
<1>4. ASSUME NEW p \in Load, HitLock(p) PROVE TypeOK'
  BY <1>4, DirIsBuild DEF TypeOK, HitLock, Lock, GoTo
<1>5. ASSUME NEW p \in Load, HitOpen(p) PROVE TypeOK'
  BY <1>5, DirIsBuild DEF TypeOK, HitOpen, Unlocked, GoTo
<1>6. ASSUME NEW p \in Load, Miss(p) PROVE TypeOK'
  BY <1>6 DEF TypeOK, Miss, Missed, Unlocked, GoTo
<1>7. ASSUME NEW p \in Load, Compile(p) PROVE TypeOK'
  BY <1>7 DEF TypeOK, Compile, GoTo
<1>8. ASSUME NEW p \in Load, BuildLock(p) PROVE TypeOK'
  BY <1>8, DirIsBuild DEF TypeOK, BuildLock, Lock, GoTo
<1>9. ASSUME NEW p \in Load, Unlink(p) PROVE TypeOK'
  BY <1>9, DirIsBuild DEF TypeOK, Unlink, UnlinkedAt, GoTo
<1>10. ASSUME NEW p \in Load, Create(p) PROVE TypeOK'
  BY <1>10, DirIsBuild DEF TypeOK, Create, GoTo
<1>11. ASSUME NEW p \in Load, Copy(p) PROVE TypeOK'
  BY <1>11, DirIsBuild DEF TypeOK, Created, Copy, GoTo
<1>12. ASSUME NEW p \in Load, Open(p) PROVE TypeOK'
  BY <1>12, DirIsBuild DEF TypeOK, Open, GoTo
<1>13. ASSUME NEW p \in Load, Record(p) PROVE TypeOK'
  BY <1>13 DEF TypeOK, Record, Unlocked, GoTo
<1>14. ASSUME NEW p \in Load, Write(p) PROVE TypeOK'
  BY <1>14 DEF TypeOK, Write, Unlocked, GoTo
<1>15. ASSUME NEW p \in Load, Fail(p) PROVE TypeOK'
  BY <1>15 DEF TypeOK, Fail, Unlocked, GoTo
<1>16. ASSUME NEW p \in Load, Exit(p) PROVE TypeOK'
  BY <1>16 DEF TypeOK, Exit, Unlocked, GoTo
<1> QED
  BY <1>1, <1>2, <1>3, <1>4, <1>5, <1>6, <1>7, <1>8, <1>9, <1>10, <1>11, <1>12,
     <1>13, <1>14, <1>15, <1>16 DEF Next, Step

\* A step outside the three that change the libraries: the load leaves the
\* lock or has never had it, or keeps the one it has, or gets it; it may drop
\* what it maps, or map what it finds while it holds the lock.
Quiet(p) ==
  /\ source' = [source EXCEPT ![p] = source'[p]]
  /\ pc' = [pc EXCEPT ![p] = pc'[p]]
  /\ pc'[p] \notin {"build", "copy", "open"}
  /\ \/ pc'[p] \notin Inside /\ (lock' = Unlocked(p) \/ (lock' = lock /\ pc[p] \notin Inside))
     \/ pc[p] \in Inside /\ lock' = lock /\ source'[p] = source[p]
     \/ lock[Dir(p)] = None /\ lock' = [lock EXCEPT ![Dir(p)] = p] /\ source'[p] = source[p]
  /\ library' = library /\ whole' = whole
  /\ \/ mapped' = mapped
     \/ mapped' = [mapped EXCEPT ![p] = None]
     \/ pc[p] \in Inside /\ mapped' = [mapped EXCEPT ![p] = library[Dir(p)]]

LEMMA QuietStep ==
  ASSUME IInv, TypeOK', NEW p \in Load, Quiet(p)
  PROVE  IInv'
<1> USE DirIsBuild DEF IInv, TypeOK, Quiet, Inside, Unlocked, Dir
<1>1. Holds'
  BY DEF Holds
<1>2. Fresh' /\ Created' /\ Once'
  BY DEF Fresh, Created, Once
<1>3. MappedUntouched'
  <2> SUFFICES ASSUME NEW r \in Load, NEW q \in Load, pc'[q] = "copy"
               PROVE  mapped'[r] # library'[Dir(q)']
    BY DEF MappedUntouched
  <2>1. q # p /\ pc[q] = "copy" /\ Dir(q)' = Dir(q) /\ library[Dir(q)] # None
    BY DEF Created
  <2>2. mapped[r] # library[Dir(q)]
    BY <2>1 DEF LibrariesIntact, MappedUntouched
  <2>3. CASE pc[p] \in Inside /\ mapped' = [mapped EXCEPT ![p] = library[Dir(p)]]
    <3>1. Dir(p) # Dir(q)
      BY <2>1, <2>3, Exclusive
    <3> QED
      BY <2>1, <2>2, <2>3, <3>1 DEF Once
  <2> QED
    BY <2>1, <2>2, <2>3
<1>4. BuiltStays'
  BY DEF LibrariesIntact, BuiltStays
<1> QED
  BY <1>1, <1>2, <1>3, <1>4 DEF LibrariesIntact

\* The steps of a build, inside its lock: unlink, create, copy.
LEMMA BuildStep ==
  ASSUME IInv, TypeOK', NEW p \in Load, Unlink(p) \/ Create(p) \/ Copy(p)
  PROVE  IInv'
<1> USE DEF IInv
<1>0. /\ pc[p] \in Inside /\ pc' = [pc EXCEPT ![p] = pc'[p]] /\ pc'[p] \in Inside
      /\ UNCHANGED <<source, lock, mapped>>
  BY DEF Unlink, Create, Copy, GoTo, Inside, TypeOK
<1>1. Holds'
  BY <1>0 DEF Holds, TypeOK, Dir
<1>2. \A q \in Load : q # p /\ pc[q] \in Inside => Dir(q) # Dir(p)
  BY <1>0, Exclusive
<1>3. \A q \in Load : Dir(q)' = Dir(q)
  BY <1>0 DEF Dir
<1>4. CASE Unlink(p)
  <2> USE <1>4, <1>0, <1>2, <1>3, DirIsBuild DEF Unlink, UnlinkedAt, GoTo, Inside, TypeOK
  <2>1. Fresh' /\ Created' /\ Once'
    BY DEF Fresh, Created, Once
  <2>2. MappedUntouched' /\ BuiltStays'
    BY DEF LibrariesIntact, MappedUntouched, BuiltStays
  <2> QED
    BY <1>1, <2>1, <2>2 DEF LibrariesIntact
<1>5. CASE Create(p)
  <2> USE DirIsBuild DEF TypeOK
  <2>1. library[Dir(p)] = None
    BY <1>5 DEF Create, Fresh
  <2>2. PICK i \in Inode : /\ Free(i)
                           /\ library' = [library EXCEPT ![Dir(p)] = i]
                           /\ whole' = whole \ {i}
    BY <1>5, <2>1 DEF Create
  <2>3. pc' = [pc EXCEPT ![p] = "copy"]
    BY <1>5 DEF Create, GoTo
  <2>4. Fresh' /\ Created'
    BY <1>0, <1>2, <1>3, <2>2, <2>3 DEF Fresh, Created, Inside
  <2>5. Once'
    BY <2>2 DEF Once, Free
  <2>6. MappedUntouched'
    BY <1>0, <1>2, <1>3, <2>2, <2>3 DEF LibrariesIntact, MappedUntouched, Free, Inside
  <2>7. BuiltStays'
    BY <1>0, <1>2, <1>3, <2>2, <2>3 DEF LibrariesIntact, BuiltStays, Free, Inside
  <2> QED
    BY <1>1, <2>4, <2>5, <2>6, <2>7 DEF LibrariesIntact
<1>6. CASE Copy(p)
  <2> USE <1>6, <1>0, <1>2, <1>3, DirIsBuild DEF Copy, GoTo, Inside, TypeOK
  <2>1. Fresh' /\ Created' /\ Once'
    BY DEF Fresh, Created, Once
  <2>2. MappedUntouched' /\ BuiltStays'
    BY DEF LibrariesIntact, MappedUntouched, BuiltStays, Created
  <2> QED
    BY <1>1, <2>1, <2>2 DEF LibrariesIntact
<1> QED
  BY <1>4, <1>5, <1>6

\* Every other step is a quiet one.
LEMMA QuietSteps ==
  ASSUME TypeOK, NEW p \in Load,
         \/ Start(p) \/ Lookup(p) \/ HitLock(p) \/ HitOpen(p) \/ Miss(p)
         \/ Compile(p) \/ BuildLock(p) \/ Open(p) \/ Record(p) \/ Write(p)
         \/ Fail(p) \/ Exit(p)
  PROVE  Quiet(p)
<1> USE DirIsBuild DEF TypeOK, Quiet, GoTo, Inside
<1>1. CASE Start(p)
  BY <1>1 DEF Start
<1>2. CASE Lookup(p) \/ Compile(p)
  BY <1>2 DEF Lookup, Compile
<1>3. CASE HitLock(p)
  BY <1>3 DEF HitLock, Lock
<1>4. CASE BuildLock(p)
  BY <1>4 DEF BuildLock, Lock
<1>5. CASE HitOpen(p)
  BY <1>5 DEF HitOpen
<1>6. CASE Open(p)
  BY <1>6 DEF Open
<1>7. CASE Miss(p)
  BY <1>7 DEF Miss, Missed
<1>8. CASE Fail(p) \/ Exit(p)
  BY <1>8 DEF Fail, Exit
<1>9. CASE Record(p)
  BY <1>9 DEF Record
<1>10. CASE Write(p)
  BY <1>10 DEF Write
<1> QED
  BY <1>1, <1>2, <1>3, <1>4, <1>5, <1>6, <1>7, <1>8, <1>9, <1>10

\* A step is one of a build, a quiet one, or no step of the cache.
LEMMA Steps ==
  ASSUME TypeOK, [Next]_vars
  PROVE  \/ UNCHANGED vars
         \/ \E p \in Load : Unlink(p) \/ Create(p) \/ Copy(p)
         \/ \E p \in Load : Quiet(p)
BY QuietSteps DEF Next, Step

\* Every step keeps the inductive invariant.
LEMMA NextIInv == IInv /\ [Next]_vars => IInv'
<1> SUFFICES ASSUME IInv, [Next]_vars PROVE IInv'
  OBVIOUS
<1>1. TypeOK'
  BY TypeStep DEF IInv
<1>2. CASE UNCHANGED vars
  BY <1>1, <1>2 DEF IInv, vars, Holds, Fresh, Created, Once, LibrariesIntact,
                    MappedUntouched, BuiltStays, Dir
<1> QED
  BY <1>1, <1>2, Steps, BuildStep, QuietStep DEF IInv

\* Every variable of the cache keeps its type.
THEOREM TypeCorrect == Spec => []TypeOK
<1>1. Init => IInv
  BY InitIInv
<1>2. IInv /\ [Next]_vars => IInv'
  BY NextIInv
<1>3. IInv => TypeOK
  BY DEF IInv
<1> QED
  BY <1>1, <1>2, <1>3, PTL DEF Spec

\* No library changes under a load that maps it, and a built one is there for
\* its dlopen, however many loads run, fail and die in whatever order.
THEOREM LibrariesStayIntact == Spec => []LibrariesIntact
<1>1. Init => IInv
  BY InitIInv
<1>2. IInv /\ [Next]_vars => IInv'
  BY NextIInv
<1>3. IInv => LibrariesIntact
  BY DEF IInv
<1> QED
  BY <1>1, <1>2, <1>3, PTL DEF Spec

-----------------------------------------------------------------------------
(* What a hit maps. *)

\* A load that has begun to copy its library copies all of it.
CopiesEnd == \A p \in Load : pc[p] = "copy" => pc'[p] \in {"copy", "open"}

\* Whatever a load has mapped is a whole library.
MappedWhole == \A p \in Load : mapped[p] # None => mapped[p] \in whole

\* A library that is not whole is one that some load is copying.
TornIsCopied ==
  \A b \in Build :
    library[b] \in whole \union {None} \/ \E p \in Load : pc[p] = "copy" /\ Dir(p) = b

WInv == IInv /\ MappedWhole /\ TornIsCopied

LEMMA QuietWhole ==
  ASSUME WInv, IInv', NEW p \in Load, Quiet(p), CopiesEnd
  PROVE  WInv'
<1> USE DirIsBuild DEF WInv, IInv, TypeOK, Quiet, Dir
<1>1. pc[p] # "copy" /\ pc'[p] # "copy"
  BY DEF CopiesEnd
<1>2. \A q \in Load : pc[q] = "copy" => q # p /\ pc'[q] = "copy" /\ Dir(q)' = Dir(q)
  BY <1>1
<1>3. TornIsCopied'
  BY <1>2 DEF TornIsCopied
<1>4. CASE pc[p] \in Inside /\ mapped' = [mapped EXCEPT ![p] = library[Dir(p)]]
  <2>1. \A q \in Load : pc[q] = "copy" => Dir(q) # Dir(p)
    BY <1>1, <1>4, Exclusive DEF Inside
  <2>2. library[Dir(p)] \in whole \union {None}
    BY <2>1 DEF TornIsCopied
  <2>3. MappedWhole'
    BY <1>4, <2>2 DEF MappedWhole
  <2> QED
    BY <1>3, <2>3
<1>5. CASE mapped' = mapped \/ mapped' = [mapped EXCEPT ![p] = None]
  BY <1>3, <1>5 DEF MappedWhole
<1> QED
  BY <1>4, <1>5

LEMMA BuildWhole ==
  ASSUME WInv, IInv', NEW p \in Load, Unlink(p) \/ Create(p) \/ Copy(p)
  PROVE  WInv'
<1> USE DirIsBuild DEF WInv, IInv, TypeOK
<1>1. \A q \in Load : q # p => pc'[q] = pc[q]
  BY DEF Unlink, Create, Copy, GoTo
<1>2. (\A q \in Load : Dir(q)' = Dir(q)) /\ mapped' = mapped
  BY DEF Unlink, Create, Copy, Dir
<1>3. CASE Unlink(p)
  <2>1. MappedWhole'
    BY <1>2, <1>3 DEF MappedWhole, Unlink
  <2>2. TornIsCopied'
    BY <1>1, <1>2, <1>3 DEF TornIsCopied, Unlink, UnlinkedAt
  <2> QED
    BY <2>1, <2>2
<1>4. CASE Create(p)
  <2>1. library[Dir(p)] = None
    BY <1>4 DEF Create, Fresh
  <2>2. PICK i \in Inode : /\ Free(i)
                           /\ library' = [library EXCEPT ![Dir(p)] = i]
                           /\ whole' = whole \ {i}
    BY <1>4, <2>1 DEF Create
  <2>3. pc'[p] = "copy"
    BY <1>4 DEF Create, GoTo
  <2>4. MappedWhole'
    BY <1>2, <2>2 DEF MappedWhole, Free
  <2>5. TornIsCopied'
    <3> SUFFICES ASSUME NEW b \in Build
                 PROVE  \/ library'[b] \in whole' \union {None}
                        \/ \E q \in Load : pc'[q] = "copy" /\ Dir(q)' = b
      BY DEF TornIsCopied
    <3>1. CASE b = Dir(p)
      BY <1>2, <2>3, <3>1
    <3>2. CASE b # Dir(p) /\ library[b] \in whole \union {None}
      BY <2>2, <3>2 DEF Free
    <3>3. CASE \E q \in Load : pc[q] = "copy" /\ Dir(q) = b
      BY <1>1, <1>2, <2>3, <3>3
    <3> QED
      BY <3>1, <3>2, <3>3 DEF TornIsCopied
  <2> QED
    BY <2>4, <2>5
<1>5. CASE Copy(p)
  <2>1. MappedWhole'
    BY <1>2, <1>5 DEF MappedWhole, Copy
  <2>2. TornIsCopied'
    BY <1>1, <1>2, <1>5 DEF TornIsCopied, Copy
  <2> QED
    BY <2>1, <2>2
<1> QED
  BY <1>3, <1>4, <1>5

\* As long as no build fails or dies in its copy, every library a load maps
\* is whole, whether it built it or found it.  Without that proviso it is not
\* so: an index may name a build whose copy was cut short.
THEOREM MappedStaysWhole == Spec /\ [][CopiesEnd]_vars => []MappedWhole
<1>1. Init => WInv
  BY InitIInv DEF WInv, Init, MappedWhole, TornIsCopied
<1>2. WInv /\ [Next]_vars /\ [CopiesEnd]_vars => WInv'
  <2> SUFFICES ASSUME WInv, [Next]_vars, [CopiesEnd]_vars PROVE WInv'
    OBVIOUS
  <2>1. IInv'
    BY NextIInv DEF WInv
  <2>2. CASE UNCHANGED vars
    BY <2>1, <2>2 DEF WInv, vars, MappedWhole, TornIsCopied, Dir
  <2>3. CASE CopiesEnd
    BY <2>1, <2>2, <2>3, Steps, QuietWhole, BuildWhole DEF WInv, IInv
  <2> QED
    BY <2>2, <2>3
<1>3. WInv => MappedWhole
  BY DEF WInv
<1> QED
  BY <1>1, <1>2, <1>3, PTL DEF Spec
=============================================================================
