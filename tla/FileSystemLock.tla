--------------------------- MODULE FileSystemLock ---------------------------
(***************************************************************************)
(* src/src/FileLockMutex: a lock shared by processes.  lock() creates a    *)
(* file that must not exist yet, without sharing and deleted on close; the *)
(* lock is held while the handle is open.  A lock object is movable.  When *)
(* a process ends, however it ends, the system closes its handles.         *)
(***************************************************************************)
EXTENDS Naturals, FiniteSets

CONSTANTS
    Processes,
    Objects,     \* FileSystemLock objects
    OwnerOf,     \* the process each object lives in
    Nobody

ASSUME OwnersAssumption ==
    /\ OwnerOf \in [Objects -> Processes]
    /\ Nobody \notin Objects

VARIABLES
    running,      \* processes that have been started and have not ended
    fileHandle,   \* objects whose fileHandle is not null
    file,         \* the lock file exists
    outcome       \* what the last lock or try_lock of each object did

vars == <<running, fileHandle, file, outcome>>

Outcomes == {"none", "locked", "threw", "true", "false"}

Init ==
    /\ running = {}
    /\ fileHandle = {}
    /\ file = FALSE
    /\ outcome = [l \in Objects |-> "none"]

-----------------------------------------------------------------------------
(* A process begins with no lock: the parent by itself, the child from the  *)
(* parent, which passes on no handle.                                       *)
StartProcess(p) ==
    /\ p \notin running
    /\ running' = running \cup {p}
    /\ outcome' = [l \in Objects |-> IF OwnerOf[l] = p THEN "none" ELSE outcome[l]]
    /\ UNCHANGED <<fileHandle, file>>

Alive(l) == OwnerOf[l] \in running

(* Seeded fault: CREATE_ALWAYS instead of CREATE_NEW, with sharing. *)
CreateNew_Always(l) ==
    /\ file' = TRUE
    /\ fileHandle' = fileHandle \cup {l}

(* CreateFileW with CREATE_NEW succeeds only if there is no file.           *)
CreateNew(l) ==
    /\ ~file
    /\ file' = TRUE
    /\ fileHandle' = fileHandle \cup {l}

(* Seeded fault: a lock already owned is not recognised. *)
lock_NotOwned(l, success, failure) ==
    \/ CreateNew(l) /\ outcome' = [outcome EXCEPT ![l] = success]
    \/ /\ outcome' = [outcome EXCEPT ![l] = failure]
       /\ UNCHANGED <<fileHandle, file>>

(* lock(): a lock already owned returns; an invalid handle throws, whatever *)
(* CreateFileW failed for: the file exists, or the directory is missing or  *)
(* may not be written, and then there need not be a holder.                 *)
lock(l, success, failure) ==
    \/ /\ l \in fileHandle
       /\ outcome' = [outcome EXCEPT ![l] = success]
       /\ UNCHANGED <<fileHandle, file>>
    \/ /\ l \notin fileHandle
       /\ CreateNew(l)
       /\ outcome' = [outcome EXCEPT ![l] = success]
    \/ /\ l \notin fileHandle
       /\ outcome' = [outcome EXCEPT ![l] = failure]
       /\ UNCHANGED <<fileHandle, file>>

Lock(l) ==
    /\ Alive(l)
    /\ lock(l, "locked", "threw")
    /\ UNCHANGED running

(* try_lock(): lock() with its exception turned into false.                 *)
try_lock(l) ==
    /\ Alive(l)
    /\ lock(l, "true", "false")
    /\ UNCHANGED running

(* unlock(), and the destructor: closing the handle deletes the file.       *)
unlock(l) ==
    /\ Alive(l)
    /\ l \in fileHandle
    /\ fileHandle' = fileHandle \ {l}
    /\ file' = FALSE
    /\ UNCHANGED <<running, outcome>>

(* Seeded fault: the handle reaches an object of another process. *)
MoveTo_OtherProcess(l, m) ==
    /\ Alive(l) /\ Alive(m) /\ l # m
    /\ fileHandle' = (fileHandle \ {l, m}) \cup (IF l \in fileHandle THEN {m} ELSE {})
    /\ file' = (file /\ m \notin fileHandle)
    /\ UNCHANGED <<running, outcome>>

(* m = std::move(l): what m held is closed, and m holds what l held.        *)
MoveTo(l, m) ==
    /\ Alive(l) /\ OwnerOf[l] = OwnerOf[m] /\ l # m
    /\ fileHandle' = (fileHandle \ {l, m}) \cup (IF l \in fileHandle THEN {m} ELSE {})
    /\ file' = (file /\ m \notin fileHandle)
    /\ UNCHANGED <<running, outcome>>

Held(p) == {l \in fileHandle : OwnerOf[l] = p}

(* Seeded fault: the handle was inherited by another process and stays open. *)
EndProcess_Inherited(p) ==
    /\ p \in running
    /\ running' = running \ {p}
    /\ fileHandle' = fileHandle \ Held(p)
    /\ file' = file
    /\ UNCHANGED outcome

(* Seeded fault: the handles of a process outlive it. *)
EndProcess_KeepsHandles(p) ==
    /\ p \in running
    /\ running' = running \ {p}
    /\ UNCHANGED <<fileHandle, file, outcome>>

(* The process returns from main, unwinds or crashes.                       *)
EndProcess(p) ==
    /\ p \in running
    /\ running' = running \ {p}
    /\ fileHandle' = fileHandle \ Held(p)
    /\ file' = (file /\ Held(p) = {})
    /\ UNCHANGED outcome

Next ==
    \/ \E p \in Processes : StartProcess(p) \/ EndProcess(p)
    \/ \E l \in Objects : Lock(l) \/ try_lock(l) \/ unlock(l)
    \/ \E l, m \in Objects : MoveTo(l, m)

Spec == Init /\ [][Next]_vars

-----------------------------------------------------------------------------
(* Types.  Only objects of running processes hold a handle.                 *)
TypeOK ==
    /\ running \subseteq Processes
    /\ fileHandle \subseteq Objects
    /\ file \in BOOLEAN
    /\ outcome \in [Objects -> Outcomes]
    /\ \A l \in fileHandle : Alive(l)

(* Two objects never hold the lock at once.                                 *)
MutualExclusion == \A l, m \in fileHandle : l = m

(* The file exists exactly while some object holds it: after an unlock, a   *)
(* move or the end of a process in any order, nothing is left behind that   *)
(* would keep the next lock from succeeding.                                *)
NoStaleFile == file <=> fileHandle # {}

(* The lock as an abstract mutex.                                           *)
holder == IF fileHandle = {} THEN Nobody ELSE CHOOSE l \in fileHandle : TRUE

AbstractMutex == INSTANCE Mutex

(* FileSystemLock implements Mutex: it is taken only when free, and moves   *)
(* from object to object only inside a process.                             *)
ImplementsMutex == AbstractMutex!Spec

(* What lock() and try_lock() answer can be relied on: after a success the  *)
(* caller is the one holder over all the processes, also when it asked for  *)
(* a lock that it had; after a failure, whatever its reason, the caller     *)
(* holds nothing that it would have to unlock, and no holder lost the lock. *)
HonestAnswer ==
    [][\A l \in Objects : Lock(l) \/ try_lock(l) =>
          /\ outcome'[l] \in {"locked", "true"} => fileHandle' = {l}
          /\ outcome'[l] \in {"threw", "false"} =>
                l \notin fileHandle' /\ UNCHANGED <<fileHandle, file>>]_vars
=============================================================================
