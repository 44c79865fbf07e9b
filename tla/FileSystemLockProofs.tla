------------------------ MODULE FileSystemLockProofs ------------------------
(***************************************************************************)
(* For every set of processes and lock objects: the lock is exclusive, no  *)
(* stale file is left, and the lock implements the abstract Mutex.         *)
(***************************************************************************)
EXTENDS FileSystemLock, TLAPS

(* The three together are inductive: exclusion needs the file to exist      *)
(* while a handle is open, and the file disappears with a handle only       *)
(* because there is no second one.                                          *)
Inv == TypeOK /\ MutualExclusion /\ NoStaleFile

(* The invariant holds before any process has been started.                 *)
LEMMA InitInv == Init => Inv
  BY DEF Init, Inv, TypeOK, MutualExclusion, NoStaleFile, Outcomes

(* Every operation, and every start and end of a process, preserves it.     *)
LEMMA StepInv == Inv /\ [Next]_vars => Inv'
<1> SUFFICES ASSUME Inv, [Next]_vars
             PROVE  Inv'
  OBVIOUS
<1> USE OwnersAssumption DEF Inv, TypeOK, MutualExclusion, NoStaleFile, Alive, Outcomes
<1>1. ASSUME NEW p \in Processes, StartProcess(p) PROVE Inv'
  BY <1>1 DEF StartProcess
<1>2. ASSUME NEW p \in Processes, EndProcess(p) PROVE Inv'
  BY <1>2 DEF EndProcess, Held
<1>0. ASSUME NEW l \in Objects, NEW s \in Outcomes, NEW f \in Outcomes,
             Alive(l), lock(l, s, f), UNCHANGED running
      PROVE  Inv'
  <2>1. outcome' \in [Objects -> Outcomes]
    BY <1>0 DEF lock
  <2>2. CASE UNCHANGED <<fileHandle, file>>
    BY <1>0, <2>1, <2>2
  <2>3. CASE CreateNew(l)
    BY <1>0, <2>1, <2>3 DEF CreateNew
  <2> QED
    BY <1>0, <2>2, <2>3 DEF lock
<1>3. ASSUME NEW l \in Objects, Lock(l) PROVE Inv'
  <2>1. Alive(l) /\ lock(l, "locked", "threw") /\ UNCHANGED running
    BY <1>3 DEF Lock
  <2>2. "locked" \in Outcomes /\ "threw" \in Outcomes
    OBVIOUS
  <2> HIDE DEF Inv, Outcomes
  <2> QED
    BY <1>0, <2>1, <2>2
<1>4. ASSUME NEW l \in Objects, try_lock(l) PROVE Inv'
  <2>1. Alive(l) /\ lock(l, "true", "false") /\ UNCHANGED running
    BY <1>4 DEF try_lock
  <2>2. "true" \in Outcomes /\ "false" \in Outcomes
    OBVIOUS
  <2> HIDE DEF Inv, Outcomes
  <2> QED
    BY <1>0, <2>1, <2>2
<1>5. ASSUME NEW l \in Objects, unlock(l) PROVE Inv'
  BY <1>5 DEF unlock
<1>6. ASSUME NEW l \in Objects, NEW m \in Objects, MoveTo(l, m) PROVE Inv'
  BY <1>6 DEF MoveTo
<1>7. CASE UNCHANGED vars
  BY <1>7 DEF vars
<1> QED
  BY <1>1, <1>2, <1>3, <1>4, <1>5, <1>6, <1>7 DEF Next

(* The lock is exclusive and leaves no stale file, in every behaviour.      *)
THEOREM InvCorrect == Spec => []Inv
  BY InitInv, StepInv, PTL DEF Spec

(* Types are kept.                                                          *)
THEOREM TypeCorrect == Spec => []TypeOK
<1>1. Inv => TypeOK
  BY DEF Inv
<1> QED
  BY <1>1, InvCorrect, PTL

(* At most one lock object, over all processes, holds the lock.             *)
THEOREM Exclusive == Spec => []MutualExclusion
<1>1. Inv => MutualExclusion
  BY DEF Inv
<1> QED
  BY <1>1, InvCorrect, PTL

(* However processes end, the lock file never outlives the handle.          *)
THEOREM NoFileLeftBehind == Spec => []NoStaleFile
<1>1. Inv => NoStaleFile
  BY DEF Inv
<1> QED
  BY <1>1, InvCorrect, PTL

(* holder is the one object with a handle, when there is one.               *)
HolderShape ==
    /\ fileHandle = {} => holder = Nobody
    /\ \A l \in fileHandle : holder = l /\ holder # Nobody

(* Exclusion determines the holder.                                         *)
LEMMA HolderIs == Inv => HolderShape
<1> SUFFICES ASSUME Inv, NEW l \in fileHandle
             PROVE  holder = l /\ holder # Nobody
  BY DEF holder, HolderShape
<1>1. \A m \in fileHandle : m = l
  BY DEF Inv, MutualExclusion
<1> QED
  BY <1>1, OwnersAssumption DEF holder, Inv, TypeOK

(* Every operation is a step of the abstract mutex or leaves the holder.    *)
LEMMA StepSimulation ==
    Inv /\ Inv' /\ [Next]_vars => [AbstractMutex!Next]_holder
<1> SUFFICES ASSUME Inv, Inv', [Next]_vars
             PROVE  AbstractMutex!Next \/ holder' = holder
  BY DEF AbstractMutex!Next
<1> DEFINE Kept  == holder' = holder
           Freed == AbstractMutex!Release
<1>h. HolderShape /\ HolderShape'
  <2>1. Inv' => HolderShape'
    BY HolderIs, PTL
  <2> QED
    BY <2>1, HolderIs
<1> USE DEF Inv, TypeOK
<1>0. fileHandle' = fileHandle => Kept
  BY DEF holder
<1>1. ASSUME NEW p \in Processes, StartProcess(p) PROVE Kept
  BY <1>1, <1>0 DEF StartProcess
<1>2. ASSUME NEW p \in Processes, EndProcess(p) PROVE Freed \/ Kept
  <2>1. CASE Held(p) = {}
    BY <1>2, <1>0, <2>1 DEF EndProcess
  <2>2. CASE Held(p) # {}
    <3>1. PICK l \in fileHandle : l \in Held(p)
      BY <2>2 DEF Held
    <3>2. fileHandle' = {}
      BY <1>2, <3>1 DEF EndProcess, MutualExclusion
    <3> QED
      BY <3>1, <3>2, <1>h DEF HolderShape, AbstractMutex!Release
  <2> QED
    BY <2>1, <2>2
<1>3. ASSUME NEW l \in Objects, lock(l, "locked", "threw") \/ lock(l, "true", "false")
      PROVE  AbstractMutex!Acquire(l) \/ Kept
  <2>1. CASE fileHandle' = fileHandle
    BY <2>1, <1>0
  <2>2. CASE fileHandle' # fileHandle
    <3>1. fileHandle = {} /\ l \in fileHandle'
      BY <1>3, <2>2 DEF lock, CreateNew, NoStaleFile
    <3> QED
      BY <3>1, <1>h DEF HolderShape, AbstractMutex!Acquire
  <2> QED
    BY <2>1, <2>2
<1>4. ASSUME NEW l \in Objects, unlock(l) PROVE Freed
  <2>1. l \in fileHandle /\ fileHandle' = {}
    BY <1>4 DEF unlock, MutualExclusion
  <2> QED
    BY <2>1, <1>h DEF HolderShape, AbstractMutex!Release
<1>5. ASSUME NEW l \in Objects, NEW m \in Objects, MoveTo(l, m)
      PROVE  AbstractMutex!Transfer(l, m) \/ Freed \/ Kept
  <2>1. CASE l \in fileHandle
    <3>1. m \in fileHandle' /\ OwnerOf[l] = OwnerOf[m]
      BY <1>5, <2>1 DEF MoveTo
    <3> QED
      BY <2>1, <3>1, <1>h DEF HolderShape, AbstractMutex!Transfer
  <2>2. CASE l \notin fileHandle /\ m \in fileHandle
    <3>1. fileHandle' = {}
      BY <1>5, <2>2 DEF MoveTo, MutualExclusion
    <3> QED
      BY <2>2, <3>1, <1>h DEF HolderShape, AbstractMutex!Release
  <2>3. CASE l \notin fileHandle /\ m \notin fileHandle
    BY <1>5, <2>3, <1>0 DEF MoveTo
  <2> QED
    BY <2>1, <2>2, <2>3
<1>6. CASE UNCHANGED vars
  BY <1>6, <1>0 DEF vars
<1> QED
  BY <1>1, <1>2, <1>3, <1>4, <1>5, <1>6
  DEF Next, Lock, try_lock, AbstractMutex!Next

(* FileSystemLock implements Mutex, for every set of processes and objects. *)
THEOREM Refinement == Spec => ImplementsMutex
<1>1. Init => AbstractMutex!Init
  BY DEF Init, AbstractMutex!Init, holder
<1> QED
  BY <1>1, InvCorrect, StepSimulation, PTL DEF Spec, ImplementsMutex, AbstractMutex!Spec

(* After lock() or try_lock() the caller knows whether it is the holder.    *)
THEOREM AnswersHonest == Spec => HonestAnswer
<1> DEFINE Step == \A l \in Objects : Lock(l) \/ try_lock(l) =>
          /\ outcome'[l] \in {"locked", "true"} => fileHandle' = {l}
          /\ outcome'[l] \in {"threw", "false"} =>
                l \notin fileHandle' /\ UNCHANGED <<fileHandle, file>>
<1>1. Inv /\ [Next]_vars => [Step]_vars
  <2> SUFFICES ASSUME Inv, NEW l \in Objects, Lock(l) \/ try_lock(l)
               PROVE  /\ outcome'[l] \in {"locked", "true"} => fileHandle' = {l}
                      /\ outcome'[l] \in {"threw", "false"} =>
                            l \notin fileHandle' /\ UNCHANGED <<fileHandle, file>>
    OBVIOUS
  <2>1. PICK s \in {"locked", "true"}, f \in {"threw", "false"} : lock(l, s, f)
    BY DEF Lock, try_lock
  <2> USE DEF Inv, TypeOK, MutualExclusion, NoStaleFile
  <2>2. CASE l \in fileHandle /\ outcome' = [outcome EXCEPT ![l] = s]
             /\ UNCHANGED <<fileHandle, file>>
    BY <2>1, <2>2
  <2>3. CASE CreateNew(l) /\ outcome' = [outcome EXCEPT ![l] = s]
    BY <2>1, <2>3 DEF CreateNew
  <2>4. CASE l \notin fileHandle /\ outcome' = [outcome EXCEPT ![l] = f]
             /\ UNCHANGED <<fileHandle, file>>
    BY <2>1, <2>4
  <2> QED
    BY <2>1, <2>2, <2>3, <2>4 DEF lock
<1> QED
  BY <1>1, InvCorrect, PTL DEF Spec, HonestAnswer
=============================================================================
