---------------------------- MODULE TransportList ---------------------------
(***************************************************************************)
(* src/src/XSocket/Transport.cpp and List.cpp: a byte stream between two   *)
(* peers.  WriteData copies a buffer into a new entry and appends it to a  *)
(* ring of entries linked both ways; ReadData copies bytes out of the      *)
(* first entries and deletes the ones it has used up.  A critical section  *)
(* guards the ring.  The pointers are read in one step and written in the  *)
(* next, so that the guard matters.  A byte is its place in the stream.    *)
(***************************************************************************)
EXTENDS Integers, Sequences, SequencesExt, FiniteSets

CONSTANTS
    Writer, Reader,  \* threads
    WriteSizes,      \* bound: the lengths of the buffers written
    ReadSizes,       \* bound: the lengths of the buffers read into
    MaxWrites,       \* bound: calls of WriteData
    MaxReads         \* bound: calls of ReadData

Thread == Writer \cup Reader
Node   == 0 .. MaxWrites   \* a ListEntry is named after the call that made it
head   == 0
NoNode == -1
Stray  == 0                \* a byte from beyond a buffer's end
ULong  == 65536            \* ULONG arithmetic, scaled down

(* What the constants are: lengths are ULONGs, and a thread writes or reads. *)
SizesAssumption ==
    /\ WriteSizes \cup ReadSizes \subseteq 0 .. ULong - 1
    /\ MaxWrites \in Nat
    /\ Writer \cap Reader = {} /\ "free" \notin Thread

VARIABLES
    pc, lock, hr,
    forward, backward, data, size, index,  \* the fields of the entries
    alive,       \* the entries allocated
    entry,       \* the entry a thread works on
    last, next,  \* AppendTail's, or RemoveHead's previous and next
    room,        \* what is left of a reader's buffer
    copied,      \* ReadData's index: the bytes it has copied
    writes, reads,
    written,     \* history: the bytes appended, in order
    read         \* history: the bytes copied out, in order

fields == <<forward, backward, data, size, index, alive>>
locals == <<entry, last, next, room, copied>>
counts == <<writes, reads>>
vars   == <<pc, lock, hr, fields, locals, counts, written, read>>

Init ==
    /\ pc = [t \in Thread |-> "idle"] /\ lock = "free"
    /\ hr = [t \in Thread |-> "S_OK"]
    /\ forward = [n \in Node |-> IF n = head THEN head ELSE NoNode]
    /\ backward = forward
    /\ data = [n \in Node |-> <<>>]
    /\ size = [n \in Node |-> 0] /\ index = size
    /\ alive = {head}
    /\ entry = [t \in Thread |-> NoNode] /\ last = entry /\ next = entry
    /\ room = [t \in Thread |-> 0] /\ copied = room
    /\ writes = 0 /\ reads = 0
    /\ written = <<>> /\ read = <<>>

Goto(t, l) == pc' = [pc EXCEPT ![t] = l]

(* A thread's local pointers go out of scope.                               *)
Forget(t) ==
    /\ entry' = [entry EXCEPT ![t] = NoNode]
    /\ last' = [last EXCEPT ![t] = NoNode]
    /\ next' = [next EXCEPT ![t] = NoNode]

-----------------------------------------------------------------------------
(* WriteData.                                                               *)

(* The entry and its buffer are made outside the lock.  When either cannot  *)
(* be had, what was made is deleted and the call fails; without data it     *)
(* succeeds at once.                                                        *)
Allocate(t) ==
    /\ pc[t] = "idle" /\ writes < MaxWrites
    /\ writes' = writes + 1
    /\ \E n \in WriteSizes :
          \/ /\ alive' = alive \cup {writes + 1}
             /\ entry' = [entry EXCEPT ![t] = writes + 1]
             /\ size' = [size EXCEPT ![writes + 1] = n]
             /\ hr' = [hr EXCEPT ![t] = "S_OK"] /\ Goto(t, "enter")
          \/ /\ \E h \in {"E_OUTOFMEMORY", "S_OK"} : hr' = [hr EXCEPT ![t] = h]
             /\ UNCHANGED <<alive, entry, size, pc>>
    /\ UNCHANGED <<lock, forward, backward, data, index, last, next, room, copied, reads,
                   written, read>>

EnterCriticalSection(t) ==
    /\ pc[t] = "enter" /\ lock = "free"
    /\ lock' = t
    /\ Goto(t, IF t \in Writer THEN "append" ELSE "loop")
    /\ UNCHANGED <<hr, fields, locals, counts, written, read>>

(* AppendTail reads the end of the ring ...                                 *)
AppendTailReads(t) ==
    /\ pc[t] = "append"
    /\ last' = [last EXCEPT ![t] = backward[head]]
    /\ next' = [next EXCEPT ![t] = forward[backward[head]]]
    /\ Goto(t, "link")
    /\ UNCHANGED <<lock, hr, fields, entry, room, copied, counts, written, read>>

(* ... and links the entry in; its bytes are the next of the stream.        *)
AppendTailLinks(t) ==
    /\ pc[t] = "link"
    /\ LET e == entry[t] IN
          /\ forward' = [forward EXCEPT ![last[t]] = e, ![e] = next[t]]
          /\ backward' = [backward EXCEPT ![next[t]] = e, ![e] = last[t]]
          /\ data' = [data EXCEPT ![e] = [i \in 1 .. size[e] |-> Len(written) + i]]
          /\ written' = written \o data'[e]
    /\ Forget(t)
    /\ Goto(t, "leave")
    /\ UNCHANGED <<lock, hr, size, index, alive, room, copied, counts, read>>

(* Seeded fault: the critical section is not left. *)
LeaveCriticalSection_Never(t) ==
    /\ pc[t] = "leave"
    /\ Goto(t, "idle")
    /\ UNCHANGED <<lock, hr, fields, locals, counts, written, read>>

LeaveCriticalSection(t) ==
    /\ pc[t] = "leave"
    /\ lock' = "free"
    /\ Goto(t, IF t \in Writer THEN "idle" ELSE "assert")
    /\ UNCHANGED <<hr, fields, locals, counts, written, read>>

WriteData(t) ==
    \/ Allocate(t) \/ EnterCriticalSection(t)
    \/ AppendTailReads(t) \/ AppendTailLinks(t) \/ LeaveCriticalSection(t)

-----------------------------------------------------------------------------
(* ReadData.                                                                *)

IsEmpty == forward[head] = head /\ backward[head] = head

(* Without a buffer the call fails at once.                                 *)
BeginRead(t) ==
    /\ pc[t] = "idle" /\ reads < MaxReads
    /\ reads' = reads + 1
    /\ \/ /\ \E n \in ReadSizes : room' = [room EXCEPT ![t] = n]
          /\ Goto(t, "enter")
          /\ UNCHANGED hr
       \/ /\ hr' = [hr EXCEPT ![t] = "E_FAIL"]
          /\ UNCHANGED <<room, pc>>
    /\ UNCHANGED <<lock, fields, entry, last, next, copied, writes, written, read>>

(* Seeded fault: the index is set, not advanced. *)
CopyTo_SetsIndex(e, n) ==
    LET len == IF n < size[e] THEN n ELSE size[e] IN
    [bytes |-> [i \in 1 .. len |->
                  IF index[e] + i \in DOMAIN data[e] THEN data[e][index[e] + i] ELSE Stray],
     index |-> len]

(* ListEntry::CopyTo: at most the entry's size, from its index on; bytes    *)
(* beyond the end of its data are whatever the heap holds there.            *)
CopyTo(e, n) ==
    LET len == IF n < size[e] THEN n ELSE size[e] IN
    [bytes |-> [i \in 1 .. len |->
                  IF index[e] + i \in DOMAIN data[e] THEN data[e][index[e] + i] ELSE Stray],
     index |-> (index[e] + len) % ULong]

DataLeft(e, i) == (size[e] - i) % ULong

(* One turn of the loop: copy from the first entry; go on to delete it when *)
(* nothing is left of it.                                                   *)
ReadLoop(t) ==
    /\ pc[t] = "loop"
    /\ \/ /\ room[t] = 0 \/ IsEmpty
          /\ Goto(t, "leave")
          /\ room' = [room EXCEPT ![t] = 0]
          /\ UNCHANGED <<index, entry, copied, read>>
       \/ /\ room[t] > 0 /\ ~IsEmpty
          /\ LET first == forward[head]
                 copy  == CopyTo(first, room[t])
             IN /\ index' = [index EXCEPT ![first] = copy.index]
                /\ room' = [room EXCEPT ![t] = @ - Len(copy.bytes)]
                /\ copied' = [copied EXCEPT ![t] = @ + Len(copy.bytes)]
                /\ read' = read \o copy.bytes
                /\ IF DataLeft(first, copy.index) = 0
                      THEN Goto(t, "remove") /\ entry' = [entry EXCEPT ![t] = first]
                      ELSE UNCHANGED <<pc, entry>>
    /\ UNCHANGED <<lock, hr, forward, backward, data, size, alive, last, next, counts, written>>

(* RemoveHead reads the neighbours of the first entry ...                   *)
RemoveHeadReads(t) ==
    /\ pc[t] = "remove"
    /\ last' = [last EXCEPT ![t] = backward[forward[head]]]
    /\ next' = [next EXCEPT ![t] = forward[forward[head]]]
    /\ Goto(t, "unlink")
    /\ UNCHANGED <<lock, hr, fields, entry, room, copied, counts, written, read>>

(* ... joins them and deletes it.                                           *)
RemoveHeadUnlinks(t) ==
    /\ pc[t] = "unlink"
    /\ forward' = [forward EXCEPT ![last[t]] = next[t]]
    /\ backward' = [backward EXCEPT ![next[t]] = last[t]]
    /\ alive' = alive \ {entry[t]}
    /\ Forget(t)
    /\ Goto(t, "loop")
    /\ UNCHANGED <<lock, hr, data, size, index, room, copied, counts, written, read>>

(* ReadData asserts that it has something to hand out: when the ring was    *)
(* empty, or the buffer has no byte, a debug build ends the process there,  *)
(* and a release build returns.                                             *)
Return(t) ==
    /\ pc[t] = "assert"
    /\ \/ /\ Goto(t, "idle")
          /\ hr' = [hr EXCEPT ![t] = "S_OK"]
          /\ copied' = [copied EXCEPT ![t] = 0]
       \/ /\ copied[t] = 0
          /\ pc' = [u \in Thread |-> "aborted"]
          /\ UNCHANGED <<hr, copied>>
    /\ UNCHANGED <<lock, fields, entry, last, next, room, counts, written, read>>

ReadData(t) ==
    \/ BeginRead(t) \/ EnterCriticalSection(t) \/ ReadLoop(t)
    \/ RemoveHeadReads(t) \/ RemoveHeadUnlinks(t) \/ LeaveCriticalSection(t)
    \/ Return(t)

Next ==
    \/ \E t \in Writer : WriteData(t)
    \/ \E t \in Reader : ReadData(t)

Spec == Init /\ [][Next]_vars

(* A thread inside a call is run by the system whenever it can run; nobody  *)
(* has to make a call, and a thread that waits for the critical section is  *)
(* promised nothing while others take it.                                   *)
FairSpec ==
    /\ Spec
    /\ \A t \in Writer : WF_vars(pc[t] # "idle" /\ WriteData(t))
    /\ \A t \in Reader : WF_vars(pc[t] # "idle" /\ ReadData(t))

-----------------------------------------------------------------------------
(* The entries of the ring in order, found by following forward.            *)
Ring ==
    LET walk[n \in 0 .. MaxWrites] ==
          IF n = 0 THEN <<>>
          ELSE LET w == walk[n - 1]
                   f == forward[IF w = <<>> THEN head ELSE Last(w)]
               IN IF f \in alive \ {head} /\ ~Contains(w, f) THEN Append(w, f) ELSE w
    IN walk[MaxWrites]

Left(e) == SubSeq(data[e], index[e] + 1, Len(data[e]))

(* What Transport.cpp:92 says: "Copy data from the transport buffer to the  *)
(* application buffer."  No byte comes from outside the transport buffer.   *)
CopiesTransportData == \A i \in DOMAIN read : read[i] # Stray

Labels == {"idle", "enter", "append", "link", "leave", "loop", "remove", "unlink",
           "assert", "aborted"}

(* Types; and no index passes its entry's size before a copy has passed the *)
(* entry's end.                                                             *)
TypeOK ==
    /\ pc \in [Thread -> Labels]
    /\ lock \in Thread \cup {"free"}
    /\ forward \in [Node -> Node \cup {NoNode}] /\ backward \in [Node -> Node \cup {NoNode}]
    /\ index \in [Node -> 0 .. ULong - 1]
    /\ CopiesTransportData => \A n \in Node : index[n] <= size[n]
    /\ copied \in [Thread -> Nat] /\ room \in [Thread -> Nat] /\ alive \subseteq Node

(* AppendTail and RemoveHead keep the entries a ring in both directions:    *)
(* following a link and the opposite one comes back, through live entries   *)
(* only, and following them all reaches every entry once.                   *)
RingInBothDirections ==
    LET nodes == ToSet(Ring) \cup {head} IN
    \A n \in nodes : /\ forward[n] \in nodes /\ backward[n] \in nodes
                     /\ backward[forward[n]] = n /\ forward[backward[n]] = n

(* Every entry allocated by WriteData and not yet deleted is in the ring or *)
(* in the hands of the thread that made it, also after a failed allocation. *)
NothingLeaks ==
    alive = {head} \cup ToSet(Ring) \cup {entry[t] : t \in {u \in Writer : entry[u] # NoNode}}

(* What ReadData has handed out, with what the entries still hold, is the   *)
(* stream that WriteData took in: no byte lost, repeated or moved, however  *)
(* the threads' calls fall and whatever lengths they are, as long as no     *)
(* copy has gone beyond the end of its entry (CopiesTransportData).         *)
StreamIntact ==
    CopiesTransportData =>
        read \o FlattenSeq([i \in DOMAIN Ring |-> Left(Ring[i])]) = written

(* Every call returns, unless the assertion of a ReadData that has nothing  *)
(* to hand out ends the process: the loop of ReadData ends and the critical *)
(* section is always left.                                                  *)
CallsReturn == \A t \in Thread : pc[t] # "idle" ~> pc[t] \in {"idle", "aborted"}
=============================================================================
