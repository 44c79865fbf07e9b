----------------------------- MODULE SharedArray -----------------------------
(***************************************************************************)
(* ClientServerLib's TypedArray, a counted array in a file mapping that    *)
(* processes share under a named mutex, as ProcessServer and ProcessClient *)
(* use it: the server adds its messages and reads them back, the client it *)
(* starts waits for the count and reads them too.  Either process may be   *)
(* killed between any two steps, and the server may then be started again, *)
(* over the array of clients that still run.                               *)
(*   - Two servers at once are left out: nothing in ProcessServer keeps    *)
(*     them apart, and Add looks at the count before it locks.             *)
(*   - A process that ends leaves the mutex to the next one that waits;    *)
(*     that it was abandoned is not looked at.                             *)
(*   - A message is a string whose text is on the heap of the server that  *)
(*     added it: at the same address of a client there is anything or      *)
(*     nothing.                                                            *)
(*   - The mapping is asked for with the size of the messages alone, while *)
(*     the count comes before them: the end of the last one lies behind    *)
(*     that size, in the rest of the page, and is never zeroed.            *)
(***************************************************************************)
EXTENDS Integers

CONSTANTS
    MaxElements,    \* m_maxElements, and how many messages the server adds
    MaxStarts       \* bound: servers started one after the other

(* In bytes: the count, a message, what is mapped, and what it rounds up to. *)
CountSize   == 4
MessageSize == 32
MappedSize  == MaxElements * MessageSize
PageSize    == 4096

SlotEnd(j) == CountSize + (j + 1) * MessageSize

(* The array and its count fit in a page, as the ten messages do.           *)
ArrayAssumption ==
    /\ MaxElements \in Nat \ {0} /\ MaxStarts \in Nat \ {0}
    /\ SlotEnd(MaxElements - 1) <= PageSize

VARIABLES
    mutex,          \* the Server or the client that owns it, or Nobody
    m_currentCount,
    m_array,        \* a slot: who wrote it, which message, and who wrote its end
    serverAt, element, starts,
    clientAt, clientElement

vars == <<mutex, m_currentCount, m_array, serverAt, element, starts, clientAt,
          clientElement>>
sharedVars == <<mutex, m_currentCount, m_array>>
serverVars == <<serverAt, element, starts>>
clientVars == <<clientAt, clientElement>>

Slot == 0..MaxElements - 1
Nobody == -1
Server == 0
Client == 1..MaxStarts          \* the client that the k-th server started
Zero == [by |-> 0, number |-> 0, end |-> 0]
Hello(i) == [by |-> starts, number |-> i, end |-> starts]

ServerOwns == {"zero", "construct", "count", "unlock"}
ClientOwns == {"index", "print"}
ServerRuns == ServerOwns \cup {"start", "launch", "add", "lock", "get", "show"}
ClientRuns == ClientOwns \cup {"open", "poll", "lock"}

Init ==
    /\ mutex = Nobody /\ m_currentCount = 0
    /\ m_array = [j \in Slot |-> Zero]
    /\ serverAt = "ended" /\ element = 0 /\ starts = 0
    /\ clientAt = [k \in Client |-> "none"]
    /\ clientElement = [k \in Client |-> 0]

-----------------------------------------------------------------------------
(* ProcessServer.                                                           *)
ServerGoes(from, to) == serverAt = from /\ serverAt' = to

ServerStart ==
    /\ starts < MaxStarts
    /\ ServerGoes("ended", "start")
    /\ starts' = starts + 1 /\ element' = 0
    /\ UNCHANGED <<sharedVars, clientVars>>

(* The constructor locks before it maps, and zeroes the size it asked for,  *)
(* which an older client may still have.                                    *)
ServerLock ==
    /\ mutex = Nobody /\ mutex' = Server
    /\ ServerGoes("start", "zero") \/ ServerGoes("lock", "construct")
    /\ UNCHANGED <<m_currentCount, m_array, element, starts, clientVars>>

ZeroMemory ==
    /\ ServerGoes("zero", "launch")
    /\ m_currentCount' = 0
    /\ m_array' = [j \in Slot |-> IF SlotEnd(j) <= MappedSize THEN Zero
                                  ELSE [Zero EXCEPT !.end = m_array[j].end]]
    /\ mutex' = Nobody
    /\ UNCHANGED <<element, starts, clientVars>>

(* CreateProcess; that it failed is printed. *)
Launch ==
    /\ ServerGoes("launch", "add")
    /\ clientAt' \in {clientAt, [clientAt EXCEPT ![starts] = "open"]}
    /\ UNCHANGED <<sharedVars, element, starts, clientElement>>

(* Add looks at the count before it locks; what it throws ends the server.  *)
AddChecks ==
    /\ element < MaxElements
    /\ IF m_currentCount >= MaxElements THEN ServerGoes("add", "ended")
       ELSE ServerGoes("add", "lock")
    /\ UNCHANGED <<sharedVars, element, starts, clientVars>>

Construct ==
    /\ ServerGoes("construct", "count")
    /\ m_array' = [m_array EXCEPT ![m_currentCount] = Hello(element)]
    /\ UNCHANGED <<mutex, m_currentCount, element, starts, clientVars>>

Count ==
    /\ ServerGoes("count", "unlock")
    /\ m_currentCount' = m_currentCount + 1
    /\ UNCHANGED <<mutex, m_array, element, starts, clientVars>>

AddUnlocks ==
    /\ ServerGoes("unlock", "add")
    /\ mutex' = Nobody /\ element' = element + 1
    /\ UNCHANGED <<m_currentCount, m_array, starts, clientVars>>

ReadBackBegins ==
    /\ element = MaxElements
    /\ ServerGoes("add", "get") /\ element' = 0
    /\ UNCHANGED <<sharedVars, starts, clientVars>>

(* operator[] checks the index under the lock and gives it back at once. *)
ServerGet ==
    /\ mutex = Nobody
    /\ IF element >= m_currentCount THEN ServerGoes("get", "ended")
       ELSE ServerGoes("get", "show")
    /\ UNCHANGED <<sharedVars, element, starts, clientVars>>

ServerShow ==
    /\ IF element + 1 < MaxElements THEN ServerGoes("show", "get")
       ELSE ServerGoes("show", "ended")
    /\ element' = element + 1
    /\ UNCHANGED <<sharedVars, starts, clientVars>>

ServerStep ==
    \/ ServerLock \/ ZeroMemory \/ Launch \/ AddChecks \/ Construct \/ Count
    \/ AddUnlocks \/ ReadBackBegins \/ ServerGet \/ ServerShow

(* A kill, or what the constructor throws where a call fails. *)
ServerKilled ==
    /\ serverAt \in ServerRuns /\ serverAt' = "ended"
    /\ mutex' = IF mutex = Server THEN Nobody ELSE mutex
    /\ UNCHANGED <<m_currentCount, m_array, element, starts, clientVars>>

-----------------------------------------------------------------------------
(* ProcessClient.                                                           *)
ClientGoes(k, from, to) ==
    clientAt[k] = from /\ clientAt' = [clientAt EXCEPT ![k] = to]

(* The objects exist, for the client inherited the server's handles; what   *)
(* fails all the same throws, and main does not catch.                      *)
Open(k) ==
    /\ mutex = Nobody
    /\ ClientGoes(k, "open", "poll") \/ ClientGoes(k, "open", "ended")
    /\ UNCHANGED <<sharedVars, serverVars, clientElement>>

(* The count is read without the lock. *)
Poll(k) ==
    /\ m_currentCount >= MaxElements
    /\ ClientGoes(k, "poll", "lock")
    /\ UNCHANGED <<sharedVars, serverVars, clientElement>>

ClientLock(k) ==
    /\ mutex = Nobody /\ mutex' = k
    /\ ClientGoes(k, "lock", "index")
    /\ UNCHANGED <<m_currentCount, m_array, serverVars, clientElement>>

(* operator[] locks once more; out of range it throws with one lock held. *)
Index(k) ==
    /\ IF clientElement[k] >= m_currentCount
       THEN ClientGoes(k, "index", "ended") /\ mutex' = Nobody
       ELSE ClientGoes(k, "index", "print") /\ UNCHANGED mutex
    /\ UNCHANGED <<m_currentCount, m_array, serverVars, clientElement>>

(* It follows the server's pointer, and prints what is there or faults. *)
ClientPrint(k) ==
    /\ LET more == clientElement[k] + 1 < MaxElements
       IN  \/ ClientGoes(k, "print", "ended")
           \/ more /\ ClientGoes(k, "print", "lock")
    /\ mutex' = Nobody
    /\ clientElement' = [clientElement EXCEPT ![k] = @ + 1]
    /\ UNCHANGED <<m_currentCount, m_array, serverVars>>

ClientStep(k) == Open(k) \/ Poll(k) \/ ClientLock(k) \/ Index(k) \/ ClientPrint(k)

ClientKilled(k) ==
    /\ clientAt[k] \in ClientRuns
    /\ clientAt' = [clientAt EXCEPT ![k] = "ended"]
    /\ mutex' = IF mutex = k THEN Nobody ELSE mutex
    /\ UNCHANGED <<m_currentCount, m_array, serverVars, clientElement>>

Next ==
    \/ ServerStart \/ ServerStep \/ ServerKilled
    \/ \E k \in Client : ClientStep(k) \/ ClientKilled(k)

(* A process that runs goes on, and gets a mutex that is free; nobody has   *)
(* to start or to kill one.                                                 *)
Fairness == WF_vars(ServerStep) /\ \A k \in Client : WF_vars(ClientStep(k))

Spec == Init /\ [][Next]_vars /\ Fairness

-----------------------------------------------------------------------------
(* Types of the variables.                                                  *)
TypeOK ==
    /\ mutex \in {Nobody, Server} \cup Client
    /\ m_currentCount \in 0..MaxElements
    /\ m_array \in [Slot -> [by : 0..MaxStarts, number : 0..MaxElements - 1,
                            end : 0..MaxStarts]]
    /\ serverAt \in ServerRuns \cup {"ended"}
    /\ element \in 0..MaxElements /\ starts \in 0..MaxStarts
    /\ clientAt \in [Client -> ClientRuns \cup {"none", "ended"}]
    /\ clientElement \in [Client -> 0..MaxElements]

(* ClientServerLib: no message is constructed behind the end of the array,  *)
(* although Add looks at the count before it has the lock, nor behind the   *)
(* end of the page, although the last one passes the size that was mapped.  *)
AddedInBounds ==
    serverAt = "construct" => m_currentCount \in Slot /\ SlotEnd(m_currentCount) <= PageSize

(* ProcessClient: the slot it reads holds one message, from its beginning   *)
(* to its end, although it looked at the count without the lock and a       *)
(* server started since may have zeroed the array, all but the end of the   *)
(* last slot.                                                               *)
ReadsConstructed ==
    \A k \in Client : clientAt[k] = "print" =>
        LET slot == m_array[clientElement[k]] IN slot.by # 0 /\ slot.end = slot.by

(* ProcessServer: what it reads back is what it added, in the same order,   *)
(* although it looks at the message after the lock was given back.          *)
ReadBack == serverAt = "show" => m_array[element] = Hello(element)

(* ProcessServer and ProcessClient: a server that runs ends, and once the   *)
(* last one has added everything no client waits for ever.                  *)
SharersEnd ==
    /\ serverAt = "start" ~> serverAt = "ended"
    /\ \A k \in Client :
         (serverAt = "get" /\ starts = MaxStarts /\ clientAt[k] # "none")
             ~> clientAt[k] = "ended"
=============================================================================
