----------------------------- MODULE MessagePipe -----------------------------
(***************************************************************************)
(* src/src/PipeLib, PipeMessages, SmallPipes, PipeServer and PipeClient:   *)
(* one process writes messages to its end of a message-type named pipe,    *)
(* another reads them from the other end with a fixed-size ReadFile that   *)
(* is repeated, into a buffer that grows, while the system answers         *)
(* ERROR_MORE_DATA.                                                        *)
(*                                                                         *)
(* A write is visible to the reader at once and returns when the pipe's    *)
(* quota has room for it; a reader takes one message, or a part of one,    *)
(* per ReadFile.                                                           *)
(***************************************************************************)
EXTENDS Integers, SequencesExt

CONSTANTS
    BufferSize,   \* bytes asked of one ReadFile
    PipeSize,     \* quota of the pipe
    Header,       \* the bytes of Header{TypeB, TypeA}
    Payloads,     \* byte sequences the writer may write
    MaxMessages   \* bound: messages written

(* What the constants are.                                                  *)
SizesAssumption ==
    /\ BufferSize \in Nat \ {0} /\ PipeSize \in Nat /\ MaxMessages \in Nat
    /\ Header \in Seq(Nat) /\ Payloads \subseteq Seq(Nat)

VARIABLES
    writer,        \* "idle", "blocked" in WriteFile, or "closed"
    written,       \* what the writer was asked to write, with the bytes it put in the pipe
    pipe,          \* the messages, or what is left of the first, not yet read
    reader,        \* "idle", "reading", "failed" or "closed"
    returnBuffer,  \* ReadPipe's buffer
    totalBytesRead,
    returned       \* what the calls of ReadPipe have returned

vars == <<writer, written, pipe, reader, returnBuffer, totalBytesRead, returned>>
readerVars == <<reader, returnBuffer, totalBytesRead, returned>>

Zeros(n) == [i \in 1 .. n |-> 0]

(* Seeded fault: the bytes added are not initialised. *)
Resize_Garbage(v, n) == [i \in 1 .. n |-> IF i <= Len(v) THEN v[i] ELSE -1]

(* vector::resize: cut, or fill with zeros.                                 *)
Resize(v, n) == [i \in 1 .. n |-> IF i <= Len(v) THEN v[i] ELSE 0]

Init ==
    /\ writer = "idle"
    /\ written = <<>>
    /\ pipe = <<>>
    /\ reader = "idle"
    /\ returnBuffer = <<>>
    /\ totalBytesRead = 0
    /\ returned = <<>>

-----------------------------------------------------------------------------
(* The writer.                                                              *)

(* WriteFile.  An empty write makes an empty message.                       *)
WritePipe(payload, data) ==
    /\ writer = "idle"
    /\ Len(written) < MaxMessages
    /\ written' = Append(written, [payload |-> payload, data |-> data])
    /\ pipe' = Append(pipe, data)
    /\ writer' = "blocked"
    /\ UNCHANGED readerVars

(* WriteWithHeader allocates room for the header and the data, writes the   *)
(* header into it and then inserts the data behind the header: the room     *)
(* made for the data stays, as zeros, at the end.                           *)
WithHeader(d) == Header \o d \o Zeros(Len(d))

WriteMessage ==
    \E d \in Payloads : WritePipe(d, d) \/ WritePipe(d, WithHeader(d))

InPipe == FoldLeft(LAMBDA n, m : n + Len(m), 0, pipe)

(* Seeded fault: a message has to fit the quota as a whole. *)
WriteReturns_NeedsQuota ==
    /\ writer = "blocked"
    /\ InPipe <= PipeSize /\ Len(Last(written).data) <= PipeSize
    /\ writer' = "idle"
    /\ UNCHANGED <<written, pipe, readerVars>>

(* What the pipe holds fits its quota: the write is complete.               *)
WriteReturns ==
    /\ writer = "blocked"
    /\ InPipe <= PipeSize
    /\ writer' = "idle"
    /\ UNCHANGED <<written, pipe, readerVars>>

(* No reader is left: WriteFile fails, and the exception ends the writer.   *)
WriteFails ==
    /\ writer = "blocked" /\ reader \in {"failed", "closed"}
    /\ writer' = "closed"
    /\ UNCHANGED <<written, pipe, readerVars>>

(* The writer's process ends, or unwinds, and its end of the pipe closes;   *)
(* what was written stays readable.                                         *)
WriterCloses ==
    /\ writer # "closed"
    /\ writer' = "closed"
    /\ UNCHANGED <<written, pipe, readerVars>>

-----------------------------------------------------------------------------
(* The reader.                                                              *)

ReadPipe ==
    /\ reader = "idle"
    /\ reader' = "reading"
    /\ returnBuffer' = Zeros(BufferSize)
    /\ totalBytesRead' = 0
    /\ UNCHANGED <<writer, written, pipe, returned>>

(* ReadFile puts n bytes of the first message behind what was read before.  *)
Fill(n) ==
    [i \in 1 .. Len(returnBuffer) |->
        IF i \in totalBytesRead + 1 .. totalBytesRead + n
        THEN Head(pipe)[i - totalBytesRead] ELSE returnBuffer[i]]

(* Success: the rest of the message fitted.                                 *)
ReadFinishes ==
    /\ reader = "reading" /\ pipe # <<>>
    /\ Len(Head(pipe)) <= BufferSize
    /\ LET n == Len(Head(pipe)) IN
          /\ totalBytesRead' = totalBytesRead + n
          /\ returnBuffer' = Resize(Fill(n), totalBytesRead + n)
          /\ returned' = Append(returned, returnBuffer')
    /\ pipe' = Tail(pipe)
    /\ reader' = "idle"
    /\ UNCHANGED <<writer, written>>

(* Seeded fault: the buffer does not grow. *)
ReadMoreData_NoGrowth ==
    /\ reader = "reading" /\ pipe # <<>>
    /\ Len(Head(pipe)) > BufferSize
    /\ totalBytesRead' = totalBytesRead + BufferSize
    /\ returnBuffer' = Fill(BufferSize)
    /\ pipe' = <<SubSeq(Head(pipe), BufferSize + 1, Len(Head(pipe)))>> \o Tail(pipe)
    /\ UNCHANGED <<writer, written, reader, returned>>

(* ERROR_MORE_DATA: grow the buffer and read on.                            *)
ReadMoreData ==
    /\ reader = "reading" /\ pipe # <<>>
    /\ Len(Head(pipe)) > BufferSize
    /\ totalBytesRead' = totalBytesRead + BufferSize
    /\ returnBuffer' = Resize(Fill(BufferSize), Len(returnBuffer) + BufferSize)
    /\ pipe' = <<SubSeq(Head(pipe), BufferSize + 1, Len(Head(pipe)))>> \o Tail(pipe)
    /\ UNCHANGED <<writer, written, reader, returned>>

(* Any other error, here the broken pipe, is thrown.                        *)
ReadFails ==
    /\ reader = "reading"
    /\ pipe = <<>> /\ writer = "closed"
    /\ reader' = "failed"
    /\ UNCHANGED <<writer, written, pipe, returnBuffer, totalBytesRead, returned>>

(* The reader's process ends between two messages or in the middle of one.  *)
ReaderCloses ==
    /\ reader \in {"idle", "reading"}
    /\ reader' = "closed"
    /\ UNCHANGED <<writer, written, pipe, returnBuffer, totalBytesRead, returned>>

(* ReadWithHeader: a message shorter than a header gives an unset header    *)
(* and no data.                                                             *)
ReadWithHeader(m) ==
    IF Len(m) < Len(Header) THEN [header |-> Zeros(Len(Header)), data |-> <<>>]
    ELSE [header |-> SubSeq(m, 1, Len(Header)), data |-> SubSeq(m, Len(Header) + 1, Len(m))]

-----------------------------------------------------------------------------
ReadFile == ReadFinishes \/ ReadMoreData \/ ReadFails

Next ==
    \/ WriteMessage \/ WriteReturns \/ WriteFails \/ WriterCloses
    \/ ReadPipe \/ ReadFile \/ ReaderCloses

Spec == Init /\ [][Next]_vars

(* A reader that is not ended reads on, and the system completes writes;    *)
(* nobody has to write or to leave.                                         *)
FairSpec == Spec /\ WF_vars(ReadPipe) /\ WF_vars(ReadFile) /\ WF_vars(WriteReturns)

-----------------------------------------------------------------------------
(* Types.                                                                   *)
TypeOK ==
    /\ writer \in {"idle", "blocked", "closed"}
    /\ written \in Seq([payload : Seq(Nat), data : Seq(Nat)])
    /\ pipe \in Seq(Seq(Nat))
    /\ reader \in {"idle", "reading", "failed", "closed"}
    /\ returnBuffer \in Seq(Nat)
    /\ totalBytesRead \in Nat
    /\ returned \in Seq(Seq(Nat))

(* Every ReadFile of the loop is given BufferSize bytes at an offset of     *)
(* totalBytesRead: they lie inside the buffer however long the message is.  *)
ReadInBounds ==
    reader = "reading" => totalBytesRead + BufferSize <= Len(returnBuffer)

(* The bytes of the message that is being read, read so far.                *)
Progress == IF reader = "reading" THEN SubSeq(returnBuffer, 1, totalBytesRead) ELSE <<>>

(* Messages are never merged, split, reordered or lost: what the calls      *)
(* returned, then the message under way put together from its two parts,    *)
(* then the messages in the pipe are exactly the messages written.          *)
MessagesStayWhole ==
    reader \in {"idle", "reading"} =>
        LET Underway == IF pipe = <<>> THEN <<>>
                        ELSE <<Progress \o Head(pipe)>> \o Tail(pipe)
        IN  returned \o Underway = [i \in DOMAIN written |-> written[i].data]

(* A message with a header keeps it, and its payload arrives as the         *)
(* beginning of the data.                                                   *)
HeaderSurvives ==
    \A i \in DOMAIN returned :
        written[i].data # written[i].payload =>
            LET r == ReadWithHeader(returned[i])
            IN  r.header = Header /\ IsPrefix(written[i].payload, r.data)

(* A write that exceeds the quota blocks only until the data is read.       *)
WriteUnblocks ==
    (writer = "blocked") ~> (writer # "blocked" \/ reader \in {"failed", "closed"})

(* Every message is returned by some call of ReadPipe, unless the reader    *)
(* goes away.                                                               *)
EveryMessageRead ==
    \A i \in 1 .. MaxMessages :
        (Len(written) >= i) ~> (Len(returned) >= i \/ reader = "closed")

(* PipeServer/main.cpp line 44: "Write to the server pipe -- the data will  *)
(* be read by the child process."                                           *)
DataIsReadByChild ==
    \A i \in DOMAIN returned :
        written[i].data # written[i].payload =>
            ReadWithHeader(returned[i]).data = written[i].payload
=============================================================================
