-------------------------- MODULE ByteStreamProofs --------------------------
(***************************************************************************)
(* The programs that send bytes through a pipe and get them back.          *)
(*                                                                         *)
(* PipeLib, for every buffer size, quota and set of payloads: ReadPipe     *)
(* stays in its buffer and returns the messages that were written, whole   *)
(* and in order.                                                           *)
(*                                                                         *)
(* Parent and Child, for every file, block and pipe: what the parent       *)
(* prints of the file is the file, in order and with nothing missing.      *)
(*                                                                         *)
(* WinsockCoroutine, for every sequence of messages and every buffer: what *)
(* the client has received is the beginning of what it sent.               *)
(*                                                                         *)
(* SecureSocket, for every handshake, response and buffer: what tls_read   *)
(* hands out is the beginning of what the server answered, and all of it   *)
(* when the session was closed after the server had sent it; the file has  *)
(* it as text when there is no zero in it.                                 *)
(***************************************************************************)
EXTENDS MessagePipe, SequenceTheorems, FiniteSetTheorems, TLAPS

Entry == [payload : Seq(Nat), data : Seq(Nat)]

(* How far the message at the head of the pipe has been read, and what that *)
(* message was when it was written.                                         *)
Cursor == IF reader = "reading" THEN totalBytesRead ELSE 0
Current == written[Len(returned) + 1].data

(* What a call has returned is what was written, whatever has ended since.  *)
ReturnedWhole ==
    /\ Len(returned) <= Len(written)
    /\ \A i \in 1 .. Len(returned) : returned[i] = written[i].data

(* The messages behind the first are in the pipe as they were written.      *)
WaitingWhole ==
    reader \in {"idle", "reading"} =>
        /\ Len(written) = Len(returned) + Len(pipe)
        /\ \A i \in 2 .. Len(pipe) : pipe[i] = written[Len(returned) + i].data

(* The first is cut at the cursor: the buffer has what lies before it, the  *)
(* pipe what lies behind it.                                                *)
CurrentCut ==
    reader \in {"idle", "reading"} =>
        /\ pipe # <<>> =>
              /\ Len(Current) = Cursor + Len(pipe[1])
              /\ \A j \in 1 .. Len(pipe[1]) : pipe[1][j] = Current[Cursor + j]
              /\ \A j \in 1 .. Cursor : returnBuffer[j] = Current[j]
        /\ pipe = <<>> => Cursor = 0

(* The buffer always has room for one more ReadFile.                        *)
RoomLeft == reader = "reading" => Len(returnBuffer) = totalBytesRead + BufferSize

(* Whatever is in written was written with a header or without one.         *)
TwoForms ==
    \A i \in 1 .. Len(written) :
        written[i].data \in {written[i].payload, WithHeader(written[i].payload)}

Inv == TypeOK /\ ReturnedWhole /\ WaitingWhole /\ CurrentCut /\ RoomLeft /\ TwoForms

-----------------------------------------------------------------------------
(* Room made by resize is filled with zeros.                                *)
LEMMA ZerosType == ASSUME NEW n \in Nat PROVE Zeros(n) \in Seq(Nat) /\ Len(Zeros(n)) = n
<1>1. Zeros(n) \in [1 .. n -> Nat]
  BY DEF Zeros
<1> QED
  BY <1>1 DEF Zeros

(* A message with its header is a message.                                  *)
LEMMA HeaderType ==
  ASSUME SizesAssumption, NEW d \in Seq(Nat)
  PROVE  WithHeader(d) \in Seq(Nat)
<1>1. Zeros(Len(d)) \in Seq(Nat)
  BY ZerosType
<1>2. Header \o d \in Seq(Nat)
  BY DEF SizesAssumption
<1> QED
  BY <1>1, <1>2 DEF WithHeader

(* One ReadFile of n bytes: what was in the buffer before, then the first n *)
(* bytes of the message, at the length that resize is asked for.            *)
LEMMA FillResize ==
  ASSUME TypeOK, pipe # <<>>, NEW n \in Nat, n <= Len(pipe[1]),
         totalBytesRead + n <= Len(returnBuffer), NEW m \in Nat, totalBytesRead + n <= m
  PROVE  LET r == Resize(Fill(n), m) IN
         /\ r \in Seq(Nat) /\ Len(r) = m
         /\ \A j \in 1 .. totalBytesRead : r[j] = returnBuffer[j]
         /\ \A j \in 1 .. n : r[totalBytesRead + j] = pipe[1][j]
<1> DEFINE f == Fill(n)
           r == Resize(f, m)
<1>0. /\ totalBytesRead \in Nat /\ Len(returnBuffer) \in Nat
      /\ pipe[1] \in Seq(Nat) /\ Head(pipe) = pipe[1] /\ Len(pipe[1]) \in Nat
  BY DEF TypeOK
<1>1. f = [i \in 1 .. Len(returnBuffer) |->
             IF i \in totalBytesRead + 1 .. totalBytesRead + n
             THEN pipe[1][i - totalBytesRead] ELSE returnBuffer[i]]
  BY <1>0 DEF Fill
<1>2. ASSUME NEW i \in 1 .. Len(returnBuffer) PROVE f[i] \in Nat
  <2>1. CASE i \in totalBytesRead + 1 .. totalBytesRead + n
    <3>1. i - totalBytesRead \in 1 .. Len(pipe[1])
      BY <1>0, <2>1
    <3>2. pipe[1][i - totalBytesRead] \in Nat
      BY <1>0, <3>1
    <3> QED
      BY <1>1, <2>1, <3>2
  <2>2. CASE i \notin totalBytesRead + 1 .. totalBytesRead + n
    <3>1. returnBuffer[i] \in Nat
      BY DEF TypeOK
    <3> QED
      BY <1>1, <2>2, <3>1
  <2> QED
    BY <2>1, <2>2
<1>3. f \in [1 .. Len(returnBuffer) -> Nat]
  BY <1>1, <1>2
<1>4. Len(f) = Len(returnBuffer)
  BY <1>0, <1>3
<1>5. r = [i \in 1 .. m |-> IF i <= Len(returnBuffer) THEN f[i] ELSE 0]
  BY <1>4 DEF Resize
<1>6. r \in [1 .. m -> Nat]
  BY <1>0, <1>3, <1>5
<1>7. r \in Seq(Nat) /\ Len(r) = m
  BY <1>6
<1> HIDE DEF f
<1>8. ASSUME NEW j \in 1 .. totalBytesRead PROVE r[j] = returnBuffer[j]
  BY <1>0, <1>1, <1>5
<1>9. ASSUME NEW j \in 1 .. n PROVE r[totalBytesRead + j] = pipe[1][j]
  BY <1>0, <1>1, <1>5
<1> QED
  BY <1>7, <1>8, <1>9 DEF f

-----------------------------------------------------------------------------
(* Nothing has been written or read.                                        *)
LEMMA InitInv == SizesAssumption /\ Init => Inv
BY DEF Init, Inv, TypeOK, ReturnedWhole, WaitingWhole, CurrentCut, Cursor, RoomLeft, TwoForms

(* WriteFile puts a message at the end of what waits.                       *)
LEMMA WriteInv ==
  ASSUME SizesAssumption, Inv, NEW d \in Seq(Nat), NEW x \in {d, WithHeader(d)},
         WritePipe(d, x)
  PROVE  Inv'
<1> DEFINE e == [payload |-> d, data |-> x]
<1>0. x \in Seq(Nat) /\ e \in Entry
  BY HeaderType DEF Entry
<1>1. /\ written \in Seq(Entry) /\ pipe \in Seq(Seq(Nat)) /\ returned \in Seq(Seq(Nat))
      /\ totalBytesRead \in Nat
      /\ Len(written) \in Nat /\ Len(pipe) \in Nat /\ Len(returned) \in Nat
  BY DEF Inv, TypeOK, Entry
<1>2. /\ written' = Append(written, e) /\ pipe' = Append(pipe, x) /\ writer' = "blocked"
      /\ UNCHANGED readerVars
  BY DEF WritePipe
<1> HIDE DEF e
<1>3. /\ written' \in Seq(Entry) /\ pipe' \in Seq(Seq(Nat))
      /\ Len(written') = Len(written) + 1 /\ Len(pipe') = Len(pipe) + 1
      /\ \A k \in 1 .. Len(written) : written'[k] = written[k]
      /\ \A k \in 1 .. Len(pipe) : pipe'[k] = pipe[k]
      /\ written'[Len(written) + 1] = e /\ pipe'[Len(pipe) + 1] = x
  BY <1>0, <1>1, <1>2
<1>4. e.data = x /\ e.payload = d
  BY DEF e
<1>5. TypeOK'
  BY <1>2, <1>3 DEF Inv, TypeOK, readerVars, Entry
<1>6. ReturnedWhole'
  BY <1>1, <1>2, <1>3 DEF Inv, ReturnedWhole, readerVars
<1>7. WaitingWhole'
  <2> SUFFICES ASSUME reader \in {"idle", "reading"}
               PROVE  /\ Len(written') = Len(returned) + Len(pipe')
                      /\ \A k \in 2 .. Len(pipe') : pipe'[k] = written'[Len(returned) + k].data
    BY <1>2 DEF WaitingWhole, readerVars
  <2>1. Len(written) = Len(returned) + Len(pipe)
    BY DEF Inv, WaitingWhole
  <2>2. ASSUME NEW k \in 2 .. Len(pipe) PROVE pipe'[k] = written'[Len(returned) + k].data
    <3>1. Len(returned) + k \in 1 .. Len(written) /\ k \in 1 .. Len(pipe)
      BY <1>1, <2>1
    <3> QED
      BY <1>3, <3>1 DEF Inv, WaitingWhole
  <2>3. pipe'[Len(pipe) + 1] = written'[Len(returned) + (Len(pipe) + 1)].data
    BY <1>1, <1>3, <1>4, <2>1
  <2>4. Len(written') = Len(returned) + Len(pipe')
    BY <1>1, <1>3, <2>1
  <2>5. ASSUME NEW k \in 2 .. Len(pipe') PROVE k \in 2 .. Len(pipe) \/ k = Len(pipe) + 1
    BY <1>1, <1>3
  <2> QED
    BY <2>2, <2>3, <2>4, <2>5
<1>8. CurrentCut'
  <2> SUFFICES ASSUME reader \in {"idle", "reading"}
               PROVE  /\ Len(Current') = Cursor + Len(pipe'[1])
                      /\ \A j \in 1 .. Len(pipe'[1]) : pipe'[1][j] = Current'[Cursor + j]
                      /\ \A j \in 1 .. Cursor : returnBuffer[j] = Current'[j]
                      /\ pipe' # <<>>
    BY <1>2 DEF CurrentCut, Cursor, readerVars
  <2>0. pipe' # <<>> /\ Cursor \in Nat
    BY <1>1, <1>3 DEF Cursor
  <2>1. Len(written) = Len(returned) + Len(pipe)
    BY DEF Inv, WaitingWhole
  <2>2. CASE pipe # <<>>
    <3>1. pipe'[1] = pipe[1] /\ Len(returned) + 1 \in 1 .. Len(written)
      BY <1>1, <1>3, <2>1, <2>2
    <3>2. Current' = Current
      BY <1>2, <1>3, <3>1 DEF Current, readerVars
    <3> QED
      BY <2>0, <2>2, <3>1, <3>2 DEF Inv, CurrentCut
  <2>3. CASE pipe = <<>>
    <3>1. pipe'[1] = x /\ Cursor = 0 /\ Len(returned) = Len(written)
      BY <1>1, <1>3, <2>1, <2>3 DEF Inv, CurrentCut
    <3>2. Current' = x
      BY <1>2, <1>3, <1>4, <3>1 DEF Current, readerVars
    <3>3. Len(x) \in Nat
      BY <1>0
    <3> QED
      BY <2>0, <3>1, <3>2, <3>3
  <2> QED
    BY <2>2, <2>3
<1>9. RoomLeft'
  <2>1. UNCHANGED <<reader, returnBuffer, totalBytesRead>>
    BY <1>2 DEF readerVars
  <2> QED
    BY <2>1 DEF Inv, RoomLeft
<1>10. TwoForms'
  <2>1. \A k \in 1 .. Len(written') :
           written'[k].data \in {written'[k].payload, WithHeader(written'[k].payload)}
    <3>1. ASSUME NEW k \in 1 .. Len(written') PROVE k \in 1 .. Len(written) \/ k = Len(written) + 1
      BY <1>1, <1>3
    <3>2. ASSUME NEW k \in 1 .. Len(written)
          PROVE  written'[k].data \in {written'[k].payload, WithHeader(written'[k].payload)}
      BY <1>3 DEF Inv, TwoForms
    <3>3. e.data \in {e.payload, WithHeader(e.payload)}
      BY <1>4
    <3> QED
      BY <1>3, <3>1, <3>2, <3>3
  <2> QED
    BY <2>1 DEF TwoForms, WithHeader, Zeros
<1> QED
  BY <1>5, <1>6, <1>7, <1>8, <1>9, <1>10 DEF Inv

(* The rest of the message fits: the call returns all of it.                *)
LEMMA FinishInv ==
  ASSUME SizesAssumption, Inv, ReadFinishes
  PROVE  Inv'
<1> DEFINE n == Len(pipe[1])
           r == Resize(Fill(n), totalBytesRead + n)
<1>1. /\ written \in Seq(Entry) /\ pipe \in Seq(Seq(Nat)) /\ returned \in Seq(Seq(Nat))
      /\ totalBytesRead \in Nat /\ pipe # <<>> /\ pipe[1] \in Seq(Nat) /\ n \in Nat
      /\ Len(written) \in Nat /\ Len(pipe) \in Nat \ {0} /\ Len(returned) \in Nat
      /\ BufferSize \in Nat /\ n <= BufferSize /\ Head(pipe) = pipe[1] /\ reader = "reading"
  BY DEF Inv, TypeOK, Entry, SizesAssumption, ReadFinishes
<1>2. /\ returnBuffer' = r /\ returned' = Append(returned, r) /\ pipe' = Tail(pipe)
      /\ totalBytesRead' = totalBytesRead + n /\ reader' = "idle" /\ UNCHANGED <<writer, written>>
  BY <1>1 DEF ReadFinishes
<1>3. /\ r \in Seq(Nat) /\ Len(r) = totalBytesRead + n
      /\ \A j \in 1 .. totalBytesRead : r[j] = returnBuffer[j]
      /\ \A j \in 1 .. n : r[totalBytesRead + j] = pipe[1][j]
  <2>1. totalBytesRead + n <= Len(returnBuffer) /\ totalBytesRead + n \in Nat
    BY <1>1 DEF Inv, RoomLeft
  <2>2. n <= Len(pipe[1]) /\ totalBytesRead + n <= totalBytesRead + n
    BY <1>1, <2>1
  <2>3. TypeOK /\ pipe # <<>> /\ n \in Nat
    BY <1>1 DEF Inv
  <2> HIDE DEF n
  <2> QED
    BY <2>1, <2>2, <2>3, FillResize
<1> HIDE DEF r
<1>4. /\ Len(written) = Len(returned) + Len(pipe)
      /\ \A k \in 2 .. Len(pipe) : pipe[k] = written[Len(returned) + k].data
  BY <1>1 DEF Inv, WaitingWhole
<1>5. r = Current
  <2>1. Current \in Seq(Nat)
    <3>1. Len(returned) + 1 \in 1 .. Len(written)
      BY <1>1, <1>4
    <3>2. written[Len(returned) + 1] \in Entry
      BY <1>1, <3>1
    <3> QED
      BY <3>2 DEF Current, Entry
  <2>2. Cursor = totalBytesRead /\ Len(Current) = totalBytesRead + n
    BY <1>1 DEF Inv, CurrentCut, Cursor
  <2>3. ASSUME NEW j \in 1 .. totalBytesRead + n PROVE r[j] = Current[j]
    <3>1. CASE j <= totalBytesRead
      BY <1>1, <1>3, <2>2, <3>1 DEF Inv, CurrentCut
    <3>2. CASE j > totalBytesRead
      <4>1. j - totalBytesRead \in 1 .. n /\ totalBytesRead + (j - totalBytesRead) = j
        BY <1>1, <3>2
      <4>2. r[j] = pipe[1][j - totalBytesRead]
        BY <1>3, <4>1
      <4>3. pipe[1][j - totalBytesRead] = Current[Cursor + (j - totalBytesRead)]
        BY <1>1, <4>1 DEF Inv, CurrentCut
      <4> QED
        BY <2>2, <4>1, <4>2, <4>3
    <3> QED
      BY <1>1, <3>1, <3>2
  <2> QED
    BY <1>3, <2>1, <2>2, <2>3
<1>6. /\ returned' \in Seq(Seq(Nat)) /\ Len(returned') = Len(returned) + 1
      /\ \A k \in 1 .. Len(returned) : returned'[k] = returned[k]
      /\ returned'[Len(returned) + 1] = Current
      /\ pipe' \in Seq(Seq(Nat)) /\ Len(pipe') = Len(pipe) - 1
      /\ \A k \in 1 .. Len(pipe) - 1 : pipe'[k] = pipe[k + 1]
  BY <1>1, <1>2, <1>3, <1>5
<1>7. TypeOK'
  BY <1>1, <1>2, <1>3, <1>6 DEF Inv, TypeOK
<1>8. ReturnedWhole'
  <2>1. Len(returned') <= Len(written')
    BY <1>1, <1>2, <1>4, <1>6
  <2>2. ASSUME NEW k \in 1 .. Len(returned') PROVE returned'[k] = written'[k].data
    BY <1>1, <1>2, <1>6 DEF Inv, ReturnedWhole, Current
  <2> QED
    BY <2>1, <2>2 DEF ReturnedWhole
<1>9. WaitingWhole'
  <2>1. Len(written') = Len(returned') + Len(pipe')
    BY <1>1, <1>2, <1>4, <1>6
  <2>2. /\ Len(pipe) \in Nat \ {0} /\ Len(returned) \in Nat
        /\ Len(pipe') = Len(pipe) - 1 /\ Len(returned') = Len(returned) + 1
    BY <1>1, <1>6
  <2>3. ASSUME NEW k \in 2 .. Len(pipe') PROVE pipe'[k] = written'[Len(returned') + k].data
    <3>1. k + 1 \in 2 .. Len(pipe) /\ k \in 1 .. Len(pipe) - 1
          /\ Len(returned) + (k + 1) = Len(returned') + k
      BY <2>2
    <3>2. pipe'[k] = pipe[k + 1] /\ pipe[k + 1] = written[Len(returned) + (k + 1)].data
      BY <1>4, <1>6, <3>1
    <3> QED
      BY <1>2, <3>1, <3>2
  <2> QED
    BY <2>1, <2>3 DEF WaitingWhole
<1>10. CurrentCut'
  <2>1. Cursor' = 0
    BY <1>2 DEF Cursor
  <2>2. ASSUME pipe' # <<>> PROVE pipe'[1] = Current' /\ Len(pipe'[1]) \in Nat
    <3>1. 2 \in 2 .. Len(pipe) /\ Len(returned) + 2 = Len(returned') + 1
      BY <1>1, <1>6, <2>2
    <3>2. pipe'[1] = pipe[2] /\ pipe[2] \in Seq(Nat)
      BY <1>1, <1>6, <3>1
    <3> QED
      BY <1>2, <1>4, <3>1, <3>2 DEF Current
  <2> QED
    BY <2>1, <2>2 DEF CurrentCut
<1>11. RoomLeft' /\ TwoForms'
  BY <1>2 DEF Inv, RoomLeft, TwoForms, WithHeader, Zeros
<1> QED
  BY <1>7, <1>8, <1>9, <1>10, <1>11 DEF Inv

(* What one ReadFile leaves of a message.                                   *)
LEMMA RestOf ==
  ASSUME NEW s \in Seq(Nat), NEW b \in Nat, b <= Len(s)
  PROVE  LET rest == SubSeq(s, b + 1, Len(s)) IN
         /\ rest \in Seq(Nat) /\ Len(rest) = Len(s) - b
         /\ \A j \in 1 .. Len(rest) : rest[j] = s[b + j]
<1> DEFINE rest == SubSeq(s, b + 1, Len(s))
<1>1. Len(s) \in Nat
  OBVIOUS
<1>2. rest \in Seq(Nat) /\ Len(rest) = Len(s) - b
  BY <1>1
<1>3. ASSUME NEW j \in 1 .. Len(s) - b PROVE rest[j] = s[b + j]
  BY <1>1
<1> QED
  BY <1>2, <1>3

(* ERROR_MORE_DATA: the cursor moves on by a bufferful, in a buffer that    *)
(* has grown by as much.                                                    *)
LEMMA MoreDataInv ==
  ASSUME SizesAssumption, Inv, ReadMoreData
  PROVE  Inv'
<1> DEFINE r == Resize(Fill(BufferSize), Len(returnBuffer) + BufferSize)
           rest == SubSeq(pipe[1], BufferSize + 1, Len(pipe[1]))
<1>1. /\ written \in Seq(Entry) /\ pipe \in Seq(Seq(Nat)) /\ returned \in Seq(Seq(Nat))
      /\ totalBytesRead \in Nat /\ pipe # <<>> /\ pipe[1] \in Seq(Nat) /\ Len(pipe[1]) \in Nat
      /\ Len(written) \in Nat /\ Len(pipe) \in Nat \ {0} /\ Len(returned) \in Nat
      /\ BufferSize \in Nat \ {0} /\ Len(pipe[1]) > BufferSize /\ Head(pipe) = pipe[1]
      /\ reader = "reading"
  <2>1. /\ written \in Seq(Entry) /\ pipe \in Seq(Seq(Nat)) /\ returned \in Seq(Seq(Nat))
        /\ totalBytesRead \in Nat /\ pipe # <<>> /\ BufferSize \in Nat \ {0}
        /\ reader = "reading" /\ Len(Head(pipe)) > BufferSize
    BY DEF Inv, TypeOK, Entry, SizesAssumption, ReadMoreData
  <2>2. /\ pipe[1] \in Seq(Nat) /\ Head(pipe) = pipe[1]
        /\ Len(written) \in Nat /\ Len(pipe) \in Nat \ {0} /\ Len(returned) \in Nat
    BY <2>1
  <2>3. Len(pipe[1]) \in Nat
    BY <2>2
  <2> QED
    BY <2>1, <2>2, <2>3
<1>2. /\ returnBuffer' = r /\ pipe' = <<rest>> \o Tail(pipe)
      /\ totalBytesRead' = totalBytesRead + BufferSize
      /\ UNCHANGED <<writer, written, reader, returned>>
  BY <1>1 DEF ReadMoreData
<1>3. Len(returnBuffer) = totalBytesRead + BufferSize /\ Len(returnBuffer) \in Nat
  BY <1>1 DEF Inv, RoomLeft
<1>4. /\ r \in Seq(Nat) /\ Len(r) = Len(returnBuffer) + BufferSize
      /\ \A j \in 1 .. totalBytesRead : r[j] = returnBuffer[j]
      /\ \A j \in 1 .. BufferSize : r[totalBytesRead + j] = pipe[1][j]
  <2>1. /\ totalBytesRead + BufferSize <= Len(returnBuffer) /\ BufferSize \in Nat
        /\ totalBytesRead + BufferSize <= Len(returnBuffer) + BufferSize
        /\ Len(returnBuffer) + BufferSize \in Nat /\ BufferSize <= Len(pipe[1])
    BY <1>1, <1>3
  <2>2. TypeOK /\ pipe # <<>>
    BY <1>1 DEF Inv
  <2> QED
    BY <2>1, <2>2, FillResize
<1>5. /\ rest \in Seq(Nat) /\ Len(rest) = Len(pipe[1]) - BufferSize
      /\ \A j \in 1 .. Len(rest) : rest[j] = pipe[1][BufferSize + j]
  <2>1. pipe[1] \in Seq(Nat) /\ BufferSize \in Nat /\ BufferSize <= Len(pipe[1])
    BY <1>1
  <2> QED
    BY <2>1, RestOf, Zenon
<1> HIDE DEF r, rest
<1>6. /\ pipe' \in Seq(Seq(Nat)) /\ Len(pipe') = Len(pipe) /\ pipe' # <<>> /\ pipe'[1] = rest
      /\ \A k \in 2 .. Len(pipe) : pipe'[k] = pipe[k]
  <2>1. Tail(pipe) \in Seq(Seq(Nat)) /\ Len(Tail(pipe)) = Len(pipe) - 1
        /\ \A k \in 1 .. Len(pipe) - 1 : Tail(pipe)[k] = pipe[k + 1]
    BY <1>1
  <2>2. <<rest>> \in Seq(Seq(Nat)) /\ Len(<<rest>>) = 1 /\ <<rest>>[1] = rest
    BY <1>5
  <2>3. /\ pipe' \in Seq(Seq(Nat)) /\ Len(pipe') = 1 + Len(Tail(pipe)) /\ pipe'[1] = rest
        /\ \A k \in 2 .. Len(pipe) : pipe'[k] = Tail(pipe)[k - 1]
    BY <1>1, <1>2, <2>1, <2>2
  <2>4. ASSUME NEW k \in 2 .. Len(pipe) PROVE pipe'[k] = pipe[k]
    <3>1. k - 1 \in 1 .. Len(pipe) - 1 /\ (k - 1) + 1 = k
      BY <1>1
    <3> QED
      BY <2>1, <2>3, <3>1
  <2> QED
    BY <1>1, <2>1, <2>3, <2>4
<1>7. TypeOK'
  BY <1>1, <1>2, <1>4, <1>6 DEF Inv, TypeOK
<1>8. ReturnedWhole' /\ WaitingWhole'
  BY <1>1, <1>2, <1>6 DEF Inv, ReturnedWhole, WaitingWhole
<1>9. CurrentCut'
  <2>1. Current' = Current /\ Cursor' = totalBytesRead + BufferSize /\ Cursor = totalBytesRead
    BY <1>1, <1>2 DEF Current, Cursor
  <2>2. /\ Len(Current) = totalBytesRead + Len(pipe[1])
        /\ \A j \in 1 .. Len(pipe[1]) : pipe[1][j] = Current[totalBytesRead + j]
        /\ \A j \in 1 .. totalBytesRead : returnBuffer[j] = Current[j]
    BY <1>1, <2>1 DEF Inv, CurrentCut
  <2>3. Len(Current') = Cursor' + Len(pipe'[1])
    <3>1. /\ totalBytesRead \in Nat /\ BufferSize \in Nat /\ Len(pipe[1]) \in Nat
          /\ pipe'[1] = rest /\ Len(rest) = Len(pipe[1]) - BufferSize
      BY <1>1, <1>5, <1>6
    <3>2. Len(Current') = totalBytesRead + Len(pipe[1])
      BY <2>1, <2>2
    <3>3. Cursor' = totalBytesRead + BufferSize /\ Len(pipe'[1]) = Len(pipe[1]) - BufferSize
      BY <2>1, <3>1
    <3>4. \A t, b, l \in Nat : t + l = (t + b) + (l - b)
      OBVIOUS
    <3>5. totalBytesRead + Len(pipe[1]) = (totalBytesRead + BufferSize) + (Len(pipe[1]) - BufferSize)
      BY <3>1, <3>4
    <3> QED
      BY <3>2, <3>3, <3>5
  <2>4. ASSUME NEW j \in 1 .. Len(rest) PROVE rest[j] = Current[(totalBytesRead + BufferSize) + j]
    <3>1. BufferSize + j \in 1 .. Len(pipe[1])
          /\ totalBytesRead + (BufferSize + j) = (totalBytesRead + BufferSize) + j
      BY <1>1, <1>5
    <3> QED
      BY <1>5, <2>2, <3>1
  <2>5. ASSUME NEW j \in 1 .. totalBytesRead + BufferSize PROVE r[j] = Current[j]
    <3>1. CASE j <= totalBytesRead
      <4>1. j \in 1 .. totalBytesRead
        BY <1>1, <3>1
      <4> QED
        BY <1>4, <2>2, <4>1
    <3>2. CASE j > totalBytesRead
      <4>1. /\ j - totalBytesRead \in 1 .. BufferSize /\ j - totalBytesRead \in 1 .. Len(pipe[1])
            /\ totalBytesRead + (j - totalBytesRead) = j
        BY <1>1, <3>2
      <4> QED
        BY <1>4, <2>2, <4>1
    <3> QED
      BY <1>1, <3>1, <3>2
  <2> QED
    BY <1>2, <1>6, <2>1, <2>3, <2>4, <2>5 DEF CurrentCut
<1>10. RoomLeft'
  BY <1>1, <1>2, <1>3, <1>4 DEF RoomLeft
<1>11. TwoForms'
  BY <1>2 DEF Inv, TwoForms, WithHeader, Zeros
<1> QED
  BY <1>7, <1>8, <1>9, <1>10, <1>11 DEF Inv

-----------------------------------------------------------------------------
(* When a write returns, and whether it fails, does not matter to the       *)
(* messages: the quota is left out.                                         *)
WriterMoves == writer' \in {"idle", "closed"} /\ UNCHANGED <<written, pipe, readerVars>>

Moves == WriteMessage \/ WriterMoves \/ ReadPipe \/ ReadFile \/ ReaderCloses

LEMMA NextMoves == Next => Moves
BY DEF Next, Moves, WriterMoves, WriteReturns, WriteFails, WriterCloses

(* Every step of the writer and of the reader.                              *)
LEMMA StepInv ==
  ASSUME SizesAssumption, Inv, [Moves]_vars
  PROVE  Inv'
<1>1. CASE WriteMessage
  <2>1. PICK d \in Payloads : WritePipe(d, d) \/ WritePipe(d, WithHeader(d))
    BY <1>1 DEF WriteMessage
  <2>2. d \in Seq(Nat)
    BY DEF SizesAssumption
  <2> QED
    BY <2>1, <2>2, WriteInv
<1>3. CASE WriterMoves
  BY <1>3 DEF WriterMoves, Inv, TypeOK, ReturnedWhole, WaitingWhole, CurrentCut, Current,
              Cursor, RoomLeft, TwoForms, WithHeader, Zeros, readerVars
<1>4. CASE ReadPipe
  <2>1. /\ Zeros(BufferSize) \in Seq(Nat) /\ Len(Zeros(BufferSize)) = BufferSize
        /\ BufferSize \in Nat
    BY ZerosType DEF SizesAssumption
  <2>2. /\ reader = "idle" /\ reader' = "reading" /\ returnBuffer' = Zeros(BufferSize)
        /\ totalBytesRead' = 0 /\ UNCHANGED <<writer, written, pipe, returned>>
    BY <1>4 DEF ReadPipe
  <2>3. Cursor = 0 /\ Cursor' = 0 /\ Current' = Current
    BY <2>2 DEF Cursor, Current
  <2>4. TypeOK'
    BY <2>1, <2>2 DEF Inv, TypeOK
  <2>5. ReturnedWhole' /\ WaitingWhole' /\ RoomLeft'
    BY <2>1, <2>2 DEF Inv, ReturnedWhole, WaitingWhole, RoomLeft
  <2>6. CurrentCut'
    BY <2>2, <2>3 DEF Inv, CurrentCut
  <2>7. TwoForms'
    BY <2>2 DEF Inv, TwoForms, WithHeader, Zeros
  <2> QED
    BY <2>4, <2>5, <2>6, <2>7 DEF Inv
<1>5. CASE ReadFinishes
  BY <1>5, FinishInv
<1>6. CASE ReadMoreData
  BY <1>6, MoreDataInv
<1>7. CASE ReadFails \/ ReaderCloses
  BY <1>7 DEF ReadFails, ReaderCloses, Inv, TypeOK, ReturnedWhole, WaitingWhole, CurrentCut,
              RoomLeft, TwoForms, WithHeader, Zeros
<1>8. CASE UNCHANGED vars
  BY <1>8 DEF vars, Inv, TypeOK, ReturnedWhole, WaitingWhole, CurrentCut, Current, Cursor,
              RoomLeft, TwoForms, WithHeader, Zeros
<1> QED
  BY <1>1, <1>3, <1>4, <1>5, <1>6, <1>7, <1>8 DEF Moves, ReadFile

-----------------------------------------------------------------------------
(* A ReadFile asks for no more than the buffer has left.                    *)
LEMMA InBounds == SizesAssumption /\ Inv => ReadInBounds
BY DEF Inv, TypeOK, RoomLeft, ReadInBounds, SizesAssumption

(* What was returned, the message that is cut and those behind it are what  *)
(* was written.                                                             *)
LEMMA Whole ==
  ASSUME SizesAssumption, Inv
  PROVE  MessagesStayWhole
<1> SUFFICES ASSUME reader \in {"idle", "reading"}
             PROVE  returned \o (IF pipe = <<>> THEN <<>>
                                 ELSE <<Progress \o Head(pipe)>> \o Tail(pipe))
                    = [i \in DOMAIN written |-> written[i].data]
  BY DEF MessagesStayWhole
<1> DEFINE all == [i \in DOMAIN written |-> written[i].data]
<1>1. /\ written \in Seq(Entry) /\ pipe \in Seq(Seq(Nat)) /\ returned \in Seq(Seq(Nat))
      /\ returnBuffer \in Seq(Nat) /\ totalBytesRead \in Nat /\ BufferSize \in Nat
      /\ Len(written) \in Nat /\ Len(pipe) \in Nat /\ Len(returned) \in Nat
      /\ DOMAIN written = 1 .. Len(written)
  BY DEF Inv, TypeOK, Entry, SizesAssumption
<1>2. /\ Len(written) = Len(returned) + Len(pipe)
      /\ \A i \in 1 .. Len(returned) : returned[i] = written[i].data
      /\ \A k \in 2 .. Len(pipe) : pipe[k] = written[Len(returned) + k].data
  BY DEF Inv, ReturnedWhole, WaitingWhole
<1>3. all \in Seq(Seq(Nat)) /\ Len(all) = Len(written)
  <2>1. ASSUME NEW i \in 1 .. Len(written) PROVE written[i].data \in Seq(Nat)
    <3>1. written[i] \in Entry
      BY <1>1, ElementOfSeq
    <3> QED
      BY <3>1 DEF Entry
  <2>2. all \in [1 .. Len(written) -> Seq(Nat)]
    BY <1>1, <2>1
  <2> QED
    BY <1>1, <2>2
<1>4. CASE pipe = <<>>
  <2>1. Len(returned) = Len(written)
    BY <1>1, <1>2, <1>4
  <2>2. returned = all
    BY <1>1, <1>2, <1>3, <2>1
  <2>3. returned \o <<>> = returned
    BY <1>1
  <2> QED
    BY <1>4, <2>2, <2>3
<1>5. CASE pipe # <<>>
  <2> DEFINE cut == Progress \o Head(pipe)
             under == <<cut>> \o Tail(pipe)
  <2>1. /\ Head(pipe) = pipe[1] /\ pipe[1] \in Seq(Nat) /\ Len(pipe) \in Nat \ {0}
        /\ Tail(pipe) \in Seq(Seq(Nat)) /\ Len(Tail(pipe)) = Len(pipe) - 1
        /\ \A k \in 1 .. Len(pipe) - 1 : Tail(pipe)[k] = pipe[k + 1]
    BY <1>1, <1>5
  <2>2. /\ Progress \in Seq(Nat) /\ Len(Progress) = Cursor /\ Cursor \in Nat
        /\ \A j \in 1 .. Cursor : Progress[j] = returnBuffer[j]
    <3>1. CASE reader = "reading"
      <4>1. totalBytesRead <= Len(returnBuffer)
        BY <1>1, <3>1 DEF Inv, RoomLeft
      <4> QED
        BY <1>1, <3>1, <4>1 DEF Progress, Cursor
    <3>2. CASE reader # "reading"
      BY <3>2 DEF Progress, Cursor
    <3> QED
      BY <3>1, <3>2
  <2>3. /\ Len(Current) = Cursor + Len(pipe[1]) /\ Len(pipe[1]) \in Nat
        /\ \A j \in 1 .. Len(pipe[1]) : pipe[1][j] = Current[Cursor + j]
        /\ \A j \in 1 .. Cursor : returnBuffer[j] = Current[j]
    BY <1>5, <2>1 DEF Inv, CurrentCut
  <2>4. Current \in Seq(Nat) /\ Current = all[Len(returned) + 1]
    <3>1. Len(returned) + 1 \in 1 .. Len(written)
      BY <1>1, <1>2, <2>1
    <3>2. written[Len(returned) + 1] \in Entry
      BY <1>1, <3>1, ElementOfSeq
    <3>3. Len(returned) + 1 \in DOMAIN written
      BY <1>1, <3>1
    <3>4. all[Len(returned) + 1] = written[Len(returned) + 1].data
      BY <3>3
    <3> QED
      BY <3>2, <3>4 DEF Current, Entry
  <2>5. cut = Current
    <3>0. cut \in Seq(Nat) /\ Len(cut) = Len(Progress) + Len(pipe[1])
      <4>1. /\ Progress \in Seq(Nat) /\ pipe[1] \in Seq(Nat)
            /\ cut = Progress \o pipe[1]
        BY <2>1, <2>2
      <4> QED
        BY <4>1, ConcatProperties
    <3>1. cut \in Seq(Nat) /\ Len(cut) = Len(Current)
      BY <2>2, <2>3, <3>0
    <3>2. ASSUME NEW j \in 1 .. Len(Current) PROVE cut[j] = Current[j]
      <4>0. j \in 1 .. Cursor + Len(pipe[1])
            /\ cut[j] = IF j <= Cursor THEN Progress[j] ELSE pipe[1][j - Cursor]
        BY <2>1, <2>2, <2>3, ConcatProperties
      <4>1. CASE j <= Cursor
        <5>1. j \in 1 .. Cursor
          BY <2>2, <4>1
        <5>2. cut[j] = Progress[j]
          BY <4>0, <4>1
        <5> QED
          BY <2>2, <2>3, <5>1, <5>2
      <4>2. CASE j > Cursor
        <5>1. j - Cursor \in 1 .. Len(pipe[1]) /\ Cursor + (j - Cursor) = j
          BY <2>2, <2>3, <4>0, <4>2
        <5>2. cut[j] = pipe[1][j - Cursor]
          BY <2>2, <4>0, <4>2
        <5> QED
          BY <2>3, <5>1, <5>2
      <4> QED
        BY <2>2, <4>0, <4>1, <4>2
    <3> QED
      BY <2>4, <3>1, <3>2, SeqEqual
  <2> HIDE DEF cut
  <2>6. /\ under \in Seq(Seq(Nat)) /\ Len(under) = Len(pipe) /\ under[1] = Current
        /\ \A k \in 2 .. Len(pipe) : under[k] = pipe[k]
    <3>1. <<cut>> \in Seq(Seq(Nat)) /\ Len(<<cut>>) = 1 /\ <<cut>>[1] = Current
      BY <2>4, <2>5
    <3>2. /\ under \in Seq(Seq(Nat)) /\ Len(under) = 1 + Len(Tail(pipe)) /\ under[1] = Current
          /\ \A k \in 2 .. Len(pipe) : under[k] = Tail(pipe)[k - 1]
      BY <2>1, <3>1
    <3>3. ASSUME NEW k \in 2 .. Len(pipe) PROVE under[k] = pipe[k]
      <4>1. k - 1 \in 1 .. Len(pipe) - 1 /\ (k - 1) + 1 = k
        BY <2>1
      <4> QED
        BY <2>1, <3>2, <4>1
    <3> QED
      BY <2>1, <3>2, <3>3
  <2> HIDE DEF under
  <2>7. returned \o under \in Seq(Seq(Nat)) /\ Len(returned \o under) = Len(written)
    <3>1. returned \o under \in Seq(Seq(Nat)) /\ Len(returned \o under) = Len(returned) + Len(under)
      BY <1>1, <2>6, ConcatProperties
    <3> QED
      BY <1>2, <2>6, <3>1
  <2>8. ASSUME NEW i \in 1 .. Len(written) PROVE (returned \o under)[i] = all[i]
    <3>0. all[i] = written[i].data
      BY <1>1
    <3>1. CASE i <= Len(returned)
      <4>1. i \in 1 .. Len(returned)
        BY <1>1, <3>1
      <4>2. (returned \o under)[i] = returned[i]
        BY <1>1, <1>2, <2>6, <3>1, ConcatProperties
      <4> QED
        BY <1>2, <3>0, <4>1, <4>2
    <3>2. CASE i > Len(returned)
      <4>1. i - Len(returned) \in 1 .. Len(pipe) /\ Len(returned) + (i - Len(returned)) = i
        BY <1>1, <1>2, <3>2
      <4>2. (returned \o under)[i] = under[i - Len(returned)]
        <5>1. i \in 1 .. Len(returned) + Len(under) /\ ~(i <= Len(returned))
          BY <1>1, <1>2, <2>6, <3>2
        <5> QED
          BY <1>1, <2>6, <5>1, ConcatProperties
      <4>3. CASE i - Len(returned) = 1
        BY <2>4, <2>6, <4>1, <4>2, <4>3
      <4>4. CASE i - Len(returned) # 1
        <5>1. i - Len(returned) \in 2 .. Len(pipe)
          BY <1>1, <4>1, <4>4
        <5> QED
          BY <1>2, <2>6, <3>0, <4>1, <4>2, <5>1
      <4> QED
        BY <4>3, <4>4
    <3>3. i <= Len(returned) \/ i > Len(returned)
      <4>1. i \in Nat /\ Len(returned) \in Nat
        BY <1>1
      <4> QED
        BY <4>1
    <3> QED
      BY <3>1, <3>2, <3>3
  <2>9. returned \o under = all
    BY <1>3, <2>7, <2>8, SeqEqual
  <2> QED
    BY <1>5, <2>9 DEF under, cut
<1> QED
  BY <1>4, <1>5

(* The two parts of a concatenation.                                        *)
LEMMA ConcatCuts ==
  ASSUME NEW s \in Seq(Nat), NEW t \in Seq(Nat)
  PROVE  /\ SubSeq(s \o t, 1, Len(s)) = s
         /\ SubSeq(s \o t, Len(s) + 1, Len(s) + Len(t)) = t
<1> DEFINE c == s \o t
           a == SubSeq(c, 1, Len(s))
           b == SubSeq(c, Len(s) + 1, Len(s) + Len(t))
<1>1. /\ c \in Seq(Nat) /\ Len(c) = Len(s) + Len(t) /\ Len(s) \in Nat /\ Len(t) \in Nat
      /\ \A i \in 1 .. Len(s) + Len(t) : c[i] = IF i <= Len(s) THEN s[i] ELSE t[i - Len(s)]
  BY ConcatProperties, LenProperties
<1> HIDE DEF c
<1>2. \A i \in 1 .. Len(c) : c[i] \in Nat
  BY <1>1, ElementOfSeq
<1>3. a = s
  <2>1. \A i \in 1 .. Len(s) : c[i] \in Nat
    BY <1>1, <1>2
  <2>2. /\ a \in Seq(Nat) /\ Len(a) = (IF 1 <= Len(s) THEN Len(s) - 1 + 1 ELSE 0)
        /\ \A i \in 1 .. Len(s) - 1 + 1 : a[i] = c[1 + i - 1]
    BY <1>1, <2>1, SubSeqProperties
  <2> HIDE DEF a
  <2>3. Len(a) = Len(s)
    BY <1>1, <2>2
  <2>4. ASSUME NEW i \in 1 .. Len(s) PROVE a[i] = s[i]
    <3>1. 1 + i - 1 = i /\ i \in 1 .. Len(s) - 1 + 1 /\ i \in 1 .. Len(s) + Len(t) /\ i <= Len(s)
      BY <1>1
    <3> QED
      BY <1>1, <2>2, <3>1
  <2> QED
    BY <2>2, <2>3, <2>4, SeqEqual
<1>4. b = t
  <2> DEFINE m == Len(s) + 1
             n == Len(s) + Len(t)
  <2>0. m \in Int /\ n \in Int /\ n - m + 1 = Len(t) /\ (m <= n <=> Len(t) # 0)
    BY <1>1
  <2>1. \A i \in m .. n : c[i] \in Nat
    BY <1>1, <1>2
  <2> HIDE DEF m, n
  <2>2. /\ SubSeq(c, m, n) \in Seq(Nat)
        /\ Len(SubSeq(c, m, n)) = (IF m <= n THEN n - m + 1 ELSE 0)
        /\ \A i \in 1 .. n - m + 1 : SubSeq(c, m, n)[i] = c[m + i - 1]
    BY <2>0, <2>1, SubSeqProperties
  <2>3. Len(SubSeq(c, m, n)) = Len(t)
    BY <1>1, <2>0, <2>2
  <2>4. ASSUME NEW i \in 1 .. Len(t) PROVE SubSeq(c, m, n)[i] = t[i]
    <3>1. /\ m + i - 1 = Len(s) + i /\ Len(s) + i \in 1 .. Len(s) + Len(t)
          /\ ~(Len(s) + i <= Len(s)) /\ (Len(s) + i) - Len(s) = i
      BY <1>1 DEF m
    <3> QED
      BY <1>1, <2>0, <2>2, <3>1
  <2>5. SubSeq(c, m, n) = t
    BY <2>2, <2>3, <2>4, SeqEqual
  <2> QED
    BY <2>5 DEF m, n
<1> QED
  BY <1>3, <1>4 DEF c

(* Three parts, joined in either order.                                     *)
LEMMA ThreeParts ==
  ASSUME NEW s \in Seq(Nat), NEW t \in Seq(Nat), NEW u \in Seq(Nat)
  PROVE  (s \o t) \o u = s \o (t \o u)
<1>1. /\ s \o t \in Seq(Nat) /\ Len(s \o t) = Len(s) + Len(t)
      /\ t \o u \in Seq(Nat) /\ Len(t \o u) = Len(t) + Len(u)
      /\ (s \o t) \o u \in Seq(Nat) /\ s \o (t \o u) \in Seq(Nat)
  BY ConcatProperties
<1> QED
  BY <1>1

(* A message that was written with a header is taken apart behind it, and   *)
(* the payload comes first.                                                 *)
LEMMA HeaderComesBack ==
  ASSUME SizesAssumption, NEW d \in Seq(Nat)
  PROVE  LET r == ReadWithHeader(WithHeader(d)) IN r.header = Header /\ IsPrefix(d, r.data)
<1> DEFINE z == Zeros(Len(d))
           h == Len(Header)
           t == d \o z
           m == WithHeader(d)
           r == ReadWithHeader(m)
<1>0. Header \in Seq(Nat) /\ h \in Nat /\ Len(d) \in Nat
  BY LenProperties DEF SizesAssumption
<1>1. Header \in Seq(Nat) /\ z \in Seq(Nat) /\ h \in Nat /\ Len(d) \in Nat /\ Len(z) = Len(d)
  BY <1>0, ZerosType
<1>2. t \in Seq(Nat) /\ Len(t) = Len(d) + Len(d)
  <2> HIDE DEF z
  <2>1. t \in Seq(Nat) /\ Len(t) = Len(d) + Len(z)
    BY <1>1, ConcatProperties
  <2> QED
    BY <1>1, <2>1
<1>3. m = Header \o t
  <2>1. \A u \in Seq(Nat) : (Header \o d) \o u = Header \o (d \o u)
    BY <1>0, ThreeParts
  <2> QED
    BY <1>1, <2>1 DEF WithHeader
<1> HIDE DEF z, h, t, m
<1>4. m \in Seq(Nat) /\ Len(m) = h + Len(t)
  BY <1>1, <1>2, <1>3, ConcatProperties DEF h
<1>5. SubSeq(m, 1, h) = Header /\ SubSeq(m, h + 1, h + Len(t)) = t
  BY <1>1, <1>2, <1>3, ConcatCuts DEF h
<1>6. r.header = Header /\ r.data = t
  BY <1>1, <1>2, <1>4, <1>5 DEF ReadWithHeader, h
<1>7. SubSeq(t, 1, Len(d)) = d /\ SubSeq(d, 1, Len(d)) = d
  BY <1>1, ConcatCuts, SubSeqFull DEF t
<1>8. IsPrefix(d, t)
  BY <1>1, <1>2, <1>7 DEF IsPrefix
<1> QED
  BY <1>6, <1>8 DEF m

(* A call that returned a message with a header returned the header, and    *)
(* the payload behind it.                                                   *)
LEMMA HeaderKept ==
  ASSUME SizesAssumption, Inv
  PROVE  HeaderSurvives
<1> SUFFICES ASSUME NEW i \in DOMAIN returned, written[i].data # written[i].payload
             PROVE  LET r == ReadWithHeader(returned[i])
                    IN  r.header = Header /\ IsPrefix(written[i].payload, r.data)
  BY DEF HeaderSurvives
<1>1. i \in 1 .. Len(returned) /\ i \in 1 .. Len(written)
  BY DEF Inv, TypeOK, ReturnedWhole
<1>2. written[i].payload \in Seq(Nat)
  <2>1. written \in Seq(Entry)
    BY DEF Inv, TypeOK, Entry
  <2>2. written[i] \in Entry
    BY <1>1, <2>1, ElementOfSeq
  <2> QED
    BY <2>2 DEF Entry
<1>3. returned[i] = WithHeader(written[i].payload)
  BY <1>1 DEF Inv, ReturnedWhole, TwoForms
<1> QED
  BY <1>2, <1>3, HeaderComesBack

-----------------------------------------------------------------------------
(* The invariant holds of every behaviour.                                  *)
LEMMA InvCorrect == ASSUME SizesAssumption PROVE Spec => []Inv
<1>1. Init => Inv
  BY InitInv
<1>2. Inv /\ [Next]_vars => Inv'
  BY StepInv, NextMoves
<1> QED
  BY <1>1, <1>2, PTL DEF Spec

(* Every ReadFile of ReadPipe's loop is given bytes inside its buffer, for  *)
(* messages of any length.                                                  *)
THEOREM ReadsInBounds == ASSUME SizesAssumption PROVE Spec => []ReadInBounds
<1>1. Inv => ReadInBounds
  BY InBounds
<1> QED
  BY <1>1, InvCorrect, PTL

(* Messages are never merged, split, reordered or lost, for every size of   *)
(* buffer, quota and message.                                               *)
THEOREM MessagesWhole == ASSUME SizesAssumption PROVE Spec => []MessagesStayWhole
<1>1. Inv => MessagesStayWhole
  BY Whole
<1> QED
  BY <1>1, InvCorrect, PTL

(* A header written by WriteWithHeader is read back by ReadWithHeader, and  *)
(* the payload behind it.                                                   *)
THEOREM HeadersSurvive == ASSUME SizesAssumption PROVE Spec => []HeaderSurvives
<1>1. Inv => HeaderSurvives
  BY HeaderKept
<1> QED
  BY <1>1, InvCorrect, PTL

-----------------------------------------------------------------------------
(* Parent and Child, which pass a file over two anonymous pipes: whatever   *)
(* is killed or fails, what comes back is the file's beginning.             *)
CONSTANTS MaxFile, BUFSIZE
VARIABLES file, ppc, sent, pbuf, cpc, cbuf, wcout, cOk, holders, inherit, pipeIn, pipeOut,
          printed, abnormal

Child == INSTANCE RedirectedChild

childVars == <<file, ppc, sent, pbuf, cpc, cbuf, wcout, cOk, holders, inherit, pipeIn,
               pipeOut, printed, abnormal>>

(* What TransportProofs proves: FlattenSeq joins sequences into one, the     *)
(* last one last, and a set with 0 that grows by ones holds every number.   *)
FlattenLaw ==
    \A S : \A ss \in Seq(Seq(S)), x \in Seq(S) :
        /\ Child!FlattenSeq(<<>>) = <<>>
        /\ Child!FlattenSeq(ss) \in Seq(S)
        /\ Child!FlattenSeq(Append(ss, x)) = Child!FlattenSeq(ss) \o x

NatLaw == \A N \in SUBSET Nat : 0 \in N /\ (\A n \in N : n + 1 \in N) => N = Nat

SequenceLaws == FlattenLaw /\ NatLaw

(* Joining sequences, stated of any elements.                               *)
LEMMA Joined ==
    ASSUME NEW T, NEW a \in Seq(T), NEW b \in Seq(T), NEW x \in Seq(T)
    PROVE  /\ a \o b \in Seq(T) /\ (a \o b) \o x = a \o (b \o x)
           /\ a \o <<>> = a /\ <<>> \o a = a
BY ConcatAssociative

Regroup(a, b, c) == (a \o b) \o c = a \o (b \o c)
LEMMA Regroups == \A T : \A a, b, c \in Seq(T) : Regroup(a, b, c)
BY ConcatAssociative DEF Regroup

LEMMA Shifts ==
    ASSUME NEW T, NEW a \in Seq(T), NEW b \in Seq(T), NEW x \in Seq(T), b # <<>>
    PROVE  /\ Append(a, Head(b)) \o (Tail(b) \o x) = a \o (b \o x)
           /\ Head(b) \in T /\ Tail(b) \in Seq(T) /\ Len(Tail(b)) <= Len(b)
<1>1. Head(b) \in T /\ Tail(b) \in Seq(T) /\ Len(Tail(b)) <= Len(b) /\ <<Head(b)>> \in Seq(T)
  OBVIOUS
<1>2. Append(a, Head(b)) = a \o <<Head(b)>> /\ b = <<Head(b)>> \o Tail(b)
  BY <1>1
<1>3. PICK h \in Seq(T) : h = <<Head(b)>>
  BY <1>1
<1>4. PICK u \in Seq(T) : u = Tail(b)
  BY <1>1
<1>5. (a \o h) \o (u \o x) = a \o ((h \o u) \o x)
  <2>1. u \o x \in Seq(T) /\ (h \o u) \o x = h \o (u \o x)
    BY Joined
  <2>2. PICK y \in Seq(T) : y = u \o x
    BY <2>1
  <2>3. (a \o h) \o y = a \o (h \o y)
    <3>1. a \in Seq(T) /\ h \in Seq(T) /\ y \in Seq(T)
      BY <1>3, <2>1, <2>2, Zenon
    <3>2. Regroup(a, h, y)
      BY <3>1, Regroups, Zenon
    <3> QED
      BY <3>2, Zenon DEF Regroup
  <2> QED
    BY <2>1, <2>2, <2>3, Zenon
<1>6. Append(a, Head(b)) = a \o h /\ b = h \o u
  BY <1>2, <1>3, <1>4, Zenon
<1> QED
  BY <1>1, <1>4, <1>5, <1>6, Zenon

LEMMA AppendLast ==
    ASSUME NEW T, NEW a \in Seq(T), NEW b \in Seq(T), NEW e \in T
    PROVE  a \o Append(b, e) = Append(a \o b, e) /\ Append(b, e) \in Seq(T)
           /\ Len(Append(b, e)) = Len(b) + 1
OBVIOUS

LEMMA Beginning ==
    ASSUME NEW T, NEW a \in Seq(T), NEW b \in Seq(T), NEW s \in Seq(T)
    PROVE  /\ a \o b = s => Child!IsPrefix(a, s)
           /\ Child!IsPrefix(a \o b, s) => Child!IsPrefix(a, s)
<1>1. Len(a \o b) = Len(a) + Len(b) /\ \A i \in 1 .. Len(a) : (a \o b)[i] = a[i]
  OBVIOUS
<1>2. \A c, d \in Seq(T) :
        Child!IsPrefix(c, d) <=> Len(c) <= Len(d) /\ \A i \in 1 .. Len(c) : c[i] = d[i]
  <2> SUFFICES ASSUME NEW c \in Seq(T), NEW d \in Seq(T)
               PROVE  Child!IsPrefix(c, d) <=> Len(c) <= Len(d) /\ \A i \in 1 .. Len(c) : c[i] = d[i]
    OBVIOUS
  <2> DEFINE f == SubSeq(c, 1, Len(c))
             g == SubSeq(d, 1, Len(c))
  <2>1. Len(c) \in Nat /\ Len(d) \in Nat
    OBVIOUS
  <2>2. f \in Seq(T) /\ Len(f) = Len(c) /\ \A i \in 1 .. Len(c) : f[i] = c[i]
    BY <2>1
  <2>3. Len(c) <= Len(d) =>
          g \in Seq(T) /\ Len(g) = Len(c) /\ \A i \in 1 .. Len(c) : g[i] = d[i]
    BY <2>1
  <2>4. Child!IsPrefix(c, d) <=> Len(c) <= Len(d) /\ f = g
    BY DEF Child!IsPrefix
  <2> HIDE DEF f, g
  <2>5. f = g => \A i \in 1 .. Len(c) : f[i] = g[i]
    OBVIOUS
  <2>6. Len(c) <= Len(d) /\ (\A i \in 1 .. Len(c) : f[i] = g[i]) => f = g
    BY <2>2, <2>3, SeqEqual
  <2> QED
    BY <2>2, <2>3, <2>4, <2>5, <2>6
<1>3. a \o b \in Seq(T) /\ Len(a) \in Nat /\ Len(b) \in Nat
  OBVIOUS
<1>4. PICK ab \in Seq(T) : ab = a \o b
  BY <1>3
<1>5. Len(ab) = Len(a) + Len(b) /\ \A i \in 1 .. Len(a) : ab[i] = a[i]
  BY <1>1, <1>4, Zenon
<1>6. /\ ab = s => Child!IsPrefix(a, s)
      /\ Child!IsPrefix(ab, s) => Child!IsPrefix(a, s)
  BY <1>2, <1>3, <1>5
<1> QED
  BY <1>4, <1>6, Zenon

-----------------------------------------------------------------------------
(* Parent and Child.  Which process runs, and which holds what.             *)
ChildAlive == {"read", "write", "hello", "exit"}
ParentMakes == {"args", "makeOut", "hideOut", "makeIn", "hideIn", "spawn"}
HasHandle(p, e) == p \in holders[e]

ChildHoldersInv ==
    /\ ppc \in ParentMakes => cpc = "none"
    /\ ppc \in {"open", "readFile", "writePipe", "readPipe"} => cpc # "none"
    /\ \A e \in Child!Ends : HasHandle("child", e) <=> cpc \in ChildAlive /\ e \in {"inRd", "outWr"}
    /\ cpc # "none" /\ ppc # "gone" =>
         HasHandle("parent", "outRd") /\ ~HasHandle("parent", "inRd") /\ ~HasHandle("parent", "outWr")
    /\ ppc \in {"hideOut", "makeIn", "hideIn", "spawn"} => HasHandle("parent", "outRd")
    /\ ppc \in {"hideIn", "spawn", "open", "readFile", "writePipe"} => HasHandle("parent", "inWr")
    /\ ppc = "gone" => \A e \in Child!Ends : ~HasHandle("parent", e)
    /\ ppc \in {"args", "makeOut"} => inherit = {}
    /\ ppc = "hideOut" => inherit = {"outRd", "outWr"}
    /\ ppc = "makeIn" => inherit = {"outWr"}
    /\ ppc = "hideIn" => inherit = {"outWr", "inRd", "inWr"}
    /\ ppc = "spawn" => inherit = {"outWr", "inRd"}

(* What either process has in its hands, by its place.                      *)
ChildHandsInv ==
    /\ cpc = "none" => /\ printed = <<>> /\ pipeOut = <<>> /\ cbuf = <<>> /\ pipeIn = <<>>
                       /\ sent = 0
    /\ (pbuf = <<>> <=> ppc # "writePipe")
    /\ cpc # "gone" => (cbuf = <<>> <=> cpc # "write")
    /\ cpc = "hello" => wcout # <<>>
    /\ ppc # "gone" => cOk
    /\ ppc = "errorBox" => abnormal
    /\ ~abnormal /\ ppc = "readPipe" => sent = Len(file)
    /\ ~abnormal /\ cpc \in {"exit", "gone"} => ppc \in {"readPipe", "gone"}
    /\ ~abnormal /\ ppc = "gone" => cpc = "gone"

(* The file is what came back, what the child can still copy and what the   *)
(* parent has still to write, in this order.                                *)
CameBack == Child!FromFile(printed \o pipeOut)
LeftInFile == SubSeq(file, sent + 1, Len(file))
ChildUnitsInv ==
    /\ ppc # "gone" /\ cpc # "gone" => CameBack \o (cbuf \o (pipeIn \o (pbuf \o LeftInFile))) = file
    /\ ppc # "gone" => Child!IsPrefix(CameBack, file)
    /\ Child!IsPrefix(Child!FromFile(printed), file)
    /\ ~abnormal /\ cpc \in {"exit", "gone"} /\ ppc # "gone" => CameBack = file
    /\ ~abnormal /\ ppc = "gone" => Child!FromFile(printed) = file

-----------------------------------------------------------------------------
(* The units of a longer sequence.                                          *)
LEMMA FromFileAppend ==
    ASSUME SequenceLaws, NEW s \in Seq(Nat), NEW u \in Nat
    PROVE  /\ Child!FromFile(<<>>) = <<>> /\ Child!FromFile(s) \in Seq(Nat)
           /\ Child!FromFile(Append(s, u)) = IF u = Child!Text THEN Child!FromFile(s) ELSE Append(Child!FromFile(s), u)
<1> DEFINE T == Seq(Nat)
           Of(v) == IF v = Child!Text THEN <<>> ELSE <<v>>
           Parts(q) == [i \in DOMAIN q |-> Of(q[i])]
<1>1. \A v \in Nat : Of(v) \in T
  OBVIOUS
<1>2. \A q \in Seq(Nat) : Parts(q) \in Seq(T) /\ Len(Parts(q)) = Len(q) /\ DOMAIN Parts(q) = DOMAIN q
  <2> SUFFICES ASSUME NEW q \in Seq(Nat)
               PROVE  Parts(q) \in Seq(T) /\ Len(Parts(q)) = Len(q) /\ DOMAIN Parts(q) = DOMAIN q
    OBVIOUS
  <2>1. Len(q) \in Nat /\ DOMAIN q = 1 .. Len(q) /\ \A i \in DOMAIN q : q[i] \in Nat
    OBVIOUS
  <2>2. Parts(q) \in [1 .. Len(q) -> T]
    <3> HIDE DEF Of, T
    <3> QED
      BY <1>1, <2>1
  <2>3. PICK f : f = Parts(q)
    OBVIOUS
  <2>n. PICK n \in Nat : n = Len(q)
    BY <2>1
  <2>4. f \in Seq(T) /\ Len(f) = n /\ DOMAIN f = 1 .. n
    <3>1. f \in [1 .. n -> T]
      BY <2>2, <2>3, <2>n
    <3> HIDE DEF T
    <3> QED
      BY <3>1
  <2> HIDE DEF Parts, T
  <2> QED
    BY <2>1, <2>3, <2>n, <2>4
<1>3. Parts(<<>>) = <<>>
  <2>1. DOMAIN <<>> = {}
    OBVIOUS
  <2>2. Parts(<<>>) \in Seq(T) /\ Len(Parts(<<>>)) = Len(<<>>)
    <3>1. <<>> \in Seq(Nat)
      OBVIOUS
    <3> HIDE DEF Parts, T
    <3> QED
      BY <1>2, <3>1
  <2> HIDE DEF Parts, T
  <2> QED
    BY <2>2
<1>4. Append(s, u) \in Seq(Nat) /\ Len(Append(s, u)) = Len(s) + 1
      /\ \A i \in 1 .. Len(s) : Append(s, u)[i] = s[i]
      /\ Append(s, u)[Len(s) + 1] = u
  OBVIOUS
<1>5. Parts(Append(s, u)) = Append(Parts(s), Of(u))
  <2> DEFINE a == Append(s, u)
             p == Parts(s)
             r == Parts(a)
  <2>1. Len(s) \in Nat /\ DOMAIN s = 1 .. Len(s) /\ DOMAIN a = 1 .. Len(s) + 1
    BY <1>4
  <2>2. \A i \in 1 .. Len(s) : r[i] = p[i]
    <3> HIDE DEF Of
    <3> QED
      BY <1>4, <2>1
  <2>3. r[Len(s) + 1] = Of(u)
    <3> HIDE DEF Of
    <3> QED
      BY <1>4, <2>1
  <2>4. p \in Seq(T) /\ Len(p) = Len(s) /\ r \in Seq(T) /\ Len(r) = Len(s) + 1 /\ Of(u) \in T
    <3>1. a \in Seq(Nat) /\ Len(a) = Len(s) + 1
      BY <1>4
    <3> HIDE DEF Of, Parts, T, a
    <3> QED
      BY <1>1, <1>2, <3>1
  <2> HIDE DEF Of, Parts, T, a, p, r
  <2>5. r = Append(p, Of(u))
    BY <2>1, <2>2, <2>3, <2>4
  <2> QED
    BY <2>5 DEF a, p, r
<1>6. /\ Child!FlattenSeq(<<>>) = <<>> /\ Child!FlattenSeq(Parts(s)) \in Seq(Nat)
      /\ Child!FlattenSeq(Append(Parts(s), Of(u))) = Child!FlattenSeq(Parts(s)) \o Of(u)
  <2>1. Parts(s) \in Seq(Seq(Nat)) /\ Of(u) \in Seq(Nat)
    <3>1. Parts(s) \in Seq(T) /\ Of(u) \in T
      <4> HIDE DEF Of, Parts, T
      <4> QED
        BY <1>1, <1>2
    <3> HIDE DEF Of, Parts
    <3> QED
      BY <3>1
  <2> HIDE DEF Of, Parts, T
  <2> QED
    BY <2>1 DEF SequenceLaws, FlattenLaw
<1>7. \A q : Child!FromFile(q) = Child!FlattenSeq(Parts(q))
  BY DEF Child!FromFile
<1>8. Child!FromFile(<<>>) = <<>> /\ Child!FromFile(s) \in Seq(Nat)
  <2> HIDE DEF Of, Parts, T
  <2> QED
    BY <1>3, <1>6, <1>7
<1>9. Child!FromFile(Append(s, u)) = Child!FromFile(s) \o Of(u)
  <2> HIDE DEF Of, Parts, T
  <2> QED
    BY <1>5, <1>6, <1>7, Zenon
<1>10. \A q \in Seq(Nat) : q \o <<>> = q /\ q \o <<u>> = Append(q, u)
  OBVIOUS
<1> HIDE DEF Parts, T
<1> QED
  BY <1>8, <1>9, <1>10

LEMMA FromFileConcat ==
    ASSUME SequenceLaws, NEW s \in Seq(Nat), NEW q \in Seq(Nat)
    PROVE  Child!FromFile(s \o q) = Child!FromFile(s) \o Child!FromFile(q)
<1> DEFINE Says(r) == Child!FromFile(s \o r) = Child!FromFile(s) \o Child!FromFile(r)
           N == {n \in Nat : \A r \in Seq(Nat) : Len(r) = n => Says(r)}
<1>0. \A e, f \in Seq(Nat) : \A x \in Nat : e \o Append(f, x) = Append(e \o f, x)
  BY AppendLast
<1>a. \A f \in Seq(Nat) : \A x \in Nat :
        /\ Child!FromFile(f) \in Seq(Nat)
        /\ Child!FromFile(Append(f, x)) =
             IF x = Child!Text THEN Child!FromFile(f) ELSE Append(Child!FromFile(f), x)
  BY FromFileAppend
<1>1. 0 \in N
  <2> SUFFICES ASSUME NEW r \in Seq(Nat), Len(r) = 0 PROVE Says(r)
    OBVIOUS
  <2>1. r = <<>>
    OBVIOUS
  <2>2. Child!FromFile(<<>>) = <<>> /\ Child!FromFile(s) \in Seq(Nat)
    BY FromFileAppend
  <2>3. s \o <<>> = s /\ Child!FromFile(s) \o <<>> = Child!FromFile(s)
    BY <2>2, Joined
  <2> QED
    BY <2>1, <2>2, <2>3, Zenon
<1>2. ASSUME NEW n \in N PROVE n + 1 \in N
  <2>1. n \in Nat /\ \A r \in Seq(Nat) : Len(r) = n => Says(r)
    OBVIOUS
  <2>2. ASSUME NEW r \in Seq(Nat), Len(r) = n + 1 PROVE Says(r)
    <3>1. PICK f \in Seq(Nat), x \in Nat : r = Append(f, x) /\ Len(r) = Len(f) + 1
      <4>1. r # <<>>
        BY <2>1, <2>2
      <4>2. PICK f \in Seq(Nat), x \in Nat : r = Append(f, x)
        BY <4>1, SequenceEmptyOrAppend
      <4> QED
        BY <4>2, AppendLast
    <3>2. Len(f) = n
      BY <2>1, <2>2, <3>1
    <3>3. Child!FromFile(s \o f) = Child!FromFile(s) \o Child!FromFile(f)
      BY <2>1, <3>2
    <3>4. s \o r = Append(s \o f, x) /\ s \o f \in Seq(Nat)
      <4>1. s \o Append(f, x) = Append(s \o f, x)
        BY <3>1, <1>0, Zenon
      <4>2. s \o f \in Seq(Nat)
        BY Joined
      <4> QED
        BY <3>1, <4>1, <4>2, Zenon
    <3>5. Child!FromFile(f) \in Seq(Nat) /\ Child!FromFile(s) \in Seq(Nat)
      BY <3>1, <1>a, Zenon
    <3>6. Child!FromFile(s) \o Append(Child!FromFile(f), x)
            = Append(Child!FromFile(s) \o Child!FromFile(f), x)
      BY <3>1, <3>5, <1>0, Zenon
    <3>7. CASE x = Child!Text
      <4>1. Child!FromFile(s \o r) = Child!FromFile(s \o f) /\ Child!FromFile(r) = Child!FromFile(f)
        BY <3>1, <3>4, <3>7, <1>a, Zenon
      <4> QED
        BY <3>3, <4>1, Zenon
    <3>8. CASE x # Child!Text
      <4>1. /\ Child!FromFile(s \o r) = Append(Child!FromFile(s \o f), x)
            /\ Child!FromFile(r) = Append(Child!FromFile(f), x)
        BY <3>1, <3>4, <3>8, <1>a, Zenon
      <4> QED
        BY <3>3, <3>6, <4>1, Zenon
    <3> QED
      BY <3>7, <3>8
  <2> HIDE DEF Says
  <2> QED
    BY <2>1, <2>2
<1>3. N = Nat
  <2> HIDE DEF N
  <2>1. N \subseteq Nat
    BY DEF N
  <2> QED
    BY <1>1, <1>2, <2>1 DEF SequenceLaws, NatLaw
<1>4. Len(q) \in N
  BY <1>3
<1> QED
  BY <1>4

(* A block off the front of a pipe.                                         *)
LEMMA Block ==
    ASSUME Child!SizesAssumption, NEW T, NEW s \in Seq(T)
    PROVE  /\ Child!FirstUnits(s) \in Seq(T) /\ Child!OtherUnits(s) \in Seq(T)
           /\ Child!FirstUnits(s) \o Child!OtherUnits(s) = s
           /\ Len(Child!FirstUnits(s)) <= BUFSIZE /\ Len(Child!OtherUnits(s)) <= Len(s)
           /\ s # <<>> => Child!FirstUnits(s) # <<>>
<1>1. Len(s) \in Nat /\ BUFSIZE \in Nat \ {0}
  BY DEF Child!SizesAssumption
<1>2. CASE Len(s) <= BUFSIZE
  <2>1. SubSeq(s, 1, Len(s)) = s
    OBVIOUS
  <2>2. Child!FirstUnits(s) = s
    <3>1. (IF Len(s) < BUFSIZE THEN Len(s) ELSE BUFSIZE) = Len(s)
      BY <1>1, <1>2
    <3> QED
      BY <2>1, <3>1, Zenon DEF Child!FirstUnits
  <2>3. Child!OtherUnits(s) = <<>>
    BY <1>1, <1>2 DEF Child!OtherUnits
  <2> QED
    BY <1>1, <1>2, <2>2, <2>3, Joined
<1>3. CASE Len(s) > BUFSIZE
  <2>1. Child!FirstUnits(s) = SubSeq(s, 1, BUFSIZE)
    <3>1. (IF Len(s) < BUFSIZE THEN Len(s) ELSE BUFSIZE) = BUFSIZE
      BY <1>1, <1>3
    <3> QED
      BY <3>1, Zenon DEF Child!FirstUnits
  <2>2. PICK f, o : f = SubSeq(s, 1, BUFSIZE) /\ o = SubSeq(s, BUFSIZE + 1, Len(s))
    OBVIOUS
  <2>3. f \in Seq(T) /\ Len(f) = BUFSIZE /\ o \in Seq(T) /\ Len(o) = Len(s) - BUFSIZE
    BY <1>1, <1>3, <2>2
  <2>4. f \o o = s
    <3>1. /\ 1 \in 1 .. Len(s) + 1 /\ BUFSIZE \in 1 - 1 .. Len(s)
          /\ Len(s) \in BUFSIZE .. Len(s)
      BY <1>1, <1>3
    <3>2. SubSeq(s, 1, BUFSIZE) \o SubSeq(s, BUFSIZE + 1, Len(s)) = SubSeq(s, 1, Len(s))
      BY <3>1, ConcatAdjacentSubSeq
    <3> QED
      BY <2>2, <3>2, SubSeqFull, Zenon
  <2>5. Child!FirstUnits(s) = f /\ Child!OtherUnits(s) = o
    BY <2>1, <2>2, Zenon DEF Child!OtherUnits
  <2>6. s # <<>> => f # <<>>
    BY <1>1, <2>3
  <2>7. Len(f) <= BUFSIZE /\ Len(o) <= Len(s)
    BY <1>1, <1>3, <2>3
  <2> QED
    BY <2>3, <2>4, <2>5, <2>6, <2>7, Zenon
<1> QED
  BY <1>1, <1>2, <1>3

-----------------------------------------------------------------------------
(* Types: what is moved between the buffers are units of the file.          *)
LEMMA ChildUnits ==
    ASSUME Child!SizesAssumption
    PROVE  /\ Seq(1 .. MaxFile) \subseteq Seq(Nat) /\ Seq(0 .. MaxFile) \subseteq Seq(Nat)
           /\ Seq({Child!Text}) \subseteq Seq(0 .. MaxFile) /\ Seq(1 .. MaxFile) \subseteq Seq(0 .. MaxFile)
<1>1. /\ 1 .. MaxFile \subseteq Nat /\ 0 .. MaxFile \subseteq Nat
      /\ {Child!Text} \subseteq 0 .. MaxFile /\ 1 .. MaxFile \subseteq 0 .. MaxFile
  BY DEF Child!SizesAssumption, Child!Text
<1>2. \A A, B : A \subseteq B => Seq(A) \subseteq Seq(B)
  OBVIOUS
<1> QED
  BY <1>1, <1>2, Zenon

(* The two parts of Child!TypeOK: what is where, and the units.                   *)
ChildPlacesOK ==
    /\ ppc \in Child!Setup \union {"errorBox", "readFile", "writePipe", "readPipe", "gone"}
    /\ cpc \in {"none", "read", "write", "hello", "exit", "gone"}
    /\ cOk \in BOOLEAN /\ abnormal \in BOOLEAN
    /\ holders \in [Child!Ends -> SUBSET Child!Procs] /\ inherit \subseteq Child!Ends

ChildDataOK ==
    /\ file \in Seq(1 .. MaxFile) /\ sent \in 0 .. Len(file)
    /\ pbuf \in Seq(1 .. MaxFile) /\ cbuf \in Seq(1 .. MaxFile)
    /\ Len(pbuf) <= BUFSIZE /\ Len(cbuf) <= BUFSIZE
    /\ wcout \in Seq({Child!Text})
    /\ pipeIn \in Seq(1 .. MaxFile) /\ Len(pipeIn) <= PipeSize
    /\ pipeOut \in Seq(0 .. MaxFile) /\ Len(pipeOut) <= PipeSize
    /\ printed \in Seq(0 .. MaxFile)

LEMMA ChildTypeParts == Child!TypeOK <=> ChildPlacesOK /\ ChildDataOK
BY DEF Child!TypeOK, ChildPlacesOK, ChildDataOK

(* Which processes hold what: a step at a time.                             *)
LEMMA ChildHoldersStep ==
    ASSUME ChildPlacesOK, ChildHoldersInv, [Child!Next]_childVars
    PROVE  ChildPlacesOK' /\ ChildHoldersInv'
<1> USE DEF ChildPlacesOK, ChildHoldersInv, ChildAlive, ParentMakes, HasHandle, Child!Setup,
            Child!Ends, Child!Procs, Child!childVars, Child!parentVars
<1>1. CASE Child!CheckArgs \/ Child!OpenInput \/ Child!Fail
  BY <1>1 DEF Child!CheckArgs, Child!OpenInput, Child!Fail
<1>2. CASE Child!MakeOut
  BY <1>2 DEF Child!MakeOut, Child!CreatePipe
<1>3. CASE Child!MakeIn
  BY <1>3 DEF Child!MakeIn, Child!CreatePipe
<1>4. CASE Child!HideOut \/ Child!HideIn
  BY <1>4 DEF Child!HideOut, Child!HideIn, Child!ClearInherit
<1>5. CASE Child!CreateChildProcess
  BY <1>5 DEF Child!CreateChildProcess
<1>r. ASSUME NEW p \in Child!Procs, holders' = Child!Released(p)
      PROVE  /\ holders' \in [Child!Ends -> SUBSET Child!Procs]
             /\ \A e \in Child!Ends, q \in Child!Procs : q \in holders'[e] <=> q # p /\ q \in holders[e]
  BY <1>r DEF Child!Released
<1>6. CASE Child!ErrorExit \/ Child!EndOfOutput \/ Child!PrintFails
  <2>1. /\ ppc' = "gone" /\ holders' = Child!Released("parent") /\ UNCHANGED <<inherit, cpc, cOk>>
        /\ abnormal' \in BOOLEAN
    BY <1>6 DEF Child!ErrorExit, Child!EndOfOutput, Child!PrintFails
  <2>2. /\ holders' \in [Child!Ends -> SUBSET Child!Procs]
        /\ \A e \in Child!Ends, q \in Child!Procs : q \in holders'[e] <=> q # "parent" /\ q \in holders[e]
    BY <2>1, <1>r
  <2> QED
    BY <2>1, <2>2
<1>7. CASE Child!ReadInputBlock \/ Child!WriteToPipe \/ Child!ReadFromPipe
  BY <1>7 DEF Child!ReadInputBlock, Child!WriteToPipe, Child!ReadFromPipe
<1>8. CASE Child!EndOfInput \/ Child!WriteToPipeFails
  <2>1. /\ ppc \in {"readFile", "writePipe"} /\ ppc' = "readPipe"
        /\ holders' = [holders EXCEPT !["inWr"] = @ \ {"parent"}]
        /\ UNCHANGED <<inherit, cpc, cOk>> /\ abnormal' \in BOOLEAN
    BY <1>8 DEF Child!EndOfInput, Child!WriteToPipeFails, Child!CloseStdin
  <2>2. /\ holders' \in [Child!Ends -> SUBSET Child!Procs]
        /\ \A e \in Child!Ends, q \in Child!Procs :
              q \in holders'[e] <=> q \in holders[e] /\ ~(e = "inWr" /\ q = "parent")
    BY <2>1
  <2> QED
    BY <2>1, <2>2
<1>9. CASE Child!ChildReads \/ Child!ChildWrites \/ Child!ChildWriteFails \/ Child!ChildEndOfInput
  BY <1>9
     DEF Child!ChildReads, Child!ChildWrites, Child!ChildWriteFails, Child!ChildEndOfInput
<1>10. CASE Child!ChildHello \/ Child!ChildExit \/ Child!ChildKilled
  <2>1. /\ UNCHANGED <<ppc, inherit, cOk>> /\ abnormal' \in BOOLEAN /\ cpc \in ChildAlive
        /\ \/ cpc' = "gone" /\ holders' = Child!Released("child")
           \/ cpc' \in ChildAlive /\ holders' = holders
    BY <1>10 DEF Child!ChildHello, Child!ChildExit, Child!ChildKilled
  <2>2. CASE cpc' = "gone" /\ holders' = Child!Released("child")
    <3>1. /\ holders' \in [Child!Ends -> SUBSET Child!Procs]
          /\ \A e \in Child!Ends, q \in Child!Procs : q \in holders'[e] <=> q # "child" /\ q \in holders[e]
      BY <2>2, <1>r
    <3> QED
      BY <2>1, <2>2, <3>1
  <2>3. CASE cpc' \in ChildAlive /\ holders' = holders
    BY <2>1, <2>3
  <2> QED
    BY <2>1, <2>2, <2>3
<1>11. CASE UNCHANGED childVars
  BY <1>11 DEF childVars
<1> QED
  BY <1>1, <1>2, <1>3, <1>4, <1>5, <1>6, <1>7, <1>8, <1>9, <1>10, <1>11
     DEF Child!Next, Child!Prepare, Child!ChildStep

(* What the buffers and pipes hold: a step at a time.                       *)
LEMMA ChildDataStep ==
    ASSUME Child!SizesAssumption, ChildDataOK, ChildHandsInv, [Child!Next]_childVars
    PROVE  ChildDataOK'
<1> DEFINE D == 1 .. MaxFile
           A == 0 .. MaxFile
<1>t. /\ file \in Seq(D) /\ pbuf \in Seq(D) /\ cbuf \in Seq(D) /\ wcout \in Seq({Child!Text})
      /\ pipeIn \in Seq(D) /\ pipeOut \in Seq(A) /\ printed \in Seq(A)
      /\ Len(pipeIn) <= PipeSize /\ Len(pipeOut) <= PipeSize
      /\ Len(pbuf) <= BUFSIZE /\ Len(cbuf) <= BUFSIZE
      /\ sent \in Nat /\ sent <= Len(file) /\ Len(file) \in Nat
      /\ BUFSIZE \in Nat \ {0} /\ PipeSize \in Nat \ {0}
  BY DEF ChildDataOK, Child!SizesAssumption
<1>b. (\A x \in D : x \in A) /\ Child!Text \in A
  BY DEF Child!SizesAssumption, Child!Text
<1>d. ChildDataOK' <=>
        /\ file' \in Seq(D) /\ sent' \in 0 .. Len(file')
        /\ pbuf' \in Seq(D) /\ cbuf' \in Seq(D)
        /\ Len(pbuf') <= BUFSIZE /\ Len(cbuf') <= BUFSIZE
        /\ wcout' \in Seq({Child!Text})
        /\ pipeIn' \in Seq(D) /\ Len(pipeIn') <= PipeSize
        /\ pipeOut' \in Seq(A) /\ Len(pipeOut') <= PipeSize
        /\ printed' \in Seq(A)
  BY DEF ChildDataOK
<1> HIDE DEF D, A
<1>0. CASE UNCHANGED <<file, sent, pbuf, cbuf, wcout, pipeIn, pipeOut, printed>>
  BY <1>0, <1>t, <1>d
<1>1. CASE Child!Prepare \/ Child!Fail \/ Child!ErrorExit
  <2>1. CASE Child!CreateChildProcess
    <3>1. <<Child!Text>> \in Seq({Child!Text})
      OBVIOUS
    <3> QED
      BY <2>1, <3>1, <1>t, <1>d DEF Child!CreateChildProcess
  <2>2. CASE ~Child!CreateChildProcess
    BY <1>1, <2>2, <1>0
       DEF Child!Prepare, Child!Fail, Child!ErrorExit, Child!CheckArgs, Child!MakeOut,
       Child!MakeIn, Child!HideOut, Child!HideIn, Child!CreatePipe,
           Child!ClearInherit, Child!OpenInput, Child!childVars
  <2> QED
    BY <2>1, <2>2
<1>2. CASE Child!ReadInputBlock
  <2> DEFINE n == IF sent + BUFSIZE <= Len(file) THEN sent + BUFSIZE ELSE Len(file)
  <2>1. pbuf' = SubSeq(file, sent + 1, n) /\ sent' = n
        /\ UNCHANGED <<file, cbuf, wcout, pipeIn, pipeOut, printed>>
    BY <1>2 DEF Child!ReadInputBlock, Child!childVars
  <2>2. n \in Nat /\ sent <= n /\ n <= Len(file) /\ n - sent <= BUFSIZE
    BY <1>t
  <2>3. SubSeq(file, sent + 1, n) \in Seq(D) /\ Len(SubSeq(file, sent + 1, n)) <= BUFSIZE
    <3> HIDE DEF n
    <3> QED
      BY <2>2, <1>t, SubSeqProperties
  <2> HIDE DEF n
  <2> QED
    BY <2>1, <2>2, <2>3, <1>t, <1>d
<1>3. CASE Child!EndOfInput \/ Child!EndOfOutput \/ Child!ChildEndOfInput \/ Child!ChildKilled
  BY <1>3, <1>0
     DEF Child!EndOfInput, Child!EndOfOutput, Child!ChildEndOfInput, Child!ChildKilled,
         Child!childVars, Child!parentVars
<1>4. CASE Child!WriteToPipe
  <2>1. /\ Len(pipeIn) < PipeSize /\ pipeIn' = Append(pipeIn, Head(pbuf)) /\ pbuf' = Tail(pbuf)
        /\ pbuf # <<>> /\ UNCHANGED <<file, sent, cbuf, wcout, pipeOut, printed>>
    BY <1>4 DEF Child!WriteToPipe, Child!childVars, ChildHandsInv
  <2>2. Head(pbuf) \in D /\ Tail(pbuf) \in Seq(D) /\ Len(Tail(pbuf)) <= Len(pbuf)
    BY <2>1, <1>t
  <2>3. Append(pipeIn, Head(pbuf)) \in Seq(D) /\ Len(Append(pipeIn, Head(pbuf))) <= PipeSize
    BY <2>1, <2>2, <1>t
  <2> QED
    BY <2>1, <2>2, <2>3, <1>t, <1>d
<1>5. CASE Child!WriteToPipeFails
  BY <1>5, <1>t, <1>d DEF Child!WriteToPipeFails, Child!childVars
<1>6. CASE Child!ReadFromPipe \/ Child!PrintFails
  <2>1. /\ \/ printed' = printed \o Child!FirstUnits(pipeOut)
           \/ printed' = printed
        /\ pipeOut' = Child!OtherUnits(pipeOut)
        /\ UNCHANGED <<file, sent, pbuf, cbuf, wcout, pipeIn>>
    BY <1>6 DEF Child!ReadFromPipe, Child!PrintFails, Child!childVars
  <2>2. Child!FirstUnits(pipeOut) \in Seq(A) /\ Child!OtherUnits(pipeOut) \in Seq(A)
        /\ Len(Child!OtherUnits(pipeOut)) <= Len(pipeOut)
    BY <1>t, Block
  <2>3. printed \o Child!FirstUnits(pipeOut) \in Seq(A)
    BY <2>2, <1>t
  <2>4. Len(Child!OtherUnits(pipeOut)) <= PipeSize
    BY <2>2, <1>t
  <2>5. printed' \in Seq(A) /\ pipeOut' \in Seq(A) /\ Len(pipeOut') <= PipeSize
    BY <2>1, <2>2, <2>3, <2>4, <1>t, Zenon
  <2> QED
    BY <2>1, <2>5, <1>t, <1>d
<1>7. CASE Child!ChildReads
  <2>1. /\ cbuf' = Child!FirstUnits(pipeIn) /\ pipeIn' = Child!OtherUnits(pipeIn)
        /\ UNCHANGED <<file, sent, pbuf, wcout, pipeOut, printed>>
    BY <1>7 DEF Child!ChildReads, Child!parentVars
  <2>2. Child!FirstUnits(pipeIn) \in Seq(D) /\ Child!OtherUnits(pipeIn) \in Seq(D)
        /\ Len(Child!OtherUnits(pipeIn)) <= Len(pipeIn) /\ Len(Child!FirstUnits(pipeIn)) <= BUFSIZE
    BY <1>t, Block
  <2>3. Len(Child!OtherUnits(pipeIn)) <= PipeSize
    BY <2>2, <1>t
  <2> QED
    BY <2>1, <2>2, <2>3, <1>t, <1>d
<1>w. Append(wcout, Child!Text) \in Seq({Child!Text})
  BY <1>t
<1>8. CASE Child!ChildWrites
  <2>1. /\ Len(pipeOut) < PipeSize /\ pipeOut' = Append(pipeOut, Head(cbuf)) /\ cbuf' = Tail(cbuf)
        /\ wcout' \in {wcout, Append(wcout, Child!Text)} /\ cpc = "write"
        /\ UNCHANGED <<file, sent, pbuf, pipeIn, printed>>
    BY <1>8 DEF Child!ChildWrites, Child!parentVars
  <2>0. cbuf # <<>>
    BY <2>1 DEF ChildHandsInv
  <2>2. Head(cbuf) \in D /\ Tail(cbuf) \in Seq(D) /\ Len(Tail(cbuf)) <= Len(cbuf)
    BY <2>0, <1>t
  <2>3. Append(pipeOut, Head(cbuf)) \in Seq(A) /\ Len(Append(pipeOut, Head(cbuf))) <= PipeSize
    BY <2>1, <2>2, <1>b, <1>t
  <2>4. pipeOut' \in Seq(A) /\ Len(pipeOut') <= PipeSize /\ cbuf' \in Seq(D)
    BY <2>1, <2>2, <2>3, Zenon
  <2>5. Len(cbuf') <= BUFSIZE
    <3>1. Len(Tail(cbuf)) <= BUFSIZE
      BY <2>2, <1>t
    <3> QED
      BY <2>1, <3>1, Zenon
  <2>6. wcout' \in Seq({Child!Text})
    BY <2>1, <1>w, <1>t
  <2> QED
    BY <2>1, <2>4, <2>5, <2>6, <1>t, <1>d
<1>9. CASE Child!ChildWriteFails
  BY <1>9, <1>w, <1>t, <1>d DEF Child!ChildWriteFails, Child!parentVars
<1>10. ASSUME Child!Flush, UNCHANGED <<file, sent, pbuf, cbuf, pipeIn, printed>> PROVE ChildDataOK'
  <2>1. CASE /\ Len(pipeOut) < PipeSize /\ pipeOut' = Append(pipeOut, Head(wcout))
             /\ wcout' = Tail(wcout)
    <3>1. Head(wcout) = Child!Text /\ Tail(wcout) \in Seq({Child!Text})
      BY <1>10, <1>t DEF Child!Flush
    <3>2. Append(pipeOut, Child!Text) \in Seq(A) /\ Len(Append(pipeOut, Child!Text)) <= PipeSize
      BY <2>1, <1>b, <1>t
    <3> QED
      BY <2>1, <3>1, <3>2, <1>10, <1>t, <1>d
  <2>2. CASE wcout' = <<>> /\ UNCHANGED pipeOut
    BY <2>2, <1>10, <1>t, <1>d
  <2> QED
    BY <1>10, <2>1, <2>2 DEF Child!Flush
<1>11. CASE Child!ChildHello
  BY <1>11, <1>10 DEF Child!ChildHello, Child!parentVars
<1>12. CASE Child!ChildExit
  <2>1. /\ Child!Flush \/ UNCHANGED <<wcout, pipeOut>>
        /\ UNCHANGED <<file, sent, pbuf, cbuf, pipeIn, printed>>
    BY <1>12 DEF Child!ChildExit, Child!parentVars
  <2> QED
    BY <2>1, <1>10, <1>0
<1>13. CASE UNCHANGED childVars
  BY <1>13, <1>0 DEF childVars
<1> QED
  BY <1>1, <1>2, <1>3, <1>4, <1>5, <1>6, <1>7, <1>8, <1>9, <1>11, <1>12, <1>13
     DEF Child!Next, Child!ChildStep

(* What either process has in its hands, by its place: a step at a time.    *)
LEMMA ChildHandsStep ==
    ASSUME Child!SizesAssumption, ChildPlacesOK, ChildDataOK, ChildHoldersInv, ChildHandsInv, [Child!Next]_childVars
    PROVE  ChildHandsInv'
<1>t. /\ \A q \in Child!Ends : holders[q] \subseteq Child!Procs
      /\ pipeIn \in Seq(1 .. MaxFile) /\ wcout \in Seq({Child!Text}) /\ file \in Seq(1 .. MaxFile)
      /\ sent \in Nat /\ sent <= Len(file) /\ Len(file) \in Nat /\ BUFSIZE \in Nat \ {0}
  BY DEF ChildPlacesOK, ChildDataOK, Child!SizesAssumption
<1>a. Append(wcout, Child!Text) # <<>>
  BY <1>t
<1> USE DEF ChildHandsInv, ChildAlive, ParentMakes, HasHandle, ChildHoldersInv, Child!Setup,
            Child!childVars, Child!parentVars
<1>1. CASE Child!Prepare
  BY <1>1
     DEF Child!Prepare, Child!CheckArgs, Child!MakeOut, Child!MakeIn, Child!HideOut,
         Child!HideIn, Child!CreatePipe, Child!ClearInherit,
       Child!CreateChildProcess, Child!OpenInput
<1>2. CASE Child!Fail \/ Child!ErrorExit
  BY <1>2 DEF Child!Fail, Child!ErrorExit
<1>3. CASE Child!ReadInputBlock
  <2> DEFINE n == IF sent + BUFSIZE <= Len(file) THEN sent + BUFSIZE ELSE Len(file)
  <2>1. pbuf' = SubSeq(file, sent + 1, n) /\ sent < Len(file) /\ ppc = "readFile" /\ ppc' = "writePipe"
        /\ UNCHANGED <<file, cbuf, cpc, cOk, wcout, pipeIn, pipeOut, printed, abnormal>>
    BY <1>3 DEF Child!ReadInputBlock
  <2>2. Len(SubSeq(file, sent + 1, n)) > 0
    BY <2>1, <1>t
  <2>3. pbuf' # <<>>
    <3>1. PICK q : q = SubSeq(file, sent + 1, n)
      OBVIOUS
    <3>2. Len(q) > 0
      BY <2>2, <3>1
    <3>3. q # <<>>
      BY <3>2
    <3> QED
      BY <2>1, <3>1, <3>3, Zenon
  <2> QED
    BY <2>1, <2>3
<1>4. CASE Child!EndOfInput \/ Child!EndOfOutput \/ Child!ChildEndOfInput \/ Child!ChildKilled
  <2>0. abnormal \in BOOLEAN
    BY DEF ChildPlacesOK
  <2>1. CASE Child!EndOfInput
    <3>1. ~abnormal' => ~abnormal /\ sent' = Len(file')
      <4>1. abnormal' = (abnormal \/ sent < Len(file)) /\ UNCHANGED <<sent, file>>
        BY <2>1 DEF Child!EndOfInput
      <4>2. ~abnormal' => ~abnormal /\ ~(sent < Len(file))
        BY <4>1, Zenon
      <4>3. ~(sent < Len(file)) => sent = Len(file)
        BY <1>t
      <4> QED
        BY <4>1, <4>2, <4>3, Zenon
    <3> QED
      BY <2>1, <3>1 DEF Child!EndOfInput, Child!CloseStdin
  <2>2. CASE Child!EndOfOutput
    <3>1. cpc = "gone"
      BY <2>2 DEF Child!EndOfOutput, Child!Ends, ChildPlacesOK
    <3> QED
      BY <2>2, <3>1 DEF Child!EndOfOutput
  <2>3. CASE Child!ChildEndOfInput
    <3>1. ppc \in {"readPipe", "gone", "errorBox"}
      BY <2>3 DEF Child!ChildEndOfInput, Child!Ends, ChildPlacesOK
    <3> QED
      BY <2>3, <3>1 DEF Child!ChildEndOfInput
  <2>4. CASE Child!ChildKilled
    BY <2>4 DEF Child!ChildKilled
  <2> QED
    BY <1>4, <2>1, <2>2, <2>3, <2>4
<1>5. CASE Child!WriteToPipe \/ Child!WriteToPipeFails
  BY <1>5 DEF Child!WriteToPipe, Child!WriteToPipeFails, Child!CloseStdin
<1>6. CASE Child!ReadFromPipe \/ Child!PrintFails
  BY <1>6 DEF Child!ReadFromPipe, Child!PrintFails
<1>7. CASE Child!ChildReads
  <2>1. Child!FirstUnits(pipeIn) # <<>>
    BY <1>7, <1>t, Block DEF Child!ChildReads
  <2> QED
    BY <1>7, <2>1 DEF Child!ChildReads
<1>8. CASE Child!ChildWrites
  BY <1>8, <1>a DEF Child!ChildWrites
<1>9. CASE Child!ChildWriteFails
  BY <1>9, <1>a, <1>t DEF Child!ChildWriteFails, Child!Ends
<1>10. CASE Child!ChildHello \/ Child!ChildExit
  BY <1>10 DEF Child!ChildHello, Child!ChildExit
<1>11. CASE UNCHANGED childVars
  BY <1>11 DEF childVars
<1> QED
  BY <1>1, <1>2, <1>3, <1>4, <1>5, <1>6, <1>7, <1>8, <1>9, <1>10, <1>11
     DEF Child!Next, Child!ChildStep

(* The units stay in order: a step at a time.  In this lemma the parts are  *)
(* sequences of numbers.                                                    *)
LEMMA ChildParts ==
    ASSUME SequenceLaws, Child!SizesAssumption, ChildDataOK
    PROVE  /\ file \in Seq(Nat) /\ pbuf \in Seq(Nat) /\ cbuf \in Seq(Nat) /\ pipeIn \in Seq(Nat)
           /\ pipeOut \in Seq(Nat) /\ printed \in Seq(Nat) /\ wcout \in Seq({Child!Text})
           /\ CameBack \in Seq(Nat) /\ LeftInFile \in Seq(Nat) /\ Child!FromFile(printed) \in Seq(Nat)
           /\ CameBack = Child!FromFile(printed) \o Child!FromFile(pipeOut)
           /\ sent \in Nat /\ sent <= Len(file) /\ Len(file) \in Nat
<1>1. /\ file \in Seq(1 .. MaxFile) /\ pbuf \in Seq(1 .. MaxFile) /\ cbuf \in Seq(1 .. MaxFile)
      /\ pipeIn \in Seq(1 .. MaxFile) /\ pipeOut \in Seq(0 .. MaxFile)
      /\ printed \in Seq(0 .. MaxFile) /\ wcout \in Seq({Child!Text}) /\ sent \in 0 .. Len(file)
  BY DEF ChildDataOK
<1>2. /\ file \in Seq(Nat) /\ pbuf \in Seq(Nat) /\ cbuf \in Seq(Nat) /\ pipeIn \in Seq(Nat)
      /\ pipeOut \in Seq(Nat) /\ printed \in Seq(Nat)
  BY <1>1, ChildUnits, Zenon
<1>3. sent \in Nat /\ sent <= Len(file) /\ Len(file) \in Nat
  BY <1>1, <1>2
<1>4. LeftInFile \in Seq(Nat)
  BY <1>2, <1>3 DEF LeftInFile
<1>5. /\ Child!FromFile(printed) \in Seq(Nat) /\ Child!FromFile(pipeOut) \in Seq(Nat)
      /\ CameBack = Child!FromFile(printed) \o Child!FromFile(pipeOut)
  BY <1>2, FromFileAppend, FromFileConcat DEF CameBack
<1>6. CameBack \in Seq(Nat)
  BY <1>5, Joined
<1> QED
  BY <1>1, <1>2, <1>3, <1>4, <1>5, <1>6, Zenon

LEMMA ChildUnitsStep ==
    ASSUME SequenceLaws, Child!SizesAssumption, ChildPlacesOK, ChildDataOK, ChildHoldersInv, ChildHandsInv, ChildUnitsInv, [Child!Next]_childVars
    PROVE  ChildUnitsInv'
<1> DEFINE InOrder == CameBack \o (cbuf \o (pipeIn \o (pbuf \o LeftInFile)))
<1>u. ChildUnitsInv <=>
        /\ ppc # "gone" /\ cpc # "gone" => InOrder = file
        /\ ppc # "gone" => Child!IsPrefix(CameBack, file)
        /\ Child!IsPrefix(Child!FromFile(printed), file)
        /\ ~abnormal /\ cpc \in {"exit", "gone"} /\ ppc # "gone" => CameBack = file
        /\ ~abnormal /\ ppc = "gone" => Child!FromFile(printed) = file
  BY DEF ChildUnitsInv
<1>v. ChildUnitsInv' <=>
        /\ ppc' # "gone" /\ cpc' # "gone" => InOrder' = file'
        /\ ppc' # "gone" => Child!IsPrefix(CameBack', file')
        /\ Child!IsPrefix(Child!FromFile(printed'), file')
        /\ ~abnormal' /\ cpc' \in {"exit", "gone"} /\ ppc' # "gone" => CameBack' = file'
        /\ ~abnormal' /\ ppc' = "gone" => Child!FromFile(printed') = file'
  BY DEF ChildUnitsInv
<1>t. /\ file \in Seq(Nat) /\ pbuf \in Seq(Nat) /\ cbuf \in Seq(Nat) /\ pipeIn \in Seq(Nat)
      /\ pipeOut \in Seq(Nat) /\ printed \in Seq(Nat) /\ wcout \in Seq({Child!Text})
      /\ CameBack \in Seq(Nat) /\ LeftInFile \in Seq(Nat) /\ Child!FromFile(printed) \in Seq(Nat)
      /\ CameBack = Child!FromFile(printed) \o Child!FromFile(pipeOut)
      /\ sent \in Nat /\ sent <= Len(file) /\ Len(file) \in Nat
  BY ChildParts
<1>b. /\ (UNCHANGED <<printed, pipeOut>> => UNCHANGED CameBack)
      /\ (UNCHANGED <<file, sent>> => UNCHANGED LeftInFile)
      /\ (UNCHANGED <<printed, pipeOut, file, sent, pbuf, cbuf, pipeIn>> => UNCHANGED InOrder)
  BY DEF CameBack, LeftInFile
<1> HIDE DEF InOrder
(* Steps that move no unit.                                                 *)
<1>0. ASSUME UNCHANGED <<printed, pipeOut, file, sent, pbuf, cbuf, pipeIn>>,
             ppc' = "gone" => ppc = "gone" \/ abnormal' \/ Child!FromFile(printed) = file,
             cpc' # "gone" => cpc # "gone",
             ~abnormal' => ~abnormal,
             ~abnormal' /\ cpc' \in {"exit", "gone"} /\ ppc' # "gone" =>
                 ppc # "gone" /\ (cpc \in {"exit", "gone"} \/ CameBack = file),
             ppc = "gone" => ppc' = "gone"
      PROVE  ChildUnitsInv'
  <2>1. UNCHANGED <<CameBack, InOrder>>
    BY <1>0, <1>b
  <2> QED
    BY <1>0, <2>1, <1>u, <1>v
<1>j. \A a, b, x \in Seq(Nat) :
        a \o b \in Seq(Nat) /\ (a \o b) \o x = a \o (b \o x)
  BY Joined
<1>k. \A a, b \in Seq(Nat) : \A e \in Nat : a \o Append(b, e) = Append(a \o b, e)
  BY AppendLast
<1>s. \A a, b, x \in Seq(Nat) : b # <<>> =>
        /\ Append(a, Head(b)) \o (Tail(b) \o x) = a \o (b \o x)
        /\ Head(b) \in Nat /\ Tail(b) \in Seq(Nat)
  <2> DEFINE T == Nat
  <2> HIDE DEF T
  <2>1. \A a, b, x \in Seq(T) : b # <<>> =>
          /\ Append(a, Head(b)) \o (Tail(b) \o x) = a \o (b \o x)
          /\ Head(b) \in T /\ Tail(b) \in Seq(T)
    BY Shifts
  <2> QED
    BY <2>1 DEF T
<1>c. abnormal \in BOOLEAN /\ \A e \in Child!Ends : holders[e] \subseteq Child!Procs
  BY DEF ChildPlacesOK
<1>1. CASE Child!Prepare \/ Child!Fail \/ Child!ErrorExit
  BY <1>1, <1>0
     DEF Child!Prepare, Child!CheckArgs, Child!MakeOut, Child!MakeIn, Child!HideOut,
     Child!HideIn, Child!CreatePipe, Child!ClearInherit,
         Child!CreateChildProcess, Child!OpenInput, Child!Fail, Child!ErrorExit,
         Child!childVars, ChildHandsInv, ChildHoldersInv, ParentMakes, Child!Setup
<1>2. CASE Child!EndOfInput \/ Child!ChildKilled
  <2>1. CASE Child!EndOfInput
    <3>1. ~abnormal' => ~abnormal
      BY <2>1, Zenon DEF Child!EndOfInput
    <3> QED
      BY <2>1, <3>1, <1>0 DEF Child!EndOfInput, Child!CloseStdin, Child!childVars
  <2>2. CASE Child!ChildKilled
    BY <2>2, <1>0 DEF Child!ChildKilled, Child!parentVars
  <2> QED
    BY <1>2, <2>1, <2>2
<1>3. CASE Child!EndOfOutput
  <2>1. cpc = "gone" /\ ppc = "readPipe" /\ pipeOut = <<>>
    BY <1>3
       DEF Child!EndOfOutput, ChildHoldersInv, HasHandle, ChildAlive, Child!Ends,
           ChildPlacesOK, ParentMakes
  <2>2. ~abnormal => Child!FromFile(printed) = file
    <3>1. Child!FromFile(<<>>) = <<>> /\ Child!FromFile(printed) \o <<>> = Child!FromFile(printed)
      BY <1>t, FromFileAppend, Joined
    <3>2. CameBack = Child!FromFile(printed)
      BY <2>1, <3>1, <1>t, Zenon
    <3> QED
      BY <2>1, <3>2, <1>u
  <2> QED
    BY <1>3, <2>1, <2>2, <1>0 DEF Child!EndOfOutput, Child!childVars
<1>4. CASE Child!ChildEndOfInput
  <2>1. cpc = "read" /\ cpc' = "exit" /\ pipeIn = <<>> /\ cbuf = <<>>
        /\ UNCHANGED <<printed, pipeOut, file, sent, pbuf, cbuf, pipeIn, ppc, abnormal>>
    BY <1>4 DEF Child!ChildEndOfInput, Child!parentVars, ChildHandsInv
  <2>2. ~abnormal /\ ppc # "gone" => CameBack = file
    <3> SUFFICES ASSUME ~abnormal, ppc # "gone" PROVE CameBack = file
      OBVIOUS
    <3>1. ppc = "readPipe"
      BY <1>4
         DEF Child!ChildEndOfInput, ChildHandsInv, ChildHoldersInv, ParentMakes, HasHandle,
             Child!Ends, ChildPlacesOK, Child!Setup
    <3>2. pbuf = <<>> /\ LeftInFile = <<>>
      <4>1. pbuf = <<>> /\ sent = Len(file)
        BY <3>1 DEF ChildHandsInv
      <4> QED
        BY <4>1, <1>t DEF LeftInFile
    <3>3. InOrder = CameBack \o (<<>> \o (<<>> \o (<<>> \o <<>>)))
      BY <2>1, <3>2, Zenon DEF InOrder
    <3>4. <<>> \o <<>> = <<>> /\ CameBack \o <<>> = CameBack
      BY <1>t, Joined
    <3> QED
      BY <2>1, <3>3, <3>4, <1>u
  <2> QED
    BY <2>1, <2>2, <1>0
<1>5. CASE Child!ReadInputBlock
  <2> DEFINE n == IF sent + BUFSIZE <= Len(file) THEN sent + BUFSIZE ELSE Len(file)
  <2>1. /\ pbuf' = SubSeq(file, sent + 1, n) /\ sent' = n /\ pbuf = <<>>
        /\ ppc = "readFile" /\ ppc' = "writePipe"
        /\ UNCHANGED <<file, cbuf, cpc, pipeIn, pipeOut, printed, abnormal>>
    BY <1>5 DEF Child!ReadInputBlock, Child!childVars, ChildHandsInv
  <2>2. n \in Nat /\ sent <= n /\ n <= Len(file)
    BY <1>t DEF Child!SizesAssumption
  <2> HIDE DEF n
  <2>3. pbuf' \o LeftInFile' = LeftInFile
    <3>1. LeftInFile' = SubSeq(file, n + 1, Len(file))
      BY <2>1 DEF LeftInFile
    <3>2. SubSeq(file, sent + 1, n) \o SubSeq(file, n + 1, Len(file)) = SubSeq(file, sent + 1, Len(file))
      <4>1. sent + 1 \in 1 .. Len(file) + 1 /\ n \in (sent + 1) - 1 .. Len(file) /\ Len(file) \in n .. Len(file)
        BY <2>2, <1>t
      <4> QED
        BY <4>1, <1>t, ConcatAdjacentSubSeq
    <3> QED
      BY <2>1, <3>1, <3>2, Zenon DEF LeftInFile
  <2>4. pbuf \o LeftInFile = LeftInFile
    BY <2>1, <1>t, Joined
  <2>5. CameBack' = CameBack /\ InOrder' = InOrder
    BY <2>1, <2>3, <2>4, <1>b, Zenon DEF InOrder
  <2> QED
    BY <2>1, <2>5, <1>u, <1>v
<1>6. CASE Child!WriteToPipe
  <2>1. /\ pipeIn' = Append(pipeIn, Head(pbuf)) /\ pbuf' = Tail(pbuf) /\ pbuf # <<>>
        /\ ppc = "writePipe" /\ ppc' # "gone"
        /\ UNCHANGED <<file, sent, cbuf, cpc, pipeOut, printed, abnormal>>
    BY <1>6 DEF Child!WriteToPipe, Child!childVars, ChildHandsInv
  <2>2. Append(pipeIn, Head(pbuf)) \o (Tail(pbuf) \o LeftInFile) = pipeIn \o (pbuf \o LeftInFile)
    <3>1. pipeIn \in Seq(Nat) /\ pbuf \in Seq(Nat) /\ LeftInFile \in Seq(Nat) /\ pbuf # <<>>
      BY <2>1, <1>t
    <3> QED
      BY <3>1, <1>s, Zenon
  <2>3. CameBack' = CameBack /\ LeftInFile' = LeftInFile
    BY <2>1, <1>b
  <2>4. InOrder' = InOrder
    BY <2>1, <2>2, <2>3, Zenon DEF InOrder
  <2> QED
    BY <2>1, <2>3, <2>4, <1>u, <1>v
<1>7. CASE Child!WriteToPipeFails
  <2>1. /\ cpc = "gone" /\ ppc # "gone" /\ ppc' = "readPipe" /\ abnormal'
        /\ UNCHANGED <<file, cpc, pipeOut, printed>>
    BY <1>7
       DEF Child!WriteToPipeFails, Child!CloseStdin, Child!childVars, ChildHoldersInv,
           HasHandle, ChildAlive, Child!Ends, ChildPlacesOK
  <2> QED
    BY <2>1, <1>b, <1>u, <1>v
<1>8. CASE Child!ReadFromPipe
  <2>1. /\ printed' = printed \o Child!FirstUnits(pipeOut) /\ pipeOut' = Child!OtherUnits(pipeOut)
        /\ ppc = "readPipe" /\ UNCHANGED <<ppc, cpc, file, sent, pbuf, cbuf, pipeIn, abnormal>>
    BY <1>8 DEF Child!ReadFromPipe, Child!childVars
  <2>2. Child!FirstUnits(pipeOut) \in Seq(Nat) /\ Child!OtherUnits(pipeOut) \in Seq(Nat)
        /\ Child!FirstUnits(pipeOut) \o Child!OtherUnits(pipeOut) = pipeOut
    BY <1>t, Block
  <2>3. printed' \o pipeOut' = printed \o pipeOut
    <3>1. (printed \o Child!FirstUnits(pipeOut)) \o Child!OtherUnits(pipeOut)
            = printed \o (Child!FirstUnits(pipeOut) \o Child!OtherUnits(pipeOut))
      <4>1. printed \in Seq(Nat)
        BY <1>t
      <4> QED
        BY <2>2, <4>1, <1>j, Zenon
    <3> QED
      BY <2>1, <2>2, <3>1, Zenon
  <2>4. CameBack' = CameBack
    BY <2>3, Zenon DEF CameBack
  <2>5. Child!IsPrefix(Child!FromFile(printed'), file)
    <3>1. printed' \in Seq(Nat) /\ pipeOut' \in Seq(Nat)
      BY <2>1, <2>2, <1>t, Joined
    <3>2. /\ Child!FromFile(printed' \o pipeOut') = Child!FromFile(printed') \o Child!FromFile(pipeOut')
          /\ Child!FromFile(printed') \in Seq(Nat) /\ Child!FromFile(pipeOut') \in Seq(Nat)
      BY <3>1, FromFileAppend, FromFileConcat
    <3>3. Child!IsPrefix(Child!FromFile(printed') \o Child!FromFile(pipeOut'), file)
      <4>1. Child!IsPrefix(CameBack, file)
        BY <2>1, <1>u
      <4> QED
        BY <4>1, <2>3, <3>2, Zenon DEF CameBack
    <3> QED
      BY <3>2, <3>3, <1>t, Beginning
  <2>6. InOrder' = InOrder
    BY <2>1, <2>4, <1>b, Zenon DEF InOrder
  <2> QED
    BY <2>1, <2>4, <2>5, <2>6, <1>u, <1>v
<1>9. CASE Child!PrintFails
  <2>1. ppc' = "gone" /\ abnormal' /\ UNCHANGED <<file, printed>>
    BY <1>9 DEF Child!PrintFails
  <2> QED
    BY <2>1, <1>u, <1>v
<1>10. CASE Child!ChildReads
  <2>1. /\ cbuf' = Child!FirstUnits(pipeIn) /\ pipeIn' = Child!OtherUnits(pipeIn) /\ cbuf = <<>>
        /\ cpc = "read" /\ cpc' = "write"
        /\ UNCHANGED <<ppc, file, sent, pbuf, pipeOut, printed, abnormal>>
    BY <1>10 DEF Child!ChildReads, Child!parentVars, ChildHandsInv
  <2>2. PICK x \in Seq(Nat) : x = pbuf \o LeftInFile
    BY <1>t, Joined
  <2>3. Child!FirstUnits(pipeIn) \in Seq(Nat) /\ Child!OtherUnits(pipeIn) \in Seq(Nat)
        /\ Child!FirstUnits(pipeIn) \o Child!OtherUnits(pipeIn) = pipeIn
    BY <1>t, Block
  <2>4. /\ (Child!FirstUnits(pipeIn) \o Child!OtherUnits(pipeIn)) \o x
              = Child!FirstUnits(pipeIn) \o (Child!OtherUnits(pipeIn) \o x)
        /\ pipeIn \o x \in Seq(Nat)
    <3>1. pipeIn \in Seq(Nat)
      BY <1>t
    <3>2. pipeIn \o x \in Seq(Nat)
      BY <3>1, <1>j, Zenon
    <3>3. (Child!FirstUnits(pipeIn) \o Child!OtherUnits(pipeIn)) \o x
              = Child!FirstUnits(pipeIn) \o (Child!OtherUnits(pipeIn) \o x)
      BY <2>3, <1>j, Zenon
    <3> QED
      BY <3>2, <3>3, Zenon
  <2>5. <<>> \o (pipeIn \o x) = pipeIn \o x
    BY <2>4, Joined
  <2>6. CameBack' = CameBack /\ LeftInFile' = LeftInFile
    BY <2>1, <1>b
  <2>7. InOrder' = InOrder
    BY <2>1, <2>2, <2>3, <2>4, <2>5, <2>6, Zenon DEF InOrder
  <2> QED
    BY <2>1, <2>6, <2>7, <1>u, <1>v
<1>11. CASE Child!ChildWrites
  <2>1. /\ pipeOut' = Append(pipeOut, Head(cbuf)) /\ cbuf' = Tail(cbuf) /\ cbuf # <<>>
        /\ cpc = "write" /\ cpc' \notin {"exit", "gone"}
        /\ UNCHANGED <<ppc, file, sent, pbuf, pipeIn, printed, abnormal>>
    BY <1>11 DEF Child!ChildWrites, Child!parentVars, ChildHandsInv
  <2>2. CASE ppc = "gone"
    BY <2>1, <2>2, <1>u, <1>v
  <2>3. CASE ppc # "gone"
    <3>1. Head(cbuf) \in Nat /\ Head(cbuf) # Child!Text
      <4>1. cbuf \in Seq(1 .. MaxFile)
        BY DEF ChildDataOK
      <4> QED
        <5>1. Head(cbuf) \in 1 .. MaxFile
          BY <2>1, <4>1, HeadTailProperties
        <5> QED
          BY <5>1 DEF Child!Text
    <3>2. CameBack' = Append(CameBack, Head(cbuf))
      <4>1. printed \o Append(pipeOut, Head(cbuf)) = Append(printed \o pipeOut, Head(cbuf))
            /\ printed \o pipeOut \in Seq(Nat)
        <5>1. printed \in Seq(Nat) /\ pipeOut \in Seq(Nat)
          BY <1>t
        <5> QED
          BY <3>1, <5>1, <1>j, <1>k, Zenon
      <4>2. Child!FromFile(Append(printed \o pipeOut, Head(cbuf))) = Append(Child!FromFile(printed \o pipeOut), Head(cbuf))
        BY <3>1, <4>1, FromFileAppend
      <4> QED
        BY <2>1, <4>1, <4>2, Zenon DEF CameBack
    <3>3. PICK x \in Seq(Nat) : x = pipeIn \o (pbuf \o LeftInFile)
      <4>1. pbuf \o LeftInFile \in Seq(Nat)
        BY <1>t, Joined
      <4> QED
        BY <4>1, <1>t, Joined
    <3>4. Append(CameBack, Head(cbuf)) \o (Tail(cbuf) \o x) = CameBack \o (cbuf \o x) /\ Tail(cbuf) \in Seq(Nat)
      <4>1. CameBack \in Seq(Nat) /\ cbuf \in Seq(Nat) /\ cbuf # <<>>
        BY <2>1, <1>t
      <4> QED
        BY <4>1, <1>s, Zenon
    <3>5. LeftInFile' = LeftInFile
      BY <2>1, <1>b
    <3>6. InOrder' = InOrder /\ InOrder' = CameBack' \o (Tail(cbuf) \o x)
      BY <2>1, <3>2, <3>3, <3>4, <3>5, Zenon DEF InOrder
    <3>7. Child!IsPrefix(CameBack', file)
      <4>1. InOrder = file
        BY <2>1, <2>3, <1>u
      <4>2. Append(CameBack, Head(cbuf)) \in Seq(Nat) /\ Tail(cbuf) \o x \in Seq(Nat)
        BY <3>1, <3>4, <1>t, AppendLast, Joined
      <4>3. CameBack' \in Seq(Nat)
        BY <3>2, <4>2, Zenon
      <4>4. CameBack' \o (Tail(cbuf) \o x) = file
        BY <3>6, <4>1, Zenon
      <4> QED
        BY <4>2, <4>3, <4>4, <1>t, Beginning
    <3> QED
      BY <2>1, <2>3, <3>6, <3>7, <1>u, <1>v
  <2> QED
    BY <2>2, <2>3
<1>12. CASE Child!ChildWriteFails
  <2>1. ppc = "gone" /\ UNCHANGED <<ppc, file, printed, abnormal>>
    BY <1>12
       DEF Child!ChildWriteFails, Child!parentVars, ChildHoldersInv, HasHandle, Child!Ends
  <2> QED
    BY <2>1, <1>u, <1>v
(* Child!Text comes between the units, but is none of them.                       *)
<1>f. Child!Flush => pipeOut' = pipeOut \/ pipeOut' = Append(pipeOut, Child!Text)
  <2>1. wcout # <<>> => Head(wcout) = Child!Text
    BY <1>t
  <2> QED
    BY <2>1 DEF Child!Flush
<1>g. pipeOut' = pipeOut \/ pipeOut' = Append(pipeOut, Child!Text) => (printed' = printed => CameBack' = CameBack)
  <2>1. Child!Text \in Nat
    BY DEF Child!Text
  <2>2. printed \o Append(pipeOut, Child!Text) = Append(printed \o pipeOut, Child!Text)
        /\ printed \o pipeOut \in Seq(Nat)
    <3>1. printed \in Seq(Nat) /\ pipeOut \in Seq(Nat)
      BY <1>t
    <3> QED
      BY <2>1, <3>1, <1>j, <1>k, Zenon
  <2>3. Child!FromFile(Append(printed \o pipeOut, Child!Text)) = Child!FromFile(printed \o pipeOut)
    BY <2>1, <2>2, FromFileAppend
  <2> QED
    BY <2>2, <2>3, Zenon DEF CameBack
<1>13. CASE Child!ChildHello \/ Child!ChildExit
  <2>1. /\ pipeOut' = pipeOut \/ pipeOut' = Append(pipeOut, Child!Text)
        /\ cpc # "gone" /\ UNCHANGED <<ppc, file, sent, pbuf, cbuf, pipeIn, printed, abnormal>>
        /\ cpc' \in {"exit", "gone"} => cpc = "exit" \/ ppc = "gone"
    BY <1>13, <1>f DEF Child!ChildHello, Child!ChildExit, Child!parentVars, ChildHandsInv
  <2>2. CameBack' = CameBack /\ LeftInFile' = LeftInFile
    BY <2>1, <1>g, <1>b
  <2>3. InOrder' = InOrder
    BY <2>1, <2>2, Zenon DEF InOrder
  <2> QED
    BY <2>1, <2>2, <2>3, <1>u, <1>v
<1>14. CASE UNCHANGED childVars
  BY <1>14, <1>0 DEF childVars
<1> QED
  BY <1>1, <1>2, <1>3, <1>4, <1>5, <1>6, <1>7, <1>8, <1>9, <1>10, <1>11, <1>12, <1>13, <1>14
     DEF Child!Next, Child!ChildStep

(* The invariant of the two processes, of every step and at the start.      *)
ChildInv == ChildPlacesOK /\ ChildDataOK /\ ChildHoldersInv /\ ChildHandsInv /\ ChildUnitsInv

LEMMA ChildInit ==
    ASSUME SequenceLaws, Child!SizesAssumption, Child!Init
    PROVE  ChildInv
<1>1. PICK n \in 0 .. MaxFile : file = [i \in 1 .. n |-> i]
  BY DEF Child!Init
<1>2. file \in Seq(1 .. MaxFile) /\ Len(file) \in Nat
  BY <1>1 DEF Child!SizesAssumption
<1>3. ChildPlacesOK /\ ChildHoldersInv /\ ChildHandsInv
  BY DEF Child!Init, ChildPlacesOK, ChildHoldersInv, ChildHandsInv, ChildAlive, ParentMakes,
         HasHandle, Child!Setup, Child!Ends, Child!Procs
<1>d. ChildDataOK
  <2>1. \A S : <<>> \in Seq(S) /\ Len(<<>>) = 0
    OBVIOUS
  <2>2. 0 <= PipeSize /\ 0 <= BUFSIZE
    BY DEF Child!SizesAssumption
  <2>3. 0 \in 0 .. Len(file)
    BY <1>2
  <2> QED
    BY <1>2, <2>1, <2>2, <2>3 DEF Child!Init, ChildDataOK
<1>4. CameBack = <<>> /\ LeftInFile = file /\ Child!FromFile(printed) = <<>>
  <2>1. printed = <<>> /\ pipeOut = <<>> /\ sent = 0
    BY DEF Child!Init
  <2>2. <<>> \o <<>> = <<>>
    OBVIOUS
  <2>3. Child!FromFile(<<>>) = <<>>
    <3>1. <<>> \in Seq(Nat) /\ 0 \in Nat
      OBVIOUS
    <3> QED
      BY <3>1, FromFileAppend
  <2>4. CameBack = <<>> /\ Child!FromFile(printed) = <<>>
    BY <2>1, <2>2, <2>3, Zenon DEF CameBack
  <2>5. LeftInFile = file
    <3>1. SubSeq(file, 1, Len(file)) = file
      BY <1>2, SubSeqFull
    <3>2. 0 + 1 = 1
      OBVIOUS
    <3> QED
      BY <2>1, <3>1, <3>2, Zenon DEF LeftInFile
  <2> QED
    BY <2>4, <2>5
<1>5. ChildUnitsInv
  <2>1. <<>> \o file = file /\ <<>> \in Seq(1 .. MaxFile)
    BY <1>2, Joined
  <2>2. Child!IsPrefix(<<>>, file)
    BY <1>2, <2>1, Beginning
  <2>3. cbuf = <<>> /\ pipeIn = <<>> /\ pbuf = <<>> /\ ppc = "args" /\ cpc = "none"
    BY DEF Child!Init
  <2>4. CameBack \o (cbuf \o (pipeIn \o (pbuf \o LeftInFile))) = file
    BY <1>4, <2>1, <2>3, Zenon
  <2> QED
    BY <1>4, <2>2, <2>3, <2>4 DEF ChildUnitsInv
<1> QED
  BY <1>3, <1>d, <1>5 DEF ChildInv

LEMMA ChildStep ==
    ASSUME SequenceLaws, Child!SizesAssumption, ChildInv, [Child!Next]_childVars
    PROVE  ChildInv'
BY ChildHoldersStep, ChildDataStep, ChildHandsStep, ChildUnitsStep DEF ChildInv

LEMMA ChildCorrect == ASSUME ChildInv PROVE Child!TypeOK /\ Child!FileComesBack
BY ChildTypeParts DEF ChildInv, ChildHandsInv, ChildUnitsInv, Child!FileComesBack, CameBack

-----------------------------------------------------------------------------
(* WinsockCoroutine: the client receives what it has sent.                  *)
CONSTANTS Messages, None
VARIABLES task, io, outstanding, exit, buffer, sendBuf, message, echoes, connected, wire,
          closed, broken

Echo == INSTANCE CoroutineEcho WITH next <- message

echoVars == <<task, io, outstanding, exit, buffer, sendBuf, message, echoes, connected, wire,
              closed, broken>>

(* The bytes on their way, in the order in which they come back: what the   *)
(* client has, what it has received and not taken yet, what is on the wire  *)
(* to it; and behind that what the server sends, has received and is sent.  *)
ServerEnded == task["server"] \in {"returned", "threw"}
ClientEnded == task["client"] \in {"returned", "threw"}
ServerHas ==
    IF task["server"] = "recv" /\ io["server"].done
    THEN SubSeq(buffer["server"], 1, io["server"].bytes) ELSE <<>>
ClientHas ==
    IF task["client"] = "recv" /\ io["client"].done
    THEN SubSeq(buffer["client"], 1, io["client"].bytes) ELSE <<>>
ServerSending ==
    IF task["server"] = "send" /\ ~io["server"].done THEN sendBuf["server"] ELSE <<>>
ClientSending ==
    IF task["client"] = "send" /\ ~io["client"].done THEN sendBuf["client"] ELSE <<>>
EchoHere == echoes \o (ClientHas \o wire["client"])
EchoThere == ServerSending \o (ServerHas \o wire["server"])
EchoSent == Child!FlattenSeq(SubSeq(Messages, 1, message))
NoneSent == task["client"] \in {"created", "connect"}

(* An operation that is under way is pending; one that is done says how     *)
(* much it moved, a receive no more than the buffer holds.                  *)
EchoOps(t, o) ==
    /\ t \in [Echo!Side -> Echo!Awaiting \cup {"created", "returned", "threw"}]
    /\ DOMAIN o = Echo!Side
    /\ \A s \in Echo!Side : t[s] \in Echo!Awaiting =>
          /\ o[s] \in [done : BOOLEAN, bytes : Nat, error : BOOLEAN]
          /\ ~o[s].done => o[s] = Echo!Pending
          /\ t[s] = "recv" => o[s].bytes <= BufferSize

EchoTypes ==
    /\ EchoOps(task, io)
    /\ buffer \in [Echo!Side -> Seq(Nat)] /\ \A s \in Echo!Side : Len(buffer[s]) = BufferSize
    /\ sendBuf \in [Echo!Side -> Seq(Nat)] /\ wire \in [Echo!Side -> Seq(Nat)] /\ echoes \in Seq(Nat)
    /\ message \in 1 .. Len(Messages)
    /\ broken \in BOOLEAN

(* While nothing is lost all that was sent is somewhere on this way, in its *)
(* order; after a reset or the end of the server, what has come back and    *)
(* what is still on its way back are its beginning.                         *)
EchoOrder ==
    /\ broken => \A s \in Echo!Side : wire[s] = <<>>
    /\ NoneSent => message = 1
    /\ Child!IsPrefix(EchoHere, EchoSent)
    /\ ~broken /\ ~ServerEnded => Child!IsPrefix(EchoHere \o EchoThere, EchoSent)
    /\ ~broken /\ ~ServerEnded /\ ~ClientEnded =>
         (EchoHere \o EchoThere) \o ClientSending = IF NoneSent THEN <<>> ELSE EchoSent

(* A buffer that a receive has written to, and its beginning. *)
CutFits(T, w, b, n) ==
    /\ SubSeq(w, 1, n) \o SubSeq(b, n + 1, Len(b)) \in Seq(T)
    /\ Len(SubSeq(w, 1, n) \o SubSeq(b, n + 1, Len(b))) = Len(b)
    /\ SubSeq(SubSeq(w, 1, n) \o SubSeq(b, n + 1, Len(b)), 1, n) = SubSeq(w, 1, n)
    /\ SubSeq(w, 1, n) \in Seq(T) /\ SubSeq(w, n + 1, Len(w)) \in Seq(T)
    /\ SubSeq(w, 1, n) \o SubSeq(w, n + 1, Len(w)) = w

LEMMA BufferFilled ==
    \A T : \A w, b \in Seq(T), n \in Nat :
        n <= Len(w) /\ n <= Len(b) => CutFits(T, w, b, n)
<1> SUFFICES ASSUME NEW T, NEW w \in Seq(T), NEW b \in Seq(T), NEW n \in Nat,
                    n <= Len(w), n <= Len(b)
             PROVE  CutFits(T, w, b, n)
  OBVIOUS
<1>a. /\ SubSeq(w, 1, n) \in Seq(T) /\ Len(SubSeq(w, 1, n)) = n
      /\ SubSeq(b, n + 1, Len(b)) \in Seq(T) /\ Len(SubSeq(b, n + 1, Len(b))) = Len(b) - n
      /\ SubSeq(w, n + 1, Len(w)) \in Seq(T)
  OBVIOUS
<1>1. PICK x \in Seq(T) : x = SubSeq(w, 1, n) /\ Len(x) = n
  BY <1>a, Zenon
<1>2. PICK y \in Seq(T) : y = SubSeq(b, n + 1, Len(b)) /\ Len(y) = Len(b) - n
  BY <1>a, Zenon
<1>3. PICK z \in Seq(T) : z = SubSeq(w, n + 1, Len(w))
  BY <1>a, Zenon
<1>b. x \o y \in Seq(T) /\ Len(x \o y) = Len(b) /\ \A i \in 1 .. n : (x \o y)[i] = x[i]
  <2>1. Len(b) \in Nat /\ n + (Len(b) - n) = Len(b)
    OBVIOUS
  <2>2. x \o y \in Seq(T) /\ Len(x \o y) = Len(x) + Len(y)
    BY ConcatProperties
  <2>3. \A i \in 1 .. Len(x) : (x \o y)[i] = x[i]
    OBVIOUS
  <2> QED
    BY <1>1, <1>2, <2>1, <2>2, <2>3, Zenon
<1>4. PICK u \in Seq(T) : u = x \o y /\ Len(u) = Len(b) /\ \A i \in 1 .. n : u[i] = x[i]
  BY <1>b, Zenon
<1>5. SubSeq(u, 1, n) = x
  <2>0. /\ SubSeq(u, 1, n) \in Seq(T) /\ Len(SubSeq(u, 1, n)) = n
        /\ \A i \in 1 .. n : SubSeq(u, 1, n)[i] = u[i]
    BY <1>4
  <2>1. PICK v \in Seq(T) : v = SubSeq(u, 1, n) /\ Len(v) = n /\ \A i \in 1 .. n : v[i] = u[i]
    BY <2>0, Zenon
  <2>2. v = x
    BY <1>1, <1>4, <2>1, SeqEqual
  <2> QED
    BY <2>1, <2>2, Zenon
<1>6. x \o z = w
  <2>1. SubSeq(w, 1, n) \o SubSeq(w, n + 1, Len(w)) = SubSeq(w, 1, Len(w))
    <3>1. 1 \in 1 .. Len(w) + 1 /\ n \in 1 - 1 .. Len(w) /\ Len(w) \in n .. Len(w)
      OBVIOUS
    <3> QED
      BY <3>1, ConcatAdjacentSubSeq
  <2>2. SubSeq(w, 1, Len(w)) = w
    BY SubSeqFull
  <2> QED
    BY <1>1, <1>3, <2>1, <2>2, Zenon
<1> QED
  BY <1>1, <1>2, <1>3, <1>4, <1>5, <1>6, Zenon DEF CutFits

(* One message more.                                                        *)
LEMMA SentGrows ==
    ASSUME SequenceLaws, Echo!MessagesAssumption, NEW n \in 1 .. Len(Messages)
    PROVE  /\ Child!FlattenSeq(SubSeq(Messages, 1, n)) \in Seq(Nat) /\ Messages[n] \in Seq(Nat)
           /\ n < Len(Messages) =>
                Child!FlattenSeq(SubSeq(Messages, 1, n + 1))
                  = Child!FlattenSeq(SubSeq(Messages, 1, n)) \o Messages[n + 1]
           /\ Child!FlattenSeq(SubSeq(Messages, 1, 1)) = Messages[1]
<1> DEFINE T == Seq(Nat)
<1>m. Messages \in Seq(T) /\ Len(Messages) \in Nat /\ Len(Messages) > 0
  BY DEF Echo!MessagesAssumption
<1>n. n \in Nat /\ 1 <= n /\ n <= Len(Messages)
  OBVIOUS
<1> HIDE DEF T
<1>1. \A k \in 0 .. Len(Messages) : SubSeq(Messages, 1, k) \in Seq(T)
  BY <1>m
<1>2. \A k \in 1 .. Len(Messages) : Messages[k] \in T
  BY <1>m
<1>3. \A k \in 0 .. Len(Messages) : k < Len(Messages) =>
         SubSeq(Messages, 1, k + 1) = Append(SubSeq(Messages, 1, k), Messages[k + 1])
  BY <1>m
<1>4. \A ss \in Seq(T), x \in T : /\ Child!FlattenSeq(<<>>) = <<>>
                                 /\ Child!FlattenSeq(ss) \in T
                                 /\ Child!FlattenSeq(Append(ss, x)) = Child!FlattenSeq(ss) \o x
  BY Zenon DEF SequenceLaws, FlattenLaw, T
<1>5. Child!FlattenSeq(SubSeq(Messages, 1, n)) \in T /\ Messages[n] \in T
  <2>1. n \in 0 .. Len(Messages)
    BY <1>n, <1>m
  <2> QED
    BY <1>1, <1>2, <1>4, <2>1, Zenon
<1>6. n < Len(Messages) => Child!FlattenSeq(SubSeq(Messages, 1, n + 1))
                  = Child!FlattenSeq(SubSeq(Messages, 1, n)) \o Messages[n + 1]
  <2> SUFFICES ASSUME n < Len(Messages)
               PROVE  Child!FlattenSeq(SubSeq(Messages, 1, n + 1))
                        = Child!FlattenSeq(SubSeq(Messages, 1, n)) \o Messages[n + 1]
    OBVIOUS
  <2>1. SubSeq(Messages, 1, n + 1) = Append(SubSeq(Messages, 1, n), Messages[n + 1])
        /\ SubSeq(Messages, 1, n) \in Seq(T) /\ Messages[n + 1] \in T
    BY <1>1, <1>2, <1>3, <1>n, <1>m
  <2> QED
    BY <2>1, <1>4, Zenon
<1>7. Child!FlattenSeq(SubSeq(Messages, 1, 1)) = Messages[1]
  <2>1. SubSeq(Messages, 1, 1) = Append(<<>>, Messages[1]) /\ Messages[1] \in T /\ <<>> \in Seq(T)
    <3>1. SubSeq(Messages, 1, 0) = <<>>
      BY <1>m
    <3>2. SubSeq(Messages, 1, 0 + 1) = Append(SubSeq(Messages, 1, 0), Messages[0 + 1])
      BY <1>3, <1>m
    <3>3. 0 + 1 = 1 /\ <<>> \in Seq(T) /\ Messages[1] \in T
      BY <1>2, <1>m
    <3> QED
      BY <3>1, <3>2, <3>3, Zenon
  <2>2. Child!FlattenSeq(SubSeq(Messages, 1, 1)) = <<>> \o Messages[1]
    BY <2>1, <1>4, Zenon
  <2>3. Messages[1] \in Seq(Nat)
    BY <2>1 DEF T
  <2>4. <<>> \o Messages[1] = Messages[1]
    BY <2>3, Joined
  <2> QED
    BY <2>2, <2>4, Zenon
<1> QED
  BY <1>5, <1>6, <1>7 DEF T

LEMMA Further ==
    ASSUME NEW T, NEW a \in Seq(T), NEW b \in Seq(T), NEW s \in Seq(T), Child!IsPrefix(a, s)
    PROVE  Child!IsPrefix(a, s \o b)
<1>1. PICK x \in Seq(T) : a \o x = s
  <2>1. Len(a) \in Nat /\ Len(s) \in Nat /\ Len(a) <= Len(s) /\ SubSeq(a, 1, Len(a)) = SubSeq(s, 1, Len(a))
    BY DEF Child!IsPrefix
  <2>2. SubSeq(a, 1, Len(a)) = a /\ SubSeq(s, 1, Len(s)) = s
    BY SubSeqFull
  <2>3. SubSeq(s, 1, Len(a)) \o SubSeq(s, Len(a) + 1, Len(s)) = SubSeq(s, 1, Len(s))
    <3>1. 1 \in 1 .. Len(s) + 1 /\ Len(a) \in 1 - 1 .. Len(s) /\ Len(s) \in Len(a) .. Len(s)
      BY <2>1
    <3> QED
      BY <3>1, ConcatAdjacentSubSeq
  <2>4. SubSeq(s, Len(a) + 1, Len(s)) \in Seq(T)
    BY <2>1
  <2> QED
    BY <2>1, <2>2, <2>3, <2>4, Zenon
<1>2. a \o (x \o b) = s \o b /\ x \o b \in Seq(T) /\ s \o b \in Seq(T)
  <2>1. (a \o x) \o b = a \o (x \o b) /\ x \o b \in Seq(T)
    BY ConcatAssociative
  <2>2. s \o b \in Seq(T)
    BY Joined
  <2> QED
    BY <1>1, <2>1, <2>2, Zenon
<1> QED
  BY <1>2, Beginning

(* A result is written where the operation was pending.                     *)
LEMMA CompleteTypes ==
  ASSUME EchoOps(task, io), NEW s \in Echo!Side, NEW kind, NEW n \in Nat, NEW e \in BOOLEAN,
         Echo!Complete(s, kind, n, e), task' = task, kind = "recv" => n <= BufferSize
  PROVE  EchoOps(task', io')
<1>0. /\ Echo!Done(n, e) \in [done : BOOLEAN, bytes : Nat, error : BOOLEAN]
      /\ Echo!Done(n, e).done /\ Echo!Done(n, e).bytes = n
  BY DEF Echo!Done
<1>1. PICK d : /\ d = Echo!Done(n, e) /\ d \in [done : BOOLEAN, bytes : Nat, error : BOOLEAN]
               /\ d.done /\ d.bytes = n
  BY <1>0, Zenon
<1>2. task[s] = kind /\ io' = [io EXCEPT ![s] = d]
  BY <1>1, Zenon DEF Echo!Complete
<1>3. DOMAIN io' = Echo!Side /\ \A q \in Echo!Side : io'[q] = IF q = s THEN d ELSE io[q]
  BY <1>2 DEF EchoOps
<1> QED
  BY <1>1, <1>2, <1>3 DEF EchoOps

(* A step changes the place of one side's coroutine, or of none.            *)
LEMMA EchoTypesStep ==
  ASSUME Echo!MessagesAssumption, SequenceLaws, EchoTypes, [Echo!Next]_echoVars
  PROVE  EchoTypes'
<1> USE DEF Echo!Awaiting
<1>n. Len(Messages) \in Nat /\ Len(Messages) > 0 /\ BufferSize \in Nat \ {0}
  BY DEF Echo!MessagesAssumption
<1>m. \A k \in 1 .. Len(Messages) : Messages[k] \in Seq(Nat)
  BY SentGrows
<1>p. Echo!Pending \in [done : BOOLEAN, bytes : Nat, error : BOOLEAN] /\ ~Echo!Pending.done /\ Echo!Pending.bytes = 0
  BY DEF Echo!Pending
<1>i. EchoOps(task, io)
  BY DEF EchoTypes, EchoOps
<1>1. \A s \in Echo!Side : \A kind, c : Echo!Await(s, kind, c) /\ kind \in Echo!Awaiting => EchoOps(task', io')
  BY <1>i, <1>p, <1>n DEF Echo!Await, EchoOps
<1>2. \A s \in Echo!Side : \A c : Echo!AwaitThrows(s, c) => EchoOps(task', io')
  BY <1>i DEF Echo!AwaitThrows, EchoOps
<1>3. \A s \in Echo!Side, how \in {"returned", "threw"} : \A c : Echo!TaskEnds(s, how, c) => EchoOps(task', io')
  BY <1>i DEF Echo!TaskEnds, EchoOps
<1>t. /\ buffer \in [Echo!Side -> Seq(Nat)] /\ \A s \in Echo!Side : Len(buffer[s]) = BufferSize
      /\ sendBuf \in [Echo!Side -> Seq(Nat)] /\ wire \in [Echo!Side -> Seq(Nat)] /\ echoes \in Seq(Nat)
      /\ message \in 1 .. Len(Messages) /\ broken \in BOOLEAN
  BY DEF EchoTypes
<1>s. \A s \in Echo!Side : s \in {"server", "client"} /\ Echo!Peer(s) \in Echo!Side
  BY DEF Echo!Side, Echo!Peer
<1>c. "server" \in Echo!Side /\ "client" \in Echo!Side
  BY DEF Echo!Side
<1>r. \A s \in Echo!Side : Echo!InLoop(s, "recv") => /\ SubSeq(buffer[s], 1, io[s].bytes) \in Seq(Nat)
                                         /\ io[s].bytes \in Nat
  BY <1>i, <1>t, <1>n DEF Echo!InLoop, EchoOps
<1>x. \A s \in Echo!Side : Echo!CloseSocket(s) => wire' \in [Echo!Side -> Seq(Nat)] /\ broken' \in BOOLEAN
  <2> SUFFICES ASSUME NEW s \in Echo!Side, Echo!CloseSocket(s)
               PROVE  wire' \in [Echo!Side -> Seq(Nat)] /\ broken' \in BOOLEAN
    OBVIOUS
  <2>1. broken' \in BOOLEAN
    BY <1>t, Zenon DEF Echo!CloseSocket
  <2>2. [t \in Echo!Side |-> <<>>] \in [Echo!Side -> Seq(Nat)]
    OBVIOUS
  <2> QED
    BY <1>t, <2>1, <2>2 DEF Echo!CloseSocket
<1> DEFINE Kept == UNCHANGED <<buffer, sendBuf, wire, echoes, message, broken>>
<1>5. EchoOps(task', io') /\ Kept => EchoTypes'
  BY <1>t DEF EchoTypes
<1>6. CASE UNCHANGED echoVars
  BY <1>5, <1>6, <1>i DEF echoVars, Echo!procVars, Echo!netVars
<1>7. CASE Echo!ServerStart \/ Echo!ClientStart \/ Echo!ServerAccepted \/ Echo!ClientSent \/ Echo!ServerSent
  BY <1>1, <1>2, <1>5, <1>7, <1>c
     DEF Echo!ServerStart, Echo!ClientStart, Echo!ServerAccepted, Echo!ClientSent, Echo!ServerSent, Echo!netVars
<1>8. CASE Echo!ServerReceived
  <2>1. EchoOps(task', io')
    BY <1>1, <1>2, <1>8, <1>c DEF Echo!ServerReceived
  <2>2. sendBuf' \in [Echo!Side -> Seq(Nat)]
    BY <1>8, <1>r, <1>t, <1>c DEF Echo!ServerReceived
  <2> QED
    BY <1>8, <2>1, <2>2, <1>t DEF Echo!ServerReceived, Echo!netVars, EchoTypes
<1>9. CASE Echo!ServerDisconnected
  <2>1. EchoOps(task', io')
    BY <1>3, <1>9, <1>c DEF Echo!ServerDisconnected
  <2> QED
    BY <1>9, <1>x, <1>c, <2>1, <1>t DEF Echo!ServerDisconnected, EchoTypes
<1>10. CASE Echo!ClientConnected
  <2>1. EchoOps(task', io')
    BY <1>1, <1>2, <1>10, <1>c DEF Echo!ClientConnected, Echo!SendMessage
  <2>2. sendBuf' \in [Echo!Side -> Seq(Nat)]
    <3>1. Messages[1] \in Seq(Nat)
      BY <1>m, <1>n
    <3>2. sendBuf' = [sendBuf EXCEPT !["client"] = Messages[1]] \/ sendBuf' = sendBuf
      BY <1>10 DEF Echo!ClientConnected, Echo!SendMessage
    <3> QED
      BY <3>1, <3>2, <1>t
  <2> QED
    BY <1>10, <2>1, <2>2, <1>t DEF Echo!ClientConnected, Echo!netVars, EchoTypes
<1>11. CASE Echo!ClientReceived
  <2>0. Echo!InLoop("client", "recv") /\ echoes' = echoes \o SubSeq(buffer["client"], 1, io["client"].bytes)
        /\ UNCHANGED buffer
    BY <1>11 DEF Echo!ClientReceived
  <2>1. echoes' \in Seq(Nat)
    BY <2>0, <1>r, <1>t, <1>c
  <2>2. CASE message < Len(Messages) /\ message' = message + 1 /\ Echo!SendMessage(message + 1, Echo!Resumed("client"))
             /\ UNCHANGED Echo!netVars
    <3>1. EchoOps(task', io')
      BY <1>1, <1>2, <2>2, <1>c DEF Echo!SendMessage
    <3>2. message' \in 1 .. Len(Messages) /\ message + 1 \in 1 .. Len(Messages)
      BY <2>2, <1>t, <1>n
    <3>3. sendBuf' \in [Echo!Side -> Seq(Nat)]
      BY <2>2, <3>2, <1>m, <1>t, <1>c DEF Echo!SendMessage
    <3> QED
      BY <1>t, <2>0, <2>1, <2>2, <3>1, <3>2, <3>3 DEF Echo!netVars, EchoTypes
  <2>3. CASE Echo!CloseSocket("client") /\ Echo!TaskEnds("client", "returned", Echo!Resumed("client"))
             /\ UNCHANGED <<message, sendBuf>>
    <3>1. EchoOps(task', io')
      BY <1>3, <2>3, <1>c
    <3> QED
      BY <1>t, <1>x, <1>c, <2>0, <2>1, <2>3, <3>1 DEF EchoTypes
  <2> QED
    BY <1>11, <2>2, <2>3 DEF Echo!ClientReceived
<1>12. CASE Echo!Reset
  BY <1>12, <1>i, <1>t DEF Echo!Reset, Echo!procVars, EchoTypes
<1>13. ASSUME NEW s \in Echo!Side, Echo!CompleteRecv(s) PROVE EchoTypes'
  <2>1. ASSUME NEW n \in 1 .. BufferSize, n <= Len(wire[s]), Echo!Complete(s, "recv", n, FALSE),
               buffer' = [buffer EXCEPT ![s] = SubSeq(wire[s], 1, n) \o SubSeq(@, n + 1, BufferSize)],
               wire' = [wire EXCEPT ![s] = SubSeq(@, n + 1, Len(@))],
               UNCHANGED <<task, sendBuf, message, echoes, broken>>
        PROVE  EchoTypes'
    <3>1. EchoOps(task', io')
      <4>1. n \in Nat /\ n <= BufferSize /\ FALSE \in BOOLEAN /\ task' = task
        BY <2>1, <1>n
      <4> QED
        BY <1>i, <2>1, <4>1, CompleteTypes
    <3>2. n \in Nat /\ n <= Len(wire[s]) /\ n <= Len(buffer[s]) /\ Len(buffer[s]) = BufferSize
          /\ wire[s] \in Seq(Nat) /\ buffer[s] \in Seq(Nat)
      BY <2>1, <1>t, <1>n
    <3>w. PICK w \in Seq(Nat), b \in Seq(Nat) : w = wire[s] /\ b = buffer[s]
      BY <3>2
    <3>f. /\ SubSeq(w, 1, n) \o SubSeq(b, n + 1, Len(b)) \in Seq(Nat)
          /\ Len(SubSeq(w, 1, n) \o SubSeq(b, n + 1, Len(b))) = Len(b)
          /\ SubSeq(w, n + 1, Len(w)) \in Seq(Nat)
      <4>1. \A x, y \in Seq(Nat), k \in Nat :
              k <= Len(x) /\ k <= Len(y) => CutFits(Nat, x, y, k)
        BY BufferFilled, Zenon
      <4>2. n \in Nat /\ n <= Len(w) /\ n <= Len(b)
        BY <3>2, <3>w
      <4>3. CutFits(Nat, w, b, n)
        BY <4>1, <4>2
      <4> QED
        BY <4>3, Zenon DEF CutFits
    <3>3. /\ SubSeq(wire[s], 1, n) \o SubSeq(buffer[s], n + 1, BufferSize) \in Seq(Nat)
          /\ Len(SubSeq(wire[s], 1, n) \o SubSeq(buffer[s], n + 1, BufferSize)) = BufferSize
          /\ SubSeq(wire[s], n + 1, Len(wire[s])) \in Seq(Nat)
      BY <3>2, <3>w, <3>f, Zenon
    <3>4. buffer' \in [Echo!Side -> Seq(Nat)] /\ \A q \in Echo!Side : Len(buffer'[q]) = BufferSize
      BY <2>1, <3>3, <1>t
    <3>5. wire' \in [Echo!Side -> Seq(Nat)]
      BY <2>1, <3>3, <1>t
    <3> QED
      BY <2>1, <3>1, <3>4, <3>5, <1>t DEF EchoTypes
  <2>2. ASSUME Echo!Complete(s, "recv", 0, broken),
               UNCHANGED <<task, buffer, sendBuf, message, echoes, Echo!netVars>>
        PROVE  EchoTypes'
    <3>1. EchoOps(task', io')
      BY <1>i, <1>n, <1>t, <2>2, CompleteTypes
    <3> QED
      BY <1>5, <2>2, <3>1 DEF Echo!netVars
  <2> QED
    BY <1>13, <2>1, <2>2 DEF Echo!CompleteRecv
<1>14. ASSUME NEW s \in Echo!Side, Echo!CompleteSend(s) PROVE EchoTypes'
  <2>1. EchoOps(task', io')
    <3>1. Len(sendBuf[s]) \in Nat /\ 0 \in Nat /\ FALSE \in BOOLEAN /\ TRUE \in BOOLEAN /\ "send" # "recv"
      BY <1>t
    <3> QED
      <4>1. PICK n \in Nat, e \in BOOLEAN : Echo!Complete(s, "send", n, e) /\ task' = task
        BY <1>14, <3>1 DEF Echo!CompleteSend
      <4> QED
        BY <1>i, <4>1, CompleteTypes
  <2>2. sendBuf[s] \in Seq(Nat) /\ wire[Echo!Peer(s)] \o sendBuf[s] \in Seq(Nat) /\ Echo!Peer(s) \in Echo!Side
    BY <1>s, <1>t
  <2>3. [t \in Echo!Side |-> <<>>] \in [Echo!Side -> Seq(Nat)]
    OBVIOUS
  <2>4. wire' \in [Echo!Side -> Seq(Nat)] /\ broken' \in BOOLEAN
    <3>1. \/ wire' = [t \in Echo!Side |-> <<>>] /\ broken' = TRUE
          \/ wire' = [wire EXCEPT ![Echo!Peer(s)] = wire[Echo!Peer(s)] \o sendBuf[s]] /\ broken' = broken
          \/ wire' = wire /\ broken' = broken
      BY <1>14 DEF Echo!CompleteSend, Echo!netVars
    <3> QED
      BY <2>2, <2>3, <3>1, <1>t
  <2> QED
    BY <1>14, <2>1, <2>4, <1>t DEF Echo!CompleteSend, EchoTypes
<1>15. CASE Echo!CompleteAccept \/ Echo!CompleteConnect
  <2>1. EchoOps(task', io')
    <3>1. PICK s \in Echo!Side, kind \in {"accept", "connect"}, e \in BOOLEAN :
            Echo!Complete(s, kind, 0, e) /\ task' = task
      BY <1>15, <1>c DEF Echo!CompleteAccept, Echo!CompleteConnect
    <3> QED
      BY <1>i, <3>1, CompleteTypes
  <2> QED
    BY <1>5, <1>15, <2>1 DEF Echo!CompleteAccept, Echo!CompleteConnect, Echo!netVars
<1>16. ASSUME NEW s \in Echo!Side, Echo!RunReturns(s) PROVE EchoTypes'
  <2>1. wire' \in [Echo!Side -> Seq(Nat)] /\ broken' \in BOOLEAN
    BY <1>16, <1>x, <1>t DEF Echo!RunReturns, Echo!netVars
  <2> QED
    BY <1>16, <1>i, <1>t, <2>1 DEF Echo!RunReturns, EchoTypes
<1> QED
  <2>0. Echo!Quiescent => UNCHANGED echoVars
    BY DEF Echo!Quiescent, Echo!vars, Echo!procVars, Echo!netVars, echoVars
  <2>1. CASE Echo!Next
    BY <2>0, <2>1, <1>6, <1>7, <1>8, <1>9, <1>10, <1>11, <1>12, <1>13, <1>14, <1>15, <1>16, <1>c
       DEF Echo!Next, Echo!ServerStep, Echo!ClientStep, Echo!KernelStep
  <2> QED
    BY <2>1, <1>6

(* Joining sequences of bytes.                                              *)
LEMMA BytesJoin == \A x, y, z \in Seq(Nat) : (x \o y) \o z = x \o (y \o z)
<1> DEFINE T == Nat
<1> HIDE DEF T
<1>1. \A x, y, z \in Seq(T) : (x \o y) \o z = x \o (y \o z)
  BY Joined
<1> QED
  BY <1>1 DEF T

LEMMA BytesType == \A x, y \in Seq(Nat) : x \o y \in Seq(Nat) /\ <<>> \in Seq(Nat)
OBVIOUS

(* The last of four moves into a pair of brackets.                          *)
Rebracketed(w, x, y, z) == w \o (x \o (y \o z)) = (w \o (x \o y)) \o z

LEMMA BytesRegroup == \A w, x, y, z \in Seq(Nat) : Rebracketed(w, x, y, z)
<1> SUFFICES ASSUME NEW w \in Seq(Nat), NEW x \in Seq(Nat), NEW y \in Seq(Nat), NEW z \in Seq(Nat)
             PROVE  Rebracketed(w, x, y, z)
  OBVIOUS
<1>1. x \o (y \o z) = (x \o y) \o z
  BY BytesJoin, Zenon
<1>2. PICK v \in Seq(Nat) : v = x \o y
  BY BytesType, Zenon
<1>3. w \o (v \o z) = (w \o v) \o z
  BY BytesJoin, Zenon
<1> QED
  BY <1>1, <1>2, <1>3, Zenon DEF Rebracketed

LEMMA BytesEnds == \A x \in Seq(Nat) : x \o <<>> = x /\ <<>> \o x = x
OBVIOUS

LEMMA BytesBegin ==
  \A x, y, s \in Seq(Nat) :
      /\ x \o y = s => Child!IsPrefix(x, s)
      /\ Child!IsPrefix(x \o y, s) => Child!IsPrefix(x, s)
      /\ Child!IsPrefix(x, s) => Child!IsPrefix(x, s \o y)
<1> DEFINE T == Nat
<1> HIDE DEF T
<1>1. \A x, y, s \in Seq(T) :
          /\ x \o y = s => Child!IsPrefix(x, s)
          /\ Child!IsPrefix(x \o y, s) => Child!IsPrefix(x, s)
          /\ Child!IsPrefix(x, s) => Child!IsPrefix(x, s \o y)
  BY Beginning, Further
<1> QED
  BY <1>1 DEF T

(* What the parts of the stream are.                                        *)
LEMMA EchoPartTypes ==
  ASSUME Echo!MessagesAssumption, SequenceLaws, EchoTypes
  PROVE  /\ echoes \in Seq(Nat) /\ ServerHas \in Seq(Nat) /\ ClientHas \in Seq(Nat)
         /\ ServerSending \in Seq(Nat) /\ ClientSending \in Seq(Nat)
         /\ wire["server"] \in Seq(Nat) /\ wire["client"] \in Seq(Nat)
         /\ EchoHere \in Seq(Nat) /\ EchoThere \in Seq(Nat) /\ EchoHere \o EchoThere \in Seq(Nat)
         /\ EchoSent \in Seq(Nat)
<1>1. "server" \in Echo!Side /\ "client" \in Echo!Side
  BY DEF Echo!Side
<1>2. /\ echoes \in Seq(Nat) /\ wire["server"] \in Seq(Nat) /\ wire["client"] \in Seq(Nat)
      /\ sendBuf["server"] \in Seq(Nat) /\ sendBuf["client"] \in Seq(Nat)
      /\ buffer["server"] \in Seq(Nat) /\ buffer["client"] \in Seq(Nat)
      /\ message \in 1 .. Len(Messages)
  BY <1>1 DEF EchoTypes
<1>3. \A s \in Echo!Side : task[s] = "recv" => io[s].bytes \in Nat /\ io[s].bytes <= Len(buffer[s])
  BY DEF EchoTypes, EchoOps, Echo!Awaiting
<1>4. ServerHas \in Seq(Nat) /\ ClientHas \in Seq(Nat)
  <2>1. \A b \in Seq(Nat), n \in Nat : n <= Len(b) => SubSeq(b, 1, n) \in Seq(Nat)
    OBVIOUS
  <2>2. <<>> \in Seq(Nat)
    OBVIOUS
  <2> QED
    BY <1>1, <1>2, <1>3, <2>1, <2>2, Zenon DEF ServerHas, ClientHas
<1>5. ServerSending \in Seq(Nat) /\ ClientSending \in Seq(Nat)
  BY <1>2 DEF ServerSending, ClientSending
<1>6. \A a, b, x \in Seq(Nat) : a \o (b \o x) \in Seq(Nat) /\ a \o b \in Seq(Nat)
  OBVIOUS
<1>7. EchoHere \in Seq(Nat) /\ EchoThere \in Seq(Nat)
  BY <1>2, <1>4, <1>5, <1>6, Zenon DEF EchoHere, EchoThere
<1>8. EchoSent \in Seq(Nat)
  BY <1>2, SentGrows DEF EchoSent
<1> QED
  BY <1>2, <1>4, <1>5, <1>6, <1>7, <1>8, Zenon

(* A coroutine that runs moves its own side only.                           *)
LEMMA CoroutineRuns ==
  ASSUME EchoOps(task, io), NEW s \in Echo!Side, NEW c
  PROVE  /\ \A kind : Echo!Await(s, kind, c) => task'[s] = kind /\ io'[s] = Echo!Pending
         /\ Echo!AwaitThrows(s, c) => task'[s] = "threw" /\ io'[s] = None
         /\ \A how : Echo!TaskEnds(s, how, c) => task'[s] = how /\ io'[s] = None
         /\ \A kind, how : Echo!Await(s, kind, c) \/ Echo!AwaitThrows(s, c) \/ Echo!TaskEnds(s, how, c) =>
              \A q \in Echo!Side : q # s => task'[q] = task[q] /\ io'[q] = io[q]
BY DEF Echo!Await, Echo!AwaitThrows, Echo!TaskEnds, EchoOps

(* A reset cuts off what was on its way.                                    *)
LEMMA CutShort ==
  \A a, b, w, s \in Seq(Nat) : Child!IsPrefix(a \o (b \o w), s) =>
      Child!IsPrefix(a \o (b \o <<>>), s) /\ Child!IsPrefix((a \o b) \o (<<>> \o <<>>), s)
<1> SUFFICES ASSUME NEW a \in Seq(Nat), NEW b \in Seq(Nat), NEW w \in Seq(Nat),
                    NEW s \in Seq(Nat), Child!IsPrefix(a \o (b \o w), s)
             PROVE  Child!IsPrefix(a \o (b \o <<>>), s) /\ Child!IsPrefix((a \o b) \o (<<>> \o <<>>), s)
  BY Zenon
<1>1. a \o b \in Seq(Nat) /\ <<>> \in Seq(Nat)
  BY BytesType, Zenon
<1>2. (a \o b) \o w = a \o (b \o w)
  BY BytesJoin, Zenon
<1>3. Child!IsPrefix(a \o b, s)
  BY <1>1, <1>2, BytesBegin, Zenon
<1>4. b \o <<>> = b /\ <<>> \o <<>> = <<>> /\ (a \o b) \o <<>> = a \o b
  BY <1>1, BytesEnds, Zenon
<1> QED
  BY <1>3, <1>4, Zenon

(* Nothing has moved, or only what counts no more.                          *)
LEMMA OrderStays ==
  ASSUME EchoOrder, EchoHere' = EchoHere, EchoThere' = EchoThere \/ ServerEnded', message' = message,
         ClientSending' = ClientSending \/ ClientEnded', NoneSent' => NoneSent,
         NoneSent' = NoneSent \/ ClientEnded', broken' = broken,
         broken' => \A s \in Echo!Side : wire'[s] = <<>>,
         ServerEnded => ServerEnded', ClientEnded => ClientEnded'
  PROVE  EchoOrder'
<1>1. EchoSent' = EchoSent
  BY DEF EchoSent
<1> QED
  BY <1>1, Zenon DEF EchoOrder

(* The connection is gone, and with it what was on its way.                 *)
LEMMA OrderCut ==
  ASSUME broken', \A s \in Echo!Side : wire'[s] = <<>>, Child!IsPrefix(EchoHere', EchoSent'),
         NoneSent' => message' = 1
  PROVE  EchoOrder'
BY DEF EchoOrder

(* What a receive takes from the wire is in the buffer's beginning.         *)
LEMMA RecvMoves ==
  ASSUME Echo!MessagesAssumption, EchoTypes, NEW s \in Echo!Side, NEW n \in 1 .. BufferSize, n <= Len(wire[s]),
         buffer' = [buffer EXCEPT ![s] = SubSeq(wire[s], 1, n) \o SubSeq(@, n + 1, BufferSize)],
         wire' = [wire EXCEPT ![s] = SubSeq(@, n + 1, Len(@))]
  PROVE  /\ SubSeq(buffer'[s], 1, n) \o wire'[s] = wire[s]
         /\ SubSeq(buffer'[s], 1, n) \in Seq(Nat) /\ wire'[s] \in Seq(Nat)
         /\ \A q \in Echo!Side : q # s => buffer'[q] = buffer[q] /\ wire'[q] = wire[q]
         /\ wire[s] # <<>>
<1>1. /\ buffer \in [Echo!Side -> Seq(Nat)] /\ wire \in [Echo!Side -> Seq(Nat)]
      /\ Len(buffer[s]) = BufferSize /\ BufferSize \in Nat
  BY DEF EchoTypes, Echo!MessagesAssumption
<1>2. PICK w \in Seq(Nat), b \in Seq(Nat) : w = wire[s] /\ b = buffer[s]
  BY <1>1
<1>3. n \in Nat /\ n <= Len(w) /\ n <= Len(b) /\ Len(b) = BufferSize /\ n >= 1
  BY <1>1, <1>2
<1>4. \A x, y \in Seq(Nat), k \in Nat :
         k <= Len(x) /\ k <= Len(y) => CutFits(Nat, x, y, k)
  BY BufferFilled, Zenon
<1>5. CutFits(Nat, w, b, n)
  BY <1>3, <1>4
<1>6. /\ buffer'[s] = SubSeq(w, 1, n) \o SubSeq(b, n + 1, Len(b))
      /\ wire'[s] = SubSeq(w, n + 1, Len(w))
      /\ \A q \in Echo!Side : q # s => buffer'[q] = buffer[q] /\ wire'[q] = wire[q]
  <2>1. s \in DOMAIN buffer /\ s \in DOMAIN wire /\ DOMAIN buffer = Echo!Side /\ DOMAIN wire = Echo!Side
    BY <1>1
  <2>2. /\ buffer'[s] = SubSeq(wire[s], 1, n) \o SubSeq(buffer[s], n + 1, BufferSize)
        /\ wire'[s] = SubSeq(wire[s], n + 1, Len(wire[s]))
    BY <2>1, Zenon
  <2>3. \A q \in Echo!Side : q # s => buffer'[q] = buffer[q] /\ wire'[q] = wire[q]
    BY <2>1
  <2> QED
    BY <1>2, <1>3, <2>2, <2>3, Zenon
<1>7. wire[s] # <<>>
  BY <1>2, <1>3
<1> QED
  BY <1>2, <1>5, <1>6, <1>7, Zenon DEF CutFits

(* A step of one coroutine leaves the other's part of the stream.           *)
LEMMA OtherEnd ==
  ASSUME EchoOps(task, io), NEW c, buffer' = buffer
  PROVE  /\ \A kind, how :
              /\ Echo!Await("server", kind, c) \/ Echo!AwaitThrows("server", c) \/ Echo!TaskEnds("server", how, c)
              /\ sendBuf'["client"] = sendBuf["client"]
              => /\ ClientHas' = ClientHas /\ ClientSending' = ClientSending
                 /\ NoneSent' = NoneSent /\ ClientEnded' = ClientEnded
         /\ \A kind, how :
              /\ Echo!Await("client", kind, c) \/ Echo!AwaitThrows("client", c) \/ Echo!TaskEnds("client", how, c)
              /\ sendBuf'["server"] = sendBuf["server"]
              => /\ ServerHas' = ServerHas /\ ServerSending' = ServerSending
                 /\ ServerEnded' = ServerEnded
<1>1. "server" \in Echo!Side /\ "client" \in Echo!Side /\ "server" # "client"
  BY DEF Echo!Side
<1>2. ASSUME NEW kind, NEW how, sendBuf'["client"] = sendBuf["client"],
             Echo!Await("server", kind, c) \/ Echo!AwaitThrows("server", c) \/ Echo!TaskEnds("server", how, c)
      PROVE  /\ ClientHas' = ClientHas /\ ClientSending' = ClientSending
             /\ NoneSent' = NoneSent /\ ClientEnded' = ClientEnded
  <2>1. task'["client"] = task["client"] /\ io'["client"] = io["client"]
    BY <1>1, <1>2, CoroutineRuns, Zenon
  <2> QED
    BY <1>2, <2>1, Zenon DEF ClientHas, ClientSending, NoneSent, ClientEnded
<1>3. ASSUME NEW kind, NEW how, sendBuf'["server"] = sendBuf["server"],
             Echo!Await("client", kind, c) \/ Echo!AwaitThrows("client", c) \/ Echo!TaskEnds("client", how, c)
      PROVE  /\ ServerHas' = ServerHas /\ ServerSending' = ServerSending
             /\ ServerEnded' = ServerEnded
  <2>1. task'["server"] = task["server"] /\ io'["server"] = io["server"]
    BY <1>1, <1>3, CoroutineRuns, Zenon
  <2> QED
    BY <1>3, <2>1, Zenon DEF ServerHas, ServerSending, ServerEnded
<1> QED
  BY <1>2, <1>3

(* Every step keeps the parts of the stream one behind the other.           *)
LEMMA EchoOrderStep ==
  ASSUME Echo!MessagesAssumption, SequenceLaws, EchoTypes, EchoOrder, [Echo!Next]_echoVars
  PROVE  EchoOrder'
<1>i. EchoOps(task, io) /\ "server" \in Echo!Side /\ "client" \in Echo!Side
  BY DEF EchoTypes, Echo!Side
<1>t. /\ echoes \in Seq(Nat) /\ ServerHas \in Seq(Nat) /\ ClientHas \in Seq(Nat)
      /\ ServerSending \in Seq(Nat) /\ ClientSending \in Seq(Nat)
      /\ wire["server"] \in Seq(Nat) /\ wire["client"] \in Seq(Nat)
      /\ EchoHere \in Seq(Nat) /\ EchoThere \in Seq(Nat) /\ EchoHere \o EchoThere \in Seq(Nat)
      /\ EchoSent \in Seq(Nat)
  BY EchoPartTypes
<1>b. /\ Child!IsPrefix(EchoHere, EchoSent)
      /\ NoneSent => message = 1
      /\ broken => \A s \in Echo!Side : wire[s] = <<>>
  BY DEF EchoOrder
<1>6. CASE UNCHANGED echoVars
  <2>1. /\ EchoHere' = EchoHere /\ EchoThere' = EchoThere /\ ClientSending' = ClientSending /\ NoneSent' = NoneSent
        /\ ServerEnded' = ServerEnded /\ ClientEnded' = ClientEnded /\ UNCHANGED <<message, broken, wire>>
    BY <1>6, Zenon DEF echoVars, Echo!procVars, Echo!netVars, EchoHere, EchoThere, ServerHas, ClientHas, ServerSending,
       ClientSending, NoneSent, ServerEnded, ClientEnded
  <2> QED
    BY <1>b, <2>1, OrderStays
<1>7. CASE Echo!ServerStart \/ Echo!ServerAccepted \/ Echo!ServerSent
  <2>0. PICK c \in {0, Echo!Resumed("server")}, kind \in {"accept", "recv"} :
            Echo!Await("server", kind, c) \/ Echo!AwaitThrows("server", c)
    BY <1>7 DEF Echo!ServerStart, Echo!ServerAccepted, Echo!ServerSent
  <2>1. /\ UNCHANGED <<buffer, sendBuf, message, echoes, wire, broken>>
        /\ task["server"] \in {"created", "accept"} \/ (task["server"] = "send" /\ io["server"].done)
    BY <1>7 DEF Echo!ServerStart, Echo!ServerAccepted, Echo!ServerSent, Echo!InLoop, Echo!netVars
  <2>2. (task'["server"] = kind /\ io'["server"] = Echo!Pending) \/ task'["server"] = "threw"
    BY <1>i, <2>0, CoroutineRuns, Zenon
  <2>3. /\ ServerHas = <<>> /\ ServerSending = <<>> /\ ~ServerEnded
        /\ ServerHas' = <<>> /\ ServerSending' = <<>>
    BY <2>1, <2>2 DEF ServerHas, ServerSending, ServerEnded, Echo!Pending
  <2>4. /\ ClientHas' = ClientHas /\ ClientSending' = ClientSending
        /\ NoneSent' = NoneSent /\ ClientEnded' = ClientEnded
    BY <1>i, <2>0, <2>1, OtherEnd
  <2>5. EchoHere' = EchoHere /\ EchoThere' = EchoThere
    BY <2>1, <2>3, <2>4, Zenon DEF EchoHere, EchoThere
  <2> QED
    BY <1>b, <2>1, <2>3, <2>4, <2>5, OrderStays
<1>8. CASE Echo!ClientStart \/ Echo!ClientSent
  <2>0. PICK c \in {0, Echo!Resumed("client")} :
           \/ task["client"] = "created" /\ (Echo!Await("client", "connect", c) \/ Echo!AwaitThrows("client", c))
           \/ /\ task["client"] = "send" /\ io["client"].done
              /\ Echo!Await("client", "recv", c) \/ Echo!AwaitThrows("client", c)
    BY <1>8 DEF Echo!ClientStart, Echo!ClientSent, Echo!InLoop
  <2>1. UNCHANGED <<buffer, sendBuf, message, echoes, wire, broken>>
    BY <1>8 DEF Echo!ClientStart, Echo!ClientSent, Echo!netVars
  <2>2. \/ task["client"] = "created" /\ (task'["client"] = "connect" \/ task'["client"] = "threw")
        \/ /\ task["client"] = "send" /\ io["client"].done
           /\ (task'["client"] = "recv" /\ io'["client"] = Echo!Pending) \/ task'["client"] = "threw"
    BY <1>i, <2>0, CoroutineRuns, Zenon
  <2>3. /\ ClientHas = <<>> /\ ClientSending = <<>> /\ ~ClientEnded
        /\ ClientHas' = <<>> /\ ClientSending' = <<>>
        /\ NoneSent' => NoneSent
        /\ NoneSent' = NoneSent \/ ClientEnded'
    BY <2>2 DEF ClientHas, ClientSending, ClientEnded, NoneSent, Echo!Pending
  <2>4. ServerHas' = ServerHas /\ ServerSending' = ServerSending /\ ServerEnded' = ServerEnded
    BY <1>i, <2>0, <2>1, OtherEnd
  <2>5. EchoHere' = EchoHere /\ EchoThere' = EchoThere
    BY <2>1, <2>3, <2>4, Zenon DEF EchoHere, EchoThere
  <2> QED
    BY <1>b, <2>1, <2>3, <2>4, <2>5, OrderStays
<1>9. CASE Echo!CompleteConnect \/ Echo!CompleteAccept
  <2>1. /\ UNCHANGED <<task, buffer, sendBuf, message, echoes, wire, broken>>
        /\ \/ task["client"] = "connect" /\ io'["server"] = io["server"]
           \/ task["server"] = "accept" /\ io'["client"] = io["client"]
    BY <1>9, <1>i DEF Echo!CompleteConnect, Echo!CompleteAccept, Echo!Complete, Echo!netVars, EchoOps
  <2>2. /\ ServerHas' = ServerHas /\ ServerSending' = ServerSending /\ ServerEnded' = ServerEnded
        /\ ClientHas' = ClientHas /\ ClientSending' = ClientSending
        /\ NoneSent' = NoneSent /\ ClientEnded' = ClientEnded
    BY <2>1 DEF ServerHas, ServerSending, ServerEnded, ClientHas, ClientSending, NoneSent, ClientEnded
  <2>3. EchoHere' = EchoHere /\ EchoThere' = EchoThere
    BY <2>1, <2>2, Zenon DEF EchoHere, EchoThere
  <2> QED
    BY <1>b, <2>1, <2>2, <2>3, OrderStays
<1>e. \A b \in Seq(Nat) : SubSeq(b, 1, 0) = <<>>
  OBVIOUS
<1>f. buffer["server"] \in Seq(Nat) /\ buffer["client"] \in Seq(Nat)
  BY <1>i DEF EchoTypes
<1>s. ASSUME broken', wire' = [q \in Echo!Side |-> <<>>], UNCHANGED <<message, echoes>>,
             ClientHas' = ClientHas, NoneSent' = NoneSent
      PROVE  EchoOrder'
  <2>1. wire'["client"] = <<>> /\ \A q \in Echo!Side : wire'[q] = <<>>
    BY <1>i, <1>s, Zenon
  <2>2. EchoHere' = echoes \o (ClientHas \o <<>>) /\ EchoSent' = EchoSent
    BY <1>s, <2>1, Zenon DEF EchoHere, EchoSent
  <2>3. Child!IsPrefix(echoes \o (ClientHas \o <<>>), EchoSent)
    <3>1. Child!IsPrefix(echoes \o (ClientHas \o wire["client"]), EchoSent)
      BY <1>b, Zenon DEF EchoHere
    <3> QED
      BY <1>t, <3>1, CutShort, Zenon
  <2>4. NoneSent' => message' = 1
    BY <1>b, <1>s, Zenon
  <2> QED
    BY <1>s, <2>1, <2>2, <2>3, <2>4, OrderCut, Zenon
<1>10. CASE Echo!Reset
  <2>1. ClientHas' = ClientHas /\ NoneSent' = NoneSent
    BY <1>10, Zenon DEF Echo!Reset, Echo!procVars, ClientHas, NoneSent
  <2> QED
    BY <1>10, <1>s, <2>1 DEF Echo!Reset, Echo!procVars
<1>11. CASE Echo!CompleteRecv("client")
  <2>1. ASSUME NEW n \in 1 .. BufferSize, n <= Len(wire["client"]),
               Echo!Complete("client", "recv", n, FALSE),
               buffer' = [buffer EXCEPT !["client"] =
                            SubSeq(wire["client"], 1, n) \o SubSeq(@, n + 1, BufferSize)],
               wire' = [wire EXCEPT !["client"] = SubSeq(@, n + 1, Len(@))],
               UNCHANGED <<task, sendBuf, message, echoes, broken>>
        PROVE  EchoOrder'
    <3>1. /\ SubSeq(buffer'["client"], 1, n) \o wire'["client"] = wire["client"]
          /\ buffer'["server"] = buffer["server"] /\ wire'["server"] = wire["server"]
          /\ wire["client"] # <<>>
      <4>1. "server" # "client"
        OBVIOUS
      <4> QED
        BY <1>i, <2>1, <4>1, RecvMoves
    <3>2. /\ task["client"] = "recv" /\ ~io["client"].done /\ io'["client"] = Echo!Done(n, FALSE)
          /\ io'["server"] = io["server"]
      BY <1>i, <2>1 DEF Echo!Complete, Echo!Pending, EchoOps
    <3>3. io'["client"].done /\ io'["client"].bytes = n
      BY <3>2 DEF Echo!Done
    <3>4. /\ ClientHas = <<>> /\ ClientHas' = SubSeq(buffer'["client"], 1, n)
          /\ ClientSending = <<>> /\ ClientSending' = <<>>
      BY <2>1, <3>2, <3>3, Zenon DEF ClientHas, ClientSending
    <3>5. /\ ServerHas' = ServerHas /\ ServerSending' = ServerSending
          /\ ServerEnded' = ServerEnded /\ ClientEnded' = ClientEnded /\ NoneSent' = NoneSent
      <4>1. UNCHANGED <<task, sendBuf>>
        BY <2>1, Zenon
      <4> QED
        BY <3>1, <3>2, <4>1 DEF ServerHas, ServerSending, ServerEnded, ClientEnded, NoneSent
    <3>6. EchoHere' = EchoHere /\ EchoThere' = EchoThere
      <4>1. ClientHas \o wire["client"] = wire["client"]
        BY <1>t, <3>4, BytesEnds, Zenon
      <4> QED
        BY <2>1, <3>1, <3>4, <3>5, <4>1, Zenon DEF EchoHere, EchoThere
    <3>7. ~broken
      BY <1>b, <1>i, <3>1
    <3> QED
      BY <2>1, <3>4, <3>5, <3>6, <3>7, OrderStays
  <2>2. ASSUME Echo!Complete("client", "recv", 0, broken),
               UNCHANGED <<task, buffer, sendBuf, message, echoes, Echo!netVars>>
        PROVE  EchoOrder'
    <3>1. /\ task["client"] = "recv" /\ ~io["client"].done /\ io'["client"] = Echo!Done(0, broken)
          /\ io'["server"] = io["server"]
      BY <1>i, <2>2 DEF Echo!Complete, Echo!Pending, EchoOps
    <3>2. io'["client"].done /\ io'["client"].bytes = 0
      BY <3>1 DEF Echo!Done
    <3>3. /\ ClientHas = <<>> /\ ClientHas' = <<>> /\ ClientSending = <<>> /\ ClientSending' = <<>>
      BY <1>e, <1>f, <2>2, <3>1, <3>2, Zenon DEF ClientHas, ClientSending
    <3>4. /\ ServerHas' = ServerHas /\ ServerSending' = ServerSending
          /\ ServerEnded' = ServerEnded /\ ClientEnded' = ClientEnded /\ NoneSent' = NoneSent
      BY <2>2, <3>1, Zenon DEF ServerHas, ServerSending, ServerEnded, ClientEnded, NoneSent
    <3>5. EchoHere' = EchoHere /\ EchoThere' = EchoThere /\ UNCHANGED <<wire, broken>>
      BY <2>2, <3>3, <3>4, Zenon DEF EchoHere, EchoThere, Echo!netVars
    <3> QED
      BY <1>b, <2>2, <3>3, <3>4, <3>5, OrderStays
  <2> QED
    BY <1>11, <2>1, <2>2 DEF Echo!CompleteRecv
<1>12. CASE Echo!CompleteRecv("server")
  <2>1. ASSUME NEW n \in 1 .. BufferSize, n <= Len(wire["server"]),
               Echo!Complete("server", "recv", n, FALSE),
               buffer' = [buffer EXCEPT !["server"] =
                            SubSeq(wire["server"], 1, n) \o SubSeq(@, n + 1, BufferSize)],
               wire' = [wire EXCEPT !["server"] = SubSeq(@, n + 1, Len(@))],
               UNCHANGED <<task, sendBuf, message, echoes, broken>>
        PROVE  EchoOrder'
    <3>1. /\ SubSeq(buffer'["server"], 1, n) \o wire'["server"] = wire["server"]
          /\ buffer'["client"] = buffer["client"] /\ wire'["client"] = wire["client"]
          /\ wire["server"] # <<>>
      <4>1. "server" # "client"
        OBVIOUS
      <4> QED
        BY <1>i, <2>1, <4>1, RecvMoves
    <3>2. /\ task["server"] = "recv" /\ ~io["server"].done /\ io'["server"] = Echo!Done(n, FALSE)
          /\ io'["client"] = io["client"]
      BY <1>i, <2>1 DEF Echo!Complete, Echo!Pending, EchoOps
    <3>3. io'["server"].done /\ io'["server"].bytes = n
      BY <3>2 DEF Echo!Done
    <3>4. /\ ServerHas = <<>> /\ ServerHas' = SubSeq(buffer'["server"], 1, n)
          /\ ServerSending = <<>> /\ ServerSending' = <<>>
      BY <2>1, <3>2, <3>3, Zenon DEF ServerHas, ServerSending
    <3>5. /\ ClientHas' = ClientHas /\ ClientSending' = ClientSending
          /\ ServerEnded' = ServerEnded /\ ClientEnded' = ClientEnded /\ NoneSent' = NoneSent
      <4>1. UNCHANGED <<task, sendBuf>>
        BY <2>1, Zenon
      <4> QED
        BY <3>1, <3>2, <4>1 DEF ClientHas, ClientSending, ServerEnded, ClientEnded, NoneSent
    <3>6. EchoHere' = EchoHere /\ EchoThere' = EchoThere
      <4>1. ServerHas \o wire["server"] = wire["server"]
        BY <1>t, <3>4, BytesEnds, Zenon
      <4> QED
        BY <2>1, <3>1, <3>4, <3>5, <4>1, Zenon DEF EchoHere, EchoThere
    <3>7. ~broken
      BY <1>b, <1>i, <3>1
    <3> QED
      BY <2>1, <3>4, <3>5, <3>6, <3>7, OrderStays
  <2>2. ASSUME Echo!Complete("server", "recv", 0, broken),
               UNCHANGED <<task, buffer, sendBuf, message, echoes, Echo!netVars>>
        PROVE  EchoOrder'
    <3>1. /\ task["server"] = "recv" /\ ~io["server"].done /\ io'["server"] = Echo!Done(0, broken)
          /\ io'["client"] = io["client"]
      BY <1>i, <2>2 DEF Echo!Complete, Echo!Pending, EchoOps
    <3>2. io'["server"].done /\ io'["server"].bytes = 0
      BY <3>1 DEF Echo!Done
    <3>3. /\ ServerHas = <<>> /\ ServerHas' = <<>> /\ ServerSending = <<>> /\ ServerSending' = <<>>
      BY <1>e, <1>f, <2>2, <3>1, <3>2, Zenon DEF ServerHas, ServerSending
    <3>4. /\ ClientHas' = ClientHas /\ ClientSending' = ClientSending
          /\ ServerEnded' = ServerEnded /\ ClientEnded' = ClientEnded /\ NoneSent' = NoneSent
      BY <2>2, <3>1, Zenon DEF ClientHas, ClientSending, ServerEnded, ClientEnded, NoneSent
    <3>5. EchoHere' = EchoHere /\ EchoThere' = EchoThere /\ UNCHANGED <<wire, broken>>
      BY <2>2, <3>3, <3>4, Zenon DEF EchoHere, EchoThere, Echo!netVars
    <3> QED
      BY <1>b, <2>2, <3>3, <3>4, <3>5, OrderStays
  <2> QED
    BY <1>12, <2>1, <2>2 DEF Echo!CompleteRecv
<1>g. ASSUME NEW s \in Echo!Side, Echo!CompleteSend(s)
      PROVE  /\ task[s] = "send" /\ ~io[s].done /\ io'[s].done
             /\ \A q \in Echo!Side : q # s => io'[q] = io[q]
             /\ UNCHANGED <<task, buffer, sendBuf, message, echoes>>
             /\ \/ ~broken /\ broken' /\ wire' = [q \in Echo!Side |-> <<>>]
                \/ ~broken /\ broken' = broken /\ wire' = [wire EXCEPT ![Echo!Peer(s)] = @ \o sendBuf[s]]
                \/ broken /\ broken' = broken /\ wire' = wire
  <2>1. PICK n, e : Echo!Complete(s, "send", n, e)
    BY <1>g DEF Echo!CompleteSend
  <2>2. /\ task[s] = "send" /\ ~io[s].done /\ io'[s].done
        /\ \A q \in Echo!Side : q # s => io'[q] = io[q]
    BY <1>i, <2>1 DEF Echo!Complete, Echo!Pending, Echo!Done, EchoOps
  <2>3. broken \in BOOLEAN
    BY DEF EchoTypes
  <2>4. UNCHANGED <<task, buffer, sendBuf, message, echoes>>
    BY <1>g, Zenon DEF Echo!CompleteSend
  <2>5. \/ ~broken /\ broken' /\ wire' = [q \in Echo!Side |-> <<>>]
        \/ ~broken /\ broken' = broken /\ wire' = [wire EXCEPT ![Echo!Peer(s)] = @ \o sendBuf[s]]
        \/ broken /\ broken' = broken /\ wire' = wire
    BY <1>g, Zenon DEF Echo!CompleteSend, Echo!netVars
  <2> QED
    BY <2>2, <2>3, <2>4, <2>5, Zenon
<1>13. CASE Echo!CompleteSend("client")
  <2>0. Echo!Peer("client") = "server" /\ "server" # "client"
    BY DEF Echo!Peer
  <2>1. /\ task["client"] = "send" /\ ~io["client"].done /\ io'["client"].done
        /\ io'["server"] = io["server"] /\ UNCHANGED <<task, buffer, sendBuf, message, echoes>>
    BY <1>13, <1>g, <1>i, <2>0
  <2>2. /\ ServerHas' = ServerHas /\ ServerSending' = ServerSending
        /\ ServerEnded' = ServerEnded /\ ClientEnded' = ClientEnded /\ NoneSent' = NoneSent
        /\ ClientHas = <<>> /\ ClientHas' = <<>> /\ ClientSending = sendBuf["client"]
        /\ ClientSending' = <<>> /\ ~NoneSent /\ ~ClientEnded /\ EchoSent' = EchoSent
    BY <2>1 DEF ServerHas, ServerSending, ServerEnded, ClientEnded, NoneSent, ClientHas,
       ClientSending, EchoSent
  <2>3. CASE broken' /\ wire' = [q \in Echo!Side |-> <<>>]
    BY <1>s, <2>1, <2>2, <2>3
  <2>4. CASE broken /\ broken' = broken /\ wire' = wire
    <3>1. EchoHere' = EchoHere
      BY <2>1, <2>2, <2>4, Zenon DEF EchoHere
    <3>2. \A s \in Echo!Side : wire'[s] = <<>>
      BY <1>b, <2>4, Zenon
    <3>3. NoneSent' => message' = 1
      BY <2>2, Zenon
    <3>4. Child!IsPrefix(EchoHere', EchoSent')
      BY <1>b, <2>2, <3>1, Zenon
    <3> QED
      BY <2>4, <3>2, <3>3, <3>4, OrderCut, Zenon
  <2>5. CASE ~broken /\ broken' = broken /\ wire' = [wire EXCEPT !["server"] = @ \o sendBuf["client"]]
    <3>1. wire'["client"] = wire["client"] /\ wire'["server"] = wire["server"] \o ClientSending
      BY <1>i, <2>0, <2>2, <2>5 DEF EchoTypes
    <3>2. EchoHere' = EchoHere
      BY <2>1, <2>2, <3>1, Zenon DEF EchoHere
    <3>3. EchoThere' = EchoThere \o ClientSending
      <4>1. ServerSending \o (ServerHas \o (wire["server"] \o ClientSending)) =
              (ServerSending \o (ServerHas \o wire["server"])) \o ClientSending
        <5>1. /\ ServerSending \in Seq(Nat) /\ ServerHas \in Seq(Nat) /\ wire["server"] \in Seq(Nat)
              /\ ClientSending \in Seq(Nat)
          BY <1>t, Zenon
        <5>2. Rebracketed(ServerSending, ServerHas, wire["server"], ClientSending)
          BY <5>1, BytesRegroup, Zenon
        <5> QED
          BY <5>1, <5>2, Zenon DEF Rebracketed
      <4> QED
        BY <2>2, <3>1, <4>1, Zenon DEF EchoThere
    <3>4. (EchoHere \o EchoThere) \o ClientSending = EchoHere \o (EchoThere \o ClientSending)
      <4>1. EchoHere \in Seq(Nat) /\ EchoThere \in Seq(Nat) /\ ClientSending \in Seq(Nat)
        BY <1>t, Zenon
      <4> QED
        BY <4>1, BytesJoin, Zenon
    <3>5. ~ServerEnded => EchoHere' \o EchoThere' = EchoSent'
      <4>1. ~ServerEnded => (EchoHere \o EchoThere) \o ClientSending = EchoSent
        BY <2>2, <2>5, Zenon DEF EchoOrder
      <4> QED
        BY <2>2, <3>2, <3>3, <3>4, <4>1, Zenon
    <3>6. EchoSent' \o <<>> = EchoSent' /\ Child!IsPrefix(EchoSent', EchoSent')
      <4>1. EchoSent \o <<>> = EchoSent /\ <<>> \in Seq(Nat)
        BY <1>t, BytesEnds, BytesType, Zenon
      <4>2. Child!IsPrefix(EchoSent, EchoSent)
        BY <1>t, <4>1, BytesBegin, Zenon
      <4> QED
        BY <2>2, <4>1, <4>2, Zenon
    <3>7. Child!IsPrefix(EchoHere', EchoSent')
      BY <1>b, <2>2, <3>2, Zenon
    <3> QED
      BY <2>2, <2>5, <3>5, <3>6, <3>7, Zenon DEF EchoOrder
  <2> QED
    BY <1>13, <1>g, <1>i, <2>0, <2>3, <2>4, <2>5
<1>14. CASE Echo!CompleteSend("server")
  <2>0. Echo!Peer("server") = "client" /\ "server" # "client"
    BY DEF Echo!Peer
  <2>1. /\ task["server"] = "send" /\ ~io["server"].done /\ io'["server"].done
        /\ io'["client"] = io["client"] /\ UNCHANGED <<task, buffer, sendBuf, message, echoes>>
    BY <1>14, <1>g, <1>i, <2>0
  <2>2. /\ ClientHas' = ClientHas /\ ClientSending' = ClientSending
        /\ ServerEnded' = ServerEnded /\ ClientEnded' = ClientEnded /\ NoneSent' = NoneSent
        /\ ServerHas = <<>> /\ ServerHas' = <<>> /\ ServerSending = sendBuf["server"]
        /\ ServerSending' = <<>> /\ ~ServerEnded /\ EchoSent' = EchoSent
    BY <2>1 DEF ServerHas, ServerSending, ServerEnded, ClientEnded, NoneSent, ClientHas,
       ClientSending, EchoSent
  <2>3. CASE broken' /\ wire' = [q \in Echo!Side |-> <<>>]
    BY <1>s, <2>1, <2>2, <2>3
  <2>4. CASE broken /\ broken' = broken /\ wire' = wire
    <3>1. EchoHere' = EchoHere
      BY <2>1, <2>2, <2>4, Zenon DEF EchoHere
    <3>2. \A s \in Echo!Side : wire'[s] = <<>>
      BY <1>b, <2>4, Zenon
    <3>3. NoneSent' => message' = 1
      BY <1>b, <2>1, <2>2, Zenon
    <3>4. Child!IsPrefix(EchoHere', EchoSent')
      BY <1>b, <2>2, <3>1, Zenon
    <3> QED
      BY <2>4, <3>2, <3>3, <3>4, OrderCut, Zenon
  <2>5. CASE ~broken /\ broken' = broken /\ wire' = [wire EXCEPT !["client"] = @ \o sendBuf["server"]]
    <3>1. wire'["server"] = wire["server"] /\ wire'["client"] = wire["client"] \o ServerSending
      BY <1>i, <2>0, <2>2, <2>5 DEF EchoTypes
    <3>2. EchoHere' = EchoHere \o ServerSending
      <4>1. echoes \o (ClientHas \o (wire["client"] \o ServerSending)) =
              (echoes \o (ClientHas \o wire["client"])) \o ServerSending
        <5>1. /\ echoes \in Seq(Nat) /\ ClientHas \in Seq(Nat) /\ wire["client"] \in Seq(Nat)
              /\ ServerSending \in Seq(Nat)
          BY <1>t, Zenon
        <5>2. Rebracketed(echoes, ClientHas, wire["client"], ServerSending)
          BY <5>1, BytesRegroup, Zenon
        <5> QED
          BY <5>1, <5>2, Zenon DEF Rebracketed
      <4> QED
        BY <2>1, <2>2, <3>1, <4>1, Zenon DEF EchoHere
    <3>3. EchoThere = ServerSending \o EchoThere' /\ EchoThere' \in Seq(Nat)
      <4>1. <<>> \o wire["server"] = wire["server"]
        BY <1>t, BytesEnds, Zenon
      <4> QED
        BY <1>t, <2>2, <3>1, <4>1, Zenon DEF EchoThere
    <3>4. EchoHere' \o EchoThere' = EchoHere \o EchoThere
      <4>1. (EchoHere \o ServerSending) \o EchoThere' = EchoHere \o (ServerSending \o EchoThere')
        <5>1. EchoHere \in Seq(Nat) /\ ServerSending \in Seq(Nat) /\ EchoThere' \in Seq(Nat)
          BY <1>t, <3>3, Zenon
        <5> QED
          BY <5>1, BytesJoin, Zenon
      <4> QED
        BY <3>2, <3>3, <4>1, Zenon
    <3>5. Child!IsPrefix(EchoHere' \o EchoThere', EchoSent')
      <4>1. Child!IsPrefix(EchoHere \o EchoThere, EchoSent)
        BY <2>2, <2>5, Zenon DEF EchoOrder
      <4> QED
        BY <2>2, <3>4, <4>1, Zenon
    <3>6. Child!IsPrefix(EchoHere', EchoSent')
      <4>1. EchoHere' \in Seq(Nat)
        BY <1>t, <3>2, BytesType, Zenon
      <4>2. EchoSent' \in Seq(Nat)
        BY <1>t, <2>2, Zenon
      <4> QED
        BY <3>3, <3>5, <4>1, <4>2, BytesBegin, Zenon
    <3>7. NoneSent' => message' = 1
      BY <1>b, <2>1, <2>2, Zenon
    <3>8. ~ClientEnded => (EchoHere \o EchoThere) \o ClientSending = IF NoneSent THEN <<>> ELSE EchoSent
      BY <2>2, <2>5, Zenon DEF EchoOrder
    <3>9. ~ClientEnded' =>
            (EchoHere' \o EchoThere') \o ClientSending' = IF NoneSent' THEN <<>> ELSE EchoSent'
      BY <2>2, <3>4, <3>8, Zenon
    <3> QED
      BY <2>5, <3>5, <3>6, <3>7, <3>9, Zenon DEF EchoOrder
  <2> QED
    BY <1>14, <1>g, <1>i, <2>0, <2>3, <2>4, <2>5
<1>15. CASE Echo!ServerReceived
  <2>0. /\ Echo!Await("server", "send", Echo!Resumed("server")) \/ Echo!AwaitThrows("server", Echo!Resumed("server"))
        /\ task["server"] = "recv" /\ io["server"].done
        /\ sendBuf' = [sendBuf EXCEPT !["server"] = SubSeq(buffer["server"], 1, io["server"].bytes)]
        /\ UNCHANGED <<buffer, message, echoes, wire, broken>>
    BY <1>15 DEF Echo!ServerReceived, Echo!InLoop, Echo!netVars
  <2>1. ServerHas = SubSeq(buffer["server"], 1, io["server"].bytes) /\ ServerSending = <<>>
    BY <2>0, Zenon DEF ServerHas, ServerSending
  <2>2. sendBuf'["server"] = ServerHas /\ sendBuf'["client"] = sendBuf["client"]
    BY <1>i, <2>0, <2>1 DEF EchoTypes
  <2>3. \/ task'["server"] = "send" /\ io'["server"] = Echo!Pending
        \/ task'["server"] = "threw"
    BY <1>i, <2>0, CoroutineRuns, Zenon
  <2>4. /\ ClientHas' = ClientHas /\ ClientSending' = ClientSending
        /\ NoneSent' = NoneSent /\ ClientEnded' = ClientEnded
    BY <1>i, <2>0, <2>2, OtherEnd
  <2>5. /\ ~ServerEnded /\ ServerHas' = <<>>
        /\ ServerSending' = ServerHas \/ ServerEnded'
    <3>1. ~ServerEnded
      BY <2>0 DEF ServerEnded
    <3>2. ServerHas' = <<>>
      BY <2>3 DEF ServerHas
    <3>3. ServerSending' = sendBuf'["server"] \/ ServerEnded'
      BY <2>3 DEF ServerSending, ServerEnded, Echo!Pending
    <3> QED
      BY <2>2, <3>1, <3>2, <3>3, Zenon
  <2>6. EchoThere' = EchoThere \/ ServerEnded'
    <3>1. ServerHas \o wire["server"] \in Seq(Nat)
      BY <1>t, BytesType, Zenon
    <3>2. <<>> \o (ServerHas \o wire["server"]) = ServerHas \o wire["server"]
      BY <3>1, BytesEnds, Zenon
    <3>3. <<>> \o wire["server"] = wire["server"]
      BY <1>t, BytesEnds, Zenon
    <3> QED
      BY <2>0, <2>1, <2>5, <3>2, <3>3, Zenon DEF EchoThere
  <2>7. EchoHere' = EchoHere
    BY <2>0, <2>4, Zenon DEF EchoHere
  <2> QED
    BY <1>b, <2>0, <2>4, <2>5, <2>6, <2>7, OrderStays
<1>h. ASSUME NEW s \in Echo!Side, Echo!CloseSocket(s)
      PROVE  \/ broken' /\ wire' = [q \in Echo!Side |-> <<>>]
             \/ broken' = broken /\ wire' = wire
  <2>1. broken \in BOOLEAN
    BY DEF EchoTypes
  <2> QED
    BY <1>h, <2>1 DEF Echo!CloseSocket
<1>16. CASE Echo!ServerDisconnected
  <2>0. /\ Echo!TaskEnds("server", "returned", Echo!Resumed("server"))
        /\ task["server"] = "recv" /\ Echo!CloseSocket("server")
        /\ UNCHANGED <<buffer, sendBuf, message, echoes>>
    BY <1>16 DEF Echo!ServerDisconnected, Echo!InLoop
  <2>1. ServerEnded' /\ ~ServerEnded
    BY <1>i, <2>0, CoroutineRuns DEF ServerEnded
  <2>2. /\ ClientHas' = ClientHas /\ ClientSending' = ClientSending
        /\ NoneSent' = NoneSent /\ ClientEnded' = ClientEnded
    BY <1>i, <2>0, OtherEnd
  <2>3. CASE broken' /\ wire' = [q \in Echo!Side |-> <<>>]
    BY <1>s, <2>0, <2>2, <2>3
  <2>4. CASE broken' = broken /\ wire' = wire
    <3>1. EchoHere' = EchoHere
      BY <2>0, <2>2, <2>4, Zenon DEF EchoHere
    <3> QED
      BY <1>b, <2>0, <2>1, <2>2, <2>4, <3>1, OrderStays
  <2> QED
    BY <1>h, <1>i, <2>0, <2>3, <2>4
<1>17. CASE \E s \in Echo!Side : Echo!RunReturns(s)
  <2>0. PICK s \in Echo!Side : Echo!RunReturns(s)
    BY <1>17
  <2>1. UNCHANGED <<task, io, buffer, sendBuf, message, echoes>>
    BY <2>0 DEF Echo!RunReturns
  <2>2. /\ ServerHas' = ServerHas /\ ServerSending' = ServerSending /\ ServerEnded' = ServerEnded
        /\ ClientHas' = ClientHas /\ ClientSending' = ClientSending
        /\ NoneSent' = NoneSent /\ ClientEnded' = ClientEnded
    BY <2>1, Zenon DEF ServerHas, ServerSending, ServerEnded, ClientHas, ClientSending, NoneSent,
       ClientEnded
  <2>3. CASE broken' /\ wire' = [q \in Echo!Side |-> <<>>]
    BY <1>s, <2>1, <2>2, <2>3
  <2>4. CASE broken' = broken /\ wire' = wire
    <3>1. EchoHere' = EchoHere /\ EchoThere' = EchoThere
      BY <2>1, <2>2, <2>4, Zenon DEF EchoHere, EchoThere
    <3> QED
      BY <1>b, <2>1, <2>2, <2>4, <3>1, OrderStays
  <2> QED
    BY <1>h, <2>0, <2>3, <2>4 DEF Echo!RunReturns, Echo!netVars
<1>18. CASE Echo!ClientConnected
  <2>0. /\ task["client"] = "connect"
        /\ UNCHANGED <<buffer, message, echoes, wire, broken>>
        /\ \/ /\ Echo!Await("client", "send", Echo!Resumed("client"))
              /\ sendBuf' = [sendBuf EXCEPT !["client"] = Messages[1]]
           \/ /\ Echo!AwaitThrows("client", Echo!Resumed("client"))
              /\ sendBuf' = [sendBuf EXCEPT !["client"] = Messages[1]] \/ sendBuf' = sendBuf
    BY <1>18 DEF Echo!ClientConnected, Echo!SendMessage, Echo!InLoop, Echo!netVars
  <2>1. \/ task'["client"] = "send" /\ io'["client"] = Echo!Pending /\ sendBuf'["client"] = Messages[1]
        \/ task'["client"] = "threw"
    <3>1. \/ task'["client"] = "send" /\ io'["client"] = Echo!Pending
             /\ sendBuf' = [sendBuf EXCEPT !["client"] = Messages[1]]
          \/ task'["client"] = "threw"
      BY <1>i, <2>0, CoroutineRuns, Zenon
    <3> QED
      BY <1>i, <3>1 DEF EchoTypes
  <2>2. sendBuf'["server"] = sendBuf["server"]
    BY <1>i, <2>0 DEF EchoTypes
  <2>3. ServerHas' = ServerHas /\ ServerSending' = ServerSending /\ ServerEnded' = ServerEnded
    BY <1>i, <2>0, <2>2, OtherEnd
  <2>4. /\ ClientHas = <<>> /\ ClientSending = <<>> /\ ~ClientEnded /\ NoneSent
        /\ ClientHas' = <<>> /\ ~NoneSent'
        /\ ClientSending' = Messages[1] \/ ClientEnded'
    BY <2>0, <2>1 DEF ClientHas, ClientSending, ClientEnded, NoneSent, Echo!Pending
  <2>5. EchoHere' = EchoHere /\ EchoThere' = EchoThere
    BY <2>0, <2>3, <2>4, Zenon DEF EchoHere, EchoThere
  <2>6. EchoSent' = EchoSent /\ EchoSent = Messages[1]
    <3>1. message = 1 /\ 1 \in 1 .. Len(Messages)
      BY <1>b, <2>4 DEF Echo!MessagesAssumption
    <3>2. Child!FlattenSeq(SubSeq(Messages, 1, 1)) = Messages[1]
      BY <3>1, SentGrows
    <3> QED
      BY <2>0, <3>1, <3>2, Zenon DEF EchoSent
  <2>7. ~broken' /\ ~ServerEnded' /\ ~ClientEnded' =>
          (EchoHere' \o EchoThere') \o ClientSending' = EchoSent'
    <3> SUFFICES ASSUME ~broken', ~ServerEnded', ~ClientEnded'
                 PROVE  (EchoHere' \o EchoThere') \o ClientSending' = EchoSent'
      OBVIOUS
    <3>1. (EchoHere \o EchoThere) \o <<>> = <<>>
      BY <2>0, <2>3, <2>4, Zenon DEF EchoOrder
    <3>2. EchoHere \o EchoThere = <<>>
      BY <1>t, <3>1, BytesEnds, Zenon
    <3>3. <<>> \o EchoSent = EchoSent
      BY <1>t, BytesEnds, Zenon
    <3> QED
      BY <2>4, <2>5, <2>6, <3>2, <3>3, Zenon
  <2>8. /\ Child!IsPrefix(EchoHere', EchoSent')
        /\ ~broken' /\ ~ServerEnded' => Child!IsPrefix(EchoHere' \o EchoThere', EchoSent')
        /\ broken' => \A s \in Echo!Side : wire'[s] = <<>>
    BY <2>0, <2>3, <2>5, <2>6, Zenon DEF EchoOrder
  <2> QED
    BY <2>4, <2>7, <2>8, Zenon DEF EchoOrder
<1>19. CASE Echo!ClientReceived
  <2>0. /\ task["client"] = "recv" /\ io["client"].done /\ UNCHANGED buffer
        /\ echoes' = echoes \o SubSeq(buffer["client"], 1, io["client"].bytes)
    BY <1>19 DEF Echo!ClientReceived, Echo!InLoop
  <2>1. /\ ClientHas = SubSeq(buffer["client"], 1, io["client"].bytes) /\ ClientSending = <<>>
        /\ ~NoneSent /\ ~ClientEnded
    BY <2>0 DEF ClientHas, ClientSending, NoneSent, ClientEnded
  <2>2. echoes' = echoes \o ClientHas
    BY <2>0, <2>1, Zenon
  <2>3. (echoes \o ClientHas) \o (<<>> \o wire["client"]) = EchoHere
    <3>1. <<>> \o wire["client"] = wire["client"]
      BY <1>t, BytesEnds, Zenon
    <3>2. echoes \in Seq(Nat) /\ ClientHas \in Seq(Nat) /\ wire["client"] \in Seq(Nat)
      BY <1>t, Zenon
    <3>3. (echoes \o ClientHas) \o wire["client"] = echoes \o (ClientHas \o wire["client"])
      BY <3>2, BytesJoin, Zenon
    <3> QED
      BY <3>1, <3>3, Zenon DEF EchoHere
  <2>4. CASE /\ message < Len(Messages) /\ message' = message + 1
             /\ Echo!SendMessage(message + 1, Echo!Resumed("client")) /\ UNCHANGED Echo!netVars
    <3>0. /\ Echo!Await("client", "send", Echo!Resumed("client")) \/ Echo!AwaitThrows("client", Echo!Resumed("client"))
          /\ sendBuf' = [sendBuf EXCEPT !["client"] = Messages[message + 1]]
          /\ UNCHANGED <<wire, broken>>
      BY <2>4 DEF Echo!SendMessage, Echo!netVars
    <3>1. /\ sendBuf'["client"] = Messages[message + 1] /\ sendBuf'["server"] = sendBuf["server"]
      BY <1>i, <3>0 DEF EchoTypes
    <3>2. \/ task'["client"] = "send" /\ io'["client"] = Echo!Pending
          \/ task'["client"] = "threw"
      BY <1>i, <3>0, CoroutineRuns, Zenon
    <3>3. ServerHas' = ServerHas /\ ServerSending' = ServerSending /\ ServerEnded' = ServerEnded
      BY <1>i, <2>0, <3>0, <3>1, OtherEnd
    <3>4. ClientHas' = <<>> /\ ~NoneSent'
      BY <3>2 DEF ClientHas, NoneSent
    <3>5. ClientSending' = Messages[message + 1] \/ ClientEnded'
      <4>1. ClientSending' = sendBuf'["client"] \/ ClientEnded'
        BY <3>2 DEF ClientSending, ClientEnded, Echo!Pending
      <4> QED
        BY <3>1, <4>1, Zenon
    <3>6. EchoHere' = EchoHere /\ EchoThere' = EchoThere
      BY <2>2, <2>3, <3>0, <3>3, <3>4, Zenon DEF EchoHere, EchoThere
    <3>7. EchoSent' = EchoSent \o Messages[message + 1] /\ Messages[message + 1] \in Seq(Nat)
      <4>1. message \in 1 .. Len(Messages) /\ message + 1 \in 1 .. Len(Messages)
        BY <2>4 DEF EchoTypes, Echo!MessagesAssumption
      <4>2. Child!FlattenSeq(SubSeq(Messages, 1, message + 1))
              = Child!FlattenSeq(SubSeq(Messages, 1, message)) \o Messages[message + 1]
        BY <2>4, <4>1, SentGrows
      <4>3. Messages[message + 1] \in Seq(Nat)
        BY <4>1, SentGrows
      <4> QED
        BY <2>4, <4>2, <4>3, Zenon DEF EchoSent
    <3>8. /\ Child!IsPrefix(EchoHere', EchoSent')
          /\ ~broken' /\ ~ServerEnded' => Child!IsPrefix(EchoHere' \o EchoThere', EchoSent')
      <4>1. EchoHere \in Seq(Nat) /\ EchoHere \o EchoThere \in Seq(Nat) /\ EchoSent \in Seq(Nat)
        BY <1>t, Zenon
      <4>2. Child!IsPrefix(EchoHere, EchoSent \o Messages[message + 1])
        BY <1>b, <3>7, <4>1, BytesBegin, Zenon
      <4>3. Child!IsPrefix(EchoHere \o EchoThere, EchoSent) => Child!IsPrefix(EchoHere \o EchoThere, EchoSent \o Messages[message + 1])
        BY <3>7, <4>1, BytesBegin, Zenon
      <4>4. ~broken' /\ ~ServerEnded' => Child!IsPrefix(EchoHere \o EchoThere, EchoSent)
        BY <3>0, <3>3, Zenon DEF EchoOrder
      <4> QED
        BY <3>6, <3>7, <4>2, <4>3, <4>4, Zenon
    <3>9. ~broken' /\ ~ServerEnded' /\ ~ClientEnded' =>
            (EchoHere' \o EchoThere') \o ClientSending' = EchoSent'
      <4> SUFFICES ASSUME ~broken', ~ServerEnded', ~ClientEnded'
                   PROVE  (EchoHere' \o EchoThere') \o ClientSending' = EchoSent'
        OBVIOUS
      <4>1. (EchoHere \o EchoThere) \o <<>> = EchoSent
        BY <2>1, <3>0, <3>3, Zenon DEF EchoOrder
      <4>2. EchoHere \o EchoThere = EchoSent
        BY <1>t, <4>1, BytesEnds, Zenon
      <4> QED
        BY <3>5, <3>6, <3>7, <4>2, Zenon
    <3>10. broken' => \A s \in Echo!Side : wire'[s] = <<>>
      BY <1>b, <3>0, Zenon
    <3> QED
      BY <3>4, <3>8, <3>9, <3>10, Zenon DEF EchoOrder
  <2>5. CASE /\ Echo!CloseSocket("client") /\ Echo!TaskEnds("client", "returned", Echo!Resumed("client"))
             /\ UNCHANGED <<message, sendBuf>>
    <3>1. task'["client"] = "returned"
      BY <1>i, <2>5, CoroutineRuns
    <3>2. ServerHas' = ServerHas /\ ServerSending' = ServerSending /\ ServerEnded' = ServerEnded
      BY <1>i, <2>0, <2>5, OtherEnd
    <3>3. ClientHas' = <<>> /\ ClientEnded' /\ ~NoneSent' /\ EchoSent' = EchoSent
      BY <2>5, <3>1 DEF ClientHas, ClientEnded, NoneSent, EchoSent
    <3>4. CASE broken' /\ wire' = [q \in Echo!Side |-> <<>>]
      <4>1. wire'["client"] = <<>> /\ \A s \in Echo!Side : wire'[s] = <<>>
        BY <1>i, <3>4, Zenon
      <4>2. EchoHere' = (echoes \o ClientHas) \o (<<>> \o <<>>)
        BY <2>2, <3>3, <4>1, Zenon DEF EchoHere
      <4>3. Child!IsPrefix(echoes \o (ClientHas \o wire["client"]), EchoSent)
        BY <1>b, Zenon DEF EchoHere
      <4>4. Child!IsPrefix((echoes \o ClientHas) \o (<<>> \o <<>>), EchoSent)
        BY <1>t, <4>3, CutShort, Zenon
      <4> QED
        BY <3>3, <3>4, <4>1, <4>2, <4>4, OrderCut, Zenon
    <3>5. CASE broken' = broken /\ wire' = wire
      <4>1. EchoHere' = EchoHere /\ EchoThere' = EchoThere
        BY <2>2, <2>3, <3>2, <3>3, <3>5, Zenon DEF EchoHere, EchoThere
      <4> QED
        BY <1>b, <2>1, <2>5, <3>2, <3>3, <3>5, <4>1, OrderStays
    <3> QED
      BY <1>h, <1>i, <2>5, <3>4, <3>5
  <2> QED
    BY <1>19, <2>4, <2>5 DEF Echo!ClientReceived
<1> QED
  <2>0. Echo!Quiescent => UNCHANGED echoVars
    BY DEF Echo!Quiescent, Echo!vars, Echo!procVars, Echo!netVars, echoVars
  <2>1. CASE Echo!Next
    BY <2>0, <2>1, <1>6, <1>7, <1>8, <1>9, <1>10, <1>11, <1>12, <1>13, <1>14, <1>15, <1>16, <1>17,
       <1>18, <1>19, Zenon
       DEF Echo!Next, Echo!ServerStep, Echo!ClientStep, Echo!KernelStep, Echo!Side
  <2> QED
    BY <2>1, <1>6

(* At first nothing has been sent.                                          *)
LEMMA EchoInit ==
  ASSUME Echo!MessagesAssumption, SequenceLaws, Echo!Init
  PROVE  EchoTypes /\ EchoOrder
<1>n. Len(Messages) \in Nat /\ Len(Messages) > 0 /\ BufferSize \in Nat \ {0}
  BY DEF Echo!MessagesAssumption
<1>1. EchoTypes
  <2>1. [i \in 1 .. BufferSize |-> 0] \in Seq(Nat) /\ Len([i \in 1 .. BufferSize |-> 0]) = BufferSize
    BY <1>n
  <2>2. buffer \in [Echo!Side -> Seq(Nat)] /\ \A s \in Echo!Side : Len(buffer[s]) = BufferSize
    BY <2>1 DEF Echo!Init
  <2>3. message \in 1 .. Len(Messages)
    BY <1>n DEF Echo!Init
  <2>4. EchoOps(task, io)
    BY DEF Echo!Init, EchoOps, Echo!Awaiting
  <2>5. sendBuf \in [Echo!Side -> Seq(Nat)] /\ wire \in [Echo!Side -> Seq(Nat)] /\ echoes \in Seq(Nat)
    BY DEF Echo!Init
  <2> QED
    BY <2>2, <2>3, <2>4, <2>5 DEF Echo!Init, EchoTypes
<1>2. "server" \in Echo!Side /\ "client" \in Echo!Side
  BY DEF Echo!Side
<1>3. task["client"] = "created" /\ task["server"] = "created" /\ \A s \in Echo!Side : wire[s] = <<>>
  BY <1>2 DEF Echo!Init
<1>4. /\ ServerHas = <<>> /\ ClientHas = <<>> /\ ServerSending = <<>> /\ ClientSending = <<>>
      /\ echoes = <<>> /\ wire["server"] = <<>> /\ wire["client"] = <<>>
      /\ NoneSent /\ message = 1
  BY <1>2, <1>3 DEF Echo!Init, ServerHas, ClientHas, ServerSending, ClientSending, NoneSent
<1>5. EchoSent \in Seq(Nat)
  BY <1>1, EchoPartTypes
<1>6. <<>> \o <<>> = <<>> /\ <<>> \in Seq(Nat)
  OBVIOUS
<1>7. EchoHere = <<>> /\ EchoThere = <<>> /\ EchoHere \o EchoThere = <<>> /\ (EchoHere \o EchoThere) \o ClientSending = <<>>
  BY <1>4, <1>6, Zenon DEF EchoHere, EchoThere
<1>8. Child!IsPrefix(<<>>, EchoSent)
  <2>1. <<>> \o EchoSent = EchoSent
    BY <1>5, BytesEnds, Zenon
  <2> QED
    BY <1>5, <1>6, <2>1, BytesBegin, Zenon
<1> QED
  BY <1>1, <1>3, <1>4, <1>7, <1>8, Zenon DEF EchoOrder

(* What the client has received is the beginning of what it has sent.       *)
LEMMA EchoReturns ==
  ASSUME Echo!MessagesAssumption, SequenceLaws, EchoTypes, EchoOrder
  PROVE  Echo!EchoIsPrefix
<1>1. /\ echoes \in Seq(Nat) /\ ClientHas \o wire["client"] \in Seq(Nat) /\ EchoSent \in Seq(Nat)
  BY EchoPartTypes, BytesType
<1>2. Child!IsPrefix(echoes \o (ClientHas \o wire["client"]), EchoSent)
  BY Zenon DEF EchoOrder, EchoHere
<1>3. Child!IsPrefix(echoes, EchoSent)
  BY <1>1, <1>2, BytesBegin, Zenon
<1>4. Echo!EchoIsPrefix <=> Child!IsPrefix(echoes, EchoSent)
  BY DEF Echo!EchoIsPrefix, EchoSent, Echo!IsPrefix, Child!IsPrefix, Echo!FlattenSeq,
         Child!FlattenSeq
<1> QED
  BY <1>3, <1>4

-----------------------------------------------------------------------------
(* SecureSocket: what is written to the file is what the server answered.   *)
CONSTANTS MaxPacket, ReadSize, HandshakeSizes, Responses
VARIABLES phase, incoming, handshaken, decrypted, buf, received, myfile, kept, asked, answer,
          script, stream, server, ending

Tls == INSTANCE TlsClient

tlsVars == <<phase, incoming, handshaken, decrypted, buf, received, myfile, kept, asked, answer,
             script, stream, server, ending>>

Byte == Nat
Kind == {"handshake", "data", "ticket", "alert"}
Record == {r \in [kind : Kind, bytes : Seq(Byte)] : Len(r.bytes) \in 1 .. MaxPacket}
Unit == [kind : Kind, byte : Byte, first : BOOLEAN, last : BOOLEAN]

(* The records of a sequence, taken apart.                                  *)
Pieces(rs) == [k \in DOMAIN rs |-> Tls!Units(rs[k])]
AllUnits(rs) == Child!FlattenSeq(Pieces(rs))

-----------------------------------------------------------------------------
(* FlattenSeq of two sequences, one behind the other.                       *)
LEMMA FlattenConcat ==
    ASSUME SequenceLaws, NEW S, NEW p \in Seq(Seq(S)), NEW q \in Seq(Seq(S))
    PROVE  Child!FlattenSeq(p \o q) = Child!FlattenSeq(p) \o Child!FlattenSeq(q)
<1> DEFINE F(s) == Child!FlattenSeq(s)
           T == Seq(S)
           Splits(r) == F(p \o r) = F(p) \o F(r)
           N == {n \in Nat : \A r \in Seq(T) : Len(r) = n => Splits(r)}
<1>a. \A f \in Seq(T), x \in T :
        F(<<>>) = <<>> /\ F(f) \in T /\ F(Append(f, x)) = F(f) \o x
  BY DEF SequenceLaws, FlattenLaw
<1> HIDE DEF F
<1>b. p \in Seq(T) /\ \A x, y, z \in T : (x \o y) \o z = x \o (y \o z)
  <2>1. \A x, y, z \in Seq(S) : (x \o y) \o z = x \o (y \o z)
    <3>1. \A x, y, z \in Seq(S) : Regroup(x, y, z)
      BY Regroups, Zenon
    <3> QED
      BY <3>1, Zenon DEF Regroup
  <2> QED
    BY <2>1, Zenon
<1>d. <<>> \in T /\ \A x \in T : x \o <<>> = x
  OBVIOUS
<1>c. \A f \in Seq(T), x \in T : p \o Append(f, x) = Append(p \o f, x) /\ p \o f \in Seq(T)
      /\ Len(Append(f, x)) = Len(f) + 1 /\ p \o <<>> = p
  <2> HIDE DEF T
  <2> QED
    BY <1>b, AppendLast, Joined
<1> HIDE DEF T
<1>1. 0 \in N
  <2> SUFFICES ASSUME NEW r \in Seq(T), Len(r) = 0 PROVE Splits(r)
    OBVIOUS
  <2>1. r = <<>>
    OBVIOUS
  <2>2. F(<<>>) = <<>> /\ F(p) \in T /\ p \o <<>> = p
    <3>0. \E x : x \in T
      BY <1>d
    <3>1. F(<<>>) = <<>> /\ F(p) \in T
      BY <1>a, <1>b, <3>0, Zenon
    <3>2. p \o <<>> = p
      BY <1>b, Joined
    <3> QED
      BY <3>1, <3>2
  <2>3. F(p) \o <<>> = F(p)
    BY <1>d, <2>2, Zenon
  <2> QED
    BY <2>1, <2>2, <2>3, Zenon
<1>2. ASSUME NEW n \in N PROVE n + 1 \in N
  <2>1. n \in Nat /\ \A r \in Seq(T) : Len(r) = n => Splits(r)
    OBVIOUS
  <2>2. ASSUME NEW r \in Seq(T), Len(r) = n + 1 PROVE Splits(r)
    <3>1. r # <<>>
      BY <2>1, <2>2
    <3>2. PICK f \in Seq(T), x \in T : r = Append(f, x)
      BY <3>1, SequenceEmptyOrAppend
    <3>3. Len(f) = n
      BY <1>c, <2>1, <2>2, <3>2
    <3>4. F(p \o f) = F(p) \o F(f)
      BY <2>1, <3>3
    <3>5. F(p \o r) = F(p \o f) \o x /\ F(r) = F(f) \o x
      <4>1. p \o f \in Seq(T) /\ p \o r = Append(p \o f, x)
        BY <1>c, <3>2, Zenon
      <4>2. F(Append(p \o f, x)) = F(p \o f) \o x /\ F(Append(f, x)) = F(f) \o x
        BY <1>a, <3>2, <4>1, Zenon
      <4> QED
        BY <3>2, <4>1, <4>2, Zenon
    <3>6. (F(p) \o F(f)) \o x = F(p) \o (F(f) \o x)
      <4>1. F(p) \in T /\ F(f) \in T /\ x \in T
        BY <1>a, <1>b, <3>2, Zenon
      <4> QED
        BY <1>b, <4>1, Zenon
    <3> QED
      BY <3>4, <3>5, <3>6, Zenon
  <2> HIDE DEF Splits
  <2> QED
    BY <2>1, <2>2
<1>3. N = Nat
  <2> HIDE DEF N
  <2>1. N \subseteq Nat
    BY DEF N
  <2> QED
    BY <1>1, <1>2, <2>1 DEF SequenceLaws, NatLaw
<1>4. q \in Seq(T) /\ Len(q) \in N
  BY <1>3 DEF T
<1> QED
  BY <1>4 DEF F

(* What has the elements of two sequences, one behind the other, is both.   *)
LEMMA JoinIs ==
    ASSUME NEW T, NEW p \in Seq(T), NEW q \in Seq(T), NEW r \in Seq(T),
           Len(r) = Len(p) + Len(q),
           \A k \in 1 .. Len(p) : r[k] = p[k],
           \A k \in 1 .. Len(q) : r[Len(p) + k] = q[k]
    PROVE  r = p \o q
<1>1. p \o q \in Seq(T) /\ Len(p \o q) = Len(p) + Len(q) /\ Len(p) \in Nat /\ Len(q) \in Nat
  OBVIOUS
<1>2. ASSUME NEW k \in 1 .. Len(p) + Len(q) PROVE r[k] = (p \o q)[k]
  <2>1. (p \o q)[k] = IF k <= Len(p) THEN p[k] ELSE q[k - Len(p)]
    OBVIOUS
  <2>2. CASE k <= Len(p)
    BY <2>1, <2>2
  <2>3. CASE ~(k <= Len(p))
    <3>1. k - Len(p) \in 1 .. Len(q) /\ Len(p) + (k - Len(p)) = k
      BY <1>1, <2>3
    <3>2. r[Len(p) + (k - Len(p))] = q[k - Len(p)]
      BY <3>1
    <3> QED
      BY <2>1, <2>3, <3>1, <3>2
  <2> QED
    BY <2>2, <2>3
<1> QED
  BY <1>1, <1>2, SeqEqual

(* A record and its units.                                                  *)
LEMMA UnitsOf ==
    ASSUME NEW r \in Record
    PROVE  /\ Tls!Units(r) \in Seq(Unit) /\ Len(Tls!Units(r)) = Len(r.bytes)
           /\ Len(r.bytes) \in 1 .. MaxPacket /\ r.bytes \in Seq(Byte)
           /\ \A i \in 1 .. Len(r.bytes) :
                 /\ Tls!Units(r)[i].kind = r.kind
                 /\ Tls!Units(r)[i].byte = r.bytes[i]
                 /\ Tls!Units(r)[i].first <=> i = 1
                 /\ Tls!Units(r)[i].last <=> i = Len(r.bytes)
<1>1. r.kind \in Kind /\ r.bytes \in Seq(Byte) /\ Len(r.bytes) \in 1 .. MaxPacket
  BY DEF Record
<1>2. DOMAIN r.bytes = 1 .. Len(r.bytes) /\ Len(r.bytes) \in Nat
      /\ \A i \in 1 .. Len(r.bytes) : r.bytes[i] \in Byte
  <2> HIDE DEF Byte
  <2> QED
    BY <1>1
<1>3. Tls!Units(r) \in [1 .. Len(r.bytes) -> Unit]
  BY <1>1, <1>2 DEF Tls!Units, Unit
<1>4. Tls!Units(r) \in Seq(Unit) /\ Len(Tls!Units(r)) = Len(r.bytes)
  <2> PICK u : u = Tls!Units(r)
    OBVIOUS
  <2>1. u \in [1 .. Len(r.bytes) -> Unit]
    BY <1>3
  <2>2. u \in Seq(Unit) /\ Len(u) = Len(r.bytes)
    BY <1>2, <2>1
  <2> QED
    BY <2>2
<1> QED
  BY <1>1, <1>2, <1>4 DEF Tls!Units

(* The units of two sequences of records, one behind the other.             *)
LEMMA AllUnitsOf ==
    ASSUME SequenceLaws, NEW a \in Seq(Record), NEW b \in Seq(Record)
    PROVE  /\ AllUnits(a) \in Seq(Unit) /\ AllUnits(<<>>) = <<>>
           /\ AllUnits(a \o b) = AllUnits(a) \o AllUnits(b)
<1> DEFINE T == Seq(Unit)
           U(r) == Tls!Units(r)
<1>1. \A r \in Record : U(r) \in T
  BY UnitsOf
<1> HIDE DEF T, U
<1>2. \A s \in Seq(Record) : /\ Pieces(s) \in Seq(T) /\ Len(Pieces(s)) = Len(s)
                             /\ \A k \in 1 .. Len(s) : Pieces(s)[k] = U(s[k])
  <2> SUFFICES ASSUME NEW s \in Seq(Record)
               PROVE  /\ Pieces(s) \in Seq(T) /\ Len(Pieces(s)) = Len(s)
                      /\ \A k \in 1 .. Len(s) : Pieces(s)[k] = U(s[k])
    OBVIOUS
  <2>1. Len(s) \in Nat /\ DOMAIN s = 1 .. Len(s) /\ \A k \in DOMAIN s : s[k] \in Record
    OBVIOUS
  <2>2. Pieces(s) = [k \in 1 .. Len(s) |-> U(s[k])]
    BY <2>1 DEF Pieces, U
  <2>3. Pieces(s) \in [1 .. Len(s) -> T]
    BY <1>1, <2>1, <2>2
  <2>4. Pieces(s) \in Seq(T) /\ Len(Pieces(s)) = Len(s)
    <3> HIDE DEF Pieces
    <3> QED
      BY <2>1, <2>3
  <2> QED
    BY <2>2, <2>4
<1>3. Pieces(a \o b) = Pieces(a) \o Pieces(b)
  <2> DEFINE c == a \o b
             p == Pieces(a)
             q == Pieces(b)
             r == Pieces(c)
  <2>1. /\ c \in Seq(Record) /\ Len(c) = Len(a) + Len(b)
        /\ \A k \in 1 .. Len(a) : c[k] = a[k]
        /\ \A k \in 1 .. Len(b) : c[Len(a) + k] = b[k]
    OBVIOUS
  <2> HIDE DEF c
  <2>2. /\ p \in Seq(T) /\ Len(p) = Len(a) /\ \A k \in 1 .. Len(a) : p[k] = U(a[k])
        /\ q \in Seq(T) /\ Len(q) = Len(b) /\ \A k \in 1 .. Len(b) : q[k] = U(b[k])
        /\ r \in Seq(T) /\ Len(r) = Len(a) + Len(b)
        /\ \A k \in 1 .. Len(a) + Len(b) : r[k] = U(c[k])
    BY <1>2, <2>1
  <2> HIDE DEF p, q, r
  <2>3. Len(a) \in Nat /\ Len(b) \in Nat
    OBVIOUS
  <2>4. \A k \in 1 .. Len(a) : r[k] = p[k]
    BY <2>1, <2>2, <2>3
  <2>5. \A k \in 1 .. Len(b) : r[Len(a) + k] = q[k]
    BY <2>1, <2>2, <2>3
  <2>6. r = p \o q
    <3>1. p \in Seq(T) /\ q \in Seq(T) /\ r \in Seq(T)
      BY <2>2
    <3>2. /\ Len(r) = Len(p) + Len(q)
          /\ \A k \in 1 .. Len(p) : r[k] = p[k]
          /\ \A k \in 1 .. Len(q) : r[Len(p) + k] = q[k]
      BY <2>2, <2>4, <2>5
    <3> QED
      BY <3>1, <3>2, JoinIs
  <2> QED
    BY <2>6 DEF p, q, r, c
<1>4. /\ Child!FlattenSeq(Pieces(a)) \in Seq(Unit)
      /\ Child!FlattenSeq(Pieces(a) \o Pieces(b))
           = Child!FlattenSeq(Pieces(a)) \o Child!FlattenSeq(Pieces(b))
  <2>1. Pieces(a) \in Seq(Seq(Unit)) /\ Pieces(b) \in Seq(Seq(Unit))
    BY <1>2 DEF T
  <2>2. Child!FlattenSeq(Pieces(a)) \in Seq(Unit)
    <3>1. <<>> \in Seq(Unit)
      OBVIOUS
    <3> QED
      BY <2>1, <3>1, Zenon DEF SequenceLaws, FlattenLaw
  <2>3. \A p, q \in Seq(Seq(Unit)) :
           Child!FlattenSeq(p \o q) = Child!FlattenSeq(p) \o Child!FlattenSeq(q)
    BY FlattenConcat
  <2> QED
    BY <2>1, <2>2, <2>3, Zenon
<1>5. Pieces(<<>>) = <<>>
  <2>1. <<>> \in Seq(Record) /\ Len(<<>>) = 0
    OBVIOUS
  <2>2. Pieces(<<>>) \in Seq(T) /\ Len(Pieces(<<>>)) = 0
    BY <1>2, <2>1
  <2> HIDE DEF Pieces
  <2> QED
    BY <2>2
<1>6. Child!FlattenSeq(<<>>) = <<>>
  <2>1. <<>> \in Seq(Unit) /\ <<>> \in Seq(Seq(Unit))
    OBVIOUS
  <2> QED
    BY <2>1, Zenon DEF SequenceLaws, FlattenLaw
<1> QED
  BY <1>3, <1>4, <1>5, <1>6, Zenon DEF AllUnits

(* One record is its units.                                                 *)
LEMMA OneRecord ==
    ASSUME SequenceLaws, NEW r \in Record
    PROVE  <<r>> \in Seq(Record) /\ AllUnits(<<r>>) = Tls!Units(r)
<1>1. <<r>> \in Seq(Record) /\ Len(<<r>>) = 1 /\ <<r>>[1] = r /\ DOMAIN <<r>> = {1}
  OBVIOUS
<1>2. Pieces(<<r>>) = Append(<<>>, Tls!Units(r))
  <2> PICK u : u = Tls!Units(r)
    OBVIOUS
  <2>1. Pieces(<<r>>) = [k \in {1} |-> u]
    BY <1>1 DEF Pieces
  <2>2. Append(<<>>, u) = <<u>> /\ <<u>> = [k \in {1} |-> u]
    <3>1. <<u>> = [k \in 1 .. 1 |-> u]
      OBVIOUS
    <3> QED
      BY <3>1
  <2> QED
    BY <2>1, <2>2
<1>3. Tls!Units(r) \in Seq(Unit) /\ <<>> \in Seq(Seq(Unit))
  BY UnitsOf
<1>4. Child!FlattenSeq(Append(<<>>, Tls!Units(r))) = Child!FlattenSeq(<<>>) \o Tls!Units(r)
      /\ Child!FlattenSeq(<<>>) = <<>>
  BY <1>3, Zenon DEF SequenceLaws, FlattenLaw
<1>5. <<>> \o Tls!Units(r) = Tls!Units(r)
  BY <1>3
<1> QED
  BY <1>1, <1>2, <1>4, <1>5, Zenon DEF AllUnits

(* A finite set of numbers with 0 in it has a greatest, which Max is.       *)
LEMMA MaxIs ==
    ASSUME SequenceLaws, NEW n \in Nat, NEW S \in SUBSET (0 .. n), 0 \in S
    PROVE  Tls!Max(S) \in S
<1> DEFINE N == {k \in Nat : \A R \in SUBSET (0 .. k) :
                                 0 \in R => \E x \in R : \A y \in R : x >= y}
<1>1. 0 \in N
  OBVIOUS
<1>2. ASSUME NEW k \in N PROVE k + 1 \in N
  <2> SUFFICES ASSUME NEW R \in SUBSET (0 .. k + 1), 0 \in R
               PROVE  \E x \in R : \A y \in R : x >= y
    OBVIOUS
  <2>1. CASE k + 1 \in R
    BY <2>1
  <2>2. CASE k + 1 \notin R
    <3>1. R \in SUBSET (0 .. k)
      BY <2>2
    <3> QED
      BY <3>1
  <2> QED
    BY <2>1, <2>2
<1>3. N = Nat
  <2> HIDE DEF N
  <2>1. N \subseteq Nat
    BY DEF N
  <2> QED
    BY <1>1, <1>2, <2>1 DEF SequenceLaws, NatLaw
<1>4. \E x \in S : \A y \in S : x >= y
  BY <1>3
<1> QED
  BY <1>4 DEF Tls!Max

(* The ends of records among units.                                         *)
Ends(s) == {i \in 1 .. Len(s) : s[i].last}
Lasts(s) == Cardinality(Ends(s))

LEMMA LastsOf ==
    ASSUME NEW s \in Seq(Unit)
    PROVE  /\ IsFiniteSet(Ends(s)) /\ Lasts(s) \in Nat
           /\ s = <<>> => Lasts(s) = 0
           /\ \A i \in 1 .. Len(s) : s[i].last => Lasts(s) > 0
<1>1. Len(s) \in Nat /\ Ends(s) \in SUBSET Nat /\ \A i \in Ends(s) : i <= Len(s)
  BY DEF Ends
<1>2. IsFiniteSet(Ends(s)) /\ Lasts(s) \in Nat
  BY <1>1, FS_BoundedSetOfNaturals, FS_CardinalityType DEF Lasts
<1>3. Lasts(s) = 0 <=> Ends(s) = {}
  BY <1>2, FS_EmptySet DEF Lasts
<1> QED
  BY <1>2, <1>3 DEF Ends

LEMMA LastsConcat ==
    ASSUME NEW a \in Seq(Unit), NEW b \in Seq(Unit)
    PROVE  Lasts(a \o b) = Lasts(a) + Lasts(b)
<1> DEFINE B == {i \in Len(a) + 1 .. Len(a) + Len(b) : b[i - Len(a)].last}
           f == [i \in Ends(b) |-> i + Len(a)]
<1>1. a \o b \in Seq(Unit) /\ Len(a \o b) = Len(a) + Len(b) /\ Len(a) \in Nat /\ Len(b) \in Nat
  OBVIOUS
<1>2. Ends(a \o b) = Ends(a) \cup B
  <2>1. \A i \in 1 .. Len(a) + Len(b) :
           (a \o b)[i] = IF i <= Len(a) THEN a[i] ELSE b[i - Len(a)]
    OBVIOUS
  <2> QED
    BY <1>1, <2>1 DEF Ends
<1>3. Ends(a) \cap B = {}
  BY <1>1 DEF Ends
<1>4. ExistsBijection(Ends(b), B)
  <2>1. f \in [Ends(b) -> B]
    BY <1>1 DEF Ends
  <2>2. \A i, j \in Ends(b) : f[i] = f[j] => i = j
    BY <1>1 DEF Ends
  <2>3. \A k \in B : \E i \in Ends(b) : f[i] = k
    <3> SUFFICES ASSUME NEW k \in B PROVE \E i \in Ends(b) : f[i] = k
      OBVIOUS
    <3>1. k - Len(a) \in Ends(b) /\ (k - Len(a)) + Len(a) = k
      BY <1>1 DEF Ends
    <3> QED
      BY <3>1
  <2> HIDE DEF f, B
  <2> QED
    BY <2>1, <2>2, <2>3 DEF ExistsBijection, Bijection, Injection, Surjection, IsInjective
<1>5. IsFiniteSet(B) /\ Cardinality(B) = Lasts(b)
  <2> HIDE DEF B, f
  <2> QED
    BY <1>4, LastsOf, FS_Bijection DEF Lasts
<1>6. Cardinality(Ends(a) \cup B) = Cardinality(Ends(a)) + Cardinality(B) - Cardinality({})
  <2> HIDE DEF B, f
  <2> QED
    BY <1>3, <1>5, LastsOf, FS_Union
<1>7. Cardinality({}) = 0 /\ Lasts(a) \in Nat /\ Lasts(b) \in Nat
  BY FS_EmptySet, LastsOf
<1> HIDE DEF B, f
<1> QED
  BY <1>2, <1>5, <1>6, <1>7 DEF Lasts

(* A record has one end.                                                    *)
LEMMA OneEnd == ASSUME NEW r \in Record PROVE Lasts(Tls!Units(r)) = 1
<1>1. Ends(Tls!Units(r)) = {Len(r.bytes)}
  <2>1. Len(r.bytes) \in Nat \ {0}
    BY UnitsOf
  <2> QED
    BY <2>1, UnitsOf DEF Ends
<1> QED
  BY <1>1, FS_Singleton DEF Lasts

(* Two ways to cut a sequence in two agree as far as the shorter cut goes.  *)
SameCut(T, s, z, u, y) ==
    /\ \A i \in 1 .. Len(s) : i <= Len(u) => s[i] = u[i]
    /\ Len(u) <= Len(s) =>
         /\ SubSeq(s, 1, Len(u)) = u
         /\ SubSeq(s, Len(u) + 1, Len(s)) \in Seq(T)
         /\ Len(SubSeq(s, Len(u) + 1, Len(s))) = Len(s) - Len(u)
         /\ u \o SubSeq(s, Len(u) + 1, Len(s)) = s
         /\ SubSeq(s, Len(u) + 1, Len(s)) \o z = y

LEMMA CutAt ==
    \A T : \A s, z, u, y \in Seq(T) : s \o z = u \o y => SameCut(T, s, z, u, y)
<1> SUFFICES ASSUME NEW T, NEW s \in Seq(T), NEW z \in Seq(T), NEW u \in Seq(T),
                    NEW y \in Seq(T), s \o z = u \o y
             PROVE  SameCut(T, s, z, u, y)
  OBVIOUS
<1>1. Len(s) \in Nat /\ Len(u) \in Nat
  OBVIOUS
<1>2. \A i \in 1 .. Len(s) : i <= Len(u) => s[i] = u[i]
  <2> SUFFICES ASSUME NEW i \in 1 .. Len(s), i <= Len(u) PROVE s[i] = u[i]
    OBVIOUS
  <2>1. (s \o z)[i] = s[i]
    OBVIOUS
  <2>2. (u \o y)[i] = u[i]
    OBVIOUS
  <2> QED
    BY <2>1, <2>2
<1>3. ASSUME Len(u) <= Len(s)
      PROVE  /\ SubSeq(s, 1, Len(u)) = u
             /\ SubSeq(s, Len(u) + 1, Len(s)) \in Seq(T)
             /\ Len(SubSeq(s, Len(u) + 1, Len(s))) = Len(s) - Len(u)
             /\ u \o SubSeq(s, Len(u) + 1, Len(s)) = s
             /\ SubSeq(s, Len(u) + 1, Len(s)) \o z = y
  <2>1. SubSeq(s, 1, Len(u)) = u
    <3>1. /\ SubSeq(s, 1, Len(u)) \in Seq(T) /\ Len(SubSeq(s, 1, Len(u))) = Len(u)
          /\ \A i \in 1 .. Len(u) : SubSeq(s, 1, Len(u))[i] = s[i]
      BY <1>1, <1>3
    <3> QED
      BY <1>1, <1>2, <1>3, <3>1, SeqEqual
  <2>2. PICK t : t = SubSeq(s, Len(u) + 1, Len(s))
    OBVIOUS
  <2>3. t \in Seq(T) /\ Len(t) = Len(s) - Len(u)
    BY <1>1, <1>3, <2>2
  <2>4. u \o t = s
    <3>1. SubSeq(s, 1, Len(u)) \o SubSeq(s, Len(u) + 1, Len(s)) = SubSeq(s, 1, Len(s))
      <4>1. 1 \in 1 .. Len(s) + 1 /\ Len(u) \in 1 - 1 .. Len(s) /\ Len(s) \in Len(u) .. Len(s)
        BY <1>1, <1>3
      <4> QED
        BY <4>1, ConcatAdjacentSubSeq
    <3> QED
      BY <2>1, <2>2, <3>1, SubSeqFull, Zenon
  <2>5. t \o z = y
    <3>0. u \in Seq(T) /\ t \in Seq(T) /\ z \in Seq(T)
      BY <2>3
    <3>1. (u \o t) \o z = u \o (t \o z) /\ t \o z \in Seq(T)
      <4>1. (u \o t) \o z = u \o (t \o z)
        BY <3>0, ConcatAssociative
      <4>2. t \o z \in Seq(T)
        BY <3>0
      <4> QED
        BY <4>1, <4>2
    <3>2. PICK tz \in Seq(T) : tz = t \o z
      BY <3>1, Zenon
    <3>3. u \o tz = u \o y
      BY <2>4, <3>1, <3>2, Zenon
    <3>4. tz = y
      BY <3>3, ConcatSimplifications
    <3> QED
      BY <3>2, <3>4
  <2> QED
    BY <2>1, <2>2, <2>3, <2>4, <2>5, Zenon
<1> QED
  BY <1>2, <1>3 DEF SameCut

(* What FirstRecord finds at the head of units that begin with a record, or *)
(* with a part of it.                                                       *)
LEMMA FirstRecordIs ==
    ASSUME NEW r \in Record, NEW s \in Seq(Unit), NEW y \in Seq(Unit), NEW z \in Seq(Unit),
           s \o z = Tls!Units(r) \o y
    PROVE  LET n == Tls!FirstRecord(s) IN
           /\ n = IF Len(r.bytes) <= Len(s) THEN Len(r.bytes) ELSE 0
           /\ n > 0 => /\ s[1].kind = r.kind
                       /\ Tls!Plain(SubSeq(s, 1, n)) = r.bytes
                       /\ Tls!Rest(s, n) \in Seq(Unit) /\ Tls!Rest(s, n) \o z = y
                       /\ Len(Tls!Rest(s, n)) = Len(s) - n
<1>1. PICK u \in Seq(Unit) : u = Tls!Units(r)
  BY UnitsOf
<1>2. PICK b \in Seq(Byte) : b = r.bytes
  BY UnitsOf
<1>3. /\ Len(u) = Len(b) /\ Len(b) \in Nat /\ Len(b) > 0 /\ Len(s) \in Nat
      /\ \A i \in 1 .. Len(b) : /\ u[i].kind = r.kind /\ u[i].byte = b[i]
                                /\ u[i].first <=> i = 1
                                /\ u[i].last <=> i = Len(b)
  <2>1. Len(r.bytes) \in Nat /\ Len(r.bytes) > 0 /\ Len(s) \in Nat
    BY UnitsOf
  <2> QED
    BY <1>1, <1>2, <2>1, UnitsOf
<1>4. /\ \A i \in 1 .. Len(s) : i <= Len(u) => s[i] = u[i]
      /\ Len(u) <= Len(s) =>
           /\ SubSeq(s, 1, Len(u)) = u
           /\ SubSeq(s, Len(u) + 1, Len(s)) \in Seq(Unit)
           /\ Len(SubSeq(s, Len(u) + 1, Len(s))) = Len(s) - Len(u)
           /\ SubSeq(s, Len(u) + 1, Len(s)) \o z = y
  <2>1. s \o z = u \o y
    BY <1>1
  <2>2. SameCut(Unit, s, z, u, y)
    BY <2>1, CutAt, Zenon
  <2> QED
    BY <2>2, Zenon DEF SameCut
<1>5. ~Tls!Garbled(s)
  <2>1. ASSUME s # <<>> PROVE Head(s).first
    <3>1. 1 \in 1 .. Len(s) /\ 1 <= Len(u) /\ 1 \in 1 .. Len(b) /\ Head(s) = s[1]
      BY <1>3, <2>1
    <3>2. s[1] = u[1] /\ u[1].first
      BY <1>3, <1>4, <3>1
    <3> QED
      BY <3>1, <3>2
  <2> QED
    BY <2>1 DEF Tls!Garbled
<1>6. CASE ~(Len(b) <= Len(s))
  <2>1. \A i \in DOMAIN s : ~s[i].last
    <3> SUFFICES ASSUME NEW i \in 1 .. Len(s) PROVE ~s[i].last
      OBVIOUS
    <3>1. i \in 1 .. Len(b) /\ i # Len(b) /\ i <= Len(u)
      BY <1>3, <1>6
    <3>2. s[i] = u[i]
      BY <1>4, <3>1
    <3>3. ~u[i].last
      BY <1>3, <3>1
    <3> QED
      BY <3>2, <3>3
  <2>2. Tls!FirstRecord(s) = 0
    BY <2>1 DEF Tls!FirstRecord
  <2> QED
    BY <1>2, <1>6, <2>2
<1>7. CASE Len(b) <= Len(s)
  <2>0. Len(b) \in 1 .. Len(s) /\ 1 \in 1 .. Len(s) /\ 1 \in 1 .. Len(b) /\ Len(b) \in 1 .. Len(b)
        /\ Len(b) <= Len(u) /\ 1 <= Len(u)
    BY <1>3, <1>7
  <2>1. Len(b) \in 1 .. Len(s) /\ s[Len(b)].last /\ s[1] = u[1]
    BY <1>3, <1>4, <2>0, Zenon
  <2>2. ASSUME NEW i \in 1 .. Len(s), s[i].last PROVE Len(b) <= i
    BY <1>3, <1>4, <2>2
  <2>3. Len(b) \in DOMAIN s /\ DOMAIN s = 1 .. Len(s)
    BY <2>1
  <2>4. Tls!Min({i \in DOMAIN s : s[i].last}) = Len(b)
    BY <1>3, <2>1, <2>2, <2>3 DEF Tls!Min
  <2>5. Tls!FirstRecord(s) = Len(b)
    BY <1>5, <2>1, <2>3, <2>4 DEF Tls!FirstRecord
  <2>6. Tls!Plain(u) = b
    <3>1. DOMAIN u = 1 .. Len(b) /\ DOMAIN b = 1 .. Len(b)
      BY <1>3
    <3>2. Tls!Plain(u) = [i \in 1 .. Len(b) |-> b[i]]
      BY <1>3, <3>1 DEF Tls!Plain
    <3>3. b = [i \in 1 .. Len(b) |-> b[i]]
      BY <1>3, <3>1
    <3> QED
      BY <3>2, <3>3
  <2>7. s[1].kind = r.kind
    BY <1>3, <2>1
  <2>8. /\ SubSeq(s, 1, Len(b)) = u
        /\ Tls!Rest(s, Len(b)) \in Seq(Unit) /\ Tls!Rest(s, Len(b)) \o z = y
        /\ Len(Tls!Rest(s, Len(b))) = Len(s) - Len(b)
    BY <1>3, <1>4, <1>7, Zenon DEF Tls!Rest
  <2>9. Tls!Plain(SubSeq(s, 1, Len(b))) = b
    BY <2>6, <2>8, Zenon
  <2> QED
    BY <1>2, <1>7, <2>5, <2>7, <2>8, <2>9, Zenon
<1> QED
  BY <1>2, <1>6, <1>7

(* Nothing, or a record cut off, is no record.                              *)
LEMMA NoFirstRecord == Tls!FirstRecord(<<>>) = 0
BY DEF Tls!FirstRecord

(* What holds of the units of a sequence of records.                        *)
UnitsFit(rs, u) ==
    /\ Lasts(u) = Len(rs)
    /\ \A i \in 1 .. Len(u) : \E k \in 1 .. Len(rs) : u[i].kind = rs[k].kind
    /\ rs # <<>> => u # <<>> /\ u[Len(u)].last

LEMMA RecordsEnd ==
    ASSUME SequenceLaws
    PROVE  \A rs \in Seq(Record) : UnitsFit(rs, AllUnits(rs))
<1> DEFINE N == {n \in Nat : \A rs \in Seq(Record) : Len(rs) = n => UnitsFit(rs, AllUnits(rs))}
<1>1. 0 \in N
  <2> SUFFICES ASSUME NEW rs \in Seq(Record), Len(rs) = 0 PROVE UnitsFit(rs, AllUnits(rs))
    OBVIOUS
  <2>0. rs = <<>> /\ <<>> \in Seq(Record) /\ <<>> \in Seq(Unit) /\ Len(<<>>) = 0
    OBVIOUS
  <2>1. AllUnits(rs) = <<>>
    BY <2>0, AllUnitsOf, Zenon
  <2>2. Lasts(<<>>) = 0
    BY <2>0, LastsOf
  <2> QED
    BY <2>0, <2>1, <2>2 DEF UnitsFit
<1>2. ASSUME NEW n \in N PROVE n + 1 \in N
  <2> SUFFICES ASSUME NEW rs \in Seq(Record), Len(rs) = n + 1 PROVE UnitsFit(rs, AllUnits(rs))
    OBVIOUS
  <2>1. rs # <<>>
    OBVIOUS
  <2>2. PICK f \in Seq(Record), r \in Record : rs = Append(f, r)
    BY <2>1, SequenceEmptyOrAppend
  <2>3. /\ Len(f) = n /\ Len(rs) = Len(f) + 1 /\ rs = f \o <<r>> /\ <<r>> \in Seq(Record)
        /\ rs[Len(f) + 1] = r /\ \A k \in 1 .. Len(f) : rs[k] = f[k]
    BY <2>2
  <2>4. UnitsFit(f, AllUnits(f))
    BY <2>3
  <2>5. PICK u \in Seq(Unit) : u = AllUnits(f)
    BY AllUnitsOf
  <2>6. PICK v \in Seq(Unit) : v = Tls!Units(r)
    BY UnitsOf
  <2>7. AllUnits(rs) = u \o v
    BY <2>3, <2>5, <2>6, AllUnitsOf, OneRecord, Zenon
  <2>8. /\ Len(v) \in Nat /\ Len(v) > 0 /\ v[Len(v)].last
        /\ \A i \in 1 .. Len(v) : v[i].kind = r.kind
    <3>1. PICK b \in Seq(Byte) : b = r.bytes
      BY UnitsOf
    <3>2. Len(v) = Len(b) /\ Len(b) \in Nat /\ Len(b) > 0
      BY <2>6, <3>1, UnitsOf
    <3>3. \A i \in 1 .. Len(b) : v[i].kind = r.kind /\ (v[i].last <=> i = Len(b))
      BY <2>6, <3>1, UnitsOf
    <3>4. Len(b) \in 1 .. Len(b)
      BY <3>2
    <3> QED
      BY <3>2, <3>3, <3>4
  <2>9. /\ u \o v \in Seq(Unit) /\ Len(u \o v) = Len(u) + Len(v) /\ Len(u) \in Nat
        /\ \A i \in 1 .. Len(u) : (u \o v)[i] = u[i]
        /\ \A i \in 1 .. Len(v) : (u \o v)[Len(u) + i] = v[i]
    OBVIOUS
  <2>10. Lasts(u \o v) = Len(rs)
    <3>1. Lasts(u \o v) = Lasts(u) + Lasts(v) /\ Lasts(v) = 1 /\ Lasts(u) = Len(f)
      BY <2>4, <2>5, <2>6, LastsConcat, OneEnd DEF UnitsFit
    <3> QED
      BY <2>3, <3>1
  <2>11. ASSUME NEW i \in 1 .. Len(u \o v)
         PROVE  \E k \in 1 .. Len(rs) : (u \o v)[i].kind = rs[k].kind
    <3>1. CASE i <= Len(u)
      <4>1. i \in 1 .. Len(u)
        BY <2>9, <3>1
      <4>2. PICK k \in 1 .. Len(f) : u[i].kind = f[k].kind
        BY <2>4, <2>5, <4>1 DEF UnitsFit
      <4>3. k \in 1 .. Len(rs) /\ rs[k] = f[k] /\ (u \o v)[i] = u[i]
        BY <2>3, <2>9, <4>1
      <4> QED
        BY <4>2, <4>3
    <3>2. CASE ~(i <= Len(u))
      <4>1. i - Len(u) \in 1 .. Len(v) /\ Len(u) + (i - Len(u)) = i
        BY <2>8, <2>9, <3>2
      <4>2. (u \o v)[i] = v[i - Len(u)] /\ v[i - Len(u)].kind = r.kind
        BY <2>8, <2>9, <4>1
      <4>3. Len(f) + 1 \in 1 .. Len(rs)
        BY <2>3
      <4> QED
        BY <2>3, <4>2, <4>3
    <3> QED
      BY <3>1, <3>2
  <2>12. u \o v # <<>> /\ (u \o v)[Len(u \o v)].last
    BY <2>8, <2>9
  <2> QED
    BY <2>7, <2>10, <2>11, <2>12 DEF UnitsFit
<1>3. N = Nat
  <2> HIDE DEF N
  <2>1. N \subseteq Nat
    BY Zenon DEF N
  <2> QED
    BY <1>1, <1>2, <2>1 DEF SequenceLaws, NatLaw
<1> QED
  BY <1>3

-----------------------------------------------------------------------------
(* What the server has to say.                                              *)
LEMMA AnswerIs ==
    ASSUME Tls!TlsAssumption, NEW a \in Responses
    PROVE  /\ a \in Seq(Record) /\ Len(a) \in Nat
           /\ \A k \in 1 .. Len(a) : a[k] \in Record
           /\ \A k \in 1 .. Len(a) : a[k].kind \in {"data", "ticket", "alert"}
           /\ \A k \in 1 .. Len(a) : a[k].kind = "alert" => k = Len(a)
<1> DEFINE S == [kind : {"data", "ticket", "alert"}, bytes : Seq(Nat)]
<1>0. /\ a \in Seq(S)
      /\ \A k \in DOMAIN a : /\ Len(a[k].bytes) \in 1 .. MaxPacket
                             /\ a[k].kind = "alert" => k = Len(a)
  BY Zenon DEF Tls!TlsAssumption
<1>1. /\ a \in Seq(S)
      /\ \A k \in DOMAIN a : Len(a[k].bytes) \in 1 .. MaxPacket
      /\ \A k \in DOMAIN a : a[k].kind = "alert" => k = Len(a)
  BY <1>0, Zenon
<1>2. \A x \in S : x \in [kind : Kind, bytes : Seq(Byte)] /\ x.kind \in {"data", "ticket", "alert"}
  BY DEF Kind, Byte
<1> HIDE DEF S
<1>3. Len(a) \in Nat /\ DOMAIN a = 1 .. Len(a) /\ \A k \in 1 .. Len(a) : a[k] \in S
  BY <1>1
<1>4. ASSUME NEW k \in 1 .. Len(a) PROVE a[k] \in Record
  <2>1. a[k] \in [kind : Kind, bytes : Seq(Byte)]
    BY <1>2, <1>3, <1>4, Zenon
  <2>2. Len(a[k].bytes) \in 1 .. MaxPacket
    BY <1>1, <1>3
  <2> QED
    BY <2>1, <2>2, Zenon DEF Record
<1>5. \A k \in 1 .. Len(a) : a[k].kind \in {"data", "ticket", "alert"}
  BY <1>2, <1>3, Zenon
<1>6. \A k \in 1 .. Len(a) : a[k].kind = "alert" => k = Len(a)
  BY <1>1, <1>3, Zenon
<1>7. a \in Seq(Record)
  <2>1. a \in [1 .. Len(a) -> Record]
    BY <1>1, <1>3, <1>4
  <2> QED
    BY <1>3, <2>1
<1> QED
  BY <1>3, <1>4, <1>5, <1>6, <1>7, Zenon

LEMMA HandshakeIs ==
    ASSUME Tls!TlsAssumption
    PROVE  /\ Tls!Handshake \in Seq(Record) /\ Len(Tls!Handshake) = Len(HandshakeSizes)
           /\ Tls!Handshake # <<>>
           /\ \A k \in 1 .. Len(Tls!Handshake) : Tls!Handshake[k].kind = "handshake"
<1>1. /\ HandshakeSizes \in Seq(1 .. MaxPacket) /\ Len(HandshakeSizes) \in Nat
      /\ Len(HandshakeSizes) > 0 /\ DOMAIN HandshakeSizes = 1 .. Len(HandshakeSizes)
      /\ \A k \in 1 .. Len(HandshakeSizes) : HandshakeSizes[k] \in 1 .. MaxPacket
  BY DEF Tls!TlsAssumption
<1>2. ASSUME NEW n \in 1 .. MaxPacket, MaxPacket \in Nat
      PROVE  [kind |-> "handshake", bytes |-> [i \in 1 .. n |-> 0]] \in Record
  <2>1. [i \in 1 .. n |-> 0] \in Seq(Nat) /\ Len([i \in 1 .. n |-> 0]) = n
    OBVIOUS
  <2> QED
    BY <2>1 DEF Record, Kind, Byte
<1>3. MaxPacket \in Nat
  BY DEF Tls!TlsAssumption
<1> DEFINE H == Tls!Handshake
<1>4. H \in [1 .. Len(HandshakeSizes) -> Record]
      /\ \A k \in 1 .. Len(HandshakeSizes) : H[k].kind = "handshake"
  BY <1>1, <1>2, <1>3 DEF Tls!Handshake
<1> HIDE DEF H
<1>5. H \in Seq(Record) /\ Len(H) = Len(HandshakeSizes)
  BY <1>1, <1>4
<1> QED
  BY <1>1, <1>4, <1>5 DEF H

(* What comes before it is asked for and what comes after it are all of it. *)
LEMMA GreetingIs ==
    ASSUME SequenceLaws, Tls!TlsAssumption, NEW a \in Responses
    PROVE  /\ Tls!Greeting(a) \in Seq(Record) /\ Tls!Asked(a) \in Seq(Record)
           /\ Tls!Greeting(a) \o Tls!Asked(a) = a
<1>1. a \in Seq(Record) /\ Len(a) \in Nat
  BY AnswerIs
<1> DEFINE S == {n \in 0 .. Len(a) : \A k \in 1 .. n : a[k].kind = "ticket"}
<1>2. S \in SUBSET (0 .. Len(a)) /\ 0 \in S
  BY <1>1
<1>3. Tls!Max(S) \in S
  <2> HIDE DEF S
  <2> QED
    BY <1>1, <1>2, MaxIs
<1>4. PICK g : g = Tls!Max(S)
  OBVIOUS
<1>5. g \in 0 .. Len(a) /\ Tls!Greeting(a) = SubSeq(a, 1, g)
  BY <1>3, <1>4 DEF Tls!Greeting
<1>6. SubSeq(a, 1, g) \in Seq(Record) /\ Len(SubSeq(a, 1, g)) = g
  BY <1>1, <1>5
<1>7. Tls!Asked(a) = SubSeq(a, g + 1, Len(a))
  BY <1>5, <1>6, Zenon DEF Tls!Asked, Tls!Rest
<1>8. SubSeq(a, g + 1, Len(a)) \in Seq(Record)
  BY <1>1, <1>5
<1>9. SubSeq(a, 1, g) \o SubSeq(a, g + 1, Len(a)) = a
  <2>1. 1 \in 1 .. Len(a) + 1 /\ g \in 1 - 1 .. Len(a) /\ Len(a) \in g .. Len(a)
    BY <1>1, <1>5
  <2> QED
    BY <1>1, <2>1, ConcatAdjacentSubSeq, SubSeqFull, Zenon
<1> QED
  BY <1>5, <1>6, <1>7, <1>8, <1>9, Zenon

(* The records from one on, and what those before it say.                   *)
Left(a, m) == AllUnits(SubSeq(a, m + 1, Len(a)))
Talk(a) == [k \in DOMAIN a |-> IF a[k].kind = "data" THEN a[k].bytes ELSE <<>>]
Said(a, m) == Child!FlattenSeq(SubSeq(Talk(a), 1, m))

LEMMA LeftIs ==
    ASSUME SequenceLaws, Tls!TlsAssumption, NEW a \in Responses
    PROVE  /\ Left(a, 0) = AllUnits(a) /\ Left(a, Len(a)) = <<>>
           /\ \A m \in 0 .. Len(a) : Left(a, m) \in Seq(Unit)
           /\ \A m \in 0 .. Len(a) : m # Len(a) =>
                 /\ m + 1 \in 0 .. Len(a) /\ m + 1 \in 1 .. Len(a)
                 /\ Left(a, m) = Tls!Units(a[m + 1]) \o Left(a, m + 1)
<1>1. a \in Seq(Record) /\ Len(a) \in Nat /\ \A k \in 1 .. Len(a) : a[k] \in Record
  BY AnswerIs
<1>2. \A m \in 0 .. Len(a) : SubSeq(a, m + 1, Len(a)) \in Seq(Record)
  BY <1>1
<1>3. Left(a, 0) = AllUnits(a)
  <2>1. SubSeq(a, 0 + 1, Len(a)) = a
    BY <1>1
  <2> QED
    BY <2>1, Zenon DEF Left
<1>4. Left(a, Len(a)) = <<>>
  <2>1. SubSeq(a, Len(a) + 1, Len(a)) = <<>>
    BY <1>1
  <2>2. <<>> \in Seq(Record)
    OBVIOUS
  <2>3. AllUnits(<<>>) = <<>>
    BY <2>2, AllUnitsOf, Zenon
  <2> QED
    BY <2>1, <2>3, Zenon DEF Left
<1>5. \A m \in 0 .. Len(a) : Left(a, m) \in Seq(Unit)
  BY <1>1, <1>2, AllUnitsOf DEF Left
<1>6. ASSUME NEW m \in 0 .. Len(a), m # Len(a)
      PROVE  /\ m + 1 \in 0 .. Len(a) /\ m + 1 \in 1 .. Len(a)
             /\ Left(a, m) = Tls!Units(a[m + 1]) \o Left(a, m + 1)
  <2>1. /\ m + 1 \in 0 .. Len(a) /\ m + 1 \in 1 .. Len(a)
        /\ Len(a) \in m + 1 .. Len(a)
    BY <1>1, <1>6
  <2>2. SubSeq(a, m + 1, Len(a))
          = <<a[m + 1]>> \o SubSeq(a, (m + 1) + 1, Len(a))
    BY <1>1, <2>1, SubSeqRecursiveFirst
  <2>3. a[m + 1] \in Record
    BY <1>1, <2>1
  <2>4. /\ <<a[m + 1]>> \in Seq(Record)
        /\ AllUnits(<<a[m + 1]>>) = Tls!Units(a[m + 1])
    BY <2>3, OneRecord, Zenon
  <2>5. AllUnits(<<a[m + 1]>> \o SubSeq(a, (m + 1) + 1, Len(a)))
          = AllUnits(<<a[m + 1]>>) \o AllUnits(SubSeq(a, (m + 1) + 1, Len(a)))
    BY <1>2, <2>1, <2>4, AllUnitsOf, Zenon
  <2> QED
    BY <2>1, <2>2, <2>4, <2>5, Zenon DEF Left
<1> QED
  BY <1>3, <1>4, <1>5, <1>6

LEMMA SaidIs ==
    ASSUME SequenceLaws, Tls!TlsAssumption, NEW a \in Responses
    PROVE  /\ Said(a, 0) = <<>> /\ Said(a, Len(a)) = Tls!Says(a)
           /\ Tls!Says(a) \in Seq(Byte)
           /\ \A m \in 0 .. Len(a) : /\ Said(a, m) \in Seq(Byte)
                                          /\ Child!IsPrefix(Said(a, m), Tls!Says(a))
           /\ \A m \in 0 .. Len(a) : m # Len(a) =>
                 Said(a, m + 1) = IF a[m + 1].kind = "data"
                               THEN Said(a, m) \o a[m + 1].bytes ELSE Said(a, m)
<1>1. /\ a \in Seq(Record) /\ Len(a) \in Nat /\ DOMAIN a = 1 .. Len(a)
      /\ \A k \in 1 .. Len(a) : a[k] \in Record
  BY AnswerIs
<1> DEFINE T == Seq(Byte)
<1>2. <<>> \in T /\ \A r \in Record : r.bytes \in T
  BY DEF Record
<1> HIDE DEF T
<1>3. /\ Talk(a) \in [1 .. Len(a) -> T]
      /\ \A k \in 1 .. Len(a) :
            Talk(a)[k] = IF a[k].kind = "data" THEN a[k].bytes ELSE <<>>
  BY <1>1, <1>2 DEF Talk
<1>4. Talk(a) \in Seq(T) /\ Len(Talk(a)) = Len(a)
  <2> HIDE DEF Talk
  <2> QED
    BY <1>1, <1>3
<1>5. PICK t \in Seq(T) : t = Talk(a)
  BY <1>4
<1>6. Len(t) = Len(a) /\ Tls!Says(a) = Child!FlattenSeq(t)
  <2>1. Len(t) = Len(a)
    BY <1>4, <1>5
  <2>2. Tls!Says(a) = Child!FlattenSeq(Talk(a))
    BY DEF Tls!Says, Tls!FlattenSeq, Child!FlattenSeq, Talk
  <2> QED
    BY <1>5, <2>1, <2>2, Zenon
<1>7. \A m \in 0 .. Len(a) : Said(a, m) = Child!FlattenSeq(SubSeq(t, 1, m))
  BY <1>5, Zenon DEF Said
<1>8. \A ss \in Seq(T), x \in T : /\ Child!FlattenSeq(ss) \in T
                                  /\ Child!FlattenSeq(Append(ss, x)) = Child!FlattenSeq(ss) \o x
                                  /\ Child!FlattenSeq(<<>>) = <<>>
  BY Zenon DEF SequenceLaws, FlattenLaw, T
<1>9. \A p, q \in Seq(T) : Child!FlattenSeq(p \o q) = Child!FlattenSeq(p) \o Child!FlattenSeq(q)
  BY FlattenConcat, Zenon DEF T
<1>10. \A m \in 0 .. Len(a) : /\ SubSeq(t, 1, m) \in Seq(T)
                                   /\ SubSeq(t, m + 1, Len(t)) \in Seq(T)
  BY <1>1, <1>6
<1>11. Said(a, 0) = <<>>
  <2>1. SubSeq(t, 1, 0) = <<>> /\ 0 \in 0 .. Len(a)
    BY <1>1
  <2>2. Child!FlattenSeq(<<>>) = <<>>
    BY <1>2, <1>8, <1>5, Zenon
  <2> QED
    BY <1>7, <2>1, <2>2, Zenon
<1>12. Said(a, Len(a)) = Tls!Says(a)
  <2>1. SubSeq(t, 1, Len(a)) = t /\ Len(a) \in 0 .. Len(a)
    BY <1>1, <1>6
  <2> QED
    BY <1>6, <1>7, <2>1, Zenon
<1>13. Tls!Says(a) \in T
  BY <1>2, <1>6, <1>8, Zenon
<1>14. ASSUME NEW m \in 0 .. Len(a)
       PROVE  Said(a, m) \in T /\ Child!IsPrefix(Said(a, m), Tls!Says(a))
  <2>1. Said(a, m) \in T
    BY <1>2, <1>7, <1>8, <1>10, Zenon
  <2>2. SubSeq(t, 1, m) \o SubSeq(t, m + 1, Len(t)) = t
    <3>1. 1 \in 1 .. Len(t) + 1 /\ m \in 1 - 1 .. Len(t) /\ Len(t) \in m .. Len(t)
      BY <1>1, <1>6
    <3> QED
      BY <3>1, ConcatAdjacentSubSeq, SubSeqFull, Zenon
  <2>3. PICK y \in T : y = Child!FlattenSeq(SubSeq(t, m + 1, Len(t)))
    BY <1>2, <1>8, <1>10, Zenon
  <2>4. Said(a, m) \o y = Tls!Says(a)
    BY <1>6, <1>7, <1>9, <1>10, <2>2, <2>3, Zenon
  <2>5. \A p, q, r \in Seq(Byte) : p \o q = r => Child!IsPrefix(p, r)
    BY Beginning
  <2> QED
    BY <1>13, <2>1, <2>3, <2>4, <2>5, Zenon DEF T
<1>15. ASSUME NEW m \in 0 .. Len(a), m # Len(a)
       PROVE  Said(a, m + 1) = IF a[m + 1].kind = "data"
                            THEN Said(a, m) \o a[m + 1].bytes ELSE Said(a, m)
  <2>0. Len(t) = Len(a) /\ Len(a) \in Nat
    BY <1>1, <1>6
  <2>1. m + 1 \in 1 .. Len(a) /\ m + 1 \in 0 .. Len(a) /\ m + 1 \in 1 .. Len(t)
    BY <2>0, <1>15
  <2>2. SubSeq(t, 1, m + 1) = Append(SubSeq(t, 1, m), t[m + 1]) /\ t[m + 1] \in T
    BY <1>6, <2>1
  <2>3. Said(a, m + 1) = Said(a, m) \o t[m + 1]
    BY <1>7, <1>8, <1>10, <2>1, <2>2, Zenon
  <2>4. t[m + 1] = IF a[m + 1].kind = "data" THEN a[m + 1].bytes ELSE <<>>
    BY <1>3, <1>5, <2>1, Zenon
  <2>5. Said(a, m) \o <<>> = Said(a, m)
    <3>1. Said(a, m) \in Seq(Byte)
      BY <1>14, Zenon DEF T
    <3> QED
      BY <3>1
  <2> QED
    BY <2>3, <2>4, <2>5, Zenon
<1> QED
  BY <1>11, <1>12, <1>13, <1>14, <1>15, Zenon DEF T

(* What the client has not received yet, and what it has not asked for.     *)
Unasked == IF asked THEN <<>> ELSE Tls!Asked(answer)
Behind == AllUnits(script \o Unasked)
Coming == stream \o Behind

(* Types; neither buffer is ever filled beyond a packet.                    *)
TlsTypes ==
    /\ phase \in {"connect", "handshake", "write", "read", "disconnect", "ended"}
    /\ incoming \in Seq(Unit) /\ Len(incoming) <= MaxPacket
    /\ stream \in Seq(Unit) /\ script \in Seq(Record) /\ answer \in Responses
    /\ handshaken \in Nat /\ asked \in BOOLEAN /\ server \in {"open", "closed", "reset"}
    /\ decrypted \in Seq(Byte) /\ buf \in Seq(Byte) /\ received \in Seq(Byte)
    /\ Len(buf) <= MaxPacket

(* Before the request nothing has been read; after a reset nothing comes.   *)
NotYet ==
    /\ phase \in {"connect", "handshake", "write"} =>
          ~asked /\ decrypted = <<>> /\ buf = <<>> /\ received = <<>>
    /\ phase = "connect" =>
          incoming = <<>> /\ stream = <<>> /\ script = <<>> /\ handshaken = 0 /\ server = "open"
    /\ server = "reset" => stream = <<>>
    /\ phase \notin {"disconnect", "ended"} => ending = "none"

(* Of the units to come, either whole records of the handshake, and the end *)
(* of one, are first, as many as are still wanted at most, or no unit is of *)
(* the handshake, which then never ends: one was thrown away in parts.      *)
HandshakeToCome(u, k, a) ==
    \/ \E hs \in Seq(Unit) : /\ hs # <<>> /\ hs[Len(hs)].last
                             /\ \A i \in 1 .. Len(hs) : hs[i].kind = "handshake"
                             /\ u = hs \o AllUnits(a)
                             /\ k + Lasts(hs) <= Len(HandshakeSizes)
    \/ \A i \in 1 .. Len(u) : u[i].kind # "handshake"

Shaking ==
    /\ phase = "handshake" =>
          /\ handshaken < Len(HandshakeSizes)
          /\ server # "reset" => HandshakeToCome(incoming \o Coming, handshaken, answer)
    /\ phase = "write" /\ handshaken = Len(HandshakeSizes) /\ server # "reset" =>
          incoming \o Coming = AllUnits(answer)

(* m records are in the file or in main's buffer; the next is in s->incoming *)
(* or on its way, and is what is decrypted, if anything is.                 *)
ReadTo(m, z) ==
    /\ received \o buf = Said(answer, m)
    /\ incoming \o z = Left(answer, m)
    /\ server # "reset" => z = Coming
    /\ decrypted # <<>> => /\ m # Len(answer) /\ answer[m + 1].kind = "data"
                           /\ decrypted = answer[m + 1].bytes
                           /\ Len(decrypted) <= Len(incoming)

Reads ==
    phase = "read" =>
        /\ asked /\ Len(buf) + Len(incoming) <= MaxPacket
        /\ \E m \in 0 .. Len(answer), z \in Seq(Unit) : ReadTo(m, z)

(* main has received the beginning of what the response says, or all of it. *)
FileRight ==
    /\ Child!IsPrefix(received, Tls!Says(answer))
    /\ asked /\ ending = "closed" =>
          received = Tls!Says(answer) \/ (server = "closed" /\ script # <<>>)

TlsInv == TlsTypes /\ NotYet /\ Shaking /\ Reads /\ FileRight

-----------------------------------------------------------------------------
LEMMA ComingIs ==
    ASSUME SequenceLaws, Tls!TlsAssumption, TlsTypes
    PROVE  /\ Unasked \in Seq(Record) /\ script \o Unasked \in Seq(Record)
           /\ Behind \in Seq(Unit) /\ Coming \in Seq(Unit)
<1>1. Unasked \in Seq(Record)
  <2>1. answer \in Responses /\ <<>> \in Seq(Record)
    BY DEF TlsTypes
  <2>2. Tls!Asked(answer) \in Seq(Record)
    BY <2>1, GreetingIs, Zenon
  <2> QED
    BY <2>1, <2>2, Zenon DEF Unasked
<1>2. script \o Unasked \in Seq(Record)
  <2>1. script \in Seq(Record)
    BY DEF TlsTypes
  <2> QED
    BY <1>1, <2>1, Joined, Zenon
<1>3. Behind \in Seq(Unit)
  BY <1>2, AllUnitsOf, Zenon DEF Behind
<1>4. Coming \in Seq(Unit)
  <2>1. stream \in Seq(Unit)
    BY DEF TlsTypes
  <2> QED
    BY <1>3, <2>1, Joined, Zenon DEF Coming
<1> QED
  BY <1>1, <1>2, <1>3, <1>4

(* What recv puts behind what is in s->incoming already, and what it leaves.*)
LEMMA Arrived ==
    ASSUME SequenceLaws, Tls!TlsAssumption, TlsTypes, NotYet, NEW s \in Tls!Arrivals
    PROVE  /\ s \in Seq(Unit) /\ Len(s) <= MaxPacket /\ server # "reset"
           /\ Tls!Rest(stream, Len(s) - Len(incoming)) \in Seq(Unit)
           /\ s \o (Tls!Rest(stream, Len(s) - Len(incoming)) \o Behind) = incoming \o Coming
<1>1. PICK k \in 1 .. Tls!Min({Len(stream), MaxPacket - Len(incoming)}) :
             s = incoming \o SubSeq(stream, 1, k)
  BY DEF Tls!Arrivals
<1>2. /\ incoming \in Seq(Unit) /\ stream \in Seq(Unit) /\ Len(stream) \in Nat
      /\ Len(incoming) \in Nat /\ MaxPacket \in Nat /\ Len(incoming) <= MaxPacket
      /\ MaxPacket - Len(incoming) \in Nat
  BY DEF TlsTypes, Tls!TlsAssumption
<1>3. /\ Tls!Min({Len(stream), MaxPacket - Len(incoming)}) \in Nat
      /\ Tls!Min({Len(stream), MaxPacket - Len(incoming)}) <= Len(stream)
      /\ Tls!Min({Len(stream), MaxPacket - Len(incoming)}) <= MaxPacket - Len(incoming)
  <2>1. \A x, y \in Nat : LET n == Tls!Min({x, y}) IN n \in Nat /\ n <= x /\ n <= y
    <3> SUFFICES ASSUME NEW x \in Nat, NEW y \in Nat
                 PROVE  LET n == Tls!Min({x, y}) IN n \in Nat /\ n <= x /\ n <= y
      OBVIOUS
    <3>1. \E n \in {x, y} : \A i \in {x, y} : n <= i
      OBVIOUS
    <3>2. /\ Tls!Min({x, y}) \in {x, y}
          /\ \A i \in {x, y} : Tls!Min({x, y}) <= i
      BY <3>1, Zenon DEF Tls!Min
    <3> QED
      BY <3>2
  <2> QED
    BY <1>2, <2>1
<1>4. k \in 1 .. Len(stream) /\ k <= MaxPacket - Len(incoming) /\ k \in Nat
  BY <1>1, <1>2, <1>3
<1>5. PICK p \in Seq(Unit), r \in Seq(Unit) :
         /\ p = SubSeq(stream, 1, k) /\ r = SubSeq(stream, k + 1, Len(stream))
         /\ Len(p) = k /\ p \o r = stream
  <2>1. /\ SubSeq(stream, 1, k) \in Seq(Unit) /\ Len(SubSeq(stream, 1, k)) = k
        /\ SubSeq(stream, k + 1, Len(stream)) \in Seq(Unit)
    BY <1>2, <1>4
  <2>2. SubSeq(stream, 1, k) \o SubSeq(stream, k + 1, Len(stream)) = stream
    <3>1. 1 \in 1 .. Len(stream) + 1 /\ k \in 1 - 1 .. Len(stream) /\ Len(stream) \in k .. Len(stream)
      BY <1>2, <1>4
    <3> QED
      BY <1>2, <3>1, ConcatAdjacentSubSeq, SubSeqFull, Zenon
  <2> QED
    BY <2>1, <2>2, Zenon
<1>6. s = incoming \o p /\ s \in Seq(Unit) /\ Len(s) = Len(incoming) + k
  <2>1. s = incoming \o p
    BY <1>1, <1>5, Zenon
  <2> QED
    BY <1>2, <1>5, <2>1
<1>7. Len(s) - Len(incoming) = k /\ Len(s) <= MaxPacket
  BY <1>2, <1>4, <1>6
<1>8. Tls!Rest(stream, Len(s) - Len(incoming)) = r
  BY <1>5, <1>7, Zenon DEF Tls!Rest
<1>9. PICK b \in Seq(Unit) : b = Behind
  BY ComingIs
<1>10. (incoming \o p) \o (r \o b) = incoming \o (stream \o b)
  <2>1. PICK rb \in Seq(Unit) : rb = r \o b
    BY <1>5, Joined
  <2>2. (incoming \o p) \o rb = incoming \o (p \o rb)
    <3>1. Regroup(incoming, p, rb)
      BY <1>2, <1>5, <2>1, Regroups, Zenon
    <3> QED
      BY <3>1, Zenon DEF Regroup
  <2>3. (p \o r) \o b = p \o (r \o b)
    <3>1. Regroup(p, r, b)
      BY <1>5, <1>9, Regroups, Zenon
    <3> QED
      BY <3>1, Zenon DEF Regroup
  <2> QED
    BY <1>5, <2>1, <2>2, <2>3, Zenon
<1>11. server # "reset"
  <2>1. stream # <<>>
    BY <1>2, <1>4
  <2> QED
    BY <2>1 DEF NotYet
<1> QED
  BY <1>5, <1>6, <1>7, <1>8, <1>9, <1>10, <1>11, Zenon DEF Coming

(* What the security context takes of what has been received.               *)
LEMMA WholeIs ==
    ASSUME SequenceLaws, NEW s \in Seq(Unit)
    PROVE  /\ Tls!Whole(s, "handshake") \in 0 .. Len(s)
           /\ \A i \in 1 .. Tls!Whole(s, "handshake") : s[i].kind = "handshake"
<1> DEFINE S == {n \in 0 .. Len(s) : /\ \A i \in 1 .. n : s[i].kind = "handshake"
                                     /\ n > 0 => s[n].last /\ ~Tls!Garbled(s)}
<1>1. Len(s) \in Nat /\ S \in SUBSET (0 .. Len(s)) /\ 0 \in S
  OBVIOUS
<1>2. Tls!Whole(s, "handshake") = Tls!Max(S)
  BY DEF Tls!Whole
<1>3. Tls!Max(S) \in S
  <2> HIDE DEF S
  <2> QED
    BY <1>1, MaxIs
<1> QED
  BY <1>2, <1>3

(* The units of a response are none of the handshake's.                     *)
LEMMA AnswerUnits ==
    ASSUME SequenceLaws, Tls!TlsAssumption, NEW a \in Responses
    PROVE  /\ AllUnits(a) \in Seq(Unit)
           /\ \A i \in 1 .. Len(AllUnits(a)) : AllUnits(a)[i].kind # "handshake"
<1>1. a \in Seq(Record)
  BY AnswerIs, Zenon
<1>2. AllUnits(a) \in Seq(Unit) /\ UnitsFit(a, AllUnits(a))
  BY <1>1, AllUnitsOf, RecordsEnd, Zenon
<1>3. \A k \in 1 .. Len(a) : a[k].kind # "handshake"
  BY AnswerIs
<1> QED
  BY <1>2, <1>3, Zenon DEF UnitsFit

(* Where the units of two sequences are when one is behind the other.       *)
LEMMA UnitsBehind ==
    ASSUME NEW x \in Seq(Unit), NEW y \in Seq(Unit)
    PROVE  /\ Len(x \o y) = Len(x) + Len(y) /\ Len(x) \in Nat
           /\ \A i \in 1 .. Len(y) : (x \o y)[Len(x) + i] = y[i]
<1> DEFINE U == Unit
<1>1. x \in Seq(U) /\ y \in Seq(U)
  OBVIOUS
<1> HIDE DEF U
<1>2. Len(x \o y) = Len(x) + Len(y) /\ Len(x) \in Nat /\ Len(y) \in Nat
  BY <1>1
<1>3. ASSUME NEW i \in 1 .. Len(y) PROVE (x \o y)[Len(x) + i] = y[i]
  BY <1>1, <1>2
<1> QED
  BY <1>2, <1>3

(* What is still to come of the handshake when a piece of it has been used, *)
(* or thrown away for want of a whole record.                               *)
HandshakeWent(a, s, w, n, more) ==
    /\ Tls!Unused(s, n) \in Seq(Unit) /\ Len(Tls!Unused(s, n)) <= Len(s)
    /\ more \in Nat /\ more <= Len(HandshakeSizes)
    /\ IF more = Len(HandshakeSizes)
       THEN Tls!Unused(s, n) \o w = AllUnits(a)
       ELSE HandshakeToCome(Tls!Unused(s, n) \o w, more, a)

LEMMA HandshakeGoes ==
    ASSUME SequenceLaws, Tls!TlsAssumption, NEW a \in Responses, NEW s \in Seq(Unit),
           NEW w \in Seq(Unit), NEW k \in Nat, k < Len(HandshakeSizes),
           HandshakeToCome(s \o w, k, a),
           NEW n, n = Tls!Whole(s, "handshake"),
           NEW more, more = k + Cardinality({i \in 1 .. n : s[i].last})
    PROVE  HandshakeWent(a, s, w, n, more)
<1>1. /\ n \in 0 .. Len(s) /\ n \in Nat /\ Len(s) \in Nat
      /\ \A i \in 1 .. n : s[i].kind = "handshake"
  <2>1. n \in 0 .. Len(s) /\ \A i \in 1 .. n : s[i].kind = "handshake"
    BY WholeIs, Zenon
  <2> QED
    BY <2>1
<1>2. PICK c \in 0 .. Len(s) : c = IF n > 0 THEN n ELSE Len(s)
  BY <1>1
<1>3. Tls!Unused(s, n) = SubSeq(s, c + 1, Len(s))
  <2>1. CASE n > 0
    <3>1. c = n
      BY <1>2, <2>1
    <3> QED
      BY <2>1, <3>1 DEF Tls!Unused, Tls!Rest
  <2>2. CASE ~(n > 0)
    <3>1. c = Len(s)
      BY <1>2, <2>2
    <3>2. SubSeq(s, Len(s) + 1, Len(s)) = <<>>
      BY <1>1
    <3> QED
      BY <2>2, <3>1, <3>2 DEF Tls!Unused
  <2> QED
    BY <2>1, <2>2
<1>4. PICK p \in Seq(Unit), r \in Seq(Unit) :
         /\ r = SubSeq(s, c + 1, Len(s)) /\ p \o r = s /\ Len(p) = c /\ Len(r) <= Len(s)
         /\ \A i \in 1 .. c : p[i] = s[i]
  <2>1. /\ SubSeq(s, 1, c) \in Seq(Unit) /\ Len(SubSeq(s, 1, c)) = c
        /\ \A i \in 1 .. c : SubSeq(s, 1, c)[i] = s[i]
    BY <1>1, <1>2
  <2>3. SubSeq(s, c + 1, Len(s)) \in Seq(Unit) /\ Len(SubSeq(s, c + 1, Len(s))) <= Len(s)
    <3>1. c \in Nat /\ c <= Len(s)
      BY <1>1, <1>2
    <3>2. SubSeq(s, c + 1, Len(s)) \in Seq(Unit)
      BY <1>1, <3>1
    <3>3. Len(SubSeq(s, c + 1, Len(s))) = Len(s) - c
      BY <1>1, <3>1
    <3> QED
      BY <1>1, <3>1, <3>2, <3>3
  <2>2. SubSeq(s, 1, c) \o SubSeq(s, c + 1, Len(s)) = s
    <3>1. 1 \in 1 .. Len(s) + 1 /\ c \in 1 - 1 .. Len(s) /\ Len(s) \in c .. Len(s)
      BY <1>1, <1>2
    <3> QED
      BY <3>1, ConcatAdjacentSubSeq, SubSeqFull, Zenon
  <2> QED
    BY <2>1, <2>2, <2>3, Zenon
<1>5. PICK v \in Seq(Unit) : v = r \o w
  BY <1>4, Joined
<1>6. s \o w = p \o v
  <2>1. Regroup(p, r, w)
    BY <1>4, Regroups, Zenon
  <2> QED
    BY <1>4, <1>5, <2>1, Zenon DEF Regroup
<1>7. /\ Len(p \o v) = Len(p) + Len(v) /\ Len(p) \in Nat /\ Len(v) \in Nat
      /\ \A i \in 1 .. Len(p) : (p \o v)[i] = p[i]
      /\ \A i \in 1 .. Len(v) : (p \o v)[Len(p) + i] = v[i]
  <2>1. Len(v) \in Nat /\ \A i \in 1 .. Len(p) : (p \o v)[i] = p[i]
    OBVIOUS
  <2> QED
    BY <2>1, UnitsBehind, Zenon
<1>8. /\ Lasts(p) \in Nat
      /\ more = IF n > 0 THEN k + Lasts(p) ELSE k
  <2>1. CASE n > 0
    <3>1. n = c /\ Len(p) = n
      BY <1>2, <1>4, <2>1
    <3>2. {i \in 1 .. n : s[i].last} = Ends(p)
      BY <1>4, <3>1 DEF Ends
    <3> QED
      BY <2>1, <3>2, LastsOf DEF Lasts
  <2>2. CASE ~(n > 0)
    <3>1. {i \in 1 .. n : s[i].last} = {}
      BY <1>1, <2>2
    <3>2. Cardinality({}) = 0
      BY FS_EmptySet
    <3>3. more = k
      <4>1. more = k + 0
        BY <3>1, <3>2, Zenon
      <4> QED
        BY <4>1
    <3>4. Lasts(p) \in Nat
      BY LastsOf, Zenon
    <3> QED
      BY <2>2, <3>3, <3>4
  <2> QED
    BY <2>1, <2>2
<1>9. SUFFICES /\ more \in Nat /\ more <= Len(HandshakeSizes)
               /\ IF more = Len(HandshakeSizes) THEN v = AllUnits(a)
                  ELSE HandshakeToCome(v, more, a)
  BY <1>3, <1>4, <1>5, Zenon DEF HandshakeWent
<1>10. Len(HandshakeSizes) \in Nat
  BY DEF Tls!TlsAssumption
<1>11. PICK A \in Seq(Unit) : /\ A = AllUnits(a)
                             /\ \A i \in 1 .. Len(A) : A[i].kind # "handshake"
  BY AnswerUnits
<1>12. CASE \A i \in 1 .. Len(s \o w) : (s \o w)[i].kind # "handshake"
  <2>1. \A i \in 1 .. Len(p \o v) : (p \o v)[i].kind # "handshake"
    BY <1>6, <1>12, Zenon
  <2>2. n = 0
    <3> SUFFICES ASSUME n # 0 PROVE FALSE
      OBVIOUS
    <3>0. n \in Nat /\ n > 0
      BY <1>1
    <3>a. n = c
      BY <1>2, <3>0
    <3>b. Len(p) = n
      BY <1>4, <3>a
    <3>1. 1 \in 1 .. n /\ 1 \in 1 .. Len(p) /\ 1 \in 1 .. c /\ 1 \in 1 .. Len(p \o v)
      <4>1. Len(p \o v) = Len(p) + Len(v) /\ Len(v) \in Nat
        BY <1>7
      <4> QED
        BY <3>0, <3>a, <3>b, <4>1
    <3>2. (p \o v)[1] = s[1]
      <4>1. (p \o v)[1] = p[1]
        BY <1>7, <3>1, Zenon
      <4>2. p[1] = s[1]
        BY <1>4, <3>1, Zenon
      <4> QED
        BY <4>1, <4>2, Zenon
    <3>3. s[1].kind = "handshake" /\ (p \o v)[1].kind # "handshake"
      BY <1>1, <2>1, <3>1, Zenon
    <3> QED
      BY <3>2, <3>3, Zenon
  <2>3. ASSUME NEW i \in 1 .. Len(v) PROVE v[i].kind # "handshake"
    <3>1. Len(p) + i \in 1 .. Len(p \o v)
      BY <1>7
    <3> QED
      BY <1>7, <2>1, <3>1, Zenon
  <2>4. HandshakeToCome(v, more, a)
    BY <2>3 DEF HandshakeToCome
  <2>5. more = k
    BY <1>8, <2>2
  <2> QED
    BY <2>4, <2>5, <1>10
<1>13. ASSUME NEW hs \in Seq(Unit), hs # <<>>, hs[Len(hs)].last,
              \A i \in 1 .. Len(hs) : hs[i].kind = "handshake",
              s \o w = hs \o AllUnits(a),
              k + Lasts(hs) <= Len(HandshakeSizes)
       PROVE  /\ more \in Nat /\ more <= Len(HandshakeSizes)
              /\ IF more = Len(HandshakeSizes) THEN v = AllUnits(a)
                 ELSE HandshakeToCome(v, more, a)
  <2>1. p \o v = hs \o A
    BY <1>6, <1>11, <1>13, Zenon
  <2>2. /\ Len(hs \o A) = Len(hs) + Len(A) /\ Len(hs) \in Nat /\ Len(A) \in Nat /\ Len(hs) > 0
        /\ \A i \in 1 .. Len(A) : (hs \o A)[Len(hs) + i] = A[i]
    BY <1>13
  <2>3. Lasts(hs) \in Nat
    BY LastsOf
  <2>4. ASSUME n > 0 PROVE c <= Len(hs)
    <3> SUFFICES ASSUME ~(c <= Len(hs)) PROVE FALSE
      OBVIOUS
    <3>1. c = n /\ Len(p) = n
      BY <1>2, <1>4, <2>4
    <3>2. Len(hs) + 1 \in 1 .. Len(p) /\ Len(hs) + 1 \in 1 .. c /\ Len(hs) + 1 \in 1 .. n
      BY <1>1, <2>2, <3>1
    <3>3. Len(hs) + Len(A) = Len(p) + Len(v)
      BY <1>7, <2>1, <2>2
    <3>4. 1 \in 1 .. Len(A)
      BY <1>7, <2>2, <3>2, <3>3
    <3>5. (p \o v)[Len(hs) + 1] = s[Len(hs) + 1] /\ (hs \o A)[Len(hs) + 1] = A[1]
      BY <1>4, <1>7, <2>2, <3>2, <3>4, Zenon
    <3>6. s[Len(hs) + 1].kind = "handshake" /\ A[1].kind # "handshake"
      BY <1>1, <1>11, <3>2, <3>4, Zenon
    <3> QED
      BY <2>1, <3>5, <3>6, Zenon
  <2>5. CASE c < Len(hs)
    <3>1. SameCut(Unit, hs, A, p, v)
      <4>1. hs \o A = p \o v
        BY <2>1
      <4> QED
        BY <4>1, CutAt, Zenon
    <3>2. PICK q \in Seq(Unit) : q \o A = v /\ p \o q = hs
      <4>1. Len(p) <= Len(hs)
        BY <1>4, <2>2, <2>5
      <4> QED
        BY <3>1, <4>1, Zenon DEF SameCut
    <3>3. /\ Len(hs) = Len(p) + Len(q) /\ Len(q) \in Nat /\ Len(q) > 0
          /\ \A i \in 1 .. Len(q) : hs[Len(p) + i] = q[i]
      <4>1. /\ Len(p \o q) = Len(p) + Len(q) /\ Len(q) \in Nat
            /\ \A i \in 1 .. Len(q) : (p \o q)[Len(p) + i] = q[i]
        <5>1. Len(q) \in Nat
          OBVIOUS
        <5> QED
          BY <5>1, UnitsBehind, Zenon
      <4>2. Len(hs) = Len(p) + Len(q) /\ \A i \in 1 .. Len(q) : hs[Len(p) + i] = q[i]
        BY <3>2, <4>1
      <4> QED
        BY <1>4, <2>5, <4>1, <4>2
    <3>4. q # <<>> /\ q[Len(q)].last
      <4>1. Len(q) \in 1 .. Len(q) /\ Len(p) + Len(q) = Len(hs)
        BY <3>3
      <4>2. q[Len(q)] = hs[Len(hs)]
        BY <3>3, <4>1
      <4> QED
        BY <1>13, <3>3, <4>2
    <3>5. \A i \in 1 .. Len(q) : q[i].kind = "handshake"
      <4> SUFFICES ASSUME NEW i \in 1 .. Len(q) PROVE q[i].kind = "handshake"
        OBVIOUS
      <4>1. Len(p) + i \in 1 .. Len(hs)
        BY <1>7, <3>3
      <4> QED
        BY <1>13, <3>3, <4>1, Zenon
    <3>6. Lasts(hs) = Lasts(p) + Lasts(q) /\ Lasts(q) \in Nat /\ Lasts(q) > 0
      <4>1. Lasts(hs) = Lasts(p) + Lasts(q)
        BY <3>2, LastsConcat
      <4>2. Len(q) \in 1 .. Len(q)
        BY <3>3
      <4> QED
        BY <3>4, <4>1, <4>2, LastsOf
    <3>7. more \in Nat /\ more + Lasts(q) <= Len(HandshakeSizes) /\ more < Len(HandshakeSizes)
      <4>1. k + Lasts(hs) <= Len(HandshakeSizes) /\ k \in Nat
        BY <1>13, Zenon
      <4>2. Lasts(p) \in Nat /\ (more = k + Lasts(p) \/ more = k)
        BY <1>8, Zenon
      <4>3. PICK x \in Nat, y \in Nat : x = Lasts(p) /\ y = Lasts(q)
        BY <3>6, <4>2
      <4>4. y > 0 /\ k + (x + y) <= Len(HandshakeSizes)
        BY <3>6, <4>1, <4>3, Zenon
      <4>5. more = k + x \/ more = k
        BY <4>2, <4>3, Zenon
      <4>6. more \in Nat /\ more + y <= Len(HandshakeSizes) /\ more < Len(HandshakeSizes)
        BY <1>10, <4>4, <4>5
      <4> QED
        BY <4>3, <4>6, Zenon
    <3>8. HandshakeToCome(v, more, a)
      BY <1>11, <3>2, <3>4, <3>5, <3>7, Zenon DEF HandshakeToCome
    <3> QED
      BY <1>10, <3>7, <3>8
  <2>6. CASE ~(c < Len(hs))
    <3>1. SameCut(Unit, p, v, hs, A)
      BY <2>1, CutAt, Zenon
    <3>2. PICK q \in Seq(Unit) : q \o v = A /\ hs \o q = p
      <4>1. Len(hs) <= Len(p)
        BY <1>4, <2>2, <2>6
      <4> QED
        BY <3>1, <4>1, Zenon DEF SameCut
    <3>3. /\ Len(q \o v) = Len(q) + Len(v) /\ Len(q) \in Nat /\ Len(hs \o q) = Len(hs) + Len(q)
          /\ \A i \in 1 .. Len(v) : (q \o v)[Len(q) + i] = v[i]
      <4>1. Len(hs \o q) = Len(hs) + Len(q)
        OBVIOUS
      <4>2. /\ Len(q \o v) = Len(q) + Len(v) /\ Len(q) \in Nat
            /\ \A i \in 1 .. Len(v) : (q \o v)[Len(q) + i] = v[i]
        BY UnitsBehind, Zenon
      <4> QED
        BY <4>1, <4>2
    <3>4. \A i \in 1 .. Len(v) : v[i].kind # "handshake"
      <4> SUFFICES ASSUME NEW i \in 1 .. Len(v) PROVE v[i].kind # "handshake"
        OBVIOUS
      <4>1. Len(q) + i \in 1 .. Len(A)
        BY <1>7, <3>2, <3>3
      <4>2. A[Len(q) + i] = v[i]
        BY <3>2, <3>3
      <4> QED
        BY <1>11, <4>1, <4>2, Zenon
    <3>5. HandshakeToCome(v, more, a)
      BY <3>4, Zenon DEF HandshakeToCome
    <3>6. CASE n > 0
      <4>1. c = Len(hs) /\ Len(p) = Len(hs)
        <5>1. c <= Len(hs)
          BY <2>4, <3>6
        <5> QED
          BY <1>4, <2>2, <2>6, <5>1
      <4>2. q = <<>>
        <5>1. Len(q) = 0
          BY <2>2, <3>2, <3>3, <4>1
        <5> QED
          BY <5>1
      <4>3. v = A /\ p = hs
        BY <3>2, <4>2
      <4>4. more \in Nat /\ more <= Len(HandshakeSizes)
        BY <1>8, <1>10, <1>13, <2>3, <3>6, <4>3
      <4> QED
        BY <1>11, <3>5, <4>3, <4>4
    <3>7. CASE ~(n > 0)
      <4>1. more = k
        BY <1>8, <3>7
      <4> QED
        BY <1>10, <3>5, <4>1
    <3> QED
      BY <3>6, <3>7
  <2> QED
    BY <2>5, <2>6
<1>14. \/ \A i \in 1 .. Len(s \o w) : (s \o w)[i].kind # "handshake"
       \/ \E hs \in Seq(Unit) : /\ hs # <<>> /\ hs[Len(hs)].last
                                /\ \A i \in 1 .. Len(hs) : hs[i].kind = "handshake"
                                /\ s \o w = hs \o AllUnits(a)
                                /\ k + Lasts(hs) <= Len(HandshakeSizes)
  BY DEF HandshakeToCome
<1> QED
  BY <1>12, <1>13, <1>14

(* What Child's operator says of a prefix is what TlsClient's does.         *)
LEMMA SamePrefix == \A p, q : Tls!IsPrefix(p, q) <=> Child!IsPrefix(p, q)
BY DEF Tls!IsPrefix, Child!IsPrefix

(* The client is done with the connection, in one of its three ways.        *)
EndsAs(how) == phase' \in {"disconnect", "ended"} /\ ending' = how

LEMMA WaysOut ==
    /\ \A how : Tls!Fail(how) => EndsAs(how)
    /\ \A how : Tls!Leave(how) => EndsAs(how)
    /\ Tls!Abort => EndsAs("aborted")
BY DEF Tls!Fail, Tls!Leave, Tls!Abort, EndsAs

(* The client gives up, with whatever reason but an end of the session.     *)
LEMMA QuitInv ==
    ASSUME SequenceLaws, TlsInv, NEW how, how # "closed", EndsAs(how),
           UNCHANGED <<decrypted, buf, received, asked, answer, script, server>>,
           incoming' \in Seq(Unit), Len(incoming') <= MaxPacket,
           stream' \in Seq(Unit), server = "reset" => stream' = <<>>, handshaken' \in Nat
    PROVE  TlsInv'
<1>1. TlsTypes'
  BY DEF TlsInv, TlsTypes, EndsAs
<1>2. NotYet'
  BY DEF TlsInv, NotYet, EndsAs
<1>3. Shaking' /\ Reads'
  BY DEF Shaking, Reads, EndsAs
<1>4. FileRight'
  BY DEF TlsInv, FileRight, EndsAs
<1> QED
  BY <1>1, <1>2, <1>3, <1>4 DEF TlsInv

LEMMA ConnectInv ==
    ASSUME SequenceLaws, Tls!TlsAssumption, TlsInv, Tls!tls_connect
    PROVE  TlsInv'
<1>1. /\ phase = "connect" /\ incoming = <<>> /\ stream = <<>> /\ script = <<>>
      /\ handshaken = 0 /\ server = "open" /\ ~asked /\ ending = "none"
      /\ decrypted = <<>> /\ buf = <<>> /\ received = <<>>
  BY DEF TlsInv, NotYet, Tls!tls_connect
<1>2. UNCHANGED <<incoming, handshaken, decrypted, buf, received, asked, answer, stream, server>>
  BY DEF Tls!tls_connect, Tls!files
<1>t. TlsTypes
  BY DEF TlsInv
<1>3. CASE EndsAs("refused") /\ UNCHANGED script
  <2>1. incoming' \in Seq(Unit) /\ Len(incoming') <= MaxPacket /\ stream' \in Seq(Unit)
        /\ handshaken' \in Nat /\ stream' = <<>>
    BY <1>1, <1>2, <1>t DEF TlsTypes
  <2> QED
    BY <1>2, <1>3, <2>1, QuitInv
<1>4. CASE /\ phase' = "handshake"
           /\ script' = Tls!Handshake \o Tls!Greeting(answer)
           /\ UNCHANGED ending
  <2>1. /\ Tls!Handshake \in Seq(Record) /\ Len(Tls!Handshake) = Len(HandshakeSizes)
        /\ Tls!Handshake # <<>>
        /\ \A k \in 1 .. Len(Tls!Handshake) : Tls!Handshake[k].kind = "handshake"
    BY HandshakeIs
  <2>2. /\ answer \in Responses /\ answer \in Seq(Record)
        /\ Tls!Greeting(answer) \in Seq(Record) /\ Tls!Asked(answer) \in Seq(Record)
        /\ Tls!Greeting(answer) \o Tls!Asked(answer) = answer
    <3>1. answer \in Responses
      BY <1>t DEF TlsTypes
    <3> QED
      BY <3>1, AnswerIs, GreetingIs, Zenon
  <2>3. script' \in Seq(Record)
    BY <1>4, <2>1, <2>2, Joined, Zenon
  <2>4. TlsTypes'
    BY <1>2, <1>4, <1>t, <2>3 DEF TlsTypes
  <2>5. NotYet'
    BY <1>1, <1>2, <1>4 DEF NotYet
  <2>6. PICK hs \in Seq(Unit) : hs = AllUnits(Tls!Handshake)
    BY <2>1, AllUnitsOf
  <2>7. /\ hs # <<>> /\ hs[Len(hs)].last /\ Lasts(hs) = Len(HandshakeSizes)
        /\ \A i \in 1 .. Len(hs) : hs[i].kind = "handshake"
    <3>1. UnitsFit(Tls!Handshake, hs)
      BY <2>1, <2>6, RecordsEnd
    <3> QED
      BY <2>1, <3>1, Zenon DEF UnitsFit
  <2>8. Coming' = hs \o AllUnits(answer)
    <3>1. Unasked' = Tls!Asked(answer)
      BY <1>1, <1>2 DEF Unasked
    <3>2. (script \o Unasked)' = (Tls!Handshake \o Tls!Greeting(answer)) \o Tls!Asked(answer)
      BY <1>4, <3>1
    <3>3. (script \o Unasked)' = Tls!Handshake \o answer
      <4>1. Regroup(Tls!Handshake, Tls!Greeting(answer), Tls!Asked(answer))
        BY <2>1, <2>2, Regroups, Zenon
      <4> QED
        BY <2>2, <3>2, <4>1, Zenon DEF Regroup
    <3>4. Behind' = AllUnits(Tls!Handshake \o answer)
      BY <3>3, Zenon DEF Behind
    <3>5. Behind' = hs \o AllUnits(answer) /\ Behind' \in Seq(Unit)
      <4>1. AllUnits(Tls!Handshake \o answer) = AllUnits(Tls!Handshake) \o AllUnits(answer)
        BY <2>1, <2>2, AllUnitsOf, Zenon
      <4>2. AllUnits(answer) \in Seq(Unit)
        BY <2>2, AllUnitsOf, Zenon
      <4>3. hs \o AllUnits(answer) \in Seq(Unit)
        BY <4>2, Joined, Zenon
      <4> QED
        BY <2>6, <3>4, <4>1, <4>3, Zenon
    <3>6. Coming' = <<>> \o Behind'
      BY <1>1, <1>2 DEF Coming
    <3>7. <<>> \o Behind' = Behind'
      BY <3>5, Joined, Zenon
    <3> QED
      BY <3>5, <3>6, <3>7, Zenon
  <2>9. (incoming \o Coming)' = hs \o AllUnits(answer)
    <3>1. AllUnits(answer) \in Seq(Unit)
      BY <2>2, AllUnitsOf, Zenon
    <3>2. hs \o AllUnits(answer) \in Seq(Unit)
      BY <3>1, Joined, Zenon
    <3>3. <<>> \o (hs \o AllUnits(answer)) = hs \o AllUnits(answer)
      BY <3>2, Joined, Zenon
    <3> QED
      BY <1>1, <1>2, <2>8, <3>3, Zenon
  <2>10. Len(HandshakeSizes) \in Nat /\ Len(HandshakeSizes) > 0
    BY DEF Tls!TlsAssumption
  <2>11. HandshakeToCome((incoming \o Coming)', 0, answer)
    <3>1. 0 + Lasts(hs) <= Len(HandshakeSizes)
      BY <2>7, <2>10
    <3> QED
      BY <2>7, <2>9, <3>1, Zenon DEF HandshakeToCome
  <2>12. Shaking'
    <3>1. handshaken' = 0 /\ answer' = answer
      BY <1>1, <1>2
    <3>2. HandshakeToCome(incoming' \o Coming', handshaken', answer')
      BY <2>11, <3>1, Zenon
    <3> QED
      BY <1>4, <2>10, <3>1, <3>2 DEF Shaking
  <2>13. Reads'
    BY <1>4 DEF Reads
  <2>14. FileRight'
    BY <1>1, <1>2 DEF TlsInv, FileRight
  <2> QED
    BY <2>4, <2>5, <2>12, <2>13, <2>14 DEF TlsInv
<1> QED
  BY <1>3, <1>4, WaysOut, Zenon DEF Tls!tls_connect

LEMMA SameCardinality == \A S : Tls!Cardinality(S) = Cardinality(S)
BY DEF Tls!Cardinality, Cardinality

LEMMA HandshakeReceivesInv ==
    ASSUME SequenceLaws, Tls!TlsAssumption, TlsInv, Tls!HandshakeReceives
    PROVE  TlsInv'
<1>t. TlsTypes /\ NotYet
  BY DEF TlsInv
<1>1. /\ phase = "handshake" /\ ~asked /\ ending = "none"
      /\ decrypted = <<>> /\ buf = <<>> /\ received = <<>>
  BY <1>t DEF NotYet, Tls!HandshakeReceives
<1>2. UNCHANGED <<decrypted, buf, received, asked, answer, script, server>>
  BY DEF Tls!HandshakeReceives, Tls!files
<1>3. PICK s \in Tls!Arrivals :
        LET n == Tls!Whole(s, "handshake")
            more == handshaken + Cardinality({i \in 1 .. n : s[i].last})
        IN  /\ stream' = Tls!Rest(stream, Len(s) - Len(incoming))
            /\ \/ /\ incoming' = Tls!Unused(s, n)
                  /\ handshaken' = more
                  /\ phase' = IF more = Len(HandshakeSizes) THEN "write" ELSE phase
                  /\ UNCHANGED <<kept, ending>>
               \/ /\ Tls!Garbled(s) \/ n > 0
                  /\ EndsAs("failed")
                  /\ UNCHANGED <<incoming, handshaken>>
  BY SameCardinality, WaysOut, Zenon DEF Tls!HandshakeReceives
<1> DEFINE n == Tls!Whole(s, "handshake")
           more == handshaken + Cardinality({i \in 1 .. n : s[i].last})
<1>4. /\ s \in Seq(Unit) /\ Len(s) <= MaxPacket /\ server # "reset"
      /\ stream' \in Seq(Unit) /\ s \o (stream' \o Behind) = incoming \o Coming
  <2>1. stream' = Tls!Rest(stream, Len(s) - Len(incoming))
    BY <1>3
  <2> QED
    BY <1>t, <2>1, Arrived, Zenon
<1>5. Behind' = Behind
  BY <1>2 DEF Behind, Unasked
<1>6. CASE EndsAs("failed") /\ UNCHANGED <<incoming, handshaken>>
  <2>1. incoming' \in Seq(Unit) /\ Len(incoming') <= MaxPacket /\ handshaken' \in Nat
    BY <1>6, <1>t DEF TlsTypes
  <2> QED
    BY <1>2, <1>4, <1>6, <2>1, QuitInv
<1>7. CASE /\ incoming' = Tls!Unused(s, n) /\ handshaken' = more
           /\ phase' = IF more = Len(HandshakeSizes) THEN "write" ELSE phase
           /\ UNCHANGED <<kept, ending>>
  <2>1. /\ handshaken \in Nat /\ handshaken < Len(HandshakeSizes) /\ answer \in Responses
        /\ HandshakeToCome(incoming \o Coming, handshaken, answer)
    BY <1>1, <1>4, <1>t DEF TlsInv, TlsTypes, Shaking
  <2>2. PICK w \in Seq(Unit) : w = stream' \o Behind
    <3>1. Behind \in Seq(Unit)
      BY <1>t, ComingIs, Zenon
    <3> QED
      BY <1>4, <3>1, Joined
  <2>3. HandshakeToCome(s \o w, handshaken, answer)
    BY <1>4, <2>1, <2>2, Zenon
  <2>4. PICK m : m = n
    OBVIOUS
  <2>5. PICK e : e = handshaken + Cardinality({i \in 1 .. m : s[i].last})
    OBVIOUS
  <2>6. e = more
    BY <2>4, <2>5
  <2>7. /\ Tls!Unused(s, m) \in Seq(Unit) /\ Len(Tls!Unused(s, m)) <= Len(s)
        /\ e \in Nat /\ e <= Len(HandshakeSizes)
        /\ IF e = Len(HandshakeSizes)
           THEN Tls!Unused(s, m) \o w = AllUnits(answer)
           ELSE HandshakeToCome(Tls!Unused(s, m) \o w, e, answer)
    <3> HIDE DEF more, n
    <3>1. m = Tls!Whole(s, "handshake")
      BY <2>4 DEF n
    <3>2. HandshakeWent(answer, s, w, m, e)
      BY <1>4, <2>1, <2>3, <2>5, <3>1, HandshakeGoes, Zenon
    <3> QED
      BY <3>2, Zenon DEF HandshakeWent
  <2>8. /\ incoming' = Tls!Unused(s, m) /\ handshaken' = e
        /\ phase' = IF e = Len(HandshakeSizes) THEN "write" ELSE "handshake"
        /\ ending' = ending
    BY <1>1, <1>7, <2>4, <2>6, Zenon
  <2> HIDE DEF more, n
  <2>9. Coming' = w
    BY <1>5, <2>2, Zenon DEF Coming
  <2>10. Len(HandshakeSizes) \in Nat /\ MaxPacket \in Nat
    BY DEF Tls!TlsAssumption
  <2>11. TlsTypes'
    <3>1. incoming' \in Seq(Unit) /\ Len(incoming') \in Nat
      BY <2>7, <2>8
    <3>2. Len(s) \in Nat /\ Len(incoming') <= Len(s)
      BY <1>4, <2>7, <2>8
    <3>3. Len(incoming') <= MaxPacket
      BY <1>4, <2>10, <3>1, <3>2
    <3> QED
      BY <1>2, <1>4, <1>t, <2>7, <2>8, <3>1, <3>3 DEF TlsTypes
  <2>12. NotYet'
    BY <1>1, <1>2, <1>4, <2>8 DEF NotYet
  <2>13. Shaking'
    <3>1. answer' = answer
      BY <1>2
    <3>2. CASE e = Len(HandshakeSizes)
      <4>1. incoming' \o Coming' = AllUnits(answer') /\ phase' = "write"
        BY <2>7, <2>8, <2>9, <3>1, <3>2, Zenon
      <4> QED
        BY <4>1 DEF Shaking
    <3>3. CASE e # Len(HandshakeSizes)
      <4>1. /\ HandshakeToCome(incoming' \o Coming', handshaken', answer')
            /\ phase' = "handshake"
        BY <2>7, <2>8, <2>9, <3>1, <3>3, Zenon
      <4>2. handshaken' < Len(HandshakeSizes)
        BY <2>7, <2>8, <2>10, <3>3
      <4> QED
        BY <4>1, <4>2 DEF Shaking
    <3> QED
      BY <3>2, <3>3
  <2>14. Reads'
    BY <2>8 DEF Reads
  <2>15. FileRight'
    BY <1>1, <1>2 DEF TlsInv, FileRight
  <2> QED
    BY <2>11, <2>12, <2>13, <2>14, <2>15 DEF TlsInv
<1> QED
  BY <1>3, <1>6, <1>7

LEMMA HandshakeCutInv ==
    ASSUME SequenceLaws, TlsInv, Tls!HandshakeCut
    PROVE  TlsInv'
<1>1. /\ phase = "handshake" /\ phase' = "write"
      /\ UNCHANGED <<incoming, handshaken, decrypted, buf, received, kept, asked, answer,
                     script, stream, server, ending>>
  BY DEF Tls!HandshakeCut, Tls!files
<1>2. TlsTypes' /\ NotYet' /\ FileRight'
  BY <1>1 DEF TlsInv, TlsTypes, NotYet, FileRight
<1>3. Shaking'
  <2>1. handshaken < Len(HandshakeSizes)
    BY <1>1 DEF TlsInv, Shaking
  <2>2. handshaken \in Nat
    BY DEF TlsInv, TlsTypes
  <2>3. handshaken' # Len(HandshakeSizes) \/ Len(HandshakeSizes) \notin Nat
    BY <1>1, <2>1, <2>2
  <2> QED
    BY <1>1, <2>1, <2>2 DEF Shaking
<1>4. Reads'
  BY <1>1 DEF Reads
<1> QED
  BY <1>2, <1>3, <1>4 DEF TlsInv

LEMMA LostInv ==
    ASSUME SequenceLaws, TlsInv, Tls!ConnectionLost
    PROVE  TlsInv'
<1>1. /\ EndsAs("failed")
      /\ UNCHANGED <<incoming, handshaken, decrypted, buf, received, asked, answer,
                     script, stream, server>>
  BY WaysOut DEF Tls!ConnectionLost, Tls!files
<1>2. /\ incoming' \in Seq(Unit) /\ Len(incoming') <= MaxPacket /\ stream' \in Seq(Unit)
      /\ handshaken' \in Nat /\ (server = "reset" => stream' = <<>>)
  BY <1>1 DEF TlsInv, TlsTypes, NotYet
<1> QED
  BY <1>1, <1>2, QuitInv

LEMMA TlsWriteInv ==
    ASSUME SequenceLaws, Tls!TlsAssumption, TlsInv, Tls!tls_write
    PROVE  TlsInv'
<1>t. TlsTypes /\ NotYet
  BY DEF TlsInv
<1>1. /\ phase = "write" /\ ~asked /\ ending = "none"
      /\ decrypted = <<>> /\ buf = <<>> /\ received = <<>>
  BY <1>t DEF NotYet, Tls!tls_write
<1>2. UNCHANGED <<incoming, handshaken, decrypted, buf, received, answer, stream, server>>
  BY DEF Tls!tls_write, Tls!files
<1>3. ASSUME NEW how \in {"failed", "aborted"}, EndsAs(how), UNCHANGED <<asked, script>>
      PROVE  TlsInv'
  <2>1. /\ incoming' \in Seq(Unit) /\ Len(incoming') <= MaxPacket /\ stream' \in Seq(Unit)
        /\ handshaken' \in Nat /\ (server = "reset" => stream' = <<>>)
    BY <1>2, <1>t DEF TlsTypes, NotYet
  <2> QED
    BY <1>2, <1>3, <2>1, QuitInv
<1>4. CASE /\ handshaken = Len(HandshakeSizes) /\ server # "reset"
           /\ asked' = TRUE /\ phase' = "read"
           /\ script' = script \o Tls!Asked(answer)
           /\ UNCHANGED <<kept, ending>>
  <2>1. /\ answer \in Responses /\ script \in Seq(Record) /\ incoming \in Seq(Unit)
        /\ Len(incoming) <= MaxPacket
    BY <1>t DEF TlsTypes
  <2>2. Tls!Asked(answer) \in Seq(Record)
    BY <2>1, GreetingIs, Zenon
  <2>3. script' \in Seq(Record)
    BY <1>4, <2>1, <2>2, Joined, Zenon
  <2>4. TlsTypes'
    BY <1>2, <1>4, <1>t, <2>3 DEF TlsTypes
  <2>5. NotYet'
    BY <1>1, <1>2, <1>4, <1>t DEF NotYet
  <2>6. Shaking'
    BY <1>4 DEF Shaking
  <2>7. Coming' = Coming
    <3>1. Unasked = Tls!Asked(answer) /\ Unasked' = <<>>
      BY <1>1, <1>4 DEF Unasked
    <3>2. script' \o Unasked' = script'
      BY <2>3, <3>1, Joined, Zenon
    <3>3. script' \o Unasked' = script \o Unasked
      BY <1>4, <3>1, <3>2, Zenon
    <3>4. Behind' = Behind
      BY <3>3, Zenon DEF Behind
    <3> QED
      BY <1>2, <3>4, Zenon DEF Coming
  <2>8. incoming \o Coming = AllUnits(answer)
    BY <1>1, <1>4 DEF TlsInv, Shaking
  <2>9. Reads'
    <3>1. /\ Left(answer, 0) = AllUnits(answer) /\ Said(answer, 0) = <<>>
          /\ 0 \in 0 .. Len(answer)
      <4>1. Len(answer) \in Nat
        BY <2>1, AnswerIs, Zenon
      <4>2. 0 \in 0 .. Len(answer)
        BY <4>1
      <4> QED
        BY <2>1, <4>2, LeftIs, SaidIs, Zenon
    <3>2. Coming \in Seq(Unit)
      BY <1>t, ComingIs, Zenon
    <3>3. received \o buf = <<>>
      BY <1>1
    <3>4. ReadTo(0, Coming)'
      <4>1. (received \o buf)' = Said(answer', 0)
        BY <1>2, <3>1, <3>3, Zenon
      <4>2. incoming' \o Coming = Left(answer', 0)
        BY <1>2, <2>8, <3>1, Zenon
      <4> QED
        BY <1>1, <1>2, <2>7, <4>1, <4>2 DEF ReadTo
    <3>5. Len(buf') + Len(incoming') <= MaxPacket
      <4>1. Len(buf') = 0 /\ Len(incoming') \in Nat /\ Len(incoming') <= MaxPacket
        BY <1>1, <1>2, <2>1
      <4> QED
        BY <4>1
    <3>6. answer' = answer
      BY <1>2
    <3> QED
      BY <1>4, <2>7, <3>1, <3>2, <3>4, <3>5, <3>6 DEF Reads
  <2>10. FileRight'
    BY <1>1, <1>2, <1>4 DEF TlsInv, FileRight
  <2> QED
    BY <2>4, <2>5, <2>6, <2>9, <2>10 DEF TlsInv
<1> QED
  BY <1>3, <1>4, WaysOut, Zenon DEF Tls!tls_write

-----------------------------------------------------------------------------
(* A whole record at the head of what is received is the next one of the    *)
(* response.                                                                *)
RecordThere(a, m, s, z, n) ==
    /\ m + 1 \in 0 .. Len(a) /\ m + 1 \in 1 .. Len(a)
    /\ n = IF Len(a[m + 1].bytes) <= Len(s) THEN Len(a[m + 1].bytes) ELSE 0
    /\ a[m + 1].bytes \in Seq(Byte) /\ Len(a[m + 1].bytes) \in Nat \ {0}
    /\ n > 0 => /\ s[1].kind = a[m + 1].kind
                /\ Tls!Plain(SubSeq(s, 1, n)) = a[m + 1].bytes
                /\ Tls!Rest(s, n) \in Seq(Unit)
                /\ Tls!Rest(s, n) \o z = Left(a, m + 1)
                /\ Len(Tls!Rest(s, n)) = Len(s) - n

LEMMA NextRecord ==
    ASSUME SequenceLaws, Tls!TlsAssumption, NEW a \in Responses, NEW m \in 0 .. Len(a),
           NEW s \in Seq(Unit), NEW z \in Seq(Unit), s \o z = Left(a, m),
           NEW n, n = Tls!FirstRecord(s), m # Len(a)
    PROVE  RecordThere(a, m, s, z, n)
<1>1. /\ m + 1 \in 0 .. Len(a) /\ m + 1 \in 1 .. Len(a)
      /\ Left(a, m) = Tls!Units(a[m + 1]) \o Left(a, m + 1)
  BY LeftIs, Zenon
<1>2. Left(a, m + 1) \in Seq(Unit)
  BY <1>1, LeftIs, Zenon
<1>3. a[m + 1] \in Record
  BY <1>1, AnswerIs, Zenon
<1>4. PICK r \in Record, y \in Seq(Unit) : r = a[m + 1] /\ y = Left(a, m + 1)
  BY <1>2, <1>3, Zenon
<1>5. s \o z = Tls!Units(r) \o y
  BY <1>1, <1>4, Zenon
<1>6. /\ Tls!FirstRecord(s) = IF Len(r.bytes) <= Len(s) THEN Len(r.bytes) ELSE 0
      /\ Tls!FirstRecord(s) > 0 =>
           /\ s[1].kind = r.kind
           /\ Tls!Plain(SubSeq(s, 1, Tls!FirstRecord(s))) = r.bytes
           /\ Tls!Rest(s, Tls!FirstRecord(s)) \in Seq(Unit)
           /\ Tls!Rest(s, Tls!FirstRecord(s)) \o z = y
           /\ Len(Tls!Rest(s, Tls!FirstRecord(s))) = Len(s) - Tls!FirstRecord(s)
  BY <1>5, FirstRecordIs, Zenon
<1>7. r.bytes \in Seq(Byte) /\ Len(r.bytes) \in Nat \ {0}
  <2>1. r.bytes \in Seq(Byte) /\ Len(r.bytes) \in 1 .. MaxPacket
    BY UnitsOf, Zenon
  <2> QED
    BY <2>1
<1> QED
  BY <1>1, <1>4, <1>6, <1>7, Zenon DEF RecordThere

(* There is none where all of the response has been read.                   *)
LEMMA NoRecord ==
    ASSUME SequenceLaws, Tls!TlsAssumption, NEW a \in Responses,
           NEW s \in Seq(Unit), NEW z \in Seq(Unit), s \o z = Left(a, Len(a))
    PROVE  s = <<>> /\ z = <<>> /\ Tls!FirstRecord(s) = 0
<1>1. s \o z = <<>>
  BY LeftIs, Zenon
<1>2. s = <<>> /\ z = <<>>
  <2>1. Len(s \o z) = Len(s) + Len(z) /\ Len(s) \in Nat /\ Len(z) \in Nat /\ Len(<<>>) = 0
    OBVIOUS
  <2>2. Len(s) = 0 /\ Len(z) = 0
    BY <1>1, <2>1
  <2> QED
    BY <2>2
<1> QED
  BY <1>2, NoFirstRecord

(* Nothing whole is received and nothing is to come: all has been read.     *)
LEMMA AllRead ==
    ASSUME SequenceLaws, Tls!TlsAssumption, NEW a \in Responses, NEW m \in 0 .. Len(a),
           NEW s \in Seq(Unit), s \o <<>> = Left(a, m), Tls!FirstRecord(s) = 0
    PROVE  m = Len(a)
<1> SUFFICES ASSUME m # Len(a) PROVE FALSE
  OBVIOUS
<1>1. <<>> \in Seq(Unit)
  OBVIOUS
<1>2. PICK n : n = Tls!FirstRecord(s)
  OBVIOUS
<1>3. /\ m + 1 \in 0 .. Len(a)
      /\ n = IF Len(a[m + 1].bytes) <= Len(s) THEN Len(a[m + 1].bytes) ELSE 0
      /\ a[m + 1].bytes \in Seq(Byte) /\ Len(a[m + 1].bytes) \in Nat \ {0}
  <2>1. RecordThere(a, m, s, <<>>, n)
    BY <1>1, <1>2, NextRecord, Zenon
  <2> QED
    BY <2>1, Zenon DEF RecordThere
<1>4. a[m + 1] \in Record /\ Left(a, m) = Tls!Units(a[m + 1]) \o Left(a, m + 1)
  <2>1. m + 1 \in 1 .. Len(a) /\ Left(a, m) = Tls!Units(a[m + 1]) \o Left(a, m + 1)
    BY LeftIs, Zenon
  <2> QED
    BY <2>1, AnswerIs, Zenon
<1>5. PICK u \in Seq(Unit), y \in Seq(Unit) :
         /\ u = Tls!Units(a[m + 1]) /\ y = Left(a, m + 1) /\ Len(u) = Len(a[m + 1].bytes)
  <2>1. Left(a, m + 1) \in Seq(Unit)
    BY <1>3, LeftIs, Zenon
  <2> QED
    BY <1>4, <2>1, UnitsOf, Zenon
<1>6. s = u \o y
  <2>1. s \o <<>> = s
    OBVIOUS
  <2> QED
    BY <1>4, <1>5, <2>1, Zenon
<1>7. Len(s) = Len(u) + Len(y) /\ Len(y) \in Nat /\ Len(u) \in Nat
  BY <1>6
<1>8. Len(a[m + 1].bytes) <= Len(s) /\ n = 0
  <2>1. Len(u) <= Len(s)
    BY <1>7
  <2> QED
    BY <1>2, <1>5, <2>1, Zenon
<1> QED
  BY <1>3, <1>8

(* Where the reading is, and what can be said of it.                        *)
LEMMA ReadingAt ==
    ASSUME SequenceLaws, Tls!TlsAssumption, TlsInv, phase = "read"
    PROVE  /\ asked /\ ending = "none" /\ Len(buf) + Len(incoming) <= MaxPacket
           /\ answer \in Responses /\ Len(answer) \in Nat /\ MaxPacket \in Nat
           /\ incoming \in Seq(Unit) /\ buf \in Seq(Byte) /\ received \in Seq(Byte)
           /\ decrypted \in Seq(Byte) /\ Len(buf) \in Nat /\ Len(incoming) \in Nat
           /\ \E m \in 0 .. Len(answer), z \in Seq(Unit) : ReadTo(m, z)
<1>1. /\ answer \in Responses /\ incoming \in Seq(Unit) /\ buf \in Seq(Byte)
      /\ received \in Seq(Byte) /\ decrypted \in Seq(Byte)
  BY DEF TlsInv, TlsTypes
<1>2. Len(answer) \in Nat
  BY <1>1, AnswerIs, Zenon
<1>3. Len(buf) \in Nat /\ Len(incoming) \in Nat
  BY <1>1
<1> QED
  BY <1>1, <1>2, <1>3 DEF TlsInv, NotYet, Reads, Tls!TlsAssumption

(* What is left unchanged when only the reading moves on.                   *)
LEMMA ReadOn ==
    ASSUME SequenceLaws, TlsInv, phase = "read", phase' = "read", ending' = ending,
           UNCHANGED <<asked, answer, script, server, handshaken>>,
           incoming' \in Seq(Unit), stream' \in Seq(Unit), server = "reset" => stream' = <<>>,
           decrypted' \in Seq(Byte), buf' \in Seq(Byte), received' \in Seq(Byte),
           MaxPacket \in Nat, Len(buf') + Len(incoming') <= MaxPacket,
           Child!IsPrefix(received', Tls!Says(answer)),
           \E m \in 0 .. Len(answer), z \in Seq(Unit) : ReadTo(m, z)'
    PROVE  TlsInv'
<1>1. Len(buf') <= MaxPacket /\ Len(incoming') <= MaxPacket
  <2>1. Len(buf') \in Nat /\ Len(incoming') \in Nat
    OBVIOUS
  <2> QED
    BY <2>1
<1>2. TlsTypes'
  BY <1>1 DEF TlsInv, TlsTypes
<1>3. NotYet' /\ Shaking'
  BY DEF TlsInv, NotYet, Shaking
<1>4. asked /\ ending = "none" /\ answer' = answer
  BY DEF TlsInv, Reads, NotYet
<1>5. Reads'
  BY <1>4 DEF Reads
<1>6. FileRight'
  BY <1>4, Zenon DEF FileRight
<1> QED
  BY <1>2, <1>3, <1>5, <1>6 DEF TlsInv

(* Nothing on the way moves.                                                *)
LEMMA ComingStays ==
    ASSUME UNCHANGED <<asked, answer, script, stream>>
    PROVE  Coming' = Coming
BY DEF Coming, Behind, Unasked

LEMMA HandOutInv ==
    ASSUME SequenceLaws, Tls!TlsAssumption, TlsInv, Tls!HandOut
    PROVE  TlsInv'
<1>1. /\ phase = "read" /\ decrypted # <<>>
      /\ UNCHANGED <<phase, handshaken, received, kept, asked, answer, script, stream,
                     server, ending>>
      /\ LET use == Tls!Min({ReadSize - Len(buf), Len(decrypted)})
             n == Tls!FirstRecord(incoming)
         IN  /\ buf' = buf \o SubSeq(decrypted, 1, use)
             /\ decrypted' = Tls!Rest(decrypted, use)
             /\ incoming' = IF use = Len(decrypted) THEN Tls!Rest(incoming, n) ELSE incoming
  BY DEF Tls!HandOut, Tls!files
<1>2. /\ Len(buf) + Len(incoming) <= MaxPacket /\ answer \in Responses /\ Len(answer) \in Nat
      /\ incoming \in Seq(Unit) /\ buf \in Seq(Byte) /\ received \in Seq(Byte)
      /\ decrypted \in Seq(Byte) /\ Len(buf) \in Nat /\ Len(incoming) \in Nat
      /\ MaxPacket \in Nat /\ ReadSize \in Nat /\ MaxPacket < ReadSize
      /\ stream \in Seq(Unit) /\ (server = "reset" => stream = <<>>)
      /\ Child!IsPrefix(received, Tls!Says(answer))
  BY <1>1, ReadingAt DEF TlsInv, TlsTypes, NotYet, FileRight, Tls!TlsAssumption
<1>3. PICK m \in 0 .. Len(answer), z \in Seq(Unit) : ReadTo(m, z)
  BY <1>1, ReadingAt, Zenon
<1>4. /\ received \o buf = Said(answer, m) /\ incoming \o z = Left(answer, m)
      /\ (server # "reset" => z = Coming) /\ m # Len(answer)
      /\ answer[m + 1].kind = "data" /\ decrypted = answer[m + 1].bytes
      /\ Len(decrypted) <= Len(incoming)
  BY <1>1, <1>3, Zenon DEF ReadTo
<1>5. PICK n : n = Tls!FirstRecord(incoming)
  OBVIOUS
<1>6. RecordThere(answer, m, incoming, z, n)
  BY <1>2, <1>4, <1>5, NextRecord, Zenon
<1>7. n = Len(decrypted) /\ Len(decrypted) \in Nat \ {0} /\ n > 0
  <2>1. n = Len(decrypted) /\ Len(decrypted) \in Nat \ {0}
    BY <1>4, <1>6, Zenon DEF RecordThere
  <2> QED
    BY <2>1
<1>8. /\ m + 1 \in 0 .. Len(answer)
      /\ Tls!Rest(incoming, n) \in Seq(Unit) /\ Tls!Rest(incoming, n) \o z = Left(answer, m + 1)
      /\ Len(Tls!Rest(incoming, n)) = Len(incoming) - n
  BY <1>6, <1>7, Zenon DEF RecordThere
<1>9. Tls!Min({ReadSize - Len(buf), Len(decrypted)}) = Len(decrypted)
  <2>1. Len(decrypted) <= ReadSize - Len(buf) /\ ReadSize - Len(buf) \in Nat /\ Len(decrypted) \in Nat
    <3>1. Len(decrypted) \in Nat
      BY <1>7
    <3>2. Len(decrypted) <= Len(incoming)
      BY <1>4, Zenon
    <3> QED
      BY <1>2, <3>1, <3>2
  <2>2. \A x, y \in Nat : y <= x => Tls!Min({x, y}) = y
    <3> SUFFICES ASSUME NEW x \in Nat, NEW y \in Nat, y <= x PROVE Tls!Min({x, y}) = y
      OBVIOUS
    <3>1. y \in {x, y} /\ \A i \in {x, y} : y <= i
      OBVIOUS
    <3>2. /\ Tls!Min({x, y}) \in {x, y}
          /\ \A i \in {x, y} : Tls!Min({x, y}) <= i
      BY <3>1, Zenon DEF Tls!Min
    <3> QED
      BY <3>2
  <2> QED
    BY <2>1, <2>2, Zenon
<1>10. /\ buf' = buf \o SubSeq(decrypted, 1, Len(decrypted))
       /\ decrypted' = Tls!Rest(decrypted, Len(decrypted))
       /\ incoming' = Tls!Rest(incoming, n)
  BY <1>1, <1>5, <1>9, Zenon
<1>11. buf' = buf \o decrypted /\ decrypted' = <<>>
  <2>1. SubSeq(decrypted, 1, Len(decrypted)) = decrypted
    BY <1>2, SubSeqFull, Zenon
  <2>2. SubSeq(decrypted, Len(decrypted) + 1, Len(decrypted)) = <<>>
    BY <1>2
  <2> QED
    BY <1>10, <2>1, <2>2, Zenon DEF Tls!Rest
<1>12. buf' \in Seq(Byte) /\ Len(buf') = Len(buf) + Len(decrypted) /\ decrypted' \in Seq(Byte)
  <2>1. \A x, y \in Seq(Byte) : x \o y \in Seq(Byte) /\ Len(x \o y) = Len(x) + Len(y)
                                /\ <<>> \in Seq(Byte)
    OBVIOUS
  <2> QED
    BY <1>2, <1>11, <2>1, Zenon
<1>13. Len(buf') + Len(incoming') <= MaxPacket
  BY <1>2, <1>7, <1>8, <1>10, <1>12
<1>14. received' \o buf' = Said(answer, m + 1)
  <2>1. Regroup(received, buf, decrypted)
    BY <1>2, Regroups, Zenon
  <2>2. Said(answer, m + 1) = Said(answer, m) \o answer[m + 1].bytes
    BY <1>2, <1>4, SaidIs, Zenon
  <2> QED
    BY <1>1, <1>4, <1>11, <2>1, <2>2, Zenon DEF Regroup
<1>15. Coming' = Coming
  BY <1>1, ComingStays
<1>16. ReadTo(m + 1, z)'
  <2>1. answer' = answer /\ server' = server
    BY <1>1
  <2> QED
    BY <1>4, <1>8, <1>10, <1>11, <1>14, <1>15, <2>1, Zenon DEF ReadTo
<1>17. /\ incoming' \in Seq(Unit) /\ stream' \in Seq(Unit) /\ (server = "reset" => stream' = <<>>)
       /\ received' \in Seq(Byte) /\ Child!IsPrefix(received', Tls!Says(answer))
       /\ phase' = "read" /\ ending' = ending
  BY <1>1, <1>2, <1>8, <1>10
<1> QED
  BY <1>1, <1>2, <1>8, <1>12, <1>13, <1>16, <1>17, ReadOn

(* What the file has when the buffer has been written.                      *)
LEMMA WrittenOut ==
    ASSUME SequenceLaws, Tls!TlsAssumption, answer \in Responses, received \in Seq(Byte),
           buf \in Seq(Byte), NEW m \in 0 .. Len(answer), received \o buf = Said(answer, m),
           Tls!WriteOut
    PROVE  /\ received' \in Seq(Byte) /\ buf' = <<>> /\ buf' \in Seq(Byte) /\ Len(buf') = 0
           /\ Child!IsPrefix(received', Tls!Says(answer)) /\ received' \o buf' = Said(answer, m)
<1>1. received' = Said(answer, m) /\ buf' = <<>>
  BY DEF Tls!WriteOut
<1>2. Said(answer, m) \in Seq(Byte) /\ Child!IsPrefix(Said(answer, m), Tls!Says(answer))
  BY SaidIs, Zenon
<1>3. \A x \in Seq(Byte) : x \o <<>> = x /\ <<>> \in Seq(Byte) /\ Len(<<>>) = 0
  OBVIOUS
<1> QED
  BY <1>1, <1>2, <1>3, Zenon

LEMMA ReadReturnsInv ==
    ASSUME SequenceLaws, Tls!TlsAssumption, TlsInv, Tls!ReadReturns
    PROVE  TlsInv'
<1>1. /\ phase = "read" /\ decrypted = <<>> /\ Tls!WriteOut
      /\ UNCHANGED <<phase, incoming, handshaken, decrypted, kept, asked, answer, script,
                     stream, server, ending>>
  BY DEF Tls!ReadReturns
<1>2. /\ Len(buf) + Len(incoming) <= MaxPacket /\ answer \in Responses
      /\ incoming \in Seq(Unit) /\ buf \in Seq(Byte) /\ received \in Seq(Byte)
      /\ decrypted \in Seq(Byte) /\ Len(buf) \in Nat /\ Len(incoming) \in Nat
      /\ MaxPacket \in Nat /\ stream \in Seq(Unit) /\ (server = "reset" => stream = <<>>)
  BY <1>1, ReadingAt DEF TlsInv, TlsTypes, NotYet
<1>3. PICK m \in 0 .. Len(answer), z \in Seq(Unit) : ReadTo(m, z)
  BY <1>1, ReadingAt, Zenon
<1>4. /\ received \o buf = Said(answer, m) /\ incoming \o z = Left(answer, m)
      /\ (server # "reset" => z = Coming)
  BY <1>3, Zenon DEF ReadTo
<1>5. /\ received' \in Seq(Byte) /\ buf' \in Seq(Byte) /\ Len(buf') = 0
      /\ Child!IsPrefix(received', Tls!Says(answer)) /\ received' \o buf' = Said(answer, m)
  BY <1>1, <1>2, <1>4, WrittenOut, Zenon
<1>6. ReadTo(m, z)'
  <2>1. answer' = answer /\ server' = server /\ incoming' = incoming /\ decrypted' = <<>>
    BY <1>1
  <2>2. Coming' = Coming
    BY <1>1, ComingStays
  <2> QED
    BY <1>4, <1>5, <2>1, <2>2, Zenon DEF ReadTo
<1>7. /\ incoming' \in Seq(Unit) /\ stream' \in Seq(Unit) /\ (server = "reset" => stream' = <<>>)
      /\ decrypted' \in Seq(Byte) /\ Len(buf') + Len(incoming') <= MaxPacket
      /\ phase' = "read" /\ ending' = ending
  BY <1>1, <1>2, <1>5
<1> QED
  BY <1>1, <1>2, <1>5, <1>6, <1>7, ReadOn

LEMMA ReadReceivesInv ==
    ASSUME SequenceLaws, Tls!TlsAssumption, TlsInv, Tls!ReadReceives
    PROVE  TlsInv'
<1>1. /\ phase = "read" /\ decrypted = <<>> /\ buf = <<>>
      /\ UNCHANGED <<phase, handshaken, decrypted, buf, received, kept, asked, answer,
                     script, server, ending>>
  BY DEF Tls!ReadReceives, Tls!files
<1>2. PICK s \in Tls!Arrivals :
         incoming' = s /\ stream' = Tls!Rest(stream, Len(s) - Len(incoming))
  BY Zenon DEF Tls!ReadReceives
<1>3. /\ s \in Seq(Unit) /\ Len(s) <= MaxPacket /\ server # "reset"
      /\ stream' \in Seq(Unit) /\ s \o (stream' \o Behind) = incoming \o Coming
  <2>1. TlsTypes /\ NotYet
    BY DEF TlsInv
  <2> QED
    BY <1>2, <2>1, Arrived, Zenon
<1>4. /\ received \in Seq(Byte) /\ MaxPacket \in Nat /\ buf \in Seq(Byte) /\ decrypted \in Seq(Byte)
      /\ Child!IsPrefix(received, Tls!Says(answer))
  BY <1>1, ReadingAt DEF TlsInv, FileRight
<1>5. PICK m \in 0 .. Len(answer), z \in Seq(Unit) : ReadTo(m, z)
  BY <1>1, ReadingAt, Zenon
<1>6. /\ received \o buf = Said(answer, m) /\ incoming \o Coming = Left(answer, m)
  BY <1>3, <1>5, Zenon DEF ReadTo
<1>7. Coming' = stream' \o Behind /\ Coming' \in Seq(Unit)
  <2>1. Behind' = Behind
    BY <1>1 DEF Behind, Unasked
  <2>2. Behind \in Seq(Unit)
    BY ComingIs, Zenon DEF TlsInv
  <2> QED
    BY <1>3, <2>1, <2>2, Joined, Zenon DEF Coming
<1>8. ReadTo(m, Coming)'
  <2>1. /\ answer' = answer /\ server' = server /\ decrypted' = <<>> /\ received' = received
        /\ buf' = buf
    BY <1>1
  <2>2. incoming' \o Coming' = Left(answer, m)
    BY <1>2, <1>3, <1>6, <1>7, Zenon
  <2> QED
    BY <1>6, <2>1, <2>2, Zenon DEF ReadTo
<1>9. \E y \in Seq(Unit) : ReadTo(m, y)'
  <2>1. PICK y \in Seq(Unit) : y = Coming'
    BY <1>7
  <2>2. ReadTo(m, y)'
    BY <1>8, <2>1 DEF ReadTo
  <2> QED
    BY <2>2
<1>10. Len(buf') + Len(incoming') <= MaxPacket
  <2>1. Len(buf') = 0 /\ Len(incoming') \in Nat /\ Len(incoming') <= MaxPacket
    BY <1>1, <1>2, <1>3
  <2> QED
    BY <2>1
<1>11. /\ incoming' \in Seq(Unit) /\ stream' \in Seq(Unit) /\ (server = "reset" => stream' = <<>>)
       /\ decrypted' \in Seq(Byte) /\ buf' \in Seq(Byte) /\ received' \in Seq(Byte)
       /\ Child!IsPrefix(received', Tls!Says(answer))
       /\ phase' = "read" /\ ending' = ending
  BY <1>1, <1>2, <1>3, <1>4
<1> QED
  BY <1>1, <1>4, <1>9, <1>10, <1>11, ReadOn

LEMMA DecryptInv ==
    ASSUME SequenceLaws, Tls!TlsAssumption, TlsInv, Tls!Decrypt
    PROVE  TlsInv'
<1>0. PICK n : n = Tls!FirstRecord(incoming)
  OBVIOUS
<1>1. /\ phase = "read" /\ decrypted = <<>> /\ n > 0
      /\ UNCHANGED <<handshaken, asked, answer, script, stream, server>>
      /\ \/ /\ incoming[1].kind = "data"
            /\ decrypted' = Tls!Plain(SubSeq(incoming, 1, n))
            /\ UNCHANGED <<phase, incoming, buf, received, kept, ending>>
         \/ /\ incoming[1].kind = "alert"
            /\ incoming' = <<>>
            /\ IF buf = <<>> THEN EndsAs("closed") /\ UNCHANGED <<buf, received>>
               ELSE Tls!WriteOut /\ UNCHANGED <<phase, kept, ending>>
            /\ UNCHANGED decrypted
         \/ /\ incoming[1].kind = "ticket"
            /\ incoming' = Tls!Rest(incoming, n)
            /\ \/ UNCHANGED <<phase, kept, ending>>
               \/ n = Len(incoming) /\ EndsAs("aborted")
            /\ UNCHANGED <<decrypted, buf, received>>
         \/ /\ EndsAs("failed")
            /\ UNCHANGED <<incoming, decrypted, buf, received>>
  BY <1>0, WaysOut, Zenon DEF Tls!Decrypt, Tls!files
<1>2. /\ asked /\ ending = "none" /\ Len(buf) + Len(incoming) <= MaxPacket
      /\ answer \in Responses /\ Len(answer) \in Nat
      /\ incoming \in Seq(Unit) /\ buf \in Seq(Byte) /\ received \in Seq(Byte)
      /\ decrypted \in Seq(Byte) /\ Len(buf) \in Nat /\ Len(incoming) \in Nat
      /\ MaxPacket \in Nat /\ stream \in Seq(Unit) /\ (server = "reset" => stream = <<>>)
      /\ handshaken \in Nat /\ Child!IsPrefix(received, Tls!Says(answer))
  BY <1>1, ReadingAt DEF TlsInv, TlsTypes, NotYet, FileRight
<1>3. PICK m \in 0 .. Len(answer), z \in Seq(Unit) : ReadTo(m, z)
  BY <1>1, ReadingAt, Zenon
<1>4. /\ received \o buf = Said(answer, m) /\ incoming \o z = Left(answer, m)
      /\ (server # "reset" => z = Coming)
  BY <1>3, Zenon DEF ReadTo
<1>5. m # Len(answer)
  <2> SUFFICES ASSUME m = Len(answer) PROVE FALSE
    OBVIOUS
  <2>1. Tls!FirstRecord(incoming) = 0
    BY <1>2, <1>4, NoRecord, Zenon
  <2> QED
    BY <1>0, <1>1, <2>1
<1>6. RecordThere(answer, m, incoming, z, n)
  BY <1>0, <1>2, <1>4, <1>5, NextRecord, Zenon
<1>7. /\ m + 1 \in 0 .. Len(answer) /\ m + 1 \in 1 .. Len(answer)
      /\ n = IF Len(answer[m + 1].bytes) <= Len(incoming) THEN Len(answer[m + 1].bytes) ELSE 0
      /\ answer[m + 1].bytes \in Seq(Byte) /\ Len(answer[m + 1].bytes) \in Nat \ {0}
      /\ incoming[1].kind = answer[m + 1].kind
      /\ Tls!Plain(SubSeq(incoming, 1, n)) = answer[m + 1].bytes
      /\ Tls!Rest(incoming, n) \in Seq(Unit)
      /\ Tls!Rest(incoming, n) \o z = Left(answer, m + 1)
      /\ Len(Tls!Rest(incoming, n)) = Len(incoming) - n
  BY <1>1, <1>6, Zenon DEF RecordThere
<1>8. n \in Nat /\ Len(answer[m + 1].bytes) <= Len(incoming)
  <2>1. PICK x \in Nat : x = Len(answer[m + 1].bytes)
    BY <1>7
  <2>2. n = IF x <= Len(incoming) THEN x ELSE 0
    BY <1>7, <2>1, Zenon
  <2>3. x <= Len(incoming)
    BY <1>1, <2>2
  <2> QED
    BY <2>1, <2>2, <2>3
<1>9. Coming' = Coming
  BY <1>1, ComingStays
<1>10. /\ answer' = answer /\ server' = server /\ asked' = asked /\ script' = script
       /\ handshaken' = handshaken /\ stream' = stream
       /\ stream' \in Seq(Unit) /\ (server = "reset" => stream' = <<>>) /\ handshaken' \in Nat
  BY <1>1, <1>2
<1>11. <<>> \in Seq(Unit) /\ <<>> \in Seq(Byte) /\ Len(<<>>) = 0
  OBVIOUS
<1>12. CASE /\ incoming[1].kind = "data"
            /\ decrypted' = Tls!Plain(SubSeq(incoming, 1, n))
            /\ UNCHANGED <<phase, incoming, buf, received, kept, ending>>
  <2>1. /\ decrypted' = answer[m + 1].bytes /\ answer[m + 1].kind = "data"
        /\ decrypted' \in Seq(Byte) /\ incoming' = incoming /\ buf' = buf /\ received' = received
        /\ Len(decrypted') <= Len(incoming)
    BY <1>7, <1>8, <1>12, Zenon
  <2>2. ReadTo(m, z)'
    BY <1>4, <1>5, <1>9, <1>10, <2>1, Zenon DEF ReadTo
  <2>3. phase' = "read" /\ ending' = ending /\ Len(buf') + Len(incoming') <= MaxPacket
    BY <1>1, <1>2, <1>12
  <2> QED
    BY <1>1, <1>2, <1>10, <2>1, <2>2, <2>3, ReadOn
<1>13. CASE /\ incoming[1].kind = "ticket"
            /\ incoming' = Tls!Rest(incoming, n)
            /\ UNCHANGED <<decrypted, buf, received>>
            /\ UNCHANGED <<phase, kept, ending>>
  <2>1. Said(answer, m + 1) = Said(answer, m)
    <3>1. Said(answer, m + 1) = IF answer[m + 1].kind = "data"
                                THEN Said(answer, m) \o answer[m + 1].bytes ELSE Said(answer, m)
      BY <1>2, <1>5, SaidIs, Zenon
    <3>2. answer[m + 1].kind = "ticket"
      BY <1>7, <1>13, Zenon
    <3> QED
      BY <3>1, <3>2
  <2>2. /\ incoming' \in Seq(Unit) /\ incoming' \o z = Left(answer, m + 1) /\ buf' = buf
        /\ received' = received /\ decrypted' = <<>>
    BY <1>1, <1>7, <1>13, Zenon
  <2>3. ReadTo(m + 1, z)'
    BY <1>4, <1>9, <1>10, <2>1, <2>2, Zenon DEF ReadTo
  <2>4. Len(incoming') \in Nat /\ Len(incoming') <= Len(incoming)
    <3>1. Len(incoming') = Len(incoming) - n
      BY <1>7, <1>13, Zenon
    <3>2. Len(incoming') \in Nat
      BY <2>2
    <3> QED
      BY <1>2, <1>8, <3>1, <3>2
  <2>5. phase' = "read" /\ ending' = ending /\ Len(buf') + Len(incoming') <= MaxPacket
        /\ buf' \in Seq(Byte) /\ received' \in Seq(Byte) /\ decrypted' \in Seq(Byte)
    BY <1>1, <1>2, <1>11, <1>13, <2>2, <2>4
  <2> QED
    BY <1>1, <1>2, <1>7, <1>10, <2>2, <2>3, <2>5, ReadOn
<1>14. CASE /\ incoming[1].kind = "ticket"
            /\ incoming' = Tls!Rest(incoming, n)
            /\ UNCHANGED <<decrypted, buf, received>>
            /\ EndsAs("aborted")
  <2>1. incoming' \in Seq(Unit)
    BY <1>7, <1>14, Zenon
  <2>2. Len(incoming') <= MaxPacket
    <3>1. Len(incoming') = Len(incoming) - n
      BY <1>7, <1>14, Zenon
    <3>2. Len(incoming') \in Nat
      BY <2>1
    <3> QED
      BY <1>2, <1>8, <3>1, <3>2
  <2> QED
    BY <1>10, <1>14, <2>1, <2>2, QuitInv
<1>15. CASE EndsAs("failed") /\ UNCHANGED <<incoming, decrypted, buf, received>>
  <2>1. incoming' \in Seq(Unit) /\ Len(incoming') <= MaxPacket
    BY <1>2, <1>15
  <2> QED
    BY <1>10, <1>15, <2>1, QuitInv
<1>16. CASE /\ incoming[1].kind = "alert"
            /\ incoming' = <<>>
            /\ IF buf = <<>> THEN EndsAs("closed") /\ UNCHANGED <<buf, received>>
               ELSE Tls!WriteOut /\ UNCHANGED <<phase, kept, ending>>
            /\ UNCHANGED decrypted
  <2>1. answer[m + 1].kind = "alert" /\ m + 1 = Len(answer)
    <3>1. answer[m + 1].kind = "alert"
      BY <1>7, <1>16, Zenon
    <3> QED
      BY <1>2, <1>7, <3>1, AnswerIs, Zenon
  <2>2. Said(answer, m + 1) = Said(answer, m)
    <3>1. Said(answer, m + 1) = IF answer[m + 1].kind = "data"
                                THEN Said(answer, m) \o answer[m + 1].bytes ELSE Said(answer, m)
      BY <1>2, <1>5, SaidIs, Zenon
    <3> QED
      BY <2>1, <3>1
  <2>3. received \o buf = Tls!Says(answer)
    <3>1. Said(answer, Len(answer)) = Tls!Says(answer)
      BY <1>2, SaidIs, Zenon
    <3> QED
      BY <1>4, <2>1, <2>2, <3>1, Zenon
  <2>4. z = <<>>
    <3>1. Tls!Rest(incoming, n) \o z = Left(answer, Len(answer))
      BY <1>7, <2>1, Zenon
    <3> QED
      BY <1>2, <1>7, <3>1, NoRecord, Zenon
  <2>5. CASE buf = <<>> /\ EndsAs("closed") /\ UNCHANGED <<buf, received>>
    <3>1. received = Tls!Says(answer)
      <4>1. received \o <<>> = received
        BY <1>2
      <4> QED
        BY <2>3, <2>5, <4>1, Zenon
    <3>2. Len(incoming') <= MaxPacket /\ incoming' \in Seq(Unit) /\ phase' \in {"disconnect", "ended"}
      BY <1>2, <1>11, <1>16, <2>5 DEF EndsAs
    <3>3. TlsTypes'
      BY <1>10, <1>16, <2>5, <3>2 DEF TlsInv, TlsTypes
    <3>4. NotYet' /\ Shaking' /\ Reads'
      BY <1>10, <2>5, <3>2 DEF NotYet, Shaking, Reads
    <3>5. FileRight'
      BY <1>2, <1>10, <2>5, <3>1 DEF FileRight
    <3> QED
      BY <3>3, <3>4, <3>5 DEF TlsInv
  <2>6. CASE Tls!WriteOut /\ UNCHANGED <<phase, kept, ending>>
    <3>1. /\ received' \in Seq(Byte) /\ buf' \in Seq(Byte) /\ Len(buf') = 0
          /\ Child!IsPrefix(received', Tls!Says(answer)) /\ received' \o buf' = Said(answer, m)
      BY <1>2, <1>4, <2>6, WrittenOut, Zenon
    <3>2. incoming' \o z = Left(answer, m + 1)
      <4>1. Left(answer, Len(answer)) = <<>>
        BY <1>2, LeftIs, Zenon
      <4>2. <<>> \o <<>> = <<>>
        OBVIOUS
      <4> QED
        BY <1>16, <2>1, <2>4, <4>1, <4>2, Zenon
    <3>3. decrypted' = <<>>
      BY <1>1, <1>16
    <3>4. ReadTo(m + 1, z)'
      BY <1>4, <1>9, <1>10, <2>2, <3>1, <3>2, <3>3, Zenon DEF ReadTo
    <3>5. /\ incoming' \in Seq(Unit) /\ decrypted' \in Seq(Byte) /\ phase' = "read"
          /\ ending' = ending /\ Len(buf') + Len(incoming') <= MaxPacket
      BY <1>1, <1>2, <1>11, <1>16, <2>6, <3>1, <3>3
    <3> QED
      BY <1>1, <1>2, <1>7, <1>10, <3>1, <3>4, <3>5, ReadOn
  <2> QED
    BY <1>16, <2>5, <2>6
<1> QED
  BY <1>1, <1>12, <1>13, <1>14, <1>15, <1>16

LEMMA ReadEndsInv ==
    ASSUME SequenceLaws, Tls!TlsAssumption, TlsInv, Tls!ReadEnds
    PROVE  TlsInv'
<1>1. /\ phase = "read" /\ decrypted = <<>> /\ buf = <<>> /\ Tls!FirstRecord(incoming) = 0
      /\ stream = <<>> /\ server = "closed" /\ EndsAs("closed")
      /\ UNCHANGED <<incoming, handshaken, decrypted, buf, received, asked, answer,
                     script, stream, server>>
  BY WaysOut DEF Tls!ReadEnds, Tls!StreamEnd, Tls!files
<1>2. /\ asked /\ answer \in Responses /\ incoming \in Seq(Unit) /\ received \in Seq(Byte)
  BY <1>1, ReadingAt
<1>3. PICK m \in 0 .. Len(answer), z \in Seq(Unit) : ReadTo(m, z)
  BY <1>1, ReadingAt, Zenon
<1>4. script = <<>> => received = Tls!Says(answer)
  <2> SUFFICES ASSUME script = <<>> PROVE received = Tls!Says(answer)
    OBVIOUS
  <2>1. Unasked = <<>>
    BY <1>2 DEF Unasked
  <2>2. <<>> \o <<>> = <<>> /\ <<>> \in Seq(Record)
    OBVIOUS
  <2>3. Coming = <<>>
    <3>1. AllUnits(<<>>) = <<>>
      BY <2>2, AllUnitsOf, Zenon
    <3> QED
      BY <1>1, <2>1, <2>2, <3>1, Zenon DEF Coming, Behind
  <2>4. incoming \o <<>> = Left(answer, m) /\ received \o buf = Said(answer, m)
    <3>1. server # "reset"
      BY <1>1
    <3> QED
      BY <1>3, <2>3, <3>1, Zenon DEF ReadTo
  <2>5. m = Len(answer)
    BY <1>1, <1>2, <2>4, AllRead, Zenon
  <2>6. Said(answer, Len(answer)) = Tls!Says(answer)
    BY <1>2, SaidIs, Zenon
  <2>7. received \o <<>> = received
    BY <1>2
  <2> QED
    BY <1>1, <2>4, <2>5, <2>6, <2>7, Zenon
<1>5. TlsTypes'
  BY <1>1 DEF TlsInv, TlsTypes, EndsAs
<1>6. NotYet' /\ Shaking' /\ Reads'
  BY <1>1 DEF TlsInv, NotYet, Shaking, Reads, EndsAs
<1>7. FileRight'
  BY <1>1, <1>4 DEF TlsInv, FileRight, EndsAs
<1> QED
  BY <1>5, <1>6, <1>7 DEF TlsInv

(* What the client had acquired is given back.                              *)
LEMMA DisconnectInv ==
    ASSUME TlsInv, Tls!tls_disconnect
    PROVE  TlsInv'
<1>1. /\ phase = "disconnect" /\ phase' = "ended"
      /\ UNCHANGED <<incoming, handshaken, decrypted, buf, received, asked, answer,
                     script, stream, server, ending>>
  BY DEF Tls!tls_disconnect, Tls!files
<1>2. TlsTypes' /\ NotYet' /\ FileRight'
  BY <1>1 DEF TlsInv, TlsTypes, NotYet, FileRight
<1>3. Shaking' /\ Reads'
  BY <1>1 DEF Shaking, Reads
<1> QED
  BY <1>2, <1>3 DEF TlsInv

(* What happens to the server or on the way leaves the client as it is.     *)
LEMMA ServerInv ==
    ASSUME SequenceLaws, TlsInv, server = "open", phase # "connect",
           UNCHANGED <<phase, incoming, handshaken, decrypted, buf, received, asked, ending>>,
           answer' = answer,
           stream' \in Seq(Unit), script' \in Seq(Record), server' \in {"open", "closed", "reset"},
           server' = "reset" => stream' = <<>>,
           server' # "reset" => Coming' = Coming
    PROVE  TlsInv'
<1>1. TlsTypes' /\ NotYet'
  BY DEF TlsInv, TlsTypes, NotYet
<1>2. FileRight'
  BY DEF TlsInv, FileRight
<1>3. server' # "reset" => incoming' \o Coming' = incoming \o Coming
  BY Zenon
<1>4. Shaking'
  <2>1. phase' = phase /\ handshaken' = handshaken /\ server # "reset"
    OBVIOUS
  <2>2. phase = "handshake" => /\ handshaken < Len(HandshakeSizes)
                               /\ HandshakeToCome(incoming \o Coming, handshaken, answer)
    BY <2>1 DEF TlsInv, Shaking
  <2>3. phase = "write" /\ handshaken = Len(HandshakeSizes) =>
           incoming \o Coming = AllUnits(answer)
    BY <2>1 DEF TlsInv, Shaking
  <2>4. server' # "reset" /\ phase = "handshake" =>
           HandshakeToCome(incoming' \o Coming', handshaken', answer')
    BY <1>3, <2>1, <2>2, Zenon
  <2>5. server' # "reset" /\ phase = "write" /\ handshaken = Len(HandshakeSizes) =>
           incoming' \o Coming' = AllUnits(answer')
    BY <1>3, <2>3, Zenon
  <2>6. phase = "handshake" => handshaken' < Len(HandshakeSizes)
    BY <2>1, <2>2
  <2> QED
    BY <2>1, <2>4, <2>5, <2>6, Zenon DEF Shaking
<1>5. Reads'
  <2> SUFFICES ASSUME phase = "read" PROVE Reads'
    BY Zenon DEF Reads
  <2>1. /\ asked /\ Len(buf) + Len(incoming) <= MaxPacket
        /\ \E m \in 0 .. Len(answer), z \in Seq(Unit) : ReadTo(m, z)
    BY DEF TlsInv, Reads
  <2>2. PICK m \in 0 .. Len(answer), z \in Seq(Unit) : ReadTo(m, z)
    BY <2>1
  <2>3. ReadTo(m, z)'
    <3>1. server # "reset"
      OBVIOUS
    <3> QED
      BY <2>2, <3>1, Zenon DEF ReadTo
  <2> QED
    BY <2>1, <2>3 DEF Reads
<1> QED
  BY <1>1, <1>2, <1>4, <1>5 DEF TlsInv

LEMMA SendsInv ==
    ASSUME SequenceLaws, Tls!TlsAssumption, TlsInv, Tls!ServerSends
    PROVE  TlsInv'
<1>1. /\ server = "open" /\ script # <<>>
      /\ stream' = stream \o Tls!Units(Head(script)) /\ script' = Tail(script)
      /\ UNCHANGED <<phase, incoming, handshaken, decrypted, buf, received, kept, asked, ending>>
      /\ UNCHANGED <<answer, server>>
  BY DEF Tls!ServerSends, Tls!client, Tls!files
<1>t. TlsTypes /\ NotYet
  BY DEF TlsInv
<1>2. script \in Seq(Record) /\ stream \in Seq(Unit) /\ Unasked \in Seq(Record)
  BY <1>t, ComingIs, Zenon DEF TlsTypes
<1>3. PICK h \in Record, t \in Seq(Record) :
         h = Head(script) /\ t = Tail(script) /\ script = <<h>> \o t
  <2>1. Head(script) \in Record /\ Tail(script) \in Seq(Record)
    BY <1>1, <1>2
  <2>2. script = <<Head(script)>> \o Tail(script)
    BY <1>1, <1>2
  <2> QED
    BY <2>1, <2>2, Zenon
<1>4. <<h>> \in Seq(Record) /\ AllUnits(<<h>>) = Tls!Units(h)
  BY OneRecord, Zenon
<1>5. PICK u \in Seq(Unit) : u = Tls!Units(h)
  BY UnitsOf
<1>6. t \o Unasked \in Seq(Record)
  BY <1>2, Joined, Zenon
<1>7. PICK b \in Seq(Unit) : b = AllUnits(t \o Unasked)
  BY <1>6, AllUnitsOf
<1>8. Behind' = b
  <2>1. Unasked' = Unasked
    BY <1>1 DEF Unasked
  <2> QED
    BY <1>1, <1>3, <1>7, <2>1, Zenon DEF Behind
<1>9. Behind = u \o b
  <2>1. Regroup(<<h>>, t, Unasked)
    BY <1>2, <1>4, Regroups, Zenon
  <2>2. script \o Unasked = <<h>> \o (t \o Unasked)
    BY <1>3, <2>1, Zenon DEF Regroup
  <2>3. AllUnits(<<h>> \o (t \o Unasked)) = AllUnits(<<h>>) \o AllUnits(t \o Unasked)
    BY <1>4, <1>6, AllUnitsOf, Zenon
  <2> QED
    BY <1>4, <1>5, <1>7, <2>2, <2>3, Zenon DEF Behind
<1>10. stream' = stream \o u /\ stream' \in Seq(Unit)
  <2>1. stream' = stream \o u
    BY <1>1, <1>3, <1>5, Zenon
  <2> QED
    BY <1>2, <2>1, Joined, Zenon
<1>11. Coming' = Coming
  <2>1. Regroup(stream, u, b)
    BY <1>2, Regroups, Zenon
  <2> QED
    BY <1>8, <1>9, <1>10, <2>1, Zenon DEF Coming, Regroup
<1>12. phase # "connect" /\ script' \in Seq(Record) /\ server' = "open"
  BY <1>1, <1>3, <1>t DEF NotYet
<1> QED
  BY <1>1, <1>10, <1>11, <1>12, ServerInv

LEMMA ClosesInv ==
    ASSUME SequenceLaws, TlsInv, Tls!ServerCloses \/ Tls!Reset
    PROVE  TlsInv'
<1>1. /\ server = "open" /\ phase # "connect" /\ server' \in {"open", "closed", "reset"}
      /\ UNCHANGED <<phase, incoming, handshaken, decrypted, buf, received, kept, asked, ending>>
      /\ UNCHANGED <<answer, script>>
      /\ \/ server' = "closed" /\ stream' = stream
         \/ server' = "reset" /\ stream' = <<>>
  BY DEF Tls!ServerCloses, Tls!Reset, Tls!client, Tls!files
<1>2. stream' \in Seq(Unit) /\ script' \in Seq(Record)
  <2>1. stream \in Seq(Unit) /\ script \in Seq(Record)
    BY DEF TlsInv, TlsTypes
  <2>2. <<>> \in Seq(Unit)
    OBVIOUS
  <2> QED
    BY <1>1, <2>1, <2>2, Zenon
<1>3. server' # "reset" => Coming' = Coming
  BY <1>1, ComingStays
<1> QED
  BY <1>1, <1>2, <1>3, ServerInv

(* Nothing has been read yet, and nothing was asked.                        *)
LEMMA TlsInit ==
    ASSUME SequenceLaws, Tls!TlsAssumption, Tls!Init
    PROVE  TlsInv
<1>1. /\ phase = "connect" /\ incoming = <<>> /\ handshaken = 0 /\ decrypted = <<>>
      /\ buf = <<>> /\ received = <<>> /\ asked = FALSE /\ ending = "none"
      /\ answer \in Responses /\ script = <<>> /\ stream = <<>> /\ server = "open"
  BY DEF Tls!Init
<1>2. /\ <<>> \in Seq(Unit) /\ <<>> \in Seq(Record) /\ <<>> \in Seq(Byte) /\ Len(<<>>) = 0
      /\ MaxPacket \in Nat
  BY DEF Tls!TlsAssumption
<1>3. TlsTypes /\ NotYet /\ Shaking /\ Reads
  <2>1. Len(incoming) = 0 /\ Len(buf) = 0
    BY <1>1, <1>2, Zenon
  <2>2. /\ incoming \in Seq(Unit) /\ stream \in Seq(Unit) /\ script \in Seq(Record)
        /\ decrypted \in Seq(Byte) /\ buf \in Seq(Byte) /\ received \in Seq(Byte)
    BY <1>1, <1>2, Zenon
  <2>3. TlsTypes
    <3>1. Len(incoming) <= MaxPacket /\ Len(buf) <= MaxPacket
      <4>1. \A n : n = 0 => n <= MaxPacket
        BY <1>2
      <4> QED
        BY <2>1, <4>1, Zenon
    <3>2. /\ phase \in {"connect", "handshake", "write", "read", "disconnect", "ended"}
          /\ handshaken \in Nat /\ asked \in BOOLEAN
          /\ server \in {"open", "closed", "reset"} /\ answer \in Responses
      BY <1>1
    <3> QED
      BY <2>2, <3>1, <3>2, Zenon DEF TlsTypes
  <2>4. NotYet /\ Shaking /\ Reads
    BY <1>1 DEF NotYet, Shaking, Reads
  <2> QED
    BY <2>3, <2>4
<1>4. FileRight
  <2>1. Tls!Says(answer) \in Seq(Byte)
    BY <1>1, SaidIs, Zenon
  <2>2. Child!IsPrefix(<<>>, Tls!Says(answer))
    <3>1. PICK y \in Seq(Byte) : y = Tls!Says(answer)
      BY <2>1
    <3>2. <<>> \o y = y
      OBVIOUS
    <3>3. Child!IsPrefix(<<>>, y)
      BY <1>2, <3>2, Beginning, Zenon
    <3> QED
      BY <3>1, <3>3, Zenon
  <2> QED
    BY <1>1, <2>2 DEF FileRight
<1> QED
  BY <1>3, <1>4 DEF TlsInv

(* One step of the client, the server or the network.                       *)
LEMMA TlsStep ==
    ASSUME SequenceLaws, Tls!TlsAssumption, TlsInv, [Tls!Next]_tlsVars
    PROVE  TlsInv'
<1>1. CASE Tls!tls_connect
  BY <1>1, ConnectInv
<1>2. CASE Tls!HandshakeReceives
  BY <1>2, HandshakeReceivesInv
<1>3. CASE Tls!HandshakeCut \/ Tls!ConnectionLost
  BY <1>3, HandshakeCutInv, LostInv
<1>4. CASE Tls!tls_write
  BY <1>4, TlsWriteInv
<1>5. CASE Tls!HandOut \/ Tls!Decrypt
  BY <1>5, HandOutInv, DecryptInv
<1>6. CASE Tls!ReadReturns \/ Tls!ReadReceives \/ Tls!ReadEnds
  BY <1>6, ReadReturnsInv, ReadReceivesInv, ReadEndsInv
<1>7. CASE Tls!ServerSends
  BY <1>7, SendsInv
<1>8. CASE Tls!ServerCloses \/ Tls!Reset
  BY <1>8, ClosesInv
<1>d. CASE Tls!tls_disconnect
  BY <1>d, DisconnectInv
<1>9. CASE UNCHANGED tlsVars
  <2>1. Coming' = Coming
    BY <1>9, ComingStays DEF tlsVars
  <2>2. TlsTypes' /\ NotYet' /\ FileRight'
    BY <1>9 DEF tlsVars, TlsInv, TlsTypes, NotYet, FileRight
  <2>3. Shaking'
    <3>1. incoming' \o Coming' = incoming \o Coming
      BY <1>9, <2>1 DEF tlsVars
    <3> QED
      BY <1>9, <3>1, Zenon DEF tlsVars, TlsInv, Shaking
  <2>4. \A m, z : ReadTo(m, z) => ReadTo(m, z)'
    BY <1>9, <2>1, Zenon DEF tlsVars, ReadTo
  <2>5. Reads'
    BY <1>9, <2>4, Zenon DEF tlsVars, TlsInv, Reads
  <2> QED
    BY <2>2, <2>3, <2>5 DEF TlsInv
<1> QED
  BY <1>1, <1>2, <1>3, <1>4, <1>5, <1>6, <1>7, <1>8, <1>9, <1>d DEF Tls!Next, Tls!ClientStep

-----------------------------------------------------------------------------
(* As long as none of the bytes received is a zero, the file has them all as *)
(* text: what is inserted ends at a zero, the file has CR LF for LF.        *)
TextRight ==
    (\A i \in DOMAIN received : received[i] # 0) => myfile = Tls!AsText(received)

Lines(s) == [i \in DOMAIN s |-> IF s[i] = Tls!LF THEN <<Tls!CR, Tls!LF>> ELSE <<s[i]>>]

LEMMA LinesOf ==
    ASSUME NEW s \in Seq(Byte)
    PROVE  /\ Lines(s) \in Seq(Seq(Byte)) /\ Len(Lines(s)) = Len(s)
           /\ \A k \in 1 .. Len(s) :
                 Lines(s)[k] = IF s[k] = Tls!LF THEN <<Tls!CR, Tls!LF>> ELSE <<s[k]>>
<1> DEFINE T == Seq(Byte)
           L(x) == IF x = Tls!LF THEN <<Tls!CR, Tls!LF>> ELSE <<x>>
<1>1. \A x \in Byte : L(x) \in T
  BY DEF Tls!CR, Tls!LF, Byte
<1>2. Len(s) \in Nat /\ DOMAIN s = 1 .. Len(s) /\ \A k \in 1 .. Len(s) : s[k] \in Byte
  OBVIOUS
<1>3. Lines(s) = [k \in 1 .. Len(s) |-> L(s[k])]
  BY <1>2 DEF Lines
<1> HIDE DEF T, L
<1>4. Lines(s) \in [1 .. Len(s) -> T]
  BY <1>1, <1>2, <1>3
<1>5. Lines(s) \in Seq(T) /\ Len(Lines(s)) = Len(s)
  <2> HIDE DEF Lines
  <2> QED
    BY <1>2, <1>4
<1>6. \A k \in 1 .. Len(s) : Lines(s)[k] = L(s[k])
  BY <1>3
<1> QED
  BY <1>5, <1>6, Zenon DEF T, L

(* The text of two sequences of bytes, one behind the other.                *)
LEMMA TextOf ==
    ASSUME SequenceLaws, NEW a \in Seq(Byte), NEW b \in Seq(Byte)
    PROVE  Tls!AsText(a \o b) = Tls!AsText(a) \o Tls!AsText(b) /\ Tls!AsText(<<>>) = <<>>
<1> DEFINE T == Seq(Byte)
<1>1. \A s : Tls!AsText(s) = Child!FlattenSeq(Lines(s))
  BY DEF Tls!AsText, Lines, Tls!FlattenSeq, Child!FlattenSeq
<1>2. Lines(a \o b) = Lines(a) \o Lines(b)
  <2> DEFINE c == a \o b
             p == Lines(a)
             q == Lines(b)
             r == Lines(c)
             L(x) == IF x = Tls!LF THEN <<Tls!CR, Tls!LF>> ELSE <<x>>
  <2>1. /\ c \in Seq(Byte) /\ Len(c) = Len(a) + Len(b)
        /\ \A k \in 1 .. Len(a) : c[k] = a[k]
        /\ \A k \in 1 .. Len(b) : c[Len(a) + k] = b[k]
    OBVIOUS
  <2> HIDE DEF c, T
  <2>2. /\ p \in Seq(T) /\ Len(p) = Len(a) /\ \A k \in 1 .. Len(a) : p[k] = L(a[k])
        /\ q \in Seq(T) /\ Len(q) = Len(b) /\ \A k \in 1 .. Len(b) : q[k] = L(b[k])
        /\ r \in Seq(T) /\ Len(r) = Len(c) /\ \A k \in 1 .. Len(c) : r[k] = L(c[k])
    BY <2>1, LinesOf, Zenon DEF T
  <2> HIDE DEF p, q, r, L
  <2>3. Len(a) \in Nat /\ Len(b) \in Nat
    OBVIOUS
  <2>4. \A k \in 1 .. Len(a) : r[k] = p[k]
    BY <2>1, <2>2, <2>3
  <2>5. \A k \in 1 .. Len(b) : r[Len(a) + k] = q[k]
    BY <2>1, <2>2, <2>3
  <2>6. /\ p \in Seq(T) /\ q \in Seq(T) /\ r \in Seq(T)
        /\ Len(r) = Len(p) + Len(q)
        /\ \A k \in 1 .. Len(p) : r[k] = p[k]
        /\ \A k \in 1 .. Len(q) : r[Len(p) + k] = q[k]
    BY <2>1, <2>2, <2>4, <2>5
  <2>7. r = p \o q
    BY <2>6, JoinIs
  <2> QED
    BY <2>7 DEF p, q, r, c
<1>3. Child!FlattenSeq(Lines(a) \o Lines(b))
        = Child!FlattenSeq(Lines(a)) \o Child!FlattenSeq(Lines(b))
  <2>1. Lines(a) \in Seq(Seq(Byte)) /\ Lines(b) \in Seq(Seq(Byte))
    BY LinesOf
  <2>2. \A p, q \in Seq(Seq(Byte)) :
           Child!FlattenSeq(p \o q) = Child!FlattenSeq(p) \o Child!FlattenSeq(q)
    BY FlattenConcat
  <2> QED
    BY <2>1, <2>2, Zenon
<1>4. Lines(<<>>) = <<>>
  <2>1. <<>> \in Seq(Byte) /\ Len(<<>>) = 0
    OBVIOUS
  <2>2. Lines(<<>>) \in Seq(Seq(Byte)) /\ Len(Lines(<<>>)) = 0
    BY <2>1, LinesOf
  <2> HIDE DEF Lines
  <2> QED
    BY <2>2
<1>5. Child!FlattenSeq(<<>>) = <<>>
  <2>1. <<>> \in Seq(Byte) /\ <<>> \in Seq(Seq(Byte))
    OBVIOUS
  <2> QED
    BY <2>1, Zenon DEF SequenceLaws, FlattenLaw
<1> QED
  BY <1>1, <1>2, <1>3, <1>4, <1>5, Zenon

(* A string with no zero in it is inserted whole.                           *)
LEMMA NoNul ==
    ASSUME NEW s \in Seq(Byte), \A i \in 1 .. Len(s) : s[i] # 0
    PROVE  Tls!UpToNul(s) = s
<1>1. Len(s) \in Nat /\ DOMAIN s = 1 .. Len(s)
  OBVIOUS
<1>2. {i \in DOMAIN s : s[i] = 0} \cup {Len(s) + 1} = {Len(s) + 1}
  BY <1>1
<1>3. PICK n \in Nat : n = Len(s) + 1
  BY <1>1
<1>4. Tls!Min({n}) = n
  <2>1. \E x \in {n} : \A y \in {n} : x <= y
    OBVIOUS
  <2> QED
    BY <2>1 DEF Tls!Min
<1>5. Tls!UpToNul(s) = SubSeq(s, 1, n - 1)
  BY <1>2, <1>3, <1>4, Zenon DEF Tls!UpToNul
<1>6. n - 1 = Len(s)
  BY <1>1, <1>3
<1>7. SubSeq(s, 1, Len(s)) = s
  OBVIOUS
<1> QED
  BY <1>5, <1>6, <1>7, Zenon

LEMMA TextWritten ==
    ASSUME SequenceLaws, received \in Seq(Byte), buf \in Seq(Byte), TextRight, Tls!WriteOut
    PROVE  TextRight'
<1>1. received' = received \o buf /\ myfile' = myfile \o Tls!AsText(Tls!UpToNul(buf))
  BY DEF Tls!WriteOut
<1>2. /\ received \o buf \in Seq(Byte)
      /\ \A i \in 1 .. Len(received) : (received \o buf)[i] = received[i]
      /\ \A i \in 1 .. Len(buf) : (received \o buf)[Len(received) + i] = buf[i]
      /\ \A i \in 1 .. Len(received) : i \in DOMAIN (received \o buf)
      /\ \A i \in 1 .. Len(buf) : Len(received) + i \in DOMAIN (received \o buf)
      /\ DOMAIN received = 1 .. Len(received)
  OBVIOUS
<1> SUFFICES ASSUME \A i \in DOMAIN received' : received'[i] # 0
             PROVE  myfile' = Tls!AsText(received')
  BY DEF TextRight
<1>3. \A i \in DOMAIN received : received[i] # 0
  BY <1>1, <1>2, Zenon
<1>4. \A i \in 1 .. Len(buf) : buf[i] # 0
  BY <1>1, <1>2, Zenon
<1>5. Tls!UpToNul(buf) = buf
  BY <1>4, NoNul, Zenon
<1>6. myfile = Tls!AsText(received)
  BY <1>3, Zenon DEF TextRight
<1> QED
  BY <1>1, <1>5, <1>6, TextOf, Zenon

LEMMA TextInit ==
    ASSUME SequenceLaws, Tls!Init
    PROVE  TextRight
<1>1. received = <<>> /\ myfile = <<>> /\ <<>> \in Seq(Byte)
  BY DEF Tls!Init
<1> QED
  BY <1>1, TextOf, Zenon DEF TextRight

LEMMA TextStep ==
    ASSUME SequenceLaws, TlsInv, TextRight, [Tls!Next]_tlsVars
    PROVE  TextRight'
<1>1. CASE UNCHANGED <<received, myfile>>
  BY <1>1 DEF TextRight
<1>2. CASE Tls!WriteOut
  BY <1>2, TextWritten DEF TlsInv, TlsTypes
<1>3. CASE Tls!tls_connect \/ Tls!HandshakeReceives \/ Tls!HandshakeCut \/ Tls!ConnectionLost
  BY <1>1, <1>3 DEF Tls!tls_connect, Tls!HandshakeReceives, Tls!HandshakeCut,
                    Tls!ConnectionLost, Tls!files
<1>4. CASE Tls!tls_write \/ Tls!HandOut \/ Tls!ReadReceives \/ Tls!ReadEnds \/ Tls!tls_disconnect
  BY <1>1, <1>4 DEF Tls!tls_write, Tls!HandOut, Tls!ReadReceives, Tls!ReadEnds,
                    Tls!tls_disconnect, Tls!files
<1>5. CASE Tls!Decrypt
  BY <1>1, <1>2, <1>5, Zenon DEF Tls!Decrypt, Tls!files
<1>6. CASE Tls!ReadReturns
  BY <1>2, <1>6 DEF Tls!ReadReturns
<1>7. CASE Tls!ServerSends \/ Tls!ServerCloses \/ Tls!Reset
  BY <1>1, <1>7 DEF Tls!ServerSends, Tls!ServerCloses, Tls!Reset, Tls!client, Tls!files
<1>8. CASE UNCHANGED tlsVars
  BY <1>1, <1>8 DEF tlsVars
<1> QED
  BY <1>3, <1>4, <1>5, <1>6, <1>7, <1>8 DEF Tls!Next, Tls!ClientStep

(* What SentComesBack says of SecureSocket, and its types but two.          *)
LEMMA ResponseComes ==
    ASSUME Tls!TlsAssumption, TlsInv, TextRight
    PROVE  Tls!ResponseArrives
<1>1. Tls!IsPrefix(received, Tls!Says(answer))
  BY SamePrefix, Zenon DEF TlsInv, FileRight
<1>2. ending = "closed" /\ script = <<>> /\ asked => received = Tls!Says(answer)
  BY DEF TlsInv, FileRight
<1>3. Len(buf) < ReadSize
  <2>1. Len(buf) <= MaxPacket /\ buf \in Seq(Byte) /\ MaxPacket \in Nat /\ ReadSize \in Nat
        /\ MaxPacket < ReadSize
    BY DEF TlsInv, TlsTypes, Tls!TlsAssumption
  <2>2. Len(buf) \in Nat
    BY <2>1
  <2> QED
    BY <2>1, <2>2
<1>4. ~Tls!Contains(received, 0) => myfile = Tls!AsText(received)
  <2>1. received \in Seq(Byte)
    BY DEF TlsInv, TlsTypes
  <2>2. DOMAIN received = 1 .. Len(received)
    BY <2>1
  <2> QED
    BY <2>2, Zenon DEF Tls!Contains, TextRight
<1> QED
  BY <1>1, <1>2, <1>3, <1>4 DEF Tls!ResponseArrives
=============================================================================
