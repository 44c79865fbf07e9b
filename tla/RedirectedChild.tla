--------------------------- MODULE RedirectedChild ---------------------------
(***************************************************************************)
(* Parent.cpp (DemoA) starts Child.cpp with its standard input and output  *)
(* redirected to two anonymous pipes.  The parent writes a whole file to   *)
(* the child's input, closes that pipe, and only then reads the child's    *)
(* output until it ends.  The child copies what it reads back, with a      *)
(* "Hello" after every block, until its input ends.                        *)
(*                                                                         *)
(* What tells either process that the other has finished is which process  *)
(* still holds a handle of which end: a read of an empty pipe fails only   *)
(* when nobody holds its write end, a write fails only when nobody holds   *)
(* its read end.  Each handle is therefore explicit here.  A unit of data  *)
(* is a number (its place in the file); Text is a unit the child prints    *)
(* through std::wcout.                                                     *)
(***************************************************************************)
EXTENDS Naturals, Sequences, SequencesExt

CONSTANTS
    MaxFile,    \* the input file has at most this many units
    BUFSIZE,    \* units one ReadFile takes (4096 bytes in both programs)
    PipeSize    \* units a pipe holds (CreatePipe is passed 0: the default)

(* What the constants are.                                                  *)
SizesAssumption ==
    /\ MaxFile \in Nat
    /\ BUFSIZE \in Nat \ {0}
    /\ PipeSize \in Nat \ {0}

Text == 0
Ends == {"inRd", "inWr", "outRd", "outWr"}
Procs == {"parent", "child"}

VARIABLES
    file,       \* the units of the file named on the command line
    ppc,        \* where the parent is
    sent,       \* units of the file the parent has read
    pbuf,       \* the parent's chBuf: units still to be written
    cpc,        \* where the child is ("none" before it exists)
    cbuf,       \* the child's chBuf: units still to be written
    wcout,      \* text the child has buffered and not flushed
    cOk,        \* bSuccess of the child's last WriteFile
    holders,    \* the processes that hold a handle of each pipe end
    inherit,    \* the ends the parent's handles of which are inheritable
    pipeIn,     \* units in the pipe of the child's standard input
    pipeOut,    \* units in the pipe of its standard output
    printed,    \* what the parent has written to its own output
    abnormal    \* TRUE once a process was ended or a call failed

vars == <<file, ppc, sent, pbuf, cpc, cbuf, wcout, cOk, holders, inherit,
          pipeIn, pipeOut, printed, abnormal>>

parentVars == <<ppc, sent, pbuf, inherit, printed>>
childVars  == <<cpc, cbuf, wcout, cOk>>

Setup == {"args", "makeOut", "hideOut", "makeIn", "hideIn", "spawn", "open"}

Init ==
    /\ file \in {[i \in 1..n |-> i] : n \in 0..MaxFile}
    /\ ppc = "args" /\ sent = 0 /\ pbuf = <<>>
    /\ cpc = "none" /\ cbuf = <<>> /\ wcout = <<>> /\ cOk = TRUE
    /\ holders = [e \in Ends |-> {}]
    /\ inherit = {}
    /\ pipeIn = <<>> /\ pipeOut = <<>>
    /\ printed = <<>>
    /\ abnormal = FALSE

-----------------------------------------------------------------------------
(* The parent: Run prepares the pipes.                                     *)

CheckArgs ==
    /\ ppc = "args"
    /\ ppc' = "makeOut"
    /\ UNCHANGED <<file, sent, pbuf, childVars, holders, inherit, pipeIn,
                   pipeOut, printed, abnormal>>

\* CreatePipe with bInheritHandle set: both of its handles are inheritable.
CreatePipe(from, to, ends) ==
    /\ ppc = from
    /\ ppc' = to
    /\ holders' = [e \in Ends |-> IF e \in ends THEN {"parent"} ELSE holders[e]]
    /\ inherit' = inherit \union ends
    /\ UNCHANGED <<file, sent, pbuf, childVars, pipeIn, pipeOut, printed,
                   abnormal>>

MakeOut == CreatePipe("makeOut", "hideOut", {"outRd", "outWr"})
MakeIn  == CreatePipe("makeIn", "hideIn", {"inRd", "inWr"})

\* SetHandleInformation clears HANDLE_FLAG_INHERIT of the parent's own end.
ClearInherit(from, to, end) ==
    /\ ppc = from
    /\ ppc' = to
    /\ inherit' = inherit \ {end}
    /\ UNCHANGED <<file, sent, pbuf, childVars, holders, pipeIn, pipeOut,
                   printed, abnormal>>

HideOut == ClearInherit("hideOut", "makeIn", "outRd")

(* Seeded fault: the write end of the child's input stays inheritable.     *)
HideIn_Fault == ClearInherit("hideIn", "spawn", "outRd")

HideIn == ClearInherit("hideIn", "spawn", "inWr")

\* The child gets every inheritable handle; the parent then closes the two
\* ends the child uses.  The child's first text stays in std::wcout's buffer.
CreateChildProcess ==
    /\ ppc = "spawn"
    /\ ppc' = "open"
    /\ cpc' = "read" /\ wcout' = <<Text>>
    /\ holders' = [e \in Ends |->
                     (holders[e] \ IF e \in {"inRd", "outWr"} THEN {"parent"}
                                                              ELSE {})
                       \union (IF e \in inherit THEN {"child"} ELSE {})]
    /\ UNCHANGED <<file, sent, pbuf, cbuf, cOk, inherit, pipeIn, pipeOut,
                   printed, abnormal>>

OpenInput ==
    /\ ppc = "open"
    /\ ppc' = "readFile"
    /\ UNCHANGED <<file, sent, pbuf, childVars, holders, inherit, pipeIn,
                   pipeOut, printed, abnormal>>

\* Any of the calls of the preparation may fail (and the file name may be
\* missing): ErrorExit shows a message box and the process waits for it.
Fail ==
    /\ ppc \in Setup
    /\ ppc' = "errorBox"
    /\ abnormal' = TRUE
    /\ UNCHANGED <<file, sent, pbuf, childVars, holders, inherit, pipeIn,
                   pipeOut, printed>>

\* The end of a process closes the handles it still holds.
Released(p) == [e \in Ends |-> holders[e] \ {p}]

ErrorExit ==
    /\ ppc = "errorBox"
    /\ ppc' = "gone"
    /\ holders' = Released("parent")
    /\ UNCHANGED <<file, sent, pbuf, childVars, inherit, pipeIn, pipeOut,
                   printed, abnormal>>

-----------------------------------------------------------------------------
(* The parent: WriteToPipe.                                                *)

\* ReadFile takes a block of the file, or finds its end, or fails; the last
\* two close the write end, which the child sees as the end of its input.
ReadInputBlock ==
    /\ ppc = "readFile" /\ sent < Len(file)
    /\ LET n == IF sent + BUFSIZE <= Len(file) THEN sent + BUFSIZE
                                               ELSE Len(file)
       IN  pbuf' = SubSeq(file, sent + 1, n) /\ sent' = n
    /\ ppc' = "writePipe"
    /\ UNCHANGED <<file, childVars, holders, inherit, pipeIn, pipeOut, printed,
                   abnormal>>

CloseStdin ==
    /\ ppc' = "readPipe"
    /\ holders' = [holders EXCEPT !["inWr"] = @ \ {"parent"}]

EndOfInput ==
    /\ ppc = "readFile"
    /\ CloseStdin
    /\ abnormal' = (abnormal \/ sent < Len(file))
    /\ UNCHANGED <<file, sent, pbuf, childVars, inherit, pipeIn, pipeOut,
                   printed>>

\* A blocking WriteFile puts in the pipe what fits and returns when all of
\* its block is in.
WriteToPipe ==
    /\ ppc = "writePipe" /\ holders["inRd"] # {}
    /\ Len(pipeIn) < PipeSize
    /\ pipeIn' = Append(pipeIn, Head(pbuf))
    /\ pbuf' = Tail(pbuf)
    /\ ppc' = IF pbuf' = <<>> THEN "readFile" ELSE "writePipe"
    /\ UNCHANGED <<file, sent, childVars, holders, inherit, pipeOut, printed,
                   abnormal>>

WriteToPipeFails ==
    /\ ppc = "writePipe" /\ holders["inRd"] = {}
    /\ CloseStdin
    /\ pbuf' = <<>>
    /\ abnormal' = TRUE
    /\ UNCHANGED <<file, sent, childVars, inherit, pipeIn, pipeOut, printed>>

-----------------------------------------------------------------------------
(* The parent: ReadFromPipe.                                               *)

FirstUnits(s) == SubSeq(s, 1, IF Len(s) < BUFSIZE THEN Len(s) ELSE BUFSIZE)
OtherUnits(s) == SubSeq(s, BUFSIZE + 1, Len(s))

ReadFromPipe ==
    /\ ppc = "readPipe" /\ pipeOut # <<>>
    /\ printed' = printed \o FirstUnits(pipeOut)
    /\ pipeOut' = OtherUnits(pipeOut)
    /\ UNCHANGED <<file, ppc, sent, pbuf, childVars, holders, inherit, pipeIn,
                   abnormal>>

\* The read fails once the pipe is empty and no process can write to it, or
\* the write to the parent's own output fails: Run returns and main ends.
EndOfOutput ==
    /\ ppc = "readPipe" /\ pipeOut = <<>> /\ holders["outWr"] = {}
    /\ ppc' = "gone"
    /\ holders' = Released("parent")
    /\ UNCHANGED <<file, sent, pbuf, childVars, inherit, pipeIn, pipeOut,
                   printed, abnormal>>

PrintFails ==
    /\ ppc = "readPipe" /\ pipeOut # <<>>
    /\ ppc' = "gone"
    /\ pipeOut' = OtherUnits(pipeOut)
    /\ holders' = Released("parent")
    /\ abnormal' = TRUE
    /\ UNCHANGED <<file, sent, pbuf, childVars, inherit, pipeIn, printed>>

-----------------------------------------------------------------------------
(* The child.                                                              *)

ChildReads ==
    /\ cpc = "read" /\ pipeIn # <<>>
    /\ cbuf' = FirstUnits(pipeIn)
    /\ pipeIn' = OtherUnits(pipeIn)
    /\ cpc' = "write"
    /\ UNCHANGED <<file, parentVars, wcout, cOk, holders, pipeOut, abnormal>>

(* Seeded fault: the child takes a write that did not fit for a whole one. *)
ChildWrites_Fault ==
    /\ cpc = "write" /\ holders["outRd"] # {}
    /\ pipeOut' = IF Len(pipeOut) < PipeSize THEN Append(pipeOut, Head(cbuf))
                                             ELSE pipeOut
    /\ cbuf' = Tail(cbuf)
    /\ IF cbuf' = <<>> THEN cpc' = "hello" /\ wcout' = Append(wcout, Text)
                       ELSE UNCHANGED <<cpc, wcout>>
    /\ UNCHANGED <<file, parentVars, cOk, holders, pipeIn, abnormal>>

\* After the block comes L"Hello" << std::endl, which flushes std::wcout.
ChildWrites ==
    /\ cpc = "write" /\ holders["outRd"] # {}
    /\ Len(pipeOut) < PipeSize
    /\ pipeOut' = Append(pipeOut, Head(cbuf))
    /\ cbuf' = Tail(cbuf)
    /\ IF cbuf' = <<>> THEN cpc' = "hello" /\ wcout' = Append(wcout, Text)
                       ELSE UNCHANGED <<cpc, wcout>>
    /\ UNCHANGED <<file, parentVars, cOk, holders, pipeIn, abnormal>>

\* "Hello" is printed before bSuccess is looked at.
ChildWriteFails ==
    /\ cpc = "write" /\ holders["outRd"] = {}
    /\ cOk' = FALSE
    /\ cbuf' = <<>>
    /\ cpc' = "hello" /\ wcout' = Append(wcout, Text)
    /\ UNCHANGED <<file, parentVars, holders, pipeIn, pipeOut, abnormal>>

\* One unit of the flush; std::wcout drops its text when the pipe is broken.
Flush ==
    /\ wcout # <<>>
    /\ \/ /\ holders["outRd"] # {} /\ Len(pipeOut) < PipeSize
          /\ pipeOut' = Append(pipeOut, Head(wcout))
          /\ wcout' = Tail(wcout)
       \/ /\ holders["outRd"] = {}
          /\ wcout' = <<>> /\ UNCHANGED pipeOut

ChildHello ==
    /\ cpc = "hello"
    /\ Flush
    /\ cpc' = IF wcout' # <<>> THEN "hello" ELSE IF cOk THEN "read" ELSE "gone"
    /\ holders' = IF cpc' = "gone" THEN Released("child") ELSE holders
    /\ UNCHANGED <<file, parentVars, cbuf, cOk, pipeIn, abnormal>>

\* ReadFile fails: the pipe is empty and nobody can write to it any more.
ChildEndOfInput ==
    /\ cpc = "read" /\ pipeIn = <<>> /\ holders["inWr"] = {}
    /\ cpc' = "exit"
    /\ UNCHANGED <<file, parentVars, cbuf, wcout, cOk, holders, pipeIn,
                   pipeOut, abnormal>>

\* Leaving main flushes std::wcout; then the process is gone.
ChildExit ==
    /\ cpc = "exit"
    /\ IF wcout # <<>> THEN Flush /\ UNCHANGED <<cpc, holders>>
       ELSE /\ cpc' = "gone" /\ holders' = Released("child")
            /\ UNCHANGED <<wcout, pipeOut>>
    /\ UNCHANGED <<file, parentVars, cbuf, cOk, pipeIn, abnormal>>

\* The child may be ended by somebody else at any time.
ChildKilled ==
    /\ cpc \notin {"none", "gone"}
    /\ cpc' = "gone"
    /\ holders' = Released("child")
    /\ abnormal' = TRUE
    /\ UNCHANGED <<file, parentVars, cbuf, wcout, cOk, pipeIn, pipeOut>>

-----------------------------------------------------------------------------
Prepare == CheckArgs \/ MakeOut \/ HideOut \/ MakeIn \/ HideIn
             \/ CreateChildProcess \/ OpenInput

ParentStep == \/ Prepare \/ ErrorExit
              \/ ReadInputBlock \/ WriteToPipe \/ WriteToPipeFails
              \/ (EndOfInput /\ sent = Len(file))
              \/ ReadFromPipe \/ EndOfOutput

ChildStep == ChildReads \/ ChildWrites \/ ChildWriteFails \/ ChildHello
               \/ ChildEndOfInput \/ ChildExit

Next == \/ Prepare \/ Fail \/ ErrorExit
        \/ ReadInputBlock \/ EndOfInput \/ WriteToPipe \/ WriteToPipeFails
        \/ ReadFromPipe \/ EndOfOutput \/ PrintFails
        \/ ChildStep \/ ChildKilled

\* Both processes are scheduled; nothing has to fail or be killed.
Spec == Init /\ [][Next]_vars /\ WF_vars(ParentStep) /\ WF_vars(ChildStep)

-----------------------------------------------------------------------------
\* Types; no buffer or pipe exceeds its size.
TypeOK ==
    /\ file \in Seq(1..MaxFile)
    /\ ppc \in Setup \union
               {"errorBox", "readFile", "writePipe", "readPipe", "gone"}
    /\ sent \in 0..Len(file)
    /\ pbuf \in Seq(1..MaxFile) /\ cbuf \in Seq(1..MaxFile)
    /\ Len(pbuf) <= BUFSIZE /\ Len(cbuf) <= BUFSIZE
    /\ cpc \in {"none", "read", "write", "hello", "exit", "gone"}
    /\ wcout \in Seq({Text}) /\ cOk \in BOOLEAN
    /\ holders \in [Ends -> SUBSET Procs]
    /\ inherit \subseteq Ends
    /\ pipeIn \in Seq(1..MaxFile) /\ Len(pipeIn) <= PipeSize
    /\ pipeOut \in Seq(0..MaxFile) /\ Len(pipeOut) <= PipeSize
    /\ printed \in Seq(0..MaxFile)
    /\ abnormal \in BOOLEAN

\* The units of s that are the file's, without the text among them.
FromFile(s) == FlattenSeq([i \in DOMAIN s |-> IF s[i] = Text THEN <<>> ELSE <<s[i]>>])

\* What the parent prints of the file, and then what it can still read, is the
\* file's own units from the first on, in order and with none missing, whatever
\* text the child mixes in, where the reads cut the stream and whoever is ended
\* early; and when both processes end by themselves, all of the file has come
\* back.
FileComesBack ==
    /\ IsPrefix(FromFile(printed), file)
    /\ ppc # "gone" => IsPrefix(FromFile(printed \o pipeOut), file)
    /\ ppc = "gone" /\ cpc = "gone" /\ ~abnormal => FromFile(printed) = file

\* The child ends on its own when its input does: nobody is left holding the
\* write end once the parent has closed it, or has itself ended on an error.
ChildEnds == (cpc = "read") ~> (cpc = "gone")

\* The parent ends: it sees the end of the child's output whether the child
\* finished or was ended at any point ("If they are not explicitly closed,
\* there is no way to recognize that the child process has ended").
ParentEnds == <>(ppc = "gone")

\* WriteToPipe writes the file to the child and stops when there is no more
\* data (the comment above it), whatever the size of the file.
WritingStops == (ppc = "readFile") ~> (ppc = "readPipe")
=============================================================================
