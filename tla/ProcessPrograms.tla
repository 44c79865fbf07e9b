---------------------------- MODULE ProcessPrograms ----------------------------
(* The programs that start processes, read the event log, verify signatures, *)
(* trace exceptions and wait on handles, as the rows of CallRows.            *)
EXTENDS CallRows

(* Server/Server.cpp and Client/Client.cpp, the privileges of a token: the   *)
(* buffer is never freed, and read whether or not it was filled.             *)
EnumerateTokenPrivileges(token) ==
    <<Use({token}, {GoOn}), Acquire("buffer", {}, Thrown),
      Call({token, "buffer"}, {"privileges"}, {}, {GoOn}),
      Use({"privileges"}, {})>>
    \o While(<<Use({"privileges"}, {GoOn})>>)

(* Without its block the second query fails; a failure keeps the block. *)
SearchTokenGroupsForSID(token) ==
    Try(<<Use({token}, {Out}), Acquire("groups", {}, {Out}),
          Use({token, "groups"}, {Out}), Acquire("sid", {}, {Out})>>
        \o While(<<Use({"sid", "groups"}, {GoOn})>>)
        \o <<Release({"sid"}), Release({"groups"})>>, {})

(* The handles of the first process are overwritten with those of the second. *)
LaunchRestrictedProcess ==
    Program(<<
        Acquire("token", {}, Thrown),
        Acquire("sid", {}, Thrown),
        Acquire("restricted", {"token", "sid"}, Thrown) >>
        \o EnumerateTokenPrivileges("restricted") \o <<Release({"sid"})>>
        \o SearchTokenGroupsForSID("restricted")
        \o <<Acquire("logonProcess", {}, {GoOn}),
             Call({"restricted"}, {"process", "thread"}, {}, {Jump({}, 2)}),
             Release({"process", "thread"}),
             Release({"restricted", "token"}), Done>>,
        {}, {}, {"buffer", "privileges", "groups", "logonProcess"}, {"privileges"})

CreateLowProcess ==
    Program(<<
        Acquire("token", {}, Cleanup),
        Acquire("newToken", {"token"}, Cleanup),
        Acquire("sid", {}, Cleanup),
        Use({"newToken", "sid"}, Cleanup),                      \* integrity
        Call({"newToken"}, {"process", "thread"}, {}, Cleanup), Done >>,
        {"process", "thread", "sid", "newToken", "token"}, {}, {}, {})

Logon ==
    Program(<<Acquire("token", {}, Cleanup), Release({"token"}), Done>>,
            {}, {}, {}, {})

Logon2 ==
    Program(<<Call({}, {"process", "thread"}, {}, Cleanup),
              Release({"process", "thread"}), Done>>, {}, {}, {}, {})

RestrictedClient ==
    Program(<<Acquire("token", {}, {GoOn})>> \o EnumerateTokenPrivileges("token")
            \o <<Acquire("file", {}, {GoOn}), Done>>, {}, {},
            {"token", "buffer", "privileges", "file"}, {"token", "privileges"})

(* ExecuteCmd/main.cpp: the ends that the child got are closed before its    *)
(* output is read, or the reading would never come to an end.                *)
ReadFromPipe == <<Use({"outRd"}, {Jump({}, 2)}), Either({1, -1})>>

ExecuteCmd ==
    Program(<<
        Call({}, {"outRd", "outWr"}, {}, Thrown), Use({"outRd"}, Thrown),
        Call({}, {"inRd", "inWr"}, {}, Thrown), Use({"inWr"}, Thrown),
        Call({"outWr", "inRd"}, {"process", "thread"}, {}, Thrown),
        Release({"outWr", "inRd"}) >> \o ReadFromPipe \o <<Done>>,
        {"outRd", "inWr", "process", "thread"}, {}, {}, {})

-------------------------------------------------------------------------------
(* IoCompletionPorts/main.cpp: a second port takes the place of the one the  *)
(* constructor made, which is not closed; nor is the file.                   *)
CompletionPort ==
    Program(<<
        Acquire("firstPort", {}, Cleanup), Acquire("port", {}, Cleanup),
        Acquire("file", {}, Cleanup),
        Use({"port", "file"}, Cleanup), Use({"file"}, Cleanup),
        Use({"port"}, Cleanup), Done >>,
        {"port"}, {}, {"firstPort", "file"}, {})

(* WaitOnObjects/main.cpp. *)
WaitOnObjects ==
    Program(<<
        Acquire("eventA", {}, {GoOn}), Acquire("eventB", {}, {GoOn}),
        Use({"eventB"}, {GoOn}), Use({"eventA", "eventB"}, Thrown), Done >>,
        {}, {}, {"eventA", "eventB"}, {"eventA", "eventB"})

(* SelfExtractingExe: the extracted library stays beside the program. *)
ExtractAndLoad ==
    Program(<<
        Use({}, Cleanup), Use({}, Cleanup), Use({}, Cleanup),   \* the resource
        Acquire("file", {}, Cleanup),
        Acquire("library", {"file"}, Cleanup),
        Use({"library"}, Cleanup), Use({"library"}, Cleanup),
        Use({"library"}, {}), Done >>,
        {"library"}, Inside({"library"}, "file"), {"file"}, {})

(* ProjectedFileSystem: what was started is never stopped. *)
ProjectedFileSystem ==
    Program(<<
        Use({}, Cleanup), Acquire("file", {}, Cleanup), Use({"file"}, Cleanup),
        Use({}, Cleanup), Acquire("virtualization", {}, Cleanup), Done >>,
        {"file"}, {}, {"virtualization"}, {})

(* VectoredExceptionHandler/main.cpp: every demo throws something the        *)
(* handler sees first. The first address it prints loads the symbols, which  *)
(* stay, and so does the section that DbgHelp is entered under.              *)
PrintSymbol == <<
    Acquire("entered", {"symLock"}, {}),
    Use({"symbols", "entered"}, {GoOn}), Use({"symbols", "entered"}, {GoOn}),
    Release({"entered"}) >>

VehHandler == PrintSymbol \o While(PrintSymbol)

VectoredHandler ==
    LET demos == VehHandler \o VehHandler \o VehHandler \o VehHandler
    IN  Program(<<Acquire("handler", {}, Cleanup), Acquire("symLock", {}, {}),
                  Acquire("symbols", {}, {Jump({}, Len(demos) + 1)})>>
                \o demos \o <<Release({"handler"}), Done>>,
                {}, Inside({"entered"}, "symLock"), {"symLock", "symbols"}, {})

-------------------------------------------------------------------------------
(* SigningAndVerification/demo.ixx: the state of a verification is closed    *)
(* whatever came of it.                                                      *)
VerifyEmbeddedSignature ==
    Program(<<Acquire("state", {}, {GoOn}), ReleaseIf({"state"}), Done>>,
            {}, {}, {}, {})

(* Who signed a file: the certificate of the signer is forgotten once the    *)
(* one of the time stamp is searched for.                                    *)
CertificateName(cert) == <<
    Use({cert}, {Out}), Acquire("name", {}, {Out}), Use({cert, "name"}, {Out}) >>

PrintCertificateInfo(cert) ==
    Try(CertificateName(cert) \o <<Release({"name"})>> \o CertificateName(cert),
        {"name"})

Copied(r) == If(<<Acquire(r, {"opus"}, {GoOn})>>)       \* AllocateAndCopyWideString

GetProgAndPublisherInfo ==
    Try(If(<<Use({"signer"}, {Out}), Acquire("opus", {}, {Out}),
             Use({"signer", "opus"}, {Out})>>
           \o Copied("programName") \o Copied("publisherLink") \o Copied("moreInfo")),
        {"opus"})

TimeStamp ==
    Try(If(<<Use({"signer"}, {Out}), Acquire("counterSigner", {}, {Out}),
             Use({"signer", "counterSigner"}, {Out}),
             Acquire("stampCert", {"store", "counterSigner"}, Cleanup)>>
           \o PrintCertificateInfo("stampCert")
           \o <<Use({"counterSigner"}, {GoOn}), Done>>),    \* its date
        {"signerCert"})

AuthenticodeSigned ==
    Program(<<
        Call({}, {"store", "msg"}, {}, Cleanup),
        Use({"msg"}, Cleanup), Acquire("signer", {}, Cleanup),
        Use({"msg", "signer"}, Cleanup) >>
        \o GetProgAndPublisherInfo
        \o <<Acquire("signerCert", {"store", "signer"}, Cleanup)>>
        \o PrintCertificateInfo("signerCert") \o TimeStamp \o <<Done>>,
        {"store", "msg", "signer", "counterSigner", "stampCert",
         "programName", "publisherLink", "moreInfo"},
        Inside({"signerCert", "stampCert"}, "store"), {"signerCert"}, {})

-------------------------------------------------------------------------------
(* EventLog/eventviewer.ixx. TestA sizes a text, allocates and prints it;    *)
(* "text" is what the second call wrote. For the keywords it writes through  *)
(* the pointer it has not yet allocated.                                     *)
EventText(sized) == <<
    Use({"metadata", "event"}, {Jump({}, 6)}), sized,
    Acquire("message", {}, {Jump({}, 4)}),
    Call({"metadata", "event", "message"}, {"text"}, {}, {GoOn}),
    Use({"message", "text"}, {}),
    Release({"message", "text"}) >>

Text == EventText(Either({1}))
KeywordText == EventText(Use({"message"}, {}))

EventTexts ==
    Program(<<Acquire("metadata", {}, Cleanup), Acquire("results", {}, Cleanup),
              Acquire("event", {"results"}, Cleanup)>>
            \o Text \o Text \o Text \o Text \o KeywordText
            \o Text \o Text \o Text \o <<Done>>,
            {"metadata", "results", "event"}, {}, {}, {"message", "text"})

(* TestB. With inserts in the message, every failure ends badly: the array   *)
(* is walked where there is none, the message is given back as its own       *)
(* replacement, and once more as itself. The array is never freed.           *)
Inserts ==
    If(<<Acquire("starts", {}, {Out}), Acquire("ends", {}, {Out}),
         Acquire("parameters", {}, {Out}), Acquire("ids", {}, {Out}),
         Acquire("insert", {"resources"}, {Out}),
         Acquire("final", {"message"}, {Out}),
         Release({"starts", "ends", "ids", "insert"})>>)

Printed == <<Use({"message"}, {}), Release({"message"}), ReleaseIf({"final"})>>

Refused == <<
    Use({"parameters"}, {}), ReleaseIf({"insert"}), Use({"message"}, {}),
    Release({"message"}), Release({"message"}) >>

ApplyParameterStringsToMessage ==
    Try(Inserts \o Printed \o <<Either({Len(Refused) + 2})>>,
        {"starts", "ends", "ids"}) \o Refused

Category == <<Acquire("message", {"resources"}, {Jump({}, 2)}), Release({"message"})>>

MessageString(printed) ==
    Try(If(<<Acquire("args", {}, {GoOn})>>)
        \o <<Acquire("message", {"resources"}, {Out}), ReleaseIf({"args"})>>
        \o printed, {"args"})

DumpRecordsInBuffer ==
    While(Category \o MessageString(ApplyParameterStringsToMessage))

EventRecords ==
    Program(<<Acquire("log", {}, Cleanup), Acquire("resources", {}, Cleanup),
              Acquire("buffer", {}, Cleanup)>>
            \o While(IfElse(<<Use({"log", "buffer"}, Cleanup)>> \o DumpRecordsInBuffer,
                            <<Use({"log", "buffer"}, Cleanup)>>))    \* realloc
            \o <<Done>>, {"log", "buffer"}, {}, {"resources", "parameters"},
            {"parameters", "message"})

-------------------------------------------------------------------------------
ProcessTable ==
    [LaunchRestrictedProcess |-> LaunchRestrictedProcess,
     CreateLowProcess |-> CreateLowProcess, Logon |-> Logon, Logon2 |-> Logon2,
     RestrictedClient |-> RestrictedClient, ExecuteCmd |-> ExecuteCmd,
     CompletionPort |-> CompletionPort, WaitOnObjects |-> WaitOnObjects,
     ExtractAndLoad |-> ExtractAndLoad, ProjectedFileSystem |-> ProjectedFileSystem,
     VectoredHandler |-> VectoredHandler,
     VerifyEmbeddedSignature |-> VerifyEmbeddedSignature,
     AuthenticodeSigned |-> AuthenticodeSigned,
     EventTexts |-> EventTexts, EventRecords |-> EventRecords]
===============================================================================
