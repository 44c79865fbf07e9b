---------------------------- MODULE SystemPrograms ----------------------------
(* The programs that ask the system about adapters, users, sessions,         *)
(* counters, keys, stacks and cabinets, as the rows of CallRows.             *)
EXTENDS CallRows

(* WlanTest/WlanTest.cpp: the client handle is never closed, and the block   *)
(* of every connected interface but the last is overwritten.                 *)
WlanOpen == <<
    Acquire("client", {}, Cleanup),
    Acquire("interfaces", {"client"}, Cleanup) >>

ShowConnection == Use({"connection"}, {})
ShowSecurity == Use({"connection"}, {})

WlanInterface == If(<<
    Acquire("connection", {"client", "interfaces"}, {Jump({}, 3)}),
    ShowConnection, ShowSecurity >>)

WlanTest ==
    Program(WlanOpen \o While(WlanInterface)
            \o <<ReleaseIf({"connection"}), ReleaseIf({"interfaces"}), Done>>,
            {}, {}, {"client", "connection"}, {})

(* WLAN/main.cpp: the same with unique_ptrs. The names are converted by      *)
(* calls that throw, and main does not catch.                                *)
ConvertString(rs) == Use(rs, Thrown)

WlanNetworks ==
    Program(
        <<Acquire("session", {}, Cleanup), Acquire("interfaces", {"session"}, Cleanup)>>
        \o While(If(Try(<<
               Acquire("attributes", {"session"}, {Jump({}, 2)}),
               ConvertString({"attributes"}),
               Acquire("networks", {"session"}, {Out}) >>
               \o While(<<ConvertString({"networks"})>>),
               {"attributes", "networks"})))
        \o <<Done>>,
        {"session", "interfaces"},
        Inside({"interfaces", "attributes", "networks"}, "session"), {}, {})

-------------------------------------------------------------------------------
(* CreateUserAndGroup/Funcs.cpp. An account that exists already is as good   *)
(* as one just made; a failure leaves what was made before it.               *)
NetSample ==
    Program(<<
        Acquire("dc", {}, Cleanup),
        Acquire("user", {"dc"}, {Return({"dc"})}),
        Acquire("group", {"dc"}, {Return({"dc"})}),
        Use({"dc", "user", "group"}, {GoOn}),           \* the membership
        Release({"dc"}), Done >>, {}, {}, {"user", "group"}, {})

(* What main runs, without a domain controller; the logon goes on whatever   *)
(* came of it, and the deletion throws when the account is not there.        *)
NetSampleNoDc == <<
    Acquire("user", {}, {Exit}),
    Acquire("group", {"user"}, {Jump({}, 2)}),
    Use({"user", "group"}, {GoOn}) >>

(* Seeded fault: the token of the logon is not closed.                       *)
LogonLocalUser_Fault == <<Acquire("token", {"user"}, {GoOn})>>

LogonLocalUser == <<Acquire("token", {"user"}, {GoOn}), ReleaseIf({"token"})>>

DeleteLocalUserAndGroup == <<
    [Release({"user"}) EXCEPT !.fails = Thrown],
    [ReleaseIf({"group"}) EXCEPT !.fails = Thrown] >>

UserAndGroup ==
    Program(NetSampleNoDc \o LogonLocalUser \o DeleteLocalUserAndGroup \o <<Done>>,
            {}, {}, {}, {})

-------------------------------------------------------------------------------
(* CabinetCreate/main.cpp: the compressor opens, reads and closes files      *)
(* through the program's callbacks and is destroyed at CLEANUP.              *)
fnFileOpen(r) == Acquire(r, {"fci"}, Cleanup)
fnFileRead(r) == Use({r}, {Return({r})})
fnFileWrite(r) == Use({r}, {Return({r})})
fnFileSeek(r) == Use({r}, {Return({r})})
fnFileClose(r) == [Release({r}) EXCEPT !.fails = Cleanup]
fnGetOpenInfo == <<fnFileOpen("source"), Use({"source"}, {Return({"source"})})>>
fnGetTempFileName == Use({}, Cleanup)
fnGetNextCabinet == Use({}, Cleanup)
InitCab == <<fnGetNextCabinet, Use({}, Cleanup)>>

AddFile == fnGetOpenInfo
    \o <<fnFileRead("source"), [fnFileClose("source") EXCEPT !.fails = {}]>>
FlushCabinet == <<
    fnGetTempFileName, fnFileOpen("cabinet"), fnFileWrite("cabinet"),
    fnFileSeek("cabinet"), [fnFileClose("cabinet") EXCEPT !.fails = {}],
    fnGetNextCabinet >>

CabinetCreate ==
    Program(InitCab \o <<Acquire("fci", {}, Cleanup)>>
            \o While(IfElse(FlushCabinet, AddFile)) \o FlushCabinet \o <<Done>>,
            {"fci"}, Inside({"source", "cabinet"}, "fci"), {}, {})

(* CabinetExtract/main.cpp: fnNotify skips every file, so a cabinet that can *)
(* be read is extracted without anything being opened for writing.           *)
fdiCabinet == <<
    Acquire("cabinet", {"fdi"}, Cleanup), Use({"cabinet"}, {Return({"cabinet"})}),
    Use({"cabinet"}, {Return({"cabinet"})}) >>
fnNotify == Use({"cabinet"}, {})

ExtractCabinetFiles ==
    <<Acquire("fdi", {"search"}, Cleanup)>> \o fdiCabinet \o While(<<fnNotify>>)
    \o <<Release({"cabinet"}), Release({"fdi"})>>

CabinetExtract ==
    Program(<<Use({}, Cleanup), Acquire("search", {}, Cleanup), Use({}, Cleanup)>>
            \o ExtractCabinetFiles \o <<Done>>,
            {"search", "fdi"}, Inside({"cabinet"}, "fdi"), {}, {})

-------------------------------------------------------------------------------
(* BrowsePdhCounters.cpp and PdhQuery.cpp, which closes its query whether or *)
(* not it could be opened.                                                   *)
BrowsePdhCounters ==
    Program(<<
        Acquire("query", {}, Cleanup), Use({}, Cleanup),    \* the dialog
        Use({"query"}, Cleanup), Use({"query"}, Cleanup) >> \* add, collect
        \o While(<<Use({"query"}, {GoOn}), Use({"query"}, Cleanup)>>)
        \o <<Done>>, {"query"}, {}, {}, {})

PdhQuery ==
    Program(<<
        Acquire("query", {}, {GoOn}),
        Acquire("counter", {"query"}, {GoOn}),
        Use({"query"}, {GoOn}), Use({"counter"}, {GoOn}),
        Release({"counter"}), Release({"query"}), Done >>,
        {}, {}, {}, {"query", "counter"})

-------------------------------------------------------------------------------
(* EnumeratingAllProcessModules.cpp. All 1024 entries are walked, the ones   *)
(* that EnumProcesses did not fill too.                                      *)
PrintProcessTime ==
    Try(<<Acquire("process", {}, {Out}), Use({"process"}, {Out})>>, {"process"})

AllProcesses ==
    Program(<<Use({}, Cleanup)>> \o While(PrintProcessTime) \o <<Done>>,
            {}, {}, {}, {})

PrintModules ==
    Program(<<Acquire("process", {}, Cleanup)>>
            \o While(<<Use({"process"}, Cleanup)>>)     \* until all fit
            \o While(<<Use({"process"}, Cleanup)>>) \o <<Done>>,
            {"process"}, {}, {}, {})

(* CrashDump/main.cpp, the filter for what nobody handled. *)
HandleException ==
    Program(Try(<<
                Acquire("library", {}, {Out}), Use({"library"}, {Out}),
                Acquire("dump", {}, {Out}), Use({"library", "dump"}, {GoOn}) >>,
                {"dump", "library"}) \o <<Done>>, {}, {}, {}, {})

(* LoadingDLLs/main.cpp: a library that did not load throws. *)
DynamicLinkLibrary ==
    Program(<<Acquire("module", {}, Cleanup), Use({"module"}, {GoOn}),
              Either({1, 2}), ReleaseIf({"module"}), Done>>,    \* Close
            {"module"}, {}, {}, {})

(* TestExe/main.cpp: a function of the library is called without a look at   *)
(* whether it was found; the object that the library made goes before it.    *)
TestExe ==
    Program(<<Acquire("dll", {}, Cleanup),
              Acquire("fn", {"dll"}, {GoOn}), Use({"fn"}, {}),
              Use({"dll"}, Cleanup),
              Acquire("maker", {"dll"}, Cleanup),
              Acquire("made", {"maker"}, {}), Release({"made"}), Done>>,
            {"dll", "fn", "maker"}, Inside({"made"}, "dll"), {}, {"fn"})

-------------------------------------------------------------------------------
(* PrintLastError.cpp: the library is kept only for FormatMessage, and there *)
(* may be no text.                                                           *)
TranslateErrorCode == <<
    Acquire("library", {}, {GoOn}),
    Acquire("text", {}, {GoOn}),
    ReleaseIf({"library"}), ReleaseIf({"text"}) >>
GetErrorCodeAsWString == TranslateErrorCode
GetErrorCodeAsString == TranslateErrorCode

ErrorTexts ==
    Program(TranslateErrorCode \o GetErrorCodeAsWString \o GetErrorCodeAsString
            \o <<Done>>, {}, {}, {}, {})

(* WTS/Wrapper/Querier.cpp: the block of every session is left behind, the   *)
(* query's result is not looked at, and an empty list is not freed.          *)
GetLastErrorAsString == <<Acquire("text", {}, {Exit}), Release({"text"})>>

QuerySessions ==
    Program(<<
        Acquire("sessions", {}, Cleanup), Either({1, 6}),
        Either({1, 4}),
        Acquire("buffer", {"sessions"}, {GoOn}), Use({"buffer"}, {}),
        Either({1, -3}),
        [Release({"sessions"}) EXCEPT !.fails = Cleanup], Done >>,
        {}, {}, {"sessions", "buffer"}, {"buffer"})

-------------------------------------------------------------------------------
(* StackTrace/StackTrace.cpp *)
PrintStackWalk64 ==
    Try(<<Acquire("symbols", {}, {Out})>>
        \o While(<<Use({"symbols"}, {Out}), Use({"symbols"}, {Out}),
                   Use({"symbols"}, {GoOn})>>), {"symbols"})

PrintStackCpp ==
    Try(<<Use({}, {Out}), Acquire("symbols", {}, {Out})>>
        \o While(<<Use({"symbols"}, {GoOn}), Use({"symbols"}, {GoOn, Out})>>),
        {"symbols"})

StackTrace == Program(PrintStackWalk64 \o PrintStackCpp \o <<Done>>, {}, {}, {}, {})

(* StackTrace/StackTracer.cpp: the trace does not look at what malloc gives  *)
(* it, and the handler outlives the object that installed it.                *)
PrintStackTrace ==
    Program(<<
        Acquire("symbols", {}, {GoOn}),
        Acquire("symbol", {}, Cleanup), Acquire("line", {}, Cleanup) >>
        \o While(<<Use({"symbol"}, {GoOn}), Use({"line"}, {GoOn})>>)
        \o <<Release({"symbol"}), Release({"line"}), Done>>,
        {}, {}, {"symbols", "symbol"}, {})

FromExceptionContext ==
    <<Acquire("frame", {}, {GoOn}), Use({"frame"}, {}),
      Acquire("symbol", {}, {GoOn}), Use({"symbol"}, {}),
      Acquire("line", {}, {GoOn}), Use({"line"}, {})>>
    \o While(<<Use({"frame", "symbol", "line"}, {GoOn})>>)
    \o <<Release({"symbol"}), Release({"line"}), Release({"frame"})>>

DumpsOnACrash == Try(<<
    Acquire("key", {}, {Out}), Use({"key"}, {GoOn}),
    Use({"key"}, {GoOn}), Use({"key"}, {GoOn}) >>, {"key"})

StackTracer ==
    Program(DumpsOnACrash
            \o <<Acquire("symbols", {}, {GoOn}), Acquire("handler", {}, {GoOn})>>
            \o If(FromExceptionContext) \o <<ReleaseIf({"symbols"}), Done>>,
            {}, {}, {"handler"}, {"frame", "symbol", "line"})

-------------------------------------------------------------------------------
(* RegEditor/RegReads.cpp, in the order of OldTests: what fails throws, and  *)
(* the tree stays when that is after it was made.                            *)
CreateKey == <<Acquire("key", {}, Thrown), Call({}, {"tree"}, {"key"}, {})>>
WriteKey == <<
    Acquire("key", {"tree"}, Thrown),
    Use({"key"}, {[Exit EXCEPT !.drop = {"key"}]}), Release({"key"}) >>
RegGetString == <<Use({"tree"}, Thrown), Use({"tree"}, Thrown)>>
DeleteTree == [Release({"tree"}) EXCEPT !.fails = Thrown]

OldTests ==
    Program(CreateKey \o WriteKey \o WriteKey \o RegGetString \o RegGetString
            \o <<DeleteTree, Done>>, {}, {}, {}, {})

(* The same calls through registry.ixx, as main makes them.                  *)
NewTests ==
    Program(CreateKey \o <<Use({"tree"}, Thrown)>> \o RegGetString \o RegGetString
            \o <<DeleteTree, Done>>, {}, {}, {}, {})

(* NtQueryKey/main.cpp and GetNameInfo.cpp, which never leaves Winsock. *)
NtQueryKey ==
    Program(<<Use({}, Cleanup), Use({}, Cleanup), Acquire("key", {}, Cleanup),
              Use({"key"}, Cleanup), Use({"key"}, Cleanup), Done>>,
            {"key"}, {}, {}, {})

NameInfo ==
    Program(<<Use({}, Cleanup), Acquire("winsock", {}, Cleanup),
              Use({"winsock"}, Cleanup), Done>>, {}, {}, {"winsock"}, {})

(* GuardPages.cpp: the first lock trips the guard and fails, the second      *)
(* holds; the page goes with the process.                                    *)
GuardPages ==
    Program(<<Acquire("page", {}, Cleanup), Use({"page"}, {GoOn}),
              Acquire("lock", {"page"}, {GoOn}), Done>>,
            {}, {}, {"page", "lock"}, {})

(* VirtualAllocReserving.cpp: every access beyond the committed pages faults *)
(* and the filter commits one more, or the process exits.                    *)
PageFaultExceptionFilter == Acquire("pages", {"reserve"}, Thrown)

VirtualAllocReserving ==
    Program(<<Acquire("reserve", {}, Thrown), PageFaultExceptionFilter>>
            \o While(<<Use({"pages"}, {GoOn})>> \o If(<<Release({"pages"}), PageFaultExceptionFilter>>))
            \o <<Release({"reserve", "pages"}), Done>>, {}, {}, {}, {})

(* IcmpRule.cpp: an apartment of another kind will do, but is not left; the  *)
(* string for the application is forgotten.                                  *)
WFCOMInitialize == Acquire("policy", {}, {Out})

IcmpRule ==
    Program(Try(<<
                Acquire("strings", {}, {}), Acquire("application", {}, {}),
                Acquire("com", {}, {GoOn, Out}), WFCOMInitialize,
                Acquire("rules", {"policy"}, {Out}), Acquire("rule", {}, {Out}),
                Use({"rule", "strings"}, {GoOn}),
                Use({"rules", "rule"}, {Out}) >>, {"strings"})
            \o <<ReleaseIf({"rule"}), ReleaseIf({"rules"}), ReleaseIf({"policy"}),
                 ReleaseIf({"com"}), Done>>, {}, {}, {"application"}, {})

SystemTable ==
    [WlanTest |-> WlanTest, WlanNetworks |-> WlanNetworks, NetSample |-> NetSample,
     UserAndGroup |-> UserAndGroup, CabinetCreate |-> CabinetCreate,
     CabinetExtract |-> CabinetExtract, BrowsePdhCounters |-> BrowsePdhCounters,
     PdhQuery |-> PdhQuery, AllProcesses |-> AllProcesses,
     PrintModules |-> PrintModules, HandleException |-> HandleException,
     DynamicLinkLibrary |-> DynamicLinkLibrary, ErrorTexts |-> ErrorTexts,
     QuerySessions |-> QuerySessions, StackTrace |-> StackTrace,
     PrintStackTrace |-> PrintStackTrace, StackTracer |-> StackTracer,
     OldTests |-> OldTests, NewTests |-> NewTests, NtQueryKey |-> NtQueryKey,
     NameInfo |-> NameInfo, GuardPages |-> GuardPages, VirtualAllocReserving |-> VirtualAllocReserving,
     IcmpRule |-> IcmpRule, TestExe |-> TestExe]
===============================================================================
