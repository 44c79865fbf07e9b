------------------------------ MODULE ComPrograms ------------------------------
(* The programs that drive COM objects, as the rows of CallRows. "com" is    *)
(* the apartment that CoInitializeEx enters and CoUninitialize leaves.       *)
EXTENDS CallRows

Undo(rs) == {Return(rs \cup {"com"})}

-------------------------------------------------------------------------------
(* TimeTriggerExample.cpp. Every pointer is given back as soon as the next   *)
(* one was asked for, whether or not the call succeeded; the branch of a     *)
(* failure gives back the folder, the task and the apartment. "gap" stands   *)
(* for the task that DeleteTask removed and nothing has put back yet.        *)
UndoTask(rs) == Undo({"root", "task"} \cup rs)
Then(get, from) == Call({from, "com"}, {get}, {from}, UndoTask({from}))
Last(from) == Call({from}, {}, {from}, UndoTask({from}))
FromTask(r) == Acquire(r, {"task"}, UndoTask({}))

TaskConnect == <<
    Acquire("com", {}, {Return({})}),
    Use({"com"}, Undo({})),                             \* security
    Use({}, {Return({})}),                              \* WINDIR
    Acquire("service", {"com"}, Undo({})),
    Use({"service"}, Undo({"service"})),                \* Connect
    Acquire("root", {"service"}, Undo({"service"})),
    Acquire("gap", {"root"}, {GoOn}),                   \* DeleteTask
    Call({"service"}, {"task"}, {"service"}, Undo({"service", "root"})) >>

TaskSettings == <<
    FromTask("regInfo"), Last("regInfo"),
    FromTask("principal"), Last("principal"),
    FromTask("settings"),
    Use({"settings"}, UndoTask({})),                    \* the settings stay
    Then("idleSettings", "settings"), Last("idleSettings") >>

TaskTrigger == <<
    FromTask("triggers"), Then("trigger", "triggers"),
    Then("timeTrigger", "trigger"),
    Use({"timeTrigger"}, {GoOn}),                       \* put_Id
    Use({"timeTrigger"}, {GoOn}),                       \* put_EndBoundary
    Last("timeTrigger") >>                              \* put_StartBoundary

TaskAction == <<
    FromTask("actions"), Then("action", "actions"),
    Then("execAction", "action"), Last("execAction"),
    [Acquire("registered", {"root", "task"}, UndoTask({}))
        EXCEPT !.sweep = {"gap"}],
    Release({"root"}), Release({"task"}), Release({"registered"}),
    Release({"com"}), Done >>

TimeTrigger ==
    Program(TaskConnect \o TaskSettings \o TaskTrigger \o TaskAction, {},
            Inside({"service", "root", "task", "regInfo", "principal", "settings",
                    "idleSettings", "triggers", "trigger", "timeTrigger",
                    "actions", "action", "execAction", "registered"}, "com"),
            {"com", "settings", "gap"}, {})

-------------------------------------------------------------------------------
(* TaskSchedulerDisplayTaskNames/main.cpp, and DisplayingTaskNamesAndStates- *)
(* Example.cpp, which asks the task for its definition before it looks at    *)
(* whether there is a task.                                                  *)
TaskFolder == <<
    Acquire("com", {}, {Return({})}),
    Use({"com"}, Undo({})),
    Acquire("service", {"com"}, Undo({})),
    Use({"service"}, Undo({"service"})),
    Call({"service"}, {"root"}, {"service"}, Undo({"service"})),
    Call({"root"}, {"tasks"}, {"root"}, Undo({"root"})),
    Use({"tasks"}, Undo({"tasks"})) >>                  \* get_Count, or none

(* Seeded fault: the apartment is left before the collection is given back.  *)
NamesOf_Fault(task) ==
    While(task \o <<Use({"task"}, {GoOn}), ReleaseIf({"task"})>>)
    \o <<Release({"com"}), Release({"tasks"}), Done>>

NamesOf(task) ==
    While(task \o <<Use({"task"}, {GoOn}), ReleaseIf({"task"})>>)
    \o <<Release({"tasks"}), Release({"com"}), Done>>

TaskPointers == Inside({"service", "root", "tasks", "task"}, "com")

DisplayTaskNames ==
    Program(TaskFolder
            \o NamesOf(<<Acquire("task", {"tasks"}, {Jump({}, 2)})>>),
            {}, TaskPointers, {}, {})

DisplayTaskStates ==
    Program(TaskFolder
            \o NamesOf(<<Acquire("task", {"tasks"}, {GoOn}),
                         Use({"task"}, {})>>),          \* get_Definition
            {}, TaskPointers, {}, {"task"})

-------------------------------------------------------------------------------
(* WMI/main.cpp *)
LocalWmi ==
    Program(<<
        Acquire("com", {}, {Return({})}),
        Use({"com"}, Undo({})),
        Acquire("locator", {"com"}, Undo({})),
        Acquire("services", {"locator"}, Undo({"locator"})),
        Use({"services"}, Undo({"services", "locator"})),   \* proxy blanket
        Acquire("rows", {"services"}, Undo({"services", "locator"})) >>
        \o While(<<
            Acquire("row", {"rows"}, {Jump({}, 4)}),    \* Next: none left
            Use({"row"}, {GoOn}),                       \* Get, not looked at
            Release({"row"}) >>)
        \o <<Release({"services"}), Release({"locator"}), Release({"rows"}),
             Release({"com"}), Done>>,
        {}, Inside({"locator", "services", "rows", "row"}, "com"), {}, {})

-------------------------------------------------------------------------------
(* HardDriveInfo: every class owns one pointer and gives it back in its      *)
(* destructor; what fails throws, and main does not catch.                   *)
ComInitialiser == <<Acquire("com", {}, Thrown), Use({"com"}, Thrown)>>

WmiProxy == <<
    Acquire("locator", {"com"}, Thrown),
    Acquire("services", {"locator"}, Thrown),           \* ConnectServer
    Use({"services"}, Thrown) >>                        \* proxy blanket

Query == <<Acquire("rows", {"services"}, Thrown)>>

(* Seeded fault: a Next that gave no object is taken for one that did.       *)
NextObject_Fault == Acquire("row", {"rows"}, Thrown \cup {GoOn})

NextObject == Acquire("row", {"rows"}, Thrown \cup {Jump({}, 4)})

(* Every typed getter: Get fails, or the value has another type. *)
Getter == Use({"row"}, Thrown)

RamInfo ==
    Program(ComInitialiser \o WmiProxy \o Query
            \o While(<<NextObject, Getter, Release({"row"})>>) \o <<Done>>,
            {"com", "locator", "services", "rows", "row"},
            Inside({"locator", "services", "rows", "row"}, "com"), {}, {})

(* WindowsUpdate/main.cpp: CheckHResult throws and main does not catch; the  *)
(* pointers are ComPtrs and the apartment is never left.                     *)
UpdateHistory ==
    Program(<<
        Acquire("com", {}, Thrown),
        Acquire("session", {"com"}, Thrown),
        Acquire("searcher", {"session"}, Thrown),
        Use({"searcher"}, Thrown),                      \* history count
        Acquire("history", {"searcher"}, Thrown) >>
        \o While(<<
            Acquire("entry", {"history"}, Thrown),
            Use({"entry"}, Thrown),                     \* get_Title
            Release({"entry"}) >>)
        \o <<Done>>,
        {"session", "searcher", "history"},
        Inside({"session", "searcher", "history", "entry"}, "com"),
        {"com"}, {})

-------------------------------------------------------------------------------
(* XAudio2/main.cpp. The source voice keeps a pointer to vc, whose           *)
(* destructor closes the event; vc goes at every return, the voice never.    *)
PlaySetup == <<
    Acquire("com", {}, {GoOn}),                         \* not looked at
    Acquire("audio", {}, {Return({})}),
    Acquire("mastering", {"audio"}, {Return({})}),
    Acquire("file", {}, {Return({})}),
    Use({"file"}, {Return({})}) >>                      \* SetFilePointer

FindChunk == Use({"file"}, {GoOn})                      \* not looked at
ReadChunkData == Use({"file"}, {GoOn})                  \* not looked at

PlaySample ==
    Program(PlaySetup \o <<
        FindChunk, ReadChunkData,
        Use({}, {Return({})}),                          \* a wave file?
        FindChunk, ReadChunkData, FindChunk,
        Acquire("samples", {}, {}), ReadChunkData,
        Acquire("vc", {}, {}),
        Acquire("voice", {"audio", "vc"}, {Return({})}),
        Use({"voice", "samples"}, {Return({})}),        \* submit
        Use({"voice"}, {Return({})}),                   \* start
        Use({"vc"}, {}),                                \* OnStreamEnd
        Done >>, {"vc"}, Inside({"voice"}, "vc"),
        {"com", "audio", "mastering", "file", "samples", "voice"}, {})

-------------------------------------------------------------------------------
(* DesktopToasts/src/main.cpp. The destructor of the app unregisters the     *)
(* activator whether or not it was registered. The shortcut and the COM      *)
(* server entry are written once, for every later start.                     *)
AppGone == {Return({"app", "module"})}

InstallShortcut == <<
    Acquire("link", {}, AppGone),
    Use({"link"}, AppGone),                             \* SetPath
    Acquire("properties", {"link"}, AppGone),
    Use({"properties"}, AppGone), Use({"properties"}, AppGone),
    Use({"properties"}, AppGone),                       \* Commit
    Acquire("persist", {"link"}, AppGone),
    Acquire("shortcut", {"persist"}, AppGone),
    ReleaseIf({"link", "properties", "persist"}) >>

RegisterAppForNotificationSupport == <<
    Acquire("appData", {}, AppGone),                    \* known folder
    Use({}, AppGone) >>                                 \* the path
    \o If(<<Use({}, AppGone)>>                          \* no shortcut yet
          \o InstallShortcut
          \o <<Acquire("comServer", {}, AppGone)>>)
    \o <<Release({"appData"})>>

RegisterActivator == <<Acquire("module", {}, {}), Use({"module"}, AppGone)>>

SetNodeValueString(node, xml) == <<
    Acquire("text", {xml}, {Out}), Acquire("textNode", {"text"}, {Out}),
    Use({node, "textNode"}, {Out}), ReleaseIf({"text", "textNode"}) >>

SetImageSrc == <<
    Use({}, {Out}), Acquire("images", {"xml"}, {Out}),
    Acquire("image", {"images"}, {Out}), Acquire("attributes", {"image"}, {Out}),
    Acquire("src", {"attributes"}, {Out}) >> \o SetNodeValueString("src", "xml")

SetTextValues == <<
    Acquire("texts", {"xml"}, {Out}), Use({"texts"}, {Out}), Use({}, {Out}) >>
    \o While(Try(<<Acquire("line", {"texts"}, {Out})>>
                 \o SetNodeValueString("line", "xml"),
                 {"line", "text", "textNode"}))
    \o <<Use({}, {Out})>>                               \* the last of them

CreateToastXml == <<Acquire("xml", {"statics"}, {Out})>> \o SetImageSrc \o SetTextValues

CreateToast == <<
    Acquire("notifier", {"statics"}, {Out}), Acquire("factory", {}, {Out}),
    Acquire("toast", {"factory", "xml"}, {Out}),
    Use({"toast"}, {Out}), Use({"toast"}, {Out}), Use({"toast"}, {Out}),
    Use({"notifier", "toast"}, {Out}) >>                \* Show

(* RunMessageLoop does not look at what DisplayToast answers. *)
ToastPointers ==
    {"statics", "xml", "images", "image", "attributes", "src", "text",
     "textNode", "texts", "line", "notifier", "factory", "toast"}

DisplayToast ==
    Try(<<Acquire("statics", {"ro"}, {Out})>> \o CreateToastXml \o CreateToast,
        ToastPointers)

DesktopToasts ==
    Program(<<Acquire("ro", {}, {Return({})}), Acquire("app", {}, {})>>
            \o RegisterAppForNotificationSupport \o RegisterActivator
            \o DisplayToast \o <<Release({"app", "module"}), Done>>,
            {"ro", "appData", "link", "properties", "persist"},
            Inside(ToastPointers \cup {"link", "properties", "persist", "module"}, "ro"),
            {"shortcut", "comServer"}, {"module"})

-------------------------------------------------------------------------------
(* AdSystemInfo.cpp, which does not look at whether COM is there; BitsTest,  *)
(* which does; basic-com-client.cpp, which calls the object whether or not   *)
(* there is one and never leaves COM.                                        *)
PrintName == <<Acquire("name", {"system"}, {Jump({}, 2)}), Release({"name"})>>

AdSystemInfo ==
    Program(<<Acquire("com", {}, {GoOn}), Acquire("system", {}, Thrown)>>
            \o PrintName \o PrintName \o PrintName \o PrintName
            \o <<Release({"system"}), Release({"com"}), Done>>,
            {}, {}, {}, {"com"})

BitsTest ==
    Program(<<Acquire("com", {}, Cleanup), Acquire("manager", {"com"}, Cleanup), Done>>,
            {"com", "manager"}, Inside({"manager"}, "com"), {}, {})

AddClient ==
    Program(<<Acquire("com", {}, {GoOn}), Acquire("adder", {}, {GoOn}),
              Use({"adder"}, {GoOn}), Use({"adder"}, {GoOn}), Use({"adder"}, {GoOn}),
              Release({"adder"}), Done>>, {}, {}, {"com"}, {"adder"})

(* The server's own calls, basic-com: a key that could not be written stays  *)
(* open, and the text of the class id is never freed. A refused interface    *)
(* leaves the object that was made for it; a granted one is the caller's.    *)
HelperWriteKey ==
    <<Acquire("key", {}, {Jump({}, 3)}), Use({"key"}, {Jump({}, 2)}), Release({"key"})>>

RegisterServer ==
    Program(<<Acquire("clsid", {}, {GoOn}), Use({"clsid"}, {})>>
            \o HelperWriteKey \o HelperWriteKey \o HelperWriteKey
            \o HelperWriteKey \o HelperWriteKey \o <<Done>>,
            {}, {}, {"clsid", "key"}, {"clsid"})

(* Two keys are deleted before the text is asked for, three by its name. *)
UnregisterServer ==
    Program(<<Use({}, {GoOn}), Use({}, {GoOn}),
              Acquire("clsid", {}, {GoOn}), Use({"clsid"}, {}),
              Use({}, {GoOn}), Use({}, {GoOn}), Use({}, {GoOn}), Done>>,
            {}, {}, {"clsid"}, {"clsid"})

(* DllGetClassObject makes the factory, CreateInstance the adder. *)
Made(object) ==
    Program(<<Use({}, Cleanup), Acquire(object, {}, Cleanup),
              Call({object}, {}, {object}, Cleanup), Done>>, {}, {}, {object}, {})

ComTable ==
    [TimeTrigger |-> TimeTrigger, DisplayTaskNames |-> DisplayTaskNames,
     DisplayTaskStates |-> DisplayTaskStates, LocalWmi |-> LocalWmi,
     RamInfo |-> RamInfo, UpdateHistory |-> UpdateHistory,
     PlaySample |-> PlaySample, DesktopToasts |-> DesktopToasts,
     AdSystemInfo |-> AdSystemInfo, BitsTest |-> BitsTest, AddClient |-> AddClient,
     RegisterServer |-> RegisterServer, UnregisterServer |-> UnregisterServer,
     ClassObject |-> Made("factory"), CreateInstance |-> Made("adder")]
===============================================================================
