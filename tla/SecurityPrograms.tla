--------------------------- MODULE SecurityPrograms ---------------------------
(* The programs about certificates, tokens and security descriptors, as the  *)
(* rows of CallRows. MyHandleError prints and calls exit(1).                 *)
EXTENDS CallRows

MyHandleError == {Exit}

-------------------------------------------------------------------------------
(* SettingAndGettingCertStoreProperties/main.cpp. The blob the store is      *)
(* saved to, the store opened from it and the event are never given back.    *)
CertStoreOpen == <<
    Acquire("event", {}, MyHandleError),
    Acquire("store", {}, MyHandleError),
    Use({"store"}, MyHandleError),                      \* CertSetStoreProperty
    Use({"store"}, MyHandleError),                      \* its length
    Acquire("data", {}, MyHandleError),
    Use({"store", "data"}, MyHandleError),              \* CertGetStoreProperty
    Use({"store"}, MyHandleError) >>                    \* to pkcsseven.dat

CertStoreSave == <<
    Use({"store"}, MyHandleError),                      \* its size
    Acquire("blob", {}, MyHandleError),
    Use({"store", "blob"}, MyHandleError),              \* to memory
    Use({"blob"}, {GoOn}),                              \* signer count
    Acquire("newStore", {"blob"}, MyHandleError),
    Use({"blob"}, MyHandleError),                       \* size of the hash
    Acquire("hash", {}, MyHandleError),
    Use({"blob", "hash"}, MyHandleError) >>

CertStoreResync == <<
    Use({"store", "event"}, MyHandleError),             \* notify change
    Either({1, 2}),                                     \* signalled in 1 s?
    Use({"store", "event"}, MyHandleError),             \* resync
    Release({"hash"}),
    ReleaseIf({"data"}),
    [Release({"store"}) EXCEPT !.fails = MyHandleError],
    Done >>

SettingCertStore ==
    Program(CertStoreOpen \o CertStoreSave \o CertStoreResync, {},
            {}, {"event", "blob", "newStore"}, {})

-------------------------------------------------------------------------------
(* CertEncodeDecode.cpp: every size is asked for, then allocated, then       *)
(* filled. ByteToStr measures the uninitialized block sz with strlen, so it  *)
(* may exit although the block is large enough.                              *)
ByteToStr == Use({"sz", "encoded"}, MyHandleError)

CertEncodeDecode ==
    Program(<<
        Acquire("sz", {}, MyHandleError),
        Use({}, MyHandleError),                         \* encoded length
        Acquire("encoded", {}, MyHandleError),
        Use({"encoded"}, MyHandleError),                \* encode
        ByteToStr,
        Use({"encoded"}, MyHandleError),                \* decoded length
        Acquire("decoded", {}, MyHandleError),
        Use({"encoded", "decoded"}, MyHandleError),     \* decode, NOCOPY
        ReleaseIf({"sz"}), ReleaseIf({"encoded"}), ReleaseIf({"decoded"}),
        Done >>, {}, {}, {}, {})

-------------------------------------------------------------------------------
(* EnumSystemCertStores.cpp: main enumerates locations, system stores and    *)
(* physical stores; every callback enumerates the next level with the same   *)
(* argument block and answers TRUE, or exits when GetSystemName fails. Only  *)
(* main looks at the result of an enumeration.                               *)
GetSystemName == Use({"arg"}, MyHandleError)
EnumPhyCallback == <<GetSystemName>>
EnumSysCallback == <<GetSystemName>> \o If(While(EnumPhyCallback))
EnumLocCallback == If(While(EnumSysCallback))

EnumSystemCertStores ==
    Program(
        <<Acquire("arg", {}, {})>>
        \o While(EnumLocCallback) \o <<Use({"arg"}, MyHandleError)>>
        \o While(EnumSysCallback) \o <<Use({"arg"}, MyHandleError)>>
        \o While(EnumPhyCallback) \o <<Use({"arg"}, MyHandleError), Done>>,
        {"arg"}, {}, {}, {})

-------------------------------------------------------------------------------
(* TakingOwnership/main.cpp: SetPrivilege enables SeTakeOwnership in the     *)
(* token of the process; Cleanup closes the token but does not disable it,   *)
(* so a failure to set the owner leaves the process privileged.              *)
SetPrivilege(enable, failed) ==
    Call({"token"}, IF enable THEN {"privilege"} ELSE {},
         IF enable THEN {} ELSE {"privilege"}, failed)

TakeOwnership ==
    Program(<<
        Acquire("everyone", {}, Cleanup),
        Acquire("admins", {}, Cleanup),
        Acquire("acl", {"everyone", "admins"}, Cleanup),
        (* The DACL set at once, or access denied, or another error. *)
        [Use({"acl"}, {Return({}), GoOn}) EXCEPT !.next = {6}],
        Acquire("token", {}, Cleanup),
        SetPrivilege(TRUE, Cleanup),
        Use({"admins"}, Cleanup),                       \* set the owner
        SetPrivilege(FALSE, Cleanup),
        Use({"acl"}, {GoOn}),                           \* the DACL again
        Done >>,
        {"everyone", "admins", "acl", "token"}, {}, {"privilege"}, {})

(* SetPrivilege/main.cpp: the token handle is not closed. *)
DropSystemTime ==
    Program(<<Acquire("token", {}, Cleanup),                 \* throws to main
              Use({"token"}, {GoOn}), Done>>, {}, {}, {"token"}, {})

-------------------------------------------------------------------------------
(* ExportImportCertificate.cpp: the stores and the context are shared_ptrs   *)
(* with a deleter; a null result is looked at before it is used.             *)
ExportCertificate ==
    Program(<<
        Acquire("personal", {}, {Return({})}),
        Acquire("root", {}, {Return({})}),
        Use({}, {Return({})}),                          \* CertStrToName
        Acquire("context", {"personal"}, {Return({})}),
        Use({"context", "root"}, {Return({})}),         \* CryptUIWizExport
        Done >>, {"personal", "root", "context"},
        Inside({"context"}, "personal"), {}, {})

-------------------------------------------------------------------------------
(* CreateAuthPolicyStore/main.cpp: the three ways to open the store differ   *)
(* in the variant, which only WithActiveDirector clears.                     *)
WithStore ==
    Program(<<
        Acquire("com", {}, MyHandleError),
        Acquire("authStore", {"com"}, MyHandleError),
        Acquire("name", {}, MyHandleError),
        Use({"authStore", "name"}, MyHandleError),      \* Initialize
        Use({"authStore"}, MyHandleError),              \* Submit
        Release({"authStore"}), Release({"name"}), Release({"com"}), Done >>,
        {}, Inside({"authStore"}, "com"), {}, {})

(* FindingOwner/main.cpp returns -1 from every failure and 0 at the end, and *)
(* gives nothing back on either way.                                         *)
FindingOwner ==
    Program(<<
        Acquire("file", {}, {Return({})}),
        Acquire("descriptor", {"file"}, {Return({})}),
        Use({"descriptor"}, {GoOn}),                    \* sizes of the names
        Acquire("account", {}, {Return({})}),
        Acquire("domain", {}, {Return({})}),
        Use({"descriptor", "account", "domain"}, {Return({})}),
        Done >>, {}, {}, {"file", "descriptor", "account", "domain"}, {})

(* CreateDacl/main.cpp *)
CreateDacl ==
    Program(<<
        Acquire("descriptor", {}, MyHandleError),
        Use({"descriptor"}, MyHandleError),             \* CreateDirectory
        [Release({"descriptor"}) EXCEPT !.fails = MyHandleError],
        Done >>, {}, {}, {}, {})

SecurityTable ==
    [SettingCertStore |-> SettingCertStore, CertEncodeDecode |-> CertEncodeDecode,
     EnumSystemCertStores |-> EnumSystemCertStores, TakeOwnership |-> TakeOwnership,
     DropSystemTime |-> DropSystemTime, ExportCertificate |-> ExportCertificate,
     WithStore |-> WithStore, FindingOwner |-> FindingOwner, CreateDacl |-> CreateDacl]
===============================================================================
