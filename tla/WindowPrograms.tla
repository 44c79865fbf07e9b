---------------------------- MODULE WindowPrograms ----------------------------
(* What the windows of the samples do with device contexts and what is       *)
(* selected in them, message by message, as the rows of CallRows. GetDC and  *)
(* the calls that make regions, brushes and bitmaps are not looked at.       *)
EXTENDS CallRows

-------------------------------------------------------------------------------
(* win32-ui-rc/main.cpp, the messages of BrushDlgProc. *)
Grid == Acquire("hdc", {}, {GoOn})
Lines == While(<<Use({"hdc"}, {GoOn})>>)

GridPaint ==
    Program(<<Grid>> \o Lines \o Lines \o <<Release({"hdc"}), Done>>,
            {}, {}, {}, {"hdc"})

(* The region of the grid and then the regions of its cells, each deleted    *)
(* when the next one is made: nobody deletes the last.                       *)
HitCell == <<
    Release({"hrgnCell"}),
    Acquire("hrgnCell", {}, {GoOn}),
    Use({"hrgnCell"}, {GoOn}) >>

GridHit ==
    Program(<<Acquire("hrgnCell", {}, {GoOn}), Grid,
              Use({"hdc", "hrgnCell"}, {GoOn}),
              Use({"hrgnCell"}, {GoOn})>>
            \o If(HitCell \o While(HitCell) \o If(<<Use({"hdc", "hrgnCell"}, {GoOn})>>))
            \o <<Release({"hdc"}), Done>>,
            {}, {}, {"hrgnCell"}, {"hdc", "hrgnCell"})

(* "chosen" stands for the brush in its place in the device context. *)
BrushPaint ==
    Program(<<Grid,
              Acquire("hbm", {}, {GoOn}),
              Acquire("hbrush", {"hbm"}, {GoOn}),
              Acquire("chosen", {"hdc", "hbrush"}, {GoOn}),
              Use({"hdc"}, {GoOn}),
              ReleaseIf({"chosen"}),                    \* SelectObject of the old one
              Release({"hbrush"}), Release({"hbm"}), Release({"hdc"}), Done>>,
            {}, Inside({"chosen"}, "hdc") \cup Inside({"chosen"}, "hbrush"), {},
            {"hdc", "hbm", "hbrush"})

-------------------------------------------------------------------------------
(* bitblt.ixx, a paint: the screen is drawn, copied and saved. The bitmap is *)
(* still selected when its scope ends, before that of the device context: it *)
(* cannot be deleted. Without a window's context one of the screen is made.  *)
Abort == {Exit}
ScreenShot == <<
    Acquire("hdcWindow", {}, {GoOn}),
    Acquire("hdcMemDC", {}, Abort),
    Use({"hdcWindow"}, {GoOn}),
    Acquire("hdcScreen", {}, {GoOn}),
    Use({"hdcWindow", "hdcScreen"}, Abort),             \* StretchBlt
    Acquire("hbmScreen", {"hdcWindow"}, Abort),
    Use({"hdcMemDC", "hbmScreen"}, {GoOn}),
    Use({"hdcMemDC", "hdcWindow"}, Abort) >>            \* BitBlt

SaveShot == <<
    Use({"hbmScreen"}, {GoOn}),
    Acquire("lpbitmap", {}, {GoOn}),
    Use({"hdcWindow", "hbmScreen"}, {GoOn}),            \* GetDIBits
    Acquire("file", {}, Abort),
    Use({"file"}, {GoOn}), Use({"file"}, {GoOn}),
    Use({"file", "lpbitmap"}, {GoOn}) >>

CaptureAnImage ==
    Program(<<Acquire("paint", {}, {GoOn})>> \o ScreenShot \o SaveShot
            \o <<Release({"paint"}), Done>>,
            {"hdcWindow", "hdcMemDC", "hdcScreen", "lpbitmap", "file"}, {},
            {"hbmScreen"}, {"paint", "hdcWindow", "hdcScreen", "lpbitmap"})

-------------------------------------------------------------------------------
WindowTable ==
    [GridPaint |-> GridPaint, GridHit |-> GridHit, BrushPaint |-> BrushPaint,
     CaptureAnImage |-> CaptureAnImage]
===============================================================================
