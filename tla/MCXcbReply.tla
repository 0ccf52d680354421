----------------------------- MODULE MCXcbReply -----------------------------
(* Small instances of XcbReply for TLC.                                    *)
EXTENDS XcbRefines

Shape(isvoid, flags) ==
    [isvoid |-> isvoid, flags |-> flags, workaround |-> "NONE", source |-> "xcb"]

Void == Shape(TRUE, {})
VoidChecked == Shape(TRUE, {"CHECKED"})
QueryUnchecked == Shape(FALSE, {})
GetFBConfigs ==
    [isvoid |-> FALSE, flags |-> {}, workaround |-> "GLX_GET_FB_CONFIGS_BUG",
     source |-> "xcb"]

\* Requests with an answer the application may ask for.
AnswerShapes == {VoidChecked, GetFBConfigs}
\* Requests that matter for the sequence numbers alone.
SeqShapes == {Void, QueryUnchecked}
VoidShapes == {Void}
QueryShapes == {QueryUnchecked}

NoFlags == {}
CheckedOwner == {{"CHECKED"}}
AnyOwner == {{}, {"CHECKED"}}

NoBatches == {}
SomeBatches == {<<FALSE, TRUE>>}
LongBatches == {<<FALSE>>, <<TRUE, TRUE>>}

AllEvents == {"event", "keymap"}
PlainEvents == {"event"}
NoEvents == {}

NoFaults == {}
MapFaults == {"nomap"}
AllFaults == {"nomem", "nomap", "io", "refuse"}
=============================================================================
