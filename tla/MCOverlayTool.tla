--------------------------- MODULE MCOverlayTool ---------------------------
(***************************************************************************)
(* Boards and overlays as dtc writes them, and some it would not write.    *)
(***************************************************************************)
EXTENDS OverlayTool, TLC

No == <<>>
root == <<>>
Ov(order, t) == [order |-> order, t |-> t]
In(frag, rest) == <<frag, "__overlay__">> \o rest
Local(p) == <<"__local_fixups__">> \o p

\* A board where b refers to a; the same with phandles near the limit; one
\* without labels.
Board(h) == (root :> No) @@ (<<"a">> :> ("phandle" :> Cells(<<h>>)))
            @@ (<<"c">> :> ("phandle" :> Cells(<<1>>)))
            @@ (<<"b">> :> ("ref" :> Cells(<<h>>)))
Labels == symbols :> ("A" :> PathVal(<<"a">>))
MCBases == {Board(2) @@ Labels, Board(W - 3) @@ Labels, Board(3)}

\* A new node below A that refers to A and to itself, one below the root that
\* refers to the first, and a label for the first.
adds == Ov(<<"f0", "f1">>,
    (root :> No)
    @@ (<<"f0">> :> ("target" :> Cells(<<0>>))) @@ (In("f0", No) :> ("status" :> Cells(<<7>>)))
    @@ (In("f0", <<"n">>) :> (("phandle" :> Cells(<<1>>)) @@ ("ref" :> Cells(<<0, 1>>))))
    @@ (<<"f1">> :> ("target-path" :> PathVal(root))) @@ (In("f1", No) :> No)
    @@ (In("f1", <<"m">>) :> ("ref" :> Cells(<<1>>)))
    @@ (symbols :> ("N" :> PathVal(In("f0", <<"n">>))))
    @@ (<<"__fixups__">> :> ("A" :> PlacesVal(<<Place(<<"f0">>, "target", 0),
                                               Place(In("f0", <<"n">>), "ref", 0)>>)))
    @@ (Local(No) :> No) @@ (Local(<<"f0">>) :> No) @@ (Local(<<"f1">>) :> No)
    @@ (Local(In("f0", No)) :> No) @@ (Local(In("f1", No)) :> No)
    @@ (Local(In("f0", <<"n">>)) :> ("ref" :> Cells(<<1>>)))
    @@ (Local(In("f1", <<"m">>)) :> ("ref" :> Cells(<<0>>))))

\* Refers to the label of the first, and has phandles of both kinds.
stacked == Ov(<<"f0">>,
    (root :> No)
    @@ (<<"f0">> :> ("target" :> Cells(<<0>>)))
    @@ (In("f0", No) :> ("ref" :> Cells(<<9, 0>>)))
    @@ (In("f0", <<"x">>) :> ("linux,phandle" :> Cells(<<3>>)))
    @@ (symbols :> (("X" :> PathVal(In("f0", <<"x">>))) @@ ("F" :> PathVal(<<"f0">>))))
    @@ (<<"__fixups__">> :> ("N" :> PlacesVal(<<Place(<<"f0">>, "target", 0),
                                               Place(In("f0", No), "ref", 1)>>))))

\* Gives A another phandle.
rephandles == Ov(<<"f0">>,
    (root :> No)
    @@ (<<"f0">> :> ("target" :> Cells(<<0>>)))
    @@ (In("f0", No) :> ("phandle" :> Cells(<<1>>)))
    @@ (<<"__fixups__">> :> ("A" :> PlacesVal(<<Place(<<"f0">>, "target", 0)>>))))

\* A fragment without a target, beside one that is not to be merged.
aimless == Ov(<<"f0", "f1">>,
    (root :> No) @@ (<<"f0">> :> No) @@ (<<"f1">> :> No) @@ (In("f1", No) :> No))

\* A local fixup of a property that is not there.
dangling == Ov(<<"f0">>,
    (root :> No) @@ (<<"f0">> :> ("target-path" :> PathVal(<<"b">>))) @@ (In("f0", No) :> No)
    @@ (Local(No) :> No) @@ (Local(<<"f0">>) :> No)
    @@ (Local(In("f0", No)) :> ("ref" :> Cells(<<0>>))))

\* A fixup beyond the end of the property it is for.
beyond == Ov(<<"f0">>,
    (root :> No) @@ (<<"f0">> :> ("target" :> Cells(<<0>>)))
    @@ (In("f0", No) :> ("ref" :> Cells(<<0>>)))
    @@ (<<"__fixups__">> :> ("A" :> PlacesVal(<<Place(<<"f0">>, "target", 0),
                                               Place(In("f0", No), "ref", 1)>>))))

\* Two fragments for one node, which both set the same properties.
twice == Ov(<<"f0", "f1">>,
    (root :> No)
    @@ (<<"f0">> :> ("target" :> Cells(<<0>>)))
    @@ (In("f0", No) :> (("status" :> Cells(<<7, 7>>)) @@ ("ref" :> Cells(<<0>>))))
    @@ (<<"f1">> :> ("target" :> Cells(<<0>>)))
    @@ (In("f1", No) :> (("status" :> Cells(<<8>>)) @@ ("ref" :> Cells(<<5, 1, 6, 6, 6, 1>>))))
    @@ (In("f1", <<"n">>) :> (("phandle" :> Cells(<<1>>)) @@ ("from" :> PathVal(<<"n">>))))
    @@ (symbols :> ("A" :> PathVal(In("f1", <<"n">>))))
    @@ (<<"__fixups__">> :> ("A" :> PlacesVal(<<Place(<<"f0">>, "target", 0), Place(<<"f1">>, "target", 0),
                                               Place(In("f0", No), "ref", 0)>>)))
    @@ (Local(No) :> No) @@ (Local(<<"f1">>) :> No)
    @@ (Local(In("f1", No)) :> ("ref" :> Cells(<<1, 5>>))))

Overlays == {adds, stacked, rephandles, aimless, dangling, beyond, twice}
MCLists == {<<o>> : o \in Overlays} \cup (Overlays \X Overlays)
           \cup {<<adds, stacked, o>> : o \in {adds, stacked, rephandles, twice}}
=============================================================================
