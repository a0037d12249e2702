-------------------------------- MODULE MCDtc --------------------------------
(* Small sources for Dtc: a tree with references of both kinds, followed by  *)
(* up to three statements that extend, delete and omit parts of it.         *)
EXTENDS Dtc

x == N_clock_cells
r == N_clocks
a == <<97>>
b == <<98>>
L == <<76>>
M == <<77>>
Num(v) == data_append_cell(empty_data, v)
Ref(d, l) == data_append_cell(data_add_marker(d, "REF_PHANDLE", l), W - 1)
PathRef(d, l) == data_add_marker(d, "REF_PATH", l)
P(name, d) == build_property(name, d)
Text(s1) == data_string(s1)

\* A reference before and one after the path of another node.
Mixed == data_merge(PathRef(Ref(Num(7), M), L), Ref(empty_data, L))

Base == Define(Def(<<>>, <<>>, <<P(x, Num(1)), P(r, Mixed)>>,
                   <<Def(a, <<L>>, <<P(x, Text(x))>>, <<Def(b, <<>>, <<P(x, Num(2))>>, <<>>)>>),
                     omit_node_if_unused(Def(b, <<M>>, <<P(r, Ref(empty_data, L))>>, <<>>))>>))
Bare == Define(Def(<<>>, <<>>, <<P(x, Num(1))>>,
                   <<Def(a, <<L>>, <<P(x, Num(0))>>, <<Def(b, <<M>>, <<P(r, Ref(empty_data, L))>>, <<>>)>>),
                     build_node_delete(b)>>))
Again == Define(Def(<<>>, <<>>, <<build_property_delete(x)>>,
                    <<Def(a, <<>>, <<P(r, PathRef(empty_data, M))>>, <<build_node_delete(b)>>),
                      Def(b, <<M>>, <<P(N_phandle, Num(1))>>, <<>>)>>))
ExtendL == Extend(L, Def(<<>>, <<>>, <<P(x, Ref(Num(3), M)), P(N_name, Text(a))>>,
                         <<Def(b, <<M>>, <<P(N_phandle, Num(2))>>, <<>>)>>))
Untidy == Extend(L, Def(<<>>, <<>>, <<P(x, Num(3)), P(x, Num(4))>>,
                        <<Def(<<99>>, <<>>, <<>>, <<>>), Def(<<99>>, <<>>, <<>>, <<>>)>>))
SelfRef == ExtendLabelled(M, <<SLASH>> \o a, Def(<<>>, <<>>, <<P(N_phandle, Ref(empty_data, M))>>, <<>>))
BadHandle == Extend(M, Def(<<>>, <<>>, <<P(N_linux_phandle, Num(1)), P(N_phandle, Num(1))>>, <<>>))
ByPath2 == Extend(<<SLASH>> \o a, Def(<<>>, <<>>, <<P(r, Mixed), P(N_name, Text(b))>>, <<>>))

MCStatements == {Again, ExtendL, Untidy, SelfRef, BadHandle, ByPath2,
                 DeleteNode(L), DeleteNode(<<SLASH>> \o b), OmitNode(L)}
MCFirst == {Base, Bare}
MCSources ==
    {<<f>> : f \in MCFirst} \cup {<<f, g>> : f \in MCFirst, g \in MCStatements}
    \cup {<<f, g, h>> : f \in MCFirst, g, h \in MCStatements}
    \cup {<<Base, f, g, h>> : f, g, h \in MCStatements}
    \cup {<<f, g>> : f \in {ExtendL, ByPath2}, g \in MCStatements}

Plain == [plugin |-> FALSE, symbols |-> FALSE, aliases |-> FALSE, sort |-> FALSE, force |-> FALSE,
          version |-> 17, reservenum |-> 0, minsize |-> 0, padsize |-> 0, alignsize |-> 0,
          legacy |-> FALSE, epapr |-> TRUE, rsvs |-> <<>>, levels |-> DefaultLevels]
Rsvs == <<<<5, 1>>, <<2, 3>>>>
MCOptions ==
    {[Plain EXCEPT !.rsvs = Rsvs, !.minsize = 120],
     [Plain EXCEPT !.symbols = TRUE, !.aliases = TRUE, !.sort = TRUE, !.version = 16,
                   !.legacy = TRUE, !.rsvs = Rsvs, !.reservenum = 2, !.padsize = 3, !.alignsize = 8],
     [Plain EXCEPT !.force = TRUE, !.version = 3, !.rsvs = Rsvs],
     [Plain EXCEPT !.plugin = TRUE, !.symbols = TRUE],
     [Plain EXCEPT !.version = 4],
     [Plain EXCEPT !.version = 1, !.rsvs = Rsvs],
     [Plain EXCEPT !.version = 2, !.aliases = TRUE],
     [Plain EXCEPT !.levels = disable_warning_error(@, "explicit_phandles", FALSE, TRUE)],
     [Plain EXCEPT !.force = TRUE, !.levels = enable_warning_error(@, "clocks_property", FALSE, TRUE)]}
=============================================================================
