------------------------------- MODULE MCVfs --------------------------------
(***************************************************************************)
(* Small instances of Vfs.                                                 *)
(***************************************************************************)
EXTENDS Vfs, Functions

Bin == [name |-> <<"bin">>, is_dir |-> TRUE]
Sh == [name |-> <<"bin", "sh">>, is_dir |-> FALSE]
Tmp == [name |-> <<"tmp">>, is_dir |-> TRUE]
TmpSh == [name |-> <<"tmp", "sh">>, is_dir |-> FALSE]

Dot == [name |-> <<>>, is_dir |-> TRUE]

\* "find ." names the directory itself first, then up to three of the entries,
\* here in every order: directories are present, missing or late.
AllArchives == {<<Dot>> \o tree : tree \in UNION {Injection(1 .. n, {Bin, Sh, Tmp, TmpSh}) : n \in 0 .. 3}}

OneMount == <<<<"tmp">>>>
FewPaths == {<<>>, <<"bin">>, <<"bin", "sh">>, <<"tmp">>, <<"bin", "none">>, <<"tmp", ".">>, <<"tmp", "..">>, <<"sh">>}
=============================================================================
