--------------------------- MODULE MCChannelStore ---------------------------
(***************************************************************************)
(* Small instances of ChannelStore for TLC: the logs of two channels, one  *)
(* of which LIKE also finds under the other's name, and one message with   *)
(* a cause that two workers reply to.                                      *)
(***************************************************************************)
EXTENDS ChannelStore, TLC

Log(c) == <<"channels", c, "wal">>

MCPaths == {Log("c_1"), Log("cx1")}
MCLikeAlso == {<<<<"channels", "c_1">>, <<"channels", "cx1">>>>}
MCTexts == {<<"a">>}
MCEnvelopes == {[key |-> "prompt", path |-> Log("c_1"), text |-> <<"r">>],
                [key |-> "prompt", path |-> Log("c_1"), text |-> <<"s", "t">>]}

\* Processes are interchangeable.
Symmetry == Permutations(Processes)
=============================================================================
