--------------------------- MODULE MCToolHarness ---------------------------
(***************************************************************************)
(* A small instance of ToolHarness for TLC.                                *)
(***************************************************************************)
EXTENDS ToolHarness, TLC

Call(id, tool) == [id |-> id, tool |-> tool, args |-> "args"]

MCCalls == {Call("k1", "read_doc"), Call("k1", "charge_card"), Call("k2", "charge_card"), Call("k2", "web_search")}

\* Two runs ask for one call, and a turn of the first disagrees about what k1 is.
MCRequests == {<<"r1", Call("k1", "read_doc")>>, <<"r2", Call("k1", "read_doc")>>}
MCTurns == {<<"r1", <<Call("k1", "charge_card"), Call("k2", "charge_card")>> >>,
            <<"r1", <<Call("k2", "web_search")>> >>}

\* Callers are interchangeable, and so are bodies.
Symmetry == Permutations(Callers) \cup Permutations(Impls)
============================================================================
