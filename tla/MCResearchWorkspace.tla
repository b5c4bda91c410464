------------------------ MODULE MCResearchWorkspace ------------------------
(***************************************************************************)
(* Two projects for ResearchWorkspace and TLC: one that recon located, and *)
(* one that it did not.                                                    *)
(***************************************************************************)
EXTENDS ResearchWorkspace, TLC

MCSlugOrder == <<"ag2", "lost">>
MCNames == "ag2" :> {"plain", "breaks"} @@ "lost" :> {"plain"}
MCRecon ==
  "ag2" :> [repo |-> TRUE, license |-> TRUE, depth |-> "deep", q2 |-> "other"]
    @@ "lost" :> [repo |-> FALSE, license |-> FALSE, depth |-> "recon", q2 |-> "missing"]
MCProbes == {"A1", "Q1", "Q2"}
MCAskedOf == {<<"ag2", "A1">>, <<"ag2", "Q1">>}
MCAdrs == <<"ADR-0001">>

Answer(verdict, evidence, form) == [verdict |-> verdict, evidence |-> evidence, form |-> form]
MCAnswers == {Answer("implicit", FALSE, "lines"), Answer("first_class", TRUE, "note")}

\* One row asks about A1 of the one project, the other about all of the other.
MCRows == {[names |-> {"ag2"}, ids |-> {"A1"}], [names |-> {"lost"}, ids |-> MCProbes]}
=============================================================================
