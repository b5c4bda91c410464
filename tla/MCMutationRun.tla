--------------------------- MODULE MCMutationRun ---------------------------
(***************************************************************************)
(* A small SDK for MutationRun and TLC: a package with a module that is    *)
(* pinned, the package's __init__ and a module beside it that come and go  *)
(* and are not.  Only the spike's own sources may import the package.      *)
(***************************************************************************)
EXTENDS MutationRun, TLC

Import(module) == [level |-> 0, module |-> module, names |-> {}]
Up(level, module, names) == [level |-> level, module |-> module, names |-> names]
Content(version, imports) == [version |-> version, imports |-> imports]

Top    == <<"__init__">>
Models == <<"models", "__init__">>
Leaf   == <<"models", "function">>
Utils  == <<"utils">>

\* from . import utils; from ..utils import x.
MCBuilds ==
  (Top :> {Content(1, {Up(1, <<>>, {"utils"})})})
    @@ (Models :> {Content(1, {}), None})
    @@ (Leaf :> {Content(1, {Up(2, <<"utils">>, {"x"}), Import(<<"json">>)}), Content(2, {}), None})
    @@ (Utils :> {Content(1, {}), None})

MCVerified == [f \in DOMAIN MCBuilds |->
  CHOOSE c \in MCBuilds[f] \ {None} : c.version = 1]

\* The package of the leaf is not pinned, as before round 4.
MCRequired == {Top, Leaf}

MCSources == {{Import(<<"pydantic_ai">>), Import(<<"json">>), Up(1, <<"harness">>, {})},
              {Import(<<"pydantic_ai", "models", "function">>)}}

MCMutations == <<"m1", "m2">>
MCHasPattern == "h1" :> {"m1", "m2"} @@ "h2" :> {"m1"}
MCCatches == "t1" :> {"m1", "m2"} @@ "t2" :> {"m1"}
MCOnGood == "t1" :> ("h1" :> "none" @@ "h2" :> "some") @@ "t2" :> ("h1" :> "none" @@ "h2" :> "all")
=============================================================================
