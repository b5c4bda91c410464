---------------------------- MODULE MCPinResume ----------------------------
(***************************************************************************)
(* Small instances of PinResume for TLC.                                   *)
(***************************************************************************)
EXTENDS PinResume, TLC

Text(word, form) == [word |-> word, form |-> form]
Base == [instructions |-> Text("review", "composed"), extensions |-> <<>>,
         tools |-> <<[name |-> "bash", artifact |-> "art1"]>>, version |-> 1]

\* The definition, the same with another version and encoding, with other code under
\* the name of a tool, and with an extension.
MCDefinitions ==
  {Base,
   [Base EXCEPT !.instructions.form = "decomposed", !.version = 2],
   [Base EXCEPT !.tools[1].artifact = "art2"],
   [Base EXCEPT !.extensions = <<[name |-> "trace", artifact |-> "ext1"]>>]}

\* An adapter, and the same after it has changed the format of its checkpoints.
MCAdapters ==
  {[contract |-> [identity |-> "acp", protocol_version |-> "1.0"],
    payload_schema_digest |-> p] : p \in {"pay1", "pay2"}}

Symmetry == Permutations(Workers)
============================================================================
