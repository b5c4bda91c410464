--------------------------- MODULE DefinitionPin ---------------------------
(***************************************************************************)
(* The content-derived pin of spikes/02-definition-pin/pin.py: what goes   *)
(* into the digest of an agent definition and of an adapter contract, and  *)
(* which changes a pin notices.                                            *)
(*                                                                         *)
(* SHA-256 is taken to be injective on canonical bytes, so a digest is     *)
(* represented by the canonical value it is the digest of.  A definition   *)
(* is [instructions, tools, extensions, version]; a text is [word, form],  *)
(* its form being how its accents are encoded; a tool or an extension is   *)
(* [name, artifact], where artifact stands for every other field of the    *)
(* binding, all of which are digested; a contract is [identity,            *)
(* protocol_version], where protocol_version stands for its integration    *)
(* mode and capabilities too.                                              *)
(***************************************************************************)
EXTENDS Naturals, FiniteSets, Sequences, Functions

CHECKPOINT_SCHEMA_VERSION == 1

\* NFC: texts that differ in the encoding of accents only are the same text.
Normal(text) == text.word

\* AgentDefinition rejects two tools, or two extensions, of one name.
NamesDiffer(bindings) == Cardinality({b.name : b \in Range(bindings)}) = Len(bindings)
WellFormed(defn) == NamesDiffer(defn.tools) /\ NamesDiffer(defn.extensions)

\* Mutant: tools are digested by name only, as before review.
DigestOfNames(defn) ==
  [kind |-> "agent_definition", instructions |-> Normal(defn.instructions),
   tools |-> {t.name : t \in Range(defn.tools)}, extensions |-> defn.extensions]

\* Tools are sorted by name, and names differ: their order is lost.  The order of
\* extensions counts.  The version is for humans and is not digested.
Digest(defn) ==
  [kind |-> "agent_definition", instructions |-> Normal(defn.instructions),
   tools |-> Range(defn.tools), extensions |-> defn.extensions]

ContractDigest(contract) ==
  [kind |-> "adapter_contract", identity |-> contract.identity,
   protocol_version |-> contract.protocol_version]

\* The pin of a definition run by an adapter.
PinOf(defn, adapter) ==
  [definition_digest |-> Digest(defn),
   adapter_identity |-> adapter.contract.identity,
   adapter_digest |-> ContractDigest(adapter.contract),
   checkpoint_schema_version |-> CHECKPOINT_SCHEMA_VERSION,
   payload_schema_digest |-> adapter.payload_schema_digest]

Mismatch(pinned, current) == \E f \in DOMAIN pinned : pinned[f] # current[f]
============================================================================
