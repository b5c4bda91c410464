# phoenix-teardown: verification

TLA+ models of the code of phoenix-teardown, model-checked with TLC, and theorems about
them checked by TLAPS.

The repository is mostly a specification (`spec/*.md`, `synthesis/`, `projects/`) of an agent
platform, "Phoenix". The executable part is small and made of *reference implementations and
spikes*: programs that settle one claim of the specification each, with a test and a negative
control. They are what is modelled here. Every definition is translated from one of those
programs, never from the prose; where prose and program disagree, a run shows it
(see [Disagreements](#disagreements)).

## 1. Inventory

### 1.1 What the system is

A *run* of an agent appends *events* to a log and performs *effects* (tool calls with side
effects) through workers that may stall, die and come back. Four mechanisms keep it honest:

| mechanism | state | who writes it | where |
|---|---|---|---|
| event log with rewind epochs | `runs.current_epoch`, `run_events` | writers appending, a rewinder | `spec/epoch_algorithm_test.py`, `spikes/03-postgres` |
| effect ledger | `effect_ledger`, `approvals` | workers, human approvers, a sweeper | `spec/effect_lifecycle_test.py`, `spikes/03-postgres`, `spikes/06-tool-interception/harness.py` |
| run lease with fence tokens | `run_leases`, `run_lease_history` | workers, a reclaimer | `spec/effect_lifecycle_test.py`, `spikes/03-postgres` |
| definition pin and resume lease | `definitions`, `runs`, `resume_leases` | workers starting and resuming | `spikes/02-definition-pin` |

They interact through shared tables only: a claim reads the run lease and the approvals in the
statement that writes the ledger; an append reads the epoch the rewind writes; a resume reads
the pin and takes a lease. There are no in-process callbacks between them except in
`spikes/06`, where a harness wraps every tool of an agent so that its body runs only under a
claim.

Around them stand the programs that keep the repository itself honest: the pin on the SDK that
the gates of `spikes/06` were written against and the mutation run that tests those gates, the
gate over the specification (`tools/validate_spec.py`), and the tools of the research
(`tools/*.py`). They interact through files, a shared Postgres and their exit codes, and people
edit the same files while they run.

### 1.2 Components

**Effect ledger, SQLite reference** (`spec/effect_lifecycle_test.py`, class `Ledger`).
*State*: `effect_ledger`, `run_leases`, `approvals`, the list `SIDE_EFFECTS` of what really
happened. *Operations*: `take_run_lease`, `expire_run_lease`, `intend`, `require_approval`,
`decide`, `claim`, `dispatch_and_settle`, `sweep`. *Hard*: eight threads racing for one effect;
workers that lost the run and do not know; a death between claim, side effect and settlement; a
sweeper that overtakes a slow worker; decisions that come late or twice; a two-statement method
whose second statement fails. *Correct if*: a side effect happens at most once; the ledger
never under- or over-reports it; a verdict is never overwritten; a gated effect ran on an
approval; only the newest lease claims; a claim always reaches a verdict.

**Rewind and epoch model, SQLite reference** (`spec/epoch_algorithm_test.py`). *State*:
`run_events`, `runs.current_epoch`. *Operations*: `append`, `rewind`, `raw_append_at_epoch` (a
misbehaving writer), `live` (the fold's live set). *Hard*: long chains of rewinds and
continuations, rewinds of old epochs, numbers with gaps. *Correct if*: sequence order and
(epoch, sequence) order agree, epochs are dense, and `live` computes the branch that carrying
the rewinds out one by one would have left.

**Postgres event log** (`spikes/03-postgres/schema.sql`: `runs`, `run_events`,
`check_event_epoch`; scenarios 1 and 2 of `test_postgres.py`). *State*: the tables, the lock of
the `runs` row, one transaction per connection. *Operations*: `APPEND`, the two-statement
rewind, raw inserts, commit, rollback, statement timeout. *Hard*: an INSERT computes its row
before the trigger blocks, and is checked after other transactions have committed; which error
code a loser gets decides whether it may retry. *Correct if*: the committed tables go through
the states of the sequential reference, nothing that passed the trigger is invalid at commit,
nobody loses to nobody, no statement hangs.

**Postgres leases, claims and settlement** (same files, scenarios 3 to 9). *State*:
`run_leases`, `run_lease_history`, `effect_ledger`, `approvals`, `principals`. *Operations*:
acquire (history bump and insert in one transaction), renew, reclaim, the fenced state write,
claim, denial, sweep, settle. *Hard*: the `EXISTS` predicates of a claim or a fenced write are
evaluated in a snapshot and the transaction commits later; worker names are shared by
processes. *Correct if*: fence tokens grow, an effect is claimed once, a denial and a claim
exclude each other.

**Definition pin and resume** (`spikes/02-definition-pin/runtime.py`, `pin.py`). *State*:
`definitions`, `runs` with the pin, `resume_leases`. *Operations*: `put_definition`, `save_run`,
`start`, `resume` with its five checks in order. *Hard*: a definition or adapter that changes
between the checkpoint and the resume, a corrupted registry, two workers resuming at once, a
worker that dies holding the resume lease, a second `start` of a run (`save_run` keeps the old
pin and replaces the state). *Correct if*: an adapter only ever runs the pinned artifact,
and one worker at a time.

**Canonical JSON and digests** (`spikes/02-definition-pin/pin.py`, `canon_ref.mjs`,
`gen_vectors.py`, `verify_vectors.py`). Pure functions. *Correct if*: equal definitions have
equal digests whatever the key order, distinct ones distinct canonical forms.

**Tool interception harness** (`spikes/06-tool-interception/harness.py`). *State*: an in-memory
`EffectLedger`, cached run leases, the registry of wrapped tools. *Operations*: `append`,
`await_approval`, `deny`, `abandon`, `claim`, `settle`, `register`, `run`/`resume`/`stream`,
`dispatch`, `resolve`. *Hard*: several calls of one turn in flight, a minted lease that is
cached and never renewed, failures between claim and settle, an interrupted dispatch.
*Correct if*: a body runs only under a claim and at most once per key, and what it did is
settled.

**AG2 channel storage** (`spikes/01-ag2-storage/sqlstore.py`, `test_race.py`,
`test_ownership.py`). *State*: a byte-stream store over a table, an effect ledger of claimed
keys. *Operations*: `read`, `read_range`, `exists`, `list`, `write`, `append`, `delete`;
`EffectLedger.claim`, `DedupingHub.post_with_claim`. *Hard*: concurrent appends, whose offset is
computed before their commit; a commit or a second statement that raises and leaves its
transaction open; a claim and a post in two databases; a death between them.
*Correct if*: appends neither overlap nor lose bytes, nobody finds half of one (not kept when the
second statement raises), a reply is posted once, `list` leaves nothing out.

**Interception pin and mutation checkers** (`spikes/06-tool-interception/verify_pin.py`,
`conftest.py`, `mutate.py`). *State*: the SDK's files, `pinned_digests.json`, the live spike, the
copies a mutation run makes. *Operations*: `check`, `record`, a session of the gates;
`mutate.py`'s baseline, mutations and verdict. *Hard*: pip replaces files while they are
digested; a record is made of separate reads; a session that dies before its first gate looks
like one that found something; a kill while a mutation is on disk. *Correct if*: gates run on the
recorded bytes only, a fresh record holds, a mutation counts as caught only when a gate caught
it, and nobody else ever sees a mutated harness.

**Research tools** (`tools/new_project.py`, `seed_adrs.py`, `apply_recon.py`,
`validate_facts.py`, `build_matrix.py`, `check_exit_criteria.py`, `probes.py`). *State*:
`projects/<slug>/facts.yaml` and its documents, `open-questions.md`, the ADRs, the capability
matrix. *Operations*: one per tool and file. *Hard*: the author edits the same files; a tool is
killed half way and run again; a YAML file is edited by text patterns; a check reads, caches and
writes at different moments. *Correct if*: human work survives but for
what a tool is there to set, files stay readable, recon may be applied again (both with exceptions
the code makes, section 3.9), a green `make check` is true.

**Spec gate** (`tools/validate_spec.py`). *State*: the documents, `contracts/adapter.proto`, a
Postgres shared with other runs. *Operations*: twelve checks in a fixed order and the exit code.
*Hard*: a tool that is not installed, a server that goes away, two runs at once that write one
file and create the same roles. *Correct if*: "valid" means that every check ran and holds, what
is reported is there, and no two runs wait for each other.

**Not modelled** (the reasons are in [section 6](#6-not-modelled)): the identity and enrollment
schema (`spec/migrations`), the work bundle mapping (`spikes/04`), the sandbox sidecar
(`spikes/05`), the LLM client (`tools/llm.py`), and everything that is prose, data or an API
description.

### 1.3 Where it is hard to test

`PROJECT.json` lists every hazard with its line and the properties aimed at it. The recurring
shapes are: a predicate evaluated in a snapshot and acted on after other commits (`schema.sql`,
`test_postgres.py`); a process that continues under an identity it has lost
(`effect_lifecycle_test.py`, `harness.py`); a death or a lost answer between two transactions
that only the outside world separates; a decision that arrives after the fact; a lease nobody
can give back (`runtime.py`, `harness.py`); a check that reads file after file while they change
(`verify_pin.py`, `validate_facts.py`); a tool that stops between two files, or is run twice
(`apply_recon.py`, `mutate.py`); a failed call whose transaction nobody rolls back
(`sqlstore.py`, `effect_lifecycle_test.py`); a look at a file and a write that follows it
(`new_project.py`, `seed_adrs.py`).

Hazards the code has that no property covers, because the code does nothing about them:
the acknowledgement of a commit is lost and the client appends the event a second time
(`test_postgres.py:110`); a resume lease is never given back, so the run of a worker that died
with it stays refused (`runtime.py:190`); a hub that dies between claim and post has claimed a
reply that nobody will post (`test_ownership.py:56`); a harness keeps the run lease it minted
after it has expired (`harness.py:610`).

## 2. Plan

| module | models | composes / implements | state |
|---|---|---|---|
| `EffectPromise` | what the ledger promises about one effect | | done |
| `EffectLifecycle` (+ `Proofs`) | class `Ledger` and its users | implements `EffectPromise` | done, proved with its refinement |
| `LiveSet`, `EpochLog` (+ `Proofs`) | event log, sequential | | done, proved |
| `PgEventLog` (+ `Proofs`) | event log under Postgres | implements `EpochLog` | done, proved with its refinement |
| `PgRunLease` (+ `Proofs`) | acquire, renew, reclaim, fenced write, claim, denial, sweep, settle with snapshots and row locks | | done, proved |
| `DefinitionPin` | digests, `Pin.mismatch` as operators | used by `PinResume` | done |
| `PinResume` (+ `MC`) | `Store`, `Runtime.start`, `Runtime.resume` | `DefinitionPin` | done, proved in `PinProofs` |
| `ToolHarness` (+ `MC`, `Proofs`) | `EffectLedger`, `PhoenixHarness` | implements `EffectPromise` | done, proved with its refinement |
| `ChannelStore` (+ `MC`, `Proofs`) | `SqlKnowledgeStore` on SQLite, the claim before a post | | done, proved |
| `SdkPin` | `verify_pin.py`, a session of the gates, a recorder | | done, proved in `PinProofs` |
| `MutationRun` (+ `MC`) | `mutate.py` | extends `SdkPin` | done, proved in `PinProofs` |
| `ResearchWorkspace` (+ `MC`) | the research tools and their author | | done, proved in `ToolsProofs` |
| `SpecGate` (+ `MC`) | `validate_spec.py` | | done, proved in `ToolsProofs` |

Every safety property that a passing run checks is a theorem (section 5). What is left of the plan
is what the prover does not reach: the three liveness properties.

## 3. The modules

### 3.1 `EffectLifecycle`

One action per method of `Ledger`; each method is one committed SQLite transaction, so it is
atomic. Two departures are the point of the model:

- `dispatch_and_settle` is three actions, `dispatch`, `settle` and `crash`, since a worker can
  stall or die on either side of the external call. `task[w]` is what the worker remembers.
- `require_approval` runs two statements and commits after the second. When the INSERT is
  refused, the exception leaves the UPDATE in the open transaction and the next method's commit
  makes it durable, so the action's two effects are not all-or-nothing.

Wall-clock time is reduced to what the predicates ask: `expired` on a run lease and
`lease_expired` on a row, each set by an action that is enabled at any moment. A claim token is
`secrets.token_hex`: it never repeats, so `minted` counts them. `granted`, `claimed_under` and
`asked` are history variables that no action reads in a guard, except that a worker claims only
under a fence token it was once given. `claim_unfenced` is a negative control of the tests and
is not an action. The methods assume ids exist (`claim` of an unknown key matches no row);
those calls change nothing and are left out.

`EffectPromise` is the abstract specification: an effect is wanted, then refused or attempted;
an attempt may run the side effect, once; the attempt ends `done`, only if it ran, or `unknown`.
`KeepsPromise` is the refinement; a `claimed` row maps to `attempted`, and the list
`SIDE_EFFECTS[k]` to a counter.

### 3.2 `LiveSet` and `EpochLog`

`LiveSet` holds the rows and the live-set rule. `EpochLog` is class `Store` for one run, with the
table as a sequence in insertion order. `append` takes any event type; of the types only
`run.rewound` is read back differently, no caller appends one by that method, and so the model
appends `ordinary`. Methods raise `EpochViolation` before they write, so a
refusal is a disabled action. `branch` is a history variable with the *operational* meaning of a
rewind: an append adds its number, a rewind removes at once what it supersedes. `LiveIsTheBranch`
says that the declarative rule, applied to the whole log, gives the same set. `naive`, the
defective rule kept in the source as a negative control, is the mutant that violates it.

### 3.3 `PgEventLog`

READ COMMITTED, statement by statement. `append`, `insert_values`, `rewind_insert` and
`rewind_unlocked` take a snapshot and compute a row; `check_event_epoch` is the BEFORE INSERT
trigger, which needs the row of `runs` and reads what is committed when it gets it; `commit`
makes the row visible with the epoch; `statement_timeout` cancels a statement that is blocked;
`rollback` is a client that gives up or disappears. `commit` may lose its acknowledgement.
`rewind_unlocked` is the rewind's INSERT from a client that skipped the `FOR UPDATE`: the trigger
has to reject it when its guess is wrong. A transaction holds one INSERT (the scenarios commit
after each). Retrying after `23505` or `57014` is `append` again. `reply` is the SQLSTATE
given in the step that ended a transaction; it is an output, nothing reads it.

`ImplementsStore` maps the committed tables to `EpochLog` with `branch <- Live(run_events)`: a
commit is an `append`, a `rewind` or a `raw_append_at_epoch`; everything else stutters.

### 3.4 `PgRunLease`

One run and one effect, on tables that several connections change. Only the transactions in
which something can come between are split: `acquire` into the history bump, which keeps the
history row locked, and the lease insert; the fenced state write and the claim into the
statement's snapshot (`write_start`, `claim_start`), the moment it has its row (`write_row`,
`claim_row`) and the commit; the denial into its two updates. `write_row` and `claim_row` do
what READ COMMITTED does for a row that changed while the statement waited: the conditions on
that row are evaluated again, the `EXISTS` on other tables are not. Everything else is one
statement on one row and one step. `rollback` is a client that dies or a statement that times
out, at any moment before the commit. `mem[p]` is what a process believes: its worker name, and
the fence and claim tokens it was given. Expiry is a countdown; `tick` is the clock.
`ON CONFLICT DO NOTHING` makes `acquire` use a token up without granting it, which is why the
marks grow without being dense. `issued`, `claims` and `writes` are history variables.

### 3.5 `DefinitionPin` and `PinResume`

`DefinitionPin` says what the digest of a definition and of an adapter contract depends on, and
what a pin compares. A digest is represented by the canonical value that is hashed, so SHA-256
is taken to be injective. What canonicalisation forgets is modelled: the encoding of accents
(`Normal`), the order of tools; what it must not forget is there: the code behind a tool's name,
the order of extensions, the kind of the digested thing.

`PinResume` has one step per committed statement of `Store`. `start` is `put_definition`, then
`save_run`; `resume` is `load_run`, `get_definition_body` (reading the artifact, hashing it and
comparing the pin, which touch nothing shared after the read), `acquire_resume_lease`, `execute`.
A worker can `crash` between any two. `registry_fault` puts anything that could have been stored,
or nothing, under a digest, at any moment; the tests do the same with an UPDATE. The state of a
run is opaque to the runtime and is reduced to the format its adapter wrote it in. `put_definition`
serialises the extensions of a definition with `json.dumps`, which has no encoding for an
`ExtensionBinding`: a definition with extensions cannot be started (`TypeError`).
`outcome` is how the call that a step ends came out, `started` and `executions` are history
variables; nothing reads them.

### 3.6 `ToolHarness`

The agent SDK is given declarations without bodies, so all that matters of it is that it asks
for calls: `resolve` takes any turn, with any known or unknown tool, whether or not a model asked
for it. `Callers` are calls nested in each other's callbacks: the methods of `EffectLedger` have no
lock, and a method is one step, so the model says nothing of threads that preempt each other
inside one. A caller inside `resolve` or `dispatch` is a frame `call[c]` with its local variables;
`pc` says where it is: about to intend (`intend`), in the policy callback (`policy`), about to
look the body up and claim (`claim`), claimed and binding arguments (`bind`), in the body before
(`body`) and after (`acted`) it has touched the customer's system. The steps between are the
methods of `EffectLedger`, each of which its docstring equates with one UPDATE. Exceptions end the
frame (`Raises`) and with it the rest of the turn; `interrupt` is a `BaseException`, which passes
every handler.

`EffectLedger` judges a claim by the lease object it is handed, and `dispatch` hands it the
harness's own lease with that lease's own fence token: of `RunLease.authorises` only the run and
the expiry can fail, so `leases[h][r]` is `none`, `valid` or `expired`. A lease that was minted is
kept after it has expired, as in `_lease_for`. `KeepsPromise` refines the same `EffectPromise` as
`EffectLifecycle`; there is no dispatch record, so an effect counts as attempted from the entry of
its body, and a claim that fails to bind its arguments is a refusal.

### 3.7 `ChannelStore`

SQLite has one write lock, `writer`, taken by the first statement of a transaction that writes;
until its commit everybody else reads `blobs`, and only the writer sees `pending` (`read`).
`append` is three steps: the INSERT that makes an empty row where there is none, the UPDATE that
appends and returns the offset, and the commit that hands it out. `write` and `delete` are one
statement and its commit (`Replace`).

No method rolls back. A commit that raises (the rollback journal's commit waits for readers, and
gives up) leaves the transaction open, and so does an UPDATE that raises, or the `content.encode()`
of its parameters (`StaysOpen`, `append_update_fails`). `left` is the set of paths such calls have
written: the next method of the same process that commits takes them along, its death drops them,
and until then nobody else can write. `AppendsExtend` says what an append commits beside them,
`PostedOnce` holds although the text of a post that raised may be committed later (`posting` counts
it from the UPDATE on, `posted` from the commit). `NoHalfAppend` holds but for paths whose append
raised after its INSERT (`halves`), which may end as empty rows. Other processes
are given what is committed while a transaction is left open; after a commit that raised, SQLite
lets no new reader in, so they would wait or raise instead, and read no more than that.

A process that waits for the lock may be told "database is locked" (`busy`) or die (`crash`),
which rolls its transaction back. `post_with_claim` is the claim, a transaction of its own in the
other database, followed by an append in the name of the claimed key. What `LIKE` takes for a
directory's prefix because of an underscore is a constant, `LikeAlso`.

### 3.8 `SdkPin` and `MutationRun`

`SdkPin` reads files one at a time: `check_digest` and `check_imports` for a session,
`record_digest` and `record_imports` for `verify_pin.py --record`, while `install` (pip),
`edit_pin` and `edit_source` change what they read. Which files an import statement reaches
(`module_to_relpath`, `ancestor_inits`, relative imports by level) is written out as operators;
the property compares the result with an independent definition of what Python runs on an import
(`RunsOnImport`). The assumptions say what an SDK is: a package's code is in its `__init__`, no
module is a package too, and only a relative import goes without a module. Digests are contents. `touched` and `fresh` are history variables: what has
changed since the session began, and whether the pin and the SDK are as the last record, during
which nothing was installed, found them. `record_writes` replaces the pin in one step: `write_text`
is not atomic, but half a pin is no JSON, `check` raises on it, and the session ends there.

`MutationRun` extends it by `mutate.py`: a baseline in a copy, one copy per mutation, the verdict.
A run of the gates in a copy is one step and has three outcomes that matter: `_run` looks for
"N failed, M passed" in the last line, which is there only when some gates fail and some pass, so
a session that stops at the pin ("error") and one in which all fail both count as no failure.
What others changed while it ran is in `edited`: the harness, the tests, the spike's imports, and
the files that these imports reach (`imports`), which an installation changes without a word being
edited.

### 3.9 `ResearchWorkspace`

A `facts.yaml` is reduced to what the tools' text patterns depend on: the name, which is written
unquoted (`breaks` stands for one with ": " in it); what stands in the line before `probes:`; how
many of the optional fields that recon sets have no line, and how many have been appended `behind`
that line; whether the rest of a replaced entry is left `hanging`; the form of each probe's entry.
Whether YAML takes it (`Garbled`) follows.

`set_project_field` is modelled for all fields in turn: one that has a line is replaced there to its
end, one that has none goes where the line break before `probes:` was. After a blank line that is a
line of its own, and what the further fields append to it is wiped and appended again, the same
text, each time recon runs; behind the line of a field that recon does not set, or a comment, the
pattern `^(  field:)` never finds them, and each run appends them once more (`MaxBehind` bounds it).

At first there are the stubs of the projects that were scaffolded before (`Begun`), as in the
repository, and nothing else. Each tool is one action per file it writes, and each can be
interrupted between two. The look
(`path.exists()`) and the write of `new_project.py` and `seed_adrs.py` are two steps
(`scaffold_looks`, `scaffold_file`; `seed_looks`, `seed_adr`), and so are the read and the write of
`apply_recon`, with the author in between. `make check` is `validate` per project in the order of
their slugs, the cached look at `open-questions.md`, `build`, `write_matrix` and the status report,
each reading again. `by` says who wrote an entry, `relaid` which files the author has laid out
otherwise than the stub, `overtaken` that he made a file which a tool has looked for and is about
to write.

`HumanWorkSurvives` says what is kept and names what is not: recon's own fields (repo, docs,
license, license_verdict, evidence_class, depth, one_line, read_on) and its probes in entries of
three lines, whoever wrote them; what the author changed since recon read the file; a file he made
since the look. `ReconKeeps` therefore speaks of the fields recon does not set, of the other
entries and of longer notes. `ReconIdempotent` says exactly in which layouts recon may be run
again, and `ToolsKeepFilesReadable` excepts the files that were given another layout and names
that would have to be quoted.

### 3.10 `SpecGate`

A run goes through `groups` in the order of `main`. What a text check looks for in a document is
abstracted to a defect of its group; what is kept is which checks need a tool that may be missing,
what they report then, and how `_downgrade` treats messages. `check_proto_compiles` (extract,
write, compile) and the Postgres gate (probe, connect, create the roles one by one, apply, roll
back, scenarios) are steps, since they leave traces that other runs meet: a file, row locks on
roles that are not committed, the scenarios' tables. `write_proto` is one step: `write_text` empties
the file before it writes, and that another run's `protoc` reads it just then is left out, so
`FoundIsReal` does not speak of that. A server that does not answer and a `psycopg` that is not
installed give the same message and are one case, as the code's are; a document 07 that is missing
or has no block, on which the check returns before it writes, is not among the `Protos`.

## 4. Runs

Bounds are constants named in each module. Deadlock is not checked in these runs: bounded
histories end, and a ledger whose effects all have a verdict has nothing left to do. Everyone
waiting on everyone is a property where it can happen: `StatementsEnd`, `NobodyWaitsForEver`,
`DryRunsDoNotDeadlock`.

| run | shows | bounds and why they suffice |
|---|---|---|
| `effect_lifecycle` | at most one side effect, a truthful ledger, gated effects ran on their own run's approval, the newest lease claims, refinement of `EffectPromise`, every claim reaches a verdict | two runs, two workers, two approvals, one effect, two fence tokens a run: a worker loses its lease to the other, requests name the wrong run, one approval is granted and one denied; effects share nothing but leases, so one effect is enough for the race |
| `epoch_log` | one order, dense epochs, the live-set rule | five rows: append, rewind, continuation, a second rewind of the first or second epoch, continuation, the doc's own example |
| `pg_store` | what was checked stays valid until commit; losers lost to somebody; refinement of `EpochLog`; statements end | two clients: one holding the row, one queued behind it with an older snapshot; either may never finish; three committed events |
| `pg_never_refused` | disagreement, below | two clients |
| `run_lease` | tokens grow, one claim and one state write, no claim over a denial, final verdicts, every queued statement gets its row or ends | three processes under two names: two are namesakes, the third takes the run over; a token granted and one used up or granted again; leases of one period, so expired or not |
| `lease_fenced_write` | disagreement, below | two processes |
| `pin_resume` | only the first start's definition executes, under its adapter, once | two workers, one run; a definition, its twin in version and encoding, one with other code under a tool's name, one with an extension; an adapter before and after it changes its format |
| `tool_harness` | the executed body is the row's, once; parked effects wait; claims are settled; refinement of `EffectPromise` | two callers, one inside a turn of two calls while the other dispatches or resolves; one id that two runs and two tools claim; two bodies under one name; a native tool nobody may register; a harness with a lease of its own for either run, or none |
| `channel_store` | appends extend, no half append, posted once, complete listings | three processes: one writes, one waits, one dies, or has a transaction left over that the others wait for; two logs whose names `LIKE` confuses; texts of one and two bytes and logs of three, so two appends overlap if they can; one message that two workers answer differently |
| `mutation_run` | gates run on pinned bytes, a fresh pin holds, nobody sees a mutated harness, verdicts are true | an SDK of four files (a pinned package and module, an unpinned package between them, a module that comes and goes), two changes by others, two mutations of which one test file misses one, a harness on which some and one on which all gates fail |
| `research` | a green check is true, what of the author's work survives, when recon is idempotent, which files stay readable | two projects, one that recon located and one that it did not, which was scaffolded before; two probes recon answers and one it does not, an ADR; names that may stand unquoted, and one that may not; two edits by the author, who works on the first project: a layout or an answer, and one more after recon, between a look and a write, or to repair the file; the tools that write run one at a time, in any order, and can be killed; recon runs until it has appended behind a line twice; projects are scaffolded with the default depth; the first green check is the last; ADRs, which no check reads, rest while one runs |
| `spec_gate` | valid is true, what is found is real, dry runs do not deadlock | two runs, two roles, one edit or outage; documents begin without defects, which come by edits: of a text check, of the DDL, and of the superseded claims, which are quoted |

### Fairness

`effect_lifecycle` assumes weak fairness of the clock (`effect_lease_expires`) and of `sweep`, a
periodic job; nothing of workers or approvers. `pg_store` assumes weak fairness of
"the server either runs a statement that can run or its timer cancels it": `statement_timeout`
measures wall-clock time, so one of the two is always pending; clients may leave a transaction
open for ever. `run_lease` assumes weak fairness of the end of a transaction that waits for
nothing (its client commits, or its connection goes and the server rolls it back) and strong
fairness of getting a row that becomes free again and again (Postgres queues waiters). No
process is obliged to begin anything. The other runs check safety and assume none.

## 5. What is proved

TLAPS proves, for every value of the constants:

- `EffectLifecycleProofs`: `TypeOK`, `AtMostOnce`, `HappenedIsRecorded`, `SucceededIsTrue`. The
  inductive invariant ties each worker's memory to the row it works on: a task's token was
  minted, two tasks never carry the same token, a task whose token is still in the row belongs
  to the row's owner, a side effect that has run was run by a task or by a claim now closed. None
  of the three properties is inductive alone: that a second dispatch is impossible depends on no
  other worker remembering a live token. The lemmas treat one action each and share
  `StatusChange` (a row moves between unclaimed statuses) and `QuietKeepsIInv` (steps that touch
  no row, task or side effect).

  A second invariant, `GInv`, carries `GatedIsApproved`: leases are numbered as they were granted,
  a row has the run it was intended for, and a gated effect cannot get back to a status that needs
  no approval. `NewestLeaseClaims` follows from the first of these: a claim compares its token
  with the row of the lease, and that row has the last one. `KeepsPromise` is proved step by step:
  a denial is `Refuse`, a claim `Attempt`, the side effect `Happen`, a settlement `Conclude`, a
  sweep `WriteOff`; intents, leases, approvals, crashes and late settlements are stutters. That a
  side effect or a settlement is a step of the promise needs the invariant of `AtMostOnce`.
- `EpochLogProofs`: `TypeOK`, `SeqOrderIsEpochOrder`, `EpochsAreDense`, `LiveIsTheBranch`. The
  invariant adds that epochs in the log are at most `current_epoch` and that a rewind supersedes
  only epochs before its own. That is why continuations are safe: a row of the current epoch is
  above every cut so far (`ContinuationIsLive`); and since numbers are unique, a cut removes
  from the branch what it names (`CutIsCarriedOut`).

  `EpochLog` itself has no assumption: `PgEventLogProofs` instantiates these theorems, and one
  that rests on an assumption could not be cited there. That `MaxEvents` and `MaxSeq` are numbers
  is assumed in `PgEventLog`.

- `PinProofs`, of `PinResume`: `ResumeTypeOK`, `PinnedExecution`, `ResumedOnce`. The invariant says what
  a call may rely on between its statements: a saved run keeps the pin of its first start
  (`PinsAreKept`), so the pin a resume has loaded is still the run's; past the checks the body in
  hand has the pinned digest although the registry may have changed since (`Honest`); past the
  lease, nothing has executed yet. `PinTellsApart` turns equal pins into equal behaviour.

- `PinProofs`, of `SdkPin` and `MutationRun`: `TypeOK`, `GatesRunOnPinnedBytes`, `FreshPinHolds`,
  `OthersSeeOnlyWrittenCode`, `VerdictIsTrue`. Two things come together. One is about the scan:
  `ImportsRun` says that the files which `module_to_relpath` and `ancestor_inits` reach from a
  module are those that Python runs on its import, for every SDK that the assumptions allow. The
  other is about time: a session reads the pin, then one file after the other, while pip, a recorder
  and editors change them, so its invariant (`SessionSees`) says of each file it has behind it that
  it is as the pin says *unless it was touched since*, and of the problems it has not met that there
  are none. `RecorderSees` says the same of a record, and `FreshHolds` what a record leaves when
  nothing was installed meanwhile. For `mutate.py`, `RunStands` says that what it remembers of the
  tree is still so as long as nothing is in `edited` (`CopyIsTrue`), and that each mutation it has
  behind it was caught or is in `survivable` (`ResultsAreTrue`). `PinsBesideMutations` carries the
  invariant of the pin over to the steps of `mutate.py`.

  The proof of `VerdictIsTrue` found that the property was true of the small instance only: an
  installation while mutations run can make a file of the SDK appear, the spike's imports reach it,
  and the gate that asks whether they are pinned fails of itself, so a mutation that no gate catches
  counts as caught. That is why `edited` has `imports`, and why the run has an SDK in which a module
  comes and goes.

- `ToolHarnessProofs`: `TypeOK`, `BodyMatchesRow`, `ParkedNeedsApproval`, `ClaimsAreAttended`, and
  `KeepsPromise`, the refinement of `EffectPromise`. The invariant says what a caller may rely on
  between two steps of `dispatch`, while any policy, body or other caller does anything: past the
  identity check the row is the call's (`RowsDescribe`); past its claim the caller has the row
  under its token, with the body the tool still names (`ClaimersOwn`), and nobody else has it
  (`ClaimersAreAlone`). `BodyMatchesRow` alone is not inductive: a body is entered long after the
  check it rests on. The steps are grouped by what they do to the invariant: those that stay on
  this side of a claim (`BeforeAClaim`), a claim, an entry, an act, a settlement, an interruption.
  For the refinement, `Attempts` counts what a body has done by where its caller is, and every
  step is mapped: a denial, an abandonment and arguments that do not bind to `Refuse`, the entry
  of a body to `Attempt`, its act to `Happen`, its return to `Conclude`, an exception to
  `WriteOff`; the rest stutters.

- `ChannelStoreProofs`: `TypeOK`, `NoHalfAppend`, `PostedOnce`, `AppendsExtend`, `ListIsComplete`.
  The invariant says what the holder of the write lock may rely on between the statements of an
  append: what it has pending is what is committed, but for its own path and those of calls that
  raised, and the offset it has computed is where the content it found ends
  (`PendingIsTheAppends`); whoever else would write finds the lock taken (`OnlyTheCommitWrites`).
  `RowsHaveText` ties an empty row, committed or pending, to an append between its statements or to
  one that raised there. A key that is being posted was claimed, is in nobody else's hands, and has
  not been written, not even in a transaction that is left open (`PostsAreClaimed`): `PostedOnce`
  alone says nothing of a post that is under way, or of one that raised.

- `PgRunLeaseProofs`: `TypeOK`, `OneClaimOneWrite`, `FenceTokensGrow`, `ClaimCommitsApproved`,
  `VerdictsAreFinal`. What a transaction may rely on is what it holds a lock on. `LocksAreHeld` ties
  each row lock to the one transaction that is past it, `SnapshotsStand` says which of the conditions
  read in a snapshot still hold: an approval that a claim saw stands as long as the effect waits for
  it, since a denial commits the approval together with the effect's row.
  `TokensAreFresh` puts the token of an acquisition in progress above all issued, since the history
  row stays locked until it ends; `WritesAreSwaps` and `ClaimsAreFirst` count at most one commit
  because it changes what the next would compare.

- `PgEventLogProofs`: `TypeOK`, `WrittenStaysValid`, `LosersLostToSomebody`, `ImplementsStore`, and
  the order and density of `EpochLog` for the concurrent tables. The invariant says that a
  transaction past the trigger has the row of `runs`, alone, and that its row was accepted under the
  epoch and the maximum that are still committed. So a commit is one step of `Store`, enabled there,
  although its number was computed in an older snapshot; every other step leaves the tables alone.
  `EpochLog`'s own inductive invariant comes in through `INSTANCE` and gives the rest.

- `ToolsProofs`, of `ResearchWorkspace`: `TypeOK`, `ReconIdempotent`, `ToolsKeepFilesReadable`,
  `HumanWorkSurvives`, `GreenIsTrue`. A file whose layout the author kept is clean, and so is the text
  that `apply_recon` has in hand (`FilesAreClean`): without the second part the first is not
  inductive. `ReconTwice` compares recon's rewriting with itself done twice, for every layout, in
  both directions of the equivalence. `HumanWorkSurvives` needs that only one tool is at work
  (`ScaffoldsAlone`) and that what a tool has looked for and is about to write is absent still,
  unless it was overtaken (`AbsentIsAbsent`). For the green check,
  `RunStands` says what a run that has got so far may rely on of the projects nobody has touched
  since: those validated would pass again with the rows it has cached (`PassedStand`), also when
  those are looked up only later (`NoRowsAsked`); the columns drawn, and later written, are theirs
  (`ColumnsStand`); the cached rows are the file's unless that was touched (`RowsStand`).

- `ToolsProofs`, of `SpecGate`: `ValidIsTrue`, `FoundIsReal`, `DryRunsDoNotDeadlock`. The invariant `GateInv` says of an execution that it takes the checks in
  their order, so that the length of what it has before it tells which are behind it (`InOrder`);
  that what it has in hand in the middle of the protobuf or the Postgres check still is so, unless
  touched (`InHand`): the text it extracted, the file it wrote, the server it reached, the outcome of
  the DDL; that a check which found nothing still has nothing to find, unless touched (`IsContent`);
  and that each message is real (`Real`). The other runs are what makes this hard: one of them writes
  `adapter.proto` between this one's write and its compilation. It is harmless because both write what
  `07` says, unless that was touched, which is what `Kept` says of every step. `RolesInOrder` gives
  the third property: a transaction's roles are a prefix of the sorted ones, so a run that waits for
  another has strictly more before it than that one has.

The type invariant is a theorem of every component that has one; no run lists it again. `PinProofs`
extends `PinResume` beside `MutationRun`, and `ToolsProofs` extends `SpecGate` beside
`ResearchWorkspace`; so that their names do not meet, `PinResume` and `SpecGate` call their
specification `ResumeSpec` and `GateSpec`, and the value that is none `Nothing`.

Assumptions: `None` (or `Nothing`) is no id, and no facts file; bounds are natural numbers; for pins,
definitions satisfy the checks of their constructor, and digests are injective; for the pin of the SDK, files
are modules and statements are what `ast` gives (3.8), the verified SDK has the required files, and
the mutations are a list that is not empty; for the harness, requests and turns consist of calls;
for the store, paths and texts are not empty, and an envelope names one of the paths and has a key;
for the research tools, the slugs and the ADRs are listed, recon says of every slug what `recon.md`
may say, and the author's answers are entries of the forms a person writes; for the spec gate, the
roles are listed once each, a document's defect is of the group whose check looks for it, and what
is wrong with the protobuf blocks is in their text. Each is evaluated by the runs of its module.

Only model-checked: liveness (`ClaimsGetAVerdict`, `StatementsEnd`, `NobodyWaitsForEver`), which is
outside the prover's reach, as is `ENABLED`. The bodies of recursive definitions over data
(induction) are out of reach too; none of the theorems needs one.

## Disagreements

1. `pg_never_refused`: an ordinary append that waits behind a rewind keeps the epoch it read
   before waiting and is refused with `22023`, the code that must never be retried; the
   specification says that the statement cannot produce such a mismatch, and the test's comment
   that it lands in the new epoch.
2. `lease_fenced_write`: a state write whose lease predicate held when the statement ran commits
   after another worker has the lease, since the predicate locks nothing.

Met while modelling, without a run:

- *Effects.* A refused approval INSERT leaves the effect awaiting an approval that does not exist,
  since the first statement stays in the open transaction (`effect_lifecycle_test.py:105`;
  `spec/01-schema.md:470`). The claim statement of `spikes/03-postgres` compares the lease
  holder's name and not the fence token that the specification's statement
  (`spec/02-consistency.md:258`) has. With two approvals of one effect, one can be denied after
  the effect was claimed on the other, so I2 of `spec/effect_lifecycle_test.py:8` holds of the
  approval claimed on and not of every approval.
- *Pins.* A second start of a run by an adapter with another payload format replaces the state and
  keeps the pin, so the pinned adapter resumes from a payload in the other format and every check
  passes (`pin.py:308`, `test_gate2.py:118`). A definition with extensions cannot be started
  (3.5). A resume lease is never given back, so after a death, or a failed `adapter.start`, every
  resume of the run is told that "another worker holds the resume lease" (`runtime.py:192`).
- *Channel storage.* "Atomic append" (`sqlstore.py:71`) is not, when the second statement raises:
  the empty row of the first stays in the open transaction, and the next `write`, `append` or
  `delete` of the process commits it. A text with a lone surrogate is enough, since it is encoded
  after the INSERT (`sqlstore.py:83`).
- *Harness.* A body that raises a `BaseException` leaves its row `claimed` although the docstring
  of `dispatch` (`harness.py:643`) says `indeterminate`. A harness without a given lease stops
  claiming 60 seconds after a run's first claim, for good.
- *Pin checker and mutations.* The import scan does not see the submodule of
  `from package import submodule` (`verify_pin.py:212`). A baseline in which no gate passed
  prints no line `_run` understands and counts as clean (`mutate.py:274`). Tests that are edited
  while mutations run go unnoticed; only `harness.py` is compared at the end.
- *Research tools.* "Existing files are never overwritten" (`new_project.py:5`) and "Never
  overwrites" (`seed_adrs.py:1`) hold of files that exist at the look; one that is made between
  it and `write_text` is overwritten. `set_probe` says "Replace a probe stub"
  (`apply_recon.py:163`), and its pattern also takes a person's answer of the same three lines.
  `apply_recon` answers probes of a deep stub, which makes the teardown count as
  started although no person has (`validate_facts.py:117`). A field appended behind another one's value
  makes the file unreadable, behind a comment it becomes part of it, and either is appended again by
  each run (`apply_recon.py:155`). A missing field that is appended to the line of a field which
  recon sets later in the same run goes with the rest of that line. A display name is written
  unquoted (`new_project.py:37`): with ": " in it the file is no YAML. "No
  enterprise-only components found" is graded `first_class`, as it lacks the words "none found"
  (`apply_recon.py:211`).
- *Spec gate.* `_downgrade` (`validate_spec.py:1033`) takes a defect whose message quotes
  "UNVERIFIED" or "is not installed" for a check that could not run; with
  `SPEC_ALLOW_UNVERIFIED=1` the exit code is then 0 under "no known defects" (`:1079`).

## 6. Not modelled

- *Identity and enrollment schema* (`spec/migrations`): constraints and two triggers; no program
  of the repository writes to the tables, so which transactions meet is not in the source. What
  reading shows: the association trigger (`138_shared_realm_organizations.sql:233`) counts the
  realm's other organizations, the mode trigger (`:256`) the organizations other than its owner,
  and neither sees a change of the owner. Both work on the locked row of the realm, so they do
  not overtake each other.
- *Postgres, scenarios 8 and 9*: the fold snapshot and the ON CONFLICT of an intent, the
  principals' constraints; each is one statement that a unique or check constraint decides.
- *The bytes of canonical JSON* (`pin.py`, `canon_ref.mjs`): number and string syntax, compared
  against generated vectors there.
- *Work bundle mapping* (`spikes/04-work-bundle/map_bundle.py`): one pass of assertions over a
  bundle on its author's machine, without state that outlives a line.
- *Sandbox sidecar* (`spikes/05`): shell and manifests.
- *Of the research tools*: a probe whose entry is missing altogether (`validate_facts.py:125` goes
  through those that are there, so nobody reports it); a " #" in a display name, which cuts it
  off; files that are read half written.
- *LLM client* (`tools/llm.py`): two HTTP calls of one process.
- *What a text check of `validate_spec.py` looks for*, and the wording, layout and columns of what
  the research tools write.
