---------------------------- MODULE ChannelStore ----------------------------
(***************************************************************************)
(* The channel logs of AG2 on a store of our own                           *)
(* (spikes/01-ag2-storage/sqlstore.py), and the claim a post goes through  *)
(* first (EffectLedger in test_race.py, DedupingHub in test_ownership.py). *)
(*                                                                         *)
(* Processes have connections of their own to one SQLite file.  The first  *)
(* statement of a transaction that writes takes the only write lock and    *)
(* waits, or gives up after the busy timeout; until the commit everybody   *)
(* else reads what is committed.  Within a process a method is one step of *)
(* the event loop: none of them awaits.  None of them rolls back either:   *)
(* when a commit raises (a reader is in its way), or the second statement  *)
(* of an append does, the transaction stays open, and what it holds goes   *)
(* with the next method that commits on that connection, or with the       *)
(* process.  The claims are in a second database, and every claim there is *)
(* a transaction.                                                          *)
(*                                                                         *)
(* A path is the sequence of its segments, a content the sequence of its   *)
(* bytes.                                                                  *)
(***************************************************************************)
EXTENDS Naturals, Sequences, SequencesExt

CONSTANTS
  Processes,   \* hubs and workers, each with a connection
  Paths,       \* the paths they use
  Envelopes,   \* what may be posted: [key, path, text]
  Texts,       \* what the hub appends and writes by itself
  LikeAlso,    \* <<d, e>>: e is no prefix of d's text, but LIKE takes it for one
  None,        \* no row, nobody
  MaxBytes     \* bound: bytes in a path

ASSUME PathsArePaths == \A q \in Paths : q \in Seq(STRING) /\ q # <<>>
ASSUME EnvelopesArePosts == \A e \in Envelopes : e.path \in Paths
ASSUME TextsAreTexts ==
  \A t \in Texts \cup {e.text : e \in Envelopes} : t \in Seq(STRING) /\ t # <<>>
ASSUME NoneIsNothing ==
  None \notin Seq(STRING) /\ None \notin Processes /\ \A e \in Envelopes : e.key # None
ASSUME MaxBytesInNat == MaxBytes \in Nat

VARIABLES
  blobs,     \* blobs[q]: the committed content of path q, or None
  writer,    \* the process that has the write lock, or None
  pending,   \* what blobs will be when the writer commits
  left,      \* paths written in the open transaction by calls that raised
  proc,      \* proc[p]: the append that p is in
  claims,    \* effect_ledger: the keys that have been claimed
  posted,    \* history: posted[k]: envelopes of key k that are committed
  posting,   \* history: what posted will be when the writer commits
  halves     \* history: paths an append made, and raised before it wrote its text

vars == <<blobs, writer, pending, left, proc, claims, posted, posting, halves>>

----------------------------------------------------------------------------
Keys   == {e.key : e \in Envelopes}
Idle   == [pc |-> "idle", path |-> None, text |-> <<>>, key |-> None, offset |-> 0]
Dirs   == UNION {Prefixes(q) : q \in Paths}
Bytes(b) == IF b = None THEN <<>> ELSE b

AllTexts == Texts \cup {e.text : e \in Envelopes}
Blobs    == [Paths -> Seq(STRING) \cup {None}]
Call     == [pc : {"begin", "inserted", "updated"}, path : Paths, text : AllTexts,
             key : Keys \cup {None}, offset : Nat]

InTransaction(p) == proc[p].pc \in {"inserted", "updated"}

\* The type invariant: only the writer has anything pending, and it is in an append or has
\* a transaction left over from a call that raised.
TypeOK ==
  /\ blobs \in Blobs /\ pending \in Blobs
  /\ writer \in Processes \cup {None}
  /\ left \subseteq Paths /\ halves \subseteq Paths
  /\ proc \in [Processes -> Call \cup {Idle}]
  /\ claims \subseteq Keys
  /\ posted \in [Keys -> Nat] /\ posting \in [Keys -> Nat]
  /\ writer = None => pending = blobs /\ posting = posted /\ left = {}
  /\ \A p \in Processes : /\ InTransaction(p) => writer = p
                          /\ writer = p => InTransaction(p) \/ left # {}

Init ==
  /\ blobs = [q \in Paths |-> None]
  /\ pending = blobs
  /\ writer = None
  /\ left = {}
  /\ proc = [p \in Processes |-> Idle]
  /\ claims = {}
  /\ posted = [k \in Keys |-> 0]
  /\ posting = posted
  /\ halves = {}

----------------------------------------------------------------------------
(* Reads.  A process sees what its own connection has not committed.       *)

read(p, q) == IF writer = p THEN pending[q] ELSE blobs[q]

\* read_range, of what is in the row: blob[start:end], counted from 0.
range(b, start, end) == SubSeq(Bytes(b), start + 1, end)

exists(p, q) == read(p, q) # None

\* path LIKE d || '/%': `_' in d stands for any character.
Like(d, q) ==
  \/ IsStrictPrefix(d, q)
  \/ \E e \in Dirs : <<d, e>> \in LikeAlso /\ IsStrictPrefix(e, q)

\* Mutant: only what lies directly in d.
list_files(p, d) ==
  {<<q[Len(d) + 1], FALSE>> :
     q \in {r \in Paths : exists(p, r) /\ Like(d, r) /\ Len(r) = Len(d) + 1}}

\* The entries of directory d: a name, and whether it is a directory itself.
list(p, d) ==
  {<<q[Len(d) + 1], Len(q) > Len(d) + 1>> :
     q \in {r \in Paths : exists(p, r) /\ Like(d, r)}}

----------------------------------------------------------------------------
(* Writes. *)

\* commit: everything of the open transaction, what calls before left in it included.
Commit ==
  /\ blobs' = pending' /\ posted' = posting'
  /\ writer' = None /\ left' = {}

\* A call that wrote path q raises, and nobody rolls back.
StaysOpen(p, q) ==
  /\ writer' = p /\ left' = left \cup {q}
  /\ UNCHANGED <<blobs, posted>>

\* The write lock is free, or it is p's already.
MayLock(p) == writer \in {None, p}

\* A method of one statement: the statement, and a commit that succeeds or raises.
Replace(p, q, b) ==
  /\ proc[p].pc = "idle" /\ MayLock(p)
  /\ pending' = [pending EXCEPT ![q] = b]
  /\ UNCHANGED <<proc, claims, posting, halves>>
  /\ Commit \/ StaysOpen(p, q)

\* write: INSERT ... ON CONFLICT DO UPDATE.
write(p, q, text) == Replace(p, q, text)

delete(p, q) == Replace(p, q, None)

Calls(p, q, text, k) ==
  /\ proc[p].pc = "idle"
  /\ Len(Bytes(read(p, q))) + Len(text) <= MaxBytes
  /\ proc' = [proc EXCEPT ![p] = [pc |-> "begin", path |-> q, text |-> text,
                                  key |-> k, offset |-> 0]]
  /\ UNCHANGED <<blobs, writer, pending, left, posted, posting, halves>>

\* Somebody in p calls append.
append(p, q, text) == Calls(p, q, text, None) /\ UNCHANGED claims

\* Mutant: every statement commits by itself.
append_insert_autocommit(p) ==
  LET q == proc[p].path
  IN /\ proc[p].pc = "begin" /\ MayLock(p)
     /\ writer' = p
     /\ pending' = [pending EXCEPT ![q] = Bytes(@)]
     /\ blobs' = pending'
     /\ proc' = [proc EXCEPT ![p].pc = "inserted"]
     /\ UNCHANGED <<left, claims, posted, posting, halves>>

\* Mutant: the first statement takes no lock, and the second works on what others have
\* not committed.
append_insert_unlocked(p) ==
  LET q == proc[p].path
  IN /\ proc[p].pc = "begin"
     /\ writer' = p
     /\ pending' = [pending EXCEPT ![q] = Bytes(@)]
     /\ proc' = [proc EXCEPT ![p].pc = "inserted"]
     /\ UNCHANGED <<blobs, left, claims, posted, posting, halves>>

\* append: INSERT ... ON CONFLICT DO NOTHING.  It opens a transaction, or goes on in the
\* one that p has open.
append_insert(p) ==
  LET q == proc[p].path
  IN /\ proc[p].pc = "begin" /\ MayLock(p)
     /\ writer' = p
     /\ pending' = [pending EXCEPT ![q] = Bytes(@)]
     /\ proc' = [proc EXCEPT ![p].pc = "inserted"]
     /\ UNCHANGED <<blobs, left, claims, posted, posting, halves>>

\* append: UPDATE ... RETURNING length(content) - length(?).
append_update(p) ==
  LET q       == proc[p].path
      k       == proc[p].key
      content == pending[q] \o proc[p].text
  IN /\ proc[p].pc = "inserted"
     /\ pending' = [pending EXCEPT ![q] = content]
     /\ proc' = [proc EXCEPT ![p].pc = "updated",
                             ![p].offset = Len(content) - Len(proc[p].text)]
     /\ posting' = IF k = None THEN posting ELSE [posting EXCEPT ![k] = @ + 1]
     /\ UNCHANGED <<blobs, writer, left, claims, posted, halves>>

\* append: the second statement raises, or content.encode() before it.
append_update_fails(p) ==
  LET q == proc[p].path
  IN /\ proc[p].pc = "inserted"
     /\ StaysOpen(p, q)
     /\ proc' = [proc EXCEPT ![p] = Idle]
     /\ halves' = IF pending[q] = <<>> THEN halves \cup {q} ELSE halves
     /\ UNCHANGED <<pending, claims, posting>>

\* append: commit, and the offset goes to the caller; or the commit raises.
append_commit(p) ==
  /\ proc[p].pc = "updated"
  /\ UNCHANGED <<pending, posting>>
  /\ Commit \/ StaysOpen(p, proc[p].path)
  /\ proc' = [proc EXCEPT ![p] = Idle]
  /\ UNCHANGED <<claims, halves>>

\* The wait for the write lock ends with "database is locked".
busy(p) ==
  /\ proc[p].pc = "begin"
  /\ ~MayLock(p)
  /\ proc' = [proc EXCEPT ![p] = Idle]
  /\ UNCHANGED <<blobs, writer, pending, left, claims, posted, posting, halves>>

\* p dies, at any point; SQLite rolls its transaction back.
crash(p) ==
  /\ proc[p].pc # "idle" \/ writer = p
  /\ proc' = [proc EXCEPT ![p] = Idle]
  /\ IF writer = p
     THEN writer' = None /\ pending' = blobs /\ posting' = posted /\ left' = {}
     ELSE UNCHANGED <<writer, pending, posting, left>>
  /\ UNCHANGED <<blobs, claims, posted, halves>>

----------------------------------------------------------------------------
(* The claim before the post. *)

\* Mutant: INSERT OR REPLACE.
WinsAlways(k) == k \in Keys

\* INSERT OR IGNORE: rowcount is 1 for the caller whose row it is.
Wins(k) == k \notin claims

\* post_with_claim: claim, and only the winner goes on to post the envelope.
post_with_claim(p, e) ==
  /\ Wins(e.key)
  /\ Calls(p, e.path, e.text, e.key)
  /\ claims' = claims \cup {e.key}

Next ==
  \E p \in Processes :
    \/ append_insert(p) \/ append_update(p) \/ append_update_fails(p) \/ append_commit(p)
    \/ busy(p) \/ crash(p)
    \/ \E q \in Paths : delete(p, q)
    \/ \E q \in Paths, t \in Texts : write(p, q, t) \/ append(p, q, t)
    \/ \E e \in Envelopes : post_with_claim(p, e)

Spec == Init /\ [][Next]_vars

----------------------------------------------------------------------------
(* Properties. *)

\* The table after p's append has committed.
AppendExtends(p) ==
  LET q   == proc[p].path
      at  == proc[p].offset
      end == at + Len(proc[p].text)
  IN /\ range(blobs'[q], at, end) = proc[p].text /\ Len(blobs'[q]) = end
     /\ q \notin left => range(blobs'[q], 0, at) = Bytes(blobs[q])
     /\ \A r \in Paths \ (left \cup {q}) : blobs'[r] = blobs[r]

\* Appends of two processes to one path neither overlap nor overwrite each other: what is
\* committed is what was there at that moment and the new text, at the offset returned,
\* although the offset was computed two statements earlier (sqlstore.py:70-86).  Calls of
\* the same connection that raised are the only others whose writes may go with it.
AppendsExtend ==
  [][\A p \in Processes : proc[p].pc = "updated" /\ blobs' # blobs => AppendExtends(p)]_vars

\* No reader, in the appending process or another, and no crash between the two statements
\* of an append finds the empty row that the first of them made, unless the second raised
\* (sqlstore.py:77-85).
NoHalfAppend ==
  \A p \in Processes, q \in Paths : ~InTransaction(p) /\ read(p, q) = <<>> => q \in halves

\* However often and from wherever an envelope is posted, with crashes, commits that raise
\* and deletions of the log in between, its key is posted once (test_C: the claim outlives
\* the log).
PostedOnce == \A k \in Keys : posted[k] <= 1

\* list leaves no entry of a directory out.  (It may take up entries of a directory whose
\* name LIKE cannot tell from it.)
ListIsComplete ==
  \A p \in Processes, q \in Paths, d \in Dirs : exists(p, q) /\ IsStrictPrefix(d, q) =>
    <<q[Len(d) + 1], Len(q) > Len(d) + 1>> \in list(p, d)

============================================================================
