----------------------------- MODULE SharedStore -----------------------------
(***************************************************************************)
(* The state store of the FastAPI edition, class SqliteResponseStateStore  *)
(* of fastapi/state_store.py, on one file shared by several processes.     *)
(*                                                                         *)
(* Python's sqlite3 opens a transaction at the first statement that writes *)
(* and commits it at the end of the with block.  A SELECT before it reads  *)
(* what is committed then, and other processes may commit in between: each *)
(* action is one such read, or one such transaction.  A process has one    *)
(* call under way at a time, because the handlers of fastapi/app.py await  *)
(* nothing inside a call; nor do they between has_pending and resolve.     *)
(*                                                                         *)
(* A call reads the clock when it begins, and may then wait for the lock   *)
(* of the file; what it writes and deletes goes by the time it read.  A    *)
(* call that raises, times out or dies rolls back: Fail.                   *)
(***************************************************************************)
EXTENDS Naturals, Sequences, FiniteSets

CONSTANTS
  Processes,
  Conversations,
  ResponseIds,        \* response ids, the provider's and the Agent's own
  Approvals,
  None,
  OrdinaryRetention,  \* ORDINARY_RETENTION_SECONDS, in clock ticks
  PendingRetention,   \* PENDING_RETENTION_SECONDS, in clock ticks
  BusyTimeout,        \* PRAGMA busy_timeout: the longest a call may take
  MaxActions,         \* bound: most actions of one record_pending call
  MaxTime             \* bound: last tick of the clock

ASSUME NoneAssumption == None \notin ResponseIds
ASSUME RetentionAssumption ==
  /\ OrdinaryRetention \in Nat /\ PendingRetention \in Nat
  /\ PendingRetention <= OrdinaryRetention
ASSUME BusyAssumption == BusyTimeout \in Nat /\ BusyTimeout < PendingRetention
ASSUME BoundAssumption == MaxActions \in Nat \ {0} /\ MaxTime \in Nat

VARIABLES
  heads, pending, now,  \* the file, and time.time()
  call,                 \* the call each process has under way
  owner,                \* history: what each response id was made for
  known,                \* history: the responses that have been committed
  passed,               \* history: those ordinary turns went on from that were
                        \* on file when the turn asked for them
  acted                 \* history: how often each set of approvals was acted upon

fileVars == <<heads, pending, now>>
vars == <<heads, pending, now, call, owner, known, passed, acted>>

\* The tables as a statement sees them whose parameter `current` is t
At(t) == INSTANCE ResponseStore
           WITH HeadRetentions <- {OrdinaryRetention}, now <- t

\* The tables as they are
File == INSTANCE ResponseStore WITH HeadRetentions <- {OrdinaryRetention}

Keys == File!Keys

BoundedSeq(S) == File!BoundedSeq(S)

Decisions == File!Decisions

\* What an id stands for: nothing yet, a response of the provider, or, as a
\* digest of them, the decisions on a response
Unused == <<>>

Provided == <<"provider">>

Digest(k, decisions) == <<k, decisions>>

\* (found is history: the response a turn names, if it was on file when asked)
NoCall ==
  [op |-> "none", key |-> <<>>, actions |-> <<>>, decisions |-> <<>>,
   result |-> None, provider |-> None, current |-> 0, found |-> {}]

Ops ==
  {"none", "record", "record_pending", "consume", "update", "prune",
   "resolve", "delete"}

Begins(p, args) ==
  /\ call[p] = NoCall
  /\ call' = [call EXCEPT ![p] = args]

Ends(p) == call' = [call EXCEPT ![p] = NoCall]

-----------------------------------------------------------------------------
(* A turn completed: record or record_pending.  The provider gives every   *)
(* response an id of its own.                                              *)

Record(p, c, r) ==
  /\ owner[r] = Unused
  /\ Begins(p, [NoCall EXCEPT !.op = "record", !.key = <<c, r>>, !.current = now])
  /\ owner' = [owner EXCEPT ![r] = Provided]
  /\ UNCHANGED <<heads, pending, now, known, passed, acted>>

RecordPending(p, c, r, actions) ==
  /\ owner[r] = Unused
  /\ Begins(p, [NoCall EXCEPT !.op = "record_pending", !.key = <<c, r>>,
                              !.actions = actions, !.current = now])
  /\ owner' = [owner EXCEPT ![r] = Provided]
  /\ UNCHANGED <<heads, pending, now, known, passed, acted>>

\* DELETE of what had expired, and upsert
RecordCommit(p) ==
  LET s == call[p]
      t == s.current
  IN  /\ s.op = "record"
      /\ heads' = At(t)!Upserted(At(t)!UnexpiredHeads, s.key[1], s.key[2],
                                 s.key[2], OrdinaryRetention)
      /\ known' = known \cup {s.key}
      /\ Ends(p)
      /\ UNCHANGED <<pending, now, owner, passed, acted>>

\* Upsert and INSERT of every action
RecordPendingCommit(p) ==
  LET s == call[p]
      t == s.current
  IN  /\ s.op = "record_pending"
      /\ At(t)!Insertable(s.key[1], s.key[2], s.actions)
      /\ heads' = At(t)!Upserted(heads, s.key[1], s.key[2], s.key[2],
                                 OrdinaryRetention)
      /\ pending' = pending \cup At(t)!NewRows(s.key[1], s.key[2], s.actions)
      /\ known' = known \cup {s.key}
      /\ Ends(p)
      /\ UNCHANGED <<now, owner, passed, acted>>

-----------------------------------------------------------------------------
(* consume_pending: two reads, and then a transaction.                     *)

\* It reads a live head.
Consume(p, c, r, decisions, result) ==
  /\ File!Live(c, r)
  /\ owner[result] \in {Unused, Digest(<<c, r>>, decisions)}
  /\ \A other \in ResponseIds \ {result} :
       owner[other] # Digest(<<c, r>>, decisions)
  /\ Begins(p, [NoCall EXCEPT !.op = "consume", !.key = <<c, r>>,
                              !.decisions = decisions, !.result = result,
                              !.provider = heads[<<c, r>>].provider,
                              !.current = now])
  /\ owner' = [owner EXCEPT ![result] = Digest(<<c, r>>, decisions)]
  /\ UNCHANGED <<heads, pending, now, known, passed, acted>>

\* Mutant: every decision is to be on a live row, not the other way round.
ConsumeSomeRows(p) ==
  LET s == call[p]
      rows == At(s.current)!LiveRows(s.key[1], s.key[2])
  IN  /\ s.op = "consume"
      /\ IF {s.decisions[i].approval : i \in DOMAIN s.decisions}
              \subseteq {row.approval : row \in rows}
           THEN call' = [call EXCEPT ![p].op = "update"]
           ELSE Ends(p)
      /\ UNCHANGED <<heads, pending, now, owner, known, passed, acted>>

\* It reads the live rows, which are to be the ones decided.
ConsumeRows(p) ==
  LET s == call[p]
      rows == At(s.current)!LiveRows(s.key[1], s.key[2])
  IN  /\ s.op = "consume"
      /\ IF \E order \in File!OrdinalOrders(Len(s.decisions), rows) :
              \A i \in DOMAIN s.decisions : order[i].approval = s.decisions[i].approval
           THEN call' = [call EXCEPT ![p].op = "update"]
           ELSE Ends(p)
      /\ UNCHANGED <<heads, pending, now, owner, known, passed, acted>>

\* The rows UPDATE ... AND status = 'pending' changes for the decision d
Undecided(k, d) ==
  {row \in pending : /\ <<row.conv, row.resp>> = k
                     /\ row.approval = d.approval /\ row.status = "pending"}

Decided(row, d) ==
  [row EXCEPT !.status = "consumed", !.approved = d.approved]

\* Mutant: the row counts are not looked at.
ConsumeCommitUncounted(p) ==
  LET s == call[p]
      updated == UNION {Undecided(s.key, s.decisions[i]) : i \in DOMAIN s.decisions}
  IN  /\ s.op = "update"
      /\ pending' = (pending \ updated) \cup
           UNION {{Decided(row, s.decisions[i]) : row \in Undecided(s.key, s.decisions[i])} :
                    i \in DOMAIN s.decisions}
      /\ heads' = At(s.current)!Upserted(heads, s.key[1], s.result, s.provider,
                                         OrdinaryRetention)
      /\ known' = known \cup {<<s.key[1], s.result>>}
      /\ acted' = [acted EXCEPT ![s.key] = @ + 1]
      /\ Ends(p)
      /\ UNCHANGED <<now, owner, passed>>

\* Every UPDATE changes one row; the head of the result is written.
ConsumeCommit(p) ==
  LET s == call[p]
      updated == UNION {Undecided(s.key, s.decisions[i]) : i \in DOMAIN s.decisions}
  IN  /\ s.op = "update"
      /\ \A i \in DOMAIN s.decisions :
           Cardinality(Undecided(s.key, s.decisions[i])) = 1
      /\ pending' = (pending \ updated) \cup
           UNION {{Decided(row, s.decisions[i]) : row \in Undecided(s.key, s.decisions[i])} :
                    i \in DOMAIN s.decisions}
      /\ heads' = At(s.current)!Upserted(heads, s.key[1], s.result, s.provider,
                                         OrdinaryRetention)
      /\ known' = known \cup {<<s.key[1], s.result>>}
      /\ acted' = [acted EXCEPT ![s.key] = @ + 1]
      /\ Ends(p)
      /\ UNCHANGED <<now, owner, passed>>

-----------------------------------------------------------------------------
(* An ordinary turn that names any response: has_pending, then resolve,    *)
(* which deletes an expired head in a transaction of its own.  A client    *)
(* has the id of a response from response.created on, so the turn may ask  *)
(* for one that another process is about to commit.                        *)

\* Mutant: it goes on without asking.
HasPendingUnasked(p, c, r) ==
  /\ Begins(p, [NoCall EXCEPT !.op = "resolve", !.key = <<c, r>>, !.current = now,
                              !.found = known \cap {<<c, r>>}])
  /\ UNCHANGED <<heads, pending, now, owner, known, passed, acted>>

HasPending(p, c, r) ==
  /\ ~ File!hasPending(c, r)
  /\ Begins(p, [NoCall EXCEPT !.op = "resolve", !.key = <<c, r>>, !.current = now,
                              !.found = known \cap {<<c, r>>}])
  /\ UNCHANGED <<heads, pending, now, owner, known, passed, acted>>

Resolve(p) ==
  LET s == call[p]
      row == heads[s.key]
  IN  /\ s.op = "resolve"
      /\ \/ /\ File!Live(s.key[1], s.key[2])
            /\ passed' = passed \cup s.found
            /\ Ends(p)
         \/ /\ row = File!NoHead
            /\ Ends(p)
            /\ UNCHANGED passed
         \/ /\ row # File!NoHead /\ ~ File!Live(s.key[1], s.key[2])
            /\ call' = [call EXCEPT ![p].op = "delete"]
            /\ UNCHANGED passed
      /\ UNCHANGED <<heads, pending, now, owner, known, acted>>

\* The row is deleted by its key, whatever it holds by then.
ResolveDelete(p) ==
  /\ call[p].op = "delete"
  /\ heads' = [heads EXCEPT ![call[p].key] = File!NoHead]
  /\ Ends(p)
  /\ UNCHANGED <<pending, now, owner, known, passed, acted>>

-----------------------------------------------------------------------------
Prune(p) ==
  /\ Begins(p, [NoCall EXCEPT !.op = "prune", !.current = now])
  /\ UNCHANGED <<heads, pending, now, owner, known, passed, acted>>

\* Mutant: heads are swept by the retention of approvals.
PruneCommitEarly(p) ==
  LET t == call[p].current
  IN  /\ call[p].op = "prune"
      /\ heads' = At(t + OrdinaryRetention - PendingRetention)!UnexpiredHeads
      /\ pending' = {row \in pending : row.until > t}
      /\ Ends(p)
      /\ UNCHANGED <<now, owner, known, passed, acted>>

PruneCommit(p) ==
  LET t == call[p].current
  IN  /\ call[p].op = "prune"
      /\ heads' = At(t)!UnexpiredHeads
      /\ pending' = {row \in pending : row.until > t}
      /\ Ends(p)
      /\ UNCHANGED <<now, owner, known, passed, acted>>

\* The call raises, waits for the lock too long, or dies with its process.
Fail(p) ==
  /\ call[p] # NoCall
  /\ Ends(p)
  /\ UNCHANGED <<heads, pending, now, owner, known, passed, acted>>

\* No call takes longer than the lock is waited for.
Tick ==
  /\ now < MaxTime
  /\ \A p \in Processes :
       call[p] # NoCall => now + 1 <= call[p].current + BusyTimeout
  /\ now' = now + 1
  /\ UNCHANGED <<heads, pending, call, owner, known, passed, acted>>

-----------------------------------------------------------------------------
Init ==
  /\ File!Init
  /\ call = [p \in Processes |-> NoCall]
  /\ owner = [r \in ResponseIds |-> Unused]
  /\ known = {} /\ passed = {}
  /\ acted = [k \in Keys |-> 0]

DistinctDecisions ==
  {d \in BoundedSeq(Decisions) :
     \A i, j \in DOMAIN d : i # j => d[i].approval # d[j].approval}

Begin(p) ==
  \/ \E c \in Conversations, r \in ResponseIds :
       \/ Record(p, c, r)
       \/ \E actions \in BoundedSeq(Approvals) : RecordPending(p, c, r, actions)
       \/ HasPending(p, c, r)
       \/ \E decisions \in DistinctDecisions, result \in ResponseIds :
            Consume(p, c, r, decisions, result)
  \/ Prune(p)

Step(p) ==
  \/ RecordCommit(p) \/ RecordPendingCommit(p)
  \/ ConsumeRows(p) \/ ConsumeCommit(p)
  \/ Resolve(p) \/ ResolveDelete(p)
  \/ PruneCommit(p)
  \/ Fail(p)

Next == Tick \/ \E p \in Processes : Begin(p) \/ Step(p)

Spec == Init /\ [][Next]_vars

-----------------------------------------------------------------------------
\* The tables have the types of the schema, and no call is older than the
\* timeout allows.
TypeOK ==
  /\ File!TypeOK
  /\ \A p \in Processes :
       /\ call[p].op \in Ops
       /\ call[p] # NoCall => call[p].current \in 0..now /\ now <= call[p].current + BusyTimeout
  /\ known \subseteq Keys /\ passed \subseteq known
  /\ acted \in [Keys -> Nat]

\* An approval that can still be decided hangs off a response that can still
\* be resolved, though processes sweep the tables by clocks read earlier, and
\* resolve deletes what it read earlier.
PendingHasHead == File!PendingHasHead

\* The approvals of a response share one fate, in every interleaving.
GroupAllOrNothing == File!GroupAllOrNothing

\* The file as any process finds it between two transactions: typed, nothing
\* undecidable, and no response with a part of its approvals decided.
FileIsConsistent == TypeOK /\ PendingHasHead /\ GroupAllOrNothing

\* A set of approvals is acted upon once, though any number of processes may
\* have read it as pending: the row counts tell them apart.
ActedOnce == \A k \in Keys : acted[k] <= 1

\* No ordinary turn that found its response on file when it asked has gone on
\* from it while an approval of it can still be decided, although has_pending
\* and resolve are two reads.  A turn that named the response before it was
\* committed is excepted: has_pending finds nothing then, another process may
\* commit record_pending, and resolve answers with the live head.
NoneGoesPast == \A k \in passed : ~ File!hasPending(k[1], k[2])

\* No head is dropped or shortened before it expires, by no process: in
\* particular not by a resolve that found it expired and deletes it later.
HeadKeptUntilExpiry == File!HeadKeptUntilExpiry

\* The file shared by all processes is one continuation ledger.
ImplementsLedger == File!ImplementsLedger
=============================================================================
