--------------------------- MODULE ResponseStore ---------------------------
(***************************************************************************)
(* The durable state of the Agent: class SqliteResponseStateStore of       *)
(* node/state-store.mjs.  Table response_heads maps a response id of a     *)
(* conversation to the provider response it continues from; table          *)
(* pending_actions holds the approval requests of a response until they    *)
(* are decided.                                                            *)
(*                                                                         *)
(* Each action is one method called by one process: DatabaseSync is        *)
(* synchronous, so inside a process no other statement runs in between.    *)
(* The variables are what the file holds, so a crash changes nothing, with *)
(* one exception: record() and prune() are two autocommitted statements,   *)
(* and SweepHeads is what a crash between the two leaves.                  *)
(*                                                                         *)
(* A method that throws or rolls back changes nothing and is the stuttering*)
(* step its guard forbids.                                                 *)
(***************************************************************************)
EXTENDS Naturals, Sequences, FiniteSets, Functions

CONSTANTS
  Conversations,      \* conversation ids
  ResponseIds,        \* response ids, the provider's and the Agent's own
  Approvals,          \* approval request ids
  None,               \* SQL NULL, and JavaScript null
  OrdinaryRetention,  \* ORDINARY_RETENTION_MS, in clock ticks
  PendingRetention,   \* PENDING_RETENTION_MS, in clock ticks
  HeadRetentions,     \* the retentionMs values callers pass to record()
  MaxActions,         \* bound: most actions of one recordPending call
  MaxTime             \* bound: last tick of the clock

ASSUME NoneAssumption == None \notin ResponseIds /\ None \notin BOOLEAN
ASSUME RetentionAssumption ==
  /\ OrdinaryRetention \in Nat
  /\ PendingRetention \in Nat \ {0}
  /\ PendingRetention <= OrdinaryRetention
  /\ HeadRetentions \subseteq Nat
ASSUME BoundAssumption == MaxActions \in Nat \ {0} /\ MaxTime \in Nat

VARIABLES
  heads,    \* response_heads: a row for every key, NoHead when there is none
  pending,  \* pending_actions: the set of its rows
  now       \* Date.now()

vars == <<heads, pending, now>>

Keys == Conversations \X ResponseIds

\* No row.  Its expiry is the least there is, so it is never live.
NoHead == [provider |-> None, until |-> 0]

HeadRow == [provider : ResponseIds, until : Nat \ {0}] \cup {NoHead}

PendingRow ==
  [conv : Conversations, resp : ResponseIds, ordinal : 0..(MaxActions - 1),
   approval : Approvals, until : Nat, status : {"pending", "consumed"},
   approved : BOOLEAN \cup {None}]

Decisions == [approval : Approvals, approved : BOOLEAN]

BoundedSeq(S) == UNION {[1..n -> S] : n \in 1..MaxActions}

-----------------------------------------------------------------------------
\* What one SQL statement selects or leaves.

Live(c, r) == heads[<<c, r>>].until > now

\* Mutant: the status is not looked at.
LiveRowsOfAnyStatus(c, r) ==
  {row \in pending : row.conv = c /\ row.resp = r /\ row.until > now}

\* SELECT ... WHERE status = 'pending' AND retain_until_ms > now
LiveRows(c, r) ==
  {row \in pending : /\ row.conv = c /\ row.resp = r
                     /\ row.status = "pending" /\ row.until > now}

\* DELETE FROM response_heads WHERE retain_until_ms <= now
UnexpiredHeads ==
  [k \in Keys |-> IF heads[k].until <= now THEN NoHead ELSE heads[k]]

\* Mutant: without MAX.
UpsertedToLatest(hs, c, r, provider, retention) ==
  [hs EXCEPT ![<<c, r>>] = [provider |-> provider, until |-> now + retention]]

\* INSERT INTO response_heads ... ON CONFLICT DO UPDATE, into the table hs
Upserted(hs, c, r, provider, retention) ==
  LET until == now + retention
      kept  == hs[<<c, r>>].until
  IN  [hs EXCEPT ![<<c, r>>] = [provider |-> provider,
                            until |-> IF until > kept THEN until ELSE kept]]

\* The rows recordPending inserts, one for each action, in their order
NewRows(c, r, actions) ==
  {[conv |-> c, resp |-> r, ordinal |-> i - 1, approval |-> actions[i],
    until |-> now + PendingRetention, status |-> "pending",
    approved |-> None] : i \in DOMAIN actions}

\* PRIMARY KEY (.., approval_request_id) and UNIQUE (.., ordinal)
Conflict(row, other) ==
  /\ row.conv = other.conv /\ row.resp = other.resp
  /\ row.approval = other.approval \/ row.ordinal = other.ordinal

\* The ways to list the rows of a set ORDER BY ordinal, as n rows
OrdinalOrders(n, rows) ==
  {order \in Bijection(1..n, rows) :
     \A i, j \in 1..n : i < j => order[i].ordinal < order[j].ordinal}

-----------------------------------------------------------------------------
\* The methods.

hasPending(c, r) == LiveRows(c, r) # {}

\* The insert of every action succeeds.
Insertable(c, r, actions) ==
  /\ IsInjective(actions)
  /\ \A row \in NewRows(c, r, actions), other \in pending :
       ~ Conflict(row, other)

\* consumePending finds a live head, and the decisions to be those of the
\* complete live rows, in their order.
Consumable(c, r, decisions) ==
  /\ Live(c, r)
  /\ \E order \in OrdinalOrders(Len(decisions), LiveRows(c, r)) :
       \A i \in DOMAIN decisions : order[i].approval = decisions[i].approval

\* What resolve returns
Resolved(c, r) == IF Live(c, r) THEN heads[<<c, r>>].provider ELSE None

\* Mutant: the row is dropped whether it expired or not.
ResolveOnce(c, r) ==
  /\ heads' = [heads EXCEPT ![<<c, r>>] = NoHead]
  /\ UNCHANGED <<pending, now>>

\* What resolve does: it drops the row it found expired.
Resolve(c, r) ==
  /\ heads' = IF Live(c, r) THEN heads ELSE [heads EXCEPT ![<<c, r>>] = NoHead]
  /\ UNCHANGED <<pending, now>>

Record(c, r, provider, retention) ==
  /\ retention >= OrdinaryRetention
  /\ heads' = Upserted(UnexpiredHeads, c, r, provider, retention)
  /\ UNCHANGED <<pending, now>>

RecordPending(c, r, provider, actions) ==
  /\ Insertable(c, r, actions)
  /\ heads' = Upserted(heads, c, r, provider, OrdinaryRetention)
  /\ pending' = pending \cup NewRows(c, r, actions)
  /\ UNCHANGED now

\* Mutant: the set need not be complete, and its first decision is taken.
ConsumePendingFirst(c, r, decisions, result) ==
  /\ Live(c, r)
  /\ \E row \in LiveRows(c, r) :
       /\ row.approval = decisions[1].approval
       /\ pending' = (pending \ {row}) \cup
            {[row EXCEPT !.status = "consumed",
                         !.approved = decisions[1].approved]}
  /\ heads' = Upserted(heads, c, result, heads[<<c, r>>].provider,
                       OrdinaryRetention)
  /\ UNCHANGED now

\* Mutant: the head of the result is left for later.
ConsumePendingWithoutResult(c, r, decisions, result) ==
  /\ Consumable(c, r, decisions)
  /\ pending' = {IF row \in LiveRows(c, r)
                   THEN [row EXCEPT !.status = "consumed", !.approved = TRUE]
                   ELSE row : row \in pending}
  /\ UNCHANGED <<heads, now>>

ConsumePending(c, r, decisions, result) ==
  /\ Consumable(c, r, decisions)
  /\ \E order \in OrdinalOrders(Len(decisions), LiveRows(c, r)) :
       /\ \A i \in DOMAIN decisions :
            order[i].approval = decisions[i].approval
       /\ pending' = (pending \ LiveRows(c, r)) \cup
            {[order[i] EXCEPT !.status = "consumed",
                              !.approved = decisions[i].approved] :
               i \in DOMAIN decisions}
  /\ heads' = Upserted(heads, c, result, heads[<<c, r>>].provider,
                       OrdinaryRetention)
  /\ UNCHANGED now

\* Mutant: the heads of responses that are a retention from expiring go too.
PruneEarly ==
  /\ heads' = [k \in Keys |-> IF heads[k].until <= now + OrdinaryRetention
                                THEN NoHead ELSE heads[k]]
  /\ pending' = {row \in pending : row.until > now}
  /\ UNCHANGED now

Prune ==
  /\ heads' = UnexpiredHeads
  /\ pending' = {row \in pending : row.until > now}
  /\ UNCHANGED now

\* The first statement of record() or prune(), and then a crash.
SweepHeads ==
  /\ heads' = UnexpiredHeads
  /\ UNCHANGED <<pending, now>>

Tick ==
  /\ now < MaxTime
  /\ now' = now + 1
  /\ UNCHANGED <<heads, pending>>

-----------------------------------------------------------------------------
Init ==
  /\ heads = [k \in Keys |-> NoHead]
  /\ pending = {}
  /\ now = 0

Next ==
  \/ \E c \in Conversations, r \in ResponseIds :
       \/ Resolve(c, r)
       \/ \E p \in ResponseIds :
            \/ \E d \in HeadRetentions : Record(c, r, p, d)
            \/ \E actions \in BoundedSeq(Approvals) :
                 RecordPending(c, r, p, actions)
       \/ \E decisions \in BoundedSeq(Decisions), result \in ResponseIds :
            ConsumePending(c, r, decisions, result)
  \/ Prune
  \/ SweepHeads
  \/ Tick

Spec == Init /\ [][Next]_vars

-----------------------------------------------------------------------------
\* Every row of both tables satisfies the STRICT column types and CHECKs of
\* the schema, and the clock is within its bound.
TypeOK ==
  /\ heads \in [Keys -> HeadRow]
  /\ pending \subseteq PendingRow
  /\ now \in 0..MaxTime

SameGroup(x, y) == x.conv = y.conv /\ x.resp = y.resp

\* An approval that can still be decided hangs off a response that can still
\* be resolved: neither the deletion of expired heads (which leaves the
\* pending rows alone) nor the lazy one of resolve() strands an approval.
PendingHasHead ==
  \A row \in pending :
    row.status = "pending" /\ row.until > now => Live(row.conv, row.resp)

\* The approvals of one response are decided together or not at all, though
\* consumePending updates them row by row and later prunes and inserts
\* touch the same table.
GroupAllOrNothing ==
  \A x, y \in pending :
    SameGroup(x, y) => x.status = y.status /\ x.until = y.until

\* The rows of a response are numbered from 0 without a gap, whatever was
\* pruned or inserted before: the complete set can be listed in order.
GroupComplete ==
  \A row \in pending : \A i \in 0..row.ordinal :
    \E other \in pending : SameGroup(row, other) /\ other.ordinal = i

\* The constraints of the schema hold of the rows as a whole.
UniqueRows == \A x, y \in pending : Conflict(x, y) => x = y

\* Why PendingHasHead is kept by every step: the head of a row that has not
\* expired, decided or not, expires no earlier than the row.
Covered ==
  \A row \in pending :
    row.until > now => heads[<<row.conv, row.resp>>].until >= row.until

\* The inductive invariant: what the proofs carry from step to step.
IInv == TypeOK /\ UniqueRows /\ Covered /\ GroupAllOrNothing /\ GroupComplete

\* A head that has not reached its expiry is neither dropped nor shortened by
\* any call, in particular not by recording the same response again with a
\* shorter retention (contracts/stateful-v1.md, State and continuation).
HeadKeptUntilExpiry ==
  [][\A k \in Keys :
       heads[k].until > now' => heads'[k].until >= heads[k].until]_vars

\* A decision is final: until it expires, no later call decides the approval
\* again, reopens it or forgets it.
DecisionFinal ==
  [][\A row \in pending :
       row.status = "consumed" /\ row.until > now' => row \in pending']_vars

\* An approval leaves the pending state before its expiry only by being
\* decided together with its whole group, in a step that also makes a result
\* response continue from the same provider response for a full retention.
DecidedWithResult ==
  [][\A row \in pending :
       row.status = "pending" /\ row.until > now' /\ row \notin pending' =>
         /\ \A x \in pending' : SameGroup(x, row) => x.status = "consumed"
         /\ \E x \in pending' : ~ (x \in pending) /\ Conflict(x, row)
         /\ \E result \in ResponseIds :
              /\ heads'[<<row.conv, result>>].until >= now + OrdinaryRetention
              /\ heads'[<<row.conv, result>>].provider =
                   heads[<<row.conv, row.resp>>].provider]_vars

-----------------------------------------------------------------------------
(***************************************************************************)
(* The store implements the ledger.  A row counts while it is live, so the *)
(* clock makes entries lapse, and deleting an expired row is a stutter.    *)
(***************************************************************************)
LiveGroup(k, status) ==
  {row \in pending : /\ <<row.conv, row.resp>> = k
                     /\ row.status = status /\ row.until > now}

mapping == [k \in Keys |-> IF heads[k].until > now THEN heads[k].provider
                                                   ELSE None]

open == [k \in Keys |-> {row.approval : row \in LiveGroup(k, "pending")}]

decided ==
  [k \in Keys |-> {[approval |-> row.approval, approved |-> row.approved] :
                     row \in LiveGroup(k, "consumed")}]

Ledger == INSTANCE ContinuationLedger

\* Every call of the store, every crash inside one and every tick of the
\* clock is a step of the ledger, or changes nothing the ledger can see.
ImplementsLedger == Ledger!Spec
=============================================================================
