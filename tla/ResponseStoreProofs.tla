------------------------ MODULE ResponseStoreProofs ------------------------
(***************************************************************************)
(* Proofs about the state store, for any conversations, responses,         *)
(* approvals, retentions and clock bound.                                  *)
(***************************************************************************)
EXTENDS ResponseStore, TLAPS

LEMMA RetentionsLast == OrdinaryRetention \in Nat \ {0}
BY RetentionAssumption

-----------------------------------------------------------------------------
(* The operators the actions are built from. *)

\* The sequences callers pass are sequences of their length.
LEMMA BoundedSeqProperties ==
  ASSUME NEW S, NEW s \in BoundedSeq(S)
  PROVE  /\ s \in Seq(S)
         /\ Len(s) \in 1..MaxActions
         /\ DOMAIN s = 1..Len(s)
<1>1. PICK n \in 1..MaxActions : s \in [1..n -> S]
  BY DEF BoundedSeq
<1>2. n \in Nat
  BY <1>1, BoundAssumption
<1>3. s \in Seq(S) /\ Len(s) = n
  BY <1>1, <1>2
<1> QED BY <1>1, <1>3

\* An upsert writes one key, never shortens a head, and gives the written one
\* at least the requested retention.
LEMMA UpsertedProperties ==
  ASSUME TypeOK, NEW hs \in [Keys -> HeadRow],
         NEW c \in Conversations, NEW r \in ResponseIds,
         NEW p \in ResponseIds, NEW d \in Nat \ {0}
  PROVE  LET up == Upserted(hs, c, r, p, d)
         IN  /\ up \in [Keys -> HeadRow]
             /\ \A k \in Keys : up[k].until >= hs[k].until
             /\ \A k \in Keys : k # <<c, r>> => up[k] = hs[k]
             /\ up[<<c, r>>].until >= now + d
             /\ up[<<c, r>>].provider = p
<1> DEFINE until == now + d
           kept == hs[<<c, r>>].until
           row == [provider |-> p, until |-> IF until > kept THEN until ELSE kept]
<1>1. <<c, r>> \in Keys
  BY DEF Keys
<1>2. kept \in Nat /\ until \in Nat
  BY <1>1, BoundAssumption DEF HeadRow, NoHead, TypeOK
<1>7. row.until \in Nat \ {0} /\ row.until >= kept /\ row.until >= until
  BY <1>2, BoundAssumption DEF TypeOK
<1>3. row \in HeadRow /\ row.until >= kept /\ row.until >= until /\ row.provider = p
  BY <1>7 DEF HeadRow
<1>4. \A k \in Keys : hs[k].until \in Nat
  BY DEF HeadRow, NoHead
<1>5. Upserted(hs, c, r, p, d) = [hs EXCEPT ![<<c, r>>] = row]
  BY DEF Upserted
<1> HIDE DEF row, until, kept
<1>6. /\ [hs EXCEPT ![<<c, r>>] = row] \in [Keys -> HeadRow]
      /\ [hs EXCEPT ![<<c, r>>] = row][<<c, r>>] = row
      /\ \A k \in Keys : k # <<c, r>> => [hs EXCEPT ![<<c, r>>] = row][k] = hs[k]
  BY <1>1, <1>3
<1> QED BY <1>1, <1>2, <1>3, <1>4, <1>5, <1>6 DEF until, kept

\* A live head names a provider response.
LEMMA LiveHeadProvider ==
  ASSUME TypeOK, NEW c \in Conversations, NEW r \in ResponseIds, Live(c, r)
  PROVE  heads[<<c, r>>].provider \in ResponseIds
<1>1. <<c, r>> \in Keys /\ now \in Nat
  BY BoundAssumption DEF Keys, TypeOK
<1>2. heads[<<c, r>>] \in HeadRow
  BY <1>1 DEF TypeOK
<1> QED BY <1>1, <1>2 DEF Live, HeadRow, NoHead

\* Deleting the expired heads leaves every live one as it is.
LEMMA UnexpiredHeadsProperties ==
  ASSUME TypeOK
  PROVE  /\ UnexpiredHeads \in [Keys -> HeadRow]
         /\ \A k \in Keys : heads[k].until > now => UnexpiredHeads[k] = heads[k]
         /\ \A k \in Keys : UnexpiredHeads[k].until <= heads[k].until
         /\ \A k \in Keys : heads[k].until <= now => UnexpiredHeads[k].until <= now
BY BoundAssumption DEF UnexpiredHeads, TypeOK, HeadRow, NoHead

\* What recordPending inserts: typed rows of one group, one for each action.
LEMMA NewRowsProperties ==
  ASSUME TypeOK, NEW c \in Conversations, NEW r \in ResponseIds,
         NEW actions \in BoundedSeq(Approvals)
  PROVE  /\ NewRows(c, r, actions) \subseteq PendingRow
         /\ \A row \in NewRows(c, r, actions) :
              /\ row.conv = c /\ row.resp = r /\ row.status = "pending"
              /\ row.until = now + PendingRetention
              /\ row.ordinal + 1 \in DOMAIN actions
              /\ row.approval = actions[row.ordinal + 1]
              /\ \A i \in 0..row.ordinal :
                   \E other \in NewRows(c, r, actions) : other.ordinal = i
         /\ \E row \in NewRows(c, r, actions) : row.ordinal = 0
<1> DEFINE New(i) ==
      [conv |-> c, resp |-> r, ordinal |-> i - 1, approval |-> actions[i],
       until |-> now + PendingRetention, status |-> "pending",
       approved |-> None]
<1>1. /\ Len(actions) \in 1..MaxActions /\ DOMAIN actions = 1..Len(actions)
      /\ \A i \in DOMAIN actions : actions[i] \in Approvals
  BY BoundedSeqProperties
<1>2. NewRows(c, r, actions) = {New(i) : i \in 1..Len(actions)}
  BY <1>1 DEF NewRows
<1>3. now + PendingRetention \in Nat
  BY BoundAssumption, RetentionAssumption DEF TypeOK
<1>4. \A i \in 1..Len(actions) : New(i) \in PendingRow /\ New(i).ordinal = i - 1
  BY <1>1, <1>3, BoundAssumption DEF PendingRow
<1>5. ASSUME NEW row \in NewRows(c, r, actions)
      PROVE  /\ row.ordinal + 1 \in 1..Len(actions)
             /\ row = New(row.ordinal + 1)
  BY <1>1, <1>2, <1>4
<1>6. ASSUME NEW row \in NewRows(c, r, actions), NEW i \in 0..row.ordinal
      PROVE  \E other \in NewRows(c, r, actions) : other.ordinal = i
  <2>1. i + 1 \in 1..Len(actions)
    BY <1>1, <1>5
  <2>2. New(i + 1).ordinal = i
    BY <1>4, <2>1
  <2> QED BY <1>2, <2>1, <2>2
<1>7. NewRows(c, r, actions) \subseteq PendingRow
  BY <1>2, <1>4
<1>8. \E row \in NewRows(c, r, actions) : row.ordinal = 0
  <2>1. 1 \in 1..Len(actions)
    BY <1>1
  <2>2. New(1) \in NewRows(c, r, actions) /\ New(1).ordinal = 0
    BY <1>2, <1>4, <2>1
  <2> QED BY <2>2
<1>9. ASSUME NEW row \in NewRows(c, r, actions)
      PROVE  /\ row.conv = c /\ row.resp = r /\ row.status = "pending"
             /\ row.until = now + PendingRetention
             /\ row.ordinal + 1 \in DOMAIN actions
             /\ row.approval = actions[row.ordinal + 1]
  BY <1>1, <1>5
<1> HIDE DEF New
<1> QED BY <1>6, <1>7, <1>8, <1>9

\* The order a decision set is matched in lists every live row exactly once,
\* and consumePending replaces each of them by its decided version.
LEMMA ConsumedRowsProperties ==
  ASSUME TypeOK, NEW c \in Conversations, NEW r \in ResponseIds,
         NEW decisions \in BoundedSeq(Decisions),
         NEW order \in OrdinalOrders(Len(decisions), LiveRows(c, r))
  PROVE  /\ DOMAIN decisions = 1..Len(decisions)
         /\ \A i \in DOMAIN decisions :
              /\ decisions[i] \in Decisions
              /\ order[i] \in LiveRows(c, r)
         /\ \A row \in LiveRows(c, r) :
              \E i \in DOMAIN decisions : order[i] = row
<1>1. /\ DOMAIN decisions = 1..Len(decisions)
      /\ \A i \in DOMAIN decisions : decisions[i] \in Decisions
  BY BoundedSeqProperties
<1>2. /\ order \in [1..Len(decisions) -> LiveRows(c, r)]
      /\ \A row \in LiveRows(c, r) : \E i \in 1..Len(decisions) : order[i] = row
  BY DEF OrdinalOrders, Bijection, Injection, Surjection
<1> QED BY <1>1, <1>2

-----------------------------------------------------------------------------
(* The inductive invariant, one lemma for each operation. *)

\* Any change of the heads that keeps the live ones as long-lived as they
\* were preserves the invariant.
LEMMA HeadsOnlyPreserves ==
  ASSUME IInv, pending' = pending, now' = now, heads' \in [Keys -> HeadRow],
         \A k \in Keys : heads[k].until > now => heads'[k].until >= heads[k].until
  PROVE  IInv'
<1>1. TypeOK'
  BY DEF IInv, TypeOK
<1>2. Covered'
  <2> SUFFICES ASSUME NEW row \in pending, row.until > now
               PROVE  heads'[<<row.conv, row.resp>>].until >= row.until
    BY DEF Covered
  <2>1. /\ heads[<<row.conv, row.resp>>].until >= row.until
        /\ <<row.conv, row.resp>> \in Keys
        /\ row.until \in Nat /\ now \in Nat
        /\ heads[<<row.conv, row.resp>>].until \in Nat
        /\ heads'[<<row.conv, row.resp>>].until \in Nat
    BY BoundAssumption DEF IInv, Covered, TypeOK, PendingRow, HeadRow, NoHead, Keys
  <2> QED BY <2>1
<1>3. (UniqueRows /\ GroupAllOrNothing /\ GroupComplete)'
  BY DEF IInv, UniqueRows, GroupAllOrNothing, GroupComplete, SameGroup, Conflict
<1> QED BY <1>1, <1>2, <1>3 DEF IInv

LEMMA ResolvePreserves ==
  ASSUME IInv, NEW c \in Conversations, NEW r \in ResponseIds, Resolve(c, r)
  PROVE  IInv'
<1>1. /\ pending' = pending /\ now' = now /\ <<c, r>> \in Keys
      /\ heads' = IF Live(c, r) THEN heads
                                ELSE [heads EXCEPT ![<<c, r>>] = NoHead]
      /\ heads \in [Keys -> HeadRow] /\ NoHead \in HeadRow
  BY DEF Resolve, Keys, IInv, TypeOK, HeadRow, NoHead
<1>2. \A k \in Keys : heads[k].until \in Nat
  BY <1>1 DEF HeadRow, NoHead
<1>3. /\ heads' \in [Keys -> HeadRow]
      /\ \A k \in Keys : heads[k].until > now => heads'[k].until >= heads[k].until
  BY <1>1, <1>2 DEF Live
<1> QED BY <1>1, <1>3, HeadsOnlyPreserves

LEMMA RecordPreserves ==
  ASSUME IInv, NEW c \in Conversations, NEW r \in ResponseIds,
         NEW p \in ResponseIds, NEW d \in HeadRetentions, Record(c, r, p, d)
  PROVE  IInv'
<1>1. TypeOK /\ d \in Nat \ {0}
  BY RetentionAssumption DEF IInv, Record
<1>2. /\ pending' = pending /\ now' = now
      /\ heads' = Upserted(UnexpiredHeads, c, r, p, d)
  BY DEF Record
<1>3. /\ UnexpiredHeads \in [Keys -> HeadRow]
      /\ \A k \in Keys : heads[k].until > now => UnexpiredHeads[k] = heads[k]
  BY <1>1, UnexpiredHeadsProperties
<1>4. /\ heads' \in [Keys -> HeadRow]
      /\ \A k \in Keys : heads'[k].until >= UnexpiredHeads[k].until
  BY <1>1, <1>2, <1>3, UpsertedProperties
<1>5. \A k \in Keys : heads[k].until > now => heads'[k].until >= heads[k].until
  BY <1>3, <1>4
<1> QED BY <1>2, <1>4, <1>5, HeadsOnlyPreserves

LEMMA SweepHeadsPreserves ==
  ASSUME IInv, SweepHeads
  PROVE  IInv'
<1>1. /\ pending' = pending /\ now' = now /\ heads' = UnexpiredHeads
      /\ TypeOK
  BY DEF SweepHeads, IInv
<1>2. \A k \in Keys : heads[k].until \in Nat
  BY <1>1 DEF TypeOK, HeadRow, NoHead
<1>3. /\ heads' \in [Keys -> HeadRow]
      /\ \A k \in Keys : heads[k].until > now => heads'[k].until >= heads[k].until
  BY <1>1, <1>2, UnexpiredHeadsProperties
<1> QED BY <1>1, <1>3, HeadsOnlyPreserves

LEMMA RecordPendingPreserves ==
  ASSUME IInv, NEW c \in Conversations, NEW r \in ResponseIds,
         NEW p \in ResponseIds, NEW actions \in BoundedSeq(Approvals),
         RecordPending(c, r, p, actions)
  PROVE  IInv'
<1> DEFINE new == NewRows(c, r, actions)
<1>1. /\ IsInjective(actions)
      /\ \A row \in new, other \in pending : ~ Conflict(row, other)
      /\ heads' = Upserted(heads, c, r, p, OrdinaryRetention)
      /\ pending' = pending \cup new
      /\ now' = now
      /\ TypeOK
  BY DEF RecordPending, Insertable, IInv
<1>2. /\ new \subseteq PendingRow
      /\ \A row \in new :
           /\ row.conv = c /\ row.resp = r /\ row.status = "pending"
           /\ row.until = now + PendingRetention
           /\ row.ordinal + 1 \in DOMAIN actions
           /\ row.approval = actions[row.ordinal + 1]
           /\ \A i \in 0..row.ordinal : \E other \in new : other.ordinal = i
      /\ \E row \in new : row.ordinal = 0
  BY <1>1, NewRowsProperties
<1>3. /\ heads' \in [Keys -> HeadRow]
      /\ \A k \in Keys : heads'[k].until >= heads[k].until
      /\ heads'[<<c, r>>].until >= now + OrdinaryRetention
  BY <1>1, UpsertedProperties, RetentionsLast DEF TypeOK
<1> HIDE DEF new
<1>4. TypeOK'
  BY <1>1, <1>2, <1>3 DEF TypeOK
\* The rows of a group the table already holds include the one numbered 0,
\* which a second group of the same response would collide with.
<1>5. ASSUME NEW row \in new, NEW other \in pending
      PROVE  ~ SameGroup(row, other)
  <2> SUFFICES ASSUME SameGroup(row, other) PROVE FALSE
    OBVIOUS
  <2>1. PICK zero \in new : zero.ordinal = 0
    BY <1>2
  <2>2. 0 \in 0..other.ordinal
    BY <1>1, BoundAssumption DEF TypeOK, PendingRow
  <2>3. PICK held \in pending : SameGroup(other, held) /\ held.ordinal = 0
    BY <2>2 DEF IInv, GroupComplete
  <2>4. Conflict(zero, held)
    BY <1>2, <2>1, <2>3 DEF Conflict, SameGroup
  <2> QED BY <1>1, <2>4
<1>6. UniqueRows'
  <2> SUFFICES ASSUME NEW x \in pending', NEW y \in pending', Conflict(x, y)
               PROVE  x = y
    BY DEF UniqueRows
  <2>1. CASE x \in pending /\ y \in pending
    BY <2>1 DEF IInv, UniqueRows
  <2>2. CASE x \in new /\ y \in pending
    BY <1>1, <2>2
  <2>3. CASE x \in pending /\ y \in new
    BY <1>1, <2>3 DEF Conflict
  <2>4. CASE x \in new /\ y \in new
    <3>1. /\ x \in PendingRow /\ y \in PendingRow
          /\ x.ordinal \in Nat /\ y.ordinal \in Nat
      BY <1>2, <2>4, BoundAssumption DEF PendingRow
    <3>2. x.ordinal + 1 = y.ordinal + 1 \/ x.approval = y.approval
      BY DEF Conflict
    <3>3. x.ordinal + 1 = y.ordinal + 1
      BY <1>1, <1>2, <2>4, <3>2 DEF IsInjective
    <3>4. /\ x.conv = y.conv /\ x.resp = y.resp /\ x.ordinal = y.ordinal
          /\ x.approval = y.approval /\ x.until = y.until
          /\ x.status = y.status
      BY <1>2, <2>4, <3>1, <3>3
    <3>5. x.approved = None /\ y.approved = None
      BY <2>4 DEF new, NewRows
    <3> QED BY <3>1, <3>4, <3>5 DEF PendingRow
  <2> QED BY <1>1, <2>1, <2>2, <2>3, <2>4
<1>7. Covered'
  <2> SUFFICES ASSUME NEW row \in pending', row.until > now
               PROVE  heads'[<<row.conv, row.resp>>].until >= row.until
    BY <1>1 DEF Covered
  <2>1. /\ <<row.conv, row.resp>> \in Keys /\ row.until \in Nat
    BY <1>4 DEF TypeOK, PendingRow, Keys
  <2>2. /\ heads[<<row.conv, row.resp>>].until \in Nat
        /\ heads'[<<row.conv, row.resp>>].until \in Nat
        /\ now \in Nat
    BY <1>1, <1>3, <2>1, BoundAssumption DEF TypeOK, HeadRow, NoHead
  <2>3. CASE row \in pending
    BY <1>3, <2>1, <2>2, <2>3 DEF IInv, Covered
  <2>4. CASE row \in new
    BY <1>2, <1>3, <2>1, <2>2, <2>4, RetentionAssumption
  <2> QED BY <1>1, <2>3, <2>4
<1>8. GroupAllOrNothing'
  BY <1>1, <1>2, <1>5 DEF GroupAllOrNothing, IInv, SameGroup
<1>9. GroupComplete'
  <2> SUFFICES ASSUME NEW row \in pending', NEW i \in 0..row.ordinal
               PROVE  \E other \in pending' : SameGroup(row, other) /\ other.ordinal = i
    BY DEF GroupComplete
  <2>1. CASE row \in pending
    BY <1>1, <2>1 DEF GroupComplete, IInv
  <2>2. CASE row \in new
    BY <1>1, <1>2, <2>2 DEF SameGroup
  <2> QED BY <1>1, <2>1, <2>2
<1> QED BY <1>4, <1>6, <1>7, <1>8, <1>9 DEF IInv

LEMMA ConsumePendingPreserves ==
  ASSUME IInv, NEW c \in Conversations, NEW r \in ResponseIds,
         NEW decisions \in BoundedSeq(Decisions), NEW result \in ResponseIds,
         ConsumePending(c, r, decisions, result)
  PROVE  IInv'
<1> DEFINE live == LiveRows(c, r)
<1>1. PICK order \in OrdinalOrders(Len(decisions), live) :
        pending' = (pending \ live) \cup
          {[order[i] EXCEPT !.status = "consumed",
                            !.approved = decisions[i].approved] :
             i \in DOMAIN decisions}
  BY DEF ConsumePending, Consumable
<1>2. TypeOK /\ now' = now
  BY DEF IInv, ConsumePending
<1>3. /\ DOMAIN decisions = 1..Len(decisions)
      /\ \A i \in DOMAIN decisions :
           decisions[i] \in Decisions /\ order[i] \in live
      /\ \A row \in live : \E i \in DOMAIN decisions : order[i] = row
  BY <1>2, ConsumedRowsProperties
<1> DEFINE Done(i) == [order[i] EXCEPT !.status = "consumed",
                                       !.approved = decisions[i].approved]
<1>4. \A row \in pending : row \in live <=>
        /\ row.conv = c /\ row.resp = r
        /\ row.status = "pending" /\ row.until > now
  BY DEF LiveRows
<1>5. live \subseteq pending
  BY DEF LiveRows
<1> HIDE DEF live
\* A decided row is its undecided version but for status and decision.
<1>6. ASSUME NEW i \in DOMAIN decisions
      PROVE  /\ Done(i) \in PendingRow /\ Done(i).status = "consumed"
             /\ Done(i).conv = c /\ Done(i).resp = r
             /\ Done(i).until = order[i].until
             /\ Done(i).ordinal = order[i].ordinal
             /\ Done(i).approval = order[i].approval
             /\ Done(i).approved = decisions[i].approved
  <2>1. order[i] \in PendingRow /\ order[i].conv = c /\ order[i].resp = r
    BY <1>2, <1>3, <1>4, <1>5 DEF TypeOK
  <2>2. decisions[i].approved \in BOOLEAN \cup {None}
    BY <1>3, Zenon DEF Decisions
  <2> DEFINE d == decisions[i].approved
  <2> HIDE DEF d
  <2>3. d \in BOOLEAN \cup {None}
    BY <2>2 DEF d
  <2>4. Done(i) = [order[i] EXCEPT !.status = "consumed", !.approved = d]
    BY DEF d
  <2> QED BY <2>1, <2>3, <2>4 DEF PendingRow, d
<1>7. pending' = (pending \ live) \cup {Done(i) : i \in DOMAIN decisions}
  BY <1>1
<1> HIDE DEF Done
<1>8. /\ heads' = Upserted(heads, c, result, heads[<<c, r>>].provider, OrdinaryRetention)
      /\ heads[<<c, r>>].provider \in ResponseIds
  BY <1>2, LiveHeadProvider DEF ConsumePending, Consumable
<1>9. /\ heads' \in [Keys -> HeadRow]
      /\ \A k \in Keys : heads'[k].until >= heads[k].until
  BY <1>2, <1>8, UpsertedProperties, RetentionsLast DEF TypeOK
<1>10. TypeOK'
  BY <1>2, <1>6, <1>7, <1>9 DEF TypeOK
\* Every row of the new table comes from one of the old table.
<1>11. ASSUME NEW x \in pending'
       PROVE  \E old \in pending :
                /\ SameGroup(old, x) /\ old.until = x.until
                /\ old.ordinal = x.ordinal /\ old.approval = x.approval
                /\ \/ x = old /\ old \notin live
                   \/ /\ old \in live /\ x.status = "consumed"
                      /\ \E i \in DOMAIN decisions : x = Done(i) /\ old = order[i]
  <2>1. CASE x \in pending /\ x \notin live
    BY <2>1 DEF SameGroup
  <2>2. ASSUME NEW i \in DOMAIN decisions, x = Done(i)
        PROVE  /\ order[i] \in pending /\ order[i] \in live
               /\ SameGroup(order[i], x) /\ order[i].until = x.until
               /\ order[i].ordinal = x.ordinal
               /\ order[i].approval = x.approval /\ x.status = "consumed"
    BY <1>3, <1>4, <1>5, <1>6, <2>2 DEF SameGroup
  <2> QED BY <1>7, <2>1, <2>2
<1>12. UniqueRows'
  <2> SUFFICES ASSUME NEW x \in pending', NEW y \in pending', Conflict(x, y)
               PROVE  x = y
    BY DEF UniqueRows
  <2>1. PICK u \in pending :
          /\ SameGroup(u, x) /\ u.ordinal = x.ordinal /\ u.approval = x.approval
          /\ \/ x = u /\ u \notin live
             \/ /\ u \in live
                /\ \E i \in DOMAIN decisions : x = Done(i) /\ u = order[i]
    BY <1>11
  <2>2. PICK v \in pending :
          /\ SameGroup(v, y) /\ v.ordinal = y.ordinal /\ v.approval = y.approval
          /\ \/ y = v /\ v \notin live
             \/ /\ v \in live
                /\ \E i \in DOMAIN decisions : y = Done(i) /\ v = order[i]
    BY <1>11
  <2>3. u = v
    BY <2>1, <2>2 DEF IInv, UniqueRows, Conflict, SameGroup
  <2>4. \A i, j \in DOMAIN decisions : order[i] = order[j] => i = j
    BY <1>3 DEF OrdinalOrders, Bijection, Injection, IsInjective
  <2> QED BY <2>1, <2>2, <2>3, <2>4
<1>13. Covered'
  <2> SUFFICES ASSUME NEW x \in pending', x.until > now
               PROVE  heads'[<<x.conv, x.resp>>].until >= x.until
    BY <1>2 DEF Covered
  <2>1. PICK old \in pending : SameGroup(old, x) /\ old.until = x.until
    BY <1>11
  <2>2. /\ <<old.conv, old.resp>> \in Keys /\ <<old.conv, old.resp>> = <<x.conv, x.resp>>
        /\ heads[<<old.conv, old.resp>>].until >= old.until
    BY <1>2, <2>1 DEF IInv, Covered, TypeOK, PendingRow, Keys, SameGroup
  <2>3. /\ heads[<<old.conv, old.resp>>].until \in Nat
        /\ heads'[<<old.conv, old.resp>>].until \in Nat
        /\ old.until \in Nat
    BY <1>2, <1>9, <2>2 DEF TypeOK, HeadRow, NoHead, PendingRow
  <2> QED BY <1>9, <2>1, <2>2, <2>3
<1>14. GroupAllOrNothing'
  <2> SUFFICES ASSUME NEW x \in pending', NEW y \in pending', SameGroup(x, y)
               PROVE  x.status = y.status /\ x.until = y.until
    BY DEF GroupAllOrNothing
  <2>1. PICK u \in pending :
          /\ SameGroup(u, x) /\ u.until = x.until
          /\ \/ x = u /\ u \notin live
             \/ u \in live /\ x.status = "consumed"
    BY <1>11
  <2>2. PICK v \in pending :
          /\ SameGroup(v, y) /\ v.until = y.until
          /\ \/ y = v /\ v \notin live
             \/ v \in live /\ y.status = "consumed"
    BY <1>11
  <2>3. SameGroup(u, v) /\ u.status = v.status /\ u.until = v.until
    BY <2>1, <2>2 DEF IInv, GroupAllOrNothing, SameGroup
  <2>4. u \in live <=> v \in live
    BY <1>4, <2>3 DEF SameGroup
  <2> QED BY <2>1, <2>2, <2>3, <2>4
<1>15. GroupComplete'
  <2> SUFFICES ASSUME NEW x \in pending', NEW i \in 0..x.ordinal
               PROVE  \E y \in pending' : SameGroup(x, y) /\ y.ordinal = i
    BY DEF GroupComplete
  <2>1. PICK u \in pending : SameGroup(u, x) /\ u.ordinal = x.ordinal
    BY <1>11
  <2>2. PICK v \in pending : SameGroup(u, v) /\ v.ordinal = i
    BY <2>1 DEF IInv, GroupComplete
  <2>3. CASE v \notin live
    BY <1>7, <2>1, <2>2, <2>3 DEF SameGroup
  <2>4. CASE v \in live
    <3>1. PICK j \in DOMAIN decisions : order[j] = v
      BY <1>3, <2>4
    <3>2. Done(j) \in pending' /\ Done(j).ordinal = i /\ SameGroup(v, Done(j))
      BY <1>4, <1>5, <1>6, <1>7, <2>2, <2>4, <3>1 DEF SameGroup
    <3> QED BY <2>1, <2>2, <3>2 DEF SameGroup
  <2> QED BY <2>3, <2>4
<1> QED BY <1>10, <1>12, <1>13, <1>14, <1>15 DEF IInv

LEMMA PrunePreserves ==
  ASSUME IInv, Prune
  PROVE  IInv'
<1>1. /\ pending' = {row \in pending : row.until > now} /\ now' = now
      /\ heads' = UnexpiredHeads /\ TypeOK
  BY DEF Prune, IInv
<1>2. /\ heads' \in [Keys -> HeadRow]
      /\ \A k \in Keys : heads[k].until > now => heads'[k] = heads[k]
  BY <1>1, UnexpiredHeadsProperties
<1>3. TypeOK'
  BY <1>1, <1>2 DEF TypeOK
<1>4. Covered'
  <2> SUFFICES ASSUME NEW row \in pending, row.until > now
               PROVE  heads'[<<row.conv, row.resp>>].until >= row.until
    BY <1>1 DEF Covered
  <2>1. /\ heads[<<row.conv, row.resp>>].until >= row.until
        /\ <<row.conv, row.resp>> \in Keys
        /\ row.until \in Nat /\ now \in Nat
        /\ heads[<<row.conv, row.resp>>].until \in Nat
    BY BoundAssumption DEF IInv, Covered, TypeOK, PendingRow, HeadRow, NoHead, Keys
  <2> QED BY <1>2, <2>1
<1>5. (UniqueRows /\ GroupAllOrNothing)'
  BY <1>1 DEF IInv, UniqueRows, GroupAllOrNothing, SameGroup, Conflict
<1>6. GroupComplete'
  BY <1>1 DEF IInv, GroupComplete, GroupAllOrNothing, SameGroup
<1> QED BY <1>3, <1>4, <1>5, <1>6 DEF IInv

LEMMA TickPreserves ==
  ASSUME IInv, Tick
  PROVE  IInv'
<1>1. /\ pending' = pending /\ heads' = heads /\ now' = now + 1 /\ now < MaxTime
      /\ now \in Nat
  BY BoundAssumption DEF Tick, IInv, TypeOK
<1>2. TypeOK'
  BY <1>1, BoundAssumption DEF IInv, TypeOK
<1>3. Covered'
  BY <1>1 DEF IInv, Covered, TypeOK, PendingRow
<1>4. (UniqueRows /\ GroupAllOrNothing /\ GroupComplete)'
  BY <1>1 DEF IInv, UniqueRows, GroupAllOrNothing, GroupComplete, SameGroup, Conflict
<1> QED BY <1>2, <1>3, <1>4 DEF IInv

LEMMA NextPreserves == IInv /\ [Next]_vars => IInv'
<1> SUFFICES ASSUME IInv, [Next]_vars PROVE IInv'
  OBVIOUS
<1>1. ASSUME NEW c \in Conversations, NEW r \in ResponseIds, Resolve(c, r)
      PROVE  IInv'
  BY <1>1, ResolvePreserves
<1>2. ASSUME NEW c \in Conversations, NEW r \in ResponseIds, NEW p \in ResponseIds,
             NEW d \in HeadRetentions, Record(c, r, p, d)
      PROVE  IInv'
  BY <1>2, RecordPreserves
<1>3. ASSUME NEW c \in Conversations, NEW r \in ResponseIds, NEW p \in ResponseIds,
             NEW actions \in BoundedSeq(Approvals), RecordPending(c, r, p, actions)
      PROVE  IInv'
  BY <1>3, RecordPendingPreserves
<1>4. ASSUME NEW c \in Conversations, NEW r \in ResponseIds,
             NEW decisions \in BoundedSeq(Decisions), NEW result \in ResponseIds,
             ConsumePending(c, r, decisions, result)
      PROVE  IInv'
  BY <1>4, ConsumePendingPreserves
<1>5. CASE Prune
  BY <1>5, PrunePreserves
<1>6. CASE SweepHeads
  BY <1>6, SweepHeadsPreserves
<1>7. CASE Tick
  BY <1>7, TickPreserves
<1>8. CASE UNCHANGED vars
  BY <1>8 DEF vars, IInv, TypeOK, UniqueRows, Covered, GroupAllOrNothing,
              GroupComplete, SameGroup, Conflict
<1> QED BY <1>1, <1>2, <1>3, <1>4, <1>5, <1>6, <1>7, <1>8 DEF Next

LEMMA InitEstablishes == Init => IInv
<1> SUFFICES ASSUME Init PROVE IInv
  OBVIOUS
<1>1. TypeOK
  BY BoundAssumption DEF Init, TypeOK, HeadRow, NoHead
<1> QED BY <1>1 DEF Init, IInv, UniqueRows, Covered, GroupAllOrNothing, GroupComplete

\* The inductive invariant holds in every reachable state.
THEOREM Invariance == Spec => []IInv
BY InitEstablishes, NextPreserves, PTL DEF Spec

-----------------------------------------------------------------------------
(* What follows for the callers. *)

\* The tables keep their types and constraints through every sequence of
\* calls, crashes and clock ticks.
THEOREM TypeCorrect == Spec => []TypeOK
<1>1. IInv => TypeOK
  BY DEF IInv
<1> QED BY <1>1, Invariance, PTL

\* An approval that can still be decided always hangs off a response that can
\* still be resolved, whatever retentions are configured, as long as the
\* ordinary one is not the shorter.
THEOREM NoStrandedApproval == Spec => []PendingHasHead
<1>1. IInv => PendingHasHead
  <2> SUFFICES ASSUME IInv, NEW row \in pending, row.until > now
               PROVE  Live(row.conv, row.resp)
    BY DEF PendingHasHead
  <2>1. /\ heads[<<row.conv, row.resp>>].until >= row.until
        /\ heads[<<row.conv, row.resp>>].until \in Nat
        /\ row.until \in Nat /\ now \in Nat
    BY BoundAssumption DEF IInv, Covered, TypeOK, PendingRow, HeadRow, NoHead, Keys
  <2> QED BY <2>1 DEF Live
<1> QED BY <1>1, Invariance, PTL

\* The approvals of a response share one fate.
THEOREM GroupsShareFate == Spec => []GroupAllOrNothing
<1>1. IInv => GroupAllOrNothing
  BY DEF IInv
<1> QED BY <1>1, Invariance, PTL

\* A response that was recorded stays resolvable until its retention ends.
THEOREM HeadsAreRetained == Spec => HeadKeptUntilExpiry
<1> DEFINE Kept == \A k \in Keys :
             heads[k].until > now' => heads'[k].until >= heads[k].until
<1>1. IInv /\ [Next]_vars => [Kept]_vars
  <2> SUFFICES ASSUME IInv, Next, NEW k \in Keys, heads[k].until > now'
               PROVE  heads'[k].until >= heads[k].until
    BY DEF Kept
  <2>1. /\ TypeOK /\ heads[k].until \in Nat /\ now \in Nat
    BY BoundAssumption DEF IInv, TypeOK, HeadRow, NoHead
  <2>2. ASSUME NEW c \in Conversations, NEW r \in ResponseIds, Resolve(c, r)
        PROVE  heads'[k].until >= heads[k].until
    <3>1. <<c, r>> # k \/ Live(c, r)
      BY <2>2 DEF Resolve, Live
    <3> QED BY <2>1, <2>2, <3>1 DEF Resolve, TypeOK
  <2>3. ASSUME NEW c \in Conversations, NEW r \in ResponseIds, NEW p \in ResponseIds,
               NEW d \in HeadRetentions, Record(c, r, p, d)
        PROVE  heads'[k].until >= heads[k].until
    <3>1. UnexpiredHeads \in [Keys -> HeadRow] /\ UnexpiredHeads[k] = heads[k]
      BY <2>1, <2>3, UnexpiredHeadsProperties DEF Record
    <3>2. d \in Nat \ {0} /\ heads' = Upserted(UnexpiredHeads, c, r, p, d)
      BY <2>3, RetentionAssumption DEF Record
    <3>3. heads'[k].until >= UnexpiredHeads[k].until
      BY <2>1, <3>1, <3>2, UpsertedProperties
    <3> QED BY <3>1, <3>3
  <2>4. ASSUME NEW c \in Conversations, NEW r \in ResponseIds, NEW p \in ResponseIds,
               NEW actions \in BoundedSeq(Approvals), RecordPending(c, r, p, actions)
        PROVE  heads'[k].until >= heads[k].until
    BY <2>1, <2>4, UpsertedProperties, RetentionsLast DEF RecordPending, TypeOK
  <2>5. ASSUME NEW c \in Conversations, NEW r \in ResponseIds,
               NEW decisions \in BoundedSeq(Decisions), NEW result \in ResponseIds,
               ConsumePending(c, r, decisions, result)
        PROVE  heads'[k].until >= heads[k].until
    <3>1. heads[<<c, r>>].provider \in ResponseIds
      BY <2>1, <2>5, LiveHeadProvider DEF ConsumePending, Consumable
    <3> QED BY <2>1, <2>5, <3>1, UpsertedProperties, RetentionsLast
            DEF ConsumePending, TypeOK
  <2>6. CASE Prune \/ SweepHeads
    BY <2>1, <2>6, UnexpiredHeadsProperties DEF Prune, SweepHeads
  <2>7. CASE Tick
    BY <2>1, <2>7 DEF Tick
  <2> QED BY <2>2, <2>3, <2>4, <2>5, <2>6, <2>7 DEF Next
<1> QED BY <1>1, Invariance, PTL DEF Spec, HeadKeptUntilExpiry

\* No call decides an approval a second time, reopens it, or forgets the
\* decision before it expires: decisions are single-use.
THEOREM DecisionsAreFinal == Spec => DecisionFinal
<1> DEFINE Final == \A row \in pending :
             row.status = "consumed" /\ row.until > now' => row \in pending'
<1>1. IInv /\ [Next]_vars => [Final]_vars
  <2> SUFFICES ASSUME IInv, Next, NEW row \in pending,
                      row.status = "consumed", row.until > now'
               PROVE  row \in pending'
    BY DEF Final
  <2>1. ASSUME NEW c \in Conversations, NEW r \in ResponseIds,
               NEW decisions \in BoundedSeq(Decisions), NEW result \in ResponseIds,
               ConsumePending(c, r, decisions, result)
        PROVE  row \in pending'
    <3>1. row \notin LiveRows(c, r)
      BY DEF LiveRows
    <3>2. pending \ LiveRows(c, r) \subseteq pending'
      BY <2>1 DEF ConsumePending, Consumable
    <3> QED BY <3>1, <3>2
  <2>2. CASE Prune
    BY <2>2 DEF Prune
  <2>3. CASE SweepHeads \/ Tick
    BY <2>3 DEF SweepHeads, Tick
  <2>4. ASSUME NEW c \in Conversations, NEW r \in ResponseIds,
               \/ Resolve(c, r)
               \/ \E p \in ResponseIds :
                    \/ \E d \in HeadRetentions : Record(c, r, p, d)
                    \/ \E actions \in BoundedSeq(Approvals) :
                         RecordPending(c, r, p, actions)
        PROVE  row \in pending'
    BY <2>4 DEF Resolve, Record, RecordPending
  <2> QED BY <2>1, <2>2, <2>3, <2>4 DEF Next
<1> QED BY <1>1, Invariance, PTL DEF Spec, DecisionFinal

\* A pending approval leaves the pending state before it expires only by being
\* decided with its whole group, in a step that also leaves a result to
\* continue from.
THEOREM DecisionsLeaveAResult == Spec => DecidedWithResult
<1> DEFINE Leaves(row) ==
             /\ \A x \in pending' : SameGroup(x, row) => x.status = "consumed"
             /\ \E x \in pending' : ~ (x \in pending) /\ Conflict(x, row)
             /\ \E result \in ResponseIds :
                  /\ heads'[<<row.conv, result>>].until >= now + OrdinaryRetention
                  /\ heads'[<<row.conv, result>>].provider =
                       heads[<<row.conv, row.resp>>].provider
           Left == \A row \in pending :
             row.status = "pending" /\ row.until > now' /\ row \notin pending' => Leaves(row)
<1>1. IInv /\ [Next]_vars => [Left]_vars
  <2> SUFFICES ASSUME IInv, Next, NEW row \in pending,
                      row.status = "pending", row.until > now', row \notin pending'
               PROVE  Leaves(row)
    BY DEF Left
  <2> HIDE DEF Leaves
  <2>1. ASSUME NEW c \in Conversations, NEW r \in ResponseIds,
               NEW decisions \in BoundedSeq(Decisions), NEW result \in ResponseIds,
               ConsumePending(c, r, decisions, result)
        PROVE  Leaves(row)
    <3> DEFINE live == LiveRows(c, r)
    <3>1. PICK order \in OrdinalOrders(Len(decisions), live) :
            pending' = (pending \ live) \cup
              {[order[i] EXCEPT !.status = "consumed",
                                !.approved = decisions[i].approved] :
                 i \in DOMAIN decisions}
      BY <2>1 DEF ConsumePending
    <3>2. /\ \A i \in DOMAIN decisions : order[i] \in live
          /\ \A x \in live : \E i \in DOMAIN decisions : order[i] = x
          /\ live \subseteq pending /\ pending \subseteq PendingRow
          /\ now' = now /\ TypeOK
      <4>1. TypeOK
        BY DEF IInv
      <4>2. /\ \A i \in DOMAIN decisions : order[i] \in live
            /\ \A x \in live : \E i \in DOMAIN decisions : order[i] = x
        BY <4>1, ConsumedRowsProperties
      <4>3. live \subseteq pending /\ pending \subseteq PendingRow /\ now' = now
        BY <2>1, <4>1 DEF TypeOK, LiveRows, ConsumePending
      <4> QED BY <4>1, <4>2, <4>3
    <3>3. row \in live
      BY <3>1
    <3>4. row.conv = c /\ row.resp = r
      BY <3>3 DEF LiveRows
    <3>5. ASSUME NEW x \in pending', SameGroup(x, row)
          PROVE  x.status = "consumed"
      <4>1. CASE x \in pending \ live
        <5>1. x.status = row.status /\ x.until = row.until
          BY <3>5, <4>1 DEF IInv, GroupAllOrNothing
        <5>2. x \in live
          BY <3>2, <3>4, <3>5, <4>1, <5>1 DEF LiveRows, SameGroup
        <5> QED BY <4>1, <5>2
      <4>2. CASE x \notin pending \ live
        <5>1. PICK i \in DOMAIN decisions :
                x = [order[i] EXCEPT !.status = "consumed",
                                     !.approved = decisions[i].approved]
          BY <3>1, <4>2
        <5>2. order[i] \in PendingRow
          BY <3>2
        <5> QED BY <5>1, <5>2 DEF PendingRow
      <4> QED BY <4>1, <4>2
    <3>6. \E x \in pending' : x \notin pending /\ Conflict(x, row)
      <4>1. PICK i \in DOMAIN decisions : order[i] = row
        BY <3>2, <3>3
      <4> DEFINE x == [row EXCEPT !.status = "consumed",
                                  !.approved = decisions[i].approved]
      <4>2. x \in pending'
        BY <3>1, <4>1
      <4>3. row \in PendingRow
        BY <3>2
      <4>4. /\ x.conv = row.conv /\ x.resp = row.resp
            /\ x.approval = row.approval /\ x.status = "consumed"
        BY <4>3 DEF PendingRow
      <4>5. Conflict(x, row)
        BY <4>4 DEF Conflict
      <4>6. x \notin pending
        <5> SUFFICES ASSUME x \in pending PROVE FALSE
          OBVIOUS
        <5>1. x = row
          BY <4>5 DEF IInv, UniqueRows
        <5> QED BY <4>4, <5>1
      <4> HIDE DEF x
      <4> QED BY <4>2, <4>5, <4>6
    <3>7. /\ heads'[<<c, result>>].until >= now + OrdinaryRetention
          /\ heads'[<<c, result>>].provider = heads[<<c, r>>].provider
      <4>1. heads[<<c, r>>].provider \in ResponseIds
        BY <2>1, <3>2, LiveHeadProvider DEF ConsumePending, Consumable
      <4>2. /\ heads' = Upserted(heads, c, result, heads[<<c, r>>].provider, OrdinaryRetention)
            /\ heads \in [Keys -> HeadRow] /\ <<c, result>> \in Keys
        BY <2>1, <3>2 DEF ConsumePending, TypeOK, Keys
      <4>3. heads'[<<c, result>>].until >= now + OrdinaryRetention
        BY <3>2, <4>1, <4>2, UpsertedProperties, RetentionsLast
      <4>4. heads'[<<c, result>>].provider = heads[<<c, r>>].provider
        BY <4>2 DEF Upserted
      <4> QED BY <4>3, <4>4
    <3> QED BY <3>4, <3>5, <3>6, <3>7 DEF Leaves
  <2>2. CASE Prune
    <3>1. row \in pending'
      BY <2>2 DEF Prune
    <3> QED BY <3>1
  <2>3. CASE SweepHeads \/ Tick
    BY <2>3 DEF SweepHeads, Tick
  <2>4. ASSUME NEW c \in Conversations, NEW r \in ResponseIds,
               \/ Resolve(c, r)
               \/ \E p \in ResponseIds :
                    \/ \E d \in HeadRetentions : Record(c, r, p, d)
                    \/ \E actions \in BoundedSeq(Approvals) :
                         RecordPending(c, r, p, actions)
        PROVE  row \in pending'
    BY <2>4 DEF Resolve, Record, RecordPending
  <2> QED BY <2>1, <2>2, <2>3, <2>4 DEF Next
<1> QED BY <1>1, Invariance, PTL DEF Spec, DecidedWithResult

\* The rows of a response are numbered from 0 without a gap: recordPending
\* refuses to add to what has lost a row, and consumePending and prune never
\* take a part of a group.
THEOREM GroupsAreComplete == Spec => []GroupComplete
<1>1. IInv => GroupComplete
  BY DEF IInv
<1> QED BY <1>1, Invariance, PTL

-----------------------------------------------------------------------------
(* The store implements the continuation ledger: every call of it, seen    *)
(* through the rows that are live, is one step of ContinuationLedger or no *)
(* step at all.                                                            *)

\* The facts about the current state each case below needs.
LEMMA LiveFacts ==
  ASSUME IInv
  PROVE  /\ TypeOK /\ now \in Nat
         /\ \A k \in Keys : heads[k] \in HeadRow /\ heads[k].until \in Nat
         /\ \A row \in pending : row \in PendingRow /\ row.until \in Nat
         /\ \A row \in pending : <<row.conv, row.resp>> \in Keys
BY BoundAssumption DEF IInv, TypeOK, HeadRow, NoHead, PendingRow, Keys

\* A head that was and stays live, or was and stays dead, with the same
\* provider, maps to the same entry of the ledger.
LEMMA SameMapping ==
  ASSUME NEW k \in Keys,
         \/ heads'[k] = heads[k] /\ now' = now
         \/ heads[k].until <= now /\ heads'[k].until <= now' /\
              heads[k].until \in Nat /\ heads'[k].until \in Nat /\
              now \in Nat /\ now' \in Nat
  PROVE  mapping'[k] = mapping[k]
BY DEF mapping

\* The approvals of the ledger depend on the live rows only.
LEMMA SameRows ==
  ASSUME \A row : (row \in pending' /\ row.until > now') <=>
                  (row \in pending /\ row.until > now)
  PROVE  open' = open /\ decided' = decided
<1>1. \A k, status : LiveGroup(k, status)' = LiveGroup(k, status)
  BY DEF LiveGroup
<1> QED BY <1>1 DEF open, decided

LEMMA InitRefines == Init => Ledger!Init
<1> SUFFICES ASSUME Init PROVE Ledger!Init
  OBVIOUS
<1>1. \A k \in Keys : heads[k].until = 0 /\ now = 0
  BY DEF Init, NoHead
<1>2. mapping = [k \in Keys |-> None]
  BY <1>1 DEF mapping
<1>3. \A k, status : LiveGroup(k, status) = {}
  BY DEF LiveGroup, Init
<1>4. open = [k \in Keys |-> {}] /\ decided = [k \in Keys |-> {}]
  BY <1>3 DEF open, decided
<1> QED BY <1>2, <1>4 DEF Ledger!Init, Ledger!Keys, Keys

LEMMA ResolveRefines ==
  ASSUME IInv, NEW c \in Conversations, NEW r \in ResponseIds, Resolve(c, r)
  PROVE  UNCHANGED <<mapping, open, decided>>
<1>1. pending' = pending /\ now' = now /\ now \in Nat
  BY LiveFacts DEF Resolve
<1>2. ASSUME NEW k \in Keys PROVE mapping'[k] = mapping[k]
  <2>1. CASE heads'[k] = heads[k]
    BY <1>1, <2>1, SameMapping
  <2>2. CASE heads'[k] # heads[k]
    <3>1. k = <<c, r>> /\ ~ Live(c, r) /\ heads'[k] = NoHead
      BY <2>2, LiveFacts DEF Resolve, TypeOK
    <3> QED BY <1>1, <3>1, LiveFacts, SameMapping DEF Live, NoHead
  <2> QED BY <2>1, <2>2
<1>3. mapping' = mapping
  BY <1>2 DEF mapping
<1> QED BY <1>1, <1>3, SameRows

LEMMA SweepRefines ==
  ASSUME IInv, SweepHeads \/ Prune
  PROVE  UNCHANGED <<mapping, open, decided>>
<1>1. heads' = UnexpiredHeads /\ now' = now
  BY DEF SweepHeads, Prune
<1>2. ASSUME NEW k \in Keys PROVE mapping'[k] = mapping[k]
  <2>1. CASE heads[k].until > now
    BY <1>1, <2>1, LiveFacts, UnexpiredHeadsProperties, SameMapping
  <2>2. CASE ~ (heads[k].until > now)
    <3>1. heads'[k] = NoHead /\ heads'[k].until = 0
      BY <1>1, <2>2, LiveFacts DEF UnexpiredHeads, NoHead
    <3> QED BY <1>1, <2>2, <3>1, LiveFacts, SameMapping
  <2> QED BY <2>1, <2>2
<1>3. mapping' = mapping
  BY <1>2 DEF mapping
<1>4. \A row : (row \in pending' /\ row.until > now') <=>
               (row \in pending /\ row.until > now)
  BY <1>1 DEF SweepHeads, Prune
<1> QED BY <1>3, <1>4, SameRows

\* An upsert for a retention of at least one tick is seen by the ledger as the
\* assignment of one entry.
LEMMA UpsertRefines ==
  ASSUME IInv, NEW hs \in [Keys -> HeadRow], NEW c \in Conversations,
         NEW r \in ResponseIds, NEW p \in ResponseIds,
         NEW d \in Nat \ {0},
         \A k \in Keys : \/ hs[k] = heads[k]
                         \/ heads[k].until <= now /\ hs[k] = NoHead,
         heads' = Upserted(hs, c, r, p, d), now' = now
  PROVE  mapping' = [mapping EXCEPT ![<<c, r>>] = p]
<1> DEFINE up == Upserted(hs, c, r, p, d)
<1>0. TypeOK /\ heads' = up
  BY LiveFacts
<1>1. /\ up \in [Keys -> HeadRow]
      /\ \A k \in Keys : k # <<c, r>> => up[k] = hs[k]
      /\ up[<<c, r>>].until >= now + d
      /\ up[<<c, r>>].provider = p
  BY <1>0, UpsertedProperties
<1> HIDE DEF up
<1>2. <<c, r>> \in Keys /\ heads'[<<c, r>>].until \in Nat
  BY <1>0, <1>1 DEF Keys, HeadRow, NoHead
<1>3. mapping'[<<c, r>>] = p
  BY <1>0, <1>1, <1>2, LiveFacts DEF mapping
<1>4. ASSUME NEW k \in Keys, k # <<c, r>> PROVE mapping'[k] = mapping[k]
  BY <1>0, <1>1, <1>4, LiveFacts, SameMapping DEF NoHead
<1> QED BY <1>2, <1>3, <1>4 DEF mapping

LEMMA RecordRefines ==
  ASSUME IInv, NEW c \in Conversations, NEW r \in ResponseIds,
         NEW p \in ResponseIds, NEW d \in HeadRetentions, Record(c, r, p, d)
  PROVE  Ledger!Advance(c, r, p)
<1>1. d \in Nat \ {0}
  BY RetentionAssumption DEF Record
<1>2. UnexpiredHeads \in [Keys -> HeadRow]
  BY LiveFacts, UnexpiredHeadsProperties
<1>3. \A k \in Keys : \/ UnexpiredHeads[k] = heads[k]
                      \/ heads[k].until <= now /\ UnexpiredHeads[k] = NoHead
  BY DEF UnexpiredHeads
<1>4. mapping' = [mapping EXCEPT ![<<c, r>>] = p]
  BY <1>1, <1>2, <1>3, UpsertRefines DEF Record
<1>5. open' = open /\ decided' = decided
  BY SameRows DEF Record
<1> QED BY <1>4, <1>5 DEF Ledger!Advance

LEMMA RecordPendingRefines ==
  ASSUME IInv, NEW c \in Conversations, NEW r \in ResponseIds,
         NEW p \in ResponseIds, NEW actions \in BoundedSeq(Approvals),
         RecordPending(c, r, p, actions)
  PROVE  \E approvals \in SUBSET Approvals :
           approvals # {} /\ Ledger!Offer(c, r, p, approvals)
<1> DEFINE new == NewRows(c, r, actions)
           asked == {row.approval : row \in new}
           k == <<c, r>>
<1>1. /\ \A row \in new, other \in pending : ~ Conflict(row, other)
      /\ pending' = pending \cup new /\ now' = now
      /\ heads' = Upserted(heads, c, r, p, OrdinaryRetention)
  BY DEF RecordPending, Insertable
<1>2. /\ new \subseteq PendingRow
      /\ \A row \in new : /\ row.conv = c /\ row.resp = r /\ row.status = "pending"
                          /\ row.until = now + PendingRetention
      /\ \E row \in new : row.ordinal = 0
  BY LiveFacts, NewRowsProperties
<1> HIDE DEF new
<1>3. \A row \in new : <<row.conv, row.resp>> = k /\ row.until > now
  BY <1>2, LiveFacts, RetentionAssumption
<1>4. \A row \in pending : <<row.conv, row.resp>> # k
  <2> SUFFICES ASSUME NEW row \in pending, row.conv = c, row.resp = r PROVE FALSE
    OBVIOUS
  <2>1. PICK zero \in new : zero.ordinal = 0
    BY <1>2
  <2>2. 0 \in 0..row.ordinal
    BY LiveFacts, BoundAssumption DEF PendingRow
  <2>3. PICK held \in pending : SameGroup(row, held) /\ held.ordinal = 0
    BY <2>2 DEF IInv, GroupComplete
  <2> QED BY <1>1, <1>2, <2>1, <2>3 DEF Conflict, SameGroup
<1>5. \A status : LiveGroup(k, status) = {}
  BY <1>4 DEF LiveGroup
<1>6. \A j, status : j # k => LiveGroup(j, status)' = LiveGroup(j, status)
  BY <1>1, <1>3 DEF LiveGroup
<1>7. LiveGroup(k, "pending")' = new /\ LiveGroup(k, "consumed")' = {}
  BY <1>1, <1>2, <1>3, <1>4 DEF LiveGroup
<1>8. k \in Keys
  BY DEF Keys
<1> HIDE DEF k
<1>9. open[k] = {} /\ decided[k] = {}
  BY <1>5, <1>8 DEF open, decided
<1>10. open' = [open EXCEPT ![k] = asked]
  BY <1>6, <1>7, <1>8 DEF open
<1>11. decided' = decided
  BY <1>5, <1>6, <1>7 DEF decided
<1>12. mapping' = [mapping EXCEPT ![k] = p]
  BY <1>1, LiveFacts, RetentionsLast, UpsertRefines DEF TypeOK, k
<1>13. asked \in SUBSET Approvals /\ asked # {}
  BY <1>2 DEF PendingRow
<1> HIDE DEF asked
<1> QED BY <1>9, <1>10, <1>11, <1>12, <1>13 DEF Ledger!Offer, k

LEMMA ConsumePendingRefines ==
  ASSUME IInv, NEW c \in Conversations, NEW r \in ResponseIds,
         NEW decisions \in BoundedSeq(Decisions), NEW result \in ResponseIds,
         ConsumePending(c, r, decisions, result)
  PROVE  \E verdict \in [Approvals -> BOOLEAN] :
           Ledger!Decide(c, r, verdict, result)
<1> DEFINE live == LiveRows(c, r)
           k == <<c, r>>
           verdict == [a \in Approvals |->
             \E i \in DOMAIN decisions :
               decisions[i].approval = a /\ decisions[i].approved = TRUE]
<1>1. PICK order \in OrdinalOrders(Len(decisions), live) :
        /\ \A i \in DOMAIN decisions : order[i].approval = decisions[i].approval
        /\ pending' = (pending \ live) \cup
             {[order[i] EXCEPT !.status = "consumed",
                               !.approved = decisions[i].approved] :
                i \in DOMAIN decisions}
  BY DEF ConsumePending, Consumable
<1>2. /\ Live(c, r) /\ now' = now
      /\ heads' = Upserted(heads, c, result, heads[k].provider, OrdinaryRetention)
  BY DEF ConsumePending, Consumable
<1>3. /\ DOMAIN decisions = 1..Len(decisions) /\ DOMAIN decisions # {}
      /\ \A i \in DOMAIN decisions :
           decisions[i] \in Decisions /\ order[i] \in live
      /\ \A row \in live : \E i \in DOMAIN decisions : order[i] = row
  BY LiveFacts, ConsumedRowsProperties, BoundedSeqProperties
<1> DEFINE Done(i) == [order[i] EXCEPT !.status = "consumed",
                                       !.approved = decisions[i].approved]
<1>4. \A row \in pending : row \in live <=>
        /\ row.conv = c /\ row.resp = r
        /\ row.status = "pending" /\ row.until > now
  BY DEF LiveRows
<1>5. live \subseteq pending
  BY DEF LiveRows
<1> HIDE DEF live
<1>6. ASSUME NEW i \in DOMAIN decisions
      PROVE  /\ Done(i).status = "consumed" /\ Done(i).until > now
             /\ <<Done(i).conv, Done(i).resp>> = k
             /\ Done(i).approval = order[i].approval
             /\ Done(i).approved = decisions[i].approved
  <2>1. order[i] \in PendingRow /\ order[i].conv = c /\ order[i].resp = r
           /\ order[i].until > now
    BY <1>3, <1>4, <1>5, LiveFacts DEF TypeOK
  <2> DEFINE d == decisions[i].approved
  <2> HIDE DEF d
  <2>2. Done(i) = [order[i] EXCEPT !.status = "consumed", !.approved = d]
    BY DEF d
  <2> QED BY <2>1, <2>2 DEF PendingRow, d
<1>7. pending' = (pending \ live) \cup {Done(i) : i \in DOMAIN decisions}
  BY <1>1
<1> HIDE DEF Done
<1>8. k \in Keys /\ <<c, result>> \in Keys
  BY DEF Keys
\* No row of the group is left undecided, and none was decided before.
<1>9. /\ LiveGroup(k, "pending") = live /\ live # {}
      /\ LiveGroup(k, "pending")' = {}
  BY <1>2, <1>3, <1>4, <1>5, <1>6, <1>7 DEF LiveGroup
<1>10. LiveGroup(k, "consumed") = {}
  <2> SUFFICES ASSUME NEW x \in LiveGroup(k, "consumed") PROVE FALSE
    OBVIOUS
  <2>1. PICK y \in live : TRUE
    BY <1>9
  <2>2. x \in pending /\ y \in pending /\ SameGroup(x, y) /\ x.status = "consumed"
           /\ y.status = "pending"
    BY <1>4, <1>5, <2>1 DEF LiveGroup, SameGroup
  <2> QED BY <2>2 DEF IInv, GroupAllOrNothing
<1>11. LiveGroup(k, "consumed")' = {Done(i) : i \in DOMAIN decisions}
  BY <1>2, <1>4, <1>5, <1>6, <1>7, <1>10 DEF LiveGroup
<1>12. \A j, status : j # k => LiveGroup(j, status)' = LiveGroup(j, status)
  BY <1>2, <1>4, <1>5, <1>6, <1>7 DEF LiveGroup
<1>13. open' = [open EXCEPT ![k] = {}] /\ open[k] = {row.approval : row \in live}
  <2>1. open[k] = {row.approval : row \in live}
    BY <1>8, <1>9 DEF open
  <2>2. \A j \in Keys : open'[j] = IF j = k THEN {} ELSE open[j]
    BY <1>8, <1>9, <1>12 DEF open
  <2> QED BY <1>8, <2>1, <2>2 DEF open
\* Each approval has one row, so its verdict is the decision of that row.
<1>14. ASSUME NEW i \in DOMAIN decisions
       PROVE  /\ order[i].approval \in Approvals
              /\ verdict[order[i].approval] = decisions[i].approved
  <2>1. decisions[i].approved \in BOOLEAN
    BY <1>3, Zenon DEF Decisions
  <2>2. order[i].approval \in Approvals
    BY <1>3, <1>5, LiveFacts DEF PendingRow
  <2>3. ASSUME NEW j \in DOMAIN decisions, decisions[j].approval = order[i].approval
        PROVE  j = i
    <3>1. order[j] \in pending /\ order[i] \in pending /\ Conflict(order[j], order[i])
      <4>1. /\ order[j] \in live /\ order[i] \in live
            /\ order[j].approval = decisions[j].approval
        BY <1>1, <1>3
      <4> QED BY <1>4, <1>5, <2>3, <4>1 DEF Conflict
    <3>2. order[j] = order[i]
      BY <3>1 DEF IInv, UniqueRows
    <3> QED BY <1>3, <3>2 DEF OrdinalOrders, Bijection, Injection, IsInjective
  <2>4. verdict[order[i].approval] <=> decisions[i].approved = TRUE
    BY <1>1, <2>2, <2>3, Zenon
  <2>5. verdict[order[i].approval] \in BOOLEAN
    BY <2>2, Zenon
  <2> QED BY <2>1, <2>2, <2>4, <2>5, Zenon
<1>15. verdict \in [Approvals -> BOOLEAN]
  BY Zenon
<1> HIDE DEF verdict
<1>16. {[approval |-> row.approval, approved |-> row.approved] :
          row \in {Done(i) : i \in DOMAIN decisions}} =
       {[approval |-> a, approved |-> verdict[a]] : a \in open[k]}
  <2> DEFINE Pair(i) == [approval |-> order[i].approval,
                         approved |-> decisions[i].approved]
  <2>1. {[approval |-> row.approval, approved |-> row.approved] :
           row \in {Done(i) : i \in DOMAIN decisions}} =
        {Pair(i) : i \in DOMAIN decisions}
    <3>1. \A i \in DOMAIN decisions :
            [approval |-> Done(i).approval, approved |-> Done(i).approved] = Pair(i)
      BY <1>6
    <3> HIDE DEF Pair
    <3> QED BY <3>1
  <2>2. \A a : a \in open[k] <=> \E i \in DOMAIN decisions : a = order[i].approval
    BY <1>3, <1>13
  <2>3. \A i \in DOMAIN decisions :
          Pair(i) = [approval |-> order[i].approval,
                     approved |-> verdict[order[i].approval]]
    BY <1>14
  <2> DEFINE Verdict(a) == [approval |-> a, approved |-> verdict[a]]
  <2>4. \A i \in DOMAIN decisions : Pair(i) = Verdict(order[i].approval)
    BY <2>3
  <2> HIDE DEF Pair, Verdict
  <2>5. {Pair(i) : i \in DOMAIN decisions} = {Verdict(a) : a \in open[k]}
    BY <2>2, <2>4
  <2> QED BY <2>1, <2>5 DEF Verdict
<1>17. decided' = [decided EXCEPT ![k] =
                     {[approval |-> a, approved |-> verdict[a]] : a \in open[k]}]
  <2> DEFINE new == {[approval |-> a, approved |-> verdict[a]] : a \in open[k]}
  <2>1. decided'[k] = new
    BY <1>8, <1>11, <1>16 DEF decided
  <2>2. \A j \in Keys : j # k => decided'[j] = decided[j]
    BY <1>12 DEF decided
  <2> HIDE DEF new
  <2>3. decided' = [decided EXCEPT ![k] = new]
    BY <1>8, <2>1, <2>2 DEF decided
  <2> QED BY <2>3 DEF new
<1>18. mapping[k] = heads[k].provider
  BY <1>2, <1>8 DEF mapping, Live
<1>19. mapping' = [mapping EXCEPT ![<<c, result>>] = mapping[k]]
  <2>1. heads[k].provider \in ResponseIds /\ heads \in [Keys -> HeadRow]
    BY <1>2, LiveFacts, LiveHeadProvider DEF TypeOK
  <2> QED BY <1>2, <1>18, <2>1, RetentionsLast, UpsertRefines
<1>20. open[k] # {}
  BY <1>9, <1>13
<1>21. mapping[k] # None
  BY <1>2, <1>18, LiveFacts, LiveHeadProvider, NoneAssumption
<1> HIDE DEF k
<1> QED BY <1>13, <1>15, <1>17, <1>19, <1>20, <1>21 DEF Ledger!Decide, k

\* The clock makes whole groups lapse, and each with or before its response.
LEMMA TickRefines ==
  ASSUME IInv, Tick
  PROVE  \E responses, requests \in SUBSET Keys : Ledger!Lapse(responses, requests)
<1> DEFINE responses == {k \in Keys : heads[k].until <= now'}
           requests == {k \in Keys : \E row \in pending :
                          <<row.conv, row.resp>> = k /\ row.until <= now'}
<1>1. /\ heads' = heads /\ pending' = pending /\ now' = now + 1 /\ now \in Nat
  BY LiveFacts DEF Tick
<1>2. ASSUME NEW k \in responses PROVE open[k] = {} \/ k \in requests
  <2> SUFFICES ASSUME NEW row \in LiveGroup(k, "pending") PROVE k \in requests
    BY DEF open
  <2>1. /\ row \in pending /\ <<row.conv, row.resp>> = k /\ row.until > now
    BY DEF LiveGroup
  <2>2. heads[k].until >= row.until
    BY <2>1 DEF IInv, Covered
  <2>3. row.until \in Nat /\ heads[k].until \in Nat
    BY <2>1, LiveFacts
  <2> QED BY <1>1, <2>1, <2>2, <2>3
<1>3. mapping' = [k \in Keys |-> IF k \in responses THEN None ELSE mapping[k]]
  <2>1. ASSUME NEW k \in Keys
        PROVE  mapping'[k] = IF k \in responses THEN None ELSE mapping[k]
    <3>1. heads[k].until \in Nat
      BY LiveFacts
    <3> QED BY <1>1, <3>1 DEF mapping
  <2> HIDE DEF responses
  <2> QED BY <2>1 DEF mapping
<1>4. ASSUME NEW k \in Keys, NEW status
      PROVE  LiveGroup(k, status)' =
               IF k \in requests THEN {} ELSE LiveGroup(k, status)
  <2>1. CASE k \in requests
    <3>1. PICK x \in pending : <<x.conv, x.resp>> = k /\ x.until <= now'
      BY <2>1
    <3>2. ASSUME NEW y \in pending, <<y.conv, y.resp>> = k PROVE ~ (y.until > now')
      <4>1. y.until = x.until
        BY <3>1, <3>2 DEF IInv, GroupAllOrNothing, SameGroup
      <4> QED BY <1>1, <3>1, <4>1, LiveFacts
    <3> QED BY <1>1, <2>1, <3>2 DEF LiveGroup
  <2>2. CASE k \notin requests
    <3>1. \A y \in pending : <<y.conv, y.resp>> = k => y.until > now' /\ y.until > now
      BY <1>1, <2>2, LiveFacts
    <3> QED BY <1>1, <2>2, <3>1 DEF LiveGroup
  <2> QED BY <2>1, <2>2
<1> HIDE DEF responses, requests
<1>5. open' = [k \in Keys |-> IF k \in requests THEN {} ELSE open[k]]
  <2>1. ASSUME NEW k \in Keys
        PROVE  open'[k] = IF k \in requests THEN {} ELSE open[k]
    BY <1>4 DEF open
  <2> QED BY <2>1 DEF open
<1>6. decided' = [k \in Keys |-> IF k \in requests THEN {} ELSE decided[k]]
  <2>1. ASSUME NEW k \in Keys
        PROVE  decided'[k] = IF k \in requests THEN {} ELSE decided[k]
    BY <1>4 DEF decided
  <2> QED BY <2>1 DEF decided
<1>7. responses \in SUBSET Keys /\ requests \in SUBSET Keys
  BY DEF responses, requests
<1>8. Ledger!Lapse(responses, requests)
  BY <1>2, <1>3, <1>5, <1>6 DEF Ledger!Lapse, Ledger!Keys, Keys
<1> QED BY <1>7, <1>8

LEMMA NextRefines ==
  IInv /\ [Next]_vars => [Ledger!Next]_<<mapping, open, decided>>
<1> SUFFICES ASSUME IInv, [Next]_vars
             PROVE  Ledger!Next \/ UNCHANGED <<mapping, open, decided>>
  OBVIOUS
<1>1. ASSUME NEW c \in Conversations, NEW r \in ResponseIds, Resolve(c, r)
      PROVE  UNCHANGED <<mapping, open, decided>>
  BY <1>1, ResolveRefines
<1>2. ASSUME NEW c \in Conversations, NEW r \in ResponseIds, NEW p \in ResponseIds,
             NEW d \in HeadRetentions, Record(c, r, p, d)
      PROVE  Ledger!Next
  BY <1>2, RecordRefines DEF Ledger!Next
<1>3. ASSUME NEW c \in Conversations, NEW r \in ResponseIds, NEW p \in ResponseIds,
             NEW actions \in BoundedSeq(Approvals), RecordPending(c, r, p, actions)
      PROVE  Ledger!Next
  BY <1>3, RecordPendingRefines DEF Ledger!Next
<1>4. ASSUME NEW c \in Conversations, NEW r \in ResponseIds,
             NEW decisions \in BoundedSeq(Decisions), NEW result \in ResponseIds,
             ConsumePending(c, r, decisions, result)
      PROVE  Ledger!Next
  BY <1>4, ConsumePendingRefines DEF Ledger!Next
<1>5. CASE Prune \/ SweepHeads
  BY <1>5, SweepRefines
<1>6. CASE Tick
  BY <1>6, TickRefines DEF Ledger!Next, Ledger!Keys, Keys
<1>7. CASE UNCHANGED vars
  BY <1>7 DEF vars, mapping, open, decided, LiveGroup
<1> QED BY <1>1, <1>2, <1>3, <1>4, <1>5, <1>6, <1>7 DEF Next

\* The store of state-store.mjs implements the ledger the contract promises:
\* approvals are decided as a whole and once, the result continues from the
\* provider response of the request, and nothing is forgotten before its time.
THEOREM StoreImplementsLedger == Spec => ImplementsLedger
BY InitRefines, NextRefines, Invariance, PTL
   DEF Spec, ImplementsLedger, Ledger!Spec, Ledger!vars
=============================================================================
