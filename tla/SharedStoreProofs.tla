-------------------------- MODULE SharedStoreProofs --------------------------
(***************************************************************************)
(* Proofs about the store of the FastAPI edition on one file shared by any *)
(* number of processes, for any conversations, responses, approvals,       *)
(* retentions and clock bound.                                             *)
(*                                                                         *)
(* A call decides by what it read and writes later, so the invariant says  *)
(* of every call under way what is still true of what it read.  It rests   *)
(* on the ids: a response is recorded by one call only, and a result stands*)
(* for one set of decisions, so no key on file is written a second time.   *)
(***************************************************************************)
EXTENDS SharedStore, FiniteSetTheorems, TLAPS

Owners ==
  {Unused, Provided} \cup {Digest(k, d) : k \in Keys, d \in DistinctDecisions}

CallRecord ==
  [op : Ops, key : Keys \cup {<<>>}, actions : BoundedSeq(Approvals) \cup {<<>>},
   decisions : DistinctDecisions \cup {<<>>}, result : ResponseIds \cup {None},
   provider : ResponseIds \cup {None}, current : Nat, found : SUBSET Keys]

KeyOf(row) == <<row.conv, row.resp>>

RowsOf(k) == {row \in pending : KeyOf(row) = k}

Recording == {p \in Processes : call[p].op \in {"record", "record_pending"}}

-----------------------------------------------------------------------------
(* The inductive invariant.                                                *)

Types ==
  /\ TypeOK
  /\ call \in [Processes -> CallRecord]
  /\ owner \in [ResponseIds -> Owners]

\* What is still true of what a call has read or was called with
CallOf(s) ==
  /\ s.op = "none" => s = NoCall
  /\ s.op \in {"record", "record_pending"} =>
       s.key \in Keys \ known /\ owner[s.key[2]] = Provided
  /\ s.op = "record_pending" => s.actions \in BoundedSeq(Approvals)
  /\ s.op \in {"consume", "update"} =>
       /\ s.key \in known /\ s.decisions \in DistinctDecisions
       /\ s.result \in ResponseIds /\ s.provider \in ResponseIds
       /\ owner[s.result] = Digest(s.key, s.decisions)
       /\ heads[s.key] # File!NoHead => heads[s.key].provider = s.provider
  /\ s.op = "update" => \A row \in RowsOf(s.key) :
       \E i \in DOMAIN s.decisions : s.decisions[i].approval = row.approval
  /\ s.op = "delete" => s.key \in known
  /\ s.op = "resolve" =>
       /\ s.key \in Keys /\ s.found \subseteq known \cap {s.key}
       /\ s.found # {} => ~ File!hasPending(s.key[1], s.key[2])
  /\ s.op = "delete" => heads[s.key].until <= now

Calls == \A p \in Processes : CallOf(call[p])

\* A response is recorded by one call.
Alone == \A p, q \in Recording : call[p].key[2] = call[q].key[2] => p = q

\* A response that is known to clients was made for something, and the result
\* of decisions is known only when they were acted upon.
Made ==
  \A k \in known :
    /\ owner[k[2]] # Unused
    /\ \A q \in Keys, d \in DistinctDecisions :
         owner[k[2]] = Digest(q, d) => acted[q] >= 1

\* Nothing is on file but what was committed.
OnFile ==
  /\ \A k \in Keys : heads[k] # File!NoHead => k \in known
  /\ \A row \in pending : KeyOf(row) \in known
  /\ \A k \in Keys : acted[k] >= 1 => k \in known

\* Approvals that were acted upon are decided.
ActedRows == \A k \in Keys : acted[k] >= 1 => \A row \in RowsOf(k) : row.status = "consumed"

OneRowEach ==
  \A x, y \in pending : KeyOf(x) = KeyOf(y) /\ x.approval = y.approval => x = y

Covered == \A row \in pending : row.until > now => heads[KeyOf(row)].until >= row.until

IInv ==
  /\ Types /\ Calls /\ Alone /\ Made /\ OnFile
  /\ ActedRows /\ ActedOnce /\ OneRowEach /\ Covered
  /\ GroupAllOrNothing /\ NoneGoesPast
-----------------------------------------------------------------------------
(* The operators of the file.                                              *)

LEMMA Constants ==
  /\ OrdinaryRetention \in Nat \ {0} /\ PendingRetention \in Nat \ {0}
  /\ PendingRetention <= OrdinaryRetention
  /\ BusyTimeout \in Nat /\ BusyTimeout < PendingRetention
  /\ MaxActions \in Nat \ {0} /\ MaxTime \in Nat /\ None \notin ResponseIds
BY NoneAssumption, RetentionAssumption, BusyAssumption, BoundAssumption

LEMMA FileTypes ==
  ASSUME Types
  PROVE  /\ now \in Nat /\ now \in 0..MaxTime
         /\ heads \in [Keys -> File!HeadRow]
         /\ \A k \in Keys : heads[k].until \in Nat
         /\ \A k \in Keys : heads[k] # File!NoHead => heads[k].provider \in ResponseIds
         /\ File!NoHead \in File!HeadRow /\ File!NoHead.until = 0
         /\ pending \subseteq File!PendingRow
         /\ \A row \in pending :
              /\ KeyOf(row) \in Keys /\ row.approval \in Approvals
              /\ row.until \in Nat /\ row.ordinal \in Nat
              /\ row.status \in {"pending", "consumed"}
              /\ row.approved \in BOOLEAN \cup {None}
         /\ known \subseteq Keys /\ passed \subseteq known
         /\ acted \in [Keys -> Nat]
<1>1. /\ now \in 0..MaxTime /\ MaxTime \in Nat
      /\ heads \in [Keys -> File!HeadRow] /\ pending \subseteq File!PendingRow
      /\ known \subseteq Keys /\ passed \subseteq known
      /\ acted \in [Keys -> Nat]
  BY BoundAssumption DEF Types, TypeOK, File!TypeOK, Keys
<1>2. /\ \A k \in Keys : heads[k].until \in Nat
      /\ \A k \in Keys : heads[k] # File!NoHead => heads[k].provider \in ResponseIds
  BY <1>1 DEF File!HeadRow, File!NoHead
<1>3. File!NoHead \in File!HeadRow /\ File!NoHead.until = 0
  BY DEF File!HeadRow, File!NoHead
<1>4. \A row \in pending :
        /\ KeyOf(row) \in Keys /\ row.approval \in Approvals
        /\ row.until \in Nat /\ row.ordinal \in Nat
        /\ row.status \in {"pending", "consumed"}
        /\ row.approved \in BOOLEAN \cup {None}
  BY <1>1, Constants DEF File!PendingRow, KeyOf, Keys, File!Keys
<1> QED BY <1>1, <1>2, <1>3, <1>4

\* The sequences callers pass
LEMMA BoundedSeqFacts ==
  ASSUME NEW S, NEW s \in BoundedSeq(S)
  PROVE  DOMAIN s = 1..Len(s) /\ Len(s) \in 1..MaxActions /\ 1 \in DOMAIN s
         /\ \A i \in DOMAIN s : s[i] \in S
<1>1. PICK n \in 1..MaxActions : s \in [1..n -> S]
  BY DEF BoundedSeq, File!BoundedSeq
<1>2. n \in Nat /\ n >= 1
  BY <1>1, Constants
<1>3. s \in Seq(S) /\ Len(s) = n
  BY <1>1, <1>2
<1> QED BY <1>1, <1>2, <1>3

\* What a transaction that read the clock at t makes of the table hs
LEMMA UpsertedFacts ==
  ASSUME NEW hs \in [Keys -> File!HeadRow], NEW k \in Keys, NEW p \in ResponseIds,
         NEW t \in Nat
  PROVE  LET up == At(t)!Upserted(hs, k[1], k[2], p, OrdinaryRetention)
         IN  /\ up \in [Keys -> File!HeadRow]
             /\ \A j \in Keys : j # k => up[j] = hs[j]
             /\ up[k].provider = p /\ up[k].until >= t + OrdinaryRetention
             /\ up[k].until >= hs[k].until /\ up[k] # File!NoHead
<1> DEFINE until == t + OrdinaryRetention
           kept == hs[k].until
           row == [provider |-> p, until |-> IF until > kept THEN until ELSE kept]
<1>1. k = <<k[1], k[2]>>
  BY DEF Keys, File!Keys
<1>2. kept \in Nat /\ until \in Nat \ {0}
  BY Constants DEF File!HeadRow, File!NoHead
<1>3. row.until \in Nat \ {0} /\ row.until >= kept /\ row.until >= until
  BY <1>2
<1>4. row \in File!HeadRow /\ row.provider = p /\ row # File!NoHead
  BY <1>3 DEF File!HeadRow, File!NoHead
<1>5. At(t)!Upserted(hs, k[1], k[2], p, OrdinaryRetention) = [hs EXCEPT ![k] = row]
  BY <1>1 DEF At!Upserted
<1> HIDE DEF row, until, kept
<1>6. /\ [hs EXCEPT ![k] = row] \in [Keys -> File!HeadRow]
      /\ [hs EXCEPT ![k] = row][k] = row
      /\ \A j \in Keys : j # k => [hs EXCEPT ![k] = row][j] = hs[j]
  BY <1>4
<1> QED BY <1>3, <1>4, <1>5, <1>6 DEF until, kept

LEMMA UnexpiredFacts ==
  ASSUME Types, NEW t \in 0..now
  PROVE  LET hs == At(t)!UnexpiredHeads
         IN  /\ hs \in [Keys -> File!HeadRow]
             /\ \A k \in Keys : /\ hs[k] \in {heads[k], File!NoHead}
                                /\ heads[k].until > now => hs[k] = heads[k]
<1>1. At(t)!UnexpiredHeads =
        [k \in Keys |-> IF heads[k].until <= t THEN File!NoHead ELSE heads[k]]
  BY DEF At!UnexpiredHeads, At!Keys, Keys, File!Keys, At!NoHead, File!NoHead
<1> QED BY <1>1, FileTypes

LEMMA NewRowsFacts ==
  ASSUME Types, NEW k \in Keys, NEW actions \in BoundedSeq(Approvals), NEW t \in 0..now
  PROVE  LET rows == At(t)!NewRows(k[1], k[2], actions)
         IN  /\ rows \subseteq File!PendingRow
             /\ \A row \in rows :
                  /\ KeyOf(row) = k /\ row.status = "pending"
                  /\ row.until = t + PendingRetention
                  /\ \E i \in DOMAIN actions : row.approval = actions[i]
             /\ {row.approval : row \in rows} = {actions[i] : i \in DOMAIN actions}
             /\ rows # {}
<1> DEFINE New(i) ==
      [conv |-> k[1], resp |-> k[2], ordinal |-> i - 1, approval |-> actions[i],
       until |-> t + PendingRetention, status |-> "pending", approved |-> None]
           rows == At(t)!NewRows(k[1], k[2], actions)
<1>1. rows = {New(i) : i \in DOMAIN actions}
  BY DEF At!NewRows
<1>2. /\ DOMAIN actions = 1..Len(actions) /\ Len(actions) \in 1..MaxActions
      /\ 1 \in DOMAIN actions /\ \A i \in DOMAIN actions : actions[i] \in Approvals
  BY BoundedSeqFacts
<1>3. k[1] \in Conversations /\ k[2] \in ResponseIds /\ k = <<k[1], k[2]>>
  BY DEF Keys, File!Keys
<1>4. t + PendingRetention \in Nat
  BY FileTypes, Constants
<1>5. ASSUME NEW i \in DOMAIN actions
      PROVE  /\ New(i) \in File!PendingRow /\ KeyOf(New(i)) = k
             /\ New(i).status = "pending" /\ New(i).until = t + PendingRetention
             /\ New(i).approval = actions[i]
  <2>1. i - 1 \in 0..(MaxActions - 1)
    BY <1>2, Constants
  <2> QED BY <1>2, <1>3, <1>4, <2>1 DEF File!PendingRow, KeyOf
<1> HIDE DEF New, rows
<1>6. {row.approval : row \in rows} = {actions[i] : i \in DOMAIN actions}
  BY <1>1, <1>5
<1>7. rows # {}
  BY <1>1, <1>2
<1> QED BY <1>1, <1>5, <1>6, <1>7 DEF rows

-----------------------------------------------------------------------------
(* What the other calls may rely on.                                       *)

\* An id stands for one thing for ever.
OwnersLast ==
  /\ owner' \in [ResponseIds -> Owners]
  /\ \A r \in ResponseIds : owner[r] # Unused => owner'[r] = owner[r]

\* A step drops heads that clients know, but never rewrites one; and it drops
\* and decides approvals of such a head, but never adds one or reopens one.
Keeps ==
  /\ known \subseteq known' /\ now' \in now..MaxTime
  /\ \A k \in known : heads'[k] \in {heads[k], File!NoHead}
  /\ \A row \in pending' : KeyOf(row) \in known =>
       \E old \in pending :
         /\ KeyOf(old) = KeyOf(row) /\ old.approval = row.approval
         /\ old.until = row.until
         /\ row.status = "pending" => old.status = "pending"

\* Then what a call under way has read stays true.
LEMMA OthersKept ==
  ASSUME Types, Calls, Keeps, OwnersLast, NEW p \in Processes,
         call'[p] = call[p],
         call[p].op \in {"record", "record_pending"} => call[p].key \notin known'
  PROVE  CallOf(call[p])'
<1> DEFINE s == call[p]
<1>1. CallOf(s)
  BY DEF Calls
<1>2. /\ known \subseteq Keys /\ \A k \in Keys : k[1] \in Conversations /\ k[2] \in ResponseIds
      /\ now \in Nat /\ now' \in Nat /\ now' >= now
      /\ \A k \in Keys : heads[k].until \in Nat
      /\ \A row \in pending : row.until \in Nat
      /\ File!NoHead.until = 0
  BY FileTypes, Constants DEF Keys, File!Keys, Keeps
<1>3. Unused # Provided /\ \A k, d : Unused # Digest(k, d)
  BY DEF Unused, Provided, Digest
<1>4. s.op = "resolve" /\ s.found # {} => ~ File!hasPending(s.key[1], s.key[2])'
  <2> SUFFICES ASSUME s.op = "resolve", s.found # {},
                      NEW row \in pending', row.conv = s.key[1],
                      row.resp = s.key[2], row.status = "pending", row.until > now'
               PROVE  FALSE
    BY DEF File!hasPending, File!LiveRows
  <2>1. s.key \in known /\ ~ File!hasPending(s.key[1], s.key[2])
    BY <1>1 DEF CallOf
  <2>2. KeyOf(row) = s.key
    BY <2>1, <1>2 DEF KeyOf, Keys, File!Keys
  <2>3. PICK old \in pending : /\ KeyOf(old) = s.key /\ old.until = row.until
                               /\ old.status = "pending"
    BY <2>1, <2>2 DEF Keeps
  <2>4. old.until > now /\ old.conv = s.key[1] /\ old.resp = s.key[2]
    BY <2>3, <1>2 DEF KeyOf
  <2> QED BY <2>1, <2>3, <2>4 DEF File!hasPending, File!LiveRows
<1>5. s.op = "update" => \A row \in RowsOf(s.key)' :
        \E i \in DOMAIN s.decisions : s.decisions[i].approval = row.approval
  <2> SUFFICES ASSUME s.op = "update", NEW row \in pending', KeyOf(row) = s.key
               PROVE  \E i \in DOMAIN s.decisions : s.decisions[i].approval = row.approval
    BY DEF RowsOf, KeyOf
  <2>1. s.key \in known
    BY <1>1 DEF CallOf
  <2>2. PICK old \in pending : KeyOf(old) = s.key /\ old.approval = row.approval
    BY <2>1 DEF Keeps
  <2> QED BY <1>1, <2>2 DEF CallOf, RowsOf
<1>6. s.op \in {"consume", "update"} =>
        /\ owner'[s.result] = Digest(s.key, s.decisions)
        /\ heads'[s.key] # File!NoHead => heads'[s.key].provider = s.provider
  <2> SUFFICES ASSUME s.op \in {"consume", "update"}
               PROVE  /\ owner'[s.result] = Digest(s.key, s.decisions)
                      /\ heads'[s.key] # File!NoHead => heads'[s.key].provider = s.provider
    OBVIOUS
  <2>1. /\ s.key \in known /\ s.result \in ResponseIds
        /\ owner[s.result] = Digest(s.key, s.decisions)
        /\ heads[s.key] # File!NoHead => heads[s.key].provider = s.provider
    BY <1>1 DEF CallOf
  <2> QED BY <2>1, <1>3 DEF Keeps, OwnersLast
<1>7. s.op = "delete" => heads'[s.key].until <= now'
  <2> SUFFICES ASSUME s.op = "delete" PROVE heads'[s.key].until <= now'
    OBVIOUS
  <2>1. s.key \in known /\ heads[s.key].until <= now
    BY <1>1 DEF CallOf
  <2> QED BY <2>1, <1>2 DEF Keeps
<1>8. s.op \in {"record", "record_pending"} =>
        s.key \in Keys \ known' /\ owner'[s.key[2]] = Provided
  <2> SUFFICES ASSUME s.op \in {"record", "record_pending"}
               PROVE  owner'[s.key[2]] = Provided /\ s.key \in Keys
    OBVIOUS
  <2>1. s.key \in Keys /\ owner[s.key[2]] = Provided
    BY <1>1 DEF CallOf
  <2> QED BY <2>1, <1>2, <1>3 DEF OwnersLast
<1>9. (s.op = "none" => s = NoCall)
      /\ (s.op = "record_pending" => s.actions \in BoundedSeq(Approvals))
      /\ (s.op \in {"consume", "update"} =>
            /\ s.key \in known' /\ s.decisions \in DistinctDecisions
            /\ s.result \in ResponseIds /\ s.provider \in ResponseIds)
      /\ (s.op = "delete" => s.key \in known')
      /\ (s.op = "resolve" => s.key \in Keys /\ s.found \subseteq known' \cap {s.key})
  BY <1>1 DEF CallOf, Keeps
<1> HIDE DEF s
<1> QED BY <1>4, <1>5, <1>6, <1>7, <1>8, <1>9 DEF CallOf, s

LEMMA NoCallKept ==
  ASSUME NEW p \in Processes, call'[p] = NoCall
  PROVE  CallOf(call[p])'
BY DEF CallOf, NoCall

\* A step of the call of p leaves the calls of the others as they should be.
LEMMA CallsKept ==
  ASSUME IInv, Keeps, OwnersLast, now' = now,
         NEW p \in Processes, NEW c \in CallRecord,
         call' = [call EXCEPT ![p] = c], CallOf(call[p])',
         c # NoCall => c.current \in 0..now /\ now <= c.current + BusyTimeout,
         \A q \in Recording \ {p} : call[q].key \notin known',
         c.op \in {"record", "record_pending"} =>
           \A q \in Recording \ {p} : call[q].key[2] # c.key[2]
  PROVE  /\ Calls' /\ Alone' /\ call' \in [Processes -> CallRecord]
         /\ owner' \in [ResponseIds -> Owners]
         /\ \A q \in Processes :
              /\ call'[q].op \in Ops
              /\ call'[q] # NoCall => call'[q].current \in 0..now' /\ now' <= call'[q].current + BusyTimeout
<1>1. /\ call \in [Processes -> CallRecord] /\ call' \in [Processes -> CallRecord]
      /\ call'[p] = c /\ \A q \in Processes \ {p} : call'[q] = call[q]
  BY DEF IInv, Types
<1>2. ASSUME NEW q \in Processes PROVE CallOf(call[q])'
  <2>1. CASE q = p
    BY <2>1
  <2>2. CASE q # p
    <3>1. call'[q] = call[q]
      BY <1>1, <2>2
    <3>2. call[q].op \in {"record", "record_pending"} => call[q].key \notin known'
      BY <2>2 DEF Recording
    <3> QED BY <3>1, <3>2, OthersKept DEF IInv
  <2> QED BY <2>1, <2>2
<1>3. Alone'
  <2> SUFFICES ASSUME NEW q \in Processes, NEW r \in Processes,
                      call'[q].op \in {"record", "record_pending"},
                      call'[r].op \in {"record", "record_pending"},
                      call'[q].key[2] = call'[r].key[2]
               PROVE  q = r
    BY DEF Alone, Recording
  <2>1. q # p => call'[q] = call[q] /\ q \in Recording
    BY <1>1 DEF Recording
  <2>2. r # p => call'[r] = call[r] /\ r \in Recording
    BY <1>1 DEF Recording
  <2> QED BY <2>1, <2>2, <1>1 DEF IInv, Alone
<1>4. \A q \in Processes :
        /\ call'[q].op \in Ops
        /\ call'[q] # NoCall => call'[q].current \in 0..now' /\ now' <= call'[q].current + BusyTimeout
  <2>1. \A q \in Processes :
          call[q] # NoCall => call[q].current \in 0..now /\ now <= call[q].current + BusyTimeout
    BY DEF IInv, Types, TypeOK
  <2> QED BY <1>1, <2>1 DEF CallRecord
<1> QED BY <1>1, <1>2, <1>3, <1>4 DEF Calls, OwnersLast

\* How the parts make up the invariant after a step
LEMMA Assembled ==
  ASSUME Calls', Alone', (call \in [Processes -> CallRecord])',
         (owner \in [ResponseIds -> Owners])',
         \A q \in Processes :
              /\ call'[q].op \in Ops
              /\ call'[q] # NoCall => call'[q].current \in 0..now' /\ now' <= call'[q].current + BusyTimeout,
         Made', OnFile', ActedRows', ActedOnce', OneRowEach', Covered',
         GroupAllOrNothing', NoneGoesPast', File!TypeOK',
         (known \subseteq Keys)', (passed \subseteq known)', (acted \in [Keys -> Nat])'
  PROVE  IInv'
BY DEF IInv, Types, TypeOK

LEMMA NoCallRecord == NoCall \in CallRecord
BY DEF NoCall, CallRecord, Ops
-----------------------------------------------------------------------------
(* Steps that commit nothing: they read, begin, end, sweep, or tick.       *)

Shrinks ==
  /\ heads' \in [Keys -> File!HeadRow]
  /\ \A k \in Keys : /\ heads'[k] \in {heads[k], File!NoHead}
                     /\ heads[k].until > now' => heads'[k] = heads[k]
  /\ pending' \subseteq pending
  /\ now' \in now..MaxTime
  /\ known' = known /\ acted' = acted

\* The turns that have gone on are those of before, and of one more response
\* that nothing waits on.
PassedBy ==
  \A k \in passed' : k \in passed \/ (k \in known /\ ~ File!hasPending(k[1], k[2]))

LEMMA UnchangedShrinks ==
  ASSUME Types, UNCHANGED <<heads, pending, now, known, acted>>
  PROVE  Shrinks
BY FileTypes, Constants DEF Shrinks

LEMMA UnchangedOwners ==
  ASSUME Types, UNCHANGED owner
  PROVE  OwnersLast
BY DEF OwnersLast, Types

LEMMA ShrinksKeeps ==
  ASSUME IInv, Shrinks
  PROVE  Keeps
<1>1. known \subseteq Keys
  BY FileTypes DEF IInv
<1> QED BY <1>1 DEF Shrinks, Keeps

LEMMA ShrinksFile ==
  ASSUME IInv, Shrinks, OwnersLast, PassedBy
  PROVE  /\ Made' /\ OnFile' /\ ActedRows' /\ ActedOnce' /\ OneRowEach' /\ Covered'
         /\ GroupAllOrNothing' /\ NoneGoesPast'
         /\ File!TypeOK' /\ passed' \subseteq known' /\ known' \subseteq Keys
         /\ acted' \in [Keys -> Nat]
<1> USE DEF IInv
<1>1. /\ known \subseteq Keys /\ \A k \in Keys : k[1] \in Conversations /\ k[2] \in ResponseIds
      /\ \A row \in pending : KeyOf(row) \in Keys /\ row.until \in Nat
      /\ now \in Nat /\ now' \in Nat /\ now' >= now /\ now' \in 0..MaxTime
      /\ \A k \in Keys : heads[k].until \in Nat
      /\ acted \in [Keys -> Nat]
  BY FileTypes, Constants DEF Keys, File!Keys, Shrinks
<1>2. Made'
  BY <1>1 DEF Made, Shrinks, OwnersLast
<1>3. OnFile'
  BY <1>1 DEF OnFile, Shrinks, KeyOf
<1>4. ActedRows' /\ ActedOnce' /\ OneRowEach'
  BY DEF ActedRows, ActedOnce, OneRowEach, Shrinks, RowsOf, KeyOf
<1>5. Covered'
  BY <1>1 DEF Covered, Shrinks, KeyOf
<1>6. GroupAllOrNothing'
  BY DEF GroupAllOrNothing, File!GroupAllOrNothing, Shrinks, File!SameGroup
<1>7. NoneGoesPast'
  <2> SUFFICES ASSUME NEW k \in passed', NEW row \in pending', row.conv = k[1],
                      row.resp = k[2], row.status = "pending", row.until > now'
               PROVE  FALSE
    BY DEF NoneGoesPast, File!hasPending, File!LiveRows
  <2>1. ~ File!hasPending(k[1], k[2])
    BY DEF PassedBy, NoneGoesPast
  <2>2. row \in pending /\ row.until > now
    BY <1>1 DEF Shrinks
  <2> QED BY <2>1, <2>2 DEF File!hasPending, File!LiveRows
<1>8. File!TypeOK'
  <2>1. pending' \subseteq File!PendingRow
    BY FileTypes DEF Shrinks
  <2> QED BY <1>1, <2>1 DEF File!TypeOK, Shrinks, Keys
<1>9. passed' \subseteq known'
  BY FileTypes DEF PassedBy, Shrinks
<1>10. known' \subseteq Keys /\ acted' \in [Keys -> Nat]
  BY <1>1 DEF Shrinks
<1> HIDE DEF IInv
<1> QED BY <1>2, <1>3, <1>4, <1>5, <1>6, <1>7, <1>8, <1>9, <1>10

\* A step of one call that commits nothing
LEMMA QuietStep ==
  ASSUME IInv, Shrinks, OwnersLast, PassedBy, now' = now,
         NEW p \in Processes, NEW c \in CallRecord,
         call' = [call EXCEPT ![p] = c], CallOf(call[p])',
         c # NoCall => c.current \in 0..now /\ now <= c.current + BusyTimeout,
         c.op \in {"record", "record_pending"} =>
           \A q \in Recording \ {p} : call[q].key[2] # c.key[2]
  PROVE  IInv'
<1>1. Keeps
  BY ShrinksKeeps
<1>2. \A q \in Recording \ {p} : call[q].key \notin known'
  BY DEF IInv, Calls, CallOf, Recording, Shrinks
<1>3. /\ Calls' /\ Alone' /\ call' \in [Processes -> CallRecord]
      /\ owner' \in [ResponseIds -> Owners]
      /\ \A q \in Processes :
           /\ call'[q].op \in Ops
           /\ call'[q] # NoCall => call'[q].current \in 0..now' /\ now' <= call'[q].current + BusyTimeout
  BY <1>1, <1>2, CallsKept
<1> QED BY <1>3, ShrinksFile, Assembled

\* An ended call, whatever it swept
LEMMA QuietEnd ==
  ASSUME IInv, Shrinks, UNCHANGED owner, PassedBy, now' = now,
         NEW p \in Processes, Ends(p)
  PROVE  IInv'
<1>1. call' = [call EXCEPT ![p] = NoCall] /\ call \in [Processes -> CallRecord]
  BY DEF Ends, IInv, Types
<1>2. CallOf(call[p])'
  BY <1>1, NoCallKept
<1>3. NoCall.op = "none"
  BY DEF NoCall
<1>4. OwnersLast
  BY UnchangedOwners DEF IInv
<1> QED BY <1>1, <1>2, <1>3, <1>4, NoCallRecord, QuietStep
-----------------------------------------------------------------------------
(* Calls that begin.                                                       *)

\* The record of a call that begins
LEMMA Begun ==
  ASSUME IInv, NEW p \in Processes, NEW c \in CallRecord, Begins(p, c)
  PROVE  /\ call' = [call EXCEPT ![p] = c] /\ call'[p] = c
         /\ now \in 0..now /\ now <= now + BusyTimeout
BY FileTypes, Constants DEF Begins, IInv, Types

\* An id that stands for nothing is in nobody's hands.
LEMMA FreshId ==
  ASSUME IInv, NEW r \in ResponseIds, owner[r] = Unused
  PROVE  /\ \A k \in known : k[2] # r
         /\ \A q \in Recording : call[q].key[2] # r
<1>1. \A k \in known : k[2] # r
  BY DEF IInv, Made
<1>2. \A q \in Recording : call[q].key[2] # r
  BY DEF IInv, Calls, CallOf, Recording, Unused, Provided
<1> QED BY <1>1, <1>2

LEMMA RecordStep ==
  ASSUME IInv, NEW p \in Processes, NEW c \in Conversations, NEW r \in ResponseIds,
         NEW args \in CallRecord,
         args.op \in {"record", "record_pending"}, args.key = <<c, r>>,
         args.current = now,
         args.op = "record_pending" => args.actions \in BoundedSeq(Approvals),
         owner[r] = Unused, Begins(p, args),
         owner' = [owner EXCEPT ![r] = Provided],
         UNCHANGED <<heads, pending, now, known, passed, acted>>
  PROVE  IInv'
<1>1. /\ call' = [call EXCEPT ![p] = args] /\ call'[p] = args
      /\ now \in 0..now /\ now <= now + BusyTimeout
  BY Begun
<1>2. OwnersLast
  BY DEF OwnersLast, IInv, Types, Owners
<1>3. Shrinks /\ PassedBy
  BY UnchangedShrinks DEF IInv, PassedBy
<1>4. <<c, r>> \in Keys /\ <<c, r>> \notin known
  BY FreshId DEF Keys, File!Keys
<1>5. owner'[r] = Provided
  BY DEF IInv, Types
<1>6. CallOf(call[p])'
  BY <1>1, <1>4, <1>5 DEF CallOf
<1>7. \A q \in Recording \ {p} : call[q].key[2] # args.key[2]
  BY FreshId
<1> QED BY <1>1, <1>2, <1>3, <1>6, <1>7, QuietStep

LEMMA PreservesRecord ==
  ASSUME IInv, NEW p \in Processes, NEW c \in Conversations, NEW r \in ResponseIds,
         Record(p, c, r)
  PROVE  IInv'
<1> DEFINE args == [NoCall EXCEPT !.op = "record", !.key = <<c, r>>, !.current = now]
<1>1. args \in CallRecord /\ args.op = "record" /\ args.key = <<c, r>> /\ args.current = now
  BY FileTypes DEF NoCall, CallRecord, Ops, Keys, File!Keys, IInv
<1>2. /\ owner[r] = Unused /\ Begins(p, args) /\ owner' = [owner EXCEPT ![r] = Provided]
      /\ UNCHANGED <<heads, pending, now, known, passed, acted>>
  BY DEF Record
<1> HIDE DEF args
<1> QED BY <1>1, <1>2, RecordStep

LEMMA PreservesRecordPending ==
  ASSUME IInv, NEW p \in Processes, NEW c \in Conversations, NEW r \in ResponseIds,
         NEW actions \in BoundedSeq(Approvals), RecordPending(p, c, r, actions)
  PROVE  IInv'
<1> DEFINE args == [NoCall EXCEPT !.op = "record_pending", !.key = <<c, r>>,
                                  !.actions = actions, !.current = now]
<1>1. /\ args \in CallRecord /\ args.op = "record_pending" /\ args.key = <<c, r>>
      /\ args.current = now /\ args.actions = actions
  BY FileTypes DEF NoCall, CallRecord, Ops, Keys, File!Keys, IInv
<1>2. /\ owner[r] = Unused /\ Begins(p, args) /\ owner' = [owner EXCEPT ![r] = Provided]
      /\ UNCHANGED <<heads, pending, now, known, passed, acted>>
  BY DEF RecordPending
<1> HIDE DEF args
<1> QED BY <1>1, <1>2, RecordStep

LEMMA PreservesHasPending ==
  ASSUME IInv, NEW p \in Processes, NEW c \in Conversations, NEW r \in ResponseIds,
         HasPending(p, c, r)
  PROVE  IInv'
<1> DEFINE args == [NoCall EXCEPT !.op = "resolve", !.key = <<c, r>>, !.current = now,
                                  !.found = known \cap {<<c, r>>}]
<1>1. /\ args \in CallRecord /\ args.op = "resolve" /\ args.key = <<c, r>>
      /\ args.current = now /\ args.found = known \cap {<<c, r>>} /\ <<c, r>> \in Keys
  BY FileTypes DEF NoCall, CallRecord, Ops, Keys, File!Keys, IInv
<1>2. /\ ~ File!hasPending(c, r) /\ Begins(p, args)
      /\ UNCHANGED <<heads, pending, now, owner, known, passed, acted>>
  BY DEF HasPending
<1> HIDE DEF args
<1>3. /\ call' = [call EXCEPT ![p] = args] /\ call'[p] = args
      /\ now \in 0..now /\ now <= now + BusyTimeout
  BY <1>1, <1>2, Begun
<1>4. Shrinks /\ PassedBy /\ OwnersLast
  BY <1>2, UnchangedShrinks, UnchangedOwners DEF IInv, PassedBy
<1>5. (~ File!hasPending(c, r))'
  BY <1>2 DEF File!hasPending, File!LiveRows
<1>6. CallOf(call[p])'
  <2>1. known' = known
    BY <1>2
  <2> QED BY <1>1, <1>3, <1>5, <2>1 DEF CallOf
<1> QED BY <1>1, <1>2, <1>3, <1>4, <1>6, QuietStep

LEMMA PreservesPrune ==
  ASSUME IInv, NEW p \in Processes, Prune(p)
  PROVE  IInv'
<1> DEFINE args == [NoCall EXCEPT !.op = "prune", !.current = now]
<1>1. args \in CallRecord /\ args.op = "prune" /\ args.current = now
  BY FileTypes DEF NoCall, CallRecord, Ops, Keys, File!Keys, IInv
<1>2. Begins(p, args) /\ UNCHANGED <<heads, pending, now, owner, known, passed, acted>>
  BY DEF Prune
<1> HIDE DEF args
<1>3. /\ call' = [call EXCEPT ![p] = args] /\ call'[p] = args
      /\ now \in 0..now /\ now <= now + BusyTimeout
  BY <1>1, <1>2, Begun
<1>4. Shrinks /\ PassedBy /\ OwnersLast
  BY <1>2, UnchangedShrinks, UnchangedOwners DEF IInv, PassedBy
<1>5. CallOf(call[p])'
  BY <1>1, <1>3 DEF CallOf
<1> QED BY <1>1, <1>2, <1>3, <1>4, <1>5, QuietStep

LEMMA PreservesConsume ==
  ASSUME IInv, NEW p \in Processes, NEW c \in Conversations, NEW r \in ResponseIds,
         NEW decisions \in DistinctDecisions, NEW result \in ResponseIds,
         Consume(p, c, r, decisions, result)
  PROVE  IInv'
<1> DEFINE k == <<c, r>>
           args == [NoCall EXCEPT !.op = "consume", !.key = k, !.decisions = decisions,
                                  !.result = result, !.provider = heads[k].provider,
                                  !.current = now]
<1>1. /\ File!Live(c, r) /\ owner[result] \in {Unused, Digest(k, decisions)}
      /\ Begins(p, args) /\ owner' = [owner EXCEPT ![result] = Digest(k, decisions)]
      /\ UNCHANGED <<heads, pending, now, known, passed, acted>>
  BY DEF Consume
<1>2. k \in Keys /\ heads[k].until > now
  BY <1>1 DEF Keys, File!Keys, File!Live
<1>3. heads[k] # File!NoHead /\ heads[k].provider \in ResponseIds /\ k \in known
  BY <1>2, FileTypes DEF IInv, OnFile
<1>4. /\ args \in CallRecord /\ args.op = "consume" /\ args.key = k
      /\ args.decisions = decisions /\ args.result = result
      /\ args.provider = heads[k].provider /\ args.current = now
  BY <1>2, <1>3, FileTypes DEF NoCall, CallRecord, Ops, IInv
<1> HIDE DEF args, k
<1>5. /\ call' = [call EXCEPT ![p] = args] /\ call'[p] = args
      /\ now \in 0..now /\ now <= now + BusyTimeout
  BY <1>1, <1>4, Begun
<1>6. Digest(k, decisions) \in Owners
  BY <1>2 DEF Owners
<1>7. OwnersLast /\ owner'[result] = Digest(k, decisions)
  BY <1>1, <1>6 DEF OwnersLast, IInv, Types
<1>8. Shrinks /\ PassedBy
  BY <1>1, UnchangedShrinks DEF IInv, PassedBy
<1>9. CallOf(call[p])'
  BY <1>1, <1>3, <1>4, <1>5, <1>7 DEF CallOf
<1> QED BY <1>1, <1>4, <1>5, <1>7, <1>8, <1>9, QuietStep
-----------------------------------------------------------------------------
(* Calls that go on or end without a write.                                *)

LEMMA OrderCovers ==
  ASSUME NEW n \in Nat, NEW rows, NEW order \in File!OrdinalOrders(n, rows)
  PROVE  /\ \A i \in 1..n : order[i] \in rows
         /\ \A row \in rows : \E i \in 1..n : order[i] = row
BY DEF File!OrdinalOrders, File!Bijection, File!Surjection, File!Injection

\* What p is called with and has read, and since when
LEMMA CallFacts ==
  ASSUME IInv, NEW p \in Processes, call[p] # NoCall
  PROVE  /\ call[p] \in CallRecord /\ CallOf(call[p])
         /\ call[p].current \in 0..now /\ call[p].current \in Nat
         /\ now <= call[p].current + BusyTimeout
BY FileTypes DEF IInv, Types, TypeOK, Calls

LEMMA PreservesConsumeRows ==
  ASSUME IInv, NEW p \in Processes, ConsumeRows(p)
  PROVE  IInv'
<1> DEFINE s == call[p]
           rows == At(s.current)!LiveRows(s.key[1], s.key[2])
           goes == \E order \in File!OrdinalOrders(Len(s.decisions), rows) :
                     \A i \in DOMAIN s.decisions : order[i].approval = s.decisions[i].approval
<1>1. /\ s.op = "consume"
      /\ IF goes THEN call' = [call EXCEPT ![p].op = "update"] ELSE Ends(p)
      /\ UNCHANGED <<heads, pending, now, owner, known, passed, acted>>
  BY DEF ConsumeRows
<1>2. s # NoCall
  BY <1>1 DEF NoCall
<1>3. Shrinks /\ PassedBy /\ OwnersLast
  BY <1>1, UnchangedShrinks, UnchangedOwners DEF IInv, PassedBy
<1>4. CASE ~ goes
  BY <1>1, <1>3, <1>4, QuietEnd
<1>5. CASE goes
  <2> DEFINE args == [s EXCEPT !.op = "update"]
  <2>1. /\ s \in CallRecord /\ CallOf(s) /\ s.current \in 0..now
        /\ now <= s.current + BusyTimeout
    BY <1>2, CallFacts
  <2>2. call' = [call EXCEPT ![p] = args]
    BY <1>1, <1>5
  <2>3. /\ args \in CallRecord /\ args.op = "update" /\ args.key = s.key
        /\ args.decisions = s.decisions /\ args.result = s.result
        /\ args.provider = s.provider /\ args.current = s.current
    BY <2>1 DEF CallRecord, Ops
  <2>4. /\ s.key \in known /\ s.decisions \in DistinctDecisions
        /\ s.result \in ResponseIds /\ s.provider \in ResponseIds
        /\ owner[s.result] = Digest(s.key, s.decisions)
        /\ heads[s.key] # File!NoHead => heads[s.key].provider = s.provider
    BY <1>1, <2>1 DEF CallOf
  <2>5. /\ s.decisions \in BoundedSeq(Decisions) /\ DOMAIN s.decisions = 1..Len(s.decisions)
        /\ Len(s.decisions) \in Nat /\ 1 \in DOMAIN s.decisions
    BY <2>4, BoundedSeqFacts, Constants DEF DistinctDecisions
  <2>6. \A row \in RowsOf(s.key) :
          \E i \in DOMAIN s.decisions : s.decisions[i].approval = row.approval
    <3>1. PICK order \in File!OrdinalOrders(Len(s.decisions), rows) :
            \A i \in DOMAIN s.decisions : order[i].approval = s.decisions[i].approval
      BY <1>5
    <3>2. /\ \A i \in DOMAIN s.decisions : order[i] \in rows
          /\ \A row \in rows : \E i \in DOMAIN s.decisions : order[i] = row
      BY <2>5, <3>1, OrderCovers
    <3>3. /\ order[1] \in pending /\ order[1].status = "pending"
          /\ order[1].until > s.current
          /\ order[1].conv = s.key[1] /\ order[1].resp = s.key[2]
      BY <2>5, <3>2 DEF At!LiveRows
    <3>4. ASSUME NEW row \in RowsOf(s.key) PROVE row \in rows
      <4>1. row \in pending /\ row.conv = s.key[1] /\ row.resp = s.key[2]
        BY <2>4, FileTypes DEF RowsOf, KeyOf, IInv, Keys, File!Keys
      <4>2. row.status = "pending" /\ row.until = order[1].until
        BY <3>3, <4>1 DEF IInv, GroupAllOrNothing, File!GroupAllOrNothing, File!SameGroup
      <4> QED BY <3>3, <4>1, <4>2 DEF At!LiveRows
    <3> QED BY <3>1, <3>2, <3>4
  <2> HIDE DEF args
  <2>7. call'[p] = args
    BY <2>2 DEF IInv, Types
  <2>8. \A row \in pending' : KeyOf(row) = s.key =>
          \E i \in DOMAIN s.decisions : s.decisions[i].approval = row.approval
    BY <1>1, <2>6 DEF RowsOf
  <2>9. CallOf(call[p])'
    BY <1>1, <2>3, <2>4, <2>7, <2>8 DEF CallOf, RowsOf, KeyOf
  <2> QED BY <1>1, <1>3, <2>1, <2>2, <2>3, <2>9, QuietStep
<1> QED BY <1>4, <1>5

LEMMA PreservesResolve ==
  ASSUME IInv, NEW p \in Processes, Resolve(p)
  PROVE  IInv'
<1> DEFINE s == call[p]
<1>1. s.op = "resolve" /\ UNCHANGED <<heads, pending, now, owner, known, acted>>
  BY DEF Resolve
<1>2. s # NoCall
  BY <1>1 DEF NoCall
<1>3. Shrinks /\ OwnersLast
  BY <1>1, UnchangedShrinks, UnchangedOwners DEF IInv
<1>4. /\ s \in CallRecord /\ CallOf(s) /\ s.current \in 0..now
      /\ now <= s.current + BusyTimeout
  BY <1>2, CallFacts
<1>5. /\ s.key \in Keys /\ s.found \subseteq known \cap {s.key}
      /\ s.found # {} => ~ File!hasPending(s.key[1], s.key[2])
  BY <1>1, <1>4 DEF CallOf
<1>6. CASE File!Live(s.key[1], s.key[2]) /\ passed' = passed \cup s.found /\ Ends(p)
  <2>1. PassedBy
    BY <1>5, <1>6 DEF PassedBy
  <2> QED BY <1>1, <1>3, <1>6, <2>1, QuietEnd
<1>7. CASE Ends(p) /\ UNCHANGED passed
  <2>1. PassedBy
    BY <1>7 DEF PassedBy
  <2> QED BY <1>1, <1>3, <1>7, <2>1, QuietEnd
<1>8. CASE /\ heads[s.key] # File!NoHead /\ ~ File!Live(s.key[1], s.key[2])
           /\ call' = [call EXCEPT ![p].op = "delete"] /\ UNCHANGED passed
  <2> DEFINE args == [s EXCEPT !.op = "delete"]
  <2>1. call' = [call EXCEPT ![p] = args]
    BY <1>8
  <2>2. /\ args \in CallRecord /\ args.op = "delete" /\ args.key = s.key
        /\ args.current = s.current
    BY <1>4 DEF CallRecord, Ops
  <2> HIDE DEF args
  <2>3. call'[p] = args
    BY <2>1 DEF IInv, Types
  <2>4. heads[s.key].until <= now
    <3>1. s.key = <<s.key[1], s.key[2]>>
      BY <1>5 DEF Keys, File!Keys
    <3>2. ~ (heads[s.key].until > now)
      BY <1>8, <3>1 DEF File!Live
    <3> QED BY <1>5, <3>2, FileTypes DEF IInv
  <2>5. PassedBy
    BY <1>8 DEF PassedBy
  <2>6. CallOf(call[p])'
    <3>1. s.key \in known /\ known' = known
      BY <1>1, <1>5, <1>8 DEF IInv, OnFile
    <3> QED BY <1>1, <2>2, <2>3, <2>4, <3>1 DEF CallOf
  <2> QED BY <1>1, <1>3, <1>4, <2>1, <2>2, <2>5, <2>6, QuietStep
<1> QED BY <1>6, <1>7, <1>8 DEF Resolve

LEMMA PreservesFail ==
  ASSUME IInv, NEW p \in Processes, Fail(p)
  PROVE  IInv'
<1>1. Ends(p) /\ UNCHANGED <<heads, pending, now, owner, known, passed, acted>>
  BY DEF Fail
<1>2. Shrinks /\ PassedBy
  BY <1>1, UnchangedShrinks DEF IInv, PassedBy
<1> QED BY <1>1, <1>2, QuietEnd
-----------------------------------------------------------------------------
(* Sweeps, and the clock.                                                  *)

LEMMA DeleteShrinks ==
  ASSUME IInv, NEW p \in Processes, ResolveDelete(p)
  PROVE  /\ Shrinks /\ call[p].key \in Keys
         /\ heads[call[p].key].until <= now
<1>1. /\ call[p].op = "delete" /\ heads' = [heads EXCEPT ![call[p].key] = File!NoHead]
      /\ UNCHANGED <<pending, now, owner, known, passed, acted>>
  BY DEF ResolveDelete
<1>2. call[p].key \in Keys /\ heads[call[p].key].until <= now
  BY <1>1, FileTypes DEF IInv, Calls, CallOf
<1>3. /\ heads' \in [Keys -> File!HeadRow]
      /\ \A k \in Keys : /\ heads'[k] \in {heads[k], File!NoHead}
                         /\ heads[k].until > now' => heads'[k] = heads[k]
  BY <1>1, <1>2, FileTypes DEF IInv
<1> QED BY <1>1, <1>2, <1>3, FileTypes, Constants DEF Shrinks, IInv

LEMMA PreservesResolveDelete ==
  ASSUME IInv, NEW p \in Processes, ResolveDelete(p)
  PROVE  IInv'
<1>1. Ends(p) /\ UNCHANGED <<now, owner, passed>>
  BY DEF ResolveDelete
<1>2. Shrinks /\ PassedBy
  BY <1>1, DeleteShrinks DEF PassedBy
<1> QED BY <1>1, <1>2, QuietEnd

LEMMA PruneShrinks ==
  ASSUME IInv, NEW p \in Processes, PruneCommit(p)
  PROVE  Shrinks /\ \A row \in pending : row.until > now => row \in pending'
<1> DEFINE t == call[p].current
<1>1. /\ call[p].op = "prune" /\ heads' = At(t)!UnexpiredHeads
      /\ pending' = {row \in pending : row.until > t}
      /\ UNCHANGED <<now, owner, known, passed, acted>>
  BY DEF PruneCommit
<1>2. call[p] # NoCall
  BY <1>1 DEF NoCall
<1>3. t \in 0..now
  BY <1>2, CallFacts
<1> HIDE DEF t
<1>4. /\ heads' \in [Keys -> File!HeadRow]
      /\ \A k \in Keys : /\ heads'[k] \in {heads[k], File!NoHead}
                         /\ heads[k].until > now => heads'[k] = heads[k]
  BY <1>1, <1>3, UnexpiredFacts DEF IInv
<1>5. now \in Nat /\ \A row \in pending : row.until \in Nat
  BY FileTypes DEF IInv
<1> QED BY <1>1, <1>3, <1>4, <1>5, FileTypes, Constants DEF Shrinks, IInv

LEMMA PreservesPruneCommit ==
  ASSUME IInv, NEW p \in Processes, PruneCommit(p)
  PROVE  IInv'
<1>1. Ends(p) /\ UNCHANGED <<now, owner, passed>>
  BY DEF PruneCommit
<1>2. Shrinks /\ PassedBy
  BY <1>1, PruneShrinks DEF PassedBy
<1> QED BY <1>1, <1>2, QuietEnd

LEMMA PreservesTick ==
  ASSUME IInv, Tick
  PROVE  IInv'
<1>1. /\ now < MaxTime /\ now' = now + 1
      /\ \A p \in Processes :
           call[p] # NoCall => now + 1 <= call[p].current + BusyTimeout
      /\ UNCHANGED <<heads, pending, call, owner, known, passed, acted>>
  BY DEF Tick
<1>2. now \in Nat /\ now' \in now..MaxTime /\ now' > now
  BY <1>1, FileTypes, Constants DEF IInv
<1>3. Shrinks
  BY <1>1, <1>2, FileTypes DEF IInv, Shrinks
<1>4. PassedBy /\ OwnersLast /\ Keeps
  BY <1>1, <1>3, ShrinksKeeps, UnchangedOwners DEF PassedBy, IInv
<1>5. Calls'
  <2> SUFFICES ASSUME NEW p \in Processes PROVE CallOf(call[p])'
    BY DEF Calls
  <2>1. call'[p] = call[p]
    BY <1>1
  <2>2. call[p].op \in {"record", "record_pending"} => call[p].key \notin known'
    BY <1>1 DEF IInv, Calls, CallOf
  <2> QED BY <1>4, <2>1, <2>2, OthersKept DEF IInv
<1>6. Alone'
  BY <1>1 DEF IInv, Alone, Recording
<1>7. \A q \in Processes :
        /\ call'[q].op \in Ops
        /\ call'[q] # NoCall => call'[q].current \in 0..now' /\ now' <= call'[q].current + BusyTimeout
  <2> SUFFICES ASSUME NEW q \in Processes
               PROVE  /\ call[q].op \in Ops
                      /\ call[q] # NoCall => call[q].current \in 0..now' /\ now' <= call[q].current + BusyTimeout
    BY <1>1
  <2>1. /\ call[q].op \in Ops
        /\ call[q] # NoCall => call[q].current \in 0..now
    BY DEF IInv, Types, TypeOK
  <2> QED BY <1>1, <1>2, <2>1
<1>8. (call \in [Processes -> CallRecord])' /\ (owner \in [ResponseIds -> Owners])'
  BY <1>1 DEF IInv, Types
<1> QED BY <1>3, <1>4, <1>5, <1>6, <1>7, <1>8, ShrinksFile, Assembled
-----------------------------------------------------------------------------
(* Transactions that commit a response.                                    *)

\* The head of a response clients have not seen is written by a transaction
\* that read the clock at t; the others may be swept.
Commits(k, t) ==
  /\ k \in Keys \ known /\ t \in 0..now
  /\ heads' \in [Keys -> File!HeadRow]
  /\ \A j \in Keys \ {k} : /\ heads'[j] \in {heads[j], File!NoHead}
                           /\ heads[j].until > now => heads'[j] = heads[j]
  /\ heads'[k].until >= t + OrdinaryRetention
  /\ known' = known \cup {k}
  /\ UNCHANGED <<now, owner, passed>>

\* No row of a response but those of before, though decided perhaps
RowsCarryOver ==
  \A row \in pending' : KeyOf(row) \in known =>
    \E old \in pending :
      /\ KeyOf(old) = KeyOf(row) /\ old.approval = row.approval
      /\ old.until = row.until
      /\ row.status = "pending" => old.status = "pending"

LEMMA CommitsKeeps ==
  ASSUME IInv, NEW k, NEW t, Commits(k, t), RowsCarryOver
  PROVE  Keeps /\ OwnersLast
<1>1. known \subseteq Keys /\ now \in Nat /\ now \in 0..MaxTime /\ MaxTime \in Nat
  BY FileTypes, Constants DEF IInv
<1>2. \A j \in known : j \in Keys \ {k}
  BY <1>1 DEF Commits
<1>3. now' \in now..MaxTime
  BY <1>1 DEF Commits
<1> QED BY <1>2, <1>3, UnchangedOwners DEF Keeps, Commits, RowsCarryOver, IInv

\* The call that committed ends, the others go on.
LEMMA CommitsCalls ==
  ASSUME IInv, NEW k, NEW t, Commits(k, t), RowsCarryOver,
         NEW p \in Processes, Ends(p),
         \A q \in Recording \ {p} : call[q].key # k
  PROVE  /\ Calls' /\ Alone' /\ (call \in [Processes -> CallRecord])'
         /\ (owner \in [ResponseIds -> Owners])'
         /\ \A q \in Processes :
              /\ call'[q].op \in Ops
              /\ call'[q] # NoCall => call'[q].current \in 0..now' /\ now' <= call'[q].current + BusyTimeout
<1>1. Keeps /\ OwnersLast /\ now' = now
  BY CommitsKeeps DEF Commits
<1>2. call' = [call EXCEPT ![p] = NoCall] /\ call'[p] = NoCall
  BY DEF Ends, IInv, Types
<1>3. CallOf(call[p])'
  BY <1>2, NoCallKept
<1>4. \A q \in Recording \ {p} : call[q].key \notin known'
  BY DEF IInv, Calls, CallOf, Recording, Commits
<1>5. NoCall.op = "none"
  BY DEF NoCall
<1> QED BY <1>1, <1>2, <1>3, <1>4, <1>5, NoCallRecord, CallsKept

\* The parts that do not depend on what was committed
LEMMA CommitsFile ==
  ASSUME IInv, NEW k, NEW t, Commits(k, t), RowsCarryOver,
         pending' \subseteq File!PendingRow,
         \A row \in pending' : KeyOf(row) \in known \/ (KeyOf(row) = k /\ row.until <= t + OrdinaryRetention)
  PROVE  /\ Covered' /\ NoneGoesPast' /\ File!TypeOK'
         /\ known' \subseteq Keys /\ passed' \subseteq known'
         /\ \A j \in Keys : heads'[j] # File!NoHead => j \in known'
         /\ \A row \in pending' : KeyOf(row) \in known'
<1>1. /\ known \subseteq Keys /\ passed \subseteq known
      /\ \A j \in Keys : j[1] \in Conversations /\ j[2] \in ResponseIds
      /\ now \in Nat /\ now \in 0..MaxTime
      /\ \A j \in Keys : heads[j].until \in Nat
      /\ \A row \in pending : row.until \in Nat
  BY FileTypes DEF Keys, File!Keys, IInv
<1>2. Covered'
  <2> SUFFICES ASSUME NEW row \in pending', row.until > now
               PROVE  heads'[KeyOf(row)].until >= row.until
    BY DEF Covered, Commits, KeyOf
  <2>1. CASE KeyOf(row) \in known
    <3>1. PICK old \in pending : KeyOf(old) = KeyOf(row) /\ old.until = row.until
      BY <2>1 DEF RowsCarryOver
    <3>2. heads[KeyOf(row)].until >= row.until
      BY <3>1 DEF IInv, Covered
    <3>3. KeyOf(row) \in Keys \ {k} /\ heads[KeyOf(row)].until > now
      BY <2>1, <3>1, <3>2, <1>1 DEF Commits
    <3> QED BY <3>2, <3>3 DEF Commits
  <2>2. CASE KeyOf(row) = k /\ row.until <= t + OrdinaryRetention
    <3>1. /\ heads'[k].until >= t + OrdinaryRetention /\ k \in Keys /\ t \in Nat
          /\ heads' \in [Keys -> File!HeadRow]
      BY <1>1 DEF Commits
    <3>2. heads'[k].until \in Nat
      BY <3>1 DEF File!HeadRow, File!NoHead
    <3>3. row.until \in Nat
      BY DEF File!PendingRow
    <3> QED BY <2>2, <3>1, <3>2, <3>3, Constants
  <2> QED BY <2>1, <2>2
<1>3. NoneGoesPast'
  <2> SUFFICES ASSUME NEW j \in passed', NEW row \in pending', row.conv = j[1],
                      row.resp = j[2], row.status = "pending", row.until > now'
               PROVE  FALSE
    BY DEF NoneGoesPast, File!hasPending, File!LiveRows
  <2>1. j \in passed /\ j \in known /\ now' = now
    BY <1>1 DEF Commits
  <2>2. KeyOf(row) = j
    BY <2>1, <1>1 DEF KeyOf, Keys, File!Keys
  <2>3. PICK old \in pending : /\ KeyOf(old) = j /\ old.until = row.until
                               /\ old.status = "pending"
    BY <2>1, <2>2 DEF RowsCarryOver
  <2>4. old.conv = j[1] /\ old.resp = j[2] /\ old.until > now
    BY <2>1, <2>3 DEF KeyOf
  <2>5. ~ File!hasPending(j[1], j[2])
    BY <2>1 DEF IInv, NoneGoesPast
  <2> QED BY <2>3, <2>4, <2>5 DEF File!hasPending, File!LiveRows
<1>4. File!TypeOK'
  BY <1>1 DEF File!TypeOK, Commits, Keys
<1>5. \A j \in Keys : heads'[j] # File!NoHead => j \in known'
  BY DEF Commits, IInv, OnFile
<1>6. known' \subseteq Keys /\ passed' \subseteq known'
  BY <1>1 DEF Commits
<1>7. \A row \in pending' : KeyOf(row) \in known'
  BY DEF Commits
<1> QED BY <1>2, <1>3, <1>4, <1>5, <1>6, <1>7

\* What the two transactions of a turn that completed have in common
LEMMA Recorded ==
  ASSUME IInv, NEW p \in Recording
  PROVE  /\ p \in Processes /\ call[p] # NoCall
         /\ call[p].key \in Keys \ known
         /\ call[p].current \in 0..now /\ now <= call[p].current + BusyTimeout
         /\ owner[call[p].key[2]] = Provided
         /\ call[p].key[2] \in ResponseIds
         /\ \A q \in Recording \ {p} : call[q].key # call[p].key
         /\ \A row \in pending : KeyOf(row) # call[p].key
         /\ acted[call[p].key] = 0
<1>1. p \in Processes /\ call[p].op \in {"record", "record_pending"} /\ call[p] # NoCall
  BY DEF Recording, NoCall
<1>2. /\ call[p].key \in Keys \ known /\ owner[call[p].key[2]] = Provided
  BY <1>1 DEF IInv, Calls, CallOf
<1>3. \A q \in Recording \ {p} : call[q].key # call[p].key
  BY DEF IInv, Alone
<1>4. acted[call[p].key] = 0
  BY <1>2, FileTypes DEF IInv, OnFile
<1>5. \A row \in pending : KeyOf(row) # call[p].key
  BY <1>2 DEF IInv, OnFile
<1>6. call[p].current \in 0..now /\ now <= call[p].current + BusyTimeout
  BY <1>1, CallFacts
<1>7. call[p].key[2] \in ResponseIds
  BY <1>2 DEF Keys, File!Keys
<1> QED BY <1>1, <1>2, <1>3, <1>4, <1>5, <1>6, <1>7

\* A response of the provider is the result of no decisions.
LEMMA ProvidedMade ==
  ASSUME IInv, NEW k, NEW t, Commits(k, t), owner[k[2]] = Provided, acted' = acted
  PROVE  Made'
<1>1. Provided # Unused /\ \A q, d : Provided # Digest(q, d)
  BY DEF Unused, Provided, Digest
<1> QED BY <1>1 DEF IInv, Made, Commits

LEMMA RecordCommits ==
  ASSUME IInv, NEW p \in Processes, RecordCommit(p)
  PROVE  /\ p \in Recording /\ Ends(p) /\ Commits(call[p].key, call[p].current)
         /\ heads'[call[p].key].provider = call[p].key[2]
         /\ UNCHANGED <<pending, acted>>
<1> DEFINE s == call[p]
           k == s.key
           t == s.current
<1>1. /\ s.op = "record" /\ Ends(p)
      /\ heads' = At(t)!Upserted(At(t)!UnexpiredHeads, k[1], k[2], k[2], OrdinaryRetention)
      /\ known' = known \cup {k}
      /\ UNCHANGED <<pending, now, owner, passed, acted>>
  BY DEF RecordCommit
<1>2. p \in Recording
  BY <1>1 DEF Recording
<1>3. k \in Keys \ known /\ t \in 0..now /\ t \in Nat /\ k[2] \in ResponseIds
  BY <1>2, Recorded, FileTypes DEF IInv
<1> HIDE DEF k, t, s
<1>4. LET hs == At(t)!UnexpiredHeads
      IN  /\ hs \in [Keys -> File!HeadRow]
          /\ \A j \in Keys : /\ hs[j] \in {heads[j], File!NoHead}
                             /\ heads[j].until > now => hs[j] = heads[j]
  BY <1>3, UnexpiredFacts DEF IInv
<1>5. /\ heads' \in [Keys -> File!HeadRow]
      /\ \A j \in Keys : j # k => heads'[j] = At(t)!UnexpiredHeads[j]
      /\ heads'[k].provider = k[2] /\ heads'[k].until >= t + OrdinaryRetention
  BY <1>1, <1>3, <1>4, UpsertedFacts
<1>6. Commits(k, t)
  BY <1>1, <1>3, <1>4, <1>5 DEF Commits
<1> QED BY <1>1, <1>2, <1>5, <1>6 DEF k, t, s

LEMMA PreservesRecordCommit ==
  ASSUME IInv, NEW p \in Processes, RecordCommit(p)
  PROVE  IInv'
<1> DEFINE k == call[p].key
           t == call[p].current
<1>1. /\ p \in Recording /\ Ends(p) /\ Commits(k, t) /\ UNCHANGED <<pending, acted>>
  BY RecordCommits
<1>2. RowsCarryOver
  BY <1>1 DEF RowsCarryOver
<1>3. \A q \in Recording \ {p} : call[q].key # k
  BY <1>1, Recorded
<1>4. owner[k[2]] = Provided
  BY <1>1, Recorded
<1> HIDE DEF k, t
<1>5. Made'
  BY <1>1, <1>4, ProvidedMade
<1>6. /\ Covered' /\ NoneGoesPast' /\ File!TypeOK'
      /\ known' \subseteq Keys /\ passed' \subseteq known'
      /\ \A j \in Keys : heads'[j] # File!NoHead => j \in known'
      /\ \A row \in pending' : KeyOf(row) \in known'
  <2>1. pending' \subseteq File!PendingRow
    BY <1>1, FileTypes DEF IInv
  <2>2. \A row \in pending' : KeyOf(row) \in known
    BY <1>1 DEF IInv, OnFile
  <2> QED BY <1>1, <1>2, <2>1, <2>2, CommitsFile
<1>7. OnFile'
  BY <1>1, <1>6 DEF OnFile, IInv, Commits, KeyOf
<1>8. ActedRows' /\ ActedOnce' /\ OneRowEach' /\ GroupAllOrNothing'
  BY <1>1 DEF IInv, ActedRows, ActedOnce, OneRowEach, GroupAllOrNothing,
              File!GroupAllOrNothing, RowsOf, KeyOf, File!SameGroup
<1>9. acted' \in [Keys -> Nat]
  BY <1>1, FileTypes DEF IInv
<1> QED BY <1>1, <1>2, <1>3, <1>5, <1>6, <1>7, <1>8, <1>9, CommitsCalls, Assembled

LEMMA RecordPendingCommits ==
  ASSUME IInv, NEW p \in Processes, RecordPendingCommit(p)
  PROVE  LET s == call[p]
             rows == At(s.current)!NewRows(s.key[1], s.key[2], s.actions)
         IN  /\ p \in Recording /\ Ends(p) /\ Commits(s.key, s.current)
             /\ heads'[s.key].provider = s.key[2]
             /\ heads'[s.key].until >= s.current + OrdinaryRetention
             /\ \A j \in Keys \ {s.key} : heads'[j] = heads[j]
             /\ s.actions \in BoundedSeq(Approvals)
             /\ pending' = pending \cup rows
             /\ rows \subseteq File!PendingRow
             /\ \A row \in rows : /\ KeyOf(row) = s.key /\ row.status = "pending"
                                  /\ row.until = s.current + PendingRetention
             /\ \A x, y \in rows : x.approval = y.approval => x = y
             /\ {row.approval : row \in rows} = {s.actions[i] : i \in DOMAIN s.actions}
             /\ rows # {} /\ acted' = acted
<1> DEFINE s == call[p]
           k == s.key
           t == s.current
           rows == At(t)!NewRows(k[1], k[2], s.actions)
<1>1. /\ s.op = "record_pending" /\ Ends(p)
      /\ At(t)!Insertable(k[1], k[2], s.actions)
      /\ heads' = At(t)!Upserted(heads, k[1], k[2], k[2], OrdinaryRetention)
      /\ pending' = pending \cup rows
      /\ known' = known \cup {k}
      /\ UNCHANGED <<now, owner, passed, acted>>
  BY DEF RecordPendingCommit
<1>2. p \in Recording /\ s.actions \in BoundedSeq(Approvals)
  BY <1>1 DEF Recording, IInv, Calls, CallOf
<1>3. k \in Keys \ known /\ t \in 0..now /\ t \in Nat /\ k[2] \in ResponseIds
  BY <1>2, Recorded, FileTypes DEF IInv
<1>4. \A i, j \in DOMAIN s.actions : s.actions[i] = s.actions[j] => i = j
  BY <1>1 DEF At!Insertable, At!IsInjective
<1>5. rows = {[conv |-> k[1], resp |-> k[2], ordinal |-> i - 1, approval |-> s.actions[i],
               until |-> t + PendingRetention, status |-> "pending", approved |-> None]
                : i \in DOMAIN s.actions}
  BY DEF At!NewRows
<1>6. \A x, y \in rows : x.approval = y.approval => x = y
  BY <1>4, <1>5
<1> HIDE DEF k, t, rows, s
<1>7. Types
  BY DEF IInv
<1>8. /\ rows \subseteq File!PendingRow
      /\ \A row \in rows : /\ KeyOf(row) = k /\ row.status = "pending"
                           /\ row.until = t + PendingRetention
      /\ {row.approval : row \in rows} = {s.actions[i] : i \in DOMAIN s.actions}
      /\ rows # {}
  BY <1>7, <1>2, <1>3, NewRowsFacts DEF rows
<1>9. heads \in [Keys -> File!HeadRow]
  BY FileTypes DEF IInv
<1>10. /\ heads' \in [Keys -> File!HeadRow]
       /\ \A j \in Keys : j # k => heads'[j] = heads[j]
       /\ heads'[k].provider = k[2] /\ heads'[k].until >= t + OrdinaryRetention
  BY <1>1, <1>3, <1>9, UpsertedFacts
<1>11. Commits(k, t)
  BY <1>1, <1>3, <1>10 DEF Commits
<1> QED BY <1>1, <1>2, <1>6, <1>8, <1>10, <1>11 DEF k, t, rows, s

LEMMA PreservesRecordPendingCommit ==
  ASSUME IInv, NEW p \in Processes, RecordPendingCommit(p)
  PROVE  IInv'
<1> DEFINE s == call[p]
           k == s.key
           t == s.current
           rows == At(t)!NewRows(k[1], k[2], s.actions)
<1>1. /\ p \in Recording /\ Ends(p) /\ Commits(k, t)
      /\ pending' = pending \cup rows /\ rows \subseteq File!PendingRow
      /\ \A row \in rows : /\ KeyOf(row) = k /\ row.status = "pending"
                           /\ row.until = t + PendingRetention
      /\ \A x, y \in rows : x.approval = y.approval => x = y
      /\ acted' = acted
  BY RecordPendingCommits
<1>2. /\ \A q \in Recording \ {p} : call[q].key # k
      /\ owner[k[2]] = Provided /\ \A row \in pending : KeyOf(row) # k
      /\ acted[k] = 0 /\ k \in Keys \ known /\ t \in Nat
  BY <1>1, Recorded, FileTypes DEF IInv
<1> HIDE DEF s, k, t, rows
<1>3. RowsCarryOver
  BY <1>1, <1>2 DEF RowsCarryOver
<1>4. Made'
  BY <1>1, <1>2, ProvidedMade
<1>5. /\ Covered' /\ NoneGoesPast' /\ File!TypeOK'
      /\ known' \subseteq Keys /\ passed' \subseteq known'
      /\ \A j \in Keys : heads'[j] # File!NoHead => j \in known'
      /\ \A row \in pending' : KeyOf(row) \in known'
  <2>1. pending' \subseteq File!PendingRow
    BY <1>1, FileTypes DEF IInv
  <2>2. t + PendingRetention <= t + OrdinaryRetention
    BY <1>2, Constants
  <2>3. \A row \in pending' : KeyOf(row) \in known \/ (KeyOf(row) = k /\ row.until <= t + OrdinaryRetention)
    BY <1>1, <2>2 DEF IInv, OnFile
  <2> QED BY <1>1, <1>3, <2>1, <2>3, CommitsFile
<1>6. OnFile'
  <2>1. \A row \in pending' : KeyOf(row)' \in known'
    BY <1>5 DEF KeyOf
  <2> QED BY <1>1, <1>5, <2>1 DEF OnFile, IInv, Commits
<1>7. ActedRows' /\ ActedOnce'
  BY <1>1, <1>2 DEF IInv, ActedRows, ActedOnce, RowsOf, KeyOf
<1>8. OneRowEach'
  BY <1>1, <1>2 DEF IInv, OneRowEach, KeyOf
<1>9. GroupAllOrNothing'
  BY <1>1, <1>2 DEF IInv, GroupAllOrNothing, File!GroupAllOrNothing, KeyOf, File!SameGroup
<1>10. acted' \in [Keys -> Nat]
  BY <1>1, FileTypes DEF IInv
<1> QED BY <1>1, <1>2, <1>3, <1>4, <1>5, <1>6, <1>7, <1>8, <1>9, <1>10, CommitsCalls, Assembled

-----------------------------------------------------------------------------
(* The transaction of consume_pending.                                     *)

\* The row counts say that no other process has acted upon the approvals; so
\* their result is not known, all of their rows are updated, and no other.
ConsumedFor(k, decisions, rows) ==
  /\ pending' = (pending \ RowsOf(k)) \cup rows
  /\ \A row \in rows : \E old \in RowsOf(k) : \E i \in DOMAIN decisions :
       /\ old.status = "pending" /\ old.approval = decisions[i].approval
       /\ row = Decided(old, decisions[i])
  /\ \A old \in RowsOf(k) : old.status = "pending" /\
       \E i \in DOMAIN decisions : /\ old.approval = decisions[i].approval
                                   /\ Decided(old, decisions[i]) \in rows
  /\ \A i \in DOMAIN decisions : \E old \in RowsOf(k) : old.approval = decisions[i].approval

LEMMA ConsumeRowsDecided ==
  ASSUME IInv, NEW p \in Processes, ConsumeCommit(p)
  PROVE  LET s == call[p]
         IN  \E rows : ConsumedFor(s.key, s.decisions, rows)
<1> DEFINE s == call[p]
           k == s.key
           d == s.decisions
           updated == UNION {Undecided(k, d[i]) : i \in DOMAIN d}
           rows == UNION {{Decided(row, d[i]) : row \in Undecided(k, d[i])} : i \in DOMAIN d}
<1>1. /\ s.op = "update" /\ \A i \in DOMAIN d : Cardinality(Undecided(k, d[i])) = 1
      /\ pending' = (pending \ updated) \cup rows
  BY DEF ConsumeCommit
<1>2. /\ k \in known /\ d \in DistinctDecisions
      /\ \A row \in RowsOf(k) : \E i \in DOMAIN d : d[i].approval = row.approval
  BY <1>1 DEF IInv, Calls, CallOf
<1>3. k \in Keys /\ k = <<k[1], k[2]>>
  BY <1>2, FileTypes DEF IInv, Keys, File!Keys
<1>4. 1 \in DOMAIN d
  BY <1>2, BoundedSeqFacts DEF DistinctDecisions
<1>5. \A i \in DOMAIN d : Undecided(k, d[i]) # {}
  <2>1. Cardinality({}) = 0
    BY FS_EmptySet
  <2>2. \A i \in DOMAIN d : Cardinality(Undecided(k, d[i])) = 1
    BY <1>1
  <2> HIDE DEF k, d, updated, rows
  <2> QED BY <2>1, <2>2
<1>6. \A e : Undecided(k, e) = {row \in RowsOf(k) : row.approval = e.approval /\ row.status = "pending"}
  BY DEF Undecided, RowsOf, KeyOf
<1>7. PICK first \in RowsOf(k) : first.status = "pending"
  BY <1>4, <1>5, <1>6
<1>8. \A row \in RowsOf(k) : row.status = "pending"
  BY <1>7 DEF IInv, GroupAllOrNothing, File!GroupAllOrNothing, File!SameGroup, RowsOf, KeyOf
<1> HIDE DEF k, d, s
<1>9. updated = RowsOf(k)
  BY <1>2, <1>6, <1>8
<1>10. \A row \in rows : \E old \in RowsOf(k) : \E i \in DOMAIN d :
         /\ old.status = "pending" /\ old.approval = d[i].approval
         /\ row = Decided(old, d[i])
  BY <1>6
<1>11. \A old \in RowsOf(k) : old.status = "pending" /\
         \E i \in DOMAIN d : old.approval = d[i].approval /\ Decided(old, d[i]) \in rows
  BY <1>2, <1>6, <1>8
<1>12. \A i \in DOMAIN d : \E old \in RowsOf(k) : old.approval = d[i].approval
  BY <1>5, <1>6
<1> HIDE DEF rows, updated
<1>13. ConsumedFor(k, d, rows)
  BY <1>1, <1>9, <1>10, <1>11, <1>12 DEF ConsumedFor
<1> QED BY <1>13 DEF k, d, s

\* The keys it concerns: what it decides was seen, what it writes was not.
LEMMA ConsumeCommits ==
  ASSUME IInv, NEW p \in Processes, ConsumeCommit(p)
  PROVE  LET s == call[p]
             j == <<s.key[1], s.result>>
         IN  /\ Ends(p) /\ Commits(j, s.current)
             /\ heads'[j].provider = s.provider
             /\ heads'[j].until >= s.current + OrdinaryRetention
             /\ \A k \in Keys \ {j} : heads'[k] = heads[k]
             /\ s.current \in 0..now /\ now <= s.current + BusyTimeout
             /\ s.key \in known /\ s.key \in Keys /\ s.key # j
             /\ s.decisions \in DistinctDecisions /\ s.result \in ResponseIds
             /\ owner[s.result] = Digest(s.key, s.decisions)
             /\ heads[s.key] # File!NoHead => heads[s.key].provider = s.provider
             /\ acted[s.key] = 0 /\ acted' = [acted EXCEPT ![s.key] = @ + 1]
             /\ \A q \in Recording : call[q].key # j
<1> DEFINE s == call[p]
           k == s.key
           j == <<k[1], s.result>>
           t == s.current
<1>1. /\ s.op = "update" /\ Ends(p)
      /\ heads' = At(t)!Upserted(heads, k[1], s.result, s.provider, OrdinaryRetention)
      /\ known' = known \cup {j}
      /\ acted' = [acted EXCEPT ![k] = @ + 1]
      /\ UNCHANGED <<now, owner, passed>>
  BY DEF ConsumeCommit
<1>2. /\ k \in known /\ s.decisions \in DistinctDecisions
      /\ s.result \in ResponseIds /\ s.provider \in ResponseIds
      /\ owner[s.result] = Digest(k, s.decisions)
      /\ heads[k] # File!NoHead => heads[k].provider = s.provider
  BY <1>1 DEF IInv, Calls, CallOf
<1>3. k \in Keys /\ j \in Keys
  BY <1>2, FileTypes DEF IInv, Keys, File!Keys
<1>4. s # NoCall
  BY <1>1 DEF NoCall
<1>5. t \in 0..now /\ t \in Nat /\ now <= t + BusyTimeout
  BY <1>4, CallFacts
<1>6. acted[k] = 0
  <2>1. PICK rows : ConsumedFor(k, s.decisions, rows)
    BY ConsumeRowsDecided
  <2>2. 1 \in DOMAIN s.decisions
    BY <1>2, BoundedSeqFacts DEF DistinctDecisions
  <2>3. PICK old \in RowsOf(k) : old.status = "pending"
    <3> HIDE DEF s, k
    <3> QED BY <2>1, <2>2 DEF ConsumedFor
  <2>4. ~ (acted[k] >= 1)
    BY <1>3, <2>3 DEF IInv, ActedRows
  <2> QED BY <1>3, <2>4, FileTypes DEF IInv
<1>7. j \notin known
  <2>1. j \in known => acted[k] >= 1
    BY <1>2, <1>3 DEF IInv, Made
  <2> QED BY <1>6, <2>1
<1>8. \A q \in Recording : call[q].key # j
  <2>1. \A q \in Recording : owner[call[q].key[2]] = Provided
    BY Recorded
  <2>2. Provided # Digest(k, s.decisions)
    BY DEF Provided, Digest
  <2> QED BY <1>2, <2>1, <2>2
<1>9. heads \in [Keys -> File!HeadRow]
  BY FileTypes DEF IInv
<1>10. j[1] = k[1] /\ j[2] = s.result
  OBVIOUS
<1> HIDE DEF j, k, t, s
<1>11. /\ heads' \in [Keys -> File!HeadRow]
       /\ \A i \in Keys : i # j => heads'[i] = heads[i]
       /\ heads'[j].provider = s.provider /\ heads'[j].until >= t + OrdinaryRetention
  BY <1>1, <1>2, <1>3, <1>5, <1>9, <1>10, UpsertedFacts
<1>12. Commits(j, t)
  BY <1>1, <1>3, <1>5, <1>7, <1>11 DEF Commits
<1>13. k # j
  BY <1>2, <1>7
<1> QED BY <1>1, <1>2, <1>3, <1>5, <1>6, <1>8, <1>11, <1>12, <1>13 DEF j, k, t, s

\* What the transaction leaves in the table of approvals
LEMMA ConsumedRows ==
  ASSUME IInv, NEW k \in Keys, NEW decisions \in DistinctDecisions, NEW rows,
         ConsumedFor(k, decisions, rows)
  PROVE  /\ rows \subseteq File!PendingRow
         /\ \A row \in rows : /\ KeyOf(row) = k /\ row.status = "consumed"
                              /\ \E old \in RowsOf(k) : /\ old.approval = row.approval
                                                        /\ old.until = row.until
         /\ \A x, y \in rows : x.approval = y.approval => x = y
         /\ \A x, y \in rows : x.until = y.until
         /\ RowsCarryOver
<1>1. \A row \in RowsOf(k) : row \in pending /\ row \in File!PendingRow /\ KeyOf(row) = k
  BY FileTypes DEF RowsOf, IInv
<1>2. decisions \in BoundedSeq(Decisions)
      /\ \A i, j \in DOMAIN decisions : i # j => decisions[i].approval # decisions[j].approval
  BY DEF DistinctDecisions
<1>3. \A i \in DOMAIN decisions : decisions[i] \in Decisions
  BY <1>2, BoundedSeqFacts
<1>4. ASSUME NEW old \in File!PendingRow, NEW d \in Decisions
      PROVE  /\ Decided(old, d) \in File!PendingRow
             /\ KeyOf(Decided(old, d)) = KeyOf(old)
             /\ Decided(old, d).approval = old.approval
             /\ Decided(old, d).until = old.until
             /\ Decided(old, d).status = "consumed"
  <2>1. d.approved \in BOOLEAN
    BY DEF Decisions, File!Decisions
  <2> QED BY <2>1 DEF Decided, File!PendingRow, KeyOf
<1>5. ASSUME NEW row \in rows
      PROVE  \E old \in RowsOf(k) : \E i \in DOMAIN decisions :
               /\ old.approval = decisions[i].approval /\ row = Decided(old, decisions[i])
  BY DEF ConsumedFor
<1>6. ASSUME NEW row \in rows
      PROVE  /\ row \in File!PendingRow /\ KeyOf(row) = k /\ row.status = "consumed"
             /\ \E old \in RowsOf(k) : old.approval = row.approval /\ old.until = row.until
  BY <1>1, <1>3, <1>4, <1>5
<1>7. ASSUME NEW x \in rows, NEW y \in rows, x.approval = y.approval
      PROVE  x = y
  <2>1. PICK u \in RowsOf(k), i \in DOMAIN decisions :
          u.approval = decisions[i].approval /\ x = Decided(u, decisions[i])
    BY <1>5
  <2>2. PICK v \in RowsOf(k), j \in DOMAIN decisions :
          v.approval = decisions[j].approval /\ y = Decided(v, decisions[j])
    BY <1>5
  <2>3. u.approval = x.approval /\ v.approval = y.approval
    BY <1>1, <1>3, <1>4, <2>1, <2>2
  <2>4. u = v
    BY <1>1, <1>7, <2>3 DEF IInv, OneRowEach
  <2>5. i = j
    BY <1>2, <2>1, <2>2, <2>4
  <2> QED BY <2>1, <2>2, <2>4, <2>5
<1>8. \A x, y \in RowsOf(k) : x.until = y.until
  BY DEF RowsOf, KeyOf, IInv, GroupAllOrNothing, File!GroupAllOrNothing, File!SameGroup
<1>9. \A x, y \in rows : x.until = y.until
  BY <1>6, <1>8
<1>10. RowsCarryOver
  <2> SUFFICES ASSUME NEW row \in pending'
               PROVE  \E old \in pending :
                        /\ KeyOf(old) = KeyOf(row) /\ old.approval = row.approval
                        /\ old.until = row.until
                        /\ row.status = "pending" => old.status = "pending"
    BY DEF RowsCarryOver
  <2>1. row \in pending \/ row \in rows
    BY DEF ConsumedFor
  <2>2. CASE row \in rows
    <3>1. KeyOf(row) = k /\ row.status # "pending"
      BY <1>6, <2>2
    <3>2. PICK old \in RowsOf(k) : old.approval = row.approval /\ old.until = row.until
      BY <1>6, <2>2
    <3> QED BY <1>1, <3>1, <3>2
  <2> QED BY <2>1, <2>2
<1> QED BY <1>6, <1>7, <1>9, <1>10

LEMMA PreservesConsumeCommit ==
  ASSUME IInv, NEW p \in Processes, ConsumeCommit(p)
  PROVE  IInv'
<1> DEFINE s == call[p]
           k == s.key
           t == s.current
           j == <<k[1], s.result>>
<1>1. /\ Ends(p) /\ Commits(j, t) /\ k \in known /\ k \in Keys /\ k # j
      /\ s.decisions \in DistinctDecisions /\ s.result \in ResponseIds
      /\ owner[s.result] = Digest(k, s.decisions)
      /\ acted[k] = 0 /\ acted' = [acted EXCEPT ![k] = @ + 1]
      /\ \A q \in Recording : call[q].key # j
  BY ConsumeCommits
<1>2. PICK rows : ConsumedFor(k, s.decisions, rows)
  BY ConsumeRowsDecided
<1>3. j[2] = s.result
  OBVIOUS
<1> HIDE DEF s, k, t, j
<1>4. /\ rows \subseteq File!PendingRow
      /\ \A row \in rows : /\ KeyOf(row) = k /\ row.status = "consumed"
                           /\ \E old \in RowsOf(k) : /\ old.approval = row.approval
                                                     /\ old.until = row.until
      /\ \A x, y \in rows : x.approval = y.approval => x = y
      /\ \A x, y \in rows : x.until = y.until
      /\ RowsCarryOver
  BY <1>1, <1>2, ConsumedRows
<1>5. /\ pending' = (pending \ RowsOf(k)) \cup rows
      /\ \A row \in pending \ RowsOf(k) : KeyOf(row) # k
  BY <1>2 DEF ConsumedFor, RowsOf
<1>6. acted \in [Keys -> Nat] /\ acted' \in [Keys -> Nat]
      /\ acted'[k] = 1 /\ \A i \in Keys \ {k} : acted'[i] = acted[i]
  <2>1. acted \in [Keys -> Nat]
    BY FileTypes DEF IInv
  <2> QED BY <1>1, <2>1
<1>7. Made'
  <2> SUFFICES ASSUME NEW i \in known'
               PROVE  /\ owner[i[2]] # Unused
                      /\ \A q \in Keys, d \in DistinctDecisions :
                           owner[i[2]] = Digest(q, d) => acted'[q] >= 1
    BY <1>1 DEF Made, Commits
  <2>1. CASE i = j
    <3>1. Digest(k, s.decisions) # Unused
      BY DEF Digest, Unused
    <3>2. \A q, d : Digest(k, s.decisions) = Digest(q, d) => q = k
      BY DEF Digest
    <3> QED BY <1>1, <1>3, <1>6, <2>1, <3>1, <3>2
  <2>2. CASE i \in known
    <3>1. /\ owner[i[2]] # Unused
          /\ \A q \in Keys, d \in DistinctDecisions :
               owner[i[2]] = Digest(q, d) => acted[q] >= 1
      BY <2>2 DEF IInv, Made
    <3> QED BY <1>6, <3>1
  <2> QED BY <1>1, <2>1, <2>2 DEF Commits
<1>8. /\ Covered' /\ NoneGoesPast' /\ File!TypeOK'
      /\ known' \subseteq Keys /\ passed' \subseteq known'
      /\ \A i \in Keys : heads'[i] # File!NoHead => i \in known'
      /\ \A row \in pending' : KeyOf(row) \in known'
  <2>1. pending' \subseteq File!PendingRow
    BY <1>4, <1>5, FileTypes DEF IInv
  <2>2. \A row \in pending' : KeyOf(row) \in known
    BY <1>1, <1>4, <1>5 DEF IInv, OnFile
  <2> QED BY <1>1, <1>4, <2>1, <2>2, CommitsFile
<1>9. OnFile'
  <2>1. \A row \in pending' : KeyOf(row)' \in known'
    BY <1>8 DEF KeyOf
  <2>2. \A i \in Keys : acted'[i] >= 1 => i \in known'
    BY <1>1, <1>6 DEF IInv, OnFile, Commits
  <2> QED BY <1>8, <2>1, <2>2 DEF OnFile
<1>10. ActedRows'
  <2> SUFFICES ASSUME NEW i \in Keys, acted'[i] >= 1, NEW row \in pending', KeyOf(row) = i
               PROVE  row.status = "consumed"
    BY DEF ActedRows, RowsOf, KeyOf
  <2>1. CASE i = k
    BY <1>4, <1>5, <2>1
  <2>2. CASE i # k
    <3>1. acted[i] >= 1 /\ row \in pending
      BY <1>4, <1>5, <1>6, <2>2
    <3> QED BY <3>1 DEF IInv, ActedRows, RowsOf
  <2> QED BY <2>1, <2>2
<1>11. ActedOnce'
  BY <1>6 DEF IInv, ActedOnce
<1>12. OneRowEach'
  <2> SUFFICES ASSUME NEW x \in pending', NEW y \in pending', KeyOf(x) = KeyOf(y),
                      x.approval = y.approval
               PROVE  x = y
    BY DEF OneRowEach, KeyOf
  <2>1. (x \in rows /\ y \in rows) \/ (x \in pending /\ y \in pending)
    BY <1>4, <1>5
  <2> QED BY <1>4, <2>1 DEF IInv, OneRowEach
<1>13. GroupAllOrNothing'
  <2> SUFFICES ASSUME NEW x \in pending', NEW y \in pending', KeyOf(x) = KeyOf(y)
               PROVE  x.status = y.status /\ x.until = y.until
    BY DEF GroupAllOrNothing, File!GroupAllOrNothing, File!SameGroup, KeyOf
  <2>1. (x \in rows /\ y \in rows) \/ (x \in pending /\ y \in pending)
    BY <1>4, <1>5
  <2>2. CASE x \in rows /\ y \in rows
    BY <1>4, <2>2
  <2>3. CASE x \in pending /\ y \in pending
    BY <2>3 DEF IInv, GroupAllOrNothing, File!GroupAllOrNothing, File!SameGroup, KeyOf
  <2> QED BY <2>1, <2>2, <2>3
<1>14. /\ Calls' /\ Alone' /\ (call \in [Processes -> CallRecord])'
       /\ (owner \in [ResponseIds -> Owners])'
       /\ \A q \in Processes :
            /\ call'[q].op \in Ops
            /\ call'[q] # NoCall => call'[q].current \in 0..now' /\ now' <= call'[q].current + BusyTimeout
  BY <1>1, <1>4, CommitsCalls
<1> QED BY <1>6, <1>7, <1>8, <1>9, <1>10, <1>11, <1>12, <1>13, <1>14, Assembled
-----------------------------------------------------------------------------
(* The invariant.                                                          *)

LEMMA InitIInv == Init => IInv
<1> SUFFICES ASSUME Init PROVE IInv
  OBVIOUS
<1>1. /\ heads = [k \in Keys |-> File!NoHead] /\ pending = {} /\ now = 0
      /\ call = [p \in Processes |-> NoCall]
      /\ owner = [r \in ResponseIds |-> Unused]
      /\ known = {} /\ passed = {} /\ acted = [k \in Keys |-> 0]
  BY DEF Init, File!Init, Keys
<1>2. File!TypeOK
  BY <1>1, Constants DEF File!TypeOK, File!HeadRow, Keys
<1>3. \A p \in Processes : call[p] = NoCall /\ call[p].op = "none"
  BY <1>1 DEF NoCall
<1>4. TypeOK
  BY <1>1, <1>2, <1>3 DEF TypeOK, Ops
<1>5. Types
  <2>1. call \in [Processes -> CallRecord]
    BY <1>1, NoCallRecord
  <2>2. owner \in [ResponseIds -> Owners]
    BY <1>1 DEF Owners
  <2> QED BY <1>4, <2>1, <2>2 DEF Types
<1>6. Calls /\ Alone
  BY <1>3 DEF Calls, CallOf, Alone, Recording
<1>7. Made /\ OnFile /\ ActedRows /\ ActedOnce
  BY <1>1 DEF Made, OnFile, ActedRows, ActedOnce
<1>8. OneRowEach /\ Covered /\ GroupAllOrNothing /\ NoneGoesPast
  BY <1>1 DEF OneRowEach, Covered, GroupAllOrNothing, File!GroupAllOrNothing, NoneGoesPast
<1> QED BY <1>5, <1>6, <1>7, <1>8 DEF IInv

LEMMA NextIInv == IInv /\ [Next]_vars => IInv'
<1> SUFFICES ASSUME IInv, [Next]_vars PROVE IInv'
  OBVIOUS
<1>1. CASE UNCHANGED vars
  <2>1. UNCHANGED <<heads, pending, now, call, owner, known, passed, acted>>
    BY <1>1 DEF vars
  <2>2. Shrinks /\ PassedBy /\ OwnersLast
    BY <2>1, UnchangedShrinks, UnchangedOwners DEF IInv, PassedBy
  <2>3. Calls'
    <3> SUFFICES ASSUME NEW p \in Processes PROVE CallOf(call[p])'
      BY DEF Calls
    <3>1. call'[p] = call[p]
      BY <2>1
    <3>2. call[p].op \in {"record", "record_pending"} => call[p].key \notin known'
      BY <2>1 DEF IInv, Calls, CallOf
    <3> QED BY <2>2, <3>1, <3>2, ShrinksKeeps, OthersKept DEF IInv
  <2>4. /\ Alone' /\ (call \in [Processes -> CallRecord])'
        /\ (owner \in [ResponseIds -> Owners])'
    BY <2>1 DEF IInv, Types, Alone, Recording
  <2>5. \A q \in Processes :
          /\ call'[q].op \in Ops
          /\ call'[q] # NoCall => call'[q].current \in 0..now' /\ now' <= call'[q].current + BusyTimeout
    BY <2>1 DEF IInv, Types, TypeOK
  <2> QED BY <2>2, <2>3, <2>4, <2>5, ShrinksFile, Assembled
<1>2. CASE Tick
  BY <1>2, PreservesTick
<1>3. ASSUME NEW p \in Processes, Begin(p) PROVE IInv'
  <2>1. CASE Prune(p)
    BY <2>1, PreservesPrune
  <2>2. ASSUME NEW c \in Conversations, NEW r \in ResponseIds,
               \/ Record(p, c, r)
               \/ \E actions \in BoundedSeq(Approvals) : RecordPending(p, c, r, actions)
               \/ HasPending(p, c, r)
               \/ \E decisions \in DistinctDecisions, result \in ResponseIds :
                    Consume(p, c, r, decisions, result)
        PROVE  IInv'
    BY <2>2, PreservesRecord, PreservesRecordPending, PreservesHasPending, PreservesConsume
  <2> QED BY <1>3, <2>1, <2>2 DEF Begin
<1>4. ASSUME NEW p \in Processes, Step(p) PROVE IInv'
  BY <1>4, PreservesRecordCommit, PreservesRecordPendingCommit, PreservesConsumeRows,
     PreservesConsumeCommit, PreservesResolve, PreservesResolveDelete,
     PreservesPruneCommit, PreservesFail DEF Step
<1> QED BY <1>1, <1>2, <1>3, <1>4 DEF Next

\* However the calls of any number of processes interleave, what each of them
\* has read is still true when it writes, as IInv says.
THEOREM Invariance == Spec => []IInv
<1>1. Init => IInv
  BY InitIInv
<1>2. IInv /\ [Next]_vars => IInv'
  BY NextIInv
<1> QED BY <1>1, <1>2, PTL DEF Spec
-----------------------------------------------------------------------------
(* What the runs check.                                                    *)

LEMMA Consistent == IInv => FileIsConsistent
<1> SUFFICES ASSUME IInv PROVE FileIsConsistent
  OBVIOUS
<1>1. PendingHasHead
  <2> SUFFICES ASSUME NEW row \in pending, row.until > now
               PROVE  heads[<<row.conv, row.resp>>].until > now
    BY DEF PendingHasHead, File!PendingHasHead, File!Live
  <2>1. heads[KeyOf(row)].until >= row.until
    BY DEF IInv, Covered
  <2>2. KeyOf(row) \in Keys /\ heads[KeyOf(row)].until \in Nat
        /\ row.until \in Nat /\ now \in Nat
    BY FileTypes DEF IInv
  <2>3. heads[KeyOf(row)].until > now
    BY <2>1, <2>2
  <2> QED BY <2>3 DEF KeyOf
<1> QED BY <1>1 DEF FileIsConsistent, IInv, Types

\* Between two transactions every process finds the file typed, each approval
\* that can be decided with its response, and no response decided in part:
\* although other processes sweep by clocks read earlier.
THEOREM FileIsConsistentTheorem == Spec => []FileIsConsistent
BY Invariance, Consistent, PTL

\* The row counts of the UPDATEs admit one of the processes that have read a
\* set of approvals as pending: it is acted upon once.
THEOREM ActedOnceTheorem == Spec => []ActedOnce
<1>1. IInv => ActedOnce
  BY DEF IInv
<1> QED BY <1>1, Invariance, PTL

\* An ordinary turn goes on from no response that it found on file when it asked
\* and of which an approval can still be decided, although has_pending and
\* resolve are two reads.
THEOREM NoneGoesPastTheorem == Spec => []NoneGoesPast
<1>1. IInv => NoneGoesPast
  BY DEF IInv
<1> QED BY <1>1, Invariance, PTL

\* What begins only reads the file.
LEMMA BeginReads ==
  ASSUME NEW p \in Processes, Begin(p)
  PROVE  UNCHANGED <<heads, pending, now, known, acted>>
<1>1. ASSUME NEW c, NEW r,
             \/ Record(p, c, r) \/ HasPending(p, c, r) \/ Prune(p)
             \/ \E actions : RecordPending(p, c, r, actions)
      PROVE  UNCHANGED <<heads, pending, now, known, acted>>
  BY <1>1 DEF Record, HasPending, Prune, RecordPending
<1>2. ASSUME NEW c, NEW r, NEW decisions, NEW result,
             Consume(p, c, r, decisions, result)
      PROVE  UNCHANGED <<heads, pending, now, known, acted>>
  BY <1>2 DEF Consume
<1> QED BY <1>1, <1>2 DEF Begin

\* A step sweeps, or commits one response that no client has seen.
LEMMA StepKinds ==
  ASSUME IInv, [Next]_vars
  PROVE  Shrinks \/ \E k, t : Commits(k, t)
<1>1. CASE UNCHANGED vars
  BY <1>1, UnchangedShrinks DEF IInv, vars
<1>2. CASE Tick
  <2>1. now \in Nat /\ now' = now + 1 /\ now < MaxTime
        /\ UNCHANGED <<heads, pending, known, acted>>
    BY <1>2, FileTypes DEF Tick, IInv
  <2>2. now' \in now..MaxTime
    BY <2>1, Constants
  <2> QED BY <2>1, <2>2, FileTypes DEF Shrinks, IInv
<1>3. ASSUME NEW p \in Processes, Begin(p) PROVE Shrinks
  <2>1. UNCHANGED <<heads, pending, now, known, acted>>
    BY <1>3, BeginReads
  <2> QED BY <2>1, UnchangedShrinks DEF IInv
<1>4. ASSUME NEW p \in Processes, ConsumeRows(p) \/ Resolve(p) \/ Fail(p) PROVE Shrinks
  <2>1. UNCHANGED <<heads, pending, now, known, acted>>
    BY <1>4 DEF ConsumeRows, Resolve, Fail
  <2> QED BY <2>1, UnchangedShrinks DEF IInv
<1>5. ASSUME NEW p \in Processes, ResolveDelete(p) \/ PruneCommit(p) PROVE Shrinks
  BY <1>5, DeleteShrinks, PruneShrinks
<1>6. ASSUME NEW p \in Processes,
             RecordCommit(p) \/ RecordPendingCommit(p) \/ ConsumeCommit(p)
      PROVE  \E k, t : Commits(k, t)
  <2>1. CASE RecordCommit(p)
    BY <2>1, RecordCommits
  <2>2. CASE RecordPendingCommit(p)
    BY <2>2, RecordPendingCommits
  <2>3. CASE ConsumeCommit(p)
    BY <2>3, ConsumeCommits
  <2> QED BY <1>6, <2>1, <2>2, <2>3
<1>7. ASSUME NEW p \in Processes, Step(p)
      PROVE  Shrinks \/ \E k, t : Commits(k, t)
  BY <1>4, <1>5, <1>6, <1>7 DEF Step
<1> QED BY <1>1, <1>2, <1>3, <1>7 DEF Next

\* No transaction of any process drops or shortens a head before it expires: not
\* a sweep by a clock read earlier, not a resolve that deletes what it found
\* expired, and not a commit, which only writes heads that nobody has seen.
THEOREM HeadKeptUntilExpiryTheorem == Spec => HeadKeptUntilExpiry
<1>1. ASSUME IInv, [Next]_vars
      PROVE  [\A k \in File!Keys :
                heads[k].until > now' => heads'[k].until >= heads[k].until]_(File!vars)
  <2> SUFFICES ASSUME NEW k \in Keys, heads[k].until > now'
               PROVE  heads'[k].until >= heads[k].until
    BY DEF Keys
  <2>1. now \in Nat /\ \A j \in Keys : heads[j].until \in Nat
    BY <1>1, FileTypes DEF IInv
  <2>2. CASE Shrinks
    BY <2>1, <2>2 DEF Shrinks
  <2>3. ASSUME NEW j, NEW t, Commits(j, t) PROVE heads'[k].until >= heads[k].until
    <3>1. now' = now
      BY <2>3 DEF Commits
    <3>2. CASE k = j
      <4>1. heads[k] = File!NoHead
        BY <1>1, <2>3, <3>2 DEF Commits, IInv, OnFile
      <4> QED BY <2>1, <3>1, <4>1 DEF File!NoHead
    <3>3. CASE k # j
      BY <2>1, <2>3, <3>1, <3>3 DEF Commits
    <3> QED BY <3>2, <3>3
  <2> QED BY <1>1, <2>2, <2>3, StepKinds
<1>2. IInv /\ [Next]_vars =>
        [\A k \in File!Keys :
           heads[k].until > now' => heads'[k].until >= heads[k].until]_(File!vars)
  BY <1>1
<1> QED BY <1>2, Invariance, PTL DEF Spec, HeadKeptUntilExpiry, File!HeadKeptUntilExpiry
-----------------------------------------------------------------------------
(* The ledger.                                                             *)

LEMMA InitRefines == Init => File!Ledger!Init
<1> SUFFICES ASSUME Init PROVE File!Ledger!Init
  OBVIOUS
<1>1. heads = [k \in Keys |-> File!NoHead] /\ pending = {} /\ now = 0
  BY DEF Init, File!Init, Keys
<1>2. \A k \in Keys : heads[k].until = 0
  BY <1>1 DEF File!NoHead
<1>3. File!mapping = [k \in Keys |-> None]
  BY <1>1, <1>2 DEF File!mapping, Keys
<1>4. \A k, status : File!LiveGroup(k, status) = {}
  BY <1>1 DEF File!LiveGroup
<1>5. File!open = [k \in Keys |-> {}] /\ File!decided = [k \in Keys |-> {}]
  BY <1>4 DEF File!open, File!decided, Keys
<1> QED BY <1>3, <1>5 DEF File!Ledger!Init, File!Ledger!Keys, Keys, File!Keys

\* The approvals of the ledger depend on the live rows only.
LEMMA SameRows ==
  ASSUME \A row : (row \in pending' /\ row.until > now') <=>
                  (row \in pending /\ row.until > now)
  PROVE  File!open' = File!open /\ File!decided' = File!decided
<1>1. \A k, status : File!LiveGroup(k, status)' = File!LiveGroup(k, status)
  BY DEF File!LiveGroup
<1> QED BY <1>1 DEF File!open, File!decided

\* A sweep by any clock takes nothing that the ledger sees.
LEMMA SweepRefines ==
  ASSUME IInv, Shrinks, now' = now,
         \A row \in pending : row.until > now => row \in pending'
  PROVE  UNCHANGED <<File!mapping, File!open, File!decided>>
<1>1. /\ now \in Nat /\ File!NoHead.until = 0
      /\ \A k \in Keys : heads[k].until \in Nat
  BY FileTypes DEF IInv
<1>2. ASSUME NEW k \in Keys
      PROVE  /\ (heads'[k].until > now) <=> (heads[k].until > now)
             /\ heads[k].until > now => heads'[k] = heads[k]
  BY <1>1 DEF Shrinks
<1>3. File!mapping' = File!mapping
  BY <1>2 DEF File!mapping, Keys
<1>4. \A row : (row \in pending' /\ row.until > now') <=>
               (row \in pending /\ row.until > now)
  BY DEF Shrinks
<1> QED BY <1>3, <1>4, SameRows

\* A commit writes one entry, which is live although the clock was read before.
LEMMA CommitRefines ==
  ASSUME IInv, NEW k, NEW t, Commits(k, t), now <= t + BusyTimeout
  PROVE  File!mapping' = [File!mapping EXCEPT ![k] = heads'[k].provider]
<1>1. /\ now \in Nat /\ File!NoHead.until = 0 /\ k \in Keys /\ t \in Nat
      /\ \A j \in Keys : heads[j].until \in Nat
      /\ heads' \in [Keys -> File!HeadRow]
  BY FileTypes DEF IInv, Commits
<1>2. heads'[k].until \in Nat
  BY <1>1 DEF File!HeadRow, File!NoHead
<1>3. heads'[k].until > now
  BY <1>1, <1>2, Constants DEF Commits
<1>4. ASSUME NEW j \in Keys, j # k
      PROVE  /\ (heads'[j].until > now) <=> (heads[j].until > now)
             /\ heads[j].until > now => heads'[j] = heads[j]
  BY <1>1, <1>4 DEF Commits
<1>5. now' = now
  BY DEF Commits
<1>6. File!mapping = [j \in Keys |-> IF heads[j].until > now THEN heads[j].provider ELSE None]
  BY DEF File!mapping, Keys
<1>7. File!mapping' = [j \in Keys |-> IF heads'[j].until > now THEN heads'[j].provider ELSE None]
  BY <1>5 DEF File!mapping, Keys
<1> QED BY <1>1, <1>3, <1>4, <1>6, <1>7

LEMMA RecordRefines ==
  ASSUME IInv, NEW p \in Processes, RecordCommit(p)
  PROVE  File!Ledger!Next
<1> DEFINE k == call[p].key
           t == call[p].current
<1>1. /\ p \in Recording /\ Commits(k, t) /\ heads'[k].provider = k[2]
      /\ UNCHANGED <<pending, acted>>
  BY RecordCommits
<1>2. k \in Keys /\ now <= t + BusyTimeout
  BY <1>1, Recorded
<1>3. now' = now
  BY <1>1 DEF Commits
<1> HIDE DEF k, t
<1>4. k = <<k[1], k[2]>> /\ k[1] \in Conversations /\ k[2] \in ResponseIds
  BY <1>2 DEF Keys, File!Keys
<1>5. File!mapping' = [File!mapping EXCEPT ![k] = k[2]]
  BY <1>1, <1>2, CommitRefines
<1>6. File!open' = File!open /\ File!decided' = File!decided
  BY <1>1, <1>3, SameRows
<1>7. File!Ledger!Advance(k[1], k[2], k[2])
  BY <1>4, <1>5, <1>6 DEF File!Ledger!Advance
<1> QED BY <1>4, <1>7 DEF File!Ledger!Next

LEMMA RecordPendingRefines ==
  ASSUME IInv, NEW p \in Processes, RecordPendingCommit(p)
  PROVE  File!Ledger!Next
<1> DEFINE s == call[p]
           k == s.key
           t == s.current
           rows == At(t)!NewRows(k[1], k[2], s.actions)
           asked == {row.approval : row \in rows}
<1>1. /\ p \in Recording /\ Commits(k, t) /\ heads'[k].provider = k[2]
      /\ pending' = pending \cup rows /\ rows \subseteq File!PendingRow
      /\ \A row \in rows : /\ KeyOf(row) = k /\ row.status = "pending"
                           /\ row.until = t + PendingRetention
      /\ rows # {}
  BY RecordPendingCommits
<1>2. /\ k \in Keys /\ now <= t + BusyTimeout /\ t \in 0..now
      /\ \A row \in pending : KeyOf(row) # k
  BY <1>1, Recorded
<1>3. now' = now /\ now \in Nat /\ t \in Nat
  BY <1>1, <1>2, FileTypes DEF Commits, IInv
<1> HIDE DEF s, k, t, rows
<1>4. k = <<k[1], k[2]>> /\ k[1] \in Conversations /\ k[2] \in ResponseIds
  BY <1>2 DEF Keys, File!Keys
<1>5. File!mapping' = [File!mapping EXCEPT ![k] = k[2]]
  BY <1>1, <1>2, CommitRefines
<1>6. t + PendingRetention > now
  BY <1>2, <1>3, Constants
<1>7. \A status : File!LiveGroup(k, status) = {}
  BY <1>2 DEF File!LiveGroup, KeyOf
<1>8. \A j, status : j # k => File!LiveGroup(j, status)' = File!LiveGroup(j, status)
  BY <1>1, <1>3 DEF File!LiveGroup, KeyOf
<1>9. \A j : j = k => /\ File!LiveGroup(j, "pending")' = rows
                     /\ File!LiveGroup(j, "consumed")' = {}
  BY <1>1, <1>2, <1>3, <1>6 DEF File!LiveGroup, KeyOf
<1>10. File!open[k] = {} /\ File!decided[k] = {}
  BY <1>2, <1>7 DEF File!open, File!decided, Keys
<1>11. File!open' = [File!open EXCEPT ![k] = asked]
  BY <1>2, <1>8, <1>9 DEF File!open, Keys
<1>12. File!decided' = File!decided
  BY <1>7, <1>8, <1>9 DEF File!decided
<1>13. asked \in SUBSET Approvals /\ asked # {}
  BY <1>1 DEF File!PendingRow
<1> HIDE DEF asked
<1>14. File!Ledger!Offer(k[1], k[2], k[2], asked)
  BY <1>4, <1>5, <1>10, <1>11, <1>12 DEF File!Ledger!Offer
<1> QED BY <1>4, <1>13, <1>14 DEF File!Ledger!Next

\* The clock makes whole groups lapse, and each with or before its response.
LEMMA TickRefines ==
  ASSUME IInv, Tick
  PROVE  File!Ledger!Next
<1> DEFINE responses == {k \in Keys : heads[k].until <= now'}
           requests == {k \in Keys : \E row \in pending : KeyOf(row) = k /\ row.until <= now'}
<1>1. /\ heads' = heads /\ pending' = pending /\ now' = now + 1 /\ now \in Nat
      /\ \A k \in Keys : heads[k].until \in Nat
      /\ \A row \in pending : row.until \in Nat
  BY FileTypes DEF Tick, IInv
<1>2. ASSUME NEW k \in responses PROVE File!open[k] = {} \/ k \in requests
  <2> SUFFICES ASSUME NEW row \in File!LiveGroup(k, "pending") PROVE k \in requests
    BY DEF File!open, Keys
  <2>1. row \in pending /\ KeyOf(row) = k /\ row.until > now
    BY DEF File!LiveGroup, KeyOf
  <2>2. heads[k].until >= row.until
    BY <2>1 DEF IInv, Covered
  <2>3. row.until \in Nat /\ heads[k].until \in Nat
    BY <1>1, <2>1
  <2> QED BY <1>1, <2>1, <2>2, <2>3
<1>3. File!mapping' = [k \in Keys |-> IF k \in responses THEN None ELSE File!mapping[k]]
  <2>1. ASSUME NEW k \in Keys
        PROVE  File!mapping'[k] = IF k \in responses THEN None ELSE File!mapping[k]
    <3>1. heads[k].until \in Nat
      BY <1>1
    <3> QED BY <1>1, <3>1 DEF File!mapping, Keys
  <2> HIDE DEF responses
  <2> QED BY <2>1 DEF File!mapping, Keys
<1>4. ASSUME NEW k \in Keys, NEW status
      PROVE  File!LiveGroup(k, status)' =
               IF k \in requests THEN {} ELSE File!LiveGroup(k, status)
  <2>1. CASE k \in requests
    <3>1. PICK x \in pending : KeyOf(x) = k /\ x.until <= now'
      BY <2>1
    <3>2. ASSUME NEW y \in pending, KeyOf(y) = k PROVE ~ (y.until > now')
      <4>1. y.until = x.until
        BY <3>1, <3>2 DEF IInv, GroupAllOrNothing, File!GroupAllOrNothing, File!SameGroup, KeyOf
      <4> QED BY <1>1, <3>1, <4>1
    <3> QED BY <1>1, <2>1, <3>2 DEF File!LiveGroup, KeyOf
  <2>2. CASE k \notin requests
    <3>1. \A y \in pending : KeyOf(y) = k => y.until > now' /\ y.until > now
      BY <1>1, <2>2
    <3> QED BY <1>1, <2>2, <3>1 DEF File!LiveGroup, KeyOf
  <2> QED BY <2>1, <2>2
<1> HIDE DEF responses, requests
<1>5. File!open' = [k \in Keys |-> IF k \in requests THEN {} ELSE File!open[k]]
  <2>1. ASSUME NEW k \in Keys
        PROVE  File!open'[k] = IF k \in requests THEN {} ELSE File!open[k]
    BY <1>4 DEF File!open, Keys
  <2> QED BY <2>1 DEF File!open, Keys
<1>6. File!decided' = [k \in Keys |-> IF k \in requests THEN {} ELSE File!decided[k]]
  <2>1. ASSUME NEW k \in Keys
        PROVE  File!decided'[k] = IF k \in requests THEN {} ELSE File!decided[k]
    BY <1>4 DEF File!decided, Keys
  <2> QED BY <2>1 DEF File!decided, Keys
<1>7. responses \in SUBSET Keys /\ requests \in SUBSET Keys
  BY DEF responses, requests
<1>8. File!Ledger!Lapse(responses, requests)
  BY <1>2, <1>3, <1>5, <1>6 DEF File!Ledger!Lapse, File!Ledger!Keys, Keys, File!Keys
<1> QED BY <1>7, <1>8 DEF File!Ledger!Next, File!Ledger!Keys, Keys, File!Keys

\* Approvals that are not live any more are decided for nobody to see; the
\* result goes on as of any turn.
LEMMA ConsumeExpiredRefines ==
  ASSUME IInv, NEW k \in Keys, NEW result \in ResponseIds, NEW t, NEW rows,
         NEW p \in ResponseIds,
         Commits(<<k[1], result>>, t), now <= t + BusyTimeout,
         heads'[<<k[1], result>>].provider = p,
         pending' = (pending \ RowsOf(k)) \cup rows,
         \A row \in RowsOf(k) : ~ (row.until > now),
         \A row \in rows : ~ (row.until > now)
  PROVE  File!Ledger!Next
<1>1. now' = now
  BY DEF Commits
<1>2. \A row : (row \in pending' /\ row.until > now') <=>
               (row \in pending /\ row.until > now)
  BY <1>1
<1>3. File!open' = File!open /\ File!decided' = File!decided
  BY <1>2, SameRows
<1>4. File!mapping' = [File!mapping EXCEPT ![<<k[1], result>>] = p]
  BY CommitRefines
<1>5. k[1] \in Conversations
  BY DEF Keys, File!Keys
<1>6. File!Ledger!Advance(k[1], result, p)
  BY <1>3, <1>4 DEF File!Ledger!Advance
<1> QED BY <1>5, <1>6 DEF File!Ledger!Next

\* Live approvals are decided as a whole.
LEMMA ConsumeLiveRefines ==
  ASSUME IInv, NEW k \in Keys, NEW result \in ResponseIds, NEW t,
         NEW decisions \in DistinctDecisions, NEW rows,
         Commits(<<k[1], result>>, t), now <= t + BusyTimeout,
         heads[k] # File!NoHead => heads'[<<k[1], result>>].provider = heads[k].provider,
         ConsumedFor(k, decisions, rows),
         \A row \in RowsOf(k) : row.until > now
  PROVE  File!Ledger!Next
<1> DEFINE verdict == [a \in Approvals |->
             \E i \in DOMAIN decisions :
               decisions[i].approval = a /\ decisions[i].approved = TRUE]
<1>1. now' = now /\ now \in Nat
  BY FileTypes DEF Commits, IInv
<1>2. /\ decisions \in BoundedSeq(Decisions) /\ 1 \in DOMAIN decisions
      /\ \A i \in DOMAIN decisions : decisions[i] \in Decisions
      /\ \A i, j \in DOMAIN decisions : i # j => decisions[i].approval # decisions[j].approval
  BY BoundedSeqFacts DEF DistinctDecisions
<1>3. /\ pending' = (pending \ RowsOf(k)) \cup rows
      /\ \A row \in rows : \E old \in RowsOf(k) : \E i \in DOMAIN decisions :
           /\ old.status = "pending" /\ old.approval = decisions[i].approval
           /\ row = Decided(old, decisions[i])
      /\ \A old \in RowsOf(k) : old.status = "pending" /\
           \E i \in DOMAIN decisions : /\ old.approval = decisions[i].approval
                                       /\ Decided(old, decisions[i]) \in rows
      /\ \A i \in DOMAIN decisions :
           \E old \in RowsOf(k) : old.approval = decisions[i].approval
  BY DEF ConsumedFor
<1>4. /\ \A row \in RowsOf(k) : /\ row \in pending /\ row \in File!PendingRow
                                /\ KeyOf(row) = k /\ row.approval \in Approvals
      /\ \A row \in pending : KeyOf(row) = k => row \in RowsOf(k)
  BY FileTypes DEF RowsOf, IInv
<1>5. \A row \in rows : KeyOf(row) = k /\ row.status = "consumed" /\ row.until > now
  <2>1. \A row \in rows : /\ KeyOf(row) = k /\ row.status = "consumed"
                          /\ \E old \in RowsOf(k) : old.until = row.until
    BY ConsumedRows
  <2> QED BY <2>1
\* The live rows of the response, before and after
<1>6. /\ File!LiveGroup(k, "pending") = RowsOf(k) /\ File!LiveGroup(k, "consumed") = {}
      /\ File!LiveGroup(k, "pending")' = {} /\ File!LiveGroup(k, "consumed")' = rows
  <2>1. \A status : File!LiveGroup(k, status) =
          {row \in pending : KeyOf(row) = k /\ row.status = status /\ row.until > now}
    BY DEF File!LiveGroup, KeyOf
  <2>2. \A status : File!LiveGroup(k, status)' =
          {row \in pending' : KeyOf(row) = k /\ row.status = status /\ row.until > now}
    BY <1>1 DEF File!LiveGroup, KeyOf
  <2>3. \A row \in RowsOf(k) : row.status = "pending" /\ row.status # "consumed"
    BY <1>3
  <2>4. \A row \in rows : row.status # "pending"
    BY <1>5
  <2>5. \A row \in pending' : KeyOf(row) = k => row \in rows
    BY <1>3, <1>4
  <2>6. File!LiveGroup(k, "pending") = RowsOf(k)
    <3>1. File!LiveGroup(k, "pending") =
            {row \in pending : KeyOf(row) = k /\ row.status = "pending" /\ row.until > now}
      BY <2>1
    <3>2. \A row \in RowsOf(k) : row.status = "pending" /\ row.until > now
      BY <2>3
    <3> QED BY <3>1, <3>2 DEF RowsOf
  <2>7. File!LiveGroup(k, "consumed") = {}
    <3>1. File!LiveGroup(k, "consumed") =
            {row \in pending : KeyOf(row) = k /\ row.status = "consumed" /\ row.until > now}
      BY <2>1
    <3> QED BY <2>3, <3>1 DEF RowsOf
  <2>8. File!LiveGroup(k, "pending")' = {}
    BY <2>2, <2>4, <2>5
  <2>9. File!LiveGroup(k, "consumed")' = rows
    <3>1. rows \subseteq pending'
      BY <1>3
    <3>2. File!LiveGroup(k, "consumed")' =
            {row \in pending' : KeyOf(row) = k /\ row.status = "consumed" /\ row.until > now}
      BY <2>2
    <3> QED BY <1>5, <2>5, <3>1, <3>2
  <2> QED BY <2>6, <2>7, <2>8, <2>9
<1>7. \A j, status : j # k => File!LiveGroup(j, status)' = File!LiveGroup(j, status)
  <2>1. \A j, status : File!LiveGroup(j, status) =
          {row \in pending : KeyOf(row) = j /\ row.status = status /\ row.until > now}
    BY DEF File!LiveGroup, KeyOf
  <2>2. \A j, status : File!LiveGroup(j, status)' =
          {row \in pending' : KeyOf(row) = j /\ row.status = status /\ row.until > now}
    BY <1>1 DEF File!LiveGroup, KeyOf
  <2> QED BY <1>3, <1>4, <1>5, <2>1, <2>2
<1>8. /\ File!open[k] = {row.approval : row \in RowsOf(k)}
      /\ File!open' = [File!open EXCEPT ![k] = {}]
  BY <1>6, <1>7 DEF File!open, Keys
<1>9. PICK first \in RowsOf(k) : TRUE
  BY <1>2, <1>3
<1>10. File!open[k] # {}
  BY <1>8, <1>9
<1>11. /\ heads[k].until > now /\ heads[k] # File!NoHead
       /\ heads[k].provider \in ResponseIds
  <2>1. heads[k].until >= first.until /\ first.until > now
    BY <1>4, <1>9 DEF IInv, Covered
  <2>2. heads[k].until \in Nat /\ first.until \in Nat /\ File!NoHead.until = 0
    BY <1>4, <1>9, FileTypes DEF IInv
  <2>3. heads[k].until > now /\ heads[k] # File!NoHead
    BY <1>1, <2>1, <2>2
  <2> QED BY <2>3, FileTypes DEF IInv
<1>12. File!mapping[k] = heads[k].provider /\ File!mapping[k] # None
  BY <1>11, Constants DEF File!mapping, Keys
<1>13. File!mapping' = [File!mapping EXCEPT ![<<k[1], result>>] = File!mapping[k]]
  BY <1>11, <1>12, CommitRefines
\* Each approval has one decision, which is its verdict.
<1>14. ASSUME NEW i \in DOMAIN decisions
       PROVE  /\ decisions[i].approval \in Approvals
              /\ verdict[decisions[i].approval] = decisions[i].approved
  <2>1. decisions[i].approved \in BOOLEAN
    BY <1>2, Zenon DEF Decisions, File!Decisions
  <2>2. decisions[i].approval \in Approvals
    BY <1>2 DEF Decisions, File!Decisions
  <2>3. \A j \in DOMAIN decisions : decisions[j].approval = decisions[i].approval => j = i
    BY <1>2
  <2>4. verdict[decisions[i].approval] <=> decisions[i].approved = TRUE
    BY <2>2, <2>3, Zenon
  <2>5. verdict[decisions[i].approval] \in BOOLEAN
    BY <2>2, Zenon
  <2> QED BY <2>1, <2>2, <2>4, <2>5, Zenon
<1>15. verdict \in [Approvals -> BOOLEAN]
  BY Zenon
<1> HIDE DEF verdict
<1> DEFINE Pair(row) == [approval |-> row.approval, approved |-> row.approved]
           Verdict(a) == [approval |-> a, approved |-> verdict[a]]
<1>16. ASSUME NEW old \in RowsOf(k), NEW i \in DOMAIN decisions,
              old.approval = decisions[i].approval
       PROVE  Pair(Decided(old, decisions[i])) = Verdict(old.approval)
  <2> DEFINE b == decisions[i].approved
             row == Decided(old, decisions[i])
  <2>1. row = [old EXCEPT !.status = "consumed", !.approved = b]
    BY DEF Decided
  <2>2. verdict[old.approval] = b
    BY <1>14, <1>16
  <2> HIDE DEF b, row
  <2>3. row.approval = old.approval /\ row.approved = b
    BY <1>4, <2>1 DEF File!PendingRow
  <2> QED BY <2>2, <2>3 DEF row
<1> HIDE DEF Pair, Verdict
<1>17. {Pair(row) : row \in rows} = {Verdict(a) : a \in File!open[k]}
  <2>1. ASSUME NEW row \in rows PROVE \E a \in File!open[k] : Pair(row) = Verdict(a)
    <3>1. PICK old \in RowsOf(k), i \in DOMAIN decisions :
            old.approval = decisions[i].approval /\ row = Decided(old, decisions[i])
      BY <1>3
    <3>2. Pair(row) = Verdict(old.approval)
      BY <1>16, <3>1
    <3> QED BY <1>8, <3>2
  <2>2. ASSUME NEW a \in File!open[k] PROVE \E row \in rows : Pair(row) = Verdict(a)
    <3>1. PICK old \in RowsOf(k) : old.approval = a
      BY <1>8
    <3>2. PICK i \in DOMAIN decisions : /\ old.approval = decisions[i].approval
                                        /\ Decided(old, decisions[i]) \in rows
      BY <1>3
    <3>3. Pair(Decided(old, decisions[i])) = Verdict(a)
      BY <1>16, <3>1, <3>2
    <3> QED BY <3>2, <3>3
  <2> QED BY <2>1, <2>2
<1>18. File!decided' = [File!decided EXCEPT ![k] =
         {[approval |-> a, approved |-> verdict[a]] : a \in File!open[k]}]
  <2> DEFINE new == {Verdict(a) : a \in File!open[k]}
  <2>1. \A j \in Keys : File!decided[j] = {Pair(row) : row \in File!LiveGroup(j, "consumed")}
    BY DEF File!decided, Keys, Pair
  <2>2. \A j \in Keys : File!decided'[j] = {Pair(row) : row \in File!LiveGroup(j, "consumed")'}
    BY DEF File!decided, Keys, Pair
  <2>3. File!decided'[k] = new
    BY <1>6, <1>17, <2>2
  <2>4. \A j \in Keys : j # k => File!decided'[j] = File!decided[j]
    BY <1>7, <2>1, <2>2
  <2> HIDE DEF new
  <2>5. File!decided' = [File!decided EXCEPT ![k] = new]
    BY <2>3, <2>4 DEF File!decided, Keys
  <2> QED BY <2>5 DEF new, Verdict
<1>19. k = <<k[1], k[2]>> /\ k[1] \in Conversations /\ k[2] \in ResponseIds
  BY DEF Keys, File!Keys
<1>20. File!Ledger!Decide(k[1], k[2], verdict, result)
  BY <1>8, <1>10, <1>12, <1>13, <1>18, <1>19 DEF File!Ledger!Decide
<1> QED BY <1>15, <1>19, <1>20 DEF File!Ledger!Next

LEMMA ConsumeRefines ==
  ASSUME IInv, NEW p \in Processes, ConsumeCommit(p)
  PROVE  File!Ledger!Next
<1>1. PICK k : k = call[p].key
  OBVIOUS
<1>2. PICK result : result = call[p].result
  OBVIOUS
<1>3. PICK decisions : decisions = call[p].decisions
  OBVIOUS
<1>4. PICK t : t = call[p].current
  OBVIOUS
<1> DEFINE j == <<k[1], result>>
<1>5. /\ Commits(j, t) /\ now <= t + BusyTimeout
      /\ k \in Keys /\ decisions \in DistinctDecisions /\ result \in ResponseIds
      /\ heads[k] # File!NoHead => heads'[j].provider = heads[k].provider
  BY <1>1, <1>2, <1>3, <1>4, ConsumeCommits
<1>6. heads'[j].provider \in ResponseIds
  <2>1. heads'[j].provider = call[p].provider
    BY <1>1, <1>2, ConsumeCommits
  <2>2. call[p].provider \in ResponseIds
    BY DEF IInv, Calls, CallOf, ConsumeCommit
  <2> QED BY <2>1, <2>2
<1>7. PICK rows : ConsumedFor(k, decisions, rows)
  BY <1>1, <1>3, ConsumeRowsDecided
<1>8. \A x, y \in RowsOf(k) : x.until = y.until
  BY DEF RowsOf, KeyOf, IInv, GroupAllOrNothing, File!GroupAllOrNothing, File!SameGroup
<1>9. CASE \A row \in RowsOf(k) : row.until > now
  BY <1>5, <1>7, <1>9, ConsumeLiveRefines
<1>10. CASE \E row \in RowsOf(k) : ~ (row.until > now)
  <2>1. \A row \in RowsOf(k) : ~ (row.until > now)
    BY <1>8, <1>10
  <2>2. \A row \in rows : \E old \in RowsOf(k) : old.until = row.until
    BY <1>5, <1>7, ConsumedRows
  <2>3. \A row \in rows : ~ (row.until > now)
    BY <2>1, <2>2
  <2>4. pending' = (pending \ RowsOf(k)) \cup rows
    BY <1>7 DEF ConsumedFor
  <2> QED BY <1>5, <1>6, <2>1, <2>3, <2>4, ConsumeExpiredRefines
<1> QED BY <1>9, <1>10

LEMMA NextRefines ==
  IInv /\ [Next]_vars => [File!Ledger!Next]_<<File!mapping, File!open, File!decided>>
<1> SUFFICES ASSUME IInv, [Next]_vars
             PROVE  File!Ledger!Next \/ UNCHANGED <<File!mapping, File!open, File!decided>>
  OBVIOUS
<1>1. ASSUME UNCHANGED <<heads, pending, now, known, acted>>
      PROVE  UNCHANGED <<File!mapping, File!open, File!decided>>
  BY <1>1 DEF File!mapping, File!open, File!decided, File!LiveGroup
<1>2. CASE UNCHANGED vars
  BY <1>1, <1>2 DEF vars
<1>3. CASE Tick
  BY <1>3, TickRefines
<1>4. ASSUME NEW p \in Processes, Begin(p)
      PROVE  UNCHANGED <<File!mapping, File!open, File!decided>>
  <2>1. UNCHANGED <<heads, pending, now, known, acted>>
    BY <1>4, BeginReads
  <2> QED BY <1>1, <2>1
<1>5. ASSUME NEW p \in Processes, ConsumeRows(p) \/ Resolve(p) \/ Fail(p)
      PROVE  UNCHANGED <<File!mapping, File!open, File!decided>>
  <2>1. UNCHANGED <<heads, pending, now, known, acted>>
    BY <1>5 DEF ConsumeRows, Resolve, Fail
  <2> QED BY <1>1, <2>1
<1>6. ASSUME NEW p \in Processes, ResolveDelete(p)
      PROVE  UNCHANGED <<File!mapping, File!open, File!decided>>
  <2>1. Shrinks /\ now' = now /\ pending' = pending
    BY <1>6, DeleteShrinks DEF ResolveDelete
  <2> QED BY <2>1, SweepRefines
<1>7. ASSUME NEW p \in Processes, PruneCommit(p)
      PROVE  UNCHANGED <<File!mapping, File!open, File!decided>>
  <2>1. Shrinks /\ now' = now /\ \A row \in pending : row.until > now => row \in pending'
    BY <1>7, PruneShrinks DEF PruneCommit
  <2> QED BY <2>1, SweepRefines
<1>8. ASSUME NEW p \in Processes, Step(p)
      PROVE  File!Ledger!Next \/ UNCHANGED <<File!mapping, File!open, File!decided>>
  BY <1>5, <1>6, <1>7, <1>8, RecordRefines, RecordPendingRefines, ConsumeRefines DEF Step
<1> QED BY <1>2, <1>3, <1>4, <1>8 DEF Next

\* The file that all processes share is one continuation ledger: whatever they
\* read before others wrote, each transaction is one step of the ledger, and
\* every other step is none.
THEOREM FileImplementsLedger == Spec => ImplementsLedger
BY InitRefines, NextRefines, Invariance, PTL
   DEF Spec, ImplementsLedger, File!ImplementsLedger, File!Ledger!Spec, File!Ledger!vars

=============================================================================
