------------------------- MODULE AgentServerProofs -------------------------
(***************************************************************************)
(* Proofs about the turns of node/server.mjs, for any number of turns,     *)
(* conversations, provider responses and process starts, any retentions    *)
(* and any clock bound.                                                    *)
(*                                                                         *)
(* Most steps commit nothing: what they do to the tables is one relation,  *)
(* StoreKeeps, and what they do to the turns another, TurnsKeep.  The      *)
(* parts of the invariant that relate turns and tables are proved once     *)
(* for all of these steps, and apart for the two that commit, Decide and   *)
(* Commit.                                                                 *)
(***************************************************************************)
EXTENDS AgentServer, FiniteSetTheorems, TLAPS

KindNames == {"relayed", "failure", "completed", "request", "call", "text"}

\* What the gate withholds: the completion and the [DONE] frames after it
Withheld == {f \in Gate!Frames : f.data \in {"completed", "done"}}

GateRecord ==
  [state : {"open", "failed", "completed"},
   createdId : ResponseIds \cup {None}, completedId : ResponseIds \cup {None},
   withheld : Seq(Withheld)]

TurnRecord ==
  [pc : Pcs, conv : Conversations \cup {None}, prev : ResponseIds \cup {None},
   demo : BOOLEAN, decisions : DecisionSets \cup {<<>>},
   provider : ProviderIds \cup {None}, id : ResponseIds \cup {None},
   gate : GateRecord, frames : 0..MaxFrames, outgoing : Seq(KindNames),
   written : SUBSET KindNames, committed : Nat \cup {None}]

\* What a turn has written or is about to write
Emits(s) == s.written \cup {s.outgoing[i] : i \in DOMAIN s.outgoing}

\* The response r of the conversation c was committed by a turn.
Completed(c, r) ==
  \E u \in Turns : turn[u].id = r /\ turn[u].conv = c /\ turn[u].committed # None

RowsOf(c, r) == {row \in pending : row.conv = c /\ row.resp = r}

-----------------------------------------------------------------------------
(* The inductive invariant.                                                *)

Types == TypeOK /\ turn \in [Turns -> TurnRecord]

\* What a turn knows at each place of the handler
PhaseOf(s) ==
  /\ s.pc \in {"idle", "refused"} => s = [Idle EXCEPT !.pc = s.pc]
  /\ s.pc = "fetching" =>
       s.id = None /\ s.written = {} /\ s.outgoing = <<>> /\ s.gate = NullGate
  /\ s.pc = "streaming" => s.id \in ProviderIds
  /\ s.pc \in {"fetching", "streaming"} =>
       /\ s.committed = None /\ s.decisions = <<>> /\ s.conv \in Conversations
       /\ s.prev # None => s.provider # None
  /\ s.pc \in Ended => s.provider = None /\ s.outgoing = <<>>
  /\ s.id # None => s.conv \in Conversations
  /\ s.committed # None => s.id # None
  /\ s.decisions # <<>> => s.committed # None /\ s.prev \in ProviderIds

\* The gate of a stream has completed the response of the stream or none, and
\* no failure was let through before a completion.
GateOf(s) ==
  s.pc = "streaming" =>
    /\ s.gate.completedId \in {None, s.id}
    /\ s.gate.completedId # None <=> s.gate.state = "completed"
    /\ s.gate.state # "failed" => "failure" \notin Emits(s)

\* What a turn may write depends on what it has committed.
SpeechOf(s) ==
  /\ "completed" \in Emits(s) \/ "request" \in Emits(s) => s.committed # None
  /\ "failure" \in Emits(s) => s.committed = None
  /\ "call" \in Emits(s) => s.decisions # <<>> /\ s.decisions[1].approved = TRUE

Local == \A t \in Turns : PhaseOf(turn[t]) /\ GateOf(turn[t]) /\ SpeechOf(turn[t])

\* The provider's ids are given out once, and to the turn that has them.
Ids ==
  /\ \A t \in Turns : turn[t].id \in ProviderIds => issued[turn[t].id] = turn[t].conv
  /\ \A t, u \in Turns : turn[t].id = turn[u].id /\ turn[t].id \in ProviderIds => t = u

\* What was committed stays on file for its retention.
Kept ==
  \A t \in Turns :
    turn[t].committed # None /\ Since(t, OrdinaryRetention) =>
      heads[<<turn[t].conv, turn[t].id>>].until >= turn[t].committed + OrdinaryRetention

Requests ==
  \A t \in Turns :
    "request" \in Emits(turn[t]) /\ Since(t, PendingRetention) =>
      \E row \in RowsOf(turn[t].conv, turn[t].id) :
        row.until >= turn[t].committed + PendingRetention

\* Everything on file was committed by a turn, and so was everything a turn
\* decides or goes on from.
Origins ==
  /\ \A c \in Conversations, r \in ResponseIds :
       heads[<<c, r>>] # Store!NoHead =>
         Completed(c, r) /\ Completed(c, heads[<<c, r>>].provider)
  /\ \A row \in pending :
       /\ row.resp \in ProviderIds /\ row.approval = ApprovalId(row.conv, row.resp)
       /\ Completed(row.conv, row.resp)
  /\ \A t \in Turns :
       /\ turn[t].decisions # <<>> => Completed(turn[t].conv, turn[t].prev)
       /\ turn[t].provider # None =>
            /\ Completed(turn[t].conv, turn[t].prev)
            /\ Completed(turn[t].conv, turn[t].provider)

\* A response has one approval.
OneRow == \A x, y \in pending : x.conv = y.conv /\ x.resp = y.resp => x = y

\* The decision acted upon is the one on file.
DecisionsOnFile ==
  \A t \in Turns : turn[t].decisions # <<>> =>
    \A row \in RowsOf(turn[t].conv, turn[t].prev) :
      row.status = "consumed" /\ row.approved = turn[t].decisions[1].approved

\* A turn goes on from what nothing waits on.
NonePast ==
  \A t \in Turns : turn[t].provider # None =>
    ~ Store!hasPending(turn[t].conv, turn[t].prev)

IInv ==
  /\ Types /\ Local /\ Ids
  /\ Kept /\ Requests /\ Origins /\ OneRow /\ DecisionsOnFile /\ NonePast
  /\ DecidedByOneTurn

-----------------------------------------------------------------------------
(* The operators of the state store.                                       *)

LEMMA Constants ==
  /\ OrdinaryRetention \in Nat \ {0} /\ PendingRetention \in Nat
  /\ MaxTime \in Nat /\ MaxFrames \in Nat
  /\ None \notin ProviderIds /\ None \notin Conversations /\ None \notin Nat
  /\ None \notin ResponseIds /\ ProviderIds \subseteq ResponseIds
  /\ ResultIds \cap ProviderIds = {}
BY NoneAssumption, RetentionAssumption, BoundAssumption, IdsAreDistinct
   DEF ResponseIds

LEMMA StoreTypes ==
  ASSUME Types
  PROVE  /\ now \in Nat /\ now \in 0..MaxTime
         /\ heads \in [Store!Keys -> Store!HeadRow]
         /\ \A k \in Store!Keys : heads[k] \in Store!HeadRow /\ heads[k].until \in Nat
         /\ \A k \in Store!Keys : heads[k] # Store!NoHead => heads[k].provider \in ProviderIds
         /\ Store!NoHead \in Store!HeadRow /\ Store!NoHead.until = 0
         /\ Store!NoHead.provider = None
         /\ pending \subseteq Store!PendingRow
         /\ \A row \in pending :
              /\ row.conv \in Conversations /\ row.resp \in ResponseIds
              /\ row.until \in Nat /\ row.ordinal = 0
              /\ row.status \in {"pending", "consumed"}
<1>1. /\ now \in 0..MaxTime /\ MaxTime \in Nat
      /\ heads \in [Store!Keys -> Store!HeadRow]
      /\ pending \subseteq Store!PendingRow
      /\ \A k \in Store!Keys : heads[k].provider \in ProviderIds \cup {None}
  BY BoundAssumption DEF Types, TypeOK, Store!TypeOK
<1>2. \A k \in Store!Keys : heads[k] \in Store!HeadRow /\ heads[k].until \in Nat
  BY <1>1 DEF Store!HeadRow, Store!NoHead
<1>3. ASSUME NEW k \in Store!Keys, heads[k] # Store!NoHead
      PROVE  heads[k].provider \in ProviderIds
  <2>1. heads[k].provider \in ResponseIds
    BY <1>2, <1>3 DEF Store!HeadRow
  <2> QED BY <1>1, <2>1, Constants
<1>4. /\ Store!NoHead \in Store!HeadRow /\ Store!NoHead.until = 0
      /\ Store!NoHead.provider = None
  BY DEF Store!HeadRow, Store!NoHead
<1>5. \A row \in pending :
        /\ row.conv \in Conversations /\ row.resp \in ResponseIds
        /\ row.until \in Nat /\ row.ordinal = 0
        /\ row.status \in {"pending", "consumed"}
  BY <1>1 DEF Store!PendingRow
<1> QED BY <1>1, <1>2, <1>3, <1>4, <1>5

LEMMA UpsertedFacts ==
  ASSUME Types, NEW hs \in [Store!Keys -> Store!HeadRow],
         NEW c \in Conversations, NEW r \in ResponseIds, NEW p \in ProviderIds
  PROVE  LET up == Store!Upserted(hs, c, r, p, OrdinaryRetention)
         IN  /\ up \in [Store!Keys -> Store!HeadRow]
             /\ \A k \in Store!Keys : k # <<c, r>> => up[k] = hs[k]
             /\ up[<<c, r>>].provider = p
             /\ up[<<c, r>>].until >= hs[<<c, r>>].until
             /\ up[<<c, r>>].until >= now + OrdinaryRetention
             /\ up[<<c, r>>] # Store!NoHead
<1> DEFINE until == now + OrdinaryRetention
           kept == hs[<<c, r>>].until
           row == [provider |-> p, until |-> IF until > kept THEN until ELSE kept]
<1>1. <<c, r>> \in Store!Keys
  BY DEF Store!Keys
<1>2. kept \in Nat /\ until \in Nat \ {0}
  BY <1>1, StoreTypes, Constants DEF Store!HeadRow, Store!NoHead
<1>3. row.until \in Nat \ {0} /\ row.until >= kept /\ row.until >= until
  BY <1>2
<1>4. row \in Store!HeadRow /\ row.provider = p /\ row # Store!NoHead
  BY <1>3, Constants DEF Store!HeadRow, Store!NoHead
<1>5. Store!Upserted(hs, c, r, p, OrdinaryRetention) = [hs EXCEPT ![<<c, r>>] = row]
  BY DEF Store!Upserted
<1> HIDE DEF row, until, kept
<1>6. /\ [hs EXCEPT ![<<c, r>>] = row] \in [Store!Keys -> Store!HeadRow]
      /\ [hs EXCEPT ![<<c, r>>] = row][<<c, r>>] = row
      /\ \A k \in Store!Keys : k # <<c, r>> => [hs EXCEPT ![<<c, r>>] = row][k] = hs[k]
  BY <1>1, <1>4
<1> QED BY <1>3, <1>4, <1>5, <1>6 DEF until, kept

-----------------------------------------------------------------------------
(* What the store does in a step that commits nothing.                     *)

StoreKeeps ==
  /\ heads' \in [Store!Keys -> Store!HeadRow] /\ pending' \subseteq pending
  /\ \A k \in Store!Keys :
       /\ heads'[k] \in {heads[k], Store!NoHead}
       /\ heads[k].until > now' => heads'[k] = heads[k]
  /\ \A row \in pending : row.until > now' => row \in pending'
  /\ now' \in now..MaxTime

LEMMA UnchangedKeeps ==
  ASSUME Types, UNCHANGED storeVars
  PROVE  StoreKeeps
BY StoreTypes, Constants DEF StoreKeeps, storeVars

LEMMA SweepHeadsKeeps ==
  ASSUME Types, Store!SweepHeads
  PROVE  StoreKeeps
BY StoreTypes, Constants DEF StoreKeeps, Store!SweepHeads, Store!UnexpiredHeads

LEMMA PruneKeeps ==
  ASSUME Types, Store!Prune
  PROVE  StoreKeeps
BY StoreTypes, Constants DEF StoreKeeps, Store!Prune, Store!UnexpiredHeads

LEMMA TickKeeps ==
  ASSUME Types, Store!Tick
  PROVE  StoreKeeps
BY StoreTypes, Constants DEF StoreKeeps, Store!Tick

LEMMA ResolveKeeps ==
  ASSUME Types, NEW c \in Conversations, NEW r \in ResponseIds, Store!Resolve(c, r)
  PROVE  StoreKeeps
<1>1. <<c, r>> \in Store!Keys
  BY DEF Store!Keys
<1> QED BY <1>1, StoreTypes, Constants DEF StoreKeeps, Store!Resolve, Store!Live

-----------------------------------------------------------------------------
(* What the turns do in a step that commits nothing.                       *)

\* A turn goes on from a head it has just resolved, past no approval.
GoesOn(n) ==
  /\ n.conv \in Conversations /\ n.prev \in ResponseIds
  /\ heads[<<n.conv, n.prev>>] # Store!NoHead
  /\ n.provider = heads[<<n.conv, n.prev>>].provider
  /\ ~ Store!hasPending(n.conv, n.prev)

QuietTurn(s, n) ==
  /\ n.committed = s.committed /\ n.decisions = s.decisions
  /\ Emits(n) \subseteq Emits(s) \cup {"relayed", "failure"}
  /\ s.committed # None => n.conv = s.conv /\ n.id = s.id
  /\ s.decisions # <<>> => n.prev = s.prev
  /\ n.provider # None =>
       \/ n.provider = s.provider /\ n.conv = s.conv /\ n.prev = s.prev
       \/ GoesOn(n)

TurnsKeep == \A t \in Turns : QuietTurn(turn[t], turn'[t])

LEMMA CompletedLasts ==
  ASSUME TurnsKeep, NEW c, NEW r, Completed(c, r)
  PROVE  Completed(c, r)'
<1>1. PICK u \in Turns : turn[u].id = r /\ turn[u].conv = c /\ turn[u].committed # None
  BY DEF Completed
<1>2. turn'[u].id = r /\ turn'[u].conv = c /\ turn'[u].committed # None
  BY <1>1 DEF TurnsKeep, QuietTurn
<1> QED BY <1>2 DEF Completed

LEMMA QuietKept ==
  ASSUME Types, Local, Kept, StoreKeeps, TurnsKeep
  PROVE  Kept'
<1> SUFFICES ASSUME NEW t \in Turns, turn'[t].committed # None,
                    now' < turn'[t].committed + OrdinaryRetention
             PROVE  heads'[<<turn'[t].conv, turn'[t].id>>].until
                      >= turn'[t].committed + OrdinaryRetention
  BY DEF Kept, Since
<1> DEFINE s == turn[t]
           k == <<s.conv, s.id>>
<1>1. /\ turn'[t].committed = s.committed /\ turn'[t].conv = s.conv /\ turn'[t].id = s.id
      /\ s.committed # None
  BY DEF TurnsKeep, QuietTurn
<1>2. /\ s.committed \in Nat /\ s.id \in ResponseIds /\ s.conv \in Conversations
  BY <1>1 DEF Types, TurnRecord, Local, PhaseOf
<1>3. k \in Store!Keys /\ now \in Nat /\ heads[k].until \in Nat /\ now' \in Nat /\ now' >= now
  BY <1>2, StoreTypes, Constants DEF Store!Keys, StoreKeeps
<1>4. now < s.committed + OrdinaryRetention
  BY <1>1, <1>2, <1>3, Constants
<1>5. heads[k].until >= s.committed + OrdinaryRetention
  BY <1>1, <1>4 DEF Kept, Since
<1>6. heads'[k] = heads[k]
  BY <1>1, <1>2, <1>3, <1>5, Constants DEF StoreKeeps
<1> QED BY <1>1, <1>5, <1>6

LEMMA QuietRequests ==
  ASSUME Types, Local, Requests, StoreKeeps, TurnsKeep
  PROVE  Requests'
<1> SUFFICES ASSUME NEW t \in Turns, "request" \in Emits(turn'[t]),
                    now' < turn'[t].committed + PendingRetention
             PROVE  \E row \in pending' :
                      /\ row.conv = turn'[t].conv /\ row.resp = turn'[t].id
                      /\ row.until >= turn'[t].committed + PendingRetention
  BY DEF Requests, Since, RowsOf, Emits
<1> DEFINE s == turn[t]
<1>1. "request" \in Emits(s) /\ turn'[t].committed = s.committed
  BY DEF TurnsKeep, QuietTurn
<1>2. s.committed # None /\ turn'[t].conv = s.conv /\ turn'[t].id = s.id
  BY <1>1 DEF Local, SpeechOf, TurnsKeep, QuietTurn
<1>3. s.committed \in Nat /\ now \in Nat /\ now' \in Nat /\ now' >= now
  BY <1>2, StoreTypes, Constants DEF Types, TurnRecord, StoreKeeps
<1>4. PICK row \in RowsOf(s.conv, s.id) : row.until >= s.committed + PendingRetention
  BY <1>1, <1>3, Constants DEF Requests, Since
<1>5. row \in pending /\ row.until \in Nat
  BY StoreTypes DEF RowsOf
<1>6. row \in pending'
  BY <1>1, <1>3, <1>4, <1>5, Constants DEF StoreKeeps
<1> QED BY <1>1, <1>2, <1>4, <1>6 DEF RowsOf

LEMMA QuietOrigins ==
  ASSUME Types, Local, Origins, StoreKeeps, TurnsKeep
  PROVE  Origins'
<1>1. ASSUME NEW c \in Conversations, NEW r \in ResponseIds,
             heads'[<<c, r>>] # Store!NoHead
      PROVE  (Completed(c, r) /\ Completed(c, heads[<<c, r>>].provider))'
  <2>1. <<c, r>> \in Store!Keys
    BY DEF Store!Keys
  <2>2. heads'[<<c, r>>] = heads[<<c, r>>]
    BY <1>1, <2>1 DEF StoreKeeps
  <2>3. Completed(c, r) /\ Completed(c, heads[<<c, r>>].provider)
    BY <1>1, <2>2 DEF Origins
  <2>4. Completed(c, r)'
    BY <2>3, CompletedLasts
  <2>5. \E u \in Turns : /\ turn[u].id = heads[<<c, r>>].provider /\ turn[u].conv = c
                         /\ turn[u].committed # None
    BY <2>3 DEF Completed
  <2>6. \E u \in Turns : /\ turn'[u].id = heads'[<<c, r>>].provider /\ turn'[u].conv = c
                         /\ turn'[u].committed # None
    BY <2>2, <2>5 DEF TurnsKeep, QuietTurn
  <2> QED BY <2>4, <2>6 DEF Completed
<1>2. ASSUME NEW row \in pending'
      PROVE  /\ row.resp \in ProviderIds /\ row.approval = ApprovalId(row.conv, row.resp)
             /\ Completed(row.conv, row.resp)'
  <2>1. /\ row.resp \in ProviderIds /\ row.approval = ApprovalId(row.conv, row.resp)
        /\ Completed(row.conv, row.resp)
    BY DEF StoreKeeps, Origins
  <2> QED BY <2>1, CompletedLasts
<1>3. ASSUME NEW t \in Turns, turn'[t].decisions # <<>>
      PROVE  \E u \in Turns : /\ turn'[u].id = turn'[t].prev /\ turn'[u].conv = turn'[t].conv
                              /\ turn'[u].committed # None
  <2>1. /\ turn[t].decisions # <<>> /\ turn'[t].prev = turn[t].prev
        /\ turn'[t].conv = turn[t].conv
    BY <1>3 DEF TurnsKeep, QuietTurn, Local, PhaseOf
  <2>2. Completed(turn[t].conv, turn[t].prev)
    BY <2>1 DEF Origins
  <2> QED BY <2>1, <2>2 DEF Completed, TurnsKeep, QuietTurn
<1>4. ASSUME NEW t \in Turns, turn'[t].provider # None
      PROVE  /\ \E u \in Turns : /\ turn'[u].id = turn'[t].prev
                                 /\ turn'[u].conv = turn'[t].conv
                                 /\ turn'[u].committed # None
             /\ \E u \in Turns : /\ turn'[u].id = turn'[t].provider
                                 /\ turn'[u].conv = turn'[t].conv
                                 /\ turn'[u].committed # None
  <2> DEFINE n == turn'[t]
  <2>1. Completed(n.conv, n.prev) /\ Completed(n.conv, n.provider)
    <3>1. CASE /\ n.provider = turn[t].provider
               /\ n.conv = turn[t].conv /\ n.prev = turn[t].prev
      BY <1>4, <3>1 DEF Origins
    <3>2. CASE GoesOn(n)
      BY <3>2 DEF GoesOn, Origins
    <3> QED BY <1>4, <3>1, <3>2 DEF TurnsKeep, QuietTurn
  <2> QED BY <2>1 DEF Completed, TurnsKeep, QuietTurn
<1> QED BY <1>1, <1>2, <1>3, <1>4 DEF Origins, Completed, Store!NoHead

LEMMA QuietDecisions ==
  ASSUME Types, Local, OneRow, DecisionsOnFile, DecidedByOneTurn, StoreKeeps, TurnsKeep
  PROVE  OneRow' /\ DecisionsOnFile' /\ DecidedByOneTurn'
<1>1. OneRow'
  BY DEF OneRow, StoreKeeps
<1>2. \A t \in Turns : turn'[t].decisions # <<>> =>
        /\ turn[t].decisions = turn'[t].decisions
        /\ turn'[t].conv = turn[t].conv /\ turn'[t].prev = turn[t].prev
        /\ turn'[t].committed = turn[t].committed
  BY DEF TurnsKeep, QuietTurn, Local, PhaseOf
<1>3. DecisionsOnFile'
  <2> SUFFICES ASSUME NEW t \in Turns, turn'[t].decisions # <<>>, NEW row \in pending',
                      row.conv = turn'[t].conv, row.resp = turn'[t].prev
               PROVE  /\ row.status = "consumed"
                      /\ row.approved = turn'[t].decisions[1].approved
    BY DEF DecisionsOnFile, RowsOf
  <2>1. /\ turn[t].decisions = turn'[t].decisions /\ turn[t].decisions # <<>>
        /\ row \in RowsOf(turn[t].conv, turn[t].prev)
    BY <1>2 DEF StoreKeeps, RowsOf
  <2>2. /\ row.status = "consumed"
        /\ row.approved = turn[t].decisions[1].approved
    BY <2>1 DEF DecisionsOnFile
  <2> QED BY <2>1, <2>2
<1>4. DecidedByOneTurn'
  BY <1>2 DEF DecidedByOneTurn
<1> QED BY <1>1, <1>3, <1>4

LEMMA QuietPast ==
  ASSUME Types, NonePast, StoreKeeps, TurnsKeep
  PROVE  NonePast'
<1> SUFFICES ASSUME NEW t \in Turns, turn'[t].provider # None, NEW row \in pending',
                    row.conv = turn'[t].conv, row.resp = turn'[t].prev,
                    row.status = "pending", row.until > now'
             PROVE  FALSE
  BY DEF NonePast, Store!hasPending, Store!LiveRows
<1>1. ~ Store!hasPending(turn'[t].conv, turn'[t].prev)
  BY DEF TurnsKeep, QuietTurn, NonePast, GoesOn
<1>2. row \in pending /\ row.until > now
  BY StoreTypes DEF StoreKeeps
<1> QED BY <1>1, <1>2 DEF Store!hasPending, Store!LiveRows

LEMMA QuietStep ==
  ASSUME IInv, StoreKeeps, TurnsKeep
  PROVE  (Kept /\ Requests /\ Origins /\ OneRow /\ DecisionsOnFile /\ NonePast
            /\ DecidedByOneTurn)'
BY QuietKept, QuietRequests, QuietOrigins, QuietDecisions, QuietPast DEF IInv

LEMMA QuietTypes ==
  ASSUME Types, StoreKeeps, TurnsKeep, turn' \in [Turns -> TurnRecord],
         process' \in {"up", "draining", "down"}, starts' \in 0..MaxStarts,
         issued' \in [ProviderIds -> Conversations \cup {None}]
  PROVE  Types'
<1>1. Store!TypeOK'
  BY StoreTypes, Constants DEF StoreKeeps, Store!TypeOK
<1>2. \A k \in Store!Keys : heads'[k].provider \in ProviderIds \cup {None}
  BY StoreTypes DEF StoreKeeps
<1>3. ASSUME NEW t \in Turns
      PROVE  turn'[t].committed \in 0..now' \cup {None}
  <2>1. turn[t].committed \in 0..now \cup {None}
    BY DEF Types, TypeOK
  <2> QED BY <2>1, StoreTypes, Constants DEF StoreKeeps, TurnsKeep, QuietTurn
<1>4. ASSUME NEW t \in Turns
      PROVE  /\ turn'[t].pc \in Pcs
             /\ turn'[t].conv \in Conversations \cup {None}
             /\ turn'[t].prev \in ResponseIds \cup {None}
             /\ turn'[t].id \in ResponseIds \cup {None}
             /\ turn'[t].provider \in ProviderIds \cup {None}
             /\ turn'[t].frames \in 0..MaxFrames
  BY DEF TurnRecord
<1>5. TypeOK'
  BY <1>1, <1>2, <1>3, <1>4 DEF TypeOK, Store!Keys
<1> QED BY <1>5 DEF Types

LEMMA QuietItself ==
  ASSUME NEW s
  PROVE  QuietTurn(s, s)
BY DEF QuietTurn

\* The step of a turn that commits nothing
LEMMA TurnMoves ==
  ASSUME IInv, StoreKeeps, NEW t \in Turns, NEW n \in TurnRecord, Moves(t, n),
         QuietTurn(turn[t], n), PhaseOf(n), GateOf(n), SpeechOf(n),
         issued' \in [ProviderIds -> Conversations \cup {None}], Ids'
  PROVE  IInv'
<1>1. /\ turn' = [turn EXCEPT ![t] = n] /\ turn \in [Turns -> TurnRecord]
      /\ process' = process /\ starts' = starts
  BY DEF IInv, Types, Moves
<1>2. /\ turn' \in [Turns -> TurnRecord] /\ turn'[t] = n
      /\ \A u \in Turns : u # t => turn'[u] = turn[u]
  BY <1>1
<1>3. TurnsKeep
  BY <1>2, QuietItself DEF TurnsKeep
<1>4. Types'
  BY <1>1, <1>2, <1>3, QuietTypes DEF IInv, Types, TypeOK
<1>5. Local'
  BY <1>2 DEF IInv, Local
<1> QED BY <1>3, <1>4, <1>5, QuietStep DEF IInv

\* and keeps its id
LEMMA QuietMove ==
  ASSUME IInv, StoreKeeps, NEW t \in Turns, NEW n \in TurnRecord, Moves(t, n),
         QuietTurn(turn[t], n), PhaseOf(n), GateOf(n), SpeechOf(n),
         n.id = turn[t].id, turn[t].id # None => n.conv = turn[t].conv, issued' = issued
  PROVE  IInv'
<1>1. turn' = [turn EXCEPT ![t] = n] /\ turn \in [Turns -> TurnRecord]
  BY DEF IInv, Types, Moves
<1>2. \A u \in Turns : /\ turn'[u].id = turn[u].id
                       /\ turn[u].id \in ProviderIds => turn'[u].conv = turn[u].conv
  BY <1>1, Constants
<1>3. Ids'
  BY <1>2 DEF IInv, Ids
<1>4. issued' \in [ProviderIds -> Conversations \cup {None}]
  BY DEF IInv, Types, TypeOK
<1> QED BY <1>3, <1>4, TurnMoves

-----------------------------------------------------------------------------
(* Records of turns.                                                       *)

LEMMA NullGateRecord == NullGate \in GateRecord /\ NullGate.completedId = None
                          /\ NullGate.state = "open"
BY DEF NullGate, GateRecord

LEMMA IdleRecord ==
  /\ Idle \in TurnRecord /\ Refused \in TurnRecord
  /\ Idle.pc = "idle" /\ Refused.pc = "refused"
  /\ Refused = [Idle EXCEPT !.pc = "refused"]
  /\ \A s \in {Idle, Refused} :
       /\ s.conv = None /\ s.prev = None /\ s.decisions = <<>> /\ s.provider = None
       /\ s.id = None /\ s.gate = NullGate /\ s.outgoing = <<>> /\ s.written = {}
       /\ s.committed = None /\ Emits(s) = {}
<1>1. /\ Idle.pc = "idle" /\ Refused.pc = "refused"
      /\ \A s \in {Idle, Refused} :
           /\ s.conv = None /\ s.prev = None /\ s.decisions = <<>> /\ s.provider = None
           /\ s.id = None /\ s.gate = NullGate /\ s.outgoing = <<>> /\ s.written = {}
           /\ s.committed = None
  BY DEF Idle, Refused
<1>2. \A s \in {Idle, Refused} : Emits(s) = {}
  BY <1>1 DEF Emits
<1>3. <<>> \in Seq(KindNames) /\ <<>> \in DecisionSets \cup {<<>>}
  OBVIOUS
<1>4. ASSUME NEW pc \in Pcs
      PROVE  [pc |-> pc, conv |-> None, prev |-> None, demo |-> FALSE,
              decisions |-> <<>>, provider |-> None, id |-> None, gate |-> NullGate,
              frames |-> 0, outgoing |-> <<>>, written |-> {}, committed |-> None]
                \in TurnRecord
  <2>1. 0 \in 0..MaxFrames /\ NullGate \in GateRecord
    BY NullGateRecord, Constants
  <2> QED BY <1>3, <2>1, Zenon DEF TurnRecord
<1>5. Idle \in TurnRecord
  BY <1>4 DEF Idle, Pcs
<1>6. Refused \in TurnRecord
  <2>1. "refused" \in Pcs
    BY DEF Pcs
  <2>2. \A s \in TurnRecord, pc \in Pcs : [s EXCEPT !.pc = pc] \in TurnRecord
    BY DEF TurnRecord
  <2> QED BY <1>5, <2>1, <2>2 DEF Refused
<1> QED BY <1>1, <1>2, <1>5, <1>6 DEF Refused

LEMMA RefusedFits == PhaseOf(Refused) /\ GateOf(Refused) /\ SpeechOf(Refused)
BY IdleRecord DEF PhaseOf, GateOf, SpeechOf, Ended

\* What a turn that has not reached the provider's stream holds
LEMMA FreshTurn ==
  ASSUME IInv, NEW t \in Turns, turn[t].pc \in {"idle", "fetching"}
  PROVE  /\ turn[t].id = None /\ turn[t].committed = None /\ turn[t].decisions = <<>>
         /\ Emits(turn[t]) = {}
<1>1. PhaseOf(turn[t])
  BY DEF IInv, Local
<1>2. CASE turn[t].pc = "idle"
  <2>1. turn[t] = [Idle EXCEPT !.pc = "idle"] /\ [Idle EXCEPT !.pc = "idle"] = Idle
    BY <1>1, <1>2 DEF PhaseOf, Idle
  <2> QED BY <2>1, IdleRecord
<1>3. CASE turn[t].pc = "fetching"
  BY <1>1, <1>3 DEF PhaseOf, Emits
<1> QED BY <1>2, <1>3

\* A request that is refused, and a fetch that fails, leave no trace.
LEMMA RefusalPreserves ==
  ASSUME IInv, StoreKeeps, NEW t \in Turns, turn[t].pc \in {"idle", "fetching"},
         Moves(t, Refused), issued' = issued
  PROVE  IInv'
<1>1. QuietTurn(turn[t], Refused)
  BY IdleRecord, FreshTurn DEF QuietTurn
<1>2. /\ Refused \in TurnRecord /\ Refused.id = turn[t].id /\ turn[t].id = None
  BY IdleRecord, FreshTurn
<1> QED BY <1>1, <1>2, RefusedFits, QuietMove

-----------------------------------------------------------------------------
(* The requests that commit nothing.                                       *)

LEMMA RefuseDecisionPreserves ==
  ASSUME IInv, NEW t \in Turns, NEW c \in Conversations, NEW r \in ResponseIds,
         NEW decisions \in DecisionSets, RefuseDecision(t, c, r, decisions)
  PROVE  IInv'
<1>1. UNCHANGED storeVars /\ Moves(t, Refused) /\ issued' = issued /\ turn[t].pc = "idle"
  BY DEF RefuseDecision, Accepts, storeVars
<1> QED BY <1>1, UnchangedKeeps, RefusalPreserves DEF IInv

LEMMA RefuseTurnPreserves ==
  ASSUME IInv, NEW t \in Turns, NEW c \in Conversations, NEW r \in ResponseIds,
         RefuseTurn(t, c, r)
  PROVE  IInv'
<1>1. StoreKeeps
  BY UnchangedKeeps, ResolveKeeps DEF RefuseTurn, IInv
<1>2. Moves(t, Refused) /\ issued' = issued /\ turn[t].pc = "idle"
  BY DEF RefuseTurn, Accepts
<1> QED BY <1>1, <1>2, RefusalPreserves

LEMMA FetchFailsPreserves ==
  ASSUME IInv, NEW t \in Turns, FetchFails(t)
  PROVE  IInv'
<1>1. UNCHANGED storeVars /\ Moves(t, Refused) /\ issued' = issued /\ turn[t].pc = "fetching"
  BY DEF FetchFails, storeVars
<1> QED BY <1>1, UnchangedKeeps, RefusalPreserves DEF IInv

\* The turn of a request that goes to the provider
FetchingTurn(n, c, r, p) ==
  /\ n \in TurnRecord
  /\ n.pc = "fetching" /\ n.conv = c /\ n.prev = r /\ n.provider = p
  /\ n.id = None /\ n.committed = None /\ n.decisions = <<>>
  /\ n.outgoing = <<>> /\ n.written = {} /\ n.gate = NullGate

LEMMA FetchingFits ==
  ASSUME NEW n, NEW c \in Conversations, NEW r, NEW p, FetchingTurn(n, c, r, p),
         r # None => p # None
  PROVE  PhaseOf(n) /\ GateOf(n) /\ SpeechOf(n) /\ Emits(n) = {}
<1>1. Emits(n) = {}
  BY DEF FetchingTurn, Emits
<1> QED BY <1>1 DEF FetchingTurn, PhaseOf, GateOf, SpeechOf, Ended

LEMMA IdleWithDemo ==
  ASSUME NEW demo \in BOOLEAN
  PROVE  LET i == [Idle EXCEPT !.demo = demo]
         IN  /\ i \in TurnRecord
             /\ i.prev = None /\ i.provider = None
             /\ i.id = None /\ i.committed = None /\ i.decisions = <<>>
             /\ i.outgoing = <<>> /\ i.written = {} /\ i.gate = NullGate
<1>1. \A s \in TurnRecord : [s EXCEPT !.demo = demo] \in TurnRecord
  BY Zenon DEF TurnRecord
<1> QED BY <1>1, IdleRecord DEF Idle

LEMMA StartPreserves ==
  ASSUME IInv, NEW t \in Turns, NEW c \in Conversations, NEW demo \in BOOLEAN,
         Start(t, c, demo)
  PROVE  IInv'
<1> DEFINE i == [Idle EXCEPT !.demo = demo]
           n == [i EXCEPT !.pc = "fetching", !.conv = c]
<1>1. n = [Idle EXCEPT !.pc = "fetching", !.conv = c, !.demo = demo]
  BY DEF Idle
<1> HIDE DEF i
<1>2. FetchingTurn(n, c, None, None)
  <2>1. n \in TurnRecord
    BY IdleWithDemo DEF i, TurnRecord, Pcs
  <2>2. /\ n.pc = "fetching" /\ n.conv = c /\ n.prev = None /\ n.provider = None
        /\ n.id = None /\ n.committed = None /\ n.decisions = <<>>
        /\ n.outgoing = <<>> /\ n.written = {} /\ n.gate = NullGate
    BY IdleWithDemo DEF i, TurnRecord
  <2> QED BY <2>1, <2>2 DEF FetchingTurn
<1> HIDE DEF n
<1>3. StoreKeeps /\ Moves(t, n) /\ issued' = issued /\ turn[t].pc = "idle"
  BY <1>1, UnchangedKeeps DEF Start, Accepts, storeVars, IInv
<1>4. n \in TurnRecord /\ PhaseOf(n) /\ GateOf(n) /\ SpeechOf(n)
  BY <1>2, FetchingFits DEF FetchingTurn
<1>5. QuietTurn(turn[t], n) /\ n.id = turn[t].id /\ turn[t].id = None
  BY <1>2, <1>3, FreshTurn, FetchingFits DEF FetchingTurn, QuietTurn
<1> QED BY <1>3, <1>4, <1>5, QuietMove

LEMMA ContinuePreserves ==
  ASSUME IInv, NEW t \in Turns, NEW c \in Conversations, NEW r \in ResponseIds,
         NEW demo \in BOOLEAN, Continue(t, c, r, demo)
  PROVE  IInv'
<1> DEFINE p == Store!Resolved(c, r)
           i == [Idle EXCEPT !.demo = demo]
           n == [i EXCEPT !.pc = "fetching", !.conv = c, !.prev = r, !.provider = p]
<1>1. n = [Idle EXCEPT !.pc = "fetching", !.conv = c, !.prev = r,
                       !.demo = demo, !.provider = p]
  BY DEF Idle
<1>2. /\ ~ Store!hasPending(c, r) /\ p # None /\ Store!Resolve(c, r)
      /\ Moves(t, n) /\ issued' = issued /\ turn[t].pc = "idle"
  BY <1>1 DEF Continue, Accepts
<1>3. heads[<<c, r>>].until > now /\ p = heads[<<c, r>>].provider
  BY <1>2 DEF Store!Resolved, Store!Live
<1>4. heads[<<c, r>>] # Store!NoHead /\ p \in ProviderIds
  BY <1>3, StoreTypes DEF Store!Keys, IInv
<1>5. StoreKeeps
  BY <1>2, ResolveKeeps DEF IInv
<1> HIDE DEF p, i
<1>6. FetchingTurn(n, c, r, p)
  <2>1. n \in TurnRecord
    BY <1>4, IdleWithDemo DEF i, TurnRecord, Pcs
  <2>2. /\ n.pc = "fetching" /\ n.conv = c /\ n.prev = r /\ n.provider = p
        /\ n.id = None /\ n.committed = None /\ n.decisions = <<>>
        /\ n.outgoing = <<>> /\ n.written = {} /\ n.gate = NullGate
    BY IdleWithDemo DEF i, TurnRecord
  <2> QED BY <2>1, <2>2 DEF FetchingTurn
<1> HIDE DEF n
<1>7. n \in TurnRecord /\ PhaseOf(n) /\ GateOf(n) /\ SpeechOf(n) /\ Emits(n) = {}
  BY <1>2, <1>6, FetchingFits DEF FetchingTurn
<1>8. GoesOn(n)
  BY <1>2, <1>3, <1>4, <1>6 DEF GoesOn, FetchingTurn
<1>9. QuietTurn(turn[t], n) /\ n.id = turn[t].id /\ turn[t].id = None
  BY <1>2, <1>6, <1>7, <1>8, FreshTurn DEF QuietTurn, FetchingTurn
<1> QED BY <1>2, <1>5, <1>7, <1>9, QuietMove

-----------------------------------------------------------------------------
(* The handler after an await.                                             *)

LEMMA TurnFacts ==
  ASSUME IInv, NEW t \in Turns
  PROVE  turn[t] \in TurnRecord /\ PhaseOf(turn[t]) /\ GateOf(turn[t]) /\ SpeechOf(turn[t])
BY DEF IInv, Types, Local

\* The provider has not given the id out before, so no other turn has it.
LEMMA FetchAnswersPreserves ==
  ASSUME IInv, NEW t \in Turns, NEW id \in ProviderIds, FetchAnswers(t, id)
  PROVE  IInv'
<1> DEFINE s == turn[t]
           n == [s EXCEPT !.pc = "streaming", !.id = id]
<1>1. /\ s.pc = "fetching" /\ issued[id] = None
      /\ issued' = [issued EXCEPT ![id] = s.conv]
      /\ Moves(t, n) /\ UNCHANGED storeVars
  BY DEF FetchAnswers
<1>2. s \in TurnRecord /\ PhaseOf(s) /\ SpeechOf(s)
  BY TurnFacts
<1>3. /\ s.conv \in Conversations /\ s.id = None /\ s.committed = None
      /\ s.decisions = <<>> /\ s.gate = NullGate /\ s.written = {} /\ s.outgoing = <<>>
      /\ s.prev # None => s.provider # None
      /\ Emits(s) = {}
  BY <1>1, <1>2, FreshTurn DEF PhaseOf
<1>4. n \in TurnRecord
  BY <1>2, Constants DEF TurnRecord, Pcs
<1>5. /\ n.pc = "streaming" /\ n.id = id /\ n.conv = s.conv /\ n.prev = s.prev
      /\ n.provider = s.provider /\ n.committed = None /\ n.decisions = <<>>
      /\ n.gate = NullGate /\ n.written = {} /\ n.outgoing = <<>>
  BY <1>2, <1>3 DEF TurnRecord
<1> HIDE DEF n
<1>6. Emits(n) = {}
  BY <1>5 DEF Emits
<1>7. PhaseOf(n) /\ GateOf(n) /\ SpeechOf(n)
  BY <1>3, <1>5, <1>6, NullGateRecord DEF PhaseOf, GateOf, SpeechOf, Ended
<1>8. QuietTurn(s, n)
  BY <1>3, <1>5, <1>6 DEF QuietTurn
<1>9. issued \in [ProviderIds -> Conversations \cup {None}]
  BY DEF IInv, Types, TypeOK
<1>10. Ids'
  <2>1. turn' = [turn EXCEPT ![t] = n] /\ turn \in [Turns -> TurnRecord]
    BY <1>1 DEF IInv, Types, Moves
  <2>2. turn'[t] = n /\ \A u \in Turns : u # t => turn'[u] = turn[u]
    BY <2>1
  <2>3. ASSUME NEW u \in Turns, turn[u].id \in ProviderIds
        PROVE  turn[u].id # id /\ u # t
    <3>1. issued[turn[u].id] = turn[u].conv /\ turn[u].conv \in Conversations
      BY <2>3, TurnFacts, Constants DEF IInv, Ids, PhaseOf
    <3> QED BY <1>1, <1>3, <2>3, <3>1, Constants
  <2>4. ASSUME NEW u \in Turns, turn'[u].id \in ProviderIds
        PROVE  issued'[turn'[u].id] = turn'[u].conv
    BY <1>1, <1>5, <1>9, <2>2, <2>3, <2>4 DEF IInv, Ids
  <2>5. ASSUME NEW u \in Turns, NEW v \in Turns,
               turn'[u].id = turn'[v].id, turn'[u].id \in ProviderIds
        PROVE  u = v
    BY <1>5, <2>2, <2>3, <2>5 DEF IInv, Ids
  <2> QED BY <2>4, <2>5 DEF Ids
<1> QED BY <1>1, <1>3, <1>4, <1>7, <1>8, <1>9, <1>10, UnchangedKeeps, TurnMoves DEF IInv

\* A turn that is over
LEMMA OverFacts ==
  ASSUME NEW s \in TurnRecord, PhaseOf(s), SpeechOf(s), NEW pc \in {"answered", "broken"}
  PROVE  LET n == Over(s, pc)
         IN  /\ n \in TurnRecord /\ PhaseOf(n) /\ GateOf(n) /\ SpeechOf(n)
             /\ QuietTurn(s, n) /\ n.id = s.id /\ n.conv = s.conv
<1> DEFINE i == [s EXCEPT !.demo = FALSE]
           n == [i EXCEPT !.pc = pc, !.gate = NullGate, !.frames = 0,
                          !.outgoing = <<>>, !.provider = None]
<1>1. Over(s, pc) = n
  BY DEF Over
<1>2. i \in TurnRecord
  BY Zenon DEF TurnRecord
<1>3. /\ i.conv = s.conv /\ i.prev = s.prev /\ i.decisions = s.decisions /\ i.id = s.id
      /\ i.written = s.written /\ i.committed = s.committed
  BY DEF TurnRecord
<1> HIDE DEF i
<1>4. n \in TurnRecord
  <2>1. /\ pc \in Pcs /\ NullGate \in GateRecord /\ 0 \in 0..MaxFrames
        /\ <<>> \in Seq(KindNames)
    BY NullGateRecord, Constants DEF Pcs
  <2> QED BY <1>2, <2>1 DEF TurnRecord
<1>5. /\ n.pc = pc /\ n.provider = None /\ n.outgoing = <<>>
      /\ n.conv = s.conv /\ n.prev = s.prev /\ n.decisions = s.decisions /\ n.id = s.id
      /\ n.written = s.written /\ n.committed = s.committed
  BY <1>2, <1>3 DEF TurnRecord
<1> HIDE DEF n
<1>6. Emits(n) \subseteq Emits(s)
  BY <1>5 DEF Emits
<1>7. PhaseOf(n) /\ GateOf(n)
  BY <1>5 DEF PhaseOf, GateOf, Ended
<1>8. SpeechOf(n)
  BY <1>5, <1>6 DEF SpeechOf
<1>9. QuietTurn(s, n)
  BY <1>5, <1>6 DEF QuietTurn
<1> QED BY <1>1, <1>4, <1>5, <1>7, <1>8, <1>9

LEMMA AnswerPreserves ==
  ASSUME IInv, NEW t \in Turns, Answer(t)
  PROVE  IInv'
<1>1. UNCHANGED storeVars /\ Moves(t, Over(turn[t], "answered")) /\ issued' = issued
  BY DEF Answer, storeVars
<1> QED BY <1>1, TurnFacts, OverFacts, UnchangedKeeps, QuietMove DEF IInv

LEMMA BreakPreserves ==
  ASSUME IInv, NEW t \in Turns, Break(t)
  PROVE  IInv'
<1>1. Moves(t, Over(turn[t], "broken")) /\ issued' = issued
  BY DEF Break
<1>2. StoreKeeps
  BY UnchangedKeeps, SweepHeadsKeeps DEF Break, IInv
<1> QED BY <1>1, <1>2, TurnFacts, OverFacts, QuietMove

LEMMA EndIncompletePreserves ==
  ASSUME IInv, NEW t \in Turns, EndIncomplete(t)
  PROVE  IInv'
<1> DEFINE s == turn[t]
           n == [s EXCEPT !.pc = "releasing"]
<1>1. UNCHANGED storeVars /\ Moves(t, n) /\ issued' = issued /\ s.pc = "streaming"
  BY DEF EndIncomplete, storeVars, StreamEnded
<1>2. s \in TurnRecord /\ PhaseOf(s) /\ SpeechOf(s)
  BY TurnFacts
<1>3. n \in TurnRecord
  BY <1>2 DEF TurnRecord, Pcs
<1>4. /\ n.pc = "releasing" /\ n.provider = s.provider /\ n.outgoing = s.outgoing
      /\ n.conv = s.conv /\ n.prev = s.prev /\ n.decisions = s.decisions /\ n.id = s.id
      /\ n.written = s.written /\ n.committed = s.committed
  BY <1>2 DEF TurnRecord
<1> HIDE DEF n
<1>5. Emits(n) = Emits(s)
  BY <1>4 DEF Emits
<1>6. PhaseOf(n) /\ GateOf(n) /\ SpeechOf(n)
  BY <1>1, <1>2, <1>4, <1>5 DEF PhaseOf, GateOf, SpeechOf, Ended
<1>7. QuietTurn(s, n)
  BY <1>4, <1>5 DEF QuietTurn
<1> QED BY <1>1, <1>3, <1>4, <1>6, <1>7, UnchangedKeeps, QuietMove DEF IInv

\* Writing a frame adds nothing to what the turn writes.
LEMMA HeadAndTail ==
  ASSUME NEW S, NEW q \in Seq(S), q # <<>>
  PROVE  /\ Head(q) \in S /\ Tail(q) \in Seq(S)
         /\ Head(q) \in {q[i] : i \in DOMAIN q}
         /\ {Tail(q)[i] : i \in DOMAIN Tail(q)} \subseteq {q[i] : i \in DOMAIN q}
<1>1. /\ Len(q) \in Nat \ {0} /\ DOMAIN q = 1..Len(q) /\ Head(q) = q[1]
      /\ Tail(q) \in Seq(S) /\ Len(Tail(q)) = Len(q) - 1
      /\ \A i \in 1..Len(Tail(q)) : Tail(q)[i] = q[i + 1]
  OBVIOUS
<1>2. DOMAIN Tail(q) = 1..(Len(q) - 1) /\ q[1] \in S
  BY <1>1
<1>3. ASSUME NEW i \in DOMAIN Tail(q)
      PROVE  Tail(q)[i] \in {q[j] : j \in DOMAIN q}
  <2>1. i + 1 \in DOMAIN q /\ Tail(q)[i] = q[i + 1]
    BY <1>1, <1>2
  <2> QED BY <2>1
<1> QED BY <1>1, <1>2, <1>3

LEMMA WritePreserves ==
  ASSUME IInv, NEW t \in Turns, Write(t)
  PROVE  IInv'
<1> DEFINE s == turn[t]
           n == [s EXCEPT !.written = @ \cup {Head(s.outgoing)}, !.outgoing = Tail(@)]
<1>1. /\ UNCHANGED storeVars /\ Moves(t, n) /\ issued' = issued
      /\ s.pc \in {"streaming", "releasing"} /\ s.outgoing # <<>>
  BY DEF Write, storeVars
<1>2. s \in TurnRecord /\ PhaseOf(s) /\ GateOf(s) /\ SpeechOf(s) /\ s.outgoing \in Seq(KindNames)
  BY TurnFacts DEF TurnRecord
<1>3. n \in TurnRecord
  <2>1. Tail(s.outgoing) \in Seq(KindNames) /\ Head(s.outgoing) \in KindNames
    BY <1>1, <1>2, HeadAndTail
  <2>2. s.written \cup {Head(s.outgoing)} \in SUBSET KindNames
    BY <1>2, <2>1 DEF TurnRecord
  <2> QED BY <1>2, <2>1, <2>2 DEF TurnRecord
<1>4. /\ n.pc = s.pc /\ n.provider = s.provider /\ n.outgoing = Tail(s.outgoing)
      /\ n.conv = s.conv /\ n.prev = s.prev /\ n.decisions = s.decisions /\ n.id = s.id
      /\ n.written = s.written \cup {Head(s.outgoing)} /\ n.committed = s.committed
      /\ n.gate = s.gate
  BY <1>2 DEF TurnRecord
<1> HIDE DEF n
<1>5. Emits(n) \subseteq Emits(s)
  BY <1>1, <1>2, <1>4, HeadAndTail DEF Emits
<1>6. PhaseOf(n)
  BY <1>1, <1>2, <1>4 DEF PhaseOf, Ended
<1>7. GateOf(n) /\ SpeechOf(n)
  BY <1>2, <1>4, <1>5 DEF GateOf, SpeechOf
<1>8. QuietTurn(s, n)
  BY <1>4, <1>5 DEF QuietTurn
<1> QED BY <1>1, <1>3, <1>4, <1>6, <1>7, <1>8, UnchangedKeeps, QuietMove DEF IInv

\* What the gate does with a frame of the stream: it completes the response of
\* the stream once and last, and a failure it lets through fails it.
LEMMA StreamFrameFacts ==
  ASSUME NEW id \in ResponseIds, NEW f \in StreamFrames(id)
  PROVE  /\ f \in Gate!Frames /\ f.event = "none"
         /\ f.data \in {"other", "done", "failure", "completed"}
         /\ f.data = "completed" => f.id = id
BY DEF StreamFrames, Gate!Frames, Gate!EventNames, Gate!DataKinds

LEMMA GateTakes ==
  ASSUME NEW g \in GateRecord, NEW id \in ResponseIds, NEW f \in StreamFrames(id),
         g.completedId \in {None, id}, (g.completedId # None) <=> (g.state = "completed"),
         ~ Gate!Raises(g, f)
  PROVE  LET a == Gate!Accepted(g, f)
             kinds == Kinds(Gate!Relays(g, f))
         IN  /\ a \in GateRecord
             /\ a.completedId \in {None, id}
             /\ (a.completedId # None) <=> (a.state = "completed")
             /\ a.state # "failed" => g.state # "failed"
             /\ kinds \in Seq(KindNames)
             /\ \A i \in DOMAIN kinds : kinds[i] \in {"relayed", "failure"}
             /\ a.state # "failed" => \A i \in DOMAIN kinds : kinds[i] = "relayed"
<1> DEFINE a == Gate!Accepted(g, f)
           relays == Gate!Relays(g, f)
<1>1. /\ f \in Gate!Frames /\ f.event = "none"
      /\ f.data \in {"other", "done", "failure", "completed"}
      /\ f.data = "completed" => f.id = id
  BY StreamFrameFacts
<1>2. /\ g.state \in {"open", "failed", "completed"} /\ g.withheld \in Seq(Withheld)
      /\ g.createdId \in ResponseIds \cup {None} /\ g.completedId \in ResponseIds \cup {None}
  BY DEF GateRecord
<1>3. g.state # "open" => f.data = "done"
  BY <1>1 DEF Gate!Raises, Gate!AfterEnd, Gate!Substantive
<1>4. Gate!Fails(f) <=> f.data = "failure"
  BY <1>1 DEF Gate!Fails
<1>5. Gate!Completes(g, f) <=> f.data = "completed"
  BY <1>4 DEF Gate!Completes
<1>6. Gate!EndsEarly(g, f) <=> f.data = "failure" \/ (f.data = "done" /\ g.state = "open")
  BY <1>4 DEF Gate!EndsEarly
<1>7. Gate!Follows(g, f) <=> g.state = "completed"
  BY DEF Gate!Follows
<1> DEFINE state == CASE Gate!Completes(g, f) -> "completed"
                      [] Gate!EndsEarly(g, f) -> "failed"
                      [] OTHER -> g.state
           created == IF f.data = "created" /\ ~ Gate!Fails(f) THEN f.id ELSE g.createdId
           completed == IF Gate!Completes(g, f) THEN f.id ELSE g.completedId
           withheld == IF Gate!Completes(g, f) \/ Gate!Follows(g, f)
                         THEN Append(g.withheld, f) ELSE g.withheld
<1>8. /\ a = [state |-> state, createdId |-> created, completedId |-> completed,
               withheld |-> withheld]
      /\ f.data = "completed" => state = "completed" /\ completed = id
      /\ f.data # "completed" => completed = g.completedId
      /\ f.data = "failure" => state = "failed"
      /\ f.data = "done" => state = IF g.state = "open" THEN "failed" ELSE g.state
      /\ f.data = "other" => state = g.state
      /\ created = g.createdId
      /\ withheld = IF f.data = "completed" \/ g.state = "completed"
                      THEN Append(g.withheld, f) ELSE g.withheld
  <2>1. a = [state |-> state, createdId |-> created, completedId |-> completed,
             withheld |-> withheld]
    BY DEF Gate!Accepted
  <2>2. /\ f.data = "completed" => state = "completed"
        /\ f.data = "failure" => state = "failed"
        /\ f.data = "done" => state = IF g.state = "open" THEN "failed" ELSE g.state
        /\ f.data = "other" => state = g.state
    BY <1>5, <1>6
  <2>3. /\ f.data = "completed" => completed = id
        /\ f.data # "completed" => completed = g.completedId
        /\ created = g.createdId
    BY <1>1, <1>5
  <2>4. withheld = IF f.data = "completed" \/ g.state = "completed"
                     THEN Append(g.withheld, f) ELSE g.withheld
    BY <1>5, <1>7
  <2> QED BY <2>1, <2>2, <2>3, <2>4
<1> HIDE DEF state, created, completed, withheld
<1>9. /\ a.state = state /\ a.createdId = created /\ a.completedId = completed
           /\ a.withheld = withheld
  BY <1>8
<1>10. withheld \in Seq(Withheld)
  <2>1. f.data = "completed" \/ g.state = "completed" => f \in Withheld
    BY <1>1, <1>3 DEF Withheld
  <2> QED BY <1>2, <1>8, <2>1
<1>11. a \in GateRecord
  <2>1. state \in {"open", "failed", "completed"} /\ created \in ResponseIds \cup {None}
           /\ completed \in ResponseIds \cup {None}
    BY <1>1, <1>2, <1>8
  <2> QED BY <1>8, <1>10, <2>1 DEF GateRecord
<1> HIDE DEF a
<1>12. /\ a.completedId \in {None, id}
       /\ (a.completedId # None) <=> (a.state = "completed")
       /\ a.state # "failed" => g.state # "failed"
  <2>1. CASE f.data = "completed"
    BY <1>8, <1>9, <1>3, <2>1, Constants
  <2>2. CASE f.data = "failure"
    BY <1>1, <1>8, <1>9, <1>3, <2>2, Constants
  <2>3. CASE f.data = "done"
    BY <1>1, <1>8, <1>9, <2>3, Constants
  <2>4. CASE f.data = "other"
    BY <1>1, <1>8, <1>9, <2>4, Constants
  <2> QED BY <1>1, <2>1, <2>2, <2>3, <2>4
<1>13. relays \in {<<>>, <<Gate!GenericFailure>>, <<f>>}
  BY DEF Gate!Relays
<1>14. /\ relays # <<>> => f.data # "completed"
       /\ relays # <<>> /\ f.data # "failure" => relays = <<f>>
       /\ f.data = "failure" => a.state = "failed"
  <2>1. ASSUME Gate!Completes(g, f)
        PROVE  relays = <<>>
    <3>1. ~ Gate!Fails(f)
      BY <1>4, <1>5, <2>1
    <3> QED BY <2>1, <3>1 DEF Gate!Relays
  <2>2. ~ Gate!Fails(f) => relays = <<>> \/ relays = <<f>>
    BY DEF Gate!Relays
  <2> QED BY <1>4, <1>5, <1>8, <1>9, <2>1, <2>2
<1> HIDE DEF relays
<1>15. /\ \A i \in DOMAIN Kinds(relays) : Kinds(relays)[i] \in {"relayed", "failure"}
       /\ a.state # "failed" => \A i \in DOMAIN Kinds(relays) : Kinds(relays)[i] = "relayed"
       /\ Kinds(relays) \in Seq(KindNames)
  <2>1. CASE relays = <<>>
    <3>1. Kinds(relays) = <<>>
      BY <2>1 DEF Kinds
    <3> QED BY <3>1
  <2>2. CASE f.data = "failure" /\ relays # <<>>
    <3>1. PICK x : relays = <<x>>
      BY <1>13, <2>2
    <3>2. /\ Kinds(relays) = <<Kind(x)>> /\ x.data = "failure"
      BY <1>13, <2>2, <3>1 DEF Kinds, Gate!GenericFailure
    <3>3. Kinds(relays) = <<"failure">>
      BY <3>2 DEF Kind
    <3> QED BY <1>14, <2>2, <3>3 DEF KindNames
  <2>3. CASE f.data # "failure" /\ relays # <<>>
    <3>1. Kinds(relays) = <<"relayed">>
      BY <1>14, <2>3 DEF Kinds, Kind
    <3> QED BY <3>1 DEF KindNames
  <2> QED BY <2>1, <2>2, <2>3
<1> QED BY <1>11, <1>12, <1>15 DEF a, relays

LEMMA RelayPreserves ==
  ASSUME IInv, NEW t \in Turns, NEW f \in StreamFrames(turn[t].id), Relay(t, f)
  PROVE  IInv'
<1> DEFINE s == turn[t]
           a == Gate!Accepted(s.gate, f)
           kinds == Kinds(Gate!Relays(s.gate, f))
           n == [s EXCEPT !.gate = a, !.frames = @ + 1, !.outgoing = kinds]
<1>1. /\ UNCHANGED storeVars /\ Moves(t, n) /\ issued' = issued
      /\ s.pc = "streaming" /\ s.outgoing = <<>> /\ s.frames < MaxFrames
      /\ ~ Gate!Raises(s.gate, f)
  BY DEF Relay, storeVars
<1>2. s \in TurnRecord /\ PhaseOf(s) /\ GateOf(s) /\ SpeechOf(s)
  BY TurnFacts
<1>3. /\ s.gate \in GateRecord /\ s.id \in ResponseIds
      /\ s.gate.completedId \in {None, s.id}
      /\ s.gate.completedId # None <=> s.gate.state = "completed"
      /\ s.gate.state # "failed" => "failure" \notin Emits(s)
  BY <1>1, <1>2, Constants DEF TurnRecord, PhaseOf, GateOf
<1>4. /\ a \in GateRecord
      /\ a.completedId \in {None, s.id}
      /\ a.completedId # None <=> a.state = "completed"
      /\ a.state # "failed" => s.gate.state # "failed"
      /\ kinds \in Seq(KindNames)
      /\ \A i \in DOMAIN kinds : kinds[i] \in {"relayed", "failure"}
      /\ a.state # "failed" => \A i \in DOMAIN kinds : kinds[i] = "relayed"
  BY <1>1, <1>3, GateTakes
<1> HIDE DEF a, kinds
<1>5. s.frames + 1 \in 0..MaxFrames
  BY <1>1, <1>2, Constants DEF TurnRecord
<1>6. n \in TurnRecord
  BY <1>2, <1>4, <1>5 DEF TurnRecord
<1>7. /\ n.pc = s.pc /\ n.provider = s.provider /\ n.outgoing = kinds
      /\ n.conv = s.conv /\ n.prev = s.prev /\ n.decisions = s.decisions /\ n.id = s.id
      /\ n.written = s.written /\ n.committed = s.committed
      /\ n.gate = a
  BY <1>2 DEF TurnRecord
<1> HIDE DEF n
<1>8. /\ Emits(n) \subseteq Emits(s) \cup {"relayed", "failure"}
      /\ a.state # "failed" => "failure" \notin Emits(n)
  BY <1>3, <1>4, <1>7 DEF Emits
<1>9. PhaseOf(n)
  BY <1>1, <1>2, <1>7 DEF PhaseOf, Ended
<1>10. GateOf(n)
  BY <1>4, <1>7, <1>8 DEF GateOf
<1>11. SpeechOf(n)
  <2>1. s.committed = None
    BY <1>1, <1>2 DEF PhaseOf
  <2> QED BY <1>2, <1>7, <1>8, <2>1 DEF SpeechOf
<1>12. QuietTurn(s, n)
  BY <1>7, <1>8 DEF QuietTurn
<1> QED BY <1>1, <1>6, <1>7, <1>9, <1>10, <1>11, <1>12, UnchangedKeeps, QuietMove DEF IInv

-----------------------------------------------------------------------------
(* The process.                                                            *)

\* A step of the process leaves the turns alone, or cuts them.
LEMMA ProcessStep ==
  ASSUME IInv, StoreKeeps, issued' = issued,
         process' \in {"up", "draining", "down"}, starts' \in 0..MaxStarts,
         turn' \in [Turns -> TurnRecord],
         \A t \in Turns : \/ turn'[t] = turn[t]
                          \/ turn'[t] = Over(turn[t], "broken")
  PROVE  IInv'
<1>1. ASSUME NEW t \in Turns
      PROVE  /\ PhaseOf(turn'[t]) /\ GateOf(turn'[t]) /\ SpeechOf(turn'[t])
             /\ QuietTurn(turn[t], turn'[t])
             /\ turn'[t].id = turn[t].id /\ turn'[t].conv = turn[t].conv
  BY TurnFacts, OverFacts, QuietItself
<1>2. TurnsKeep
  BY <1>1 DEF TurnsKeep
<1>3. Types'
  BY <1>2, QuietTypes DEF IInv, Types, TypeOK
<1>4. Local' /\ Ids'
  BY <1>1 DEF IInv, Local, Ids
<1> QED BY <1>2, <1>3, <1>4, QuietStep DEF IInv

LEMMA CutPreserves ==
  ASSUME IInv, Cut
  PROVE  IInv'
<1>1. /\ turn' = [t \in Turns |-> IF t \in Started THEN Over(turn[t], "broken")
                                                   ELSE turn[t]]
      /\ process' = "down" /\ starts' = starts /\ issued' = issued
  BY DEF Cut
<1>2. ASSUME NEW t \in Turns
      PROVE  /\ turn'[t] \in TurnRecord
             /\ turn'[t] = turn[t] \/ turn'[t] = Over(turn[t], "broken")
  BY <1>1, TurnFacts, OverFacts
<1>3. turn' \in [Turns -> TurnRecord]
  BY <1>1, <1>2
<1>4. StoreKeeps
  BY UnchangedKeeps, SweepHeadsKeeps DEF Cut, IInv
<1>5. starts \in 0..MaxStarts
  BY DEF IInv, Types, TypeOK
<1> QED BY <1>1, <1>2, <1>3, <1>4, <1>5, ProcessStep

LEMMA ProcessPreserves ==
  ASSUME IInv, Shutdown \/ Exit \/ Restart \/ Tick
  PROVE  IInv'
<1>1. /\ turn' = turn /\ issued' = issued
      /\ turn' \in [Turns -> TurnRecord]
  BY DEF Shutdown, Exit, Restart, Tick, IInv, Types
<1>2. StoreKeeps
  BY UnchangedKeeps, PruneKeeps, TickKeeps
     DEF Shutdown, Exit, Restart, Tick, storeVars, IInv
<1>3. process' \in {"up", "draining", "down"} /\ starts' \in 0..MaxStarts
  BY BoundAssumption DEF Shutdown, Exit, Restart, Tick, IInv, Types, TypeOK
<1> QED BY <1>1, <1>2, <1>3, ProcessStep
-----------------------------------------------------------------------------
(* The two steps that commit.                                              *)

\* The turn t commits, as n: its mapping, to the provider response p, is on
\* file for the retention, and no other is lost.
Commits(t, n, p) ==
  /\ Moves(t, n) /\ issued' = issued /\ now' = now
  /\ turn[t].committed = None
  /\ n \in TurnRecord /\ PhaseOf(n) /\ GateOf(n) /\ SpeechOf(n)
  /\ n.committed = now /\ n.conv \in Conversations /\ n.id \in ResponseIds
  /\ p \in ProviderIds
  /\ heads' \in [Store!Keys -> Store!HeadRow]
  /\ \A k \in Store!Keys : k # <<n.conv, n.id>> =>
       /\ heads'[k] \in {heads[k], Store!NoHead}
       /\ heads[k].until > now => heads'[k] = heads[k]
  /\ heads'[<<n.conv, n.id>>].provider = p
  /\ heads'[<<n.conv, n.id>>].until >= now + OrdinaryRetention
  /\ heads[<<n.conv, n.id>>].until > now =>
       heads'[<<n.conv, n.id>>].until >= heads[<<n.conv, n.id>>].until

LEMMA CommitFacts ==
  ASSUME IInv, NEW t \in Turns, NEW n, NEW p, Commits(t, n, p)
  PROVE  /\ turn' \in [Turns -> TurnRecord] /\ turn'[t] = n
         /\ \A u \in Turns : u # t => turn'[u] = turn[u]
         /\ process' = process /\ starts' = starts /\ issued' = issued /\ now' = now
BY DEF IInv, Types, Commits, Moves

LEMMA CommitLasts ==
  ASSUME IInv, NEW t \in Turns, NEW n, NEW p, Commits(t, n, p)
  PROVE  /\ Completed(n.conv, n.id)'
         /\ \A c, r : Completed(c, r) =>
              \E u \in Turns : /\ turn'[u].id = r /\ turn'[u].conv = c
                               /\ turn'[u].committed # None
<1>1. n.committed # None /\ turn[t].committed = None
  BY StoreTypes, Constants DEF Commits, IInv
<1>2. Completed(n.conv, n.id)'
  BY <1>1, CommitFacts DEF Completed
<1>3. ASSUME NEW c, NEW r, Completed(c, r)
      PROVE  \E u \in Turns : /\ turn'[u].id = r /\ turn'[u].conv = c
                              /\ turn'[u].committed # None
  <2>1. PICK u \in Turns : turn[u].id = r /\ turn[u].conv = c /\ turn[u].committed # None
    BY <1>3 DEF Completed
  <2>2. turn'[u] = turn[u]
    BY <1>1, <2>1, CommitFacts
  <2> QED BY <2>1, <2>2
<1> QED BY <1>2, <1>3

LEMMA CommitTypes ==
  ASSUME IInv, NEW t \in Turns, NEW n, NEW p, Commits(t, n, p),
         pending' \subseteq Store!PendingRow
  PROVE  Types'
<1>1. Store!TypeOK'
  BY StoreTypes, Constants DEF Commits, Store!TypeOK, IInv
<1>2. \A k \in Store!Keys : heads'[k].provider \in ProviderIds \cup {None}
  BY StoreTypes DEF Commits, IInv
<1>3. ASSUME NEW u \in Turns
      PROVE  turn'[u].committed \in 0..now' \cup {None}
  <2>1. turn[u].committed \in 0..now \cup {None}
    BY DEF IInv, Types, TypeOK
  <2>2. now \in 0..now /\ now' = now
    BY StoreTypes DEF IInv, Commits
  <2> QED BY <2>1, <2>2, CommitFacts DEF Commits
<1>4. ASSUME NEW u \in Turns
      PROVE  /\ turn'[u].pc \in Pcs
             /\ turn'[u].conv \in Conversations \cup {None}
             /\ turn'[u].prev \in ResponseIds \cup {None}
             /\ turn'[u].id \in ResponseIds \cup {None}
             /\ turn'[u].provider \in ProviderIds \cup {None}
             /\ turn'[u].frames \in 0..MaxFrames
  BY CommitFacts DEF TurnRecord
<1>5. /\ process' \in {"up", "draining", "down"} /\ starts' \in 0..MaxStarts
      /\ issued' \in [ProviderIds -> Conversations \cup {None}]
  BY CommitFacts DEF IInv, Types, TypeOK
<1>6. TypeOK'
  BY <1>1, <1>2, <1>3, <1>4, <1>5 DEF TypeOK, Store!Keys
<1> QED BY <1>6, CommitFacts DEF Types

LEMMA CommitLocal ==
  ASSUME IInv, NEW t \in Turns, NEW n, NEW p, Commits(t, n, p),
         n.id \in ProviderIds => n.id = turn[t].id /\ n.conv = turn[t].conv
  PROVE  Local' /\ Ids'
<1>1. Local'
  BY CommitFacts DEF IInv, Local, Commits
<1>2. \A u \in Turns : turn'[u].id \in ProviderIds =>
        turn'[u].id = turn[u].id /\ turn'[u].conv = turn[u].conv
  BY CommitFacts
<1>3. Ids'
  BY <1>2, CommitFacts DEF IInv, Ids
<1> QED BY <1>1, <1>3

LEMMA CommitKept ==
  ASSUME IInv, NEW t \in Turns, NEW n, NEW p, Commits(t, n, p)
  PROVE  Kept'
<1> SUFFICES ASSUME NEW u \in Turns, turn'[u].committed # None,
                    now' < turn'[u].committed + OrdinaryRetention
             PROVE  heads'[<<turn'[u].conv, turn'[u].id>>].until
                      >= turn'[u].committed + OrdinaryRetention
  BY DEF Kept, Since
<1>1. CASE u = t
  BY <1>1, CommitFacts DEF Commits
<1>2. CASE u # t
  <2> DEFINE s == turn[u]
             k == <<s.conv, s.id>>
  <2>1. turn'[u] = s /\ now' = now
    BY <1>2, CommitFacts
  <2>2. s.committed \in Nat /\ s.id \in ResponseIds /\ s.conv \in Conversations
    <3>1. s.committed # None /\ s.id # None /\ s.conv \in Conversations
      BY <2>1, TurnFacts DEF PhaseOf
    <3> QED BY <3>1, TurnFacts DEF TurnRecord
  <2>3. /\ k \in Store!Keys /\ now \in Nat /\ heads[k].until \in Nat
        /\ heads'[k].until \in Nat
    BY <2>2, StoreTypes DEF Store!Keys, IInv, Commits, Store!HeadRow, Store!NoHead
  <2>4. heads[k].until >= s.committed + OrdinaryRetention
    BY <2>1, <2>2 DEF IInv, Kept, Since
  <2>5. heads[k].until > now
    BY <2>1, <2>2, <2>3, <2>4, Constants
  <2>6. heads'[k].until >= heads[k].until
    <3>1. CASE k = <<n.conv, n.id>>
      BY <2>5, <3>1 DEF Commits
    <3>2. CASE k # <<n.conv, n.id>>
      BY <2>3, <2>5, <3>2 DEF Commits
    <3> QED BY <3>1, <3>2
  <2> QED BY <2>1, <2>2, <2>3, <2>4, <2>6, Constants
<1> QED BY <1>1, <1>2

LEMMA CommitHeads ==
  ASSUME IInv, NEW t \in Turns, NEW n, NEW p, Commits(t, n, p),
         Completed(n.conv, p) \/ p = n.id
  PROVE  \A c \in Conversations, r \in ResponseIds :
           heads'[<<c, r>>] # Store!NoHead =>
             /\ \E u \in Turns : /\ turn'[u].id = r /\ turn'[u].conv = c
                                 /\ turn'[u].committed # None
             /\ \E u \in Turns : /\ turn'[u].id = heads'[<<c, r>>].provider
                                 /\ turn'[u].conv = c /\ turn'[u].committed # None
<1> SUFFICES ASSUME NEW c \in Conversations, NEW r \in ResponseIds,
                    heads'[<<c, r>>] # Store!NoHead
             PROVE  /\ \E u \in Turns : /\ turn'[u].id = r /\ turn'[u].conv = c
                                        /\ turn'[u].committed # None
                    /\ \E u \in Turns : /\ turn'[u].id = heads'[<<c, r>>].provider
                                        /\ turn'[u].conv = c /\ turn'[u].committed # None
  OBVIOUS
<1>1. <<c, r>> \in Store!Keys
  BY DEF Store!Keys
<1>2. CASE c = n.conv /\ r = n.id
  <2>1. heads'[<<c, r>>].provider = p
    BY <1>2 DEF Commits
  <2> QED BY <1>2, <2>1, CommitLasts DEF Completed
<1>3. CASE ~ (c = n.conv /\ r = n.id)
  <2>1. heads'[<<c, r>>] = heads[<<c, r>>]
    BY <1>1, <1>3 DEF Commits
  <2>2. Completed(c, r) /\ Completed(c, heads[<<c, r>>].provider)
    BY <2>1 DEF IInv, Origins
  <2> QED BY <2>1, <2>2, CommitLasts
<1> QED BY <1>2, <1>3

\* What a response that nobody has committed yet can have on file
LEMMA UncommittedHasNothing ==
  ASSUME IInv, NEW t \in Turns, turn[t].committed = None, turn[t].id \in ProviderIds
  PROVE  /\ ~ Completed(turn[t].conv, turn[t].id)
         /\ RowsOf(turn[t].conv, turn[t].id) = {}
         /\ \A u \in Turns :
              turn[u].decisions # <<>> \/ turn[u].provider # None =>
                <<turn[u].conv, turn[u].prev>> # <<turn[t].conv, turn[t].id>>
<1>1. ~ Completed(turn[t].conv, turn[t].id)
  BY DEF IInv, Ids, Completed
<1> QED BY <1>1 DEF IInv, Origins, RowsOf

\* A completed stream: its approval request, if any, is new on file.
LEMMA StreamCommits ==
  ASSUME IInv, NEW t \in Turns, NEW n, Commits(t, n, n.id), n.id \in ProviderIds,
         n.id = turn[t].id, n.conv = turn[t].conv, n.prev = turn[t].prev,
         n.provider = turn[t].provider, n.decisions = <<>>,
         NEW rows \in SUBSET Store!PendingRow, pending' = pending \cup rows,
         \A row \in rows :
           /\ row.conv = n.conv /\ row.resp = n.id
           /\ row.approval = ApprovalId(n.conv, n.id)
           /\ row.until = now + PendingRetention,
         \A x, y \in rows : x = y,
         "request" \in Emits(n) => rows # {}
  PROVE  IInv'
<1>1. turn[t].committed = None /\ n.committed = now
  BY DEF Commits
<1>2. /\ RowsOf(n.conv, n.id) = {}
      /\ \A u \in Turns :
           turn[u].decisions # <<>> \/ turn[u].provider # None =>
             <<turn[u].conv, turn[u].prev>> # <<n.conv, n.id>>
  BY <1>1, UncommittedHasNothing
<1>3. \A u \in Turns : /\ turn'[u].decisions # <<>> => turn'[u] = turn[u]
                       /\ turn'[u].provider = turn[u].provider
                       /\ turn'[u].conv = turn[u].conv /\ turn'[u].prev = turn[u].prev
  BY CommitFacts
<1>4. Types'
  <2>1. pending' \subseteq Store!PendingRow
    BY StoreTypes DEF IInv
  <2> QED BY <2>1, CommitTypes
<1>5. Local' /\ Ids' /\ Kept'
  BY CommitLocal, CommitKept
<1>6. Requests'
  <2> SUFFICES ASSUME NEW u \in Turns, "request" \in Emits(turn'[u]),
                      now' < turn'[u].committed + PendingRetention
               PROVE  \E row \in pending' :
                        /\ row.conv = turn'[u].conv /\ row.resp = turn'[u].id
                        /\ row.until >= turn'[u].committed + PendingRetention
    BY DEF Requests, Since, RowsOf, Emits
  <2>1. CASE u = t
    <3>1. turn'[u] = n
      BY <2>1, CommitFacts
    <3>2. PICK row : row \in rows
      BY <3>1
    <3>3. row.until >= now + PendingRetention
      BY <3>2, StoreTypes, Constants DEF IInv
    <3> QED BY <1>1, <3>1, <3>2, <3>3
  <2>2. CASE u # t
    <3>1. turn'[u] = turn[u] /\ now' = now
      BY <2>2, CommitFacts
    <3>2. \E row \in RowsOf(turn[u].conv, turn[u].id) :
            row.until >= turn[u].committed + PendingRetention
      BY <3>1 DEF IInv, Requests, Since
    <3> QED BY <3>1, <3>2 DEF RowsOf
  <2> QED BY <2>1, <2>2
<1>7. Origins'
  <2>1. \A c \in Conversations, r \in ResponseIds :
          heads'[<<c, r>>] # Store!NoHead =>
            /\ \E u \in Turns : /\ turn'[u].id = r /\ turn'[u].conv = c
                                /\ turn'[u].committed # None
            /\ \E u \in Turns : /\ turn'[u].id = heads'[<<c, r>>].provider
                                /\ turn'[u].conv = c /\ turn'[u].committed # None
    BY CommitHeads
  <2>2. ASSUME NEW row \in pending'
        PROVE  /\ row.resp \in ProviderIds /\ row.approval = ApprovalId(row.conv, row.resp)
               /\ \E u \in Turns : /\ turn'[u].id = row.resp /\ turn'[u].conv = row.conv
                                   /\ turn'[u].committed # None
    <3>1. CASE row \in pending
      BY <3>1, CommitLasts DEF IInv, Origins
    <3>2. CASE row \in rows
      BY <3>2, CommitLasts DEF Completed
    <3> QED BY <3>1, <3>2
  <2>3. ASSUME NEW u \in Turns, turn'[u].decisions # <<>> \/ turn'[u].provider # None
        PROVE  \E v \in Turns : /\ turn'[v].id = turn'[u].prev
                                /\ turn'[v].conv = turn'[u].conv
                                /\ turn'[v].committed # None
    <3>1. Completed(turn[u].conv, turn[u].prev)
      BY <1>3, <2>3 DEF IInv, Origins
    <3> QED BY <1>3, <3>1, CommitLasts
  <2>4. ASSUME NEW u \in Turns, turn'[u].provider # None
        PROVE  \E v \in Turns : /\ turn'[v].id = turn'[u].provider
                                /\ turn'[v].conv = turn'[u].conv
                                /\ turn'[v].committed # None
    <3>1. Completed(turn[u].conv, turn[u].provider)
      BY <1>3, <2>4 DEF IInv, Origins
    <3> QED BY <1>3, <3>1, CommitLasts
  <2> QED BY <2>1, <2>2, <2>3, <2>4 DEF Origins, Completed, Store!NoHead
<1>8. OneRow'
  BY <1>2 DEF IInv, OneRow, RowsOf
<1>9. DecisionsOnFile'
  <2> SUFFICES ASSUME NEW u \in Turns, turn'[u].decisions # <<>>, NEW row \in pending',
                      row.conv = turn'[u].conv, row.resp = turn'[u].prev
               PROVE  /\ row.status = "consumed"
                      /\ row.approved = turn'[u].decisions[1].approved
    BY DEF DecisionsOnFile, RowsOf
  <2>1. turn'[u] = turn[u] /\ row \notin rows
    BY <1>2, <1>3
  <2> QED BY <2>1 DEF IInv, DecisionsOnFile, RowsOf
<1>10. NonePast'
  <2> SUFFICES ASSUME NEW u \in Turns, turn'[u].provider # None, NEW row \in pending',
                      row.conv = turn'[u].conv, row.resp = turn'[u].prev,
                      row.status = "pending", row.until > now'
               PROVE  FALSE
    BY DEF NonePast, Store!hasPending, Store!LiveRows
  <2>1. ~ Store!hasPending(turn[u].conv, turn[u].prev) /\ row \notin rows
    BY <1>2, <1>3 DEF IInv, NonePast
  <2>2. now' = now
    BY CommitFacts
  <2> QED BY <1>3, <2>1, <2>2 DEF Store!hasPending, Store!LiveRows
<1>11. DecidedByOneTurn'
  BY <1>3 DEF IInv, DecidedByOneTurn
<1> QED BY <1>4, <1>5, <1>6, <1>7, <1>8, <1>9, <1>10, <1>11 DEF IInv

\* What the gate releases of a completed stream
LEMMA ReleasedKinds ==
  ASSUME NEW g \in GateRecord
  PROVE  Kinds(g.withheld) \in Seq({"completed", "relayed"})
<1>1. g.withheld \in Seq(Withheld)
  BY DEF GateRecord
<1> DEFINE w == g.withheld
<1>2. /\ Len(w) \in Nat /\ DOMAIN w = 1..Len(w) /\ \A i \in 1..Len(w) : w[i] \in Withheld
  BY <1>1
<1> HIDE DEF w
<1>3. \A f \in Withheld : Kind(f) \in {"completed", "relayed"}
  BY DEF Withheld, Kind
<1>4. Kinds(w) = [i \in 1..Len(w) |-> Kind(w[i])]
  BY <1>2 DEF Kinds
<1>5. [i \in 1..Len(w) |-> Kind(w[i])] \in Seq({"completed", "relayed"})
  BY <1>2, <1>3
<1> QED BY <1>4, <1>5 DEF w

\* The turn whose stream completed, about to release out
LEMMA CommittingTurn ==
  ASSUME IInv, NEW t \in Turns, StreamEnded(t), turn[t].gate.completedId # None,
         NEW out \in Seq({"completed", "relayed", "request"})
  PROVE  LET s == turn[t]
             n == [s EXCEPT !.pc = "releasing", !.committed = now, !.outgoing = out]
         IN  /\ s.gate.completedId = s.id /\ s.id \in ProviderIds
             /\ s.conv \in Conversations /\ s.committed = None /\ s.gate \in GateRecord
             /\ n \in TurnRecord /\ PhaseOf(n) /\ GateOf(n) /\ SpeechOf(n)
             /\ n.committed = now /\ n.id = s.id /\ n.conv = s.conv /\ n.prev = s.prev
             /\ n.provider = s.provider /\ n.decisions = <<>>
             /\ "request" \in Emits(n) => \E i \in DOMAIN out : out[i] = "request"
<1> DEFINE s == turn[t]
           n == [s EXCEPT !.pc = "releasing", !.committed = now, !.outgoing = out]
<1>1. s.pc = "streaming" /\ s.outgoing = <<>>
  BY DEF StreamEnded
<1>2. s \in TurnRecord /\ PhaseOf(s) /\ GateOf(s) /\ SpeechOf(s)
  BY TurnFacts
<1>3. /\ s.gate.completedId = s.id /\ s.id \in ProviderIds /\ s.id # None
      /\ s.conv \in Conversations /\ s.committed = None /\ s.decisions = <<>>
      /\ s.gate.state = "completed" /\ "failure" \notin Emits(s)
  BY <1>1, <1>2, Constants DEF PhaseOf, GateOf
<1>4. now \in Nat
  BY StoreTypes DEF IInv
<1>5. /\ out \in Seq(KindNames)
      /\ \A i \in DOMAIN out : out[i] \in {"completed", "relayed", "request"}
  BY DEF KindNames
<1>6. n \in TurnRecord
  BY <1>2, <1>4, <1>5 DEF TurnRecord, Pcs
<1>7. /\ n.pc = "releasing" /\ n.provider = s.provider /\ n.outgoing = out
      /\ n.conv = s.conv /\ n.prev = s.prev /\ n.decisions = s.decisions /\ n.id = s.id
      /\ n.written = s.written /\ n.committed = now
  BY <1>2 DEF TurnRecord
<1>8. s.gate \in GateRecord
  BY <1>2 DEF TurnRecord
<1> HIDE DEF n
<1>9. \A k \in Emits(n) : k \in Emits(s) \/ \E i \in DOMAIN out : k = out[i]
  BY <1>7 DEF Emits
<1>10. /\ "failure" \notin Emits(n) /\ "call" \notin Emits(n)
       /\ "request" \in Emits(n) => \E i \in DOMAIN out : out[i] = "request"
  BY <1>2, <1>3, <1>5, <1>9 DEF SpeechOf
<1>11. PhaseOf(n) /\ GateOf(n)
  BY <1>3, <1>7 DEF PhaseOf, GateOf, Ended
<1>12. SpeechOf(n)
  BY <1>4, <1>7, <1>10, Constants DEF SpeechOf
<1> QED BY <1>3, <1>6, <1>7, <1>8, <1>10, <1>11, <1>12 DEF n

LEMMA CommitPreserves ==
  ASSUME IInv, NEW t \in Turns, Commit(t)
  PROVE  IInv'
<1> DEFINE s == turn[t]
           id == s.gate.completedId
           released == Kinds(s.gate.withheld)
           N(out) == [s EXCEPT !.pc = "releasing", !.committed = now, !.outgoing = out]
           approvals == <<ApprovalId(s.conv, id)>>
<1>1. /\ StreamEnded(t) /\ id # None /\ issued' = issued
      /\ \/ /\ Store!RecordPending(s.conv, id, id, approvals)
            /\ Moves(t, N(RequestFrames \o released))
         \/ /\ Store!Record(s.conv, id, id, OrdinaryRetention)
            /\ Moves(t, N(released))
  BY Zenon DEF Commit, Gate!Completion
<1>2. /\ id = s.id /\ id \in ProviderIds /\ s.conv \in Conversations
      /\ s.committed = None /\ s.gate \in GateRecord
  <2>1. <<>> \in Seq({"completed", "relayed", "request"})
    OBVIOUS
  <2> QED BY <1>1, <2>1, CommittingTurn
<1>3. released \in Seq({"completed", "relayed"})
  BY <1>2, ReleasedKinds
<1> HIDE DEF released
<1>4. /\ id \in ResponseIds /\ <<s.conv, id>> \in Store!Keys
  BY <1>2, Constants DEF Store!Keys
<1>5. CASE /\ Store!RecordPending(s.conv, id, id, approvals)
           /\ Moves(t, N(RequestFrames \o released))
  <2> DEFINE n == N(RequestFrames \o released)
             up == Store!Upserted(heads, s.conv, id, id, OrdinaryRetention)
             rows == Store!NewRows(s.conv, id, approvals)
  <2>1. /\ heads' = up /\ now' = now /\ pending' = pending \cup rows
    BY <1>5 DEF Store!RecordPending
  <2>2. RequestFrames \o released \in Seq({"completed", "relayed", "request"})
    BY <1>3 DEF RequestFrames
  <2>3. /\ n \in TurnRecord /\ PhaseOf(n) /\ GateOf(n) /\ SpeechOf(n)
        /\ n.committed = now /\ n.id = id /\ n.conv = s.conv /\ n.prev = s.prev
        /\ n.provider = s.provider /\ n.decisions = <<>>
    BY <1>1, <1>2, <2>2, CommittingTurn
  <2> HIDE DEF n
  <2>4. heads \in [Store!Keys -> Store!HeadRow] /\ now \in Nat
    BY StoreTypes DEF IInv
  <2>5. /\ up \in [Store!Keys -> Store!HeadRow]
        /\ \A k \in Store!Keys : k # <<s.conv, id>> => up[k] = heads[k]
        /\ up[<<s.conv, id>>].provider = id
        /\ up[<<s.conv, id>>].until >= heads[<<s.conv, id>>].until
        /\ up[<<s.conv, id>>].until >= now + OrdinaryRetention
    BY <1>2, <1>4, <2>4, UpsertedFacts DEF IInv
  <2> HIDE DEF up
  <2>6. Commits(t, n, n.id)
    BY <1>1, <1>2, <1>4, <1>5, <2>1, <2>3, <2>5 DEF Commits, n
  <2>7. /\ rows # {} /\ \A x, y \in rows : x = y
        /\ \A row \in rows :
             /\ row.conv = s.conv /\ row.resp = id
             /\ row.approval = ApprovalId(s.conv, id)
             /\ row.until = now + PendingRetention
             /\ row \in Store!PendingRow
    <3>1. rows = {[conv |-> s.conv, resp |-> id, ordinal |-> 1 - 1,
                   approval |-> ApprovalId(s.conv, id), until |-> now + PendingRetention,
                   status |-> "pending", approved |-> None]}
      BY DEF Store!NewRows
    <3>2. /\ ApprovalId(s.conv, id) \in Approvals /\ 1 - 1 \in 0..(1 - 1)
          /\ now + PendingRetention \in Nat
      BY <1>2, <2>4, Constants DEF Approvals
    <3> HIDE DEF rows
    <3> QED BY <1>2, <1>4, <3>1, <3>2 DEF Store!PendingRow
  <2> HIDE DEF rows
  <2> QED BY <1>2, <2>1, <2>3, <2>6, <2>7, StreamCommits
<1>6. CASE /\ Store!Record(s.conv, id, id, OrdinaryRetention)
           /\ Moves(t, N(released))
  <2> DEFINE n == N(released)
             hs == Store!UnexpiredHeads
             up == Store!Upserted(hs, s.conv, id, id, OrdinaryRetention)
  <2>1. /\ heads' = up /\ now' = now /\ pending' = pending
    BY <1>6 DEF Store!Record
  <2>2. /\ released \in Seq({"completed", "relayed", "request"})
        /\ ~ \E i \in DOMAIN released : released[i] = "request"
    BY <1>3
  <2>3. /\ n \in TurnRecord /\ PhaseOf(n) /\ GateOf(n) /\ SpeechOf(n)
        /\ n.committed = now /\ n.id = id /\ n.conv = s.conv /\ n.prev = s.prev
        /\ n.provider = s.provider /\ n.decisions = <<>>
        /\ "request" \notin Emits(n)
    BY <1>1, <1>2, <2>2, CommittingTurn
  <2> HIDE DEF n
  <2>4. /\ hs \in [Store!Keys -> Store!HeadRow]
        /\ \A k \in Store!Keys : /\ hs[k] \in {heads[k], Store!NoHead}
                                 /\ heads[k].until > now => hs[k] = heads[k]
    BY StoreTypes DEF IInv, Store!UnexpiredHeads
  <2> HIDE DEF hs
  <2>5. /\ up \in [Store!Keys -> Store!HeadRow]
        /\ \A k \in Store!Keys : k # <<s.conv, id>> => up[k] = hs[k]
        /\ up[<<s.conv, id>>].provider = id
        /\ up[<<s.conv, id>>].until >= hs[<<s.conv, id>>].until
        /\ up[<<s.conv, id>>].until >= now + OrdinaryRetention
    BY <1>2, <1>4, <2>4, UpsertedFacts DEF IInv
  <2> HIDE DEF up
  <2>6. Commits(t, n, n.id)
    BY <1>1, <1>2, <1>4, <1>6, <2>1, <2>3, <2>4, <2>5 DEF Commits, n
  <2>7. pending' = pending \cup {}
    BY <2>1
  <2> QED BY <1>2, <2>3, <2>6, <2>7, StreamCommits
<1> QED BY <1>1, <1>5, <1>6

\* The frames of a result: the action is called only if it was approved.
LEMMA ResultFramesFacts ==
  ASSUME NEW decisions \in DecisionSets
  PROVE  LET out == ResultFrames(decisions)
         IN  /\ out \in Seq(KindNames)
             /\ \A i \in DOMAIN out :
                  /\ out[i] \in {"call", "text", "completed"}
                  /\ out[i] = "call" => decisions[1].approved = TRUE
<1>1. PICK a \in Approvals, b \in BOOLEAN : decisions = <<[approval |-> a, approved |-> b]>>
  BY DEF DecisionSets
<1> DEFINE approved == {i \in DOMAIN decisions : decisions[i].approved}
           k == Cardinality(approved)
           calls == [n \in 1..k |-> "call"]
           rest == <<"text", "completed">>
<1>2. DOMAIN decisions = {1} /\ decisions[1].approved = b
  BY <1>1
<1>3. k \in Nat /\ (k # 0 => b = TRUE)
  <2>1. CASE b = TRUE
    <3>1. approved = {1}
      BY <1>2, <2>1
    <3>2. Cardinality({1}) = 1
      BY FS_Singleton
    <3> HIDE DEF approved
    <3> QED BY <2>1, <3>1, <3>2
  <2>2. CASE b = FALSE
    <3>1. approved = {}
      BY <1>2, <2>2
    <3> QED BY <3>1, FS_EmptySet
  <2> QED BY <2>1, <2>2
<1>4. ResultFrames(decisions) = calls \o rest
  BY DEF ResultFrames
<1> HIDE DEF k
<1>5. calls \in Seq({"call"}) /\ Len(calls) = k
  <2>1. calls \in [1..k -> {"call"}] /\ DOMAIN calls = 1..k
    BY Zenon
  <2> HIDE DEF calls
  <2> QED BY <1>3, <2>1
<1>6. \A i \in DOMAIN calls : b = TRUE
  BY <1>3
<1> HIDE DEF calls
<1>7. rest \in Seq({"text", "completed"})
  OBVIOUS
<1> HIDE DEF rest
<1>8. /\ calls \o rest \in Seq(KindNames)
      /\ \A i \in DOMAIN (calls \o rest) :
           \/ (calls \o rest)[i] \in {"text", "completed"}
           \/ (calls \o rest)[i] = "call" /\ i \in DOMAIN calls
  BY <1>5, <1>7 DEF KindNames
<1> QED BY <1>2, <1>4, <1>6, <1>8

\* The one row of a response is replaced by its decision.
Decided(c, r, approved, row, done) ==
  /\ row.conv = c /\ row.resp = r /\ row.status = "pending" /\ row.until > now
  /\ RowsOf(c, r) = {row}
  /\ done.conv = c /\ done.resp = r /\ done.status = "consumed"
  /\ done.approved = approved
  /\ done.until = row.until /\ done.approval = row.approval
  /\ pending' = (pending \ {row}) \cup {done}

\* The decisions that are acted upon answer the one approval on file.
LEMMA ConsumedRow ==
  ASSUME IInv, NEW c \in Conversations, NEW r \in ResponseIds,
         NEW decisions \in DecisionSets, NEW result,
         Store!ConsumePending(c, r, decisions, result)
  PROVE  /\ heads[<<c, r>>].until > now
         /\ decisions = <<[approval |-> ApprovalId(c, r),
                           approved |-> decisions[1].approved]>>
         /\ \E row \in pending, done \in Store!PendingRow :
              Decided(c, r, decisions[1].approved, row, done)
<1>1. PICK a \in Approvals, b \in BOOLEAN : decisions = <<[approval |-> a, approved |-> b]>>
  BY DEF DecisionSets
<1>2. Len(decisions) = 1 /\ DOMAIN decisions = {1} /\ 1..1 = {1}
  BY <1>1
<1> DEFINE live == Store!LiveRows(c, r)
<1>3. PICK order \in Store!OrdinalOrders(Len(decisions), live) :
        /\ \A i \in DOMAIN decisions : order[i].approval = decisions[i].approval
        /\ pending' = (pending \ live) \cup
             {[order[i] EXCEPT !.status = "consumed",
                               !.approved = decisions[i].approved] : i \in DOMAIN decisions}
  BY DEF Store!ConsumePending
<1>4. order[1] \in live
  BY <1>2 DEF Store!OrdinalOrders, Store!Bijection, Store!Injection
<1>5. /\ order[1] \in pending /\ order[1].conv = c /\ order[1].resp = r
      /\ order[1].status = "pending" /\ order[1].until > now
  BY <1>4 DEF Store!LiveRows
<1>6. RowsOf(c, r) = {order[1]} /\ live = {order[1]}
  BY <1>4, <1>5 DEF IInv, OneRow, RowsOf, Store!LiveRows
<1>7. a = ApprovalId(c, r)
  BY <1>1, <1>2, <1>3, <1>5 DEF IInv, Origins
<1>8. heads[<<c, r>>].until > now
  BY DEF Store!ConsumePending, Store!Consumable, Store!Live
<1>9. {[order[i] EXCEPT !.status = "consumed", !.approved = decisions[i].approved] :
         i \in DOMAIN decisions}
        = {[order[1] EXCEPT !.status = "consumed", !.approved = decisions[1].approved]}
  BY <1>2
<1>10. decisions = <<[approval |-> ApprovalId(c, r), approved |-> decisions[1].approved]>>
  BY <1>1, <1>7
<1> DEFINE done == [order[1] EXCEPT !.status = "consumed", !.approved = decisions[1].approved]
<1>11. /\ done \in Store!PendingRow
       /\ done.conv = c /\ done.resp = r /\ done.status = "consumed"
       /\ done.approved = decisions[1].approved
       /\ done.until = order[1].until /\ done.approval = order[1].approval
  <2>1. order[1] \in Store!PendingRow /\ decisions[1].approved \in BOOLEAN
    BY <1>1, <1>5, StoreTypes DEF IInv
  <2> QED BY <1>5, <2>1 DEF Store!PendingRow
<1>12. pending' = (pending \ {order[1]}) \cup {done}
  BY <1>3, <1>6, <1>9
<1> HIDE DEF done
<1>13. Decided(c, r, decisions[1].approved, order[1], done)
  BY <1>5, <1>6, <1>11, <1>12 DEF Decided
<1> QED BY <1>5, <1>8, <1>10, <1>11, <1>13

\* The turn that acts upon decisions, about to write their result
LEMMA DecidingTurn ==
  ASSUME IInv, NEW c \in Conversations, NEW r \in ProviderIds,
         NEW decisions \in DecisionSets, NEW id \in ResponseIds
  PROVE  LET n == [Idle EXCEPT !.pc = "releasing", !.conv = c, !.prev = r,
                               !.decisions = decisions, !.id = id,
                               !.outgoing = ResultFrames(decisions),
                               !.committed = now]
         IN  /\ n \in TurnRecord /\ PhaseOf(n) /\ GateOf(n) /\ SpeechOf(n)
             /\ n.committed = now /\ n.id = id /\ n.conv = c /\ n.prev = r
             /\ n.provider = None /\ n.decisions = decisions
             /\ "request" \notin Emits(n)
<1> DEFINE out == ResultFrames(decisions)
           n == [Idle EXCEPT !.pc = "releasing", !.conv = c, !.prev = r,
                             !.decisions = decisions, !.id = id,
                             !.outgoing = out, !.committed = now]
<1>1. /\ out \in Seq(KindNames)
      /\ \A i \in DOMAIN out : /\ out[i] \in {"call", "text", "completed"}
                               /\ out[i] = "call" => decisions[1].approved = TRUE
  BY ResultFramesFacts
<1> HIDE DEF out
<1>2. now \in Nat /\ r \in ResponseIds /\ id # None
  BY StoreTypes, Constants DEF IInv
<1>3. decisions # <<>>
  BY DEF DecisionSets
<1>4. n \in TurnRecord
  <2>1. /\ decisions \in DecisionSets \cup {<<>>} /\ now \in Nat \cup {None}
        /\ c \in Conversations \cup {None} /\ "releasing" \in Pcs
        /\ r \in ResponseIds \cup {None} /\ id \in ResponseIds \cup {None}
    BY <1>2 DEF Pcs
  <2> QED BY <1>1, <2>1, IdleRecord DEF TurnRecord
<1>5. /\ n.pc = "releasing" /\ n.conv = c /\ n.prev = r /\ n.decisions = decisions
      /\ n.id = id /\ n.outgoing = out /\ n.committed = now
      /\ n.provider = None /\ n.written = {}
  BY IdleRecord DEF TurnRecord
<1> HIDE DEF n
<1>6. Emits(n) = {out[i] : i \in DOMAIN out}
  BY <1>5 DEF Emits
<1>7. /\ "request" \notin Emits(n) /\ "failure" \notin Emits(n)
      /\ "call" \in Emits(n) => decisions[1].approved = TRUE
  BY <1>1, <1>6
<1>8. PhaseOf(n) /\ GateOf(n)
  BY <1>2, <1>5, Constants DEF PhaseOf, GateOf, Ended
<1>9. SpeechOf(n)
  BY <1>2, <1>3, <1>5, <1>7, Constants DEF SpeechOf
<1> QED BY <1>4, <1>5, <1>7, <1>8, <1>9 DEF n, out

LEMMA DecidePreserves ==
  ASSUME IInv, NEW t \in Turns, NEW c \in Conversations, NEW r \in ResponseIds,
         NEW decisions \in DecisionSets, Decide(t, c, r, decisions)
  PROVE  IInv'
<1> DEFINE id == ResultId(c, r, decisions)
           p == heads[<<c, r>>].provider
           n == [Idle EXCEPT !.pc = "releasing", !.conv = c, !.prev = r,
                             !.decisions = decisions, !.id = id,
                             !.outgoing = ResultFrames(decisions),
                             !.committed = now]
           up == Store!Upserted(heads, c, id, p, OrdinaryRetention)
           b == decisions[1].approved
<1>1. turn[t].pc = "idle" /\ Moves(t, n) /\ issued' = issued
  BY DEF Decide, Accepts
<1>2. Store!ConsumePending(c, r, decisions, id)
  BY DEF Decide
<1>3. heads' = up /\ now' = now
  BY <1>2 DEF Store!ConsumePending
<1> HIDE DEF id, n, p, up
<1>4. PICK row \in pending, done \in Store!PendingRow :
        Decided(c, r, b, row, done)
  BY <1>2, ConsumedRow
<1>5. /\ row.conv = c /\ row.resp = r /\ row.status = "pending" /\ row.until > now
       /\ RowsOf(c, r) = {row}
       /\ done.conv = c /\ done.resp = r /\ done.status = "consumed"
       /\ done.approved = b
       /\ done.until = row.until /\ done.approval = row.approval
       /\ pending' = (pending \ {row}) \cup {done}
  BY <1>4 DEF Decided
<1>6. /\ heads[<<c, r>>].until > now
      /\ decisions = <<[approval |-> ApprovalId(c, r), approved |-> b]>>
  BY <1>2, ConsumedRow
<1>7. /\ r \in ProviderIds /\ row.approval = ApprovalId(c, r)
      /\ b \in BOOLEAN /\ decisions # <<>>
  BY <1>5, <1>6 DEF IInv, Origins, DecisionSets
<1>8. id \in ResponseIds /\ id \notin ProviderIds /\ <<c, id>> \in Store!Keys
  <2> DEFINE own == <<[approval |-> ApprovalId(c, r), approved |-> b]>>
  <2>1. ResultId(c, r, own) \in ResultIds
    BY <1>7 DEF ResultIds
  <2>2. id = ResultId(c, r, own)
    BY <1>6, Zenon DEF id
  <2> QED BY <2>1, <2>2, Constants DEF ResponseIds, Store!Keys
<1>9. heads[<<c, r>>] # Store!NoHead /\ p \in ProviderIds /\ <<c, r>> \in Store!Keys
  <2>1. <<c, r>> \in Store!Keys
    BY DEF Store!Keys
  <2> QED BY <1>6, <2>1, StoreTypes DEF IInv, p
<1>10. Completed(c, r) /\ Completed(c, p)
  BY <1>9 DEF IInv, Origins, p
<1>11. /\ turn[t].committed = None /\ turn[t].decisions = <<>>
  BY <1>1, FreshTurn
<1>12. /\ n \in TurnRecord /\ PhaseOf(n) /\ GateOf(n) /\ SpeechOf(n)
       /\ n.committed = now /\ n.id = id /\ n.conv = c /\ n.prev = r
       /\ n.provider = None /\ n.decisions = decisions
       /\ "request" \notin Emits(n)
  <2>1. r \in ProviderIds /\ id \in ResponseIds
    BY <1>7, <1>8
  <2> QED BY <2>1, DecidingTurn, Zenon DEF n
<1> HIDE DEF b
<1>13. Commits(t, n, p)
  <2>1. heads \in [Store!Keys -> Store!HeadRow] /\ now \in Nat
    BY StoreTypes DEF IInv
  <2>2. /\ up \in [Store!Keys -> Store!HeadRow]
        /\ \A k \in Store!Keys : k # <<c, id>> => up[k] = heads[k]
        /\ up[<<c, id>>].provider = p
        /\ up[<<c, id>>].until >= heads[<<c, id>>].until
        /\ up[<<c, id>>].until >= now + OrdinaryRetention
    BY <1>8, <1>9, <2>1, UpsertedFacts DEF IInv, up
  <2> QED BY <1>1, <1>3, <1>8, <1>9, <1>11, <1>12, <2>2 DEF Commits
<1>14. \A x \in pending : x.conv = c /\ x.resp = r => x = row
  BY <1>5 DEF RowsOf
<1>15. /\ turn'[t] = n /\ \A u \in Turns : u # t => turn'[u] = turn[u]
       /\ now' = now
  BY <1>13, CommitFacts
<1>16. Types'
  <2>1. pending' \subseteq Store!PendingRow
    BY <1>5, StoreTypes DEF IInv
  <2> QED BY <1>13, <2>1, CommitTypes
<1>17. Local' /\ Ids' /\ Kept'
  BY <1>8, <1>12, <1>13, CommitLocal, CommitKept
<1>18. Requests'
  <2> SUFFICES ASSUME NEW u \in Turns, "request" \in Emits(turn'[u]),
                      now' < turn'[u].committed + PendingRetention
               PROVE  \E x \in pending' :
                        /\ x.conv = turn'[u].conv /\ x.resp = turn'[u].id
                        /\ x.until >= turn'[u].committed + PendingRetention
    BY DEF Requests, Since, RowsOf, Emits
  <2>1. turn'[u] = turn[u]
    BY <1>12, <1>15
  <2>2. PICK x \in RowsOf(turn[u].conv, turn[u].id) :
          x.until >= turn[u].committed + PendingRetention
    BY <1>15, <2>1 DEF IInv, Requests, Since
  <2> QED BY <1>5, <1>14, <2>1, <2>2 DEF RowsOf
<1>19. Origins'
  <2>1. \A d \in Conversations, q \in ResponseIds :
          heads'[<<d, q>>] # Store!NoHead =>
            /\ \E u \in Turns : /\ turn'[u].id = q /\ turn'[u].conv = d
                                /\ turn'[u].committed # None
            /\ \E u \in Turns : /\ turn'[u].id = heads'[<<d, q>>].provider
                                /\ turn'[u].conv = d /\ turn'[u].committed # None
    BY <1>10, <1>12, <1>13, CommitHeads
  <2>2. ASSUME NEW x \in pending'
        PROVE  /\ x.resp \in ProviderIds /\ x.approval = ApprovalId(x.conv, x.resp)
               /\ \E u \in Turns : /\ turn'[u].id = x.resp /\ turn'[u].conv = x.conv
                                   /\ turn'[u].committed # None
    <3>1. CASE x \in pending
      BY <1>13, <3>1, CommitLasts DEF IInv, Origins
    <3>2. CASE x = done
      BY <1>5, <1>7, <1>10, <1>13, <3>2, CommitLasts
    <3> QED BY <1>5, <3>1, <3>2
  <2>3. ASSUME NEW u \in Turns, turn'[u].decisions # <<>> \/ turn'[u].provider # None
        PROVE  \E v \in Turns : /\ turn'[v].id = turn'[u].prev
                                /\ turn'[v].conv = turn'[u].conv
                                /\ turn'[v].committed # None
    <3>1. CASE u = t
      BY <1>10, <1>12, <1>13, <1>15, <3>1, CommitLasts
    <3>2. CASE u # t
      <4>1. turn'[u] = turn[u]
        BY <1>15, <3>2
      <4>2. Completed(turn[u].conv, turn[u].prev)
        BY <2>3, <4>1 DEF IInv, Origins
      <4> QED BY <1>13, <4>1, <4>2, CommitLasts
    <3> QED BY <3>1, <3>2
  <2>4. ASSUME NEW u \in Turns, turn'[u].provider # None
        PROVE  \E v \in Turns : /\ turn'[v].id = turn'[u].provider
                                /\ turn'[v].conv = turn'[u].conv
                                /\ turn'[v].committed # None
    <3>1. turn'[u] = turn[u]
      BY <1>12, <1>15, <2>4
    <3>2. Completed(turn[u].conv, turn[u].provider)
      BY <2>4, <3>1 DEF IInv, Origins
    <3> QED BY <1>13, <3>1, <3>2, CommitLasts
  <2> QED BY <2>1, <2>2, <2>3, <2>4 DEF Origins, Completed, Store!NoHead
<1>20. OneRow'
  BY <1>5, <1>14 DEF IInv, OneRow
\* Nobody has decided the response before: its row would say so.
<1>21. \A u \in Turns : turn[u].decisions # <<>> =>
         <<turn[u].conv, turn[u].prev>> # <<c, r>>
  BY <1>5 DEF IInv, DecisionsOnFile, RowsOf
<1>22. DecisionsOnFile'
  <2> SUFFICES ASSUME NEW u \in Turns, turn'[u].decisions # <<>>, NEW x \in pending',
                      x.conv = turn'[u].conv, x.resp = turn'[u].prev
               PROVE  /\ x.status = "consumed"
                      /\ x.approved = turn'[u].decisions[1].approved
    BY DEF DecisionsOnFile, RowsOf
  <2>1. CASE u = t
    <3>1. x = done
      BY <1>5, <1>12, <1>14, <1>15, <2>1
    <3> QED BY <1>5, <1>12, <1>15, <2>1, <3>1 DEF b
  <2>2. CASE u # t
    <3>1. turn'[u] = turn[u]
      BY <1>15, <2>2
    <3>2. x \in pending
      BY <1>5, <1>14, <1>21, <3>1
    <3> QED BY <3>1, <3>2 DEF IInv, DecisionsOnFile, RowsOf
  <2> QED BY <2>1, <2>2
<1>23. NonePast'
  <2> SUFFICES ASSUME NEW u \in Turns, turn'[u].provider # None, NEW x \in pending',
                      x.conv = turn'[u].conv, x.resp = turn'[u].prev,
                      x.status = "pending", x.until > now'
               PROVE  FALSE
    BY DEF NonePast, Store!hasPending, Store!LiveRows
  <2>1. turn'[u] = turn[u] /\ x \in pending
    BY <1>12, <1>5, <1>14, <1>15
  <2>2. ~ Store!hasPending(turn[u].conv, turn[u].prev)
    BY <2>1 DEF IInv, NonePast
  <2> QED BY <1>15, <2>1, <2>2 DEF Store!hasPending, Store!LiveRows
<1>24. DecidedByOneTurn'
  BY <1>12, <1>15, <1>21 DEF IInv, DecidedByOneTurn
<1> QED BY <1>16, <1>17, <1>18, <1>19, <1>20, <1>22, <1>23, <1>24 DEF IInv
-----------------------------------------------------------------------------
(* The specification.                                                      *)

LEMMA InitEstablishes ==
  ASSUME Init
  PROVE  IInv
<1>1. /\ heads = [k \in Store!Keys |-> Store!NoHead] /\ pending = {} /\ now = 0
      /\ turn = [t \in Turns |-> Idle]
      /\ process = "down" /\ starts = 0 /\ issued = [p \in ProviderIds |-> None]
  BY DEF Init, Store!Init
<1>2. \A t \in Turns : turn[t] = Idle
  BY <1>1
<1>3. /\ Idle \in TurnRecord /\ Idle.pc = "idle"
      /\ Idle.conv = None /\ Idle.prev = None /\ Idle.decisions = <<>>
      /\ Idle.provider = None /\ Idle.id = None /\ Idle.outgoing = <<>>
      /\ Idle.written = {} /\ Idle.committed = None /\ Emits(Idle) = {}
      /\ Idle = [Idle EXCEPT !.pc = Idle.pc]
  <2>1. Idle = [Idle EXCEPT !.pc = Idle.pc]
    BY DEF Idle
  <2> QED BY <2>1, IdleRecord
<1>4. Types
  <2>1. Store!TypeOK
    BY <1>1, Constants DEF Store!TypeOK, Store!HeadRow
  <2>2. \A k \in Store!Keys : heads[k].provider = None
    BY <1>1 DEF Store!NoHead
  <2>3. \A t \in Turns :
          /\ turn[t].pc \in Pcs
          /\ turn[t].conv \in Conversations \cup {None}
          /\ turn[t].prev \in ResponseIds \cup {None}
          /\ turn[t].id \in ResponseIds \cup {None}
          /\ turn[t].provider \in ProviderIds \cup {None}
          /\ turn[t].frames \in 0..MaxFrames
          /\ turn[t].committed \in 0..now \cup {None}
    BY <1>2, <1>3 DEF TurnRecord
  <2>4. /\ process \in {"up", "draining", "down"} /\ starts \in 0..MaxStarts
        /\ issued \in [ProviderIds -> Conversations \cup {None}]
    BY <1>1, BoundAssumption
  <2>5. TypeOK
    BY <2>1, <2>2, <2>3, <2>4 DEF TypeOK
  <2>6. turn \in [Turns -> TurnRecord]
    BY <1>1, <1>3
  <2> QED BY <2>5, <2>6 DEF Types
<1>5. Local
  <2>1. PhaseOf(Idle) /\ GateOf(Idle) /\ SpeechOf(Idle)
    BY <1>3 DEF PhaseOf, GateOf, SpeechOf, Ended
  <2> QED BY <1>2, <2>1 DEF Local
<1>6. Ids /\ Kept /\ Requests
  BY <1>2, <1>3, Constants DEF Ids, Kept, Requests
<1>7. Origins
  <2>1. \A c \in Conversations, r \in ResponseIds : heads[<<c, r>>] = Store!NoHead
    BY <1>1 DEF Store!Keys
  <2> QED BY <1>1, <1>2, <1>3, <2>1 DEF Origins
<1>8. OneRow /\ DecisionsOnFile /\ NonePast /\ DecidedByOneTurn
  BY <1>1, <1>2, <1>3 DEF OneRow, DecisionsOnFile, NonePast, DecidedByOneTurn
<1> QED BY <1>4, <1>5, <1>6, <1>7, <1>8 DEF IInv

LEMMA StutterPreserves ==
  ASSUME IInv, UNCHANGED vars
  PROVE  IInv'
<1>1. /\ turn' = turn /\ issued' = issued /\ turn' \in [Turns -> TurnRecord]
      /\ process' \in {"up", "draining", "down"} /\ starts' \in 0..MaxStarts
      /\ UNCHANGED storeVars
  BY DEF vars, storeVars, IInv, Types, TypeOK
<1>2. StoreKeeps
  BY <1>1, UnchangedKeeps DEF IInv
<1> QED BY <1>1, <1>2, ProcessStep

LEMMA RequestPreserves ==
  ASSUME IInv, NEW t \in Turns, Request(t)
  PROVE  IInv'
BY StartPreserves, RefuseTurnPreserves, ContinuePreserves, DecidePreserves,
   RefuseDecisionPreserves DEF Request

LEMMA ProgressPreserves ==
  ASSUME IInv, NEW t \in Turns, Progress(t)
  PROVE  IInv'
BY FetchFailsPreserves, FetchAnswersPreserves, RelayPreserves, WritePreserves,
   CommitPreserves, EndIncompletePreserves, AnswerPreserves, BreakPreserves
   DEF Progress

LEMMA NextPreserves ==
  ASSUME IInv, [Next]_vars
  PROVE  IInv'
<1>1. CASE \E t \in Turns : Request(t) \/ Progress(t)
  BY <1>1, RequestPreserves, ProgressPreserves
<1>2. CASE Crash \/ ForcedExit
  BY <1>2, CutPreserves DEF Crash, ForcedExit
<1>3. CASE Shutdown \/ Exit \/ Restart \/ Tick
  BY <1>3, ProcessPreserves
<1>4. CASE UNCHANGED vars
  BY <1>4, StutterPreserves
<1> QED BY <1>1, <1>2, <1>3, <1>4 DEF Next

\* Whatever requests interleave at the awaits of the handler, and wherever the
\* process is cut and started again, the file and the turns fit together.
THEOREM Invariance == Spec => []IInv
<1>1. Init => IInv
  BY InitEstablishes
<1>2. IInv /\ [Next]_vars => IInv'
  BY NextPreserves
<1> QED BY <1>1, <1>2, PTL DEF Spec

\* What a client has seen of a turn's end is on file: the mapping a client can
\* continue from is committed before response.completed is released, and an
\* approval request before it is shown (server.mjs, /v1/responses).
THEOREM SeenIsDurableTheorem == Spec => []SeenIsDurable
<1>1. IInv => SeenIsDurable
  <2> SUFFICES ASSUME IInv
               PROVE  SeenIsDurable
    OBVIOUS
  <2>1. TypeOK
    BY DEF IInv, Types
  <2>2. ASSUME NEW t \in Turns
        PROVE  turn[t].written \subseteq Emits(turn[t])
    BY DEF Emits
  <2>3. TerminalIsDurable
    <3> SUFFICES ASSUME NEW t \in Turns, Wrote(t, "completed")
                 PROVE  /\ turn[t].committed # None
                        /\ Since(t, OrdinaryRetention) =>
                             Store!Live(turn[t].conv, turn[t].id)
      BY DEF TerminalIsDurable
    <3>1. "completed" \in Emits(turn[t])
      BY <2>2 DEF Wrote
    <3>2. turn[t].committed # None
      BY <3>1, TurnFacts DEF SpeechOf
    <3>3. ASSUME Since(t, OrdinaryRetention)
          PROVE  Store!Live(turn[t].conv, turn[t].id)
      <4>1. turn[t].id # None /\ turn[t].conv \in Conversations
        BY <3>2, TurnFacts DEF PhaseOf
      <4>2. turn[t].id \in ResponseIds /\ turn[t].committed \in Nat
        BY <3>2, <4>1, TurnFacts DEF TurnRecord
      <4>3. /\ <<turn[t].conv, turn[t].id>> \in Store!Keys /\ now \in Nat
            /\ heads[<<turn[t].conv, turn[t].id>>].until \in Nat
        BY <4>1, <4>2, StoreTypes DEF Store!Keys, IInv
      <4>4. heads[<<turn[t].conv, turn[t].id>>].until
              >= turn[t].committed + OrdinaryRetention
        BY <3>2, <3>3 DEF IInv, Kept
      <4> QED BY <3>3, <4>2, <4>3, <4>4, Constants DEF Since, Store!Live
    <3> QED BY <3>2, <3>3
  <2>4. RequestIsDurable
    <3> SUFFICES ASSUME NEW t \in Turns, Wrote(t, "request")
                 PROVE  /\ turn[t].committed # None
                        /\ Since(t, PendingRetention) =>
                             \E row \in pending :
                               row.conv = turn[t].conv /\ row.resp = turn[t].id
      BY DEF RequestIsDurable
    <3>1. "request" \in Emits(turn[t])
      BY <2>2 DEF Wrote
    <3>2. turn[t].committed # None
      BY <3>1, TurnFacts DEF SpeechOf
    <3> QED BY <3>1, <3>2 DEF IInv, Requests, RowsOf
  <2> QED BY <2>1, <2>3, <2>4 DEF SeenIsDurable
<1> QED BY <1>1, Invariance, PTL

\* The frame of an executed action is written only when the file holds the
\* approval as approved (server.mjs, handleApprovalDecision).
THEOREM ExecutedIsApprovedTheorem == Spec => []ExecutedIsApproved
<1>1. IInv => ExecutedIsApproved
  <2> SUFFICES ASSUME IInv, NEW t \in Turns, NEW row \in pending, Wrote(t, "call"),
                      row.conv = turn[t].conv, row.resp = turn[t].prev
               PROVE  row.status = "consumed" /\ row.approved = TRUE
    BY DEF ExecutedIsApproved
  <2>1. "call" \in Emits(turn[t])
    BY DEF Emits, Wrote
  <2>2. turn[t].decisions # <<>> /\ turn[t].decisions[1].approved = TRUE
    BY <2>1, TurnFacts DEF SpeechOf
  <2> QED BY <2>2 DEF IInv, DecisionsOnFile, RowsOf
<1> QED BY <1>1, Invariance, PTL

\* However many requests answer an approval, one of them is acted upon: the
\* row the others would consume is consumed (state-store.mjs, consumePending).
THEOREM DecidedByOneTurnTheorem == Spec => []DecidedByOneTurn
<1>1. IInv => DecidedByOneTurn
  BY DEF IInv
<1> QED BY <1>1, Invariance, PTL

\* No turn under way went past an approval that can still be decided
\* (server.mjs, hasPending before resolve).
THEOREM NoTurnPastPendingTheorem == Spec => []NoTurnPastPending
<1>1. IInv => NoTurnPastPending
  BY DEF IInv, NonePast, NoTurnPastPending, Started
<1> QED BY <1>1, Invariance, PTL

\* A turn continues from a completed turn of its own conversation, and a turn
\* that names no response is the only one that continues from none.
THEOREM ProviderStaysInConversationTheorem == Spec => []ProviderStaysInConversation
<1>1. IInv => ProviderStaysInConversation
  <2> SUFFICES ASSUME IInv, NEW t \in Turns
               PROVE  /\ turn[t].provider # None =>
                           \E u \in Turns :
                             /\ turn[u].id = turn[t].provider
                             /\ turn[u].committed # None
                             /\ turn[u].conv = turn[t].conv
                             /\ issued[turn[t].provider] = turn[t].conv
                      /\ turn[t].pc = "streaming" /\ turn[t].prev # None =>
                           turn[t].provider # None
    BY DEF ProviderStaysInConversation, Started
  <2>1. ASSUME turn[t].provider # None
        PROVE  \E u \in Turns :
                 /\ turn[u].id = turn[t].provider
                 /\ turn[u].committed # None
                 /\ turn[u].conv = turn[t].conv
                 /\ issued[turn[t].provider] = turn[t].conv
    <3>1. PICK u \in Turns : /\ turn[u].id = turn[t].provider
                             /\ turn[u].conv = turn[t].conv
                             /\ turn[u].committed # None
      BY <2>1 DEF IInv, Origins, Completed
    <3>2. turn[t].provider \in ProviderIds
      BY <2>1, TurnFacts DEF TurnRecord
    <3>3. issued[turn[t].provider] = turn[t].conv
      BY <3>1, <3>2 DEF IInv, Ids
    <3> QED BY <3>1, <3>3
  <2>2. turn[t].pc = "streaming" /\ turn[t].prev # None => turn[t].provider # None
    BY TurnFacts DEF PhaseOf
  <2> QED BY <2>1, <2>2
<1> QED BY <1>1, Invariance, PTL

\* A stream that failed, broke off or announced its end too early leaves
\* nothing to continue from: no turn committed its response, and everything
\* on file was committed by a turn.
THEOREM OnlyCompletionsAdvanceTheorem == Spec => []OnlyCompletionsAdvance
<1>1. IInv => OnlyCompletionsAdvance
  <2> SUFFICES ASSUME IInv, NEW t \in Turns, turn[t].id \in ProviderIds,
                      turn[t].committed = None \/ Wrote(t, "failure")
               PROVE  heads[<<turn[t].conv, turn[t].id>>] = Store!NoHead
    BY DEF OnlyCompletionsAdvance
  <2>1. turn[t].committed = None
    BY TurnFacts DEF SpeechOf, Wrote, Emits
  <2>2. turn[t].conv \in Conversations /\ turn[t].id \in ResponseIds
    BY TurnFacts, Constants DEF PhaseOf
  <2>3. ~ Completed(turn[t].conv, turn[t].id)
    BY <2>1, UncommittedHasNothing
  <2> QED BY <2>2, <2>3 DEF IInv, Origins
<1> QED BY <1>1, Invariance, PTL
-----------------------------------------------------------------------------
(* The turns use the file only through the methods of the store.           *)

LEMMA OneIsBounded ==
  ASSUME NEW S, NEW x \in S
  PROVE  <<x>> \in Store!BoundedSeq(S)
<1>1. <<x>> \in [1..1 -> S]
  OBVIOUS
<1>2. 1 \in 1..1
  OBVIOUS
<1> HIDE DEF Store!BoundedSeq
<1> QED BY <1>1, <1>2 DEF Store!BoundedSeq

LEMMA CommitUsesStore ==
  ASSUME IInv, NEW t \in Turns, Commit(t)
  PROVE  Store!Next
<1> DEFINE s == turn[t]
           id == s.gate.completedId
           approvals == <<ApprovalId(s.conv, id)>>
<1>1. /\ StreamEnded(t) /\ id # None
      /\ \/ Store!RecordPending(s.conv, id, id, approvals)
         \/ Store!Record(s.conv, id, id, OrdinaryRetention)
  BY Zenon DEF Commit, Gate!Completion
<1>2. s.conv \in Conversations /\ id \in ProviderIds
  <2>1. <<>> \in Seq({"completed", "relayed", "request"})
    OBVIOUS
  <2> QED BY <1>1, <2>1, CommittingTurn
<1>3. id \in ResponseIds /\ ApprovalId(s.conv, id) \in Approvals
  BY <1>2, Constants DEF Approvals
<1>4. approvals \in Store!BoundedSeq(Approvals)
  BY <1>3, OneIsBounded
<1> HIDE DEF approvals, id, s
<1>5. OrdinaryRetention \in {OrdinaryRetention} /\ s.conv \in Conversations
  BY <1>2
<1> QED BY <1>1, <1>3, <1>4, <1>5 DEF Store!Next

LEMMA DecideUsesStore ==
  ASSUME IInv, NEW t \in Turns, NEW c \in Conversations, NEW r \in ResponseIds,
         NEW decisions \in DecisionSets, Decide(t, c, r, decisions)
  PROVE  Store!Next
<1> DEFINE id == ResultId(c, r, decisions)
<1>1. Store!ConsumePending(c, r, decisions, id)
  BY DEF Decide
<1>2. PICK a \in Approvals, b \in BOOLEAN : decisions = <<[approval |-> a, approved |-> b]>>
  BY DEF DecisionSets
<1>3. decisions \in Store!BoundedSeq(Store!Decisions)
  <2>1. [approval |-> a, approved |-> b] \in Store!Decisions
    BY DEF Store!Decisions
  <2> QED BY <1>2, <2>1, OneIsBounded
<1>4. decisions[1].approved = b
  BY <1>2
<1>5. decisions = <<[approval |-> ApprovalId(c, r), approved |-> b]>> /\ r \in ProviderIds
  <2>1. /\ decisions = <<[approval |-> ApprovalId(c, r), approved |-> decisions[1].approved]>>
        /\ \E row \in pending, done \in Store!PendingRow :
             Decided(c, r, decisions[1].approved, row, done)
    BY <1>1, ConsumedRow
  <2>2. \E row \in pending : row.resp = r
    BY <2>1 DEF Decided
  <2> QED BY <1>4, <2>1, <2>2 DEF IInv, Origins
<1>6. id \in ResponseIds
  <2> DEFINE own == <<[approval |-> ApprovalId(c, r), approved |-> b]>>
  <2>1. ResultId(c, r, own) \in ResultIds
    BY <1>5 DEF ResultIds
  <2>2. id = ResultId(c, r, own)
    BY <1>5, Zenon
  <2> HIDE DEF id
  <2> QED BY <2>1, <2>2 DEF ResponseIds
<1> HIDE DEF id
<1> QED BY <1>1, <1>3, <1>6 DEF Store!Next

\* Every step of the server is a call of one method of the store, a crash
\* inside one, a tick of the clock, or nothing to the file: what is proved of
\* the store (ResponseStoreProofs), for the retentions that proof assumes, is
\* true of the file under the server.
THEOREM ImplementsStore == Spec => Store!Spec
<1>1. Init => Store!Init
  BY DEF Init
<1>2. IInv /\ [Next]_vars => [Store!Next]_Store!vars
  <2> SUFFICES ASSUME IInv, [Next]_vars
               PROVE  Store!Next \/ UNCHANGED storeVars
    BY DEF storeVars, Store!vars
  <2>1. ASSUME NEW t \in Turns, Request(t)
        PROVE  Store!Next \/ UNCHANGED storeVars
    <3>1. ASSUME NEW c \in Conversations, NEW r \in ResponseIds,
                 \/ RefuseTurn(t, c, r)
                 \/ \E demo \in BOOLEAN : Continue(t, c, r, demo)
          PROVE  Store!Next \/ UNCHANGED storeVars
      BY <3>1 DEF RefuseTurn, Continue, Store!Next
    <3>2. ASSUME NEW c \in Conversations, NEW r \in ResponseIds,
                 NEW decisions \in DecisionSets,
                 Decide(t, c, r, decisions) \/ RefuseDecision(t, c, r, decisions)
          PROVE  Store!Next \/ UNCHANGED storeVars
      BY <3>2, DecideUsesStore DEF RefuseDecision, storeVars
    <3>3. ASSUME NEW c \in Conversations, NEW demo \in BOOLEAN, Start(t, c, demo)
          PROVE  UNCHANGED storeVars
      BY <3>3 DEF Start, storeVars
    <3> QED BY <2>1, <3>1, <3>2, <3>3 DEF Request
  <2>2. ASSUME NEW t \in Turns, Progress(t)
        PROVE  Store!Next \/ UNCHANGED storeVars
    <3>1. FetchFails(t) \/ Write(t) \/ EndIncomplete(t) \/ Answer(t) => UNCHANGED storeVars
      BY DEF FetchFails, Write, EndIncomplete, Answer, storeVars
    <3>2. ASSUME NEW id \in ProviderIds, FetchAnswers(t, id)
          PROVE  UNCHANGED storeVars
      BY <3>2 DEF FetchAnswers
    <3>3. ASSUME NEW f \in StreamFrames(turn[t].id), Relay(t, f)
          PROVE  UNCHANGED storeVars
      BY <3>3 DEF Relay, storeVars
    <3>4. Break(t) => Store!Next \/ UNCHANGED storeVars
      BY DEF Break, Store!Next
    <3> QED BY <2>2, <3>1, <3>2, <3>3, <3>4, CommitUsesStore DEF Progress
  <2>3. Crash \/ ForcedExit => Store!Next \/ UNCHANGED storeVars
    BY DEF Crash, ForcedExit, Cut, Store!Next
  <2>4. Shutdown \/ Exit \/ Restart \/ Tick => Store!Next \/ UNCHANGED storeVars
    BY DEF Shutdown, Exit, Restart, Tick, Store!Next, storeVars
  <2>5. UNCHANGED vars => UNCHANGED storeVars
    BY DEF vars, storeVars
  <2> QED BY <2>1, <2>2, <2>3, <2>4, <2>5 DEF Next
<1> QED BY <1>1, <1>2, Invariance, PTL DEF Spec, Store!Spec

=============================================================================
