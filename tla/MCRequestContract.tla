------------------------- MODULE MCRequestContract -------------------------
(***************************************************************************)
(* Instance of RequestContract for TLC: one good request of each kind, and *)
(* everything that differs from one of them in at most two members.        *)
(***************************************************************************)
EXTENDS RequestContract

Plain == Text(1, 1, "none")
Other == Text(2, 2, "none")
Reading == [origin |-> "platform", path |-> "lease", slashes |-> 0, rest |-> "none"]
Lease == [extra |-> FALSE, constants |-> "ok", token |-> "ok",
          url |-> [e \in Editions |-> Reading],
          expires |-> [readBy |-> Editions, ms |-> Now + 1, rest |-> 0]]

Message == [type |-> "none", role |-> "user", content |-> Plain, id |-> Absent,
            approve |-> FALSE, reason |-> Absent, extra |-> FALSE]
Approval == [Message EXCEPT !.type = "mcp_approval_response", !.role = "none",
                            !.content = Absent, !.id = Plain, !.approve = TRUE]
Second == [Approval EXCEPT !.id = Other]

Ordinary == [profile |-> "stateful-v1", conversation |-> "uuid", extra |-> FALSE,
             constants |-> "ok", previous |-> Plain, input |-> <<Message>>,
             model_access |-> Lease, artifact_access |-> Lease]
Deciding == [Ordinary EXCEPT !.input = <<Approval, Second>>]

AnyText == Texts \cup NoText

Messages ==
  {[Message EXCEPT !.content = t] : t \in AnyText}
    \cup {[Message EXCEPT !.role = "assistant"], [Message EXCEPT !.extra = TRUE]}

Decisions ==
  {[Approval EXCEPT !.id = t] : t \in AnyText}
    \cup {[Approval EXCEPT !.reason = t] : t \in AnyText}
    \cup {[Approval EXCEPT !.approve = FALSE], [Approval EXCEPT !.extra = TRUE]}

Inputs ==
  {<<>>, <<Message, Message>>, <<Message, Approval>>, <<Approval, Second>>}
    \cup {<<m>> : m \in Messages} \cup {<<d>> : d \in Decisions}
    \cup {<<d, Approval>> : d \in Decisions}

\* Readings that differ from the good one in one part
OtherReadings ==
  {[Reading EXCEPT !.rest = x] : x \in {r.rest : r \in Readings}}
    \cup {[Reading EXCEPT !.slashes = x] : x \in 1 .. 2}
    \cup {[Reading EXCEPT !.path = "other"], [Reading EXCEPT !.origin = "other"]}

\* ... for both parsers, or for one of them
OtherUrls ==
  {[e \in Editions |-> r] : r \in OtherReadings}
    \cup {[Lease.url EXCEPT ![e] = r] : e \in Editions,
             r \in {o \in OtherReadings : o.slashes = 0 /\ o.rest \in {"none", "unparsable"}}}

Expiries ==
  {[readBy |-> known, ms |-> Now + 1, rest |-> 0] : known \in SUBSET Editions}
    \cup [readBy : {Editions}, ms : {Now - 1, Now}, rest : 0 .. NowRest + 1]

Leases ==
  {[Lease EXCEPT !.url = u] : u \in OtherUrls}
    \cup {[Lease EXCEPT !.expires = t] : t \in Expiries}
    \cup {[Lease EXCEPT !.extra = TRUE], [Lease EXCEPT !.token = "other"],
          [Lease EXCEPT !.constants = "other"]}

\* Requests that differ from Ordinary in one member
Changed ==
  {[Ordinary EXCEPT !.profile = "other"], [Ordinary EXCEPT !.extra = TRUE],
   [Ordinary EXCEPT !.conversation = "UUID"],
   [Ordinary EXCEPT !.conversation = "other"],
   [Ordinary EXCEPT !.constants = "other"]}
    \cup {[Ordinary EXCEPT !.previous = t] : t \in AnyText}
    \cup {[Ordinary EXCEPT !.input = s] : s \in Inputs}
    \cup {[Ordinary EXCEPT !.model_access = l] : l \in Leases}
    \cup {[Ordinary EXCEPT !.artifact_access = l] : l \in Leases}

\* good, with what differs in a and in b
Mixed(good, a, b) ==
  [m \in DOMAIN good |-> IF a[m] # Ordinary[m] THEN a[m]
                         ELSE IF b[m] # Ordinary[m] THEN b[m] ELSE good[m]]

MCRequests ==
  {Mixed(good, a, b) : good \in {Ordinary, Deciding}, a \in Changed, b \in Changed}
=============================================================================
