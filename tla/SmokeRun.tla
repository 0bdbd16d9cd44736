------------------------------ MODULE SmokeRun ------------------------------
(***************************************************************************)
(* The full smoke, scripts/smoke-containers.mjs: it builds both images,    *)
(* starts five containers on a network of its own, exercises them and, in  *)
(* a finally block, removes what it has noted as created.                  *)
(*                                                                         *)
(* Docker is external: a command may fail without an effect, or after it   *)
(* (`docker run -d` leaves the container it could not start), and removes  *)
(* nothing that is in use.  The process may be killed at any moment.  What *)
(* the checks send to the Agents and read from them is left out: a check   *)
(* passes or throws, at its deadline at the latest.                        *)
(***************************************************************************)
EXTENDS Naturals, Sequences, SequencesExt

Kinds == {"container", "network", "volume", "image"}

-----------------------------------------------------------------------------
(* What main does, step by step.                                           *)

Create(kind, name, uses) == [do |-> "create", kind |-> kind, name |-> name,
                             uses |-> uses]
\* A wait for a port, a file, an endpoint or a log line, and what the script
\* demands of what it got
Check(what) == [do |-> what, kind |-> "none", name |-> "none", uses |-> {}]

Build(image) == <<Create("image", image, {}), Check("revision")>>

Platform ==
  <<Create("container", "provider", {"network", "node:local"}),
    Create("container", "platform-caddy", {"network"}), Check("file")>>

Agent(name, volume, image) ==
  <<Create("volume", volume, {}),
    Create("container", name, {"network", volume, image}), Check("exercise")>>

\* verifyTlsEndpoint is the only check that may never settle.
Tls == <<Create("container", "agent-caddy", {"network"}), Check("file"),
         Check("tls")>>

Main ==
  <<Check("info"), Check("export"), Check("compose")>>
    \o Build("node:local") \o Build("fastapi:local")
    \o <<Create("network", "network", {})>> \o Platform
    \o Agent("node", "node-state", "node:local") \o Tls
    \o Agent("fastapi", "fastapi-state", "fastapi:local")

Created == {s \in ToSet(Main) : s.do = "create"}
Names == {s.name : s \in Created}
StepOf(n) == CHOOSE s \in ToSet(Main) : s.do = "create" /\ s.name = n
Uses(n) == StepOf(n).uses

-----------------------------------------------------------------------------
VARIABLES
  phase,      \* "main", "docker", "files" and "source" of cleanup, then how
              \* it ended: "ended", "killed" or "unsettled"
  step,       \* the step main is at
  resources,  \* the names noted, of each kind, in their order
  there,      \* what there is in docker
  files,      \* the directories there are: "temporary", "source"
  stranded,   \* history: made by a command that failed
  refused     \* history: what could not be removed for a reason of its own

vars == <<phase, step, resources, there, files, stranded, refused>>

InMain == phase = "main" /\ step <= Len(Main)
Advance == step' = step + 1 /\ phase' = "main"
\* A throw leaves main for the finally block.
Throw == phase' = "docker" /\ step' = step

\* docker volume create, network create, build and run: noted when it is done
Make ==
  /\ InMain /\ Main[step].do = "create"
  /\ LET s == Main[step] IN
       /\ there' = there \cup {s.name}
       /\ resources' = [resources EXCEPT ![s.kind] = Append(@, s.name)]
  /\ Advance
  /\ UNCHANGED <<files, stranded, refused>>

\* The command fails, before or after it made something.
MakeFails ==
  /\ InMain /\ Main[step].do = "create"
  /\ \/ UNCHANGED <<there, stranded>>
     \/ /\ there' = there \cup {Main[step].name}
        /\ stranded' = stranded \cup {Main[step].name}
  /\ Throw
  /\ UNCHANGED <<resources, files, refused>>

\* A check passes; the source context appears with its step.
Pass ==
  /\ InMain /\ Main[step].do # "create"
  /\ files' = IF Main[step].do = "export" THEN files \cup {"source"} ELSE files
  /\ Advance
  /\ UNCHANGED <<resources, there, stranded, refused>>

\* A check throws; createExactSourceContext removes what it made itself.
Fail ==
  /\ InMain /\ Main[step].do # "create"
  /\ Throw
  /\ UNCHANGED <<resources, there, files, stranded, refused>>

\* The answer of /readyz breaks off: no promise settles, nothing is left to
\* wait for, and the process exits without its finally block.
Unsettle ==
  /\ InMain /\ Main[step].do = "tls"
  /\ phase' = "unsettled"
  /\ UNCHANGED <<step, resources, there, files, stranded, refused>>

Finish ==
  /\ phase = "main" /\ step = Len(Main) + 1
  /\ phase' = "docker"
  /\ UNCHANGED <<step, resources, there, files, stranded, refused>>

\* Mutant: in the order in which they were created.
FirstFirst == <<"image", "network", "volume", "container">>

RemovalOrder == <<"container", "network", "volume", "image">>

\* What cleanup removes next: the last of the first kind that has any
NextKind == SelectSeq(RemovalOrder, LAMBDA k : resources[k] # <<>>)

\* Docker refuses what is in use; whether a container that never started
\* keeps its network is open.
InUse(n) == {c \in there : n \in Uses(c)}

RemoveNext ==
  /\ phase = "docker" /\ NextKind # <<>>
  /\ LET kind == Head(NextKind)
         n == Last(resources[kind])
     IN /\ resources' = [resources EXCEPT ![kind] = Front(@)]
        /\ \/ /\ InUse(n) = {} \/ (kind = "network" /\ InUse(n) \subseteq stranded)
              /\ there' = there \ {n}
              /\ UNCHANGED refused
           \/ /\ InUse(n) # {}
              /\ UNCHANGED <<there, refused>>
           \/ \* for a reason of its own; allowFailure, so nothing throws
              /\ n \in there
              /\ refused' = refused \cup {n}
              /\ UNCHANGED there
  /\ UNCHANGED <<phase, step, files, stranded>>

AllRemoved ==
  /\ phase = "docker" /\ NextKind = <<>>
  /\ phase' = "files"
  /\ UNCHANGED <<step, resources, there, files, stranded, refused>>

\* rmSync; where it throws, nothing behind it happens.
RemoveFiles ==
  /\ phase = "files"
  /\ \/ files' = files \ {"temporary"} /\ phase' = "source" /\ UNCHANGED refused
     \/ refused' = refused \cup {"temporary"} /\ phase' = "ended"
        /\ UNCHANGED files
  /\ UNCHANGED <<step, resources, there, stranded>>

RemoveSource ==
  /\ phase = "source" /\ phase' = "ended"
  /\ \/ files' = files \ {"source"} /\ UNCHANGED refused
     \/ files' = files /\ refused' = refused \cup {"source"}
  /\ UNCHANGED <<step, resources, there, stranded>>

\* No handler of a signal
Kill ==
  /\ phase \notin {"ended", "killed", "unsettled"}
  /\ phase' = "killed"
  /\ UNCHANGED <<step, resources, there, files, stranded, refused>>

Init ==
  /\ phase = "main" /\ step = 1
  /\ resources = [k \in Kinds |-> <<>>]
  /\ there = {} /\ files = {"temporary"}
  /\ stranded = {} /\ refused = {}

Run ==
  \/ Make \/ MakeFails \/ Pass \/ Fail \/ Unsettle \/ Finish
  \/ RemoveNext \/ AllRemoved \/ RemoveFiles \/ RemoveSource

Next == Run \/ Kill

Spec == Init /\ [][Next]_vars

TypeOK ==
  /\ phase \in {"main", "docker", "files", "source", "ended", "killed",
                "unsettled"}
  /\ step \in 1 .. Len(Main) + 1
  /\ \A k \in Kinds :
       \A i \in DOMAIN resources[k] : StepOf(resources[k][i]).kind = k
  /\ there \subseteq Names /\ stranded \subseteq Names
  /\ files \subseteq {"temporary", "source"}
  /\ refused \subseteq Names \cup {"temporary", "source"}

\* What a run that got through its cleanup leaves in docker is what a failed
\* command made, what docker would not remove, or what one of these uses.
LeftIsStranded ==
  phase = "ended" =>
    LET causes == stranded \cup refused IN
    \A n \in there : n \in causes \/ InUse(n) \cap causes # {}

\* A directory is left only where it, or the one before it, could not be
\* removed.
FilesAreRemoved ==
  phase = "ended" => (files = {} \/ refused \cap {"temporary", "source"} # {})

\* A smoke that gets to its finally block leaves nothing that it could have
\* removed (cleanup): not in docker, nor in the temporary directory.
CleanedUp == LeftIsStranded /\ FilesAreRemoved
=============================================================================
