------------------------------ MODULE HttpsKit ------------------------------
(***************************************************************************)
(* The private HTTPS kit, scripts/https-kit.mjs: setup, export and doctor  *)
(* as processes over one config file, one trust bundle and the data        *)
(* directories, next to the Caddy container of compose.yaml and to an      *)
(* operator who may lose a data directory or put one of his own in place.  *)
(*                                                                         *)
(* Every call that changes a file, and every one that reads what another   *)
(* process may change before it is used, is an action; a process may be    *)
(* killed before any of them.  Base stands for the Base URL together with  *)
(* the profile, which are checked and stored alike.  Symbolic links, modes *)
(* and owners are left out: the checks of them change nothing.             *)
(***************************************************************************)
EXTENDS Naturals, FiniteSets

CONSTANTS
  Processes,
  Bases,       \* Base URLs, with the profile of the application
  Dirs,        \* data directories
  CAs,         \* private certificate authorities that Caddy may create
  None,
  MaxCommands, \* bound: commands that are run
  MaxEvents    \* bound: what the operator does to directories and config

VARIABLES
  entries,   \* what each data directory holds, None where there is none
  ca, key,   \* root.crt and root.key below each data directory
  config,    \* .env.https
  trust,     \* sage-agent-trust.json
  caddy,     \* the container: its site, its mount, and the CA in its memory
  pc, args,  \* the next step of each process, and its options
  read,      \* what a process has read of the config, the CA and the bundle
  commands, events,
  operators, \* history: directories that are the operator's own
  foreign,   \* history: those that were as each process began
  raced,     \* history: those made while a set-up was about to make them
  touched,   \* history: directories each process has written into
  made,      \* history: which CA was created where
  written,   \* history: every config that was written
  lost,      \* history: directories that were ever lost
  lately,    \* history: those lost since each process began
  broken     \* history: directories whose making was broken off

vars == <<entries, ca, key, config, trust, caddy, pc, args, read, commands,
          events, operators, foreign, raced, touched, made, written, lost,
          lately, broken>>
files == <<entries, ca, key, config, trust>>
history == <<operators, foreign, raced, touched, made, written, lost, lately,
             broken>>
bounds == <<commands, events>>

Layout == {"caddy-data", "caddy-config", "marker"}
\* What a directory's listing may show: what set-up makes, and anything else
Listings == SUBSET (Layout \cup {"other"})
Setups == [base : Bases, dir : Dirs]
Options == [base : Bases, dir : Dirs, start : BOOLEAN]
Bundles == [base : Bases, ca : CAs]
Nothing == [config |-> None, ca |-> None, trust |-> None]
\* No CA's key, and nothing that reads as a listing, is mistaken for absence
ASSUME NoneAssumption ==
  None \notin CAs /\ \A listing \in Listings : None # listing

Ended == {"idle", "passed", "drained", "failed", "killed"}
Making == {"mkdata", "mkconfig", "mark"}

\* readdirSync in assertDedicatedDataDirectory, and the marker's content
Dedicated(d) == entries[d] = Layout

Goto(p, step) == pc' = [pc EXCEPT ![p] = step]

\* The directory a process is making, if any
HalfMade(p) == {d \in Dirs : pc[p] \in Making /\ args[p].dir = d}

\* A process ends where it is: what it has done stays
BreakOff(p, how) ==
  /\ Goto(p, how)
  /\ broken' = broken \cup HalfMade(p)
  /\ UNCHANGED <<files, caddy, args, read, bounds, operators, foreign, raced,
                 touched, made, written, lost, lately>>

\* A read that changes nothing but what the process knows
Knows(p, field, value) == read' = [read EXCEPT ![p][field] = value]

-----------------------------------------------------------------------------
(* setup *)

\* A command begins: setup after the checks of its options, with options o
Begin(p, o, step) ==
  /\ pc[p] \in Ended /\ commands < MaxCommands
  /\ args' = [args EXCEPT ![p] = o]
  /\ read' = [read EXCEPT ![p] = Nothing]
  /\ foreign' = [foreign EXCEPT ![p] = operators]
  /\ touched' = [touched EXCEPT ![p] = {}]
  /\ lately' = [lately EXCEPT ![p] = {}]
  /\ commands' = commands + 1
  /\ Goto(p, step)
  /\ UNCHANGED <<files, caddy, events, operators, raced, made, written, lost,
                 broken>>

Setup(p) == \E o \in Options : Begin(p, o, "compare")

\* assertExistingGeneratedConfig
Compare(p) ==
  /\ pc[p] = "compare"
  /\ config = None \/ config = [base |-> args[p].base, dir |-> args[p].dir]
  /\ Goto(p, "prepare")
  /\ UNCHANGED <<files, caddy, args, read, bounds, history>>

\* Mutant: any directory that exists is taken as the kit's own
PrepareAny(p) ==
  /\ pc[p] = "prepare"
  /\ Goto(p, IF entries[args[p].dir] = None THEN "mkdir" ELSE "chmod")
  /\ UNCHANGED <<files, caddy, args, read, bounds, history>>

\* existsSync of prepareDataDirectory, and assertDedicatedDataDirectory
Prepare(p) ==
  /\ pc[p] = "prepare"
  /\ \/ entries[args[p].dir] = None /\ Goto(p, "mkdir")
     \/ Dedicated(args[p].dir) /\ Goto(p, "chmod")
  /\ UNCHANGED <<files, caddy, args, read, bounds, history>>

\* mkdirSync with recursive: a directory that has come into being is no error
MakeDir(p) ==
  LET d == args[p].dir IN
  /\ pc[p] = "mkdir"
  /\ entries' = [entries EXCEPT ![d] = IF @ = None THEN {} ELSE @]
  /\ Goto(p, "mkdata")
  /\ UNCHANGED <<ca, key, config, trust, caddy, args, read, bounds, history>>

\* A write into the directory, which has to be there
Into(p, step, child, next) ==
  LET d == args[p].dir IN
  /\ pc[p] = step /\ entries[d] # None
  /\ entries' = [entries EXCEPT ![d] = @ \cup {child}]
  /\ touched' = [touched EXCEPT ![p] = @ \cup {d}]
  /\ Goto(p, next)
  /\ UNCHANGED <<ca, key, config, trust, caddy, args, read, bounds, operators,
                 foreign, raced, made, written, lost, lately, broken>>

\* mkdirSync without recursive: fails where the child exists
NewChild(p, step, child, next) ==
  /\ pc[p] = step /\ entries[args[p].dir] # None
  /\ child \notin entries[args[p].dir]
  /\ Into(p, step, child, next)

MakeData(p) == NewChild(p, "mkdata", "caddy-data", "mkconfig")

MakeConfig(p) == NewChild(p, "mkconfig", "caddy-config", "mark")

\* writeFileSync of the marker, over an existing one too
Mark(p) == Into(p, "mark", "marker", "chmod")

\* chmodSync and chownSync of the directory, its children and the marker: the
\* first that is not there throws
Chmod(p) ==
  LET d == args[p].dir IN
  /\ pc[p] = "chmod" /\ entries[d] # None
  /\ touched' = [touched EXCEPT ![p] = @ \cup {d}]
  /\ Goto(p, IF Layout \subseteq entries[d] THEN "write" ELSE "failed")
  /\ UNCHANGED <<files, caddy, args, read, bounds, operators, foreign, raced,
                 made, written, lost, lately, broken>>

\* atomicWriteFile of the config
WriteConfig(p) ==
  LET c == [base |-> args[p].base, dir |-> args[p].dir] IN
  /\ pc[p] = "write"
  /\ config' = c /\ written' = written \cup {c}
  /\ Goto(p, IF args[p].start THEN "up" ELSE "passed")
  /\ UNCHANGED <<entries, ca, key, trust, caddy, args, read, bounds, operators,
                 foreign, raced, touched, made, lost, lately, broken>>

\* docker compose up, with the site from the config file as it is now and the
\* mount from the options.  docker makes the directories of a mount that has
\* none, and keeps a container whose configuration is what it was.
ComposeUp(p) ==
  LET d == args[p].dir IN
  /\ pc[p] = "up" /\ config # None
  /\ entries' = [entries EXCEPT ![d] =
                   IF @ = None THEN Layout \ {"marker"} ELSE @]
  /\ caddy' = IF caddy # None /\ caddy.base = config.base /\ caddy.dir = d
              THEN caddy
              ELSE [base |-> config.base, dir |-> d, mounted |-> TRUE,
                    ca |-> None]
  /\ Goto(p, "wait")
  /\ UNCHANGED <<ca, key, config, trust, args, read, bounds, history>>

\* root.crt has appeared
CaAppears(p) ==
  /\ pc[p] = "wait" /\ ca[args[p].dir] # None
  /\ Goto(p, "parse")
  /\ UNCHANGED <<files, caddy, args, read, bounds, history>>

\* 60 seconds have passed
Deadline(p) ==
  /\ pc[p] = "wait" /\ ca[args[p].dir] = None
  /\ BreakOff(p, "failed")

-----------------------------------------------------------------------------
(* export, by itself or at the end of setup --start *)

Export(p) == Begin(p, None, "parse")

\* parseConfig, in exportTrust or in doctor
ParseConfig(p, step, next) ==
  /\ pc[p] = step /\ config # None
  /\ Knows(p, "config", config)
  /\ Goto(p, next)
  /\ UNCHANGED <<files, caddy, args, bounds, history>>

\* Mutant: the directory of the config is not looked at
MaterialUnseen(p, step, next) ==
  /\ pc[p] = step
  /\ Goto(p, next)
  /\ UNCHANGED <<files, caddy, args, read, bounds, history>>

\* assertPrivateMaterialPermissions
PrivateMaterial(p, step, next) ==
  /\ pc[p] = step
  /\ Dedicated(read[p].config.dir) /\ key[read[p].config.dir] # None
  /\ Goto(p, next)
  /\ UNCHANGED <<files, caddy, args, read, bounds, history>>

\* readFileSync of root.crt, and validatePublicCa
ReadCa(p) ==
  /\ pc[p] = "readca" /\ ca[read[p].config.dir] # None
  /\ Knows(p, "ca", ca[read[p].config.dir])
  /\ Goto(p, "target")
  /\ UNCHANGED <<files, caddy, args, bounds, history>>

\* assertSafeTrustOutput: a bundle that is there has the same Base URL
Target(p) ==
  /\ pc[p] = "target" /\ (trust # None => trust.base = read[p].config.base)
  /\ Goto(p, "bundle")
  /\ UNCHANGED <<files, caddy, args, read, bounds, history>>

\* Mutant: the Base URL is the one of the options, where there are any
WriteTrustOfOptions(p) ==
  /\ pc[p] = "bundle"
  /\ trust' = [base |-> IF args[p] # None THEN args[p].base
                        ELSE read[p].config.base,
               ca |-> read[p].ca]
  /\ Goto(p, "passed")
  /\ UNCHANGED <<entries, ca, key, config, caddy, args, read, bounds, history>>

\* atomicWriteFile of the bundle made by buildTrustBundle
WriteTrust(p) ==
  /\ pc[p] = "bundle"
  /\ trust' = [base |-> read[p].config.base, ca |-> read[p].ca]
  /\ Goto(p, "passed")
  /\ UNCHANGED <<entries, ca, key, config, caddy, args, read, bounds, history>>

-----------------------------------------------------------------------------
(* doctor *)

Doctor(p) == Begin(p, None, "dparse")

\* readFileSync of the bundle, and validateTrustBundle
ReadTrust(p) ==
  /\ pc[p] = "dtrust" /\ trust # None /\ trust.base = read[p].config.base
  /\ Knows(p, "trust", trust)
  /\ Goto(p, "resolve")
  /\ UNCHANGED <<files, caddy, args, bounds, history>>

\* assertPublicEndpointResolution: what the name resolves to is not modelled
Resolves(p) ==
  /\ pc[p] = "resolve"
  /\ Goto(p, "tls")
  /\ UNCHANGED <<files, caddy, args, read, bounds, history>>

\* A TLS handshake that the CA of the bundle verifies
Verified(bundle) ==
  caddy # None /\ caddy.ca = bundle.ca /\ caddy.base = bundle.base

\* verifyTlsEndpoint: the response ends, with status 204
Answers204(p) ==
  /\ pc[p] = "tls" /\ Verified(read[p].trust)
  /\ Goto(p, "passed")
  /\ UNCHANGED <<files, caddy, args, read, bounds, history>>

\* verifyTlsEndpoint: the connection ends within the body of a response.
\* The response emits no end and the request no error, nothing is left to
\* wait for, and the process ends with its promise pending and exit code 0.
Drain(p) ==
  /\ pc[p] = "tls" /\ Verified(read[p].trust)
  /\ Goto(p, "drained")
  /\ UNCHANGED <<files, caddy, args, read, bounds, history>>

-----------------------------------------------------------------------------

\* requireCondition fails, or a file, docker or network operation does
Throw(p) ==
  /\ pc[p] \notin Ended \cup {"wait"}
  /\ BreakOff(p, "failed")

Kill(p) == pc[p] \notin Ended /\ BreakOff(p, "killed")

\* Caddy makes its CA, certificate first
CreateCa ==
  /\ caddy # None /\ caddy.mounted /\ caddy.ca = None /\ ca[caddy.dir] = None
  /\ \E k \in CAs : /\ \A m \in made : m[1] # k
                    /\ ca' = [ca EXCEPT ![caddy.dir] = k]
                    /\ made' = made \cup {<<k, caddy.dir>>}
  /\ UNCHANGED <<entries, key, config, trust, caddy, pc, args, read, bounds,
                 operators, foreign, raced, touched, written, lost, lately,
                 broken>>

\* Caddy stores the key of its CA, or loads both, and serves
Serve ==
  /\ caddy # None /\ caddy.mounted /\ caddy.ca = None /\ ca[caddy.dir] # None
  /\ key' = [key EXCEPT ![caddy.dir] = ca[caddy.dir]]
  /\ caddy' = [caddy EXCEPT !.ca = ca[caddy.dir]]
  /\ UNCHANGED <<entries, ca, config, trust, pc, args, read, bounds, history>>

\* The container restarts, with what is now at its mount's path
RestartCaddy ==
  /\ caddy # None /\ entries[caddy.dir] # None
  /\ caddy.ca # None \/ ~ caddy.mounted
  /\ caddy' = [caddy EXCEPT !.ca = None, !.mounted = TRUE]
  /\ UNCHANGED <<files, pc, args, read, bounds, history>>

\* The operator removes a directory, with its CA: the container keeps the
\* CA in its memory and a mount of what is gone
LoseDir(d) ==
  /\ events < MaxEvents /\ events' = events + 1
  /\ entries[d] # None
  /\ entries' = [entries EXCEPT ![d] = None]
  /\ ca' = [ca EXCEPT ![d] = None] /\ key' = [key EXCEPT ![d] = None]
  /\ caddy' = IF caddy # None /\ caddy.dir = d
              THEN [caddy EXCEPT !.mounted = FALSE] ELSE caddy
  /\ operators' = operators \ {d}
  /\ lost' = lost \cup {d}
  /\ lately' = [p \in Processes |-> lately[p] \cup {d}]
  /\ UNCHANGED <<config, trust, pc, args, read, commands, foreign, raced,
                 touched, made, written, broken>>

\* The operator makes a directory of his own, empty or not
Occupy(d) ==
  /\ events < MaxEvents /\ events' = events + 1
  /\ entries[d] = None
  /\ entries' \in {[entries EXCEPT ![d] = e] : e \in {{}, {"other"}}}
  /\ operators' = operators \cup {d}
  /\ raced' = IF \E p \in Processes : /\ pc[p] \in Making \cup {"mkdir"}
                                      /\ args[p].dir = d
              THEN raced \cup {d} ELSE raced
  /\ UNCHANGED <<ca, key, config, trust, caddy, pc, args, read, commands,
                 foreign, touched, made, written, lost, lately, broken>>

\* The operator discards the config, to set up another endpoint
Discard ==
  /\ events < MaxEvents /\ events' = events + 1
  /\ config # None /\ config' = None
  /\ UNCHANGED <<entries, ca, key, trust, caddy, pc, args, read, commands,
                 history>>

Init ==
  /\ entries \in [Dirs -> {None}]
  /\ ca = [d \in Dirs |-> None] /\ key = [d \in Dirs |-> None]
  /\ config = None /\ trust = None /\ caddy = None
  /\ pc = [p \in Processes |-> "idle"]
  /\ args = [p \in Processes |-> None]
  /\ read = [p \in Processes |-> Nothing]
  /\ commands = 0 /\ events = 0
  /\ operators = {} /\ raced = {} /\ made = {} /\ written = {}
  /\ lost = {} /\ broken = {}
  /\ foreign = [p \in Processes |-> {}] /\ touched = [p \in Processes |-> {}]
  /\ lately = [p \in Processes |-> {}]

Command(p) == Setup(p) \/ Export(p) \/ Doctor(p)

\* What a process does by itself once it has begun
Step(p) ==
  \/ Compare(p) \/ Prepare(p) \/ MakeDir(p) \/ MakeData(p) \/ MakeConfig(p)
  \/ Mark(p) \/ Chmod(p) \/ WriteConfig(p) \/ ComposeUp(p) \/ CaAppears(p)
  \/ Deadline(p)
  \/ ParseConfig(p, "parse", "private")
  \/ PrivateMaterial(p, "private", "readca")
  \/ ReadCa(p) \/ Target(p) \/ WriteTrust(p)
  \/ ParseConfig(p, "dparse", "dprivate")
  \/ PrivateMaterial(p, "dprivate", "dtrust")
  \/ ReadTrust(p) \/ Resolves(p) \/ Answers204(p) \/ Drain(p) \/ Throw(p)

Next ==
  \/ \E p \in Processes : Command(p) \/ Step(p) \/ Kill(p)
  \/ CreateCa \/ Serve \/ RestartCaddy
  \/ \E d \in Dirs : LoseDir(d) \/ Occupy(d)
  \/ Discard

Spec == Init /\ [][Next]_vars

-----------------------------------------------------------------------------

TypeOK ==
  /\ entries \in [Dirs -> Listings \cup {None}]
  /\ ca \in [Dirs -> CAs \cup {None}] /\ key \in [Dirs -> CAs \cup {None}]
  /\ config \in Setups \cup {None} /\ trust \in Bundles \cup {None}
  /\ caddy \in [base : Bases, dir : Dirs, mounted : BOOLEAN,
                ca : CAs \cup {None}] \cup {None}
  /\ args \in [Processes -> Options \cup {None}]
  /\ read \in [Processes -> [config : Setups \cup {None}, ca : CAs \cup {None},
                             trust : Bundles \cup {None}]]
  /\ DOMAIN pc = Processes /\ commands \in Nat /\ events \in Nat

\* A marker is the last thing prepareDataDirectory writes: a directory that
\* has one has both children, whoever else was making it and wherever any of
\* them stopped, unless the operator has taken the directory away meanwhile
MarkedIsComplete ==
  \A d \in Dirs \ lost :
    entries[d] # None /\ "marker" \in entries[d] => Layout \subseteq entries[d]

\* There is a config only where the directory it names has been made
\* completely and is still there, unless the operator has lost it: a set-up
\* that is broken off leaves no config that promises too much
ConfigIsReady ==
  config # None /\ config.dir \notin lost =>
    entries[config.dir] # None /\ Layout \subseteq entries[config.dir]

\* A directory that was the operator's own when a command began is never
\* written into by it (docs/en-US/private-https.md, "it never repurposes or
\* chmods them"), but for one he made while a set-up that had found nothing
\* there was making it too
ForeignUntouched ==
  \A p \in Processes : touched[p] \cap foreign[p] \subseteq lately[p] \cup raced

\* A directory the kit has begun and will refuse from now on is one whose
\* making was broken off, or is going on
OnlyInterruptionsStrand ==
  \A d \in Dirs \ (lost \cup operators \cup broken) :
    entries[d] \notin {None, Layout} => \E p \in Processes : d \in HalfMade(p)

\* However set-ups overlap and wherever they stop, what is on disk never
\* promises more than was done, and is never somebody else's
DirectoriesAreSafe ==
  /\ TypeOK
  /\ MarkedIsComplete /\ ConfigIsReady
  /\ ForeignUntouched /\ OnlyInterruptionsStrand

\* The Base URL and the CA of the bundle belong to one set-up: the CA was
\* made in the directory of a config that had this Base URL
TrustIsOfOneSetup ==
  trust # None =>
    \E c \in written : c.base = trust.base /\ <<trust.ca, c.dir>> \in made

\* A doctor that passes has proved the CA that is kept in the directory of
\* the config, although the container answers from its memory: unless that
\* directory was lost while the doctor ran, or the container was started for
\* another one
DoctorProves ==
  [][\A p \in Processes :
       pc[p] = "tls" /\ pc'[p] = "passed" =>
         LET d == read[p].config.dir IN
           d = caddy.dir /\ d \notin lately[p] => read[p].trust.ca = ca[d]]_vars

=============================================================================
