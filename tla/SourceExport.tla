---------------------------- MODULE SourceExport ----------------------------
(***************************************************************************)
(* The exact source export of scripts/source-revision.mjs and the commands *)
(* that build from it: scripts/build-image.mjs, scripts/compose-up.mjs and *)
(* `https-kit.mjs setup --start`.                                          *)
(*                                                                         *)
(* A build of a commit takes several git commands, one process each, while *)
(* a developer edits the worktree and moves HEAD, and while other builds   *)
(* run.  Each git, docker and file-system call is an action.  Objects of   *)
(* the repository never change, and neither does the tree of a revision.   *)
(* Ignored files are no part of a worktree here: neither `git status` nor  *)
(* the export sees them; of the rest only whether it differs from HEAD     *)
(* matters.  A blob is a file's content with its mode.                     *)
(***************************************************************************)
EXTENDS Naturals

CONSTANTS
  Revisions,   \* commits
  Exportable,  \* those whose tree holds plain files under plain paths only
  Paths,
  Blobs,
  Tree,        \* the tree of each revision: a function from paths to blobs
  Builders,    \* runs of build-image.mjs
  Composers,   \* runs of compose-up.mjs or of https-kit.mjs setup --start
  Tags,        \* image names
  TagOf,       \* the name each run builds under: runs may share one
  Absent

Trees == UNION {[S -> Blobs] : S \in SUBSET Paths}
Exporters == Builders \cup Composers

ASSUME TreeAssumption ==
  /\ Tree \in [Revisions -> Trees]
  /\ TagOf \in [Exporters -> Tags]
  /\ Builders \cap Composers = {}
  /\ Absent \notin Revisions

VARIABLES
  head,            \* the commit HEAD names
  clean,           \* whether git status has nothing to report
  at,              \* the next step of each run
  failed,          \* whether the run has thrown
  revision,        \* const revision of createExactSourceContext
  todo,            \* entries of the tree that are still to be written
  context,         \* the files of the build context
  temporary,       \* whether the temporary directory exists
  images,          \* what each image name stands for
  running,         \* the image of each run's containers, under its name
  seen             \* history: <<head, clean>> since a run's last write

exportVars == <<head, clean, at, failed, revision, todo, context, temporary,
                images, running, seen>>
repository == <<head, clean>>
docker == <<images, running>>

Steps == {"status", "head", "mkdtemp", "list", "blobs", "rehead", "build",
          "inspect", "up", "clean", "ended", "left", "killed"}
Over == {"ended", "left", "killed"}

Image == [label : Revisions, content : Trees]
NoFiles == [p \in {} |-> Absent]
\* The repository at two instants, as seen by the runs that are exporting
Observed ==
  seen' = [e \in Exporters |->
             IF at[e] \in {"blobs", "rehead"}
             THEN seen[e] \cup {<<head', clean'>>} ELSE seen[e]]

\* A developer edits files, or stashes and restores them
Edit ==
  /\ clean' = ~ clean /\ head' = head
  /\ Observed
  /\ UNCHANGED <<at, failed, revision, todo, context, temporary, docker>>

\* git commit, checkout or reset, with or without edits left over
MoveHead ==
  /\ \E r \in Revisions : r # head /\ head' = r
  /\ clean' \in BOOLEAN
  /\ Observed
  /\ UNCHANGED <<at, failed, revision, todo, context, temporary, docker>>

Proceed(e, step) == at' = [at EXCEPT ![e] = step]

\* A throw: outside the try block the run is over, inside it and in the
\* operation the temporary directory is removed first
ExportThrows(e) ==
  /\ failed' = [failed EXCEPT ![e] = TRUE]
  /\ Proceed(e, IF temporary[e] THEN "clean" ELSE "ended")
  /\ seen' = [seen EXCEPT ![e] = {}]
  /\ UNCHANGED <<repository, revision, todo, context, temporary, docker>>

\* git status of exactCleanSourceRevision
Status(e) ==
  /\ at[e] = "status" /\ clean
  /\ Proceed(e, "head")
  /\ UNCHANGED <<repository, failed, revision, todo, context, temporary,
                 docker, seen>>

\* git rev-parse HEAD of exactCleanSourceRevision
ReadHead(e) ==
  /\ at[e] = "head"
  /\ revision' = [revision EXCEPT ![e] = head]
  /\ Proceed(e, "mkdtemp")
  /\ UNCHANGED <<repository, failed, todo, context, temporary, docker, seen>>

MakeContext(e) ==
  /\ at[e] = "mkdtemp"
  /\ temporary' = [temporary EXCEPT ![e] = TRUE]
  /\ Proceed(e, "list")
  /\ UNCHANGED <<repository, failed, revision, todo, context, docker, seen>>

\* git ls-tree of the revision, and the checks of its entries
ListTree(e) ==
  /\ at[e] = "list" /\ revision[e] \in Exportable
  /\ todo' = [todo EXCEPT ![e] = DOMAIN Tree[revision[e]]]
  /\ seen' = [seen EXCEPT ![e] = {<<head, clean>>}]
  /\ Proceed(e, "blobs")
  /\ UNCHANGED <<repository, failed, revision, context, temporary, docker>>

\* Mutant: the file is copied from the worktree
WriteFile(e) ==
  /\ at[e] = "blobs"
  /\ \E p \in todo[e] :
       /\ todo' = [todo EXCEPT ![e] = @ \ {p}]
       /\ context' = [context EXCEPT ![e] =
            [q \in DOMAIN @ \cup {p} |->
               IF q # p THEN @[q]
               ELSE IF p \in DOMAIN Tree[head] THEN Tree[head][p]
                    ELSE Tree[revision[e]][p]]]
  /\ seen' = [seen EXCEPT ![e] = {<<head, clean>>}]
  /\ UNCHANGED <<repository, at, failed, revision, temporary, docker>>

\* git cat-file of one entry's object, by its hash, into a new file
WriteBlob(e) ==
  /\ at[e] = "blobs"
  /\ \E p \in todo[e] :
       /\ todo' = [todo EXCEPT ![e] = @ \ {p}]
       /\ context' = [context EXCEPT ![e] =
            [q \in DOMAIN @ \cup {p} |->
               IF q = p THEN Tree[revision[e]][p] ELSE @[q]]]
  /\ seen' = [seen EXCEPT ![e] = {<<head, clean>>}]
  /\ UNCHANGED <<repository, at, failed, revision, temporary, docker>>

\* git status again, once every entry is written
Recheck(e) ==
  /\ at[e] = "blobs" /\ todo[e] = {} /\ clean
  /\ Proceed(e, "rehead")
  /\ UNCHANGED <<repository, failed, revision, todo, context, temporary,
                 docker, seen>>

\* git rev-parse HEAD again
RecheckHead(e) ==
  /\ at[e] = "rehead" /\ head = revision[e]
  /\ Proceed(e, "build")
  /\ UNCHANGED <<repository, failed, revision, todo, context, temporary,
                 docker, seen>>

\* docker build, or the build of docker compose up --build: the Dockerfile
\* labels the image with the build argument SAGE_AGENT_SOURCE_REVISION
Build(e) ==
  /\ at[e] = "build"
  /\ images' = [images EXCEPT ![TagOf[e]] =
                  [label |-> revision[e], content |-> context[e]]]
  /\ Proceed(e, IF e \in Builders THEN "inspect" ELSE "up")
  /\ UNCHANGED <<repository, failed, revision, todo, context, temporary,
                 running, seen>>

\* docker image inspect, by name: another build may have taken the name
Inspect(e) ==
  /\ at[e] = "inspect" /\ images[TagOf[e]].label = revision[e]
  /\ Proceed(e, "clean")
  /\ UNCHANGED <<repository, failed, revision, todo, context, temporary,
                 docker, seen>>

\* docker compose up starts the containers from the image of that name
Up(e) ==
  /\ at[e] = "up"
  /\ running' = [running EXCEPT ![TagOf[e]] = images[TagOf[e]]]
  /\ Proceed(e, "clean")
  /\ UNCHANGED <<repository, failed, revision, todo, context, temporary,
                 images, seen>>

\* A tree that is dirty, a HEAD that moved, an entry that is not supported,
\* or an image of another revision
Refuse(e) ==
  /\ \/ at[e] = "status" /\ ~ clean
     \/ at[e] = "list" /\ revision[e] \notin Exportable
     \/ at[e] = "blobs" /\ todo[e] = {} /\ ~ clean
     \/ at[e] = "rehead" /\ head # revision[e]
     \/ at[e] = "inspect" /\ images[TagOf[e]].label # revision[e]
  /\ ExportThrows(e)

\* A git or docker command, or a write, fails
Fail(e) ==
  /\ at[e] \in Steps \ (Over \cup {"clean"})
  /\ ExportThrows(e)

\* rmSync in the catch block of createExactSourceContext or, by cleanup, in
\* the finally block of withExactSourceContext
CleanUp(e) ==
  /\ at[e] = "clean"
  /\ temporary' = [temporary EXCEPT ![e] = FALSE]
  /\ context' = [context EXCEPT ![e] = NoFiles]
  /\ seen' = [seen EXCEPT ![e] = {}]
  /\ Proceed(e, "ended")
  /\ UNCHANGED <<repository, failed, revision, todo, docker>>

\* rmSync throws, with some of the files removed: the run fails, and nothing
\* tries again
CleanUpFails(e) ==
  /\ at[e] = "clean"
  /\ \E left \in SUBSET DOMAIN context[e] :
       context' = [context EXCEPT ![e] = [p \in left |-> @[p]]]
  /\ failed' = [failed EXCEPT ![e] = TRUE]
  /\ seen' = [seen EXCEPT ![e] = {}]
  /\ Proceed(e, "left")
  /\ UNCHANGED <<repository, revision, todo, temporary, docker>>

\* The process is killed: nothing below runs any more
ExportKilled(e) ==
  /\ at[e] \notin Over
  /\ Proceed(e, "killed")
  /\ seen' = [seen EXCEPT ![e] = {}]
  /\ UNCHANGED <<repository, failed, revision, todo, context, temporary,
                 docker>>

ExportInit ==
  /\ head \in Revisions
  /\ clean = TRUE
  /\ at = [e \in Exporters |-> "status"]
  /\ failed = [e \in Exporters |-> FALSE]
  /\ revision = [e \in Exporters |-> Absent]
  /\ todo = [e \in Exporters |-> {}]
  /\ context = [e \in Exporters |-> NoFiles]
  /\ temporary = [e \in Exporters |-> FALSE]
  /\ images = [t \in Tags |-> Absent]
  /\ running = [t \in Tags |-> Absent]
  /\ seen = [e \in Exporters |-> {}]

ExportStep(e) ==
  \/ Status(e) \/ ReadHead(e) \/ MakeContext(e) \/ ListTree(e) \/ WriteBlob(e)
  \/ Recheck(e) \/ RecheckHead(e) \/ Build(e) \/ Inspect(e) \/ Up(e)
  \/ Refuse(e) \/ Fail(e) \/ CleanUp(e) \/ CleanUpFails(e) \/ ExportKilled(e)

ExportNext == Edit \/ MoveHead \/ \E e \in Exporters : ExportStep(e)

ExportSpec == ExportInit /\ [][ExportNext]_exportVars

-----------------------------------------------------------------------------

ExportTypeOK ==
  /\ head \in Revisions
  /\ clean \in BOOLEAN
  /\ at \in [Exporters -> Steps]
  /\ failed \in [Exporters -> BOOLEAN]
  /\ revision \in [Exporters -> Revisions \cup {Absent}]
  /\ todo \in [Exporters -> SUBSET Paths]
  /\ context \in [Exporters -> Trees]
  /\ temporary \in [Exporters -> BOOLEAN]
  /\ images \in [Tags -> Image \cup {Absent}]
  /\ running \in [Tags -> Image \cup {Absent}]
  /\ seen \in [Exporters -> SUBSET (Revisions \X BOOLEAN)]

\* Whatever the developer does meanwhile, and whichever builds share a name,
\* an image holds exactly the tree of the revision its label names
\* (org.opencontainers.image.revision), and so do the containers that run
ImageIsItsLabel ==
  \A t \in Tags : \A image \in {images[t], running[t]} \ {Absent} :
    image.content = Tree[image.label]

\* Where a build has got as far as docker, its revision was HEAD at an instant
\* after the last file had been written, and the worktree was clean at one,
\* which git status and git rev-parse do not show to be the same: a build never
\* starts from a revision that was left while it was being exported
ExportWasCurrent ==
  \A e \in Exporters :
    at[e] \in {"build", "inspect", "up", "clean"} /\ ~ failed[e] =>
      /\ \E s \in seen[e] : s[1] = revision[e]
      /\ \E s \in seen[e] : s[2]

\* What runs under the label of a revision is that revision, and once its export
\* was complete the worktree was found clean, and then the revision to be HEAD
\* still (source-revision.mjs:123)
ImageIsItsRevision == ImageIsItsLabel /\ ExportWasCurrent

\* A run that ends, by success or by any exception, leaves no copy of the
\* source behind (createExactSourceContext's catch, withExactSourceContext's
\* finally), unless the removal itself throws, and then the run has failed; one
\* that is killed may leave any
NothingLeft ==
  \A e \in Exporters :
    /\ at[e] = "ended" => ~ temporary[e] /\ context[e] = NoFiles
    /\ at[e] = "left" => failed[e]
=============================================================================
