--------------------------- MODULE ScriptsProofs ---------------------------
(***************************************************************************)
(* Proofs about the scripts: SourceExport, for any number of revisions,    *)
(* files, runs and image names, and HttpsKit, for any number of processes, *)
(* base URLs, directories, authorities, commands and events of the host.   *)
(***************************************************************************)
EXTENDS SourceExport, HttpsKit, TLAPS

\* What is known of a run by the step it is at
RunInv(e) ==
  /\ at[e] \in {"mkdtemp", "list", "blobs", "rehead", "build", "inspect", "up"}
       => revision[e] \in Revisions
  /\ at[e] \in {"blobs", "rehead", "build", "inspect", "up"}
       => /\ todo[e] \subseteq DOMAIN Tree[revision[e]]
          /\ DOMAIN context[e] = DOMAIN Tree[revision[e]] \ todo[e]
          /\ \A p \in DOMAIN context[e] :
               context[e][p] = Tree[revision[e]][p]
  /\ at[e] \in {"rehead", "build", "inspect", "up"} => todo[e] = {}
  /\ at[e] \in {"status", "head", "mkdtemp", "ended"} => ~ temporary[e]
  /\ at[e] \in {"status", "head", "mkdtemp", "list", "ended"}
       => context[e] = NoFiles
  /\ at[e] \in {"list", "blobs", "rehead", "build", "inspect", "up"}
       => temporary[e]
  /\ ~ temporary[e] => context[e] = NoFiles
  /\ at[e] = "left" => failed[e]

\* What has been seen of the repository since the export was onDisk
SeenInv(e) ==
  /\ at[e] \in {"blobs", "rehead"} => <<head, clean>> \in seen[e]
  /\ at[e] = "rehead" => \E s \in seen[e] : s[2]
  /\ at[e] \in {"build", "inspect", "up", "clean"} /\ ~ failed[e] =>
       /\ \E s \in seen[e] : s[1] = revision[e]
       /\ \E s \in seen[e] : s[2]

ExportInv ==
  /\ ExportTypeOK
  /\ \A e \in Exporters : RunInv(e) /\ SeenInv(e)
  /\ ImageIsItsLabel

\* A tree is a function from some paths to blobs.
LEMMA TreesAreFunctions ==
  ASSUME NEW t
  PROVE  t \in Trees <=> /\ t = [p \in DOMAIN t |-> t[p]]
                        /\ DOMAIN t \subseteq Paths
                        /\ \A p \in DOMAIN t : t[p] \in Blobs
BY DEF Trees

LEMMA NoFilesIsATree == NoFiles \in Trees /\ DOMAIN NoFiles = {}
<1>1. NoFiles = [p \in DOMAIN NoFiles |-> NoFiles[p]] /\ DOMAIN NoFiles = {}
  BY DEF NoFiles
<1> QED BY <1>1, TreesAreFunctions

\* A context that holds every file of a tree, and nothing else, is that tree.
LEMMA WrittenOut ==
  ASSUME NEW s \in Trees, NEW t \in Trees, DOMAIN s = DOMAIN t,
         \A p \in DOMAIN s : s[p] = t[p]
  PROVE  s = t
<1>1. /\ s = [p \in DOMAIN s |-> s[p]]
      /\ t = [p \in DOMAIN t |-> t[p]]
  BY TreesAreFunctions
<1> HIDE DEF Trees
<1>2. [p \in DOMAIN s |-> s[p]] = [p \in DOMAIN t |-> t[p]]
  BY Zenon
<1> QED BY <1>1, <1>2

\* A step of one run leaves what is known of the others.
LEMMA Untouched ==
  ASSUME NEW f \in Exporters, RunInv(f), SeenInv(f),
         at'[f] = at[f], failed'[f] = failed[f], revision'[f] = revision[f],
         todo'[f] = todo[f], context'[f] = context[f],
         temporary'[f] = temporary[f], seen'[f] = seen[f],
         UNCHANGED repository
  PROVE  RunInv(f)' /\ SeenInv(f)'
BY DEF RunInv, SeenInv, repository

LEMMA InitInv == ExportInit => ExportInv
<1> SUFFICES ASSUME ExportInit PROVE ExportInv
  OBVIOUS
<1>1. ExportTypeOK
  BY NoFilesIsATree, TreeAssumption DEF ExportInit, ExportTypeOK, Steps
<1>2. ASSUME NEW e \in Exporters PROVE RunInv(e) /\ SeenInv(e)
  BY DEF ExportInit, RunInv, SeenInv
<1>3. ImageIsItsLabel
  BY DEF ExportInit, ImageIsItsLabel
<1> QED BY <1>1, <1>2, <1>3 DEF ExportInv

\* Only the developer moves the repository, and every run sees it.
LEMMA DeveloperInv == ExportInv /\ (Edit \/ MoveHead) => ExportInv'
<1> SUFFICES ASSUME ExportInv, Edit \/ MoveHead PROVE ExportInv'
  OBVIOUS
<1>1. /\ UNCHANGED <<at, failed, revision, todo, context, temporary, docker>>
      /\ head' \in Revisions /\ clean' \in BOOLEAN
      /\ Observed
  BY DEF Edit, MoveHead, ExportInv, ExportTypeOK
<1>2. ExportTypeOK'
  <2>1. seen' \in [Exporters -> SUBSET (Revisions \X BOOLEAN)]
    BY <1>1 DEF ExportInv, ExportTypeOK, Observed
  <2> QED BY <1>1, <2>1 DEF ExportInv, ExportTypeOK, docker
<1>3. ASSUME NEW e \in Exporters PROVE RunInv(e)' /\ SeenInv(e)'
  <2>1. RunInv(e) /\ SeenInv(e)
    BY DEF ExportInv
  <2>2. RunInv(e)'
    BY <1>1, <2>1 DEF RunInv
  <2>3. seen'[e] = IF at[e] \in {"blobs", "rehead"}
                   THEN seen[e] \cup {<<head', clean'>>} ELSE seen[e]
    BY <1>1 DEF Observed
  <2>4. SeenInv(e)'
    BY <1>1, <2>1, <2>3 DEF SeenInv
  <2> QED BY <2>2, <2>4
<1>4. ImageIsItsLabel'
  BY <1>1 DEF ExportInv, ImageIsItsLabel, docker
<1> QED BY <1>2, <1>3, <1>4 DEF ExportInv

\* The repository was clean: the run goes on to read HEAD.
LEMMA StatusInv ==
  ASSUME ExportInv, NEW e \in Exporters, Status(e)
  PROVE  ExportInv'
<1>1. RunInv(e) /\ SeenInv(e) /\ ExportTypeOK /\ ImageIsItsLabel
  BY DEF ExportInv
<1>2. ExportTypeOK'
  BY <1>1 DEF Status, Proceed, ExportThrows, ExportTypeOK, Steps, repository, docker
<1>3. RunInv(e)' /\ SeenInv(e)'
  BY <1>1 DEF Status, Proceed, ExportThrows, RunInv, SeenInv, ExportTypeOK, repository, docker
<1>4. ASSUME NEW f \in Exporters, f # e PROVE RunInv(f)' /\ SeenInv(f)'
  BY <1>1, <1>4, Untouched
     DEF ExportInv, Status, Proceed, ExportThrows, ExportTypeOK, docker, repository
<1>5. ImageIsItsLabel'
  BY <1>1 DEF Status, ExportThrows, ImageIsItsLabel, docker
<1> QED BY <1>2, <1>3, <1>4, <1>5 DEF ExportInv

\* The run has a revision.
LEMMA ReadHeadInv ==
  ASSUME ExportInv, NEW e \in Exporters, ReadHead(e)
  PROVE  ExportInv'
<1>1. RunInv(e) /\ SeenInv(e) /\ ExportTypeOK /\ ImageIsItsLabel
  BY DEF ExportInv
<1>2. ExportTypeOK'
  BY <1>1 DEF ReadHead, Proceed, ExportThrows, ExportTypeOK, Steps, repository, docker
<1>3. RunInv(e)' /\ SeenInv(e)'
  BY <1>1 DEF ReadHead, Proceed, ExportThrows, RunInv, SeenInv, ExportTypeOK, repository, docker
<1>4. ASSUME NEW f \in Exporters, f # e PROVE RunInv(f)' /\ SeenInv(f)'
  BY <1>1, <1>4, Untouched
     DEF ExportInv, ReadHead, Proceed, ExportThrows, ExportTypeOK, docker, repository
<1>5. ImageIsItsLabel'
  BY <1>1 DEF ReadHead, ExportThrows, ImageIsItsLabel, docker
<1> QED BY <1>2, <1>3, <1>4, <1>5 DEF ExportInv

\* The run has an empty context.
LEMMA MakeContextInv ==
  ASSUME ExportInv, NEW e \in Exporters, MakeContext(e)
  PROVE  ExportInv'
<1>1. RunInv(e) /\ SeenInv(e) /\ ExportTypeOK /\ ImageIsItsLabel
  BY DEF ExportInv
<1>2. ExportTypeOK'
  BY <1>1 DEF MakeContext, Proceed, ExportThrows, ExportTypeOK, Steps, repository, docker
<1>3. RunInv(e)' /\ SeenInv(e)'
  BY <1>1 DEF MakeContext, Proceed, ExportThrows, RunInv, SeenInv, ExportTypeOK, repository,
              docker
<1>4. ASSUME NEW f \in Exporters, f # e PROVE RunInv(f)' /\ SeenInv(f)'
  BY <1>1, <1>4, Untouched
     DEF ExportInv, MakeContext, Proceed, ExportThrows, ExportTypeOK, docker, repository
<1>5. ImageIsItsLabel'
  BY <1>1 DEF MakeContext, ExportThrows, ImageIsItsLabel, docker
<1> QED BY <1>2, <1>3, <1>4, <1>5 DEF ExportInv

\* The entries to write are those of the tree; the repository is seen.
LEMMA ListTreeInv ==
  ASSUME ExportInv, NEW e \in Exporters, ListTree(e)
  PROVE  ExportInv'
<1>1. RunInv(e) /\ SeenInv(e) /\ ExportTypeOK /\ ImageIsItsLabel
  BY DEF ExportInv
<1>2. ExportTypeOK'
  <2>1. Tree[revision[e]] \in Trees
    BY <1>1, TreeAssumption DEF ListTree, RunInv
  <2>2. DOMAIN Tree[revision[e]] \subseteq Paths
    BY <2>1, TreesAreFunctions
  <2> QED BY <1>1, <2>2 DEF ListTree, Proceed, ExportTypeOK, Steps, repository, docker
<1>3. RunInv(e)' /\ SeenInv(e)'
  <2>1. context[e] = NoFiles /\ DOMAIN NoFiles = {}
    BY <1>1, NoFilesIsATree DEF ListTree, RunInv
  <2>2. /\ at'[e] = "blobs" /\ todo'[e] = DOMAIN Tree[revision[e]]
        /\ seen'[e] = {<<head, clean>>}
        /\ revision' = revision /\ context' = context
        /\ temporary' = temporary /\ failed' = failed
        /\ head' = head /\ clean' = clean
    BY <1>1 DEF ListTree, Proceed, ExportTypeOK, repository
  <2>3. revision[e] \in Revisions /\ temporary[e]
    BY <1>1 DEF RunInv, ListTree
  <2> HIDE DEF NoFiles
  <2>4. RunInv(e)'
    BY <2>1, <2>2, <2>3 DEF RunInv
  <2>5. SeenInv(e)'
    BY <2>2 DEF SeenInv
  <2> QED BY <2>4, <2>5
<1>4. ASSUME NEW f \in Exporters, f # e PROVE RunInv(f)' /\ SeenInv(f)'
  BY <1>1, <1>4, Untouched
     DEF ExportInv, ListTree, Proceed, ExportThrows, ExportTypeOK, docker, repository
<1>5. ImageIsItsLabel'
  BY <1>1 DEF ListTree, ExportThrows, ImageIsItsLabel, docker
<1> QED BY <1>2, <1>3, <1>4, <1>5 DEF ExportInv

\* The repository was clean after the last file.
LEMMA RecheckInv ==
  ASSUME ExportInv, NEW e \in Exporters, Recheck(e)
  PROVE  ExportInv'
<1>1. RunInv(e) /\ SeenInv(e) /\ ExportTypeOK /\ ImageIsItsLabel
  BY DEF ExportInv
<1>2. ExportTypeOK'
  BY <1>1 DEF Recheck, Proceed, ExportThrows, ExportTypeOK, Steps, repository, docker
<1>3. RunInv(e)' /\ SeenInv(e)'
  BY <1>1 DEF Recheck, Proceed, ExportThrows, RunInv, SeenInv, ExportTypeOK, repository, docker
<1>4. ASSUME NEW f \in Exporters, f # e PROVE RunInv(f)' /\ SeenInv(f)'
  BY <1>1, <1>4, Untouched
     DEF ExportInv, Recheck, Proceed, ExportThrows, ExportTypeOK, docker, repository
<1>5. ImageIsItsLabel'
  BY <1>1 DEF Recheck, ExportThrows, ImageIsItsLabel, docker
<1> QED BY <1>2, <1>3, <1>4, <1>5 DEF ExportInv

\* HEAD was the revision after the last file.
LEMMA RecheckHeadInv ==
  ASSUME ExportInv, NEW e \in Exporters, RecheckHead(e)
  PROVE  ExportInv'
<1>1. RunInv(e) /\ SeenInv(e) /\ ExportTypeOK /\ ImageIsItsLabel
  BY DEF ExportInv
<1>2. ExportTypeOK'
  BY <1>1 DEF RecheckHead, Proceed, ExportThrows, ExportTypeOK, Steps, repository, docker
<1>3. RunInv(e)' /\ SeenInv(e)'
  BY <1>1 DEF RecheckHead, Proceed, ExportThrows, RunInv, SeenInv, ExportTypeOK, repository,
              docker
<1>4. ASSUME NEW f \in Exporters, f # e PROVE RunInv(f)' /\ SeenInv(f)'
  BY <1>1, <1>4, Untouched
     DEF ExportInv, RecheckHead, Proceed, ExportThrows, ExportTypeOK, docker, repository
<1>5. ImageIsItsLabel'
  BY <1>1 DEF RecheckHead, ExportThrows, ImageIsItsLabel, docker
<1> QED BY <1>2, <1>3, <1>4, <1>5 DEF ExportInv

\* The image carries the revision.
LEMMA InspectInv ==
  ASSUME ExportInv, NEW e \in Exporters, Inspect(e)
  PROVE  ExportInv'
<1>1. RunInv(e) /\ SeenInv(e) /\ ExportTypeOK /\ ImageIsItsLabel
  BY DEF ExportInv
<1>2. ExportTypeOK'
  BY <1>1 DEF Inspect, Proceed, ExportThrows, ExportTypeOK, Steps, repository, docker
<1>3. RunInv(e)' /\ SeenInv(e)'
  BY <1>1 DEF Inspect, Proceed, ExportThrows, RunInv, SeenInv, ExportTypeOK, repository, docker
<1>4. ASSUME NEW f \in Exporters, f # e PROVE RunInv(f)' /\ SeenInv(f)'
  BY <1>1, <1>4, Untouched
     DEF ExportInv, Inspect, Proceed, ExportThrows, ExportTypeOK, docker, repository
<1>5. ImageIsItsLabel'
  BY <1>1 DEF Inspect, ExportThrows, ImageIsItsLabel, docker
<1> QED BY <1>2, <1>3, <1>4, <1>5 DEF ExportInv

\* A throw ends the run, or takes it to its clean-up.
LEMMA ThrowInv ==
  ASSUME ExportInv, NEW e \in Exporters, ExportThrows(e)
  PROVE  ExportInv'
<1>1. RunInv(e) /\ SeenInv(e) /\ ExportTypeOK /\ ImageIsItsLabel
  BY DEF ExportInv
<1>2. ExportTypeOK'
  BY <1>1 DEF ExportThrows, Proceed, ExportTypeOK, Steps, repository, docker
<1>3. RunInv(e)' /\ SeenInv(e)'
  <2>1. /\ at'[e] = IF temporary[e] THEN "clean" ELSE "ended"
        /\ failed'[e] = TRUE
        /\ temporary' = temporary /\ context' = context
    BY <1>1 DEF ExportThrows, Proceed, ExportTypeOK
  <2>2. CASE temporary[e]
    BY <1>1, <2>1, <2>2 DEF RunInv, SeenInv
  <2>3. CASE ~ temporary[e]
    <3>1. context[e] = NoFiles
      BY <1>1, <2>3 DEF RunInv
    <3> QED BY <2>1, <2>3, <3>1 DEF RunInv, SeenInv
  <2> QED BY <2>2, <2>3
<1>4. ASSUME NEW f \in Exporters, f # e PROVE RunInv(f)' /\ SeenInv(f)'
  <2>1. /\ at'[f] = at[f] /\ failed'[f] = failed[f] /\ seen'[f] = seen[f]
        /\ UNCHANGED <<repository, revision, todo, context, temporary>>
    BY <1>1, <1>4 DEF ExportThrows, Proceed, ExportTypeOK
  <2> QED BY <1>4, <2>1, Untouched DEF ExportInv
<1>5. ImageIsItsLabel'
  BY <1>1 DEF ExportThrows, ImageIsItsLabel, docker
<1> QED BY <1>2, <1>3, <1>4, <1>5 DEF ExportInv

LEMMA RefuseInv ==
  ASSUME ExportInv, NEW e \in Exporters, Refuse(e) \/ Fail(e)
  PROVE  ExportInv'
BY ThrowInv DEF Refuse, Fail

\* A killed run promises nothing more.
LEMMA KillInv ==
  ASSUME ExportInv, NEW e \in Exporters, ExportKilled(e)
  PROVE  ExportInv'
<1>1. RunInv(e) /\ SeenInv(e) /\ ExportTypeOK /\ ImageIsItsLabel
  BY DEF ExportInv
<1>2. ExportTypeOK'
  BY <1>1 DEF ExportKilled, Proceed, ExportThrows, ExportTypeOK, Steps, repository, docker
<1>3. RunInv(e)' /\ SeenInv(e)'
  BY <1>1 DEF ExportKilled, Proceed, ExportThrows, RunInv, SeenInv, ExportTypeOK, repository, docker
<1>4. ASSUME NEW f \in Exporters, f # e PROVE RunInv(f)' /\ SeenInv(f)'
  BY <1>1, <1>4, Untouched
     DEF ExportInv, ExportKilled, Proceed, ExportThrows, ExportTypeOK, docker, repository
<1>5. ImageIsItsLabel'
  BY <1>1 DEF ExportKilled, ExportThrows, ImageIsItsLabel, docker
<1> QED BY <1>2, <1>3, <1>4, <1>5 DEF ExportInv

\* The file written is that of the tree.
LEMMA WriteBlobInv ==
  ASSUME ExportInv, NEW e \in Exporters, WriteBlob(e)
  PROVE  ExportInv'
<1>1. RunInv(e) /\ SeenInv(e) /\ ExportTypeOK /\ ImageIsItsLabel
  BY DEF ExportInv
<1> PICK p \in todo[e] :
      /\ todo' = [todo EXCEPT ![e] = @ \ {p}]
      /\ context' = [context EXCEPT ![e] =
            [q \in DOMAIN @ \cup {p} |->
               IF q = p THEN Tree[revision[e]][p] ELSE @[q]]]
  BY DEF WriteBlob
<1> DEFINE onDisk == [q \in DOMAIN context[e] \cup {p} |->
                         IF q = p THEN Tree[revision[e]][p] ELSE context[e][q]]
<1>2. /\ at[e] = "blobs" /\ revision[e] \in Revisions /\ e \in DOMAIN context
      /\ Tree[revision[e]] \in Trees /\ context[e] \in Trees
      /\ p \in DOMAIN Tree[revision[e]]
  BY <1>1, TreeAssumption DEF WriteBlob, RunInv, ExportTypeOK
<1>3. onDisk \in Trees
  <2>1. DOMAIN onDisk \subseteq Paths
    BY <1>2, TreesAreFunctions
  <2>2. \A q \in DOMAIN onDisk : onDisk[q] \in Blobs
    BY <1>2, TreesAreFunctions
  <2>3. onDisk = [q \in DOMAIN onDisk |-> onDisk[q]]
    OBVIOUS
  <2> HIDE DEF onDisk
  <2> QED BY <2>1, <2>2, <2>3, TreesAreFunctions
<1>4. /\ context' = [context EXCEPT ![e] = onDisk]
      /\ context'[e] = onDisk /\ todo'[e] = todo[e] \ {p}
      /\ seen'[e] = {<<head, clean>>}
  <2>1. seen' = [seen EXCEPT ![e] = {<<head, clean>>}]
    BY DEF WriteBlob
  <2>2. context' = [context EXCEPT ![e] = onDisk]
    OBVIOUS
  <2> HIDE DEF onDisk
  <2>3. /\ DOMAIN context = Exporters /\ DOMAIN todo = Exporters
        /\ DOMAIN seen = Exporters
    BY <1>1 DEF ExportTypeOK
  <2> QED BY <2>1, <2>2, <2>3
<1>u. UNCHANGED <<at, failed, revision, temporary, repository, docker>>
  BY DEF WriteBlob
<1>5. ExportTypeOK'
  <2> HIDE DEF onDisk
  <2>1. context' \in [Exporters -> Trees]
    BY <1>1, <1>3, <1>4 DEF ExportTypeOK
  <2>2. todo' \in [Exporters -> SUBSET Paths]
    BY <1>1 DEF ExportTypeOK
  <2>3. seen' \in [Exporters -> SUBSET (Revisions \X BOOLEAN)]
    <3>1. seen' = [seen EXCEPT ![e] = {<<head, clean>>}]
      BY DEF WriteBlob
    <3> QED BY <1>1, <3>1 DEF ExportTypeOK
  <2> QED BY <1>1, <1>u, <2>1, <2>2, <2>3 DEF ExportTypeOK, repository, docker
<1>6. RunInv(e)' /\ SeenInv(e)'
  <2>1. /\ DOMAIN onDisk = DOMAIN context[e] \cup {p}
        /\ \A q \in DOMAIN onDisk : onDisk[q] = Tree[revision[e]][q]
    BY <1>1, <1>2 DEF RunInv
  <2>3. temporary[e]
    BY <1>1, <1>2 DEF RunInv
  <2> HIDE DEF onDisk
  <2>4. RunInv(e)'
    BY <1>1, <1>2, <1>4, <1>u, <2>1, <2>3 DEF RunInv
  <2>5. SeenInv(e)'
    BY <1>2, <1>4, <1>u DEF SeenInv, repository
  <2> QED BY <2>4, <2>5
<1>7. ASSUME NEW f \in Exporters, f # e PROVE RunInv(f)' /\ SeenInv(f)'
  BY <1>1, <1>7, Untouched
     DEF ExportInv, WriteBlob, ExportTypeOK, docker, repository
<1>8. ImageIsItsLabel'
  BY <1>1, <1>u DEF ImageIsItsLabel, docker
<1> QED BY <1>5, <1>6, <1>7, <1>8 DEF ExportInv

\* The context of a run that builds is the tree of its revision.
LEMMA BuildInv ==
  ASSUME ExportInv, NEW e \in Exporters, Build(e)
  PROVE  ExportInv'
<1>1. RunInv(e) /\ SeenInv(e) /\ ExportTypeOK /\ ImageIsItsLabel
  BY DEF ExportInv
<1> DEFINE image == [label |-> revision[e], content |-> context[e]]
<1>2. image \in Image /\ context[e] = Tree[revision[e]]
  <2>1. /\ revision[e] \in Revisions /\ context[e] \in Trees
        /\ Tree[revision[e]] \in Trees
        /\ DOMAIN context[e] = DOMAIN Tree[revision[e]]
        /\ \A p \in DOMAIN context[e] : context[e][p] = Tree[revision[e]][p]
    BY <1>1, TreeAssumption DEF Build, RunInv, ExportTypeOK
  <2> QED BY <2>1, WrittenOut DEF Image
<1>3. images' = [images EXCEPT ![TagOf[e]] = image]
  BY DEF Build
<1>4. ExportTypeOK'
  BY <1>1, <1>2, <1>3 DEF Build, Proceed, ExportTypeOK, Steps, repository
<1>5. RunInv(e)' /\ SeenInv(e)'
  BY <1>1 DEF Build, Proceed, RunInv, SeenInv, ExportTypeOK, repository
<1>6. ASSUME NEW f \in Exporters, f # e PROVE RunInv(f)' /\ SeenInv(f)'
  BY <1>1, <1>6, Untouched
     DEF ExportInv, Build, Proceed, ExportTypeOK, repository
<1>7. ImageIsItsLabel'
  <2>1. image.content = Tree[image.label]
    BY <1>2
  <2>2. \A t \in Tags : images'[t] = image \/ images'[t] = images[t]
    BY <1>1, <1>3 DEF ExportTypeOK
  <2> HIDE DEF image
  <2> QED BY <1>1, <2>1, <2>2 DEF ImageIsItsLabel, Build
<1> QED BY <1>4, <1>5, <1>6, <1>7 DEF ExportInv

\* Containers run what some build has made.
LEMMA UpInv ==
  ASSUME ExportInv, NEW e \in Exporters, Up(e)
  PROVE  ExportInv'
<1>1. RunInv(e) /\ SeenInv(e) /\ ExportTypeOK /\ ImageIsItsLabel
  BY DEF ExportInv
<1>2. ExportTypeOK'
  BY <1>1, TreeAssumption DEF Up, Proceed, ExportTypeOK, Steps, repository
<1>3. RunInv(e)' /\ SeenInv(e)'
  BY <1>1 DEF Up, Proceed, RunInv, SeenInv, ExportTypeOK, repository
<1>4. ASSUME NEW f \in Exporters, f # e PROVE RunInv(f)' /\ SeenInv(f)'
  BY <1>1, <1>4, Untouched
     DEF ExportInv, Up, Proceed, ExportTypeOK, repository
<1>5. ImageIsItsLabel'
  <2>1. TagOf[e] \in Tags
    BY TreeAssumption
  <2>2. \A t \in Tags :
          running'[t] = running[t] \/ running'[t] = images[TagOf[e]]
    BY <1>1 DEF Up, ExportTypeOK
  <2> QED BY <1>1, <2>1, <2>2 DEF ImageIsItsLabel, Up
<1> QED BY <1>2, <1>3, <1>4, <1>5 DEF ExportInv

LEMMA CleanUpInv ==
  ASSUME ExportInv, NEW e \in Exporters, CleanUp(e)
  PROVE  ExportInv'
<1>1. RunInv(e) /\ SeenInv(e) /\ ExportTypeOK /\ ImageIsItsLabel
  BY DEF ExportInv
<1> NoFiles \in Trees
  BY NoFilesIsATree
<1> HIDE DEF NoFiles
<1>2. ExportTypeOK'
  BY <1>1 DEF CleanUp, Proceed, ExportTypeOK, Steps, repository, docker
<1>3. RunInv(e)' /\ SeenInv(e)'
  BY <1>1 DEF CleanUp, Proceed, RunInv, SeenInv, ExportTypeOK, repository, docker
<1>4. ASSUME NEW f \in Exporters, f # e PROVE RunInv(f)' /\ SeenInv(f)'
  <2>1. /\ at'[f] = at[f] /\ context'[f] = context[f] /\ seen'[f] = seen[f]
        /\ temporary'[f] = temporary[f]
        /\ UNCHANGED <<repository, failed, revision, todo>>
    BY <1>1, <1>4 DEF CleanUp, Proceed, ExportTypeOK
  <2> QED BY <1>4, <2>1, Untouched DEF ExportInv
<1>5. ImageIsItsLabel'
  BY <1>1 DEF CleanUp, ImageIsItsLabel, docker
<1> QED BY <1>2, <1>3, <1>4, <1>5 DEF ExportInv

\* A removal that throws leaves a part of the copy.
LEMMA CleanUpFailsInv ==
  ASSUME ExportInv, NEW e \in Exporters, CleanUpFails(e)
  PROVE  ExportInv'
<1>1. RunInv(e) /\ SeenInv(e) /\ ExportTypeOK /\ ImageIsItsLabel
  BY DEF ExportInv
<1>2. PICK left \in SUBSET DOMAIN context[e] :
        context' = [context EXCEPT ![e] = [p \in left |-> context[e][p]]]
  BY DEF CleanUpFails
<1> DEFINE part == [p \in left |-> context[e][p]]
<1>3. part \in Trees
  <2>1. context[e] \in Trees
    BY <1>1 DEF ExportTypeOK
  <2>2. DOMAIN context[e] \subseteq Paths /\ \A p \in DOMAIN context[e] : context[e][p] \in Blobs
    BY <2>1, TreesAreFunctions
  <2>3. /\ DOMAIN part = left /\ part = [p \in DOMAIN part |-> part[p]]
        /\ \A p \in left : part[p] = context[e][p]
    OBVIOUS
  <2> HIDE DEF part
  <2> QED BY <2>2, <2>3, TreesAreFunctions
<1> HIDE DEF part
<1>4. /\ at[e] = "clean" /\ temporary[e]' = temporary[e]
      /\ context' = [context EXCEPT ![e] = part]
      /\ failed' = [failed EXCEPT ![e] = TRUE] /\ seen' = [seen EXCEPT ![e] = {}]
      /\ at' = [at EXCEPT ![e] = "left"]
      /\ UNCHANGED <<repository, revision, todo, temporary, docker>>
  BY <1>2 DEF CleanUpFails, Proceed, part
<1>5. ExportTypeOK'
  BY <1>1, <1>3, <1>4 DEF ExportTypeOK, Steps, repository, docker
<1>6. RunInv(e)' /\ SeenInv(e)'
  <2>1. at'[e] = "left" /\ failed'[e] = TRUE
    BY <1>1, <1>4 DEF ExportTypeOK
  <2>2. ~ temporary'[e] => context'[e] = NoFiles
    <3>1. ~ temporary[e] => left = {} /\ part = NoFiles
      BY <1>1 DEF RunInv, NoFiles, part
    <3> QED BY <1>1, <1>4, <3>1 DEF ExportTypeOK
  <2> QED BY <2>1, <2>2 DEF RunInv, SeenInv
<1>7. ASSUME NEW f \in Exporters, f # e PROVE RunInv(f)' /\ SeenInv(f)'
  <2>1. /\ at'[f] = at[f] /\ context'[f] = context[f] /\ seen'[f] = seen[f]
        /\ temporary'[f] = temporary[f] /\ failed'[f] = failed[f]
        /\ UNCHANGED <<repository, revision, todo>>
    BY <1>1, <1>4, <1>7 DEF ExportTypeOK
  <2> QED BY <1>7, <2>1, Untouched DEF ExportInv
<1>8. ImageIsItsLabel'
  BY <1>1, <1>4 DEF ImageIsItsLabel, docker
<1> QED BY <1>5, <1>6, <1>7, <1>8 DEF ExportInv

\* The inductive invariant: each run's context is a part of the tree of its
\* revision, and what it has seen of the repository is what it goes by.
THEOREM ExportInvariance == ExportSpec => []ExportInv
<1>1. ExportInv /\ [ExportNext]_exportVars => ExportInv'
  <2> SUFFICES ASSUME ExportInv, [ExportNext]_exportVars PROVE ExportInv'
    OBVIOUS
  <2>1. CASE Edit \/ MoveHead
    BY <2>1, DeveloperInv
  <2>2. ASSUME NEW e \in Exporters, ExportStep(e) PROVE ExportInv'
    BY <2>2, StatusInv, ReadHeadInv, MakeContextInv, ListTreeInv, WriteBlobInv,
       RecheckInv, RecheckHeadInv, BuildInv, InspectInv, UpInv, RefuseInv,
       CleanUpInv, CleanUpFailsInv, KillInv DEF ExportStep
  <2>3. CASE UNCHANGED exportVars
    BY <2>3 DEF ExportInv, ExportTypeOK, RunInv, SeenInv, ImageIsItsLabel, exportVars,
                repository, docker
  <2> QED BY <2>1, <2>2, <2>3 DEF ExportNext
<1> QED BY InitInv, <1>1, PTL DEF ExportSpec

\* The export keeps its types.
THEOREM ExportTypeCorrect == ExportSpec => []ExportTypeOK
<1>1. ExportInv => ExportTypeOK
  BY DEF ExportInv
<1> QED BY <1>1, ExportInvariance, PTL

\* An image holds exactly the tree of the revision it is labelled with
\* (scripts/source-revision.mjs, and the label of the Dockerfiles).
THEOREM ImagesAreTheirLabels == ExportSpec => []ImageIsItsLabel
<1>1. ExportInv => ImageIsItsLabel
  BY DEF ExportInv
<1> QED BY <1>1, ExportInvariance, PTL

\* A build starts from a revision that was HEAD, and from a worktree that was
\* clean, after its files were onDisk (createExactSourceContext).
THEOREM ExportsAreCurrent == ExportSpec => []ExportWasCurrent
<1>1. ExportInv => ExportWasCurrent
  BY DEF ExportInv, SeenInv, ExportWasCurrent
<1> QED BY <1>1, ExportInvariance, PTL

\* What is built and run under a revision's label is that revision, which was
\* HEAD, and the worktree clean, after it had been exported
\* (withExactSourceContext).
THEOREM ImagesAreTheirRevisions == ExportSpec => []ImageIsItsRevision
<1>1. ImageIsItsLabel /\ ExportWasCurrent => ImageIsItsRevision
  BY DEF ImageIsItsRevision
<1> QED BY <1>1, ImagesAreTheirLabels, ExportsAreCurrent, PTL

\* A run that ends unkilled leaves no copy of the source, unless it fails in
\* removing it (withExactSourceContext).
THEOREM EndedRunsLeaveNothing == ExportSpec => []NothingLeft
<1>1. ExportInv => NothingLeft
  BY DEF ExportInv, RunInv, NothingLeft
<1> QED BY <1>1, ExportInvariance, PTL

-----------------------------------------------------------------------------
(* The HTTPS kit.                                                          *)

DuringSetup ==
  Making \cup {"compare", "prepare", "mkdir", "chmod", "write", "up", "wait"}

\* What is known of a set-up by the step it is at: how far the directory has
\* got, and that it is not one the operator had when the set-up began
SetupInv(p) ==
  LET d == args[p].dir IN
  pc[p] \in DuringSetup =>
    /\ args[p] \in Options
    /\ d \notin lost =>
         /\ pc[p] \in Making => entries[d] # None
         /\ pc[p] = "mkconfig" => "caddy-data" \in entries[d]
         /\ pc[p] = "mark" => {"caddy-data", "caddy-config"} \subseteq entries[d]
         /\ pc[p] \in {"write", "up"} =>
              entries[d] # None /\ Layout \subseteq entries[d]
    /\ pc[p] \in Making \cup {"mkdir"} /\ d \in operators => d \in raced
    /\ pc[p] = "chmod" /\ d \in foreign[p] => d \in lately[p] \cup raced

\* What is known of an export or a doctor by what it has read
ReaderInv(p) ==
  LET c == read[p].config IN
  /\ pc[p] \in {"private", "readca", "target", "bundle", "dprivate", "dtrust",
                "resolve", "tls"} => c \in written
  /\ pc[p] \in {"target", "bundle"} => <<read[p].ca, c.dir>> \in made
  /\ pc[p] \in {"dtrust", "resolve", "tls"} =>
       c.dir \in lately[p] \/ key[c.dir] # None
  /\ pc[p] \in {"resolve", "tls"} => read[p].trust \in Bundles

ProcessInv(p) ==
  /\ SetupInv(p) /\ ReaderInv(p)
  /\ foreign[p] \ lately[p] \subseteq operators
  /\ touched[p] \cap foreign[p] \subseteq lately[p] \cup raced

\* A directory is made by the kit or by the operator; its CA is what it was
\* created with
DirectoryInv(d) ==
  /\ d \in operators => entries[d] # None
  /\ d \in operators \ raced => entries[d] \subseteq {"other"}
  /\ entries[d] # None /\ "other" \in entries[d] => d \in operators
  /\ ca[d] # None => <<ca[d], d>> \in made
  /\ key[d] # None => key[d] = ca[d]

\* The configuration was written, and the container that has a CA in memory
\* has that of its directory, as long as the directory has a key
ConfigInv ==
  /\ written \subseteq Setups
  /\ config # None => config \in written
CaddyInv ==
  caddy # None /\ caddy.ca # None /\ key[caddy.dir] # None =>
    caddy.ca = ca[caddy.dir]

\* The types of what is history
HistoryTypes ==
  /\ operators \in SUBSET Dirs
  /\ foreign \in [Processes -> SUBSET Dirs]
  /\ touched \in [Processes -> SUBSET Dirs]
  /\ lately \in [Processes -> SUBSET Dirs]
  /\ made \in SUBSET (CAs \X Dirs)

KitInv ==
  /\ TypeOK /\ HistoryTypes
  /\ \A p \in Processes : ProcessInv(p)
  /\ \A d \in Dirs : DirectoryInv(d)
  /\ ConfigInv /\ CaddyInv
  /\ MarkedIsComplete /\ ConfigIsReady /\ OnlyInterruptionsStrand
  /\ TrustIsOfOneSetup

LEMMA KitInitInv == Init => KitInv
<1> SUFFICES ASSUME Init PROVE KitInv
  OBVIOUS
<1>1. TypeOK /\ HistoryTypes
  BY DEF Init, TypeOK, Nothing, HistoryTypes
<1>2. ASSUME NEW p \in Processes PROVE ProcessInv(p)
  BY <1>2 DEF Init, ProcessInv, SetupInv, ReaderInv, DuringSetup, Making
<1>3. /\ \A d \in Dirs : DirectoryInv(d)
      /\ ConfigInv /\ CaddyInv
      /\ MarkedIsComplete /\ ConfigIsReady
      /\ OnlyInterruptionsStrand /\ TrustIsOfOneSetup
  BY DEF Init, DirectoryInv, ConfigInv, CaddyInv, MarkedIsComplete,
         ConfigIsReady, OnlyInterruptionsStrand, TrustIsOfOneSetup
<1> QED BY <1>1, <1>2, <1>3 DEF KitInv


\* A process that does not move keeps what is known of it, as long as files
\* grow unless they are lost, and the operator takes no directory it makes
\* unnoticed.
LEMMA OthersStay ==
  ASSUME NEW q \in Processes, TypeOK, ProcessInv(q),
         pc'[q] = pc[q], args'[q] = args[q], read'[q] = read[q],
         foreign'[q] = foreign[q], touched'[q] = touched[q],
         written \subseteq written', made \subseteq made',
         raced \subseteq raced', lost \subseteq lost',
         lately[q] \subseteq lately'[q],
         foreign[q] \ lately'[q] \subseteq operators',
         \A d \in Dirs \ lost' : entries[d] # None =>
           entries'[d] # None /\ entries[d] \subseteq entries'[d],
         \A d \in operators' \ operators :
           pc[q] \in Making \cup {"mkdir"} /\ args[q].dir = d => d \in raced',
         \A d \in Dirs : key[d] # None => key'[d] # None \/ d \in lately'[q],
         ConfigInv
  PROVE  ProcessInv(q)'
<1>1. SetupInv(q)'
  <2> SUFFICES ASSUME pc[q] \in DuringSetup PROVE SetupInv(q)'
    BY DEF SetupInv
  <2>1. args[q] \in Options /\ args[q].dir \in Dirs
    BY DEF ProcessInv, SetupInv, Options
  <2> QED BY <2>1 DEF ProcessInv, SetupInv, Making
<1>2. ReaderInv(q)'
  BY DEF ProcessInv, ReaderInv, ConfigInv, Setups
<1> QED BY <1>1, <1>2 DEF ProcessInv

\* A step that moves one process, outside the making of a directory, and
\* changes at most what this process has read, keeps the invariant if what
\* is to be known of the process at its new step is so.
LEMMA Moves ==
  ASSUME KitInv, NEW p \in Processes, NEW s, Goto(p, s),
         pc[p] \notin Making,
         read' \in [Processes -> [config : Setups \cup {None},
                                  ca : CAs \cup {None},
                                  trust : Bundles \cup {None}]],
         \A q \in Processes \ {p} : read'[q] = read[q],
         UNCHANGED <<files, caddy, args, bounds, history>>,
         SetupInv(p)', ReaderInv(p)'
  PROVE  KitInv'
<1> USE DEF files, bounds, history
<1>1. TypeOK' /\ HistoryTypes'
  BY DEF KitInv, TypeOK, Goto, HistoryTypes
<1>2. ASSUME NEW q \in Processes PROVE ProcessInv(q)'
  <2>1. CASE q = p
    BY <2>1 DEF KitInv, ProcessInv
  <2>2. CASE q # p
    <3>1. pc'[q] = pc[q]
      BY <2>2 DEF Goto, KitInv, TypeOK
    <3>2. TypeOK /\ ProcessInv(q) /\ ConfigInv
      BY DEF KitInv
    <3>3. foreign[q] \ lately'[q] \subseteq operators'
      BY <3>2 DEF ProcessInv
    <3> HIDE DEF files, bounds, history
    <3> QED BY <2>2, <3>1, <3>2, <3>3, OthersStay
              DEF files, history
  <2> QED BY <2>1, <2>2
<1>3. \A d \in Dirs : DirectoryInv(d)'
  BY DEF KitInv, DirectoryInv
<1>4. ConfigInv' /\ CaddyInv'
  BY DEF KitInv, ConfigInv, CaddyInv
<1>5. MarkedIsComplete' /\ ConfigIsReady' /\ TrustIsOfOneSetup'
  BY DEF KitInv, MarkedIsComplete, ConfigIsReady,
         TrustIsOfOneSetup
<1>6. OnlyInterruptionsStrand'
  <2>1. \A q \in Processes : HalfMade(q) \subseteq HalfMade(q)'
    BY DEF HalfMade, Goto, KitInv, TypeOK
  <2> QED BY <2>1 DEF KitInv, OnlyInterruptionsStrand
<1> QED BY <1>1, <1>2, <1>3, <1>4, <1>5, <1>6 DEF KitInv

LEMMA CompareInv ==
  ASSUME KitInv, NEW p \in Processes, Compare(p)
  PROVE  KitInv'
<1> USE DEF Compare, Goto
<1>1. pc'[p] = "prepare" /\ pc[p] \notin Making
  BY DEF KitInv, TypeOK, Making
<1>2. SetupInv(p)' /\ ReaderInv(p)'
  BY <1>1 DEF KitInv, ProcessInv, SetupInv, ReaderInv, DuringSetup, Making
<1> QED BY <1>1, <1>2, Moves DEF KitInv, TypeOK

\* The operator's own directory does not look like one of the kit.
LEMMA PrepareInv ==
  ASSUME KitInv, NEW p \in Processes, Prepare(p)
  PROVE  KitInv'
<1> USE DEF Prepare, Goto
<1> DEFINE d == args[p].dir
<1>1. pc[p] \notin Making /\ args[p] \in Options /\ d \in Dirs
  BY DEF KitInv, ProcessInv, SetupInv, DuringSetup, Making, Options
<1>2. CASE entries[d] = None /\ pc' = [pc EXCEPT ![p] = "mkdir"]
  <2>1. pc'[p] = "mkdir" /\ d \notin operators
    BY <1>1, <1>2 DEF KitInv, TypeOK, DirectoryInv
  <2>2. SetupInv(p)' /\ ReaderInv(p)'
    BY <1>1, <2>1 DEF SetupInv, ReaderInv, DuringSetup, Making,
                      history
  <2> QED BY <1>1, <1>2, <2>2, Moves DEF KitInv, TypeOK
<1>3. CASE Dedicated(d) /\ pc' = [pc EXCEPT ![p] = "chmod"]
  <2>1. pc'[p] = "chmod" /\ d \notin operators \ raced
    BY <1>1, <1>3 DEF KitInv, TypeOK, DirectoryInv, Dedicated,
                      Layout
  <2>2. d \in foreign[p] => d \in lately[p] \cup raced
    BY <2>1 DEF KitInv, ProcessInv
  <2>3. SetupInv(p)' /\ ReaderInv(p)'
    BY <1>1, <2>1, <2>2 DEF SetupInv, ReaderInv, DuringSetup, Making,
                            history
  <2> QED BY <1>1, <1>3, <2>3, Moves DEF KitInv, TypeOK
<1> QED BY <1>2, <1>3

LEMMA CaAppearsInv ==
  ASSUME KitInv, NEW p \in Processes, CaAppears(p)
  PROVE  KitInv'
<1> USE DEF CaAppears, Goto
<1>1. pc'[p] = "parse" /\ pc[p] \notin Making
  BY DEF KitInv, TypeOK, Making
<1>2. SetupInv(p)' /\ ReaderInv(p)'
  BY <1>1 DEF SetupInv, ReaderInv, DuringSetup, Making
<1> QED BY <1>1, <1>2, Moves DEF KitInv, TypeOK

\* parseConfig, of an export or of a doctor.
LEMMA ParseConfigInv ==
  ASSUME KitInv, NEW p \in Processes,
         \/ ParseConfig(p, "parse", "private")
         \/ ParseConfig(p, "dparse", "dprivate")
  PROVE  KitInv'
<1> USE DEF ParseConfig, Goto, Knows
<1> PICK s \in {"private", "dprivate"} : Goto(p, s)
  OBVIOUS
<1>1. pc'[p] = s /\ pc[p] \notin Making
  BY DEF KitInv, TypeOK, Making
<1>2. config \in written /\ config \in Setups
  BY DEF KitInv, ConfigInv
<1>3. read'[p].config = config /\ \A q \in Processes \ {p} : read'[q] = read[q]
  BY DEF KitInv, TypeOK
<1>4. SetupInv(p)' /\ ReaderInv(p)'
  BY <1>1, <1>2, <1>3 DEF SetupInv, ReaderInv, DuringSetup, Making,
                          history
<1>5. read' \in [Processes -> [config : Setups \cup {None},
                               ca : CAs \cup {None},
                               trust : Bundles \cup {None}]]
  BY <1>2 DEF KitInv, TypeOK
<1> QED BY <1>1, <1>3, <1>4, <1>5, Moves

\* assertPrivateMaterialPermissions, of an export or of a doctor.
LEMMA PrivateMaterialInv ==
  ASSUME KitInv, NEW p \in Processes,
         \/ PrivateMaterial(p, "private", "readca")
         \/ PrivateMaterial(p, "dprivate", "dtrust")
  PROVE  KitInv'
<1> USE DEF PrivateMaterial, Goto
<1> PICK s \in {"readca", "dtrust"} : Goto(p, s)
  OBVIOUS
<1>1. pc'[p] = s /\ pc[p] \notin Making
  BY DEF KitInv, TypeOK, Making
<1>2. SetupInv(p)'
  BY <1>1 DEF SetupInv, DuringSetup, Making
<1>3. ReaderInv(p)'
  BY <1>1 DEF KitInv, ProcessInv, ReaderInv, history, files
<1> QED BY <1>1, <1>2, <1>3, Moves DEF KitInv, TypeOK

LEMMA ReadCaInv ==
  ASSUME KitInv, NEW p \in Processes, ReadCa(p)
  PROVE  KitInv'
<1> USE DEF ReadCa, Goto, Knows
<1>1. pc'[p] = "target" /\ pc[p] \notin Making
  BY DEF KitInv, TypeOK, Making
<1>2. read[p].config \in written /\ read[p].config.dir \in Dirs
  BY DEF KitInv, ProcessInv, ReaderInv, ConfigInv, Setups
<1>3. /\ read'[p].config = read[p].config
      /\ read'[p].ca = ca[read[p].config.dir]
      /\ \A q \in Processes \ {p} : read'[q] = read[q]
  BY DEF KitInv, TypeOK
<1>4. <<ca[read[p].config.dir], read[p].config.dir>> \in made
  BY <1>2 DEF KitInv, DirectoryInv
<1>5. SetupInv(p)' /\ ReaderInv(p)'
  BY <1>1, <1>2, <1>3, <1>4 DEF SetupInv, ReaderInv, DuringSetup, Making,
                                history
<1>6. read' \in [Processes -> [config : Setups \cup {None},
                               ca : CAs \cup {None},
                               trust : Bundles \cup {None}]]
  BY <1>2 DEF KitInv, TypeOK
<1> QED BY <1>1, <1>3, <1>5, <1>6, Moves

LEMMA TargetInv ==
  ASSUME KitInv, NEW p \in Processes, Target(p)
  PROVE  KitInv'
<1> USE DEF Target, Goto
<1>1. pc'[p] = "bundle" /\ pc[p] \notin Making
  BY DEF KitInv, TypeOK, Making
<1>2. SetupInv(p)'
  BY <1>1 DEF SetupInv, DuringSetup, Making
<1>3. ReaderInv(p)'
  BY <1>1 DEF KitInv, ProcessInv, ReaderInv, history
<1> QED BY <1>1, <1>2, <1>3, Moves DEF KitInv, TypeOK

LEMMA ReadTrustInv ==
  ASSUME KitInv, NEW p \in Processes, ReadTrust(p)
  PROVE  KitInv'
<1> USE DEF ReadTrust, Goto, Knows
<1>1. pc'[p] = "resolve" /\ pc[p] \notin Making
  BY DEF KitInv, TypeOK, Making
<1>2. trust \in Bundles
  BY DEF KitInv, TypeOK
<1>3. /\ read'[p].config = read[p].config /\ read'[p].trust = trust
      /\ \A q \in Processes \ {p} : read'[q] = read[q]
  BY DEF KitInv, TypeOK
<1>4. SetupInv(p)'
  BY <1>1 DEF SetupInv, DuringSetup, Making
<1>5. ReaderInv(p)'
  BY <1>1, <1>2, <1>3 DEF KitInv, ProcessInv, ReaderInv, history,
                          files, Bundles
<1>6. read' \in [Processes -> [config : Setups \cup {None},
                               ca : CAs \cup {None},
                               trust : Bundles \cup {None}]]
  BY <1>2 DEF KitInv, TypeOK
<1> QED BY <1>1, <1>3, <1>4, <1>5, <1>6, Moves

\* The end of a doctor: the name resolves, and the endpoint answers or the
\* process drains.
LEMMA DoctorEndsInv ==
  ASSUME KitInv, NEW p \in Processes,
         Resolves(p) \/ Answers204(p) \/ Drain(p)
  PROVE  KitInv'
<1> USE DEF Resolves, Answers204, Drain, Goto
<1> PICK s \in {"tls", "passed", "drained"} : Goto(p, s)
  OBVIOUS
<1>1. pc'[p] = s /\ pc[p] \notin Making
  BY DEF KitInv, TypeOK, Making
<1>2. SetupInv(p)'
  BY <1>1 DEF SetupInv, DuringSetup, Making
<1>3. ReaderInv(p)'
  BY <1>1 DEF KitInv, ProcessInv, ReaderInv, history, files
<1> QED BY <1>1, <1>2, <1>3, Moves DEF KitInv, TypeOK

\* A process that breaks off strands at most the directory it was making,
\* which is noted.
LEMMA BreakOffInv ==
  ASSUME KitInv, NEW p \in Processes, NEW how \in {"failed", "killed"},
         BreakOff(p, how)
  PROVE  KitInv'
<1> USE DEF BreakOff, Goto, files, bounds
<1>1. pc'[p] = how /\ \A q \in Processes \ {p} : pc'[q] = pc[q]
  BY DEF KitInv, TypeOK
<1>2. TypeOK' /\ HistoryTypes'
  BY DEF KitInv, TypeOK, HistoryTypes
<1>3. ProcessInv(p)'
  BY <1>1 DEF KitInv, ProcessInv, SetupInv, ReaderInv, DuringSetup, Making
<1>4. ASSUME NEW q \in Processes \ {p} PROVE ProcessInv(q)'
  <2>1. TypeOK /\ ProcessInv(q) /\ ConfigInv
    BY DEF KitInv
  <2>2. foreign[q] \ lately'[q] \subseteq operators'
    BY <2>1 DEF ProcessInv
  <2> QED BY <1>1, <2>1, <2>2, OthersStay
<1>5. /\ \A d \in Dirs : DirectoryInv(d)'
      /\ ConfigInv' /\ CaddyInv' /\ MarkedIsComplete'
      /\ ConfigIsReady' /\ TrustIsOfOneSetup'
  BY DEF KitInv, DirectoryInv, ConfigInv, CaddyInv, MarkedIsComplete,
         ConfigIsReady, TrustIsOfOneSetup
<1>6. OnlyInterruptionsStrand'
  <2> SUFFICES ASSUME NEW d \in Dirs, d \notin (lost \cup operators \cup broken)',
                      entries[d] \notin {None, Layout}
               PROVE  \E q \in Processes : d \in HalfMade(q)'
    BY DEF OnlyInterruptionsStrand
  <2>1. PICK q \in Processes : d \in HalfMade(q)
    BY DEF KitInv, OnlyInterruptionsStrand
  <2>2. q # p
    BY <2>1
  <2> QED BY <1>1, <2>1, <2>2 DEF HalfMade
<1> QED BY <1>2, <1>3, <1>4, <1>5, <1>6 DEF KitInv

\* A command begins with what the operator has now.
LEMMA BeginInv ==
  ASSUME KitInv, NEW p \in Processes, NEW o \in Options \cup {None},
         NEW s \in {"compare", "parse", "dparse"}, s = "compare" => o \in Options,
         Begin(p, o, s)
  PROVE  KitInv'
<1> USE DEF Begin, Goto, files
<1>1. /\ pc'[p] = s /\ args'[p] = o
      /\ foreign'[p] = operators /\ touched'[p] = {} /\ lately'[p] = {}
      /\ pc[p] \notin Making
      /\ \A q \in Processes \ {p} :
           /\ pc'[q] = pc[q] /\ args'[q] = args[q] /\ read'[q] = read[q]
           /\ foreign'[q] = foreign[q] /\ touched'[q] = touched[q]
           /\ lately'[q] = lately[q]
  <2>1. /\ pc[p] \in Ended
        /\ foreign \in [Processes -> SUBSET Dirs]
        /\ touched \in [Processes -> SUBSET Dirs]
        /\ lately \in [Processes -> SUBSET Dirs]
        /\ args \in [Processes -> Options \cup {None}]
        /\ DOMAIN pc = Processes /\ DOMAIN read = Processes
    BY DEF KitInv, TypeOK, HistoryTypes
  <2> QED BY <2>1 DEF Making, Ended
<1>2. TypeOK' /\ HistoryTypes'
  BY DEF KitInv, TypeOK, HistoryTypes, Nothing
<1>3. ProcessInv(p)'
  BY <1>1 DEF ProcessInv, SetupInv, ReaderInv, DuringSetup, Making
<1>4. ASSUME NEW q \in Processes \ {p} PROVE ProcessInv(q)'
  <2>1. TypeOK /\ ProcessInv(q) /\ ConfigInv
    BY DEF KitInv
  <2>2. foreign[q] \ lately'[q] \subseteq operators'
    BY <1>1, <2>1 DEF ProcessInv
  <2> QED BY <1>1, <2>1, <2>2, OthersStay
<1>5. /\ \A d \in Dirs : DirectoryInv(d)'
      /\ ConfigInv' /\ CaddyInv' /\ MarkedIsComplete'
      /\ ConfigIsReady' /\ TrustIsOfOneSetup'
  BY DEF KitInv, DirectoryInv, ConfigInv, CaddyInv, MarkedIsComplete,
         ConfigIsReady, TrustIsOfOneSetup
<1>6. OnlyInterruptionsStrand'
  <2>1. \A q \in Processes : HalfMade(q) \subseteq HalfMade(q)'
    BY <1>1 DEF HalfMade
  <2> QED BY <2>1 DEF KitInv, OnlyInterruptionsStrand
<1> QED BY <1>2, <1>3, <1>4, <1>5, <1>6 DEF KitInv

\* The directory is made where there is none, and is no operator's then.
LEMMA MakeDirInv ==
  ASSUME KitInv, NEW p \in Processes, MakeDir(p)
  PROVE  KitInv'
<1> USE DEF MakeDir, Goto, bounds, history
<1> DEFINE d == args[p].dir
<1>1. /\ args[p] \in Options /\ d \in Dirs
      /\ pc'[p] = "mkdata" /\ \A q \in Processes \ {p} : pc'[q] = pc[q]
  BY DEF KitInv, TypeOK, ProcessInv, SetupInv, DuringSetup, Options
<1>2. /\ entries[d] = None => entries'[d] = {}
      /\ entries[d] # None => entries'[d] = entries[d]
      /\ \A e \in Dirs \ {d} : entries'[e] = entries[e]
      /\ None # {}
  BY <1>1, NoneAssumption DEF KitInv, TypeOK, Listings
<1>3. TypeOK' /\ HistoryTypes'
  BY <1>1 DEF KitInv, TypeOK, HistoryTypes, Listings
<1>4. ProcessInv(p)'
  <2>1. SetupInv(p)'
    BY <1>1, <1>2 DEF KitInv, ProcessInv, SetupInv, DuringSetup, Making
  <2>2. ReaderInv(p)'
    BY <1>1 DEF ReaderInv
  <2> QED BY <2>1, <2>2 DEF KitInv, ProcessInv
<1>5. ASSUME NEW q \in Processes \ {p} PROVE ProcessInv(q)'
  <2>1. TypeOK /\ ProcessInv(q) /\ ConfigInv
    BY DEF KitInv
  <2>2. foreign[q] \ lately'[q] \subseteq operators'
    BY <2>1 DEF ProcessInv
  <2>3. \A e \in Dirs : entries[e] # None => entries'[e] = entries[e]
    BY <1>2
  <2> QED BY <1>1, <2>1, <2>2, <2>3, OthersStay
<1>6. ASSUME NEW e \in Dirs PROVE DirectoryInv(e)'
  BY <1>2 DEF KitInv, DirectoryInv
<1>7. ConfigInv' /\ CaddyInv' /\ TrustIsOfOneSetup'
  BY DEF KitInv, ConfigInv, CaddyInv, TrustIsOfOneSetup
<1>8. MarkedIsComplete' /\ ConfigIsReady'
  <2>1. MarkedIsComplete'
    BY <1>2 DEF KitInv, MarkedIsComplete
  <2>2. config # None => config.dir \in Dirs
    BY DEF KitInv, TypeOK, Setups
  <2> QED BY <1>2, <2>1, <2>2 DEF KitInv, ConfigIsReady
<1>9. OnlyInterruptionsStrand'
  <2>1. ASSUME NEW q \in Processes, NEW e \in HalfMade(q)
        PROVE  e \in HalfMade(q)'
    BY <1>1 DEF HalfMade, Making
  <2>2. d \in HalfMade(p)'
    BY <1>1 DEF HalfMade, Making
  <2> QED BY <1>2, <2>1, <2>2 DEF KitInv, OnlyInterruptionsStrand
<1> QED BY <1>3, <1>4, <1>5, <1>6, <1>7, <1>8, <1>9 DEF KitInv

\* What a write into the directory does.
LEMMA IntoFacts ==
  ASSUME KitInv, NEW p \in Processes, NEW step, NEW next,
         NEW child \in Layout, step \in Making,
         Into(p, step, child, next)
  PROVE  /\ args[p] \in Options /\ args[p].dir \in Dirs
         /\ pc[p] = step /\ pc'[p] = next
         /\ \A q \in Processes \ {p} : pc'[q] = pc[q] /\ touched'[q] = touched[q]
         /\ touched'[p] = touched[p] \cup {args[p].dir}
         /\ entries[args[p].dir] # None /\ entries'[args[p].dir] # None
         /\ entries'[args[p].dir] = entries[args[p].dir] \cup {child}
         /\ \A e \in Dirs \ {args[p].dir} : entries'[e] = entries[e]
         /\ TypeOK' /\ HistoryTypes'
<1> USE DEF Into, Goto, bounds
<1> DEFINE d == args[p].dir
<1>1. /\ args[p] \in Options /\ d \in Dirs
      /\ pc[p] = step /\ pc'[p] = next
      /\ \A q \in Processes \ {p} : pc'[q] = pc[q]
  BY DEF KitInv, TypeOK, ProcessInv, SetupInv, DuringSetup, Options
<1>2. touched \in [Processes -> SUBSET Dirs]
  BY DEF KitInv, HistoryTypes
<1>3. /\ touched'[p] = touched[p] \cup {d}
      /\ \A q \in Processes \ {p} : touched'[q] = touched[q]
  BY <1>2
<1>4. /\ entries \in [Dirs -> Listings \cup {None}]
      /\ entries[d] # None
      /\ entries' = [entries EXCEPT ![d] = entries[d] \cup {child}]
  BY DEF KitInv, TypeOK
<1>5. entries[d] \cup {child} \in Listings
  BY <1>1, <1>4 DEF Listings
<1>6. /\ entries'[d] = entries[d] \cup {child}
      /\ \A e \in Dirs \ {d} : entries'[e] = entries[e]
      /\ entries' \in [Dirs -> Listings \cup {None}]
  BY <1>1, <1>4, <1>5
<1>7. entries'[d] # None
  BY <1>5, <1>6, NoneAssumption
<1>8. HistoryTypes'
  BY <1>1, <1>2 DEF KitInv, HistoryTypes
<1>9. TypeOK'
  BY <1>6 DEF KitInv, TypeOK
<1> QED BY <1>1, <1>3, <1>4, <1>6, <1>7, <1>8, <1>9

\* A write into the directory, given what holds of the set-up and of the
\* directory afterwards.
LEMMA IntoInv ==
  ASSUME KitInv, NEW p \in Processes, NEW step, NEW next,
         NEW child \in Layout, step \in Making,
         next \in {"mkconfig", "mark", "chmod"},
         Into(p, step, child, next),
         SetupInv(p)',
         args[p].dir \notin lost =>
           \/ "marker" \notin entries'[args[p].dir]
           \/ Layout \subseteq entries'[args[p].dir],
         \/ next \in Making
         \/ args[p].dir \in lost
         \/ Layout \subseteq entries'[args[p].dir]
  PROVE  KitInv'
<1> DEFINE d == args[p].dir
<1>1. /\ args[p] \in Options /\ d \in Dirs
      /\ pc[p] = step /\ pc'[p] = next
      /\ \A q \in Processes \ {p} : pc'[q] = pc[q] /\ touched'[q] = touched[q]
      /\ touched'[p] = touched[p] \cup {d}
      /\ entries[d] # None /\ entries'[d] # None
      /\ entries'[d] = entries[d] \cup {child}
      /\ \A e \in Dirs \ {d} : entries'[e] = entries[e]
      /\ TypeOK' /\ HistoryTypes'
  BY IntoFacts
<1>2. UNCHANGED <<ca, key, config, trust, caddy, args, read, commands, events,
                  operators, foreign, raced, made, written, lost, lately,
                  broken>>
  BY DEF Into, bounds
<1>3. d \in operators => d \in raced
  BY <1>1 DEF KitInv, ProcessInv, SetupInv, DuringSetup
<1>4. ProcessInv(p)'
  <2>1. ReaderInv(p)'
    BY <1>1 DEF ReaderInv
  <2>2. /\ foreign[p] \ lately[p] \subseteq operators
        /\ touched[p] \cap foreign[p] \subseteq lately[p] \cup raced
    BY DEF KitInv, ProcessInv
  <2> QED BY <1>1, <1>2, <1>3, <2>1, <2>2 DEF ProcessInv
<1>5. ASSUME NEW q \in Processes \ {p} PROVE ProcessInv(q)'
  <2>1. TypeOK /\ ProcessInv(q) /\ ConfigInv
    BY DEF KitInv
  <2>2. foreign[q] \ lately'[q] \subseteq operators'
    BY <1>2, <2>1 DEF ProcessInv
  <2>3. \A e \in Dirs : entries[e] # None =>
          entries'[e] # None /\ entries[e] \subseteq entries'[e]
    BY <1>1
  <2> QED BY <1>1, <1>2, <2>1, <2>2, <2>3, OthersStay
<1>6. ASSUME NEW e \in Dirs PROVE DirectoryInv(e)'
  <2>1. "other" # child
    BY DEF Layout
  <2> QED BY <1>1, <1>2, <1>3, <2>1 DEF KitInv, DirectoryInv
<1>7. ConfigInv' /\ CaddyInv' /\ TrustIsOfOneSetup'
  BY <1>2 DEF KitInv, ConfigInv, CaddyInv, TrustIsOfOneSetup
<1>8. MarkedIsComplete'
  BY <1>1, <1>2 DEF KitInv, MarkedIsComplete
<1>9. ConfigIsReady'
  <2>1. config # None => config.dir \in Dirs
    BY DEF KitInv, TypeOK, Setups
  <2> QED BY <1>1, <1>2, <2>1 DEF KitInv, ConfigIsReady
<1>10. OnlyInterruptionsStrand'
  <2> SUFFICES ASSUME NEW e \in Dirs, e \notin lost \cup operators \cup broken,
                      entries'[e] \notin {None, Layout}
               PROVE  \E q \in Processes : e \in HalfMade(q)'
    BY <1>2 DEF OnlyInterruptionsStrand
  <2>1. entries[e] \notin {None, Layout}
    <3>1. entries[d] = Layout => entries[d] \cup {child} = Layout
      OBVIOUS
    <3> QED BY <1>1, <3>1
  <2>2. PICK q \in Processes : e \in HalfMade(q)
    BY <2>1 DEF KitInv, OnlyInterruptionsStrand
  <2>3. CASE q # p
    BY <1>1, <1>2, <2>2, <2>3 DEF HalfMade
  <2>4. CASE q = p
    <3>1. e = d
      BY <2>2, <2>4 DEF HalfMade
    <3>2. entries'[d] \subseteq Layout
      <4>1. entries'[d] \in Listings
        BY <1>1 DEF TypeOK
      <4>2. "other" \notin entries'[d]
        BY <1>1, <1>2, <1>6, <3>1 DEF DirectoryInv
      <4> QED BY <4>1, <4>2 DEF Listings
    <3>3. next \in Making
      BY <3>1, <3>2
    <3> QED BY <1>1, <1>2, <3>1, <3>3 DEF HalfMade
  <2> QED BY <2>3, <2>4
<1> QED BY <1>1, <1>4, <1>5, <1>6, <1>7, <1>8, <1>9, <1>10 DEF KitInv

\* The children are made one after the other, and the marker last.
LEMMA MakeDataInv ==
  ASSUME KitInv, NEW p \in Processes, MakeData(p)
  PROVE  KitInv'
<1> DEFINE d == args[p].dir
<1>1. Into(p, "mkdata", "caddy-data", "mkconfig")
  BY DEF MakeData, NewChild
<1>2. "mkdata" \in Making /\ "caddy-data" \in Layout
  BY DEF Making, Layout
<1>3. /\ args[p] \in Options /\ d \in Dirs
      /\ pc[p] = "mkdata" /\ pc'[p] = "mkconfig"
      /\ entries[d] # None /\ entries'[d] # None
      /\ entries'[d] = entries[d] \cup {"caddy-data"}
  BY <1>1, <1>2, IntoFacts
<1>4. UNCHANGED <<args, lost, operators, raced>>
  BY <1>1 DEF Into
<1>5. SetupInv(p)'
  BY <1>3, <1>4 DEF KitInv, ProcessInv, SetupInv, DuringSetup, Making
<1>6. d \notin lost => "marker" \notin entries[d]
  BY <1>3 DEF KitInv, MarkedIsComplete, MakeData, NewChild,
              Layout
<1>7. "mkconfig" \in Making
  BY DEF Making
<1> QED BY <1>1, <1>2, <1>3, <1>5, <1>6, <1>7, IntoInv

LEMMA MakeConfigInv ==
  ASSUME KitInv, NEW p \in Processes, MakeConfig(p)
  PROVE  KitInv'
<1> DEFINE d == args[p].dir
<1>1. Into(p, "mkconfig", "caddy-config", "mark")
  BY DEF MakeConfig, NewChild
<1>2. "mkconfig" \in Making /\ "caddy-config" \in Layout
  BY DEF Making, Layout
<1>3. /\ args[p] \in Options /\ d \in Dirs
      /\ pc[p] = "mkconfig" /\ pc'[p] = "mark"
      /\ entries[d] # None /\ entries'[d] # None
      /\ entries'[d] = entries[d] \cup {"caddy-config"}
  BY <1>1, <1>2, IntoFacts
<1>4. UNCHANGED <<args, lost, operators, raced>>
  BY <1>1 DEF Into
<1>5. d \notin lost => "caddy-data" \in entries[d]
  BY <1>3 DEF KitInv, ProcessInv, SetupInv, DuringSetup, Making
<1>6. SetupInv(p)'
  BY <1>3, <1>4, <1>5 DEF KitInv, ProcessInv, SetupInv, DuringSetup, Making
<1>7. d \notin lost => "marker" \notin entries[d]
  BY <1>3 DEF KitInv, MarkedIsComplete, MakeConfig, NewChild,
              Layout
<1>8. "mark" \in Making
  BY DEF Making
<1> QED BY <1>1, <1>2, <1>3, <1>6, <1>7, <1>8, IntoInv

LEMMA MarkInv ==
  ASSUME KitInv, NEW p \in Processes, Mark(p)
  PROVE  KitInv'
<1> DEFINE d == args[p].dir
<1>1. Into(p, "mark", "marker", "chmod")
  BY DEF Mark
<1>2. "mark" \in Making /\ "marker" \in Layout
  BY DEF Making, Layout
<1>3. /\ args[p] \in Options /\ d \in Dirs
      /\ pc[p] = "mark" /\ pc'[p] = "chmod"
      /\ entries'[d] = entries[d] \cup {"marker"}
  BY <1>1, <1>2, IntoFacts
<1>4. UNCHANGED <<args, lost, operators, raced, foreign, lately>>
  BY <1>1 DEF Into
<1>5. d \notin lost => Layout \subseteq entries'[d]
  BY <1>3 DEF KitInv, ProcessInv, SetupInv, DuringSetup, Making, Layout
<1>6. d \in foreign[p] => d \in lately[p] \cup raced
  BY <1>3 DEF KitInv, ProcessInv, SetupInv, DuringSetup, Making
<1>7. SetupInv(p)'
  BY <1>3, <1>4, <1>6 DEF SetupInv, DuringSetup, Making
<1> QED BY <1>1, <1>2, <1>3, <1>5, <1>7, IntoInv

LEMMA ChmodInv ==
  ASSUME KitInv, NEW p \in Processes, Chmod(p)
  PROVE  KitInv'
<1> USE DEF Chmod, Goto, files, bounds
<1> DEFINE d == args[p].dir
<1>1. /\ args[p] \in Options /\ d \in Dirs /\ entries[d] # None
      /\ pc[p] = "chmod" /\ \A q \in Processes \ {p} : pc'[q] = pc[q]
      /\ pc'[p] = IF Layout \subseteq entries[d] THEN "write" ELSE "failed"
      /\ d \in foreign[p] => d \in lately[p] \cup raced
  BY DEF KitInv, TypeOK, ProcessInv, SetupInv, DuringSetup, Options
<1>2. /\ touched'[p] = touched[p] \cup {d}
      /\ \A q \in Processes \ {p} : touched'[q] = touched[q]
      /\ TypeOK' /\ HistoryTypes'
  BY <1>1 DEF KitInv, TypeOK, HistoryTypes
<1>3. ProcessInv(p)'
  <2>1. SetupInv(p)'
    BY <1>1 DEF SetupInv, DuringSetup, Making
  <2>2. ReaderInv(p)'
    BY <1>1 DEF ReaderInv
  <2>3. /\ foreign[p] \ lately[p] \subseteq operators
        /\ touched[p] \cap foreign[p] \subseteq lately[p] \cup raced
    BY DEF KitInv, ProcessInv
  <2> QED BY <1>1, <1>2, <2>1, <2>2, <2>3 DEF ProcessInv
<1>4. ASSUME NEW q \in Processes \ {p} PROVE ProcessInv(q)'
  <2>1. TypeOK /\ ProcessInv(q) /\ ConfigInv
    BY DEF KitInv
  <2>2. foreign[q] \ lately'[q] \subseteq operators'
    BY <2>1 DEF ProcessInv
  <2> QED BY <1>1, <1>2, <2>1, <2>2, OthersStay
<1>5. /\ \A e \in Dirs : DirectoryInv(e)'
      /\ ConfigInv' /\ CaddyInv' /\ MarkedIsComplete'
      /\ ConfigIsReady' /\ TrustIsOfOneSetup'
  BY DEF KitInv, DirectoryInv, ConfigInv, CaddyInv, MarkedIsComplete,
         ConfigIsReady, TrustIsOfOneSetup
<1>6. OnlyInterruptionsStrand'
  <2>1. \A q \in Processes : HalfMade(q) \subseteq HalfMade(q)'
    BY <1>1 DEF HalfMade, Making
  <2> QED BY <2>1 DEF KitInv, OnlyInterruptionsStrand
<1> QED BY <1>2, <1>3, <1>4, <1>5, <1>6 DEF KitInv

\* The configuration names a directory that is complete.
LEMMA WriteConfigInv ==
  ASSUME KitInv, NEW p \in Processes, WriteConfig(p)
  PROVE  KitInv'
<1> USE DEF WriteConfig, Goto, bounds
<1> DEFINE d == args[p].dir
           c == [base |-> args[p].base, dir |-> d]
<1>1. /\ args[p] \in Options /\ d \in Dirs /\ c \in Setups
      /\ pc[p] = "write" /\ \A q \in Processes \ {p} : pc'[q] = pc[q]
      /\ pc'[p] \in {"up", "passed"}
      /\ d \notin lost => entries[d] # None /\ Layout \subseteq entries[d]
  BY DEF KitInv, TypeOK, ProcessInv, SetupInv, DuringSetup, Options,
         Setups
<1>2. TypeOK' /\ HistoryTypes'
  BY <1>1 DEF KitInv, TypeOK, HistoryTypes
<1>3. ProcessInv(p)'
  <2>1. SetupInv(p)'
    BY <1>1 DEF SetupInv, DuringSetup, Making
  <2>2. ReaderInv(p)'
    BY <1>1 DEF ReaderInv
  <2> QED BY <2>1, <2>2 DEF KitInv, ProcessInv
<1>4. ASSUME NEW q \in Processes \ {p} PROVE ProcessInv(q)'
  <2>1. TypeOK /\ ProcessInv(q) /\ ConfigInv
    BY DEF KitInv
  <2>2. foreign[q] \ lately'[q] \subseteq operators'
    BY <2>1 DEF ProcessInv
  <2> QED BY <1>1, <2>1, <2>2, OthersStay
<1>5. /\ \A e \in Dirs : DirectoryInv(e)'
      /\ CaddyInv' /\ MarkedIsComplete'
  BY DEF KitInv, DirectoryInv, CaddyInv, MarkedIsComplete
<1>6. ConfigInv'
  BY <1>1 DEF KitInv, ConfigInv
<1>7. ConfigIsReady' /\ TrustIsOfOneSetup'
  BY <1>1 DEF KitInv, ConfigIsReady, TrustIsOfOneSetup
<1>8. OnlyInterruptionsStrand'
  <2>1. \A q \in Processes : HalfMade(q) \subseteq HalfMade(q)'
    BY <1>1 DEF HalfMade, Making
  <2> QED BY <2>1 DEF KitInv, OnlyInterruptionsStrand
<1> QED BY <1>2, <1>3, <1>4, <1>5, <1>6, <1>7, <1>8 DEF KitInv

\* A container that starts.
LEMMA ContainerType ==
  ASSUME NEW b \in Bases, NEW d \in Dirs
  PROVE  [base |-> b, dir |-> d, mounted |-> TRUE, ca |-> None] \in
           [base : Bases, dir : Dirs, mounted : BOOLEAN, ca : CAs \cup {None}]
<1>1. TRUE \in BOOLEAN /\ None \in CAs \cup {None}
  OBVIOUS
<1> QED BY <1>1

\* docker makes a directory only where one was lost.
LEMMA ComposeUpInv ==
  ASSUME KitInv, NEW p \in Processes, ComposeUp(p)
  PROVE  KitInv'
<1> USE DEF ComposeUp, Goto, bounds, history
<1> DEFINE d == args[p].dir
<1>1. /\ args[p] \in Options /\ d \in Dirs
      /\ pc[p] = "up" /\ pc'[p] = "wait"
      /\ \A q \in Processes \ {p} : pc'[q] = pc[q]
      /\ d \notin lost => entries[d] # None
  BY DEF KitInv, TypeOK, ProcessInv, SetupInv, DuringSetup, Options
<1>2. /\ entries[d] = None => entries'[d] = Layout \ {"marker"}
      /\ entries[d] # None => entries'[d] = entries[d]
      /\ \A e \in Dirs \ {d} : entries'[e] = entries[e]
      /\ None # Layout \ {"marker"}
  BY <1>1, NoneAssumption DEF KitInv, TypeOK, Listings
<1>3. TypeOK' /\ HistoryTypes'
  <2>1. entries' \in [Dirs -> Listings \cup {None}]
    BY <1>1 DEF KitInv, TypeOK, Listings
  <2>2. config.base \in Bases
    BY DEF KitInv, TypeOK, Setups
  <2>3. caddy' \in [base : Bases, dir : Dirs, mounted : BOOLEAN,
                    ca : CAs \cup {None}] \cup {None}
    <3>1. CASE caddy' = caddy
      BY <3>1 DEF KitInv, TypeOK
    <3>2. CASE caddy' = [base |-> config.base, dir |-> d, mounted |-> TRUE,
                         ca |-> None]
      BY <1>1, <2>2, <3>2, ContainerType
    <3>3. caddy' = caddy \/ caddy' = [base |-> config.base, dir |-> d,
                                     mounted |-> TRUE, ca |-> None]
      BY Zenon
    <3> QED BY <3>1, <3>2, <3>3
  <2> QED BY <2>1, <2>3 DEF KitInv, TypeOK, HistoryTypes
<1>4. ProcessInv(p)'
  <2>1. SetupInv(p)'
    BY <1>1 DEF SetupInv, Making
  <2>2. ReaderInv(p)'
    BY <1>1 DEF ReaderInv
  <2> QED BY <2>1, <2>2 DEF KitInv, ProcessInv
<1>5. ASSUME NEW q \in Processes \ {p} PROVE ProcessInv(q)'
  <2>1. TypeOK /\ ProcessInv(q) /\ ConfigInv
    BY DEF KitInv
  <2>2. foreign[q] \ lately'[q] \subseteq operators'
    BY <2>1 DEF ProcessInv
  <2>3. \A e \in Dirs : entries[e] # None => entries'[e] = entries[e]
    BY <1>2
  <2> QED BY <1>1, <2>1, <2>2, <2>3, OthersStay
<1>6. ASSUME NEW e \in Dirs PROVE DirectoryInv(e)'
  <2>1. "other" \notin Layout
    BY DEF Layout
  <2> QED BY <1>2, <2>1 DEF KitInv, DirectoryInv
<1>7. ConfigInv' /\ CaddyInv' /\ TrustIsOfOneSetup'
  BY DEF KitInv, ConfigInv, CaddyInv, TrustIsOfOneSetup
<1>8. MarkedIsComplete' /\ ConfigIsReady'
  <2>1. MarkedIsComplete'
    BY <1>2 DEF KitInv, MarkedIsComplete
  <2>2. config # None => config.dir \in Dirs
    BY DEF KitInv, TypeOK, Setups
  <2> QED BY <1>2, <2>1, <2>2 DEF KitInv, ConfigIsReady
<1>9. OnlyInterruptionsStrand'
  <2>1. \A q \in Processes : HalfMade(q) \subseteq HalfMade(q)'
    BY <1>1 DEF HalfMade, Making
  <2> QED BY <1>1, <1>2, <2>1 DEF KitInv, OnlyInterruptionsStrand
<1> QED BY <1>3, <1>4, <1>5, <1>6, <1>7, <1>8, <1>9 DEF KitInv

\* The bundle takes its Base URL and its CA from what the process has read.
LEMMA WriteTrustInv ==
  ASSUME KitInv, NEW p \in Processes, WriteTrust(p)
  PROVE  KitInv'
<1> USE DEF WriteTrust, Goto, bounds, history
<1>1. /\ pc[p] = "bundle" /\ pc'[p] = "passed"
      /\ \A q \in Processes \ {p} : pc'[q] = pc[q]
  BY DEF KitInv, TypeOK
<1>2. /\ read[p].config \in written /\ read[p].config \in Setups
      /\ <<read[p].ca, read[p].config.dir>> \in made
  BY <1>1 DEF KitInv, ProcessInv, ReaderInv, ConfigInv
<1>3. read[p].ca \in CAs
  BY <1>2 DEF KitInv, HistoryTypes
<1>4. TypeOK' /\ HistoryTypes'
  BY <1>2, <1>3 DEF KitInv, TypeOK, HistoryTypes, Bundles, Setups
<1>5. ProcessInv(p)'
  <2>1. SetupInv(p)'
    BY <1>1 DEF SetupInv, DuringSetup, Making
  <2>2. ReaderInv(p)'
    BY <1>1 DEF ReaderInv
  <2> QED BY <2>1, <2>2 DEF KitInv, ProcessInv
<1>6. ASSUME NEW q \in Processes \ {p} PROVE ProcessInv(q)'
  <2>1. TypeOK /\ ProcessInv(q) /\ ConfigInv
    BY DEF KitInv
  <2>2. foreign[q] \ lately'[q] \subseteq operators'
    BY <2>1 DEF ProcessInv
  <2> QED BY <1>1, <2>1, <2>2, OthersStay
<1>7. /\ \A e \in Dirs : DirectoryInv(e)'
      /\ ConfigInv' /\ CaddyInv' /\ MarkedIsComplete' /\ ConfigIsReady'
  BY DEF KitInv, DirectoryInv, ConfigInv, CaddyInv, MarkedIsComplete,
         ConfigIsReady
<1>8. TrustIsOfOneSetup'
  BY <1>2 DEF TrustIsOfOneSetup
<1>9. OnlyInterruptionsStrand'
  <2>1. \A q \in Processes : HalfMade(q) \subseteq HalfMade(q)'
    BY <1>1 DEF HalfMade, Making
  <2> QED BY <2>1 DEF KitInv, OnlyInterruptionsStrand
<1> QED BY <1>4, <1>5, <1>6, <1>7, <1>8, <1>9 DEF KitInv

\* What all processes and directories keep when none of them is concerned.
LEMMA BystandersStay ==
  ASSUME KitInv,
         UNCHANGED <<entries, pc, args, read, operators, foreign, raced,
                     touched, written, lost, lately, broken>>,
         made \subseteq made',
         \A d \in Dirs : key[d] # None => key'[d] # None
  PROVE  /\ \A q \in Processes : ProcessInv(q)'
         /\ MarkedIsComplete' /\ OnlyInterruptionsStrand'
<1>1. ASSUME NEW q \in Processes PROVE ProcessInv(q)'
  <2>1. TypeOK /\ ProcessInv(q) /\ ConfigInv
    BY DEF KitInv
  <2>2. foreign[q] \ lately'[q] \subseteq operators'
    BY <2>1 DEF ProcessInv
  <2> QED BY <2>1, <2>2, OthersStay
<1>2. MarkedIsComplete'
  BY DEF KitInv, MarkedIsComplete
<1>3. OnlyInterruptionsStrand'
  BY DEF KitInv, OnlyInterruptionsStrand, HalfMade
<1> QED BY <1>1, <1>2, <1>3

\* A container serves the CA of its directory.
LEMMA CreateCaInv ==
  ASSUME KitInv, CreateCa
  PROVE  KitInv'
<1>1. PICK k \in CAs : /\ ca' = [ca EXCEPT ![caddy.dir] = k]
                       /\ made' = made \cup {<<k, caddy.dir>>}
  BY DEF CreateCa
<1>2. /\ caddy # None /\ caddy.ca = None /\ ca[caddy.dir] = None
      /\ UNCHANGED <<entries, key, config, trust, caddy, pc, args, read,
                     commands, events, operators, foreign, raced, touched,
                     written, lost, lately, broken>>
  BY DEF CreateCa, bounds
<1>3. caddy.dir \in Dirs
  BY <1>2 DEF KitInv, TypeOK
<1>4. TypeOK' /\ HistoryTypes'
  BY <1>1, <1>2, <1>3 DEF KitInv, TypeOK, HistoryTypes
<1>5. /\ \A q \in Processes : ProcessInv(q)'
      /\ MarkedIsComplete' /\ OnlyInterruptionsStrand'
  BY <1>1, <1>2, BystandersStay
<1>6. ASSUME NEW d \in Dirs PROVE DirectoryInv(d)'
  BY <1>1, <1>2, <1>3 DEF KitInv, TypeOK, DirectoryInv
<1>7. ConfigInv' /\ CaddyInv' /\ ConfigIsReady'
  BY <1>2 DEF KitInv, ConfigInv, CaddyInv, ConfigIsReady
<1>8. TrustIsOfOneSetup'
  BY <1>1, <1>2 DEF KitInv, TrustIsOfOneSetup
<1> QED BY <1>4, <1>5, <1>6, <1>7, <1>8 DEF KitInv

LEMMA ServeInv ==
  ASSUME KitInv, Serve
  PROVE  KitInv'
<1> DEFINE d == caddy.dir
<1>1. /\ caddy # None /\ ca[d] # None
      /\ key' = [key EXCEPT ![d] = ca[d]]
      /\ caddy' = [caddy EXCEPT !.ca = ca[d]]
      /\ UNCHANGED <<entries, ca, config, trust, pc, args, read,
                     commands, events, operators, foreign, raced, touched,
                     made, written, lost, lately, broken>>
  BY DEF Serve, bounds, history
<1>2. /\ d \in Dirs /\ ca[d] \in CAs \cup {None}
      /\ caddy \in [base : Bases, dir : Dirs, mounted : BOOLEAN,
                    ca : CAs \cup {None}]
  BY <1>1 DEF KitInv, TypeOK
<1>3. /\ caddy' \in [base : Bases, dir : Dirs, mounted : BOOLEAN,
                     ca : CAs \cup {None}]
      /\ caddy'.dir = d /\ caddy'.ca = ca[d]
  <2> DEFINE k == ca[d]
  <2> HIDE DEF k
  <2>1. caddy' = [caddy EXCEPT !.ca = k] /\ k \in CAs \cup {None}
    BY <1>1, <1>2 DEF k
  <2>2. /\ [caddy EXCEPT !.ca = k] \in [base : Bases, dir : Dirs,
                                        mounted : BOOLEAN, ca : CAs \cup {None}]
        /\ [caddy EXCEPT !.ca = k].dir = d /\ [caddy EXCEPT !.ca = k].ca = k
    BY <1>2, <2>1
  <2> QED BY <2>1, <2>2 DEF k
<1>4. /\ key'[d] = ca[d] /\ \A e \in Dirs \ {d} : key'[e] = key[e]
      /\ key' \in [Dirs -> CAs \cup {None}]
  BY <1>1, <1>2 DEF KitInv, TypeOK
<1>5. TypeOK' /\ HistoryTypes'
  BY <1>1, <1>3, <1>4 DEF KitInv, TypeOK, HistoryTypes
<1>6. /\ \A q \in Processes : ProcessInv(q)'
      /\ MarkedIsComplete' /\ OnlyInterruptionsStrand'
  BY <1>1, <1>4, BystandersStay
<1>7. ASSUME NEW e \in Dirs PROVE DirectoryInv(e)'
  BY <1>1, <1>4 DEF KitInv, DirectoryInv
<1>8. ConfigInv' /\ ConfigIsReady' /\ TrustIsOfOneSetup'
  BY <1>1 DEF KitInv, ConfigInv, ConfigIsReady, TrustIsOfOneSetup
<1>9. CaddyInv'
  BY <1>1, <1>3 DEF CaddyInv
<1> QED BY <1>5, <1>6, <1>7, <1>8, <1>9 DEF KitInv

LEMMA RestartCaddyInv ==
  ASSUME KitInv, RestartCaddy
  PROVE  KitInv'
<1>1. /\ caddy # None
      /\ caddy' = [caddy EXCEPT !.ca = None, !.mounted = TRUE]
      /\ UNCHANGED <<entries, ca, key, config, trust, pc, args, read,
                     commands, events, operators, foreign, raced, touched,
                     made, written, lost, lately, broken>>
  BY DEF RestartCaddy, bounds, history, files
<1>2. caddy \in [base : Bases, dir : Dirs, mounted : BOOLEAN,
                 ca : CAs \cup {None}]
  BY <1>1 DEF KitInv, TypeOK
<1>3. /\ caddy' \in [base : Bases, dir : Dirs, mounted : BOOLEAN,
                     ca : CAs \cup {None}]
      /\ caddy'.ca = None
  BY <1>1, <1>2
<1>4. TypeOK' /\ HistoryTypes'
  BY <1>1, <1>3 DEF KitInv, TypeOK, HistoryTypes
<1>5. /\ \A q \in Processes : ProcessInv(q)'
      /\ MarkedIsComplete' /\ OnlyInterruptionsStrand'
  BY <1>1, BystandersStay
<1>6. /\ \A e \in Dirs : DirectoryInv(e)'
      /\ ConfigInv' /\ CaddyInv' /\ ConfigIsReady' /\ TrustIsOfOneSetup'
  BY <1>1, <1>3 DEF KitInv, DirectoryInv, ConfigInv, CaddyInv,
                    ConfigIsReady, TrustIsOfOneSetup
<1> QED BY <1>4, <1>5, <1>6 DEF KitInv

LEMMA DiscardInv ==
  ASSUME KitInv, Discard
  PROVE  KitInv'
<1>1. /\ config' = None /\ events' = events + 1
      /\ UNCHANGED <<entries, ca, key, trust, caddy, pc, args, read,
                     commands, operators, foreign, raced, touched,
                     made, written, lost, lately, broken>>
  BY DEF Discard, history
<1>2. TypeOK' /\ HistoryTypes'
  BY <1>1 DEF KitInv, TypeOK, HistoryTypes
<1>3. /\ \A q \in Processes : ProcessInv(q)'
      /\ MarkedIsComplete' /\ OnlyInterruptionsStrand'
  BY <1>1, BystandersStay
<1>4. /\ \A e \in Dirs : DirectoryInv(e)'
      /\ ConfigInv' /\ CaddyInv' /\ ConfigIsReady' /\ TrustIsOfOneSetup'
  BY <1>1 DEF KitInv, DirectoryInv, ConfigInv, CaddyInv,
              ConfigIsReady, TrustIsOfOneSetup
<1> QED BY <1>2, <1>3, <1>4 DEF KitInv

LEMMA KitStutters ==
  ASSUME KitInv, UNCHANGED vars
  PROVE  KitInv'
<1>1. UNCHANGED <<entries, ca, key, config, trust, caddy, pc, args, read,
                  commands, events, operators, foreign, raced, touched,
                  made, written, lost, lately, broken>>
  BY DEF vars
<1>2. TypeOK' /\ HistoryTypes'
  BY <1>1 DEF KitInv, TypeOK, HistoryTypes
<1>3. /\ \A q \in Processes : ProcessInv(q)'
      /\ MarkedIsComplete' /\ OnlyInterruptionsStrand'
  BY <1>1, BystandersStay
<1>4. /\ \A e \in Dirs : DirectoryInv(e)'
      /\ ConfigInv' /\ CaddyInv' /\ ConfigIsReady' /\ TrustIsOfOneSetup'
  BY <1>1 DEF KitInv, DirectoryInv, ConfigInv, CaddyInv,
              ConfigIsReady, TrustIsOfOneSetup
<1> QED BY <1>2, <1>3, <1>4 DEF KitInv

\* A directory that is lost is excepted from then on, as noted.
LEMMA LoseDirInv ==
  ASSUME KitInv, NEW d \in Dirs, LoseDir(d)
  PROVE  KitInv'
<1>1. /\ events' = events + 1
      /\ entries' = [entries EXCEPT ![d] = None]
      /\ ca' = [ca EXCEPT ![d] = None] /\ key' = [key EXCEPT ![d] = None]
      /\ operators' = operators \ {d} /\ lost' = lost \cup {d}
      /\ lately' = [p \in Processes |-> lately[p] \cup {d}]
      /\ UNCHANGED <<config, trust, pc, args, read, commands, foreign, raced,
                     touched, made, written, broken>>
  BY DEF LoseDir
<1>2. /\ entries'[d] = None /\ ca'[d] = None /\ key'[d] = None
      /\ \A e \in Dirs \ {d} : /\ entries'[e] = entries[e] /\ ca'[e] = ca[e]
                               /\ key'[e] = key[e]
      /\ entries' \in [Dirs -> Listings \cup {None}]
      /\ ca' \in [Dirs -> CAs \cup {None}] /\ key' \in [Dirs -> CAs \cup {None}]
  BY <1>1 DEF KitInv, TypeOK
<1>3. \/ caddy' = caddy
      \/ caddy # None /\ caddy' = [caddy EXCEPT !.mounted = FALSE]
  BY Zenon DEF LoseDir
<1>4. /\ caddy' # None => /\ caddy # None /\ caddy'.dir = caddy.dir
                          /\ caddy'.ca = caddy.ca
      /\ caddy' \in [base : Bases, dir : Dirs, mounted : BOOLEAN,
                     ca : CAs \cup {None}] \cup {None}
  <2>1. CASE caddy' = caddy
    BY <2>1 DEF KitInv, TypeOK
  <2>2. CASE caddy # None /\ caddy' = [caddy EXCEPT !.mounted = FALSE]
    <3>1. caddy \in [base : Bases, dir : Dirs, mounted : BOOLEAN,
                     ca : CAs \cup {None}]
      BY <2>2 DEF KitInv, TypeOK
    <3> QED BY <2>2, <3>1
  <2> QED BY <1>3, <2>1, <2>2
<1>5. TypeOK' /\ HistoryTypes'
  BY <1>1, <1>2, <1>4 DEF KitInv, TypeOK, HistoryTypes
<1>6. ASSUME NEW q \in Processes PROVE ProcessInv(q)'
  <2>1. TypeOK /\ ProcessInv(q) /\ ConfigInv
    BY DEF KitInv
  <2>2. lately'[q] = lately[q] \cup {d}
    BY <1>1
  <2>3. foreign[q] \ lately'[q] \subseteq operators'
    BY <1>1, <2>1, <2>2 DEF ProcessInv
  <2> QED BY <1>1, <1>2, <2>1, <2>2, <2>3, OthersStay
<1>7. ASSUME NEW e \in Dirs PROVE DirectoryInv(e)'
  BY <1>1, <1>2 DEF KitInv, DirectoryInv
<1>8. ConfigInv' /\ TrustIsOfOneSetup'
  BY <1>1 DEF KitInv, ConfigInv, TrustIsOfOneSetup
<1>9. CaddyInv'
  <2>1. caddy # None => caddy.dir \in Dirs
    BY DEF KitInv, TypeOK
  <2> QED BY <1>2, <1>4, <2>1 DEF KitInv, CaddyInv
<1>10. MarkedIsComplete' /\ ConfigIsReady'
  <2>1. config # None => config.dir \in Dirs
    BY DEF KitInv, TypeOK, Setups
  <2> QED BY <1>1, <1>2, <2>1
        DEF KitInv, MarkedIsComplete, ConfigIsReady
<1>11. OnlyInterruptionsStrand'
  BY <1>1, <1>2 DEF KitInv, OnlyInterruptionsStrand, HalfMade
<1> QED BY <1>5, <1>6, <1>7, <1>8, <1>9, <1>10, <1>11 DEF KitInv

\* A directory the operator makes is his, and noted if a set-up is about it.
LEMMA OccupyInv ==
  ASSUME KitInv, NEW d \in Dirs, Occupy(d)
  PROVE  KitInv'
<1>1. PICK listing \in {{}, {"other"}} : entries' = [entries EXCEPT ![d] = listing]
  BY DEF Occupy
<1>2. /\ events' = events + 1 /\ entries[d] = None
      /\ operators' = operators \cup {d}
      /\ UNCHANGED <<ca, key, config, trust, caddy, pc, args, read, commands,
                     foreign, touched, made, written, lost, lately, broken>>
  BY DEF Occupy
<1>3. /\ raced \subseteq raced'
      /\ \A p \in Processes :
           pc[p] \in Making \cup {"mkdir"} /\ args[p].dir = d => d \in raced'
      /\ raced' \subseteq raced \cup {d}
  BY DEF Occupy
<1>4. listing \in Listings /\ listing # None /\ "marker" \notin listing
  BY NoneAssumption DEF Listings
<1>5. /\ entries'[d] = listing
      /\ \A e \in Dirs \ {d} : entries'[e] = entries[e]
      /\ entries' \in [Dirs -> Listings \cup {None}]
  BY <1>1, <1>4 DEF KitInv, TypeOK
<1>6. TypeOK' /\ HistoryTypes'
  BY <1>2, <1>5 DEF KitInv, TypeOK, HistoryTypes
<1>7. ASSUME NEW q \in Processes PROVE ProcessInv(q)'
  <2>1. TypeOK /\ ProcessInv(q) /\ ConfigInv
    BY DEF KitInv
  <2>2. foreign[q] \ lately'[q] \subseteq operators'
    BY <1>2, <2>1 DEF ProcessInv
  <2> QED BY <1>2, <1>3, <1>5, <2>1, <2>2, OthersStay
<1>8. ASSUME NEW e \in Dirs PROVE DirectoryInv(e)'
  BY <1>2, <1>3, <1>4, <1>5 DEF KitInv, DirectoryInv
<1>9. ConfigInv' /\ CaddyInv' /\ TrustIsOfOneSetup'
  BY <1>2 DEF KitInv, ConfigInv, CaddyInv, TrustIsOfOneSetup
<1>10. MarkedIsComplete' /\ ConfigIsReady'
  <2>1. config # None => config.dir \in Dirs
    BY DEF KitInv, TypeOK, Setups
  <2> QED BY <1>2, <1>4, <1>5, <2>1
        DEF KitInv, MarkedIsComplete, ConfigIsReady
<1>11. OnlyInterruptionsStrand'
  BY <1>2, <1>5 DEF KitInv, OnlyInterruptionsStrand, HalfMade
<1> QED BY <1>6, <1>7, <1>8, <1>9, <1>10, <1>11 DEF KitInv

LEMMA KitNextInv ==
  ASSUME KitInv, [Next]_vars
  PROVE  KitInv'
<1>1. ASSUME NEW p \in Processes, Command(p) PROVE KitInv'
  <2>1. CASE Setup(p)
    BY <2>1, BeginInv DEF Setup
  <2>2. CASE Export(p)
    BY <2>2, BeginInv DEF Export
  <2>3. CASE Doctor(p)
    BY <2>3, BeginInv DEF Doctor
  <2> QED BY <1>1, <2>1, <2>2, <2>3 DEF Command
<1>2. ASSUME NEW p \in Processes, Step(p) PROVE KitInv'
  <2>1. CASE Compare(p) \/ Prepare(p) \/ CaAppears(p)
    BY <2>1, CompareInv, PrepareInv, CaAppearsInv
  <2>2. CASE MakeDir(p) \/ MakeData(p) \/ MakeConfig(p) \/ Mark(p)
    BY <2>2, MakeDirInv, MakeDataInv, MakeConfigInv, MarkInv
  <2>3. CASE Chmod(p) \/ WriteConfig(p) \/ ComposeUp(p)
    BY <2>3, ChmodInv, WriteConfigInv, ComposeUpInv
  <2>4. CASE Deadline(p) \/ Throw(p)
    BY <2>4, BreakOffInv DEF Deadline, Throw
  <2>5. CASE \/ ParseConfig(p, "parse", "private")
             \/ ParseConfig(p, "dparse", "dprivate")
    BY <2>5, ParseConfigInv
  <2>6. CASE \/ PrivateMaterial(p, "private", "readca")
             \/ PrivateMaterial(p, "dprivate", "dtrust")
    BY <2>6, PrivateMaterialInv
  <2>7. CASE ReadCa(p) \/ Target(p) \/ WriteTrust(p)
    BY <2>7, ReadCaInv, TargetInv, WriteTrustInv
  <2>8. CASE \/ ReadTrust(p) \/ Resolves(p) \/ Answers204(p)
             \/ Drain(p)
    BY <2>8, ReadTrustInv, DoctorEndsInv
  <2> QED BY <1>2, <2>1, <2>2, <2>3, <2>4, <2>5, <2>6, <2>7, <2>8 DEF Step
<1>3. ASSUME NEW p \in Processes, Kill(p) PROVE KitInv'
  BY <1>3, BreakOffInv DEF Kill
<1>4. CASE CreateCa \/ Serve \/ RestartCaddy \/ Discard
  BY <1>4, CreateCaInv, ServeInv, RestartCaddyInv, DiscardInv
<1>5. ASSUME NEW d \in Dirs, LoseDir(d) \/ Occupy(d) PROVE KitInv'
  BY <1>5, LoseDirInv, OccupyInv
<1>6. CASE UNCHANGED vars
  BY <1>6, KitStutters
<1> QED BY <1>1, <1>2, <1>3, <1>4, <1>5, <1>6 DEF Next

\* The inductive invariant of the kit, for any number of commands, directories
\* and CAs: where every set-up stands in making its directory, whose each
\* directory is, and where each config and each CA comes from.
THEOREM KitInvariance == Spec => []KitInv
<1>1. KitInv /\ [Next]_vars => KitInv'
  BY KitNextInv
<1> QED BY KitInitInv, <1>1, PTL DEF Spec

\* However set-ups overlap and wherever they stop, what is on disk never
\* promises more than was done, and the operator's directories are left alone
\* (setup of scripts/https-kit.mjs).
THEOREM KitDirectoriesAreSafe == Spec => []DirectoriesAreSafe
<1>1. KitInv => DirectoriesAreSafe
  BY DEF KitInv, ProcessInv, DirectoriesAreSafe, ForeignUntouched
<1> QED BY <1>1, KitInvariance, PTL

\* The bundle is of one set-up: its CA was made in the directory of a config
\* with its Base URL (exportTrust, which reads both before it writes).
THEOREM KitTrustIsOfOneSetup == Spec => []TrustIsOfOneSetup
<1>1. KitInv => TrustIsOfOneSetup
  BY DEF KitInv, TrustIsOfOneSetup
<1> QED BY <1>1, KitInvariance, PTL

\* A process that passes from the handshake has had it verified.
LEMMA PassedIsVerified ==
  ASSUME KitInv, [Next]_vars, NEW p \in Processes,
         pc[p] = "tls", pc'[p] = "passed"
  PROVE  Verified(read[p].trust)
<1>1. PICK q \in Processes : Command(q) \/ Step(q) \/ Kill(q)
  <2>1. pc' # pc
    OBVIOUS
  <2> QED BY <2>1 DEF Next, CreateCa, Serve, RestartCaddy,
                      LoseDir, Occupy, Discard, vars
<1>2. \E s : pc' = [pc EXCEPT ![q] = s]
  BY <1>1 DEF Command, Step, Kill, Setup, Export,
    Doctor, Begin, Compare, Prepare, MakeDir, MakeData,
    MakeConfig, Mark, NewChild, Into, Chmod,
    WriteConfig, ComposeUp, CaAppears, Deadline, Throw,
    BreakOff, ParseConfig, PrivateMaterial, ReadCa, Target,
    WriteTrust, ReadTrust, Resolves, Answers204, Drain,
    Goto
<1>3. q = p
  BY <1>2 DEF KitInv, TypeOK
<1>4. p \in DOMAIN pc
  BY DEF KitInv, TypeOK
\* Every other step starts elsewhere, or ends elsewhere.
<1>5. ~ Command(p)
  BY DEF Command, Setup, Export, Doctor, Begin, Ended
<1>6. ~ (Kill(p) \/ Throw(p) \/ Drain(p))
  BY <1>4 DEF Kill, Throw, Drain, BreakOff, Goto
<1>7. ~ (\/ Compare(p) \/ Prepare(p) \/ MakeDir(p)
         \/ MakeData(p) \/ MakeConfig(p) \/ Mark(p))
  BY DEF Compare, Prepare, MakeDir, MakeData, MakeConfig,
         Mark, NewChild, Into
<1>8. ~ (\/ Chmod(p) \/ WriteConfig(p) \/ ComposeUp(p)
         \/ CaAppears(p) \/ Deadline(p))
  BY DEF Chmod, WriteConfig, ComposeUp, CaAppears, Deadline
<1>9. ~ (\/ ParseConfig(p, "parse", "private")
         \/ PrivateMaterial(p, "private", "readca")
         \/ ReadCa(p) \/ Target(p) \/ WriteTrust(p)
         \/ ParseConfig(p, "dparse", "dprivate")
         \/ PrivateMaterial(p, "dprivate", "dtrust")
         \/ ReadTrust(p) \/ Resolves(p))
  BY DEF ParseConfig, PrivateMaterial, ReadCa, Target,
         WriteTrust, ReadTrust, Resolves
<1>10. Answers204(p)
  BY <1>1, <1>3, <1>5, <1>6, <1>7, <1>8, <1>9 DEF Step
<1> QED BY <1>10 DEF Answers204

\* A doctor that passes has proved the CA that is kept in the directory of the
\* config, though the container answers from its memory (doctor, which checks
\* the private key before it asks the endpoint).
THEOREM KitDoctorProves == Spec => DoctorProves
<1> DEFINE Proved ==
      \A p \in Processes :
        pc[p] = "tls" /\ pc'[p] = "passed" =>
          LET d == read[p].config.dir IN
            d = caddy.dir /\ d \notin lately[p] => read[p].trust.ca = ca[d]
<1>1. KitInv /\ [Next]_vars => Proved
  <2> SUFFICES ASSUME KitInv, [Next]_vars, NEW p \in Processes,
                      pc[p] = "tls", pc'[p] = "passed",
                      read[p].config.dir = caddy.dir,
                      read[p].config.dir \notin lately[p]
               PROVE  read[p].trust.ca = ca[caddy.dir]
    OBVIOUS
  <2>1. /\ caddy # None /\ caddy.ca = read[p].trust.ca
    BY PassedIsVerified DEF Verified
  <2>2. key[caddy.dir] # None /\ read[p].trust \in Bundles
    BY DEF KitInv, ProcessInv, ReaderInv
  <2>3. caddy.ca # None
    BY <2>1, <2>2, NoneAssumption DEF Bundles
  <2> QED BY <2>1, <2>2, <2>3 DEF KitInv, CaddyInv
<1> QED BY <1>1, KitInvariance, PTL DEF Spec, DoctorProves
=============================================================================
