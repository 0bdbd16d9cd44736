----------------------------- MODULE MCScripts -----------------------------
(***************************************************************************)
(* Instances for TLC of the scripts around docker.  SourceExport has three *)
(* revisions, one of which adds a file, changes one, and one whose tree    *)
(* cannot be exported; SmokeRun has no constants.  A behaviour is one of   *)
(* one script: the smoke takes its own export for one step.                *)
(***************************************************************************)
EXTENDS SourceExport, TLC

CONSTANTS r1, r2, r3, p1, p2, b1, b2, e1, e2, t1

VARIABLES
  script,                                                    \* which it is of
  phase, step, resources, there, files, stranded, refused    \* of SmokeRun

smokeVars == <<phase, step, resources, there, files, stranded, refused>>

MCTree == (r1 :> (p1 :> b1)) @@ (r2 :> ((p1 :> b2) @@ (p2 :> b1)))
            @@ (r3 :> (p2 :> b2))
MCTagOf == (e1 :> t1) @@ (e2 :> t1)

Smoke == INSTANCE SmokeRun

\* Where HEAD is makes no difference to the smoke
MCInit ==
  /\ ExportInit /\ Smoke!Init
  /\ script = "export" \/ (script = "smoke" /\ head = r1)

MCNext ==
  /\ UNCHANGED script
  /\ \/ script = "export" /\ ExportNext /\ UNCHANGED smokeVars
     \/ script = "smoke" /\ Smoke!Next /\ UNCHANGED exportVars

MCSpec == MCInit /\ [][MCNext]_<<script, exportVars, smokeVars>>

\* A smoke that gets to its finally block leaves nothing that it could have
\* removed (cleanup of smoke-containers.mjs).
CleanedUp == script = "smoke" => Smoke!TypeOK /\ Smoke!CleanedUp
=============================================================================
