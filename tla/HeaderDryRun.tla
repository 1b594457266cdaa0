---------------------------- MODULE HeaderDryRun ----------------------------
(***************************************************************************)
(* Two runs of add_file_headers.py on the same tree with the same path,    *)
(* --exclude and --force arguments: a real one, whose state is HeaderTool's *)
(* own variables, and one with --dry-run (lines 226 and 234-235), whose     *)
(* state is a second copy.  The two processes share nothing, so their       *)
(* steps interleave freely.                                                 *)
(***************************************************************************)
EXTENDS HeaderTool

VARIABLES
    dContent, dOriginal, dPaths, dExcludes, dForce, dDryRun, dArgIdx,
    dPending, dWalking, dProcessed, dSkipped, dAlreadyHasHeader, dStage

dvars == <<dContent, dOriginal, dPaths, dExcludes, dForce, dDryRun, dArgIdx,
           dPending, dWalking, dProcessed, dSkipped, dAlreadyHasHeader, dStage>>

Dry == INSTANCE HeaderTool
         WITH content <- dContent, original <- dOriginal, paths <- dPaths,
              excludes <- dExcludes, force <- dForce, dryRun <- dDryRun,
              argIdx <- dArgIdx, pending <- dPending, walking <- dWalking,
              processed <- dProcessed, skipped <- dSkipped,
              alreadyHasHeader <- dAlreadyHasHeader, stage <- dStage

(* Lines 224-231: the same command line, once without and once with        *)
(* --dry-run, on the same files.                                           *)
BothInit ==
    /\ Init /\ ~dryRun
    /\ Dry!Init /\ dDryRun
    /\ dContent = content /\ dPaths = paths /\ dExcludes = excludes /\ dForce = force

BothNext ==
    \/ Next /\ UNCHANGED dvars
    \/ Dry!Next /\ UNCHANGED vars

BothSpec == BothInit /\ [][BothNext]_<<vars, dvars>>

-----------------------------------------------------------------------------
(* The help text of --dry-run (line 226) reads "Show what would be done    *)
(* without making changes": once both runs have printed their summaries,   *)
(* "Files that would be processed" (line 302) equals the "Files processed *)
(* (headers added)" of the real run (line 304).                            *)
DryRunPredictsRun ==
    (dStage = "done" /\ stage = "done") => dProcessed = processed

=============================================================================
