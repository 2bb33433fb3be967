---------------------------- MODULE MCAnalysisRuns ----------------------------
(* Two presses of Analyze, on an archive, a folder or a path that vanished.  *)
(* Three milestones stand for the nine of analyzeData.                       *)
EXTENDS AnalysisRuns

CONSTANTS archive, folder, gone

MCArchives == {archive}
MCFolders == {folder}
MCMissing == {gone}
MCMilestones == <<5, 40, 88>>
=============================================================================
