---------------------------- MODULE MCExportJobs ----------------------------
(***************************************************************************)
(* Export jobs on small instances.  Two jobs differ in their name only, so *)
(* safety runs with two jobs may exchange them.                            *)
(***************************************************************************)
EXTENDS ExportJobs, TLC

JobSymmetry == Permutations(Job)
=============================================================================
