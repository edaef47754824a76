----------------------------- MODULE MCRelease -----------------------------
(* Instances of Release for TLC.                                           *)
EXTENDS Release

MCModules == <<"http", "core", "s3">>
=============================================================================
