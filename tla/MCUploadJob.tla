---------------------------- MODULE MCUploadJob ----------------------------
(* Instances of UploadJob for TLC: which steps may fail in a run. *)
EXTENDS UploadJob

\* Every step of run that can return an error.
MCAllSteps == Stages \cup {SyncingRemoteSchemaFailedState, ConnectFailedState}

\* A schema-generation case whose err is shadowed, and a load-file case
\* whose err reaches setUploadError: both keep failing.
MCRetriedSteps == {GeneratingUploadSchemaFailed, GeneratingLoadFileFailedState}

\* No step fails.
MCNoSteps == {}
====
