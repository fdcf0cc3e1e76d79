----------------------------- MODULE UploadJob -----------------------------
(***************************************************************************)
(* The warehouse upload job of src/warehouse/upload.go: UploadJobT.run,   *)
(* its state loop, and the bookkeeping in setUploadStatus and            *)
(* setUploadError that decides when a failing upload is aborted.          *)
(*                                                                         *)
(* One upload row (wh_uploads: status, error, timings) and the job's      *)
(* in-memory copy job.upload are modelled.  Every stage body (schema      *)
(* generation, table uploads, load files, counts, migration, the three    *)
(* exports) is abstracted to its outcome: it succeeds or it fails.  Every *)
(* database statement of the bookkeeping may fail; the code ignores most  *)
(* of those errors, and the model follows it.  A stage failure or a DB    *)
(* fault is drawn from a budget so that runs can bound them.              *)
(***************************************************************************)
EXTENDS Naturals, FiniteSets

CONSTANTS
    MinRetryAttempts,  \* minRetryAttempts: attempts before an abort is considered
    FailingSteps,      \* failure states of the steps that may fail in this run
    MaxStageFaults,    \* stage failures the environment may inject, or Unbounded
    Unbounded,         \* model value: failures never run out
    MaxDbFaults,       \* failed DB statements the environment may inject
    MaxCrashes         \* process crashes (panics included) followed by a re-run

(* Upload states: the constants of upload.go that run can write. *)
WaitingState                     == "waiting"
RemoteSchemaChanged              == "remote_schema_changed"
GeneratedUploadSchema            == "generated_upload_schema"
GeneratingUploadSchemaFailed     == "generating_upload_schema_failed"
TableUploadsCreated              == "table_uploads_created"
TableUploadsCreationFailed       == "table_uploads_creation_failed"
TableUploadsCountsUpdated        == "table_uploads_event_counts_updated"
TableUploadsCountsUpdateFailed   == "table_uploads_event_count"
GeneratingLoadFileFailedState    == "generating_load_file_failed"
GeneratedLoadFileState           == "generated_load_file"
UpdatingSchemaFailedState        == "updating_schema_failed"
UpdatedSchemaState               == "updated_schema"
ExportingDataFailedState         == "exporting_data_failed"
ExportedDataState                == "exported_data"
ExportingUserTablesFailedState   == "exporting_user_tables_failed"
ExportedUserTablesState          == "exported_user_tables"
LoadIdentitiesFailedState        == "load_identities_failed"
LoadedIdentitiesState            == "load_identities"
AbortedState                     == "aborted"
SyncingRemoteSchemaFailedState   == "syncing_remote_schema_failed"
ConnectFailedState               == "connect_failed"

(* The cases of run's switch, one per stage, named by the failure state  *)
(* the case sets first: the states that enter it, the state it moves to  *)
(* on success, and whether its error is declared with := inside the case *)
(* (shadowing run's err, so the loop never sees it).                     *)
Stage ==
    [s \in {GeneratingUploadSchemaFailed, TableUploadsCreationFailed,
            GeneratingLoadFileFailedState, TableUploadsCountsUpdateFailed,
            UpdatingSchemaFailedState, ExportingUserTablesFailedState,
            LoadIdentitiesFailedState, ExportingDataFailedState} |->
       CASE s = GeneratingUploadSchemaFailed ->
              [entry |-> {s, WaitingState, RemoteSchemaChanged}, done |-> GeneratedUploadSchema, shadowed |-> TRUE]
         [] s = TableUploadsCreationFailed ->
              [entry |-> {s, GeneratedUploadSchema}, done |-> TableUploadsCreated, shadowed |-> TRUE]
         [] s = GeneratingLoadFileFailedState ->
              [entry |-> {s, TableUploadsCreated}, done |-> GeneratedLoadFileState, shadowed |-> FALSE]
         [] s = TableUploadsCountsUpdateFailed ->
              [entry |-> {s, GeneratedLoadFileState}, done |-> TableUploadsCountsUpdated, shadowed |-> FALSE]
         [] s = UpdatingSchemaFailedState ->
              [entry |-> {s, TableUploadsCountsUpdated}, done |-> UpdatedSchemaState, shadowed |-> FALSE]
         [] s = ExportingUserTablesFailedState ->
              [entry |-> {s, UpdatedSchemaState}, done |-> ExportedUserTablesState, shadowed |-> FALSE]
         [] s = LoadIdentitiesFailedState ->
              [entry |-> {s, ExportedUserTablesState}, done |-> LoadedIdentitiesState, shadowed |-> FALSE]
         [] s = ExportingDataFailedState ->
              [entry |-> {s, LoadedIdentitiesState}, done |-> ExportedDataState, shadowed |-> FALSE]]

Stages      == DOMAIN Stage
StageDone   == {Stage[f].done : f \in Stages}
States      == Stages \cup StageDone \cup {WaitingState, RemoteSchemaChanged, AbortedState,
                                      SyncingRemoteSchemaFailedState, ConnectFailedState}
\* Attempt counts only matter through "> MinRetryAttempts": saturate there.
Cap         == MinRetryAttempts + 1
Sat(n)      == IF n > Cap THEN Cap ELSE n

\* The case of the switch a state enters, or NoStage for the default case.
NoStage == "default"

\* Mutant: ExportedUserTablesState grouped with the identities case's
\* failure, so a resumed upload skips loading identities.
StageOfMisgrouped(state) ==
    IF state = ExportedUserTablesState THEN ExportingDataFailedState
    ELSE IF \E f \in Stages : state \in Stage[f].entry
         THEN CHOOSE f \in Stages : state \in Stage[f].entry
         ELSE NoStage

StageOf(state) ==
    IF \E f \in Stages : state \in Stage[f].entry
    THEN CHOOSE f \in Stages : state \in Stage[f].entry
    ELSE NoStage

\* The loop's exit test: the states whose case does nothing and breaks.
Finished(state) == state \in {ExportedDataState, AbortedState}

VARIABLES
    pc,          \* "start" (run about to begin), "loop" (in the for loop), "returned"
    curr,        \* run's currState
    memStatus,   \* job.upload.Status
    memErr,      \* attempts per state as held in job.upload.Error
    dbStatus,    \* wh_uploads.status
    dbErr,       \* attempts per state in wh_uploads.error
    firstAt,     \* wh_uploads.timings[0]: "none", "recent", or "old" (older than retryTimeWindow)
    hasStaging,  \* len(job.stagingFiles) > 0
    result,      \* what run returned: "none", "ok" or "err"
    failures,    \* history: setUploadError calls per state
    ran,         \* history: stages that succeeded since the upload schema was generated
    iter,        \* parity of loop iterations: each one appends to the timings
    stageFaults, dbFaults, crashes  \* budgets used

vars == <<pc, curr, memStatus, memErr, dbStatus, dbErr, firstAt, hasStaging,
          result, failures, ran, iter, stageFaults, dbFaults, crashes>>

Current == [pc |-> pc, curr |-> curr, memStatus |-> memStatus, memErr |-> memErr,
            dbStatus |-> dbStatus, dbErr |-> dbErr, firstAt |-> firstAt,
            result |-> result, failures |-> failures, ran |-> ran,
            stageFaults |-> stageFaults, dbFaults |-> dbFaults, ret |-> NoStage]

Install(s) ==
    /\ pc' = s.pc /\ curr' = s.curr /\ memStatus' = s.memStatus /\ memErr' = s.memErr
    /\ dbStatus' = s.dbStatus /\ dbErr' = s.dbErr /\ firstAt' = s.firstAt
    /\ result' = s.result /\ failures' = s.failures /\ ran' = s.ran
    /\ stageFaults' = s.stageFaults /\ dbFaults' = s.dbFaults
    /\ UNCHANGED <<hasStaging, crashes>>

-----------------------------------------------------------------------------
(* Database statements.  o[i] is whether the i-th statement of a step     *)
(* succeeds; failures are drawn from the DB fault budget.                  *)
Misses(o) == Cardinality({i \in DOMAIN o : ~o[i]})
DbOutcomes(s, n) == {o \in [1..n -> BOOLEAN] : s.dbFaults + Misses(o) <= MaxDbFaults}

\* getNewTimings: the timings read back (getUploadTimings, empty when the
\* read fails) with the new entry appended; the first entry after writing.
FirstTimingAfterWrite(first, readOk) ==
    IF ~readOk \/ first = "none" THEN "recent" ELSE first

\* getUploadFirstAttemptTime: the zero time when the read fails, so the
\* window counts as not yet passed.
FirstAttemptOld(s, readOk) == readOk /\ s.firstAt = "old"

\* Mutant: setUploadColumns given the timings where the status belongs.
SetUploadStatusSwapped(s, status) ==
    {[s EXCEPT !.memStatus = status,
               !.dbStatus  = IF o[2] THEN s.firstAt ELSE @,
               !.firstAt   = IF o[2] THEN FirstTimingAfterWrite(@, o[1]) ELSE @,
               !.dbFaults  = @ + Misses(o)] : o \in DbOutcomes(s, 2)}

\* setUploadStatus: job.upload.Status is set whatever happens; the row's
\* status and timings are written by one UPDATE.  getNewTimings reads the
\* timings first: when that read fails the written list holds only the
\* new entry, so the first timing restarts.  The UPDATE's error is returned
\* and ignored by every caller.
SetUploadStatus(s, status) ==
    {[s EXCEPT !.memStatus = status,
               !.dbStatus  = IF o[2] THEN status ELSE @,
               !.firstAt   = IF o[2] THEN FirstTimingAfterWrite(@, o[1]) ELSE @,
               !.dbFaults  = @ + Misses(o)] : o \in DbOutcomes(s, 2)}

\* Mutant: abort once the attempts reach minRetryAttempts.
AttemptReachedOffByOne(a) == a >= MinRetryAttempts

\* setUploadError's retry test on the incremented attempt count.
AttemptExceeded(a) == a > MinRetryAttempts

\* setUploadError(err, state): setUploadStatus(state); the attempt count of
\* state is job.upload.Error's plus one; past minRetryAttempts the first
\* timing is read (getUploadFirstAttemptTime) and, when older than
\* retryTimeWindow, the state becomes aborted; status and error are written
\* by one UPDATE, and job.upload is updated only when that UPDATE FAILS.
\* ret is the state returned.
SetUploadError(s, state) ==
    UNION {LET a  == Sat(s1.memErr[state] + 1)
               e  == [s1.memErr EXCEPT ![state] = a]
           IN  {LET st == IF AttemptExceeded(a) /\ FirstAttemptOld(s1, o[1])
                          THEN AbortedState ELSE state
                IN  [s1 EXCEPT !.dbStatus  = IF o[2] THEN st ELSE @,
                               !.dbErr     = IF o[2] THEN e ELSE @,
                               !.memStatus = IF o[2] THEN @ ELSE st,
                               !.memErr    = IF o[2] THEN @ ELSE e,
                               !.failures  = [@ EXCEPT ![state] = Sat(@ + 1)],
                               !.dbFaults  = @ + Misses(o),
                               !.ret       = st]
                : o \in {o \in DbOutcomes(s1, 2) : o[1] \/ AttemptExceeded(a)}}
           : s1 \in SetUploadStatus(s, state)}

\* Whether a step may fail now, and the budget it uses.
MayFail(s, f) == f \in FailingSteps /\ (MaxStageFaults = Unbounded \/ s.stageFaults < MaxStageFaults)
ChargeStage(s) == IF MaxStageFaults = Unbounded THEN s ELSE [s EXCEPT !.stageFaults = @ + 1]

\* The end of an iteration: currState = nextState; setUploadStatus(currState).
Advance(s, next) == {[t EXCEPT !.curr = next] : t \in SetUploadStatus(s, next)}

Returned(s, r) == [s EXCEPT !.pc = "returned", !.result = r]

-----------------------------------------------------------------------------
\* A successful syncRemoteSchema: the warehouse schema equals the local one,
\* or it differs, the local copy is updated and run sets the status to
\* remote_schema_changed, which sends the upload back to its first case.
SyncRemoteSchema(s) == {s} \cup SetUploadStatus(s, RemoteSchemaChanged)

(* run, up to the loop: the staging-file check, syncRemoteSchema (which  *)
(* may find the remote schema changed and restart the upload), and        *)
(* whManager.Setup; each error is recorded by setUploadError and returned. *)
Start ==
    LET s == Current
        Fail(t, state) == {Returned(u, "err") : u \in SetUploadError(t, state)}
        Connect(t) == IF MayFail(t, ConnectFailedState)
                      THEN Fail(ChargeStage(t), ConnectFailedState)
                           \cup {[t EXCEPT !.pc = "loop", !.curr = t.memStatus]}
                      ELSE {[t EXCEPT !.pc = "loop", !.curr = t.memStatus]}
        Synced == UNION {Connect(t) : t \in SyncRemoteSchema(s)}
    IN  /\ pc = "start"
        /\ \E t \in IF ~hasStaging THEN Fail(s, GeneratingLoadFileFailedState)
                    ELSE IF MayFail(s, SyncingRemoteSchemaFailedState)
                         THEN Fail(ChargeStage(s), SyncingRemoteSchemaFailedState) \cup Synced
                         ELSE Synced
             : Install(t)
        /\ UNCHANGED iter

\* One iteration of run's for loop: the switch on currState, the exit test,
\* setUploadError and the abort on a non-nil err, then setUploadStatus.
\* A case whose err is shadowed fails without err ever being set: no
\* setUploadError, no sleep, the failure state is simply entered.
LoopStep ==
    LET s == Current
        c == curr
        f == StageOf(c)
        Succeed == LET d == Stage[f].done
                   IN  Advance([s EXCEPT !.ran = IF f = GeneratingUploadSchemaFailed
                                                  THEN {d} ELSE @ \cup {d}], d)
        Failure == LET t == ChargeStage(s)
                   IN  IF Stage[f].shadowed THEN Advance(t, f)
                       ELSE UNION {Advance(u, IF u.ret = AbortedState THEN AbortedState ELSE f)
                                   : u \in SetUploadError(t, c)}
    IN  /\ pc = "loop"
        /\ iter' = 1 - iter
        /\ \/ /\ Finished(c)
              /\ Install(Returned(s, IF c = ExportedDataState THEN "ok" ELSE "err"))
           \/ /\ ~Finished(c) /\ f = NoStage
              \* default case: start again (the no-op case of exported_data
              \* and aborted keeps nextState, which is currState)
              /\ \E t \in Advance(s, IF c \in {ExportedDataState, AbortedState}
                                     THEN c ELSE WaitingState) : Install(t)
           \/ /\ ~Finished(c) /\ f # NoStage
              /\ \E t \in Succeed \cup (IF MayFail(s, f) THEN Failure ELSE {}) : Install(t)

\* The first timing ages past retryTimeWindow.
WindowPasses ==
    /\ firstAt = "recent"
    /\ firstAt' = "old"
    /\ UNCHANGED <<pc, curr, memStatus, memErr, dbStatus, dbErr, hasStaging,
                   result, failures, ran, iter, stageFaults, dbFaults, crashes>>

\* The process dies (a crash, or one of the panics of setStagingFilesStatus
\* and createLoadFiles) and the upload is picked up again: job.upload is
\* reloaded from its row and run starts over.  Only uploads whose row is
\* neither exported_data nor aborted are picked up; a crash after such a
\* row is written ends the upload as run's return does.
Crash ==
    /\ pc \in {"start", "loop"}
    /\ dbStatus \notin {ExportedDataState, AbortedState}
    /\ crashes < MaxCrashes
    /\ pc' = "start" /\ memStatus' = dbStatus /\ memErr' = dbErr
    /\ crashes' = crashes + 1
    /\ UNCHANGED <<curr, dbStatus, dbErr, firstAt, hasStaging, result, failures,
                   ran, iter, stageFaults, dbFaults>>

\* run has returned; nothing more happens to this upload in this model.
Terminated == pc = "returned" /\ UNCHANGED vars

Init ==
    /\ pc = "start" /\ curr = WaitingState
    /\ memStatus = WaitingState /\ dbStatus = WaitingState
    /\ memErr = [x \in States |-> 0] /\ dbErr = memErr
    /\ firstAt = "none" /\ hasStaging \in BOOLEAN /\ result = "none"
    /\ failures = [x \in States |-> 0] /\ ran = {} /\ iter = 0
    /\ stageFaults = 0 /\ dbFaults = 0 /\ crashes = 0

Next == Start \/ LoopStep \/ WindowPasses \/ Crash \/ Terminated

\* run executes on its own goroutine and time passes: both are weakly fair.
Spec == Init /\ [][Next]_vars
        /\ WF_vars(Start) /\ WF_vars(LoopStep) /\ WF_vars(WindowPasses)

-----------------------------------------------------------------------------
TypeOK ==
    /\ pc \in {"start", "loop", "returned"}
    /\ curr \in States /\ memStatus \in States /\ dbStatus \in States
    /\ memErr \in [States -> 0..Cap] /\ dbErr \in [States -> 0..Cap]
    /\ failures \in [States -> 0..Cap]
    /\ firstAt \in {"none", "recent", "old"} /\ result \in {"none", "ok", "err"}
    /\ ran \subseteq StageDone

\* An upload is recorded as aborted only after some state's failures were
\* recorded more than minRetryAttempts times (setUploadError's abort test).
AbortedOnlyAfterRetries ==
    dbStatus = AbortedState => \E x \in States : failures[x] > MinRetryAttempts

\* When run returns success the row says exported_data, so the upload is
\* not picked up and loaded again.
ReturnedSuccessIsDurable ==
    result = "ok" => dbStatus = ExportedDataState

\* run eventually returns: each stage either gets through or, failing
\* again and again, is aborted after minRetryAttempts and retryTimeWindow.
EventuallyReturns == <>(pc = "returned")

-----------------------------------------------------------------------------
(* Refinement: the stages of run's switch in the order its cases chain    *)
(* them, numbered for AbstractUpload; the row's status says whether the   *)
(* upload is exported or aborted.                                          *)
StageOrder == <<GeneratedUploadSchema, TableUploadsCreated, GeneratedLoadFileState,
                TableUploadsCountsUpdated, UpdatedSchemaState, ExportedUserTablesState,
                LoadedIdentitiesState, ExportedDataState>>

StageNumber(d) == CHOOSE i \in 1..8 : StageOrder[i] = d

Abstract == INSTANCE AbstractUpload WITH
                NumStages <- 8,
                done      <- {StageNumber(d) : d \in ran},
                exported  <- dbStatus = ExportedDataState,
                aborted   <- dbStatus = AbortedState

\* run implements AbstractUpload: every stage it completes, through
\* resumption from a stored status after a crash, lost status writes, the
\* case grouping of its switch and the restart on a remote schema change,
\* follows the stage before it; only the export stage records the upload as
\* exported_data; and a row that says exported_data or aborted never says
\* anything else afterwards.
ImplementsAbstractUpload == Abstract!Spec
====
