----------------------------- MODULE GCEInstance -----------------------------
(***************************************************************************)
(* The instance handle Start returns (gceInstance, backend/gce.go) as the  *)
(* worker uses it: UploadScript, then RunScript when the upload succeeded, *)
(* then Stop.  Actors: the caller's goroutine, the uploader goroutine,     *)
(* the Stop poller, the caller's context, the guest VM (its build.sh, its  *)
(* running script, preemption and the auto-implode poweroff) and the       *)
(* cloud's delete operation.                                               *)
(***************************************************************************)
EXTENDS Naturals

CONSTANTS
    UploadRetries,   \* p.uploadRetries (UPLOAD_RETRIES)
    AutoImplode,     \* ic.AutoImplode: the startup script schedules poweroff
    ExitCodes        \* exit statuses the build script may end with

ASSUME /\ UploadRetries \in Nat
       /\ AutoImplode \in BOOLEAN
       /\ ExitCodes \subseteq 0..255 /\ ExitCodes # {}

VARIABLES
    ctx,         \* "none", "deadline" or "canceled"
    caller,      \* the worker's goroutine: "upload", "run", "running",
                 \* "stop", "stopWait" or "done"
    uploader,    \* UploadScript's goroutine
    attempts,    \* errCount of the uploader
    lastErr,     \* the error of its last attempt: "none", "stale", "transient"
    upResult,    \* what UploadScript returned
    buildSh,     \* ~/build.sh on the guest: "absent", "old" (left by an
                 \* earlier use of the disk), "partial" or "ours"
    reused,      \* build.sh existed when the handle was delivered
    vm,          \* "running", "off" (preempted or imploded) or "deleted"
    remote,      \* the remote "bash ~/build.sh": "idle", "running", "exited"
    remoteCode,  \* its exit status once exited
    runResult,   \* the *RunResult RunScript returned
    deleteOp,    \* the zone operation of Instances.Delete
    stopPoller,  \* Stop's polling goroutine
    stopResult   \* what Stop returned

vars == <<ctx, caller, uploader, attempts, lastErr, upResult, buildSh, reused, vm,
          remote, remoteCode, runResult, deleteOp, stopPoller, stopResult>>

uploadVars == <<uploader, attempts, lastErr, upResult, buildSh>>
runVars == <<remote, remoteCode, runResult>>
stopVars == <<deleteOp, stopPoller, stopResult>>

NoCode == CHOOSE c \in ExitCodes : TRUE   \* placeholder before an exit

HandleTypeOK ==
    /\ ctx \in {"none", "deadline", "canceled"}
    /\ caller \in {"upload", "run", "running", "stop", "stopWait", "done"}
    /\ uploader \in {"top", "sendNil", "sendErr", "exited"}
    /\ attempts \in 0..(UploadRetries + 1)
    /\ lastErr \in {"none", "stale", "transient"}
    /\ upResult \in {"none", "nil", "stale", "transient", "ctxErr"}
    /\ buildSh \in {"absent", "old", "partial", "ours"}
    /\ reused \in BOOLEAN
    /\ remote \in {"idle", "running", "exited"}
    /\ remoteCode \in ExitCodes
    /\ runResult \in [returned : BOOLEAN, completed : BOOLEAN, code : ExitCodes]
    /\ deleteOp \in [status : {"NONE", "RUNNING", "DONE"}, err : BOOLEAN]
    /\ stopPoller \in {"off", "polling", "sendNil", "sendErr", "exited"}
    /\ stopResult \in {"none", "nil", "err", "opErr", "ctxErr"}

TypeOK == HandleTypeOK /\ vm \in {"running", "off", "deleted"}

\* The handle as delivered: its disk may already hold a build.sh (a reused
\* image or instance).  UploadScript has just spawned its goroutine.
HandleInit ==
    /\ ctx = "none"
    /\ caller = "upload"
    /\ uploader = "top"
    /\ attempts = 0
    /\ lastErr = "none"
    /\ upResult = "none"
    /\ buildSh \in {"absent", "old"}
    /\ reused = (buildSh = "old")
    /\ remote = "idle"
    /\ remoteCode = NoCode
    /\ runResult = [returned |-> FALSE, completed |-> FALSE, code |-> NoCode]
    /\ deleteOp = [status |-> "NONE", err |-> FALSE]
    /\ stopPoller = "off"
    /\ stopResult = "none"

\* On its own the handle starts with the VM running; GCEJob shares the VM
\* that Start created instead.
Init == HandleInit /\ vm = "running"

\* sshClient: refreshInstance (Instances.Get), getIP (the first non-empty
\* NatIP) and ssh.Dial to port 22 can all succeed only while the VM runs.
SSHReachable == vm = "running"

-----------------------------------------------------------------------------
(* UploadScript                                                            *)

\* The outcomes of one uploadScriptAttempt on the guest's build.sh:
\* sshClient (refresh, IP, dial) or sftp.NewClient fails; Lstat succeeds
\* (ErrStaleVM); Create fails; Write fails after Create made the file; or
\* the script is written.
\* Mutant: the error of f.Write is not checked.
AttemptOutcomesIgnoreWriteErr(sh) ==
    {[err |-> "transient", sh |-> sh]} \cup
    IF ~SSHReachable THEN {}
    ELSE IF sh # "absent" THEN {[err |-> "stale", sh |-> sh]}
    ELSE {[err |-> "transient", sh |-> "absent"],
          [err |-> "nil", sh |-> "partial"],
          [err |-> "nil", sh |-> "ours"]}

AttemptOutcomes(sh) ==
    {[err |-> "transient", sh |-> sh]} \cup
    IF ~SSHReachable THEN {}
    ELSE IF sh # "absent" THEN {[err |-> "stale", sh |-> sh]}
    ELSE {[err |-> "transient", sh |-> "absent"],
          [err |-> "transient", sh |-> "partial"],
          [err |-> "nil", sh |-> "ours"]}

UploaderStepOneMore ==
    /\ uploader = "top"
    /\ IF ctx # "none"
       THEN /\ uploader' = "exited"
            /\ UNCHANGED <<attempts, lastErr, buildSh>>
       ELSE \E out \in AttemptOutcomes(buildSh) :
              /\ buildSh' = out.sh
              /\ IF out.err = "nil"
                 THEN /\ uploader' = "sendNil"
                      /\ UNCHANGED <<attempts, lastErr>>
                 ELSE /\ attempts' = attempts + 1
                      /\ lastErr' = out.err
                      /\ uploader' = IF attempts' > UploadRetries + 1
                                     THEN "sendErr" ELSE "top"
    /\ UNCHANGED <<ctx, caller, upResult, reused, vm, runVars, stopVars>>

\* One iteration of the uploader's loop: return if the context is done,
\* else attempt; on an error (ErrStaleVM included) count it and give up
\* once the count exceeds UploadRetries, else sleep and go round.
UploaderStep ==
    /\ uploader = "top"
    /\ IF ctx # "none"
       THEN /\ uploader' = "exited"
            /\ UNCHANGED <<attempts, lastErr, buildSh>>
       ELSE \E out \in AttemptOutcomes(buildSh) :
              /\ buildSh' = out.sh
              /\ IF out.err = "nil"
                 THEN /\ uploader' = "sendNil"
                      /\ UNCHANGED <<attempts, lastErr>>
                 ELSE /\ attempts' = attempts + 1
                      /\ lastErr' = out.err
                      /\ uploader' = IF attempts' > UploadRetries
                                     THEN "sendErr" ELSE "top"
    /\ UNCHANGED <<ctx, caller, upResult, reused, vm, runVars, stopVars>>

\* UploadScript's select: the uploader's result or ctx.Done().  The worker
\* runs the script after a nil upload and stops the instance otherwise.
UploadReceive ==
    /\ caller = "upload"
    /\ uploader \in {"sendNil", "sendErr"}
    /\ upResult' = IF uploader = "sendNil" THEN "nil" ELSE lastErr
    /\ uploader' = "exited"
    /\ caller' = IF uploader = "sendNil" THEN "run" ELSE "stop"
    /\ UNCHANGED <<ctx, attempts, lastErr, buildSh, reused, vm, runVars,
                   stopVars>>

UploadCtxDone ==
    /\ caller = "upload"
    /\ ctx # "none"
    /\ upResult' = "ctxErr"
    /\ caller' = "stop"
    /\ UNCHANGED <<ctx, uploader, attempts, lastErr, buildSh, reused, vm,
                   runVars, stopVars>>

-----------------------------------------------------------------------------
(* RunScript: it never looks at its context.                               *)

\* sshClient (refresh, getIP, dial), NewSession and RequestPty: any of
\* them fails, always when the VM is not running; else "bash ~/build.sh"
\* starts on the guest.
RunStart ==
    /\ caller = "run"
    /\ \/ /\ SSHReachable
          /\ remote' = "running"
          /\ caller' = "running"
          /\ UNCHANGED runResult
       \/ /\ runResult' = [runResult EXCEPT !.returned = TRUE,
                                             !.completed = FALSE]
          /\ caller' = "stop"
          /\ UNCHANGED remote
    /\ UNCHANGED <<ctx, uploadVars, reused, vm, remoteCode, stopVars>>

\* Mutant: any error from session.Run, an *ssh.ExitError too, counts as
\* an unknown outcome.
RunReturnExitErrorIncomplete ==
    /\ caller = "running"
    /\ \/ /\ remote = "exited"
          /\ runResult' = [returned |-> TRUE, completed |-> remoteCode = 0,
                           code |-> remoteCode % 256]
       \/ /\ remote = "running"
          /\ vm # "running"
          /\ runResult' = [runResult EXCEPT !.returned = TRUE,
                                             !.completed = FALSE]
    /\ caller' = "stop"
    /\ UNCHANGED <<ctx, uploadVars, reused, vm, remote, remoteCode, stopVars>>

\* session.Run returns: nil or an *ssh.ExitError once the script exited
\* (Completed, ExitCode = uint8(ExitStatus())); any other error when the
\* connection is lost because the VM stopped (Completed = false).
RunReturn ==
    /\ caller = "running"
    /\ \/ /\ remote = "exited"
          /\ runResult' = [returned |-> TRUE, completed |-> TRUE,
                           code |-> remoteCode % 256]
       \/ /\ remote = "running"
          /\ vm # "running"
          /\ runResult' = [runResult EXCEPT !.returned = TRUE,
                                             !.completed = FALSE]
    /\ caller' = "stop"
    /\ UNCHANGED <<ctx, uploadVars, reused, vm, remote, remoteCode, stopVars>>

-----------------------------------------------------------------------------
(* Stop                                                                    *)

\* Mutant: the Delete error is returned without its early return, so the
\* poller is started for an operation that does not exist.
StopNoErrReturn ==
    /\ caller = "stop"
    /\ \/ /\ deleteOp' = [deleteOp EXCEPT !.status = "RUNNING"]
          /\ stopPoller' = "polling"
          /\ caller' = "stopWait"
          /\ UNCHANGED stopResult
       \/ /\ stopResult' = "err"
          /\ stopPoller' = "polling"
          /\ caller' = "done"
          /\ UNCHANGED deleteOp
    /\ UNCHANGED <<ctx, uploadVars, reused, vm, runVars>>

\* Instances.Delete; on success the poller for its operation is started.
Stop ==
    /\ caller = "stop"
    /\ \/ /\ deleteOp' = [deleteOp EXCEPT !.status = "RUNNING"]
          /\ stopPoller' = "polling"
          /\ caller' = "stopWait"
          /\ UNCHANGED stopResult
       \/ /\ stopResult' = "err"
          /\ caller' = "done"
          /\ UNCHANGED <<deleteOp, stopPoller>>
    /\ UNCHANGED <<ctx, uploadVars, reused, vm, runVars>>

\* Mutant: a DONE delete operation is reported as nil whatever its Error.
StopPollOpIgnoreError ==
    /\ stopPoller = "polling"
    /\ deleteOp.status = "DONE"
    /\ stopPoller' = "sendNil"
    /\ UNCHANGED <<ctx, caller, uploadVars, reused, vm, runVars, deleteOp,
                   stopResult>>

\* The poller's iteration that ends it: the operation is DONE (nil, or
\* its Error), or ZoneOperations.Get fails.  Unlike Start's pollers it does
\* not look at an Error while the operation runs.
StopPollOp ==
    /\ stopPoller = "polling"
    /\ deleteOp.status = "DONE"
    /\ stopPoller' = IF deleteOp.err THEN "sendErr" ELSE "sendNil"
    /\ UNCHANGED <<ctx, caller, uploadVars, reused, vm, runVars, deleteOp,
                   stopResult>>

StopPollTransportError ==
    /\ stopPoller = "polling"
    /\ stopPoller' = "sendErr"
    /\ UNCHANGED <<ctx, caller, uploadVars, reused, vm, runVars, deleteOp,
                   stopResult>>

StopReceive ==
    /\ caller = "stopWait"
    /\ stopPoller \in {"sendNil", "sendErr"}
    /\ stopResult' = IF stopPoller = "sendNil" THEN "nil" ELSE "err"
    /\ stopPoller' = "exited"
    /\ caller' = "done"
    /\ UNCHANGED <<ctx, uploadVars, reused, vm, runVars, deleteOp>>

StopCtxDone ==
    /\ caller = "stopWait"
    /\ ctx # "none"
    /\ stopResult' = "ctxErr"
    /\ caller' = "done"
    /\ UNCHANGED <<ctx, uploadVars, reused, vm, runVars, deleteOp, stopPoller>>

-----------------------------------------------------------------------------
(* Environment: the context, the guest and the cloud.                      *)

CtxFires ==
    /\ ctx = "none"
    /\ ctx' \in {"deadline", "canceled"}
    /\ UNCHANGED <<caller, uploadVars, reused, vm, runVars, stopVars>>

\* The build script ends with some exit status.  A build may also hang:
\* this step gets no fairness.
RemoteExit ==
    /\ remote = "running"
    /\ vm = "running"
    /\ remote' = "exited"
    /\ remoteCode' \in ExitCodes
    /\ UNCHANGED <<ctx, caller, uploadVars, reused, vm, runResult, stopVars>>

\* The cloud preempts the (preemptible) instance at any time.
Preempt ==
    /\ vm = "running"
    /\ vm' = "off"
    /\ UNCHANGED <<ctx, caller, uploadVars, reused, runVars, stopVars>>

\* "echo poweroff | at now + HARD_TIMEOUT_MINUTES minutes" from the
\* startup script fires.
Implode ==
    /\ AutoImplode
    /\ vm = "running"
    /\ vm' = "off"
    /\ UNCHANGED <<ctx, caller, uploadVars, reused, runVars, stopVars>>

\* The delete operation finishes; without an Error the instance is gone.
CompleteDelete ==
    /\ deleteOp.status = "RUNNING"
    /\ \E e \in BOOLEAN :
        /\ deleteOp' = [status |-> "DONE", err |-> e]
        /\ vm' = IF e THEN vm ELSE "deleted"
    /\ UNCHANGED <<ctx, caller, uploadVars, reused, runVars, stopPoller,
                   stopResult>>

Caller ==
    \/ UploadReceive \/ UploadCtxDone
    \/ RunStart \/ RunReturn
    \/ Stop \/ StopReceive \/ StopCtxDone

Next ==
    \/ Caller
    \/ UploaderStep
    \/ StopPollOp \/ StopPollTransportError
    \/ CtxFires \/ RemoteExit \/ Preempt \/ Implode \/ CompleteDelete

(***************************************************************************)
(* Fairness: the caller's goroutine, the uploader and the Stop poller are  *)
(* runnable goroutines; the cloud finishes its delete operation; the at(1) *)
(* job fires once its time comes.  The context, the build script and       *)
(* preemption get none.                                                    *)
(***************************************************************************)
Fairness ==
    /\ WF_vars(Caller)
    /\ WF_vars(UploaderStep)
    /\ WF_vars(StopPollOp)
    /\ WF_vars(CompleteDelete)
    /\ WF_vars(Implode)

Spec == Init /\ [][Next]_vars /\ Fairness

-----------------------------------------------------------------------------
(***************************************************************************)
(* Properties                                                              *)
(***************************************************************************)

\* RunScript only ever starts "bash ~/build.sh" over a build.sh that this
\* handle's UploadScript wrote completely: never over a stale script left
\* on the disk, nor over one a failed Write left half-written.
RunsOnlyOurScript ==
    remote # "idle" => buildSh = "ours"

\* UploadScript reports ErrStaleVM only for a VM whose disk already held a
\* build.sh when the handle was delivered (the sentinel tells the caller
\* to discard a reused VM).
StaleMeansReused ==
    upResult = "stale" => reused

\* Once an attempt has met ErrStaleVM, the uploader makes no further
\* attempt (ErrStaleVM is not retried).
StaleNotRetried ==
    [][lastErr = "stale" => attempts' = attempts]_vars

RunResultFaithful ==
    runResult.returned =>
        /\ runResult.completed <=> remote = "exited"
        /\ runResult.completed => runResult.code = remoteCode

\* Stop returns nil only once the instance is deleted.
StopNilMeansDeleted ==
    stopResult = "nil" => vm = "deleted"

\* Once the caller's context is done, RunScript returns eventually even if
\* the build script never ends.
RunHonorsCtx ==
    (ctx # "none") ~> (caller \notin {"run", "running"})

=============================================================================
