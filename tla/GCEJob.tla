------------------------------- MODULE GCEJob -------------------------------
(***************************************************************************)
(* One job on the gce provider as the worker drives it: Start, and, when   *)
(* Start hands over an instance, UploadScript, RunScript and Stop on it.   *)
(* Start runs under its own context (startCtx) and the handle's calls      *)
(* under the job's (jobCtx).  The handle's actors begin only once Start    *)
(* has returned the instance; Start's pollers, the cloud and the guest go  *)
(* on interleaving with them.  Both components act on the one cloud        *)
(* instance, vm: Start's insert creates it, Start's deferred Delete or the *)
(* handle's Stop deletes it, and the guest may power it off.               *)
(***************************************************************************)
EXTENDS Naturals

CONSTANTS GroupModes, UploadRetries, AutoImplode, ExitCodes

VARIABLES
    \* GCEStart
    instanceGroup, pc, startCtx, ops, poller, abandonedStart, result,
    timeoutMarks, inst, ic, deleteCall,
    \* the cloud instance, shared
    vm,
    \* GCEInstance
    jobCtx, caller, uploader, attempts, lastErr, upResult, buildSh, reused,
    remote, remoteCode, runResult, deleteOp, stopPoller, stopResult

startVars == <<instanceGroup, pc, startCtx, ops, poller, abandonedStart,
               result, timeoutMarks, inst, ic, deleteCall>>

handleVars == <<jobCtx, caller, uploader, attempts, lastErr, upResult,
                buildSh, reused, remote, remoteCode, runResult, deleteOp,
                stopPoller, stopResult>>

vars == <<startVars, vm, handleVars>>

S == INSTANCE GCEStart WITH ctx <- startCtx,
    ICModes <- {[AutoImplode |-> AutoImplode, HardTimeoutMinutes |-> "nonNegative"]}

H == INSTANCE GCEInstance WITH ctx <- jobCtx

\* The worker goes on to the handle only with the instance Start returned.
Delivered == result = "inst"

TypeOK == S!TypeOK /\ H!HandleTypeOK

Init == S!Init /\ H!HandleInit

HandleOnly(A) == Delivered /\ A /\ UNCHANGED startVars

StartStep == S!Next /\ UNCHANGED handleVars

HandleStep == HandleOnly(H!Next)

Next == StartStep \/ HandleStep

\* The fairness of each component, for the steps the composition allows.
Fairness ==
    /\ WF_vars(S!Invocation /\ S!Fixed /\ UNCHANGED handleVars)
    /\ \A o \in S!OpIds :
        /\ WF_vars(S!PollOp(o) /\ S!Fixed /\ UNCHANGED handleVars)
        /\ WF_vars(S!CompleteOp(o) /\ S!Fixed /\ UNCHANGED handleVars)
    /\ WF_vars(S!CompleteDeletion /\ S!Fixed /\ UNCHANGED handleVars)
    /\ WF_vars(S!Implode /\ S!Fixed /\ UNCHANGED handleVars)
    /\ WF_vars(HandleOnly(H!Caller))
    /\ WF_vars(HandleOnly(H!UploaderStep))
    /\ WF_vars(HandleOnly(H!StopPollOp))
    /\ WF_vars(HandleOnly(H!CompleteDelete))

Spec == Init /\ [][Next]_vars /\ Fairness

-----------------------------------------------------------------------------
\* Start's abandonment rule, checked with the rest of the job running.
NoLeakedInstance == S!NoLeakedInstance

\* Start, run with the rest of the job, implements VMBoot: a boot that
\* inserted an instance ends, with the instance returned or deleted.
BootRefinement == S!BootRefinement

\* The faults after which the job may leave its instance behind: the
\* Instances.Insert reply was lost after the cloud accepted it (Start never
\* saw the operation), the deferred Delete's error was dropped, or Stop's
\* Instances.Delete was refused or its operation ended with an Error.
InsertReplyLost == ops["insert"].status # "NONE" /\ ~S!InsertReturnedOp

StopFailed == (stopResult = "err" /\ deleteOp.status = "NONE") \/ deleteOp.err

(* Every instance the job creates is eventually deleted, unless one of    *)
(* those faults happened: Start's abandonment Delete on every return after *)
(* Insert, and the handle's Stop once the worker is done with the         *)
(* instance, between them leave no other path.  An instance the guest      *)
(* powered off still exists, so auto-implode does not discharge this.      *)
OrphanedOnlyByFault ==
    <>[](vm \in {"running", "off"} =>
            InsertReplyLost \/ deleteCall = "failed" \/ StopFailed)

\* The handle's properties, checked with Start and the shared instance.
RunsOnlyOurScript == H!RunsOnlyOurScript

RunResultFaithful == H!RunResultFaithful

StopNilMeansDeleted == H!StopNilMeansDeleted

(* A goroutine of the job stays blocked for ever only when its receiver  *)
(* returned on ctx.Done(): Start's insert or group poller with a result   *)
(* after Start returned ctx.Err(), UploadScript's uploader after it       *)
(* returned ctx.Err(), Stop's poller after Stop returned ctx.Err().  Any  *)
(* other way out of a select, or a return before the select, leaves no    *)
(* sender behind.                                                          *)
LeaksOnlyAfterCtx ==
    /\ S!PollersLeakOnlyAfterCtx
    /\ (Delivered /\ caller # "upload" /\ uploader \in {"sendNil", "sendErr"})
          => upResult = "ctxErr"
    /\ (caller = "done" /\ stopPoller \in {"polling", "sendNil", "sendErr"})
          => stopResult = "ctxErr"

=============================================================================
