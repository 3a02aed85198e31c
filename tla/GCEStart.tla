------------------------------ MODULE GCEStart ------------------------------
(***************************************************************************)
(* One call of gceProvider.Start (backend/gce.go): the invocation          *)
(* goroutine, the insert-operation poller, the optional instance-group     *)
(* poller, the caller's context and the cloud's zone operations.           *)
(*                                                                         *)
(* Channels are unbuffered, so a poller that has a result is blocked in    *)
(* "sendInst" or "sendErr" until the invocation goroutine receives it; a   *)
(* poller whose receiver has returned stays blocked for ever.              *)
(*                                                                         *)
(* The cloud's instance resource is modelled too, with the faults the code *)
(* meets: Instances.Insert may fail after the cloud accepted the request   *)
(* (the reply is lost), and the deferred best-effort Delete may fail.      *)
(***************************************************************************)
EXTENDS Naturals

CONSTANTS
    GroupModes,     \* the values of p.instanceGroup != "" to check
    ICModes         \* the auto-implode pair of p.ic to check

\* p.ic's auto-implode pair: AUTO_IMPLODE, and the sign of the int64
\* HARD_TIMEOUT_MINUTES, which strconv.ParseInt accepts either way.
ImplodeConfigs == [AutoImplode : BOOLEAN,
                   HardTimeoutMinutes : {"nonNegative", "negative"}]

ASSUME /\ GroupModes \subseteq BOOLEAN /\ GroupModes # {}
       /\ ICModes \subseteq ImplodeConfigs /\ ICModes # {}

VARIABLES
    instanceGroup,   \* p.instanceGroup != "": fixed when the provider is built
    pc,              \* where the invocation goroutine is
    ctx,             \* "none", "deadline" (DeadlineExceeded) or "canceled"
    ops,             \* the zone operations: insert and group add
    poller,          \* the two polling goroutines
    abandonedStart,  \* the local flag read by the deferred Delete
    result,          \* what Start returned
    timeoutMarks,    \* worker.vm.provider.gce.boot.timeout marks
    inst,            \* the *compute.Instance the deferred Delete names:
                     \* "built" by buildInstance, or "nil" after a failed
                     \* Instances.Get overwrote it
    ic,              \* p.ic's AutoImplode and HardTimeoutMinutes: fixed
                     \* when the provider is built
    vm,              \* the cloud's instance: "none", "running", "off"
                     \* (powered off or preempted) or "deleted"
    deleteCall       \* the deferred Instances.Delete: "none", "sent" (the
                     \* cloud accepted it) or "failed" (its error dropped)

vars == <<instanceGroup, pc, ctx, ops, poller, abandonedStart, result, timeoutMarks,
          inst, ic, vm, deleteCall>>

OpIds == {"insert", "group"}

PcValues == {"getImage", "insert", "groupWait", "refresh", "addInstances",
             "select", "done"}

OpStatus == {"NONE", "RUNNING", "DONE"}   \* NONE: not issued yet

PollerStates == {"off", "polling", "sendInst", "sendErr", "exited"}

Results == {"none", "inst", "err", "opErr", "ctxErr"}

TypeOK ==
    /\ instanceGroup \in BOOLEAN
    /\ pc \in PcValues
    /\ ctx \in {"none", "deadline", "canceled"}
    /\ ops \in [OpIds -> [status : OpStatus, err : BOOLEAN]]
    /\ poller \in [OpIds -> PollerStates]
    /\ abandonedStart \in BOOLEAN
    /\ result \in Results
    /\ timeoutMarks \in 0..1
    /\ inst \in {"built", "nil"}
    /\ ic \in ImplodeConfigs
    /\ vm \in {"none", "running", "off", "deleted"}
    /\ deleteCall \in {"none", "sent", "failed"}

\* The deferred func: Instances.Delete is issued iff abandonedStart holds
\* when Start returns.
deleteIssued == pc = "done" /\ abandonedStart

Init ==
    /\ instanceGroup \in GroupModes
    /\ pc = "getImage"
    /\ ctx = "none"
    /\ ops = [o \in OpIds |-> [status |-> "NONE", err |-> FALSE]]
    /\ poller = [o \in OpIds |-> "off"]
    /\ abandonedStart = FALSE
    /\ result = "none"
    /\ timeoutMarks = 0
    /\ inst = "built"
    /\ ic \in ICModes
    /\ vm = "none"
    /\ deleteCall = "none"

\* gceStartupScript rendered with p.ic: the authorized_keys heredoc, and
\* "echo poweroff | at now + N minutes" only when AutoImplode is set, N
\* printed as the int64 HardTimeoutMinutes (of which its sign is kept).
StartupScript(c) ==
    [authorizedKeys |-> TRUE,
     atPoweroff |-> IF c.AutoImplode THEN c.HardTimeoutMinutes ELSE "none"]

\* buildInstance: of the instance record, what the cloud and the guest act
\* on: preemptible scheduling and the startup-script metadata item.
BuildInstance(script) == [preemptible |-> TRUE, startupScript |-> script]

Built == BuildInstance(StartupScript(ic))

-----------------------------------------------------------------------------
(* Returning from Start with abandonedStart as the return path leaves it;  *)
(* the deferred func then issues Instances.Delete iff it is set, and drops *)
(* the call's error.                                                       *)

Return(res, abandon) ==
    /\ pc' = "done"
    /\ result' = res
    /\ abandonedStart' = abandon
    /\ deleteCall' \in IF abandon THEN {"sent", "failed"} ELSE {"none"}

\* Mutant: the ctx.Done() branch returns without setting abandonedStart.
CtxDoneReturnNoAbandon ==
    /\ ctx # "none"
    /\ timeoutMarks' = timeoutMarks + (IF ctx = "deadline" THEN 1 ELSE 0)
    /\ Return("ctxErr", FALSE)

\* The ctx.Done() branch: mark the timeout metric on DeadlineExceeded only,
\* set abandonedStart and return ctx.Err().
CtxDoneReturn ==
    /\ ctx # "none"
    /\ timeoutMarks' = timeoutMarks + (IF ctx = "deadline" THEN 1 ELSE 0)
    /\ Return("ctxErr", TRUE)

\* getImage, the startup-script template and buildInstance: only the
\* error returns matter, and they come before any insert.
GetImage ==
    /\ pc = "getImage"
    /\ \/ pc' = "insert" /\ UNCHANGED <<result, abandonedStart, deleteCall>>
       \/ Return("err", FALSE)
    /\ UNCHANGED <<ctx, ops, poller, timeoutMarks, inst, vm>>

\* Instances.Insert; on success the insert poller is started and the
\* goroutine either waits for it (group) or goes to the final select.  On
\* an error Start returns before abandonedStart exists: the cloud rejected
\* the request, or accepted it and the reply was lost, the insert
\* operation then running with nobody polling it.
Insert ==
    /\ pc = "insert"
    /\ \/ /\ ops' = [ops EXCEPT !["insert"].status = "RUNNING"]
          /\ poller' = [poller EXCEPT !["insert"] = "polling"]
          /\ pc' = IF instanceGroup THEN "groupWait" ELSE "select"
          /\ UNCHANGED <<result, abandonedStart, deleteCall>>
       \/ /\ ops' \in {ops, [ops EXCEPT !["insert"].status = "RUNNING"]}
          /\ Return("err", FALSE)
          /\ UNCHANGED poller
    /\ UNCHANGED <<ctx, timeoutMarks, inst, vm>>

-----------------------------------------------------------------------------
(* A poller's loop iteration that ends it: ZoneOperations.Get of its      *)
(* operation either fails, or returns DONE, or carries an Error while not  *)
(* DONE.  An iteration that sees RUNNING without Error only sleeps and is  *)
(* a stuttering step.                                                      *)

\* Mutant: a DONE operation is taken as success whatever its Error.
PollOpIgnoringError(o) ==
    /\ poller[o] = "polling"
    /\ ops[o].status = "DONE" \/ ops[o].err
    /\ poller' = [poller EXCEPT ![o] = IF ops[o].status = "DONE"
                                       THEN "sendInst" ELSE "sendErr"]
    /\ UNCHANGED <<pc, ctx, ops, abandonedStart, result, timeoutMarks, inst,
                   vm, deleteCall>>

\* Mutant: the poller only ever reports success and polls on otherwise.
PollOpOnlySuccess(o) ==
    /\ poller[o] = "polling"
    /\ ops[o].status = "DONE" /\ ~ops[o].err
    /\ poller' = [poller EXCEPT ![o] = "sendInst"]
    /\ UNCHANGED <<pc, ctx, ops, abandonedStart, result, timeoutMarks, inst,
                   vm, deleteCall>>

PollOp(o) ==
    /\ poller[o] = "polling"
    /\ ops[o].status = "DONE" \/ ops[o].err
    /\ poller' = [poller EXCEPT ![o] = IF ops[o].err THEN "sendErr"
                                                     ELSE "sendInst"]
    /\ UNCHANGED <<pc, ctx, ops, abandonedStart, result, timeoutMarks, inst,
                   vm, deleteCall>>

PollTransportError(o) ==
    /\ poller[o] = "polling"
    /\ poller' = [poller EXCEPT ![o] = "sendErr"]
    /\ UNCHANGED <<pc, ctx, ops, abandonedStart, result, timeoutMarks, inst,
                   vm, deleteCall>>

InsertPoller == PollOp("insert") \/ PollTransportError("insert")

GroupPoller == PollOp("group") \/ PollTransportError("group")

-----------------------------------------------------------------------------
(* Group path, first wait: a loop over a select on origInstanceReady and   *)
(* ctx.Done() with a sleeping default.  errChan is not in this select.     *)

GroupWaitReady ==
    /\ pc = "groupWait"
    /\ poller["insert"] = "sendInst"
    /\ poller' = [poller EXCEPT !["insert"] = "exited"]
    /\ pc' = "refresh"
    /\ UNCHANGED <<ctx, ops, abandonedStart, result, timeoutMarks, inst, vm,
                   deleteCall>>

\* Mutant: the ctx.Done() case of the group wait loop lacks its return.
GroupWaitCtxNoReturn ==
    /\ pc = "groupWait"
    /\ ctx # "none"
    /\ timeoutMarks' = timeoutMarks + (IF ctx = "deadline" THEN 1 ELSE 0)
    /\ abandonedStart' = TRUE
    /\ UNCHANGED <<pc, ctx, ops, poller, result, inst, vm, deleteCall>>

GroupWaitCtx ==
    /\ pc = "groupWait"
    /\ CtxDoneReturn
    /\ UNCHANGED <<ctx, ops, poller, inst, vm>>

\* inst, err = Instances.Get(...) to obtain the SelfLink: on error inst
\* is nil and Start returns without setting abandonedStart.
RefreshInstance ==
    /\ pc = "refresh"
    /\ \/ pc' = "addInstances" /\ UNCHANGED <<result, inst, abandonedStart, deleteCall>>
       \/ inst' = "nil" /\ Return("err", FALSE)
    /\ UNCHANGED <<ctx, ops, poller, timeoutMarks, vm>>

\* Mutant: the group poller is started before AddInstances' error is
\* checked.
AddInstancesPollFirst ==
    /\ pc = "addInstances"
    /\ ops' = [ops EXCEPT !["group"].status = "RUNNING"]
    /\ poller' = [poller EXCEPT !["group"] = "polling"]
    /\ \/ pc' = "select" /\ UNCHANGED <<abandonedStart, result, deleteCall>>
       \/ Return("err", TRUE)
    /\ UNCHANGED <<ctx, timeoutMarks, inst, vm>>

\* InstanceGroups.AddInstances, then the group poller is started.
AddInstances ==
    /\ pc = "addInstances"
    /\ \/ /\ ops' = [ops EXCEPT !["group"].status = "RUNNING"]
          /\ poller' = [poller EXCEPT !["group"] = "polling"]
          /\ pc' = "select"
          /\ UNCHANGED <<abandonedStart, result, deleteCall>>
       \/ /\ Return("err", TRUE)
          /\ UNCHANGED <<ops, poller>>
    /\ UNCHANGED <<ctx, timeoutMarks, inst, vm>>

-----------------------------------------------------------------------------
(* The final select over instChan, errChan and ctx.Done().  instChan is    *)
(* the insert poller's instanceReady, or the group poller's channel when   *)
(* a group is set; both pollers send errors on errChan.                    *)

InstSender == IF instanceGroup THEN "group" ELSE "insert"

SelectInst ==
    /\ pc = "select"
    /\ poller[InstSender] = "sendInst"
    /\ poller' = [poller EXCEPT ![InstSender] = "exited"]
    /\ Return("inst", FALSE)
    /\ UNCHANGED <<ctx, ops, timeoutMarks, inst, vm>>

\* Mutant: the errChan case returns without setting abandonedStart.
SelectErrNoAbandon ==
    /\ pc = "select"
    /\ \E o \in OpIds :
        /\ poller[o] = "sendErr"
        /\ poller' = [poller EXCEPT ![o] = "exited"]
    /\ Return("opErr", FALSE)
    /\ UNCHANGED <<ctx, ops, timeoutMarks, inst, vm>>

SelectErr ==
    /\ pc = "select"
    /\ \E o \in OpIds :
        /\ poller[o] = "sendErr"
        /\ poller' = [poller EXCEPT ![o] = "exited"]
    /\ Return("opErr", TRUE)
    /\ UNCHANGED <<ctx, ops, timeoutMarks, inst, vm>>

SelectCtx ==
    /\ pc = "select"
    /\ CtxDoneReturn
    /\ UNCHANGED <<ctx, ops, poller, inst, vm>>

-----------------------------------------------------------------------------
(* Environment: the caller's context and the cloud's operations.           *)

CtxExpire ==
    /\ ctx = "none"
    /\ ctx' = "deadline"
    /\ UNCHANGED <<pc, ops, poller, abandonedStart, result, timeoutMarks, inst,
                   vm, deleteCall>>

CtxCancel ==
    /\ ctx = "none"
    /\ ctx' = "canceled"
    /\ UNCHANGED <<pc, ops, poller, abandonedStart, result, timeoutMarks, inst,
                   vm, deleteCall>>

\* A running operation finishes, with or without an Error payload; an
\* Error reported while running stays on the finished operation.  An
\* insert that finishes without an Error has created the instance, which
\* boots and runs its startup script.
CompleteOp(o) ==
    /\ ops[o].status = "RUNNING"
    /\ \E e \in BOOLEAN :
        LET failed == ops[o].err \/ e
        IN /\ ops' = [ops EXCEPT ![o] = [status |-> "DONE", err |-> failed]]
           /\ vm' = IF o = "insert" /\ ~failed THEN "running" ELSE vm
    /\ UNCHANGED <<pc, ctx, poller, abandonedStart, result, timeoutMarks, inst,
                   deleteCall>>

\* A running operation reports an Error before it is DONE.
OpErrorWhileRunning(o) ==
    /\ ops[o].status = "RUNNING"
    /\ ~ops[o].err
    /\ ops' = [ops EXCEPT ![o].err = TRUE]
    /\ UNCHANGED <<pc, ctx, poller, abandonedStart, result, timeoutMarks, inst,
                   vm, deleteCall>>

startVars == <<pc, ctx, ops, poller, abandonedStart, result, timeoutMarks, inst,
               deleteCall>>

\* An accepted Delete takes the instance away once it exists (a Delete
\* sent while the insert still runs applies when the insert is done).
CompleteDeletion ==
    /\ deleteCall = "sent"
    /\ vm \in {"running", "off"}
    /\ vm' = "deleted"
    /\ UNCHANGED startVars

Cloud == \/ \E o \in OpIds : CompleteOp(o) \/ OpErrorWhileRunning(o)
         \/ CompleteDeletion

\* The cloud preempts a preemptible instance at any time.
Preempt ==
    /\ Built.preemptible
    /\ vm = "running"
    /\ vm' = "off"
    /\ UNCHANGED startVars

\* The at(1) job the startup script scheduled powers the guest off.  at
\* accepts "now + N minutes" only for an unsigned N: with a negative N it
\* reports a garbled time, schedules nothing, and the script goes on.
Implode ==
    /\ Built.startupScript.atPoweroff = "nonNegative"
    /\ vm = "running"
    /\ vm' = "off"
    /\ UNCHANGED startVars

Guest == Preempt \/ Implode

Fixed == UNCHANGED <<instanceGroup, ic>>

Invocation ==
    \/ GetImage \/ Insert
    \/ GroupWaitReady \/ GroupWaitCtx \/ RefreshInstance \/ AddInstances
    \/ SelectInst \/ SelectErr \/ SelectCtx

Next ==
    /\ Fixed
    /\ \/ Invocation
       \/ InsertPoller \/ GroupPoller
       \/ CtxExpire \/ CtxCancel
       \/ Cloud \/ Guest

(***************************************************************************)
(* Fairness: the Go scheduler runs every runnable goroutine, so the        *)
(* invocation goroutine and the pollers' result steps are weakly fair; the *)
(* cloud eventually finishes an operation and an accepted deletion; at(1) *)
(* fires once its time comes.  The context gets no fairness (a caller's    *)
(* context need not ever expire), nor does preemption.                     *)
(***************************************************************************)
Fairness ==
    /\ WF_vars(Invocation /\ Fixed)
    /\ \A o \in OpIds : /\ WF_vars(PollOp(o) /\ Fixed)
                       /\ WF_vars(CompleteOp(o) /\ Fixed)
    /\ WF_vars(CompleteDeletion /\ Fixed)
    /\ WF_vars(Implode /\ Fixed)

Spec == Init /\ [][Next]_vars /\ Fairness

-----------------------------------------------------------------------------
(***************************************************************************)
(* Properties                                                              *)
(***************************************************************************)

\* Instances.Insert returned an operation to Start (the insert poller was
\* started): from here on Start knows an instance may exist.
InsertReturnedOp == poller["insert"] # "off"

\* Abandonment: once the insert operation has been issued, Start either
\* hands the instance to the caller or returns with abandonedStart set, so
\* the deferred Instances.Delete is issued (gce.go Start, every return
\* after Insert).
NoLeakedInstance ==
    (pc = "done" /\ InsertReturnedOp /\ result # "inst") => deleteIssued

\* An instance handed to the caller has a finished, error-free insert
\* operation and, with an instance group, a finished, error-free group
\* addition, and no Delete was issued for it.
DeliveredInstanceSound ==
    result = "inst" =>
        /\ ops["insert"].status = "DONE" /\ ~ops["insert"].err
        /\ instanceGroup => ops["group"].status = "DONE" /\ ~ops["group"].err
        /\ ~deleteIssued

\* Start's pollers send on unbuffered channels it reads only while it has
\* not returned: a poller still running, or blocked with a result, after
\* Start returned is left behind only when Start returned ctx.Err() from a
\* select on ctx.Done().  Every other return comes after the pollers it
\* started have delivered, or before any was started.
PollersLeakOnlyAfterCtx ==
    \A o \in OpIds :
        (pc = "done" /\ poller[o] \in {"polling", "sendInst", "sendErr"})
            => result = "ctxErr"

\* An insert operation that finishes with an Error makes Start return,
\* whether or not the caller's context ever expires.
InsertFailureSurfaces ==
    (ops["insert"].status = "DONE" /\ ops["insert"].err) ~> (pc = "done")

(***************************************************************************)
(* Refinement: the boot as VMBoot sees it.  Before Insert is accepted the  *)
(* boot is idle; a return hands over the instance, or has issued the       *)
(* Delete, or came before any insert; a return that is none of these (an   *)
(* instance inserted and neither handed over nor deleted) stays            *)
(* "inserting" for ever.                                                   *)
(***************************************************************************)
BootState ==
    LET issued == InsertReturnedOp
    IN IF pc # "done" THEN (IF issued THEN "inserting" ELSE "idle")
       ELSE IF result = "inst" THEN "delivered"
       ELSE IF abandonedStart THEN "abandoned"
       ELSE IF issued THEN "inserting"
       ELSE "failed"

Boot == INSTANCE VMBoot WITH boot <- BootState

\* Start implements VMBoot: every boot that inserted an instance ends with
\* it returned or deleted, never both, and does end.
BootRefinement == Boot!Spec

=============================================================================
