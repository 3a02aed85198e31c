----------------------------- MODULE GCEProvider -----------------------------
(***************************************************************************)
(* The provider's life up to a boot: newGCEProvider builds it from the     *)
(* option mapping, Setup resolves its cloud references, and only a         *)
(* provider whose Setup succeeded is asked to Start (the worker exits on   *)
(* either error).  Start's instanceGroup and ic are the provider's         *)
(* INSTANCE_GROUP, AUTO_IMPLODE and HARD_TIMEOUT_MINUTES.                  *)
(***************************************************************************)
EXTENDS Naturals

CONSTANT Configs

VARIABLES
    \* GCEConfig
    input, cfg, phase, provider, buildErr, lookups,
    \* GCEStart
    instanceGroup, pc, ctx, ops, poller, abandonedStart, result, timeoutMarks,
    inst, ic, vm, deleteCall

configVars == <<input, cfg, phase, provider, buildErr, lookups>>

startVars == <<instanceGroup, pc, ctx, ops, poller, abandonedStart, result,
               timeoutMarks, inst, ic, vm, deleteCall>>

vars == <<configVars, startVars>>

C == INSTANCE GCEConfig

\* p.ic's auto-implode pair for a provider built from mapping c.
ProviderIC(c) == [AutoImplode |-> C!Built(c).autoImplode,
                  HardTimeoutMinutes |-> C!Built(c).hardTimeoutMinutes]

S == INSTANCE GCEStart WITH GroupModes <- BOOLEAN,
                            ICModes <- {ProviderIC(c) : c \in Configs}

TypeOK == C!TypeOK /\ S!TypeOK

Init ==
    /\ C!Init
    /\ S!Init
    /\ instanceGroup = (input["INSTANCE_GROUP"] = "set")
    /\ ic = ProviderIC(input)

\* Start's steps, its context and the cloud's operations, once the
\* provider is ready.
StartOnly(A) == phase = "ready" /\ A /\ UNCHANGED configVars

ConfigStep == (C!NewProvider \/ C!Setup) /\ UNCHANGED startVars

Next == ConfigStep \/ StartOnly(S!Next)

Fairness ==
    /\ WF_vars(C!NewProvider /\ UNCHANGED startVars)
    /\ WF_vars(C!Setup /\ UNCHANGED startVars)
    /\ WF_vars(StartOnly(S!Invocation /\ S!Fixed))
    /\ \A o \in S!OpIds :
        /\ WF_vars(StartOnly(S!PollOp(o) /\ S!Fixed))
        /\ WF_vars(StartOnly(S!CompleteOp(o) /\ S!Fixed))
    /\ WF_vars(StartOnly(S!CompleteDeletion /\ S!Fixed))
    /\ WF_vars(StartOnly(S!Implode /\ S!Fixed))

Spec == Init /\ [][Next]_vars /\ Fairness

-----------------------------------------------------------------------------
\* newGCEProvider builds exactly the mappings spec 3 accepts.
ConstructionMatchesSpec == C!ConstructionMatchesSpec

\* newGCEProvider refuses only mappings spec 3 refuses, and builds the
\* provider from the options given.
ConstructionRefusesOnlySpecErrors == C!ConstructionRefusesOnlySpecErrors

\* Setup looks up the names the worker set, or their written-back defaults.
SetupLooksUpResolved == C!SetupLooksUpResolved

\* A returned instance has both operations finished cleanly and no Delete,
\* on a provider built from the mapping.
DeliveredInstanceSound == S!DeliveredInstanceSound

\* Start's goroutines outlive it only after a return on ctx.Done(), with
\* an instance group too.
PollersLeakOnlyAfterCtx == S!PollersLeakOnlyAfterCtx

(* Spec 5 and 10, auto-implode: with AUTO_IMPLODE set, the poweroff the    *)
(* startup script schedules bounds the life of every instance Start        *)
(* creates, independently of the worker; the provider takes               *)
(* HARD_TIMEOUT_MINUTES as it parsed it into p.ic.                         *)
InstanceSelfTerminates == ic.AutoImplode => <>[](vm # "running")

=============================================================================
