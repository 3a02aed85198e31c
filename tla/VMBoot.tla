------------------------------- MODULE VMBoot -------------------------------
(***************************************************************************)
(* What Start promises its caller (spec section 3, Lifecycle, and 4.5,     *)
(* Abandonment), without goroutines, channels or operations: a boot that   *)
(* fails before the insert leaves nothing behind; once the insert is       *)
(* issued, the boot ends with the instance handed over or with a Delete    *)
(* issued for it, and it does end.                                         *)
(***************************************************************************)

VARIABLE boot   \* "idle", "inserting", "delivered", "abandoned", "failed"

Outcomes == {"delivered", "abandoned", "failed"}

TypeOK == boot \in {"idle", "inserting"} \cup Outcomes

Init == boot = "idle"

\* Instances.Insert is accepted.
Issue == boot = "idle" /\ boot' = "inserting"

\* An error before any insert: image, template or Insert itself.
Fail == boot = "idle" /\ boot' = "failed"

\* The ready instance is returned.
Deliver == boot = "inserting" /\ boot' = "delivered"

\* Start gives up and the Delete is issued.
Abandon == boot = "inserting" /\ boot' = "abandoned"

Next == Issue \/ Fail \/ Deliver \/ Abandon

\* A boot in progress ends: the cloud finishes its operations and the
\* invocation goroutine returns, with or without a deadline.
Spec == Init /\ [][Next]_boot /\ WF_boot(Deliver \/ Abandon)

=============================================================================
