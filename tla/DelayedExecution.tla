-------------------------- MODULE DelayedExecution --------------------------
(***************************************************************************)
(* What the governor promises of every proposal: it goes from pending to    *)
(* queued to executed, or is cancelled; between queueing and execution at   *)
(* least MinDelay passes; the time of execution fixed at queueing never     *)
(* moves; after the grace period nothing can happen to it any more.         *)
(* Governor implements this specification.                                  *)
(***************************************************************************)
EXTENDS Integers

CONSTANTS Ids, MinDelay, MaxDelay, GracePeriod

VARIABLES now,      \* the time
          phase,    \* proposal -> where it stands
          eta       \* proposal -> the time from which it can be executed, 0 if none

vars == <<now, phase, eta>>

Init ==
    /\ now \in Nat
    /\ phase = [i \in Ids |-> "None"]
    /\ eta = [i \in Ids |-> 0]

Propose(i) ==
    /\ phase[i] = "None"
    /\ phase' = [phase EXCEPT ![i] = "Pending"]
    /\ UNCHANGED <<now, eta>>

Queue(i) ==
    /\ phase[i] = "Pending"
    /\ phase' = [phase EXCEPT ![i] = "Queued"]
    /\ \E d \in MinDelay .. MaxDelay : eta' = [eta EXCEPT ![i] = now + d]
    /\ UNCHANGED now

Execute(i) ==
    /\ phase[i] = "Queued"
    /\ eta[i] <= now /\ now < eta[i] + GracePeriod
    /\ phase' = [phase EXCEPT ![i] = "Executed"]
    /\ UNCHANGED <<now, eta>>

Cancel(i) ==
    /\ \/ phase[i] = "Pending"
       \/ phase[i] = "Queued" /\ now < eta[i] + GracePeriod
    /\ phase' = [phase EXCEPT ![i] = "Cancelled"]
    /\ eta' = [eta EXCEPT ![i] = 0]
    /\ UNCHANGED now

Tick ==
    /\ now' \in Nat /\ now' > now
    /\ UNCHANGED <<phase, eta>>

Next ==
    \/ \E i \in Ids : Propose(i) \/ Queue(i) \/ Execute(i) \/ Cancel(i)
    \/ Tick

Spec == Init /\ [][Next]_vars
=============================================================================
