------------------------------ MODULE Governor ------------------------------
(***************************************************************************)
(* The governor and its timelock, contracts/governance/Governor.sol and     *)
(* contracts/timelock/Timelock.sol (one contract on chain).  The admin      *)
(* queues proposals, lists of actions that anyone may have proposed, and    *)
(* executes them once the delay is over.  The hash under which the timelock *)
(* queues an action identifies the action and its time: <<action, eta>>.    *)
(*                                                                         *)
(* An action is an opaque call to another contract, or the timelock's       *)
(* setDelay, which only the timelock can call.  A call that fails reverts   *)
(* the whole execution.                                                     *)
(***************************************************************************)
EXTENDS Integers, SequencesExt

CONSTANTS Addresses, NoAddress, InitialAdmin,
          Calls,            \* the opaque calls
          Delays,           \* the arguments of setDelay
          MinDelay, MaxDelay, GracePeriod,
          MaxOperations,    \* actions in one proposal
          Genesis,          \* the time of deployment
          MaxTime,          \* bound on the time
          MaxProposals      \* bound on the number of proposals

ASSUME AddressAssumption == InitialAdmin \in Addresses /\ NoAddress \notin Addresses
ASSUME TimeAssumption ==
    /\ MinDelay \in Nat \ {0} /\ MaxDelay \in Nat /\ MinDelay <= MaxDelay
    /\ GracePeriod \in Nat \ {0}
    /\ Delays \subseteq Nat
    /\ Genesis \in Nat /\ Genesis > GracePeriod     \* long after the epoch
    /\ MaxTime \in Nat
    /\ MaxOperations \in Nat \ {0} /\ MaxProposals \in Nat

VARIABLES now,                  \* block.timestamp
          admin, pendingAdmin, delay,
          queuedTransactions,   \* the hashes that are queued
          proposals             \* in the order of their ids

vars == <<now, admin, pendingAdmin, delay, queuedTransactions, proposals>>

Actions == ({"call"} \X Calls) \union ({"setDelay"} \X Delays)

Proposal == [eta : Nat, actions : Seq(Actions), executed : BOOLEAN]

Init ==
    /\ now = Genesis
    /\ admin = InitialAdmin
    /\ pendingAdmin = NoAddress
    /\ delay \in MinDelay .. MaxDelay
    /\ queuedTransactions = {}
    /\ proposals = <<>>
-----------------------------------------------------------------------------
State(p) ==
    CASE p.executed -> "Executed"
      [] ~p.executed /\ p.eta = 0 -> "Pending"
      [] ~p.executed /\ p.eta # 0 /\ now >= p.eta + GracePeriod -> "Expired"
      [] OTHER -> "Queued"

\* The hashes under which the actions of p are queued for the time eta.
Hashes(p, eta) == ToSet(p.actions) \X {eta}

Propose(actions) ==
    /\ Len(actions) \in 1 .. MaxOperations
    /\ Len(proposals) < MaxProposals
    /\ proposals' = Append(proposals, [eta |-> 0, actions |-> actions, executed |-> FALSE])
    /\ UNCHANGED <<now, admin, pendingAdmin, delay, queuedTransactions>>

\* A faulty queue: _queueOrRevert does not look whether the hash is queued.
QueueAgain(caller, i) ==
    LET eta == now + delay
    IN  /\ caller = admin
        /\ State(proposals[i]) = "Pending"
        /\ queuedTransactions' = queuedTransactions \union Hashes(proposals[i], eta)
        /\ proposals' = [proposals EXCEPT ![i].eta = eta]
        /\ UNCHANGED <<now, admin, pendingAdmin, delay>>

\* Every action must find its hash free, so no action may occur twice.
Queue(caller, i) ==
    LET eta == now + delay
    IN  /\ caller = admin
        /\ State(proposals[i]) = "Pending"
        /\ IsInjective(proposals[i].actions)
        /\ Hashes(proposals[i], eta) \cap queuedTransactions = {}
        /\ queuedTransactions' = queuedTransactions \union Hashes(proposals[i], eta)
        /\ proposals' = [proposals EXCEPT ![i].eta = eta]
        /\ UNCHANGED <<now, admin, pendingAdmin, delay>>

SetDelays(p) == {k \in DOMAIN p.actions : p.actions[k][1] = "setDelay"}

\* A faulty setDelay: the range is not checked.
SetDelaysAllowedAlways(p) == TRUE

SetDelaysAllowed(p) == \A k \in SetDelays(p) : p.actions[k][2] \in MinDelay .. MaxDelay

\* The setDelay actions of p run in their order: the last one stays.
RunSetDelays(p) ==
    \/ SetDelays(p) = {} /\ UNCHANGED delay
    \/ \E last \in SetDelays(p) :
          /\ \A k \in SetDelays(p) : k <= last
          /\ delay' = p.actions[last][2]

\* A faulty execute: executeTransaction does not compare the time to eta.
ExecuteEarly(caller, i) ==
    LET p == proposals[i]
    IN  /\ State(p) = "Queued"
        /\ caller = admin
        /\ Hashes(p, p.eta) \subseteq queuedTransactions
        /\ SetDelaysAllowed(p)
        /\ proposals' = [proposals EXCEPT ![i].executed = TRUE]
        /\ queuedTransactions' = queuedTransactions \ Hashes(p, p.eta)
        /\ RunSetDelays(p)
        /\ UNCHANGED <<now, admin, pendingAdmin>>

\* Anyone may call execute; executeTransaction, which every action goes
\* through, insists on the admin.
Execute(caller, i) ==
    LET p == proposals[i]
    IN  /\ State(p) = "Queued"
        /\ caller = admin
        /\ IsInjective(p.actions)
        /\ Hashes(p, p.eta) \subseteq queuedTransactions
        /\ p.eta <= now /\ now <= p.eta + GracePeriod
        /\ SetDelaysAllowed(p)
        /\ proposals' = [proposals EXCEPT ![i].executed = TRUE]
        /\ queuedTransactions' = queuedTransactions \ Hashes(p, p.eta)
        /\ RunSetDelays(p)
        /\ UNCHANGED <<now, admin, pendingAdmin>>

\* The proposal is marked with the time 1 first, and the hashes removed from
\* the queue are those of its actions at that time.
Cancel(caller, i) ==
    /\ caller = admin
    /\ State(proposals[i]) \in {"Queued", "Pending"}
    /\ proposals' = [proposals EXCEPT ![i].eta = 1]
    /\ queuedTransactions' = queuedTransactions \ Hashes(proposals[i], 1)
    /\ UNCHANGED <<now, admin, pendingAdmin, delay>>

SetPendingAdmin(caller, a) ==
    /\ caller = admin
    /\ pendingAdmin' = a
    /\ UNCHANGED <<now, admin, delay, queuedTransactions, proposals>>

AcceptAdmin(caller) ==
    /\ caller = pendingAdmin
    /\ admin' = caller
    /\ pendingAdmin' = NoAddress
    /\ UNCHANGED <<now, delay, queuedTransactions, proposals>>

Tick ==
    /\ now < MaxTime
    /\ now' = now + 1
    /\ UNCHANGED <<admin, pendingAdmin, delay, queuedTransactions, proposals>>

Next ==
    \/ \E n \in 1 .. MaxOperations : \E actions \in [1 .. n -> Actions] : Propose(actions)
    \/ \E caller \in Addresses, i \in DOMAIN proposals :
          Queue(caller, i) \/ Execute(caller, i) \/ Cancel(caller, i)
    \/ \E caller \in Addresses, a \in Addresses \union {NoAddress} : SetPendingAdmin(caller, a)
    \/ \E caller \in Addresses : AcceptAdmin(caller)
    \/ Tick

Spec == Init /\ [][Next]_vars
-----------------------------------------------------------------------------
(* Properties.                                                              *)

\* The types, and a delay within the limits whatever setDelay was proposed.
TypeOK ==
    /\ now \in Nat /\ now >= Genesis
    /\ admin \in Addresses /\ pendingAdmin \in Addresses \union {NoAddress}
    /\ delay \in MinDelay .. MaxDelay
    /\ queuedTransactions \subseteq Actions \X Nat
    /\ proposals \in Seq(Proposal)

\* A proposal waiting for execution: queued and neither executed nor cancelled.
Waiting(p) == ~p.executed /\ p.eta > 1

\* The queue holds every action of every waiting proposal at its time, and no
\* two waiting proposals share an entry: queueing, executing or cancelling one
\* never removes what another needs, so that each can still be executed.
WaitingActionsQueued ==
    \A i \in DOMAIN proposals : Waiting(proposals[i]) =>
        /\ Hashes(proposals[i], proposals[i].eta) \subseteq queuedTransactions
        /\ \A j \in DOMAIN proposals \ {i} : Waiting(proposals[j]) =>
              Hashes(proposals[i], proposals[i].eta) \cap Hashes(proposals[j], proposals[j].eta) = {}

Phase(p) ==
    CASE p.executed -> "Executed"
      [] Waiting(p) -> "Queued"
      [] ~p.executed /\ p.eta = 0 -> "Pending"
      [] OTHER -> "Cancelled"

\* Where the proposal with id i stands.
PhaseOf(i) == IF i \in DOMAIN proposals THEN Phase(proposals[i]) ELSE "None"

EtaOf(i) == IF PhaseOf(i) \in {"Queued", "Executed"} THEN proposals[i].eta ELSE 0

Phases == [i \in 1 .. MaxProposals |-> PhaseOf(i)]

Etas == [i \in 1 .. MaxProposals |-> EtaOf(i)]

Delayed == INSTANCE DelayedExecution WITH
               Ids <- 1 .. MaxProposals, phase <- Phases, eta <- Etas

\* Every proposal is executed at most once, not before its time, which lies at
\* least MinDelay after queueing, nor after its grace period or a cancellation.
ImplementsDelayedExecution == Delayed!Spec

\* Governor.sol:200, "Cancel a proposal", and Timelock.sol:148: a cancelled
\* proposal leaves none of its actions in the queue; whatever is queued
\* belongs to a proposal that still waits or has expired.
NothingElseQueued ==
    \A h \in queuedTransactions :
        \E i \in DOMAIN proposals :
            Waiting(proposals[i]) /\ h \in Hashes(proposals[i], proposals[i].eta)
=============================================================================
