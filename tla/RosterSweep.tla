---------------------------- MODULE RosterSweep ----------------------------
(***************************************************************************)
(* The validator snapshot NewValidatorSet builds, for every roster the     *)
(* execution layer could hand over up to MaxLen accounts: the behaviour    *)
(* grows the roster one account at a time, so every sequence of accounts   *)
(* over Addresses and Powers is a reachable state.  A roster is taken as   *)
(* it is: NewValidatorSet does not reject a repeated address.              *)
(***************************************************************************)
EXTENDS ValidatorSet

CONSTANTS
    Addresses,  \* validator addresses
    Powers,     \* voting powers
    MaxLen      \* the longest roster

VARIABLE roster

Init == roster = <<>>

\* The execution layer lists one more account.
Grow ==
    /\ Len(roster) < MaxLen
    /\ \E a \in Addresses, p \in Powers :
          roster' = Append(roster, [Address |-> a, VotingPower |-> p])

Next == Grow

Spec == Init /\ [][Next]_roster

-----------------------------------------------------------------------------
\* When every validator of a non-empty roster signs, HasQuorum of its
\* snapshot holds: the specification's snapshot invariant (no duplicate
\* addresses, the total is the sum of the members' powers) makes the whole
\* set always a quorum, so the chain can always finalize.
FullSetReachesQuorum ==
    Len(roster) > 0 =>
        HasQuorum(NewValidatorSet(roster), 0, {roster[i].Address : i \in DOMAIN roster})
=============================================================================
