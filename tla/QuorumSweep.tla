---------------------------- MODULE QuorumSweep ----------------------------
(***************************************************************************)
(* The quorum arithmetic of QuorumSize and the proposer rotation of       *)
(* ValidatorSet, checked against their reference definitions and the      *)
(* properties the specification states, for every total voting power (and *)
(* every validator count) from 0 to MaxTotal: the behaviour visits the     *)
(* totals one after another.                                               *)
(***************************************************************************)
EXTENDS ValidatorSet

CONSTANTS
    MaxTotal,       \* the largest total (and validator count) checked
    RotationBound   \* the largest validator count the rotation is checked for

VARIABLE total      \* the total voting power, or validator count, in view

Init == total = 0

\* The next total.
Step == total < MaxTotal /\ total' = total + 1

\* Every total up to MaxTotal has been visited.
Finished == total = MaxTotal /\ UNCHANGED total

Next == Step \/ Finished

Spec == Init /\ [][Next]_total

-----------------------------------------------------------------------------
\* Quorum monotonicity (a testable property of the specification): for
\* every positive total, getQuorumSize never asks for more than the total,
\* and never asks for less than it did for the total one below.
QuorumMonotonicity ==
    total > 0 =>
        /\ getQuorumSize(0, total) <= total
        /\ getQuorumSize(0, total - 1) <= getQuorumSize(0, total)

\* The IBFT count rules leave room for the faulty nodes they tolerate: the
\* N - CalcMaxFaultyNodes(N) non-faulty validators can always form an
\* OptimalQuorumSize quorum, for every N >= 1.
HonestCanReachQuorum ==
    total > 0 => OptimalQuorumSize(total) <= total - CalcMaxFaultyNodes(total)

\* A roster of `total` validators of power 1, with addresses 1..total.
Roster == [i \in 1..total |-> [Address |-> i, VotingPower |-> 1]]

\* A commit with no signers: HasQuorum sums no power, so it holds exactly
\* when getQuorumSize asks for none.  Only the empty roster (total 0) asks
\* for none; every roster with power needs at least one signer, checked on
\* getQuorumSize for every total and on NewValidatorSet / HasQuorum for
\* rosters up to RotationBound validators.
EmptyCommitNeverQuorum ==
    /\ (getQuorumSize(0, total) = 0) <=> (total = 0)
    /\ total <= RotationBound =>
          (HasQuorum(NewValidatorSet(Roster), 0, {}) <=> (total = 0))

\* Proposer rotation, against its reference definition (the
\* specification's rotation determinism and fallback properties): with no
\* last proposer, round r goes to the validator at ordinal r mod N; after a
\* block of the validator at ordinal k - 1, round r goes to ordinal
\* (k + r) mod N, so round 0 never goes to the last proposer when N > 1;
\* a last proposer that left the set counts as ordinal 0.  Rounds run over
\* two full turns, so the wrap-around of the modulo is reached.
ProposerRotation ==
    total \in 1..RotationBound =>
        \A r \in 0..(2 * total) :
            /\ CalcProposer(Roster, r, ZeroAddress) = (r % total) + 1
            /\ \A k \in 1..total : CalcProposer(Roster, r, k) = ((k + r) % total) + 1
            /\ CalcProposer(Roster, r, total + 1) = CalcProposer(Roster, r, 1)
=============================================================================
