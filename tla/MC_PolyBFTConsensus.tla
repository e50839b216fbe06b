------------------------- MODULE MC_PolyBFTConsensus -------------------------
(* Instances of PolyBFTConsensus for TLC: four or five validators of equal
   power or with stake-like powers, one block payload, one or two heights. *)
EXTENDS PolyBFTConsensus

CONSTANTS n1, n2, n3, n4, n5, v1, v2

\* A roster of equal-power validators in the given order.
EqualRoster(s) == [i \in DOMAIN s |-> [Address |-> s[i], VotingPower |-> 1]]

\* Two heights, the same four validators of equal power: the second height
\* rotates from the first block's builder.
MC_Schedule4 == <<EqualRoster(<<n1, n2, n3, n4>>), EqualRoster(<<n1, n2, n3, n4>>)>>

\* Two heights: at the second, n1 leaves and n4 joins the validator set
\* (a departed last proposer falls back to offset 0).
MC_ScheduleEpochs == <<EqualRoster(<<n1, n2, n3>>), EqualRoster(<<n2, n3, n4>>)>>

\* One height, five validators of equal power.
MC_Schedule5 == <<EqualRoster(<<n1, n2, n3, n4, n5>>)>>

\* One height, four validators whose powers total 17.
MC_ScheduleStake ==
    <<<<[Address |-> n1, VotingPower |-> 5], [Address |-> n2, VotingPower |-> 5],
        [Address |-> n3, VotingPower |-> 4], [Address |-> n4, VotingPower |-> 3]>>>>
=============================================================================
