---------------------------- MODULE ValidatorSet ----------------------------
(***************************************************************************)
(* The validator-set snapshot (consensus/polybft/validator/validator_set.go)*)
(* and the IBFT proposer rotation (consensus/ibft/validators.go).           *)
(*                                                                         *)
(* A snapshot is an immutable record built by NewValidatorSet from an      *)
(* ordered roster of accounts; its queries are pure operators.  An account *)
(* is a record [Address, VotingPower]; a roster is a sequence of accounts, *)
(* whose order is the rotation order of CalcProposer.                      *)
(***************************************************************************)
EXTENDS Integers, Sequences, QuorumSize

LOCAL INSTANCE Functions

CONSTANT ZeroAddress   \* types.ZeroAddress: "no last proposer"

\* AccountSet.GetTotalVotingPower: the sum of every account's power
\* (every entry of the roster, a repeated address included).
GetTotalVotingPower(valz) ==
    SumFunction([i \in DOMAIN valz |-> valz[i].VotingPower])

\* NewValidatorSet: the address -> power map is filled in roster order, so a
\* repeated address keeps the power of its last entry; the total is taken
\* from the roster as it is.
NewValidatorSet(valz) ==
    LET addrs == {valz[i].Address : i \in DOMAIN valz}
        last(a) == CHOOSE i \in DOMAIN valz :
                      /\ valz[i].Address = a
                      /\ \A j \in DOMAIN valz : j > i => valz[j].Address # a
    IN  [validators       |-> valz,
         votingPowerMap   |-> [a \in addrs |-> valz[last(a)].VotingPower],
         totalVotingPower |-> GetTotalVotingPower(valz)]

\* The aggregate power HasQuorum adds up: the map's power of every signer
\* in the map; an unknown signer adds nothing.
SignersPower(vs, signers) ==
    LET known == signers \cap DOMAIN vs.votingPowerMap
    IN  SumFunction([a \in known |-> vs.votingPowerMap[a]])

\* HasQuorum: the signers' power against getQuorumSize of the total.
HasQuorum(vs, blockNumber, signers) ==
    SignersPower(vs, signers) >= getQuorumSize(blockNumber, vs.totalVotingPower)

\* Includes: the address is one of the roster's accounts.
Includes(vs, address) ==
    \E i \in DOMAIN vs.validators : vs.validators[i].Address = address

\* Len of the snapshot: the number of roster entries.
ValidatorsLen(vs) == Len(vs.validators)

\* Validators.Index: the 0-based position of the first account with the
\* address, or -1.
IndexOf(validators, address) ==
    IF \E i \in DOMAIN validators : validators[i].Address = address
    THEN (CHOOSE i \in DOMAIN validators :
             /\ validators[i].Address = address
             /\ \A j \in 1..(i - 1) : validators[j].Address # address) - 1
    ELSE -1

\* Mutation: the seed after a known last proposer without the + 1, so
\* round 0 goes back to the last proposer.
CalcProposerSeedOffByOne(validators, round, lastProposer) ==
    LET offset == IF IndexOf(validators, lastProposer) = -1 THEN 0
                  ELSE IndexOf(validators, lastProposer)
        seed == IF lastProposer = ZeroAddress THEN round ELSE offset + round
    IN  validators[(seed % Len(validators)) + 1].Address

\* CalcProposer: round-robin from the last proposer's position (0 when it
\* is unknown), offset by the round; with no last proposer the round alone.
\* The seed is a uint64; it wraps only for rounds near 2^64, which no
\* behaviour reaches, so it is kept exact.  An empty roster divides by zero.
CalcProposer(validators, round, lastProposer) ==
    LET offset == IF IndexOf(validators, lastProposer) = -1 THEN 0
                  ELSE IndexOf(validators, lastProposer)
        seed == IF lastProposer = ZeroAddress THEN round
                ELSE offset + round + 1
        pick == seed % Len(validators)
    IN  validators[pick + 1].Address
=============================================================================
