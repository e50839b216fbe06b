-------------------------- MODULE PolyBFTConsensus --------------------------
(***************************************************************************)
(* Block finalization as the consensus layer drives it: the gossip handler *)
(* of the consensus topic (consensus/polybft/transport.go), the validator   *)
(* snapshot and its quorum test (validator_set.go), and the proposer        *)
(* rotation (consensus/ibft/validators.go), composed with an abstract      *)
(* round engine.                                                           *)
(*                                                                         *)
(* The round engine (go-ibft) is not part of this repository.  It is       *)
(* modelled at the level of IBFT 2.0, which it implements: per height and  *)
(* round, the proposer named by CalcProposer multicasts a proposal; a      *)
(* validator PREPAREs a valid proposal of the round's proposer; on a       *)
(* quorum of PREPAREs it records a prepared certificate (its lock) and     *)
(* sends a COMMIT; on a quorum of COMMITs of one round it finalizes.  A    *)
(* round that does not finish times out; the proposal of a later round     *)
(* must be justified by the round-change messages of a quorum: the block   *)
(* of the highest prepared certificate they report, or any block of the    *)
(* proposer's if they report none.  Byzantine validators may propose any   *)
(* block, and send PREPAREs and COMMITs for any proposed block: the quorum  *)
(* test is monotone in the signers, so their votes are taken as present    *)
(* wherever the block was proposed.                                        *)
(*                                                                         *)
(* The view: the network works on one height at a time.  Once some        *)
(* validator has finalized a block the chain may move to the next height   *)
(* (a node that did not finalize it imports it) and the messages of the    *)
(* old height are discarded, as the engine discards them.  Moving on is    *)
(* never forced, so every decision a slow node could still make at a       *)
(* height is explored before the move.  Rounds are network-wide: a round   *)
(* change takes a quorum of ROUND-CHANGE messages.                          *)
(*                                                                         *)
(* Delivery: gossip gives no guarantee (a failed Publish is only logged),  *)
(* so a message may reach a node late or never; a node not receiving a     *)
(* message is a node not taking the step that needs it.  The topic handler *)
(* drops every message reaching a node that is not an active validator of  *)
(* the height, so such a node takes no engine step.                        *)
(***************************************************************************)
EXTENDS Integers, Sequences, FiniteSets, ValidatorSet

CONSTANTS
    Nodes,      \* node addresses
    Faulty,     \* byzantine nodes
    Values,     \* block payloads
    Schedule,   \* height -> the roster the execution layer hands over for it
    MaxHeight,  \* last height modelled
    MaxRound    \* last round of a height: round changes are bounded

ASSUME /\ Faulty \subseteq Nodes
       /\ ZeroAddress \notin Nodes
       /\ \A h \in 1..MaxHeight :
              Len(Schedule[h]) > 0 /\ \A i \in DOMAIN Schedule[h] : Schedule[h][i].Address \in Nodes

Heights == 1..MaxHeight
Rounds  == 0..MaxRound
Honest  == Nodes \ Faulty

\* A block is identified by its payload and its builder (header.Miner).
Blocks == [value : Values, proposer : Nodes]

\* The gossip envelope of the current height: type, sender, round, payload.
Messages == [type : {"PREPREPARE", "PREPARE", "COMMIT"}, from : Nodes,
             round : Rounds, block : Blocks]

\* A prepared certificate: a quorum of PREPAREs for a block in a round.
Certificates == [round : Rounds, block : Blocks]

\* height -> the snapshot NewValidatorSet builds from the height's roster.
vsets == [h \in Heights |-> NewValidatorSet(Schedule[h])]

\* height -> the sets of validators whose voting power passes HasQuorum
\* (a constant: every quorum test of the engine is membership in it).
Quorums == [h \in Heights |-> {S \in SUBSET Nodes : HasQuorum(vsets[h], h, S)}]

VARIABLES
    height,    \* the height being decided
    round,     \* its round
    chain,     \* the finalized blocks of the earlier heights
    locked,    \* node -> {} or {its latest prepared certificate}
    decided,   \* node -> {} or {the block it finalized at this height}
    msgs       \* the messages multicast at this height

vars == <<height, round, chain, locked, decided, msgs>>

-----------------------------------------------------------------------------
\* header.Miner of the parent block, or ZeroAddress before the first block.
LastProposer ==
    IF height = 1 THEN ZeroAddress ELSE chain[height - 1].proposer

\* The proposer of round r of the current height.
Proposer(r) == CalcProposer(vsets[height].validators, r, LastProposer)

\* Mutation: the active check made against the snapshot of the first
\* height, a status cached when the node started.
IsActiveValidatorStale(n) == height \in Heights /\ Includes(vsets[1], n)

\* runtime.IsActiveValidator: the node is in the snapshot of the height.
\* The topic handler drops every message reaching a node for which it fails.
IsActiveValidator(n) == height \in Heights /\ Includes(vsets[height], n)

\* Multicast: Publish on the consensus topic.
Multicast(m) == msgs' = msgs \cup {m}

\* The blocks proposed at this height: only they can gather votes.
Proposed == {m.block : m \in {p \in msgs : p.type = "PREPREPARE"}}

\* The validators whose votes of type t for block b in round r count: the
\* honest senders, and every byzantine validator once b has been proposed.
Signers(t, r, b) ==
    {m.from : m \in {c \in msgs : c.type = t /\ c.round = r /\ c.block = b}}
    \cup (IF \E p \in msgs : p.type = "PREPREPARE" /\ p.block = b THEN Faulty ELSE {})

\* The blocks the proposer p may propose in round r: in round 0 a block it
\* builds; later, for some quorum S of round-change senders, the block of
\* the highest prepared certificate reported in S (byzantine members report
\* none), or a block it builds if S reports none.
Justified(r, p) ==
    LET built == {b \in Blocks : b.proposer = p}
    IN  IF r = 0 THEN built
        ELSE UNION {LET pcs == UNION {locked[x] : x \in S \cap Honest}
                        top == {c \in pcs : \A d \in pcs : d.round <= c.round}
                    IN  IF pcs = {} THEN built ELSE {c.block : c \in top}
                    : S \in Quorums[height]}

\* Mutation: a proposal accepted without checking its sender is the
\* round's proposer.
ValidProposalAnySender(b) ==
    \E m \in msgs : /\ m.type = "PREPREPARE" /\ m.round = round /\ m.block = b
                    /\ b \in Justified(round, m.from)

\* The proposal of the current round the node accepts: from the round's
\* proposer, and justified.
ValidProposal(b) ==
    \E m \in msgs : /\ m.type = "PREPREPARE" /\ m.round = round /\ m.block = b
                    /\ m.from = Proposer(round)
                    /\ b \in Justified(round, m.from)

-----------------------------------------------------------------------------
Init ==
    /\ height  = 1
    /\ round   = 0
    /\ chain   = <<>>
    /\ locked  = [n \in Nodes |-> {}]
    /\ decided = [n \in Nodes |-> {}]
    /\ msgs    = {}

\* The round's proposer multicasts a justified proposal, once per round.
Propose(n) ==
    /\ n \in Honest
    /\ IsActiveValidator(n)
    /\ n = Proposer(round)
    /\ ~\E m \in msgs : m.type = "PREPREPARE" /\ m.from = n /\ m.round = round
    /\ \E b \in Justified(round, n) :
          Multicast([type |-> "PREPREPARE", from |-> n, round |-> round, block |-> b])
    /\ UNCHANGED <<height, round, chain, locked, decided>>

\* A validator PREPAREs the valid proposal of the round, once per round.
Prepare(n) ==
    /\ n \in Honest
    /\ IsActiveValidator(n)
    /\ decided[n] = {}
    /\ ~\E c \in msgs : c.type = "PREPARE" /\ c.from = n /\ c.round = round
    /\ \E b \in Proposed :
          /\ ValidProposal(b)
          /\ Multicast([type |-> "PREPARE", from |-> n, round |-> round, block |-> b])
    /\ UNCHANGED <<height, round, chain, locked, decided>>

\* On a quorum of PREPAREs for the proposal a validator locks on it (its
\* prepared certificate) and sends a COMMIT, once per round.
Commit(n) ==
    /\ n \in Honest
    /\ IsActiveValidator(n)
    /\ decided[n] = {}
    /\ ~\E c \in msgs : c.type = "COMMIT" /\ c.from = n /\ c.round = round
    /\ \E b \in Proposed :
          /\ ValidProposal(b)
          /\ Signers("PREPARE", round, b) \in Quorums[height]
          /\ locked' = [locked EXCEPT ![n] = {[round |-> round, block |-> b]}]
          /\ Multicast([type |-> "COMMIT", from |-> n, round |-> round, block |-> b])
    /\ UNCHANGED <<height, round, chain, decided>>

\* A validator finalizes b once the COMMITs of one round reach quorum in
\* the snapshot of the height.
Finalize(n) ==
    /\ n \in Honest
    /\ IsActiveValidator(n)
    /\ decided[n] = {}
    /\ \E r \in Rounds, b \in Proposed :
          /\ Signers("COMMIT", r, b) \in Quorums[height]
          /\ decided' = [decided EXCEPT ![n] = {b}]
    /\ UNCHANGED <<height, round, chain, locked, msgs>>

\* Mutation: the round bound checked with <= (one round too many).
RoundTimeoutOffByOne ==
    /\ height \in Heights
    /\ \A n \in Honest : decided[n] = {}
    /\ round <= MaxRound
    /\ round' = round + 1
    /\ UNCHANGED <<height, chain, locked, decided, msgs>>

\* The round timer expires before anyone finalized the height; the
\* validators move to the next round (a quorum of ROUND-CHANGEs).
RoundTimeout ==
    /\ height \in Heights
    /\ \A n \in Honest : decided[n] = {}
    /\ round < MaxRound
    /\ round' = round + 1
    /\ UNCHANGED <<height, chain, locked, decided, msgs>>

\* Mutation: the prepared certificates of the finished height kept into
\* the next one.
NextHeightKeepingLocks ==
    /\ \E n \in Honest : \E b \in decided[n] : chain' = Append(chain, b)
    /\ height' = height + 1
    /\ round'  = 0
    /\ decided' = [n \in Nodes |-> {}]
    /\ msgs'    = {}
    /\ UNCHANGED locked

\* A finalized block is appended to the chain and the network moves to the
\* next height at round 0 with no locks and no messages.
NextHeight ==
    /\ \E n \in Honest : \E b \in decided[n] : chain' = Append(chain, b)
    /\ height' = height + 1
    /\ round'  = 0
    /\ locked'  = [n \in Nodes |-> {}]
    /\ decided' = [n \in Nodes |-> {}]
    /\ msgs'    = {}

\* A byzantine validator proposes, in the current round and whether or not
\* it is the round's proposer, a block it builds or a block some quorum
\* would justify.
Byzantine(f) ==
    /\ f \in Faulty
    /\ height \in Heights
    /\ \E b \in {b \in Blocks : b.proposer = f} \cup Justified(round, f) :
          Multicast([type |-> "PREPREPARE", from |-> f, round |-> round, block |-> b])
    /\ msgs' # msgs
    /\ UNCHANGED <<height, round, chain, locked, decided>>

\* Every modelled height is finalized.
Done ==
    /\ height \notin Heights
    /\ UNCHANGED vars

Next ==
    \/ \E n \in Nodes :
          Propose(n) \/ Prepare(n) \/ Commit(n) \/ Finalize(n) \/ Byzantine(n)
    \/ RoundTimeout
    \/ NextHeight
    \/ Done

Spec == Init /\ [][Next]_vars

\* Round timers fire, honest validators keep running, and gossip between
\* them eventually delivers: no step that stays enabled is postponed forever.
FairSpec == Spec /\ WF_vars(Next)

-----------------------------------------------------------------------------
TypeOK ==
    /\ height \in 1..(MaxHeight + 1)
    /\ round \in Rounds
    /\ chain \in Seq(Blocks) /\ Len(chain) = height - 1
    /\ locked \in [Nodes -> SUBSET Certificates]
    /\ decided \in [Nodes -> SUBSET Blocks]
    /\ msgs \subseteq Messages

\* Agreement: no two honest validators finalize different blocks at one
\* height.  It rests on every two quorums of getQuorumSize sharing more
\* voting power than the byzantine validators hold: then a block with a
\* quorum of COMMITs has locked enough honest validators that every later
\* justified proposal is that block.
Agreement ==
    \A n1, n2 \in Honest : \A b1 \in decided[n1], b2 \in decided[n2] : b1 = b2

\* Every block an honest validator finalizes was built by the validator
\* CalcProposer names for some round of the height, counted from the
\* builder of the parent block: a byzantine validator outside its turn
\* never gets a block of its own finalized.
FinalizedByRotation ==
    \A n \in Honest : \A b \in decided[n] : \E r \in Rounds : b.proposer = Proposer(r)

\* Every finalized block carries COMMITs of at least 60% of the voting power
\* of the height's snapshot (the quorum rule of the specification, in
\* exact arithmetic).
FinalizedWithSixtyPercent ==
    \A n \in Honest : \A b \in decided[n] :
        \E r \in Rounds :
            SignersPower(vsets[height], Signers("COMMIT", r, b))
                >= ExactQuorumSize(vsets[height].totalVotingPower)

\* With every validator honest, each height is finalized within the rounds
\* of the bound, the snapshot changing between heights included: the
\* chain reaches the last height.
EveryHeightFinalized == <>(height = MaxHeight + 1)

-----------------------------------------------------------------------------
\* The refinement mapping: the abstract ledger is the chain, the abstract
\* decision is what the honest validators have finalized at this height,
\* and a height's members are the addresses of its roster.
Finalization == INSTANCE FinalizedChain WITH
    ledger   <- chain,
    decision <- UNION {decided[n] : n \in Honest},
    Members  <- [h \in Heights |-> {Schedule[h][i].Address : i \in DOMAIN Schedule[h]}]

\* Finalization implements FinalizedChain: the honest validators finalize
\* at most one block per height, built by a member of the height's roster,
\* a finalized block stays decided until the chain appends it, and
\* NextHeight appends exactly that block.  It combines the quorum
\* intersection of getQuorumSize with the snapshot handed over per height.
FinalizedChainRefinement == Finalization!Spec
=============================================================================
