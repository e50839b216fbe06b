# TLA+ models of the tanledger consensus quorum and bridge tooling

This directory holds TLA+ models of the parts of
`src/TAN-Netwoek-master` that decide blocks and bootstrap the bridge, the
TLC configurations that check them, and `PROJECT.json`. `PROJECT.json` lists
the components, the runs, the mutants, the map from every definition to
the Go lines it models, the findings and the hazards.

## The system and its parts

* **Quorum calculator** (`consensus/polybft/validator/validator_set.go`
  `getQuorumSize`; `consensus/ibft/validators.go` `CalcMaxFaultyNodes`,
  `LegacyQuorumSize`, `OptimalQuorumSize`). It computes the power a
  signer set needs: ceil(0.6 · total), evaluated in binary floating point.
* **Validator set snapshot** (`validator_set.go`). `NewValidatorSet` builds
  an address → power map and a total from an ordered roster. `HasQuorum`
  adds up the signers' power (unknown signers add nothing) and compares the
  sum with the quorum.
* **Proposer selector** (`validators.go` `CalcProposer`). It is a round
  robin from the last proposer's index, offset by the round, with a
  fallback to offset 0.
* **Consensus transport** (`consensus/polybft/transport.go`). The topic
  handler drops every message when the node is not an active validator.
  `Multicast` only logs a publish failure.
* **Round engine** (go-ibft). It is not in this repository. It drives
  heights and rounds on the transport, and uses the snapshot's `HasQuorum`
  and the proposer selector.
* **Rootchain bootstrap** (`command/rootchain/deploy/deploy.go`,
  `helper/metadata.go`). It deploys the bridge contracts concurrently in
  one errgroup, then initializes them in a second errgroup. It then
  registers the chain on the stake manager and writes the bridge config
  into genesis. The operator reruns it after a failure.
* **Withdraw commands** (`command/rootchain/withdraw`,
  `command/sidechain/withdraw`). Each sends one transaction, waits for
  its receipt through the tx relayer (configured with
  `WithReceiptTimeout(150 ms)`; the relayer is not in the repository), and reports the amount from the receipt's withdrawal
  event.

The quorum calculator feeds the snapshot. The snapshot and the proposer
selector feed the round engine, which talks through the transport. The
bootstrap and withdraw commands talk to the chains through a tx relayer.

## Modules

| module | models | state / actions |
|---|---|---|
| `QuorumSize` | the quorum calculator | Pure operators. `getQuorumSize` rounds the product of the float64 literal 0.6 and the total to the big.Float precision, max(BitLen(T), 64), then to float64's 53 bits (ties to even), then takes the ceiling. The widths are CONSTANTS `FloatPrec` and `IntPrec`, scaled to 6 and 8 because TLC's integers are 32-bit. At those widths, totals near 2^6 round the way totals near 2^53 do in the code. The IBFT helpers are exact integer formulas, which the float64 code matches for any realistic validator count. |
| `ValidatorSet` | snapshot, proposer selector | Pure operators: `NewValidatorSet` (the last entry of a repeated address wins in the map, while the total counts every entry), `SignersPower`, `HasQuorum`, `Includes`, `ValidatorsLen`, `IndexOf`, `CalcProposer`. |
| `QuorumSweep` | (driver) | One variable `total`, stepping 0..`MaxTotal`, so that invariants check the quorum operators at every total and `CalcProposer` for a roster of every size up to `RotationBound`. |
| `RosterSweep` | (driver) | One variable `roster`, grown one account at a time over `Addresses` × `Powers` up to `MaxLen`, so that every short roster the execution layer could hand over is a state. |
| `FinalizedChain` | what finalization promises | Variables `ledger` and `decision`. `Decide(b)` picks one block, built by a member of the next height's roster. `Extend` appends it. |
| `PolyBFTConsensus` | transport and round engine composed with the snapshot | Variables: `height`, `round`, `chain`, `locked` (prepared certificates), `decided`, `msgs`. Actions: `Propose`, `Prepare`, `Commit`, `Finalize` (each guarded by `IsActiveValidator`, the handler's filter), `RoundTimeout`, `NextHeight`, `Byzantine`, `Done`. Every node's snapshot for a height is `NewValidatorSet(Schedule[h])`, and every quorum test is `HasQuorum`. |
| `DeployContracts` | rootchain bootstrap | `pc` follows `runCommand`. `deploy`/`init` hold one goroutine state per contract. `deployErr`/`initErr` stand for the groups' errors and cancelled contexts. `config` is deployContracts' `rootchainConfig`, a map from field to address. `chainCode`, `chainInit` (initialize calls, with target and arguments), `registered` (the rootchain) and `genesis` (the bridge config) persist across runs. An address is `<<run, contract>>` for a deployment, or run 0 for the zero address and flag-given addresses. `metadataPopulatorMap` and `initializersMap` are the code's tables, with the real contract names. Actions: `Start`, `runCommand` (read genesis, GetCode check), `deployContractsSetup` with `populateExistingTokenAddr`, `DeployStart`/`DeployMined`/`DeployFails`, `DeployWait`, `InitStart`/`InitMined`/`InitFails`, `InitWait`, `registerChainOnStakeManager`, `SaveGenesis`. |
| `Withdraw` | both withdraw commands | `pc`, `sent`, and `report` belong to the command. `pending`, `receipts`, `stake` and `withdrawable` belong to the chain. Actions: `rootRunCommand(a, t)` and `sideRunCommand` send; `Mine(tx)` is the chain; `rootReceiptArrives` and `sideReceiptArrives` are each command's receipt handling: the status check, the log scan for its event and the report, through `ReceiptReport`; withdraw-root's amount goes through `ReportedAmount` (`Uint64`); `ReceiptTimeout` is the relayer giving up on the receipt, at any point of the wait, which covers either reading of `WithReceiptTimeout` (a total wait or a poll interval). |

The round engine is modelled from the specification at the level of IBFT
2.0, because its code is not here:

* A proposal for round r > 0 must be justified by a quorum of
  round-change reports. It is the block of the highest prepared
  certificate among them, or any block of the proposer's if they report
  none.
* Byzantine PREPAREs and COMMITs are folded into `Signers`: a byzantine
  validator counts as a signer of every proposed block, which the
  monotone quorum test makes the worst case.
* Message loss needs no action of its own. A message that never arrives
  is a step its receiver never takes.

The chain in `DeployContracts` and `Withdraw` is the environment:

* Any RPC may fail.
* A send that timed out may still be mined later (the `landed` choices,
  and `pending` in `Withdraw`).
* A call to a wrong address succeeds without logs.

## Runs

| run | cfg | expect | what it shows |
|---|---|---|---|
| consensus_byzantine | MC_PolyBFTConsensus.cfg | pass | Four validators of power 1, n4 byzantine, two heights of rounds 0..1: `Agreement`, `FinalizedByRotation` (at height 2 rotating from the first block's builder), and `FinalizedWithSixtyPercent` (222k states, about 2.5 min). |
| epochs_liveness | MC_PolyBFTEpochs.cfg | pass | All honest; {n1,n2,n3} at height 1, then {n2,n3,n4}: `EveryHeightFinalized` under `WF_vars(Next)`, through a departed last proposer's fallback, and `FinalizedChainRefinement`, where the roster change makes the abstract spec's membership guard bite (about 1 min). |
| forty_percent_faulty | MC_PolyBFTFortyPercent.cfg | violation | With 2 of 5 byzantine, the 40% the code's comment tolerates, `Agreement` fails. |
| stake_quorum_float | MC_PolyBFTStakeQuorum.cfg | violation | Powers 5,5,4,3 (total 17): the float quorum is 10 < ceil(0.6 · 17) = 11. It is the first total at which it differs from the exact rule. A block is finalized with less than 60% of the power. |
| roster_duplicates | RosterSweep.cfg | violation | The roster [a1:1, a1:1] gives total 2 and quorum 2, but the power map holds 1 for a1: `FullSetReachesQuorum` fails, and the chain could never finalize. |
| quorum_sweep | QuorumSweep.cfg | pass | For T ≤ 300: a commit with no signers reaches the quorum only for the empty roster, on `getQuorumSize` and, up to six validators, on `NewValidatorSet`/`HasQuorum` (`EmptyCommitNeverQuorum`); Q(T) ≤ T, Q is non-decreasing, and the IBFT honest count N − F reaches the IBFT quorum. For N ≤ 6 and two full turns of rounds, `CalcProposer` matches the reference rotation, with the zero address, every last proposer and a departed one (`ProposerRotation`). |
| deploy | MC_DeployContracts.cfg | pass | StateSender, CheckpointManager, ExitHelper and RootERC20Predicate, with an existing root token given by flag, over two runs (37k states). Genesis names one complete deployment, down to the arguments of its initialize calls. Nothing is deployed after it. Every initialize call that reaches the chain uses its own run's addresses (`InitializeCallsUseOwnDeployment`), even a timed-out call mined late. Every run ends. |
| deploy_init_failfast | MC_DeployInitFailFast.cfg | violation | The init group keeps sending after a sibling failed. |
| deploy_nil_slots | MC_DeployReportHasNoNilSlot.cfg | violation | A failed deployment reports nil result slots. |
| deploy_partial_results | MC_DeployErrorReportsPartialResults.cfg | violation | An init failure reports no deployment results. |
| withdraw | MC_Withdraw.cfg | pass | Three runs of either command, with timed-out transactions mined during later runs. A success report always names the run's own executed withdrawal and its amount (`SuccessReportIsExecuted`). |
| withdraw_uint64 | MC_WithdrawUint64.cfg | violation | withdraw-root reports an amount of 2^64 or more modulo 2^64. |

Each property of a passing run has a mutant in `PROJECT.json`: a
plausible slip in the modelled code that TLC shows breaks it. The
mutants are:

* int() or math.Round in place of math.Ceil;
* a 64-bit total;
* a proposal accepted from any sender;
* the rotation seed without its + 1;
* the populate loop dropped;
* the existing token's code check dropped;
* the active-validator status cached from the first height;
* a goroutine that blocks on cancellation;
* the GetCode check dropped;
* the missing-log check dropped;
* Int64 in place of Uint64;
* the prepared certificates of a height kept into the next one.

## Bounds

* **Consensus.** Two rounds per height are enough for a round-0 lock to
  constrain the round-1 proposal, which is where agreement is decided.
  Four equal validators with one byzantine is the classical smallest
  case. Five with two byzantine is the smallest that reaches the
  documented 40%. A single value suffices because blocks are told apart
  by their proposer.
* **Liveness.** The liveness run uses two heights of three validators
  each, with one validator leaving and one joining between them. Both
  the joining validator's active check and CalcProposer's fallback
  therefore happen.
* **Quorum sweep.** It covers every total to 300 at widths 6/8. That
  crosses both precision switches, BitLen(T) > IntPrec at T = 256 and
  T > 2^FloatPrec.
* **Deploy.** Two runs are needed for reruns after partial failures.
  Four contracts give a failing contract, a sibling that is cancelled
  and one that completes. Two of them have initializers, and those
  read the addresses of the other two and of the flag-given token.
  The other eleven contracts of allContracts repeat the same pattern
  of populator and initializer, and are left out to keep the run small.
  The flag-given token may or may not have code in the initial state.
* **Rosters.** Rosters of up to three accounts over two addresses and
  powers {1, 2} include every way an address can repeat.
* **Rotation.** Rotation is checked for up to six validators over
  2N + 1 rounds, which wraps the modulo twice.
* **Withdraw.** Three runs allow a timed-out transaction to be mined
  during a later run.

## Fairness

* `PolyBFTConsensus!FairSpec` assumes that round timers fire, honest
  nodes keep stepping, and gossip between honest nodes eventually
  delivers. That is the partial-synchrony assumption the engine's timeout
  design rests on. It is used only with no byzantine validators.
* `DeployContracts!FairSpec` assumes the Go scheduler runs every runnable
  goroutine and every RPC returns, as an RPC client with timeouts does.
* No other run uses fairness.

## Not modelled

* The dummy engine, the backend registry, the CLI glue and flag
  parsing: no concurrency or persistent state, and out of the
  specification's scope.
* The extra-data codec and the signature subsystem: not in the
  repository, and byte-level.
* `createTopics`: it runs once at node start, and a failure to create a
  topic is fatal to the start (specification 4.7), so the bridge topic it
  leaves open when the consensus topic fails goes with the process.
* The rootchain helpers that no modelled command calls
  (`GetRootchainID`, `ReadRootchainIP`, `GetECDSAKey`,
  `GetValidatorInfo`, `CreateMintTxn`, `CreateApproveERC20Txn`): their
  callers are not in the repository, and each is one RPC or docker call.
* Initialize arguments that are fixed child-chain addresses
  (`contracts.*`) or other flags: they cannot differ between runs.
* The dummy engine: `Start` spawns a goroutine that waits on `closeCh`,
  and `Close` closes it. There is no protocol to check. A second `Close`
  would panic, but the server closes the engine once.

## Refinement

`PolyBFTConsensus` defines
`Finalization == INSTANCE FinalizedChain WITH ledger <- chain, decision <- UNION {decided[n] : n \in Honest}, Members <- ...`,
and epochs_liveness checks `FinalizedChainRefinement == Finalization!Spec`
as a PROPERTY. It is checked there, and not in consensus_byzantine, because
there the roster changes between the heights: `Members` differs per height,
so `Decide`'s guard (the block's builder is a member of that height's
roster) is a real constraint rather than a consequence of `Agreement`. Every step of the protocol, including byzantine proposals,
lost messages and round changes, must then be one of three things:
* a stutter of the abstract chain;
* the first finalization of a height's single block;
* `NextHeight` appending exactly that block.

A `NextHeight` that keeps the prepared certificates of the finished height
breaks it: a round-change at height 2 then re-proposes height 1's block,
built by n1, who has left the roster.
