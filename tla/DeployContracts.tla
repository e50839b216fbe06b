-------------------------- MODULE DeployContracts --------------------------
(***************************************************************************)
(* The rootchain bootstrap command (command/rootchain/deploy/deploy.go):   *)
(* runCommand checks whether the bridge is already deployed, deployContracts*)
(* deploys every contract in one errgroup of goroutines, fills the         *)
(* rootchain config from the results, initializes the contracts that have  *)
(* an initializer in a second errgroup, registers the chain on the stake   *)
(* manager, and runCommand finally writes the bridge config into the       *)
(* genesis file.  The operator may run the command again after a failure.  *)
(*                                                                         *)
(* The rootchain (mined code, initialize calls, registrations) and the     *)
(* genesis file persist across runs; the goroutine states and the result   *)
(* slots belong to one run.  A deployment is identified by its run and its *)
(* contract, standing for the address the receipt returns.  Every RPC may   *)
(* fail; a SendTransaction that fails after submitting (a receipt wait that*)
(* times out) may still have its transaction mined.                        *)
(***************************************************************************)
EXTENDS Naturals, FiniteSets

CONSTANTS
    Contracts,        \* the contracts of allContracts the model deploys
    IsMintable,       \* consensusCfg.NativeTokenConfig.IsMintable
    TokenAddrGiven,   \* params.rootERC20TokenAddr != ""
    MaxRuns           \* runs of the command the operator makes

\* An address: a deployment <<run, contract>>, or one the run did not
\* deploy (run 0): the zero address, and the addresses given by flags.
ZeroAddress      == <<0, "zero">>
StakeManagerAddr == <<0, "StakeManager">>   \* params.stakeManagerAddr
TokenFlagAddr    == <<0, "RootERC20">>      \* params.rootERC20TokenAddr
Addresses == {ZeroAddress, StakeManagerAddr, TokenFlagAddr} \cup
             ((1..MaxRuns) \X (Contracts \cup {"RootERC20"}))

\* metadataPopulatorMap: the RootchainConfig field each contract's address
\* is written to.
metadataPopulatorMap ==
    [StateSender |-> "StateSenderAddress",
     CheckpointManager |-> "CheckpointManagerAddress",
     BLS |-> "BLSAddress",
     BN256G2 |-> "BN256G2Address",
     ExitHelper |-> "ExitHelperAddress",
     RootERC20Predicate |-> "RootERC20PredicateAddress",
     ChildERC20MintablePredicate |-> "ChildMintableERC20PredicateAddress",
     RootERC20 |-> "RootNativeERC20Address",
     ERC20Template |-> "ChildERC20Address",
     RootERC721Predicate |-> "RootERC721PredicateAddress",
     ChildERC721MintablePredicate |-> "ChildMintableERC721PredicateAddress",
     ERC721Template |-> "ChildERC721Address",
     RootERC1155Predicate |-> "RootERC1155PredicateAddress",
     ChildERC1155MintablePredicate |-> "ChildMintableERC1155PredicateAddress",
     ERC1155Template |-> "ChildERC1155Address",
     CustomSupernetManager |-> "CustomSupernetManagerAddress"]

\* The RootchainConfig fields.
Fields == {metadataPopulatorMap[c] : c \in DOMAIN metadataPopulatorMap}
          \cup {"StakeManagerAddress"}

\* initializersMap: for each contract with an initializer, the config
\* fields its initialize call passes as arguments (the contract's own
\* field is the call's target).  Arguments that are fixed child-chain
\* addresses or taken from other flags are left out.
initializersMap ==
    LET bridge == {"StateSenderAddress", "ExitHelperAddress"}
    IN
    [CustomSupernetManager |-> bridge \cup {"StakeManagerAddress", "BLSAddress"},
     ExitHelper |-> {"CheckpointManagerAddress"},
     RootERC20Predicate |->
         bridge \cup (IF IsMintable THEN {} ELSE {"RootNativeERC20Address"}),
     ChildERC20MintablePredicate |-> bridge \cup {"ChildERC20Address"},
     RootERC721Predicate |-> bridge,
     ChildERC721MintablePredicate |-> bridge \cup {"ChildERC721Address"},
     RootERC1155Predicate |-> bridge,
     ChildERC1155MintablePredicate |-> bridge \cup {"ChildERC1155Address"}]

\* allContracts: RootERC20 goes first when the native token is not
\* mintable and no existing token address is given.
allContracts ==
    IF ~IsMintable /\ ~TokenAddrGiven THEN {"RootERC20"} \cup Contracts ELSE Contracts

\* The contracts the init group starts a goroutine for.
Initialized == allContracts \cap DOMAIN initializersMap

\* The rootchain config deployContracts starts from: only the stake
\* manager address, from its flag.
EmptyConfig == [f \in Fields |-> IF f = "StakeManagerAddress" THEN StakeManagerAddr
                                  ELSE ZeroAddress]

\* The config after the populators ran for the deployments of run r.
Populate(cfg, r) ==
    [f \in Fields |-> IF \E c \in allContracts : metadataPopulatorMap[c] = f
                      THEN <<r, CHOOSE c \in allContracts : metadataPopulatorMap[c] = f>>
                      ELSE cfg[f]]

\* The initialize call of contract c under config cfg: its target and its
\* arguments.
InitCall(r, c, cfg) ==
    [run |-> r, contract |-> c, target |-> cfg[metadataPopulatorMap[c]],
     args |-> [f \in initializersMap[c] |-> cfg[f]]]

ASSUME /\ Contracts \subseteq DOMAIN metadataPopulatorMap \ {"RootERC20"}
       /\ "StateSender" \in Contracts
       /\ IsMintable \in BOOLEAN /\ TokenAddrGiven \in BOOLEAN
       /\ MaxRuns \in Nat \ {0}

Runs == 1..MaxRuns

\* Goroutine states of an errgroup member.
GoStates == {"ready", "sending", "ok", "failed", "skipped"}

\* Where runCommand is: between runs, before the GetCode check, waiting on
\* the deploy group, waiting on the init group, registering, saving.
Phases == {"idle", "check", "deploy", "init", "register", "save"}

\* No bridge config in genesis (consensusCfg.Bridge is nil).
NoBridge == [f \in Fields |-> ZeroAddress]

VARIABLES
    pc,          \* runCommand's control point
    run,         \* the current or last run
    genesis,     \* the bridge config in genesis, or NoBridge
    chainCode,   \* addresses with code on the rootchain
    chainInit,   \* initialize calls mined, with their target and arguments
    registered,  \* runs whose supernet manager got registered
    deploy,      \* contract -> its goroutine in the deploy group
    init,        \* initialized contract -> its goroutine in the init group
    deployErr,   \* the deploy group has an error (its ctx is cancelled)
    initErr,     \* the init group has an error (its ctx is cancelled)
    report,      \* the outcome runCommand reports, with its result slots
    config       \* deployContracts' rootchainConfig

vars == <<pc, run, genesis, chainCode, chainInit, registered,
          deploy, init, deployErr, initErr, report, config>>

\* A report: its status and its CommandResults, a slot per contract whose
\* value is FALSE when the slot holds nil.
NoReport == [status |-> "none", slots |-> [c \in {} |-> TRUE]]
Report(status, slotSet, filled) == [status |-> status, slots |-> [c \in slotSet |-> c \in filled]]

\* errgroup.Wait returns once every goroutine of the group has returned.
GroupDone(states) == \A c \in DOMAIN states : states[c] \in {"ok", "failed", "skipped"}

-----------------------------------------------------------------------------
Init ==
    /\ pc = "idle"
    /\ run = 0
    /\ genesis = NoBridge
    \* the stake manager is deployed; the token flag's address may lack code
    /\ chainCode \in {{StakeManagerAddr} \cup T :
                        T \in SUBSET (IF TokenAddrGiven THEN {TokenFlagAddr} ELSE {})}
    /\ chainInit = {}
    /\ registered = {}
    /\ deploy = [c \in allContracts |-> "ready"]
    /\ init = [c \in Initialized |-> "ready"]
    /\ deployErr = FALSE
    /\ initErr = FALSE
    /\ report = NoReport
    /\ config = EmptyConfig

\* The operator starts the command.
Start ==
    /\ pc = "idle"
    /\ run < MaxRuns
    /\ run' = run + 1
    /\ pc' = "check"
    /\ report' = NoReport
    /\ deploy' = [c \in allContracts |-> "ready"]
    /\ deployErr' = FALSE
    /\ UNCHANGED <<genesis, chainCode, chainInit, registered, init, initErr, config>>

\* The run ends with the given report.
EndRun(status, slotSet, filled) ==
    /\ pc' = "idle"
    /\ report' = Report(status, slotSet, filled)

\* Mutation: populateExistingTokenAddr without the GetCode check.
populateExistingTokenAddrNoCodeCheck ==
    /\ config' = [EmptyConfig EXCEPT !["RootNativeERC20Address"] = TokenFlagAddr]
    /\ pc' = "deploy"
    /\ UNCHANGED report

\* populateExistingTokenAddr, from rootchainConfig's creation on: GetCode
\* of the given token address fails the run on an RPC error or when there
\* is no code (the first disjunct of deployContractsSetup); otherwise the
\* token's populator writes the address into the new config.
populateExistingTokenAddr ==
    /\ TokenFlagAddr \in chainCode
    /\ config' = [EmptyConfig EXCEPT !["RootNativeERC20Address"] = TokenFlagAddr]
    /\ pc' = "deploy"
    /\ UNCHANGED report

\* deployContracts up to the deploy group: NewTxRelayer, DecodePrivateKey,
\* the test-mode funding transfer, and with a non-mintable native token
\* and a token address given, populateExistingTokenAddr, each may fail,
\* returning no results; otherwise rootchainConfig is created and the
\* deploy goroutines start.
deployContractsSetup ==
    \/ EndRun("error", {}, {}) /\ UNCHANGED config
    \/ /\ ~IsMintable /\ TokenAddrGiven
       /\ populateExistingTokenAddr
    \/ /\ IsMintable \/ ~TokenAddrGiven
       /\ config' = EmptyConfig
       /\ pc' = "deploy"
       /\ UNCHANGED report

\* Mutation: runCommand without the already-deployed check.
runCommandNoBridgeCheck ==
    /\ pc = "check"
    /\ deployContractsSetup
    /\ UNCHANGED <<run, genesis, chainCode, chainInit, registered, deploy, init,
                   deployErr, initErr>>

\* runCommand up to deployContracts: reading genesis or creating the RPC
\* client may fail; with a bridge in genesis, GetCode of its StateSender
\* (an RPC error, or code, ends the run).
runCommand ==
    /\ pc = "check"
    /\ \/ EndRun("error", {}, {}) /\ UNCHANGED config
       \/ /\ genesis # NoBridge
          /\ \/ EndRun("error", {}, {}) /\ UNCHANGED config
             \/ /\ genesis["StateSenderAddress"] \in chainCode
                /\ EndRun("aborted", {}, {}) /\ UNCHANGED config
       \/ /\ genesis = NoBridge \/ genesis["StateSenderAddress"] \notin chainCode
          /\ deployContractsSetup
    /\ UNCHANGED <<run, genesis, chainCode, chainInit, registered, deploy, init,
                   deployErr, initErr>>

\* Mutation of the deploy goroutine's select: blocking on the cancelled
\* context with no return.
DeployStartBlocking(c) ==
    /\ pc = "deploy"
    /\ deploy[c] = "ready"
    /\ ~deployErr
    /\ deploy' = [deploy EXCEPT ![c] = "sending"]
    /\ UNCHANGED <<pc, run, genesis, chainCode, chainInit, registered, init,
                   deployErr, initErr, report, config>>

\* A deploy goroutine's select: a cancelled group ctx returns ctx.Err(),
\* otherwise it sends the deployment transaction.
DeployStart(c) ==
    /\ pc = "deploy"
    /\ deploy[c] = "ready"
    /\ deploy' = [deploy EXCEPT ![c] = IF deployErr THEN "skipped" ELSE "sending"]
    /\ UNCHANGED <<pc, run, genesis, chainCode, chainInit, registered, init,
                   deployErr, initErr, report, config>>

\* The deployment is mined with a success receipt: results[i] is set.
DeployMined(c) ==
    /\ deploy[c] = "sending"
    /\ chainCode' = chainCode \cup {<<run, c>>}
    /\ deploy' = [deploy EXCEPT ![c] = "ok"]
    /\ UNCHANGED <<pc, run, genesis, chainInit, registered, init, deployErr,
                   initErr, report, config>>

\* SendTransaction fails, or the receipt is missing or failed: the
\* goroutine returns an error and the group cancels its ctx.  A send that
\* timed out waiting for its receipt may have been mined all the same.
DeployFails(c) ==
    /\ deploy[c] = "sending"
    /\ \E landed \in BOOLEAN :
          chainCode' = IF landed THEN chainCode \cup {<<run, c>>} ELSE chainCode
    /\ deploy' = [deploy EXCEPT ![c] = "failed"]
    /\ deployErr' = TRUE
    /\ UNCHANGED <<pc, run, genesis, chainInit, registered, init, initErr, report, config>>

\* Mutations of the deploy group's Wait: its error ignored; the init
\* goroutines started for every contract, without the initializersMap
\* lookup; the populate loop left out.
DeployWaitIgnoringError ==
    /\ pc = "deploy"
    /\ GroupDone(deploy)
    /\ pc' = "init"
    /\ config' = Populate(config, run)
    /\ init' = [c \in Initialized |-> "ready"]
    /\ initErr' = FALSE
    /\ UNCHANGED <<run, genesis, chainCode, chainInit, registered, deploy, deployErr, report>>
DeployWaitNoInitializerCheck ==
    /\ pc = "deploy"
    /\ GroupDone(deploy)
    /\ IF deployErr
       THEN /\ EndRun("error", allContracts, {c \in allContracts : deploy[c] = "ok"})
            /\ UNCHANGED <<init, initErr, config>>
       ELSE /\ pc' = "init"
            /\ config' = Populate(config, run)
            /\ init' = [c \in allContracts |-> "ready"]
            /\ initErr' = FALSE
            /\ UNCHANGED report
    /\ UNCHANGED <<run, genesis, chainCode, chainInit, registered, deploy, deployErr>>
DeployWaitNoPopulate ==
    /\ pc = "deploy"
    /\ GroupDone(deploy)
    /\ IF deployErr
       THEN /\ EndRun("error", allContracts, {c \in allContracts : deploy[c] = "ok"})
            /\ UNCHANGED <<init, initErr, config>>
       ELSE /\ pc' = "init"
            /\ init' = [c \in Initialized |-> "ready"]
            /\ initErr' = FALSE
            /\ UNCHANGED <<report, config>>
    /\ UNCHANGED <<run, genesis, chainCode, chainInit, registered, deploy, deployErr>>

\* g.Wait() of the deploy group.  On error the results are copied into the
\* slots of commandResults, a nil slot for every contract without one, and
\* returned.  Otherwise each result's populator (every contract has one)
\* writes its address into the rootchain config, and the goroutines of a
\* second group start, one per contract initializersMap has an entry for.
DeployWait ==
    /\ pc = "deploy"
    /\ GroupDone(deploy)
    /\ IF deployErr
       THEN /\ EndRun("error", allContracts, {c \in allContracts : deploy[c] = "ok"})
            /\ UNCHANGED <<init, initErr, config>>
       ELSE /\ pc' = "init"
            /\ config' = Populate(config, run)
            /\ init' = [c \in Initialized |-> "ready"]
            /\ initErr' = FALSE
            /\ UNCHANGED report
    /\ UNCHANGED <<run, genesis, chainCode, chainInit, registered, deploy, deployErr>>

\* An init goroutine's select watches cmdCtx, which the group never
\* cancels: it sends the initialize transaction whatever the group's state.
InitStart(c) ==
    /\ pc = "init"
    /\ init[c] = "ready"
    /\ init' = [init EXCEPT ![c] = "sending"]
    /\ UNCHANGED <<pc, run, genesis, chainCode, chainInit, registered, deploy,
                   deployErr, initErr, report, config>>

\* initContract: the initialize transaction is mined with success.
InitMined(c) ==
    /\ init[c] = "sending"
    /\ chainInit' = chainInit \cup {InitCall(run, c, config)}
    /\ init' = [init EXCEPT ![c] = "ok"]
    /\ UNCHANGED <<pc, run, genesis, chainCode, registered, deploy, deployErr,
                   initErr, report, config>>

\* initContract fails (encoding, send, or receipt); a timed-out send may
\* still be mined.
InitFails(c) ==
    /\ init[c] = "sending"
    /\ \E landed \in BOOLEAN :
          chainInit' = IF landed THEN chainInit \cup {InitCall(run, c, config)} ELSE chainInit
    /\ init' = [init EXCEPT ![c] = "failed"]
    /\ initErr' = TRUE
    /\ UNCHANGED <<pc, run, genesis, chainCode, registered, deploy, deployErr, report, config>>

\* g.Wait() of the init group: on error deployContracts returns no results.
InitWait ==
    /\ pc = "init"
    /\ GroupDone(init)
    /\ IF initErr THEN EndRun("error", {}, {}) ELSE pc' = "register" /\ UNCHANGED report
    /\ UNCHANGED <<run, genesis, chainCode, chainInit, registered, deploy, init,
                   deployErr, initErr, config>>

\* registerChainOnStakeManager: the registration transaction may fail
\* before or after it is mined, and a mined one may still yield no
\* ChildManagerRegistered log it can parse; every failure returns no
\* results.
registerChainOnStakeManager ==
    /\ pc = "register"
    /\ \E landed, found \in BOOLEAN :
          /\ registered' = IF landed THEN registered \cup {run} ELSE registered
          /\ IF landed /\ found THEN pc' = "save" /\ UNCHANGED report
             ELSE EndRun("error", {}, {})
    /\ UNCHANGED <<run, genesis, chainCode, chainInit, deploy, init, deployErr, initErr, config>>

\* The rest of runCommand: BlockNumber for the event tracker start block,
\* then WriteGenesisConfigToDisk; either may fail, reporting only the error.
SaveGenesis ==
    /\ pc = "save"
    /\ \/ /\ EndRun("error", {}, {})
          /\ UNCHANGED genesis
       \/ /\ genesis' = config
          /\ EndRun("success", allContracts, allContracts)
    /\ UNCHANGED <<run, chainCode, chainInit, registered, deploy, init, deployErr, initErr, config>>

\* The operator makes no more runs.
Finished ==
    /\ pc = "idle"
    /\ run = MaxRuns
    /\ UNCHANGED vars

Next ==
    \/ Start \/ runCommand \/ DeployWait \/ InitWait
    \/ registerChainOnStakeManager \/ SaveGenesis \/ Finished
    \/ \E c \in allContracts : DeployStart(c) \/ DeployMined(c) \/ DeployFails(c)
    \/ \E c \in Initialized : InitStart(c) \/ InitMined(c) \/ InitFails(c)

Spec == Init /\ [][Next]_vars

\* Go schedules every runnable goroutine and every RPC returns.
FairSpec == Spec /\ WF_vars(Next)

-----------------------------------------------------------------------------
TypeOK ==
    /\ pc \in Phases
    /\ run \in 0..MaxRuns
    /\ genesis \in [Fields -> Addresses]
    /\ chainCode \subseteq Addresses
    /\ \A i \in chainInit : /\ i.run \in Runs /\ i.contract \in Initialized
                           /\ i.target \in Addresses
                           /\ i.args \in [initializersMap[i.contract] -> Addresses]
    /\ registered \subseteq Runs
    /\ deploy \in [allContracts -> GoStates]
    /\ init \in [Initialized -> GoStates]
    /\ deployErr \in BOOLEAN /\ initErr \in BOOLEAN
    /\ report.status \in {"none", "error", "aborted", "success"}
    /\ DOMAIN report.slots \subseteq allContracts
    /\ config \in [Fields -> Addresses]

\* The init group is fail-fast, as the specification's concurrency model
\* requires of every errgroup (a failure cancels the siblings): once an
\* initializer has failed, no goroutine that has not sent its transaction
\* yet sends it.
InitFailFast ==
    [][initErr => \A c \in Initialized : init[c] = "ready" => init'[c] # "sending"]_vars

\* The bridge config written into genesis names, for every contract, the
\* address one run deployed; that run mined every contract, made every
\* initialize call with exactly the addresses of this config, and
\* registered on the stake manager, whatever failures and reruns came
\* before.
GenesisRefersToCompleteDeployment ==
    genesis # NoBridge =>
        \E r \in Runs :
            /\ \A c \in allContracts : /\ genesis[metadataPopulatorMap[c]] = <<r, c>>
                                     /\ <<r, c>> \in chainCode
            /\ \A c \in Initialized : InitCall(r, c, genesis) \in chainInit
            /\ r \in registered

\* Once a bridge config is in genesis, the command never deploys again:
\* the GetCode check on its StateSender stops every later run.
NoRedeployAfterSuccess ==
    \A d \in chainCode : genesis = NoBridge \/ d[1] <= genesis["StateSenderAddress"][1]

\* Every initialize call that reaches the rootchain, whether its run went
\* on or failed, targets the contract its own run deployed, and passes as
\* arguments only addresses with code on the rootchain that its own run
\* deployed or a flag named: the populate loop runs between the two
\* groups, and populateExistingTokenAddr checks the given token's code.
InitializeCallsUseOwnDeployment ==
    \A i \in chainInit :
        /\ i.target = <<i.run, i.contract>>
        /\ \A f \in DOMAIN i.args : i.args[f] \in chainCode /\ i.args[f][1] \in {0, i.run}

\* Every run of the command ends: both groups' Wait returns.
RunEnds == (pc = "check") ~> (pc = "idle")

\* The result slots of a failed deployment hold no nil entries (the code's
\* comment on the error path: "some of the indices may not be populated.
\* Filter those out.").
ReportHasNoNilSlot ==
    \A c \in DOMAIN report.slots : report.slots[c]

\* A reported error carries every deployment result the run obtained (the
\* specification's error handling: a reported error still returns the
\* partial results obtained, silent partial failure is disallowed).
ErrorReportsPartialResults ==
    report.status = "error" =>
        \A c \in allContracts : deploy[c] = "ok" =>
            c \in DOMAIN report.slots /\ report.slots[c]
=============================================================================
