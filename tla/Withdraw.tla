------------------------------ MODULE Withdraw ------------------------------
(***************************************************************************)
(* The two withdraw commands: withdraw-root                                *)
(* (command/rootchain/withdraw) sends withdrawStake(to, amount) to the     *)
(* StakeManager address given by a flag; withdraw                          *)
(* (command/sidechain/withdraw) sends withdraw() to the ValidatorSet       *)
(* contract, which pays out the whole withdrawable balance.  Each          *)
(* runCommand builds the transaction, waits for its receipt through a tx   *)
(* relayer (WithReceiptTimeout(150 ms)), checks the receipt status and     *)
(* scans the receipt's logs for the withdrawal event, whose amount it      *)
(* reports.                                                                *)
(*                                                                         *)
(* The chain is the environment: a sent transaction stays pending until    *)
(* it is mined, whether or not the command still waits for it.  The        *)
(* contracts are not part of the repository; they are abstracted to what  *)
(* the commands observe: a withdrawal beyond the balance reverts (a failed *)
(* receipt, no logs), and a call to an address that is not the contract    *)
(* succeeds with no logs.  Amounts are naturals; the rootchain result      *)
(* keeps amounts modulo 2^AmountWidth, the width of a uint64 (scaled).     *)
(***************************************************************************)
EXTENDS Integers

CONSTANTS
    Amounts,             \* amounts the operator may pass to withdraw-root
    AmountWidth,         \* width of the uint64 result field (64 in the code)
    InitialStake,        \* withdrawable stake on the StakeManager
    InitialWithdrawable, \* withdrawable balance on the ValidatorSet
    MaxRuns              \* bound on the number of command runs

Cmds == {"withdraw-root", "withdraw"}

\* The destination of a transaction: the intended contract, or an address
\* that is not it (a wrong --stake-manager flag).
Targets == {"contract", "other"}

\* No withdrawal event in the receipt's logs.
NoEvent == -1
NoTx == [id |-> 0, cmd |-> "none", target |-> "contract", amount |-> 0]
NoReport == [status |-> "none", tx |-> 0, amount |-> 0]

VARIABLES
    pc,            \* "idle", or "waiting" inside SendTransaction
    run,           \* runs started so far; also the id of the latest tx
    sent,          \* the transaction of the run waiting for its receipt
    pending,       \* transactions sent and not yet mined
    receipts,      \* receipts of the mined transactions
    stake,         \* the validator's stake on the StakeManager
    withdrawable,  \* the validator's withdrawable balance on the ValidatorSet
    report         \* the outcome of the latest run

vars == <<pc, run, sent, pending, receipts, stake, withdrawable, report>>

Init ==
    /\ pc = "idle"
    /\ run = 0
    /\ sent = NoTx
    /\ pending = {}
    /\ receipts = {}
    /\ stake = InitialStake
    /\ withdrawable = InitialWithdrawable
    /\ report = NoReport

\* runCommand up to SendTransaction: GetAccount, NewTxRelayer and the ABI
\* encoding may fail before anything is sent; otherwise the transaction
\* is signed and sent and the command waits for its receipt.
Send(tx) ==
    /\ pc = "idle"
    /\ run < MaxRuns
    /\ run' = run + 1
    /\ \/ /\ report' = [NoReport EXCEPT !.status = "error"]
          /\ UNCHANGED <<pc, sent, pending>>
       \/ /\ pc' = "waiting"
          /\ sent' = [tx EXCEPT !.id = run + 1]
          /\ pending' = pending \cup {[tx EXCEPT !.id = run + 1]}
          /\ report' = NoReport
    /\ UNCHANGED <<receipts, stake, withdrawable>>

\* withdraw-root: withdrawStake(to, amount) to the flag's address.
rootRunCommand(a, t) ==
    Send([id |-> 0, cmd |-> "withdraw-root", target |-> t, amount |-> a])

\* withdraw: withdraw() to contracts.ValidatorSetContract.
sideRunCommand ==
    Send([id |-> 0, cmd |-> "withdraw", target |-> "contract", amount |-> 0])

\* The chain mines a pending transaction.
Mine(tx) ==
    LET Receipt(st, ev) == [id |-> tx.id, status |-> st, event |-> ev]
    IN
    /\ tx \in pending
    /\ pending' = pending \ {tx}
    /\ CASE tx.target = "other" ->
              /\ receipts' = receipts \cup {Receipt("success", NoEvent)}
              /\ UNCHANGED <<stake, withdrawable>>
         [] tx.cmd = "withdraw-root" /\ tx.amount <= stake ->
              /\ receipts' = receipts \cup {Receipt("success", tx.amount)}
              /\ stake' = stake - tx.amount
              /\ UNCHANGED withdrawable
         [] tx.cmd = "withdraw" /\ withdrawable > 0 ->
              /\ receipts' = receipts \cup {Receipt("success", withdrawable)}
              /\ withdrawable' = 0
              /\ UNCHANGED stake
         [] OTHER ->
              /\ receipts' = receipts \cup {Receipt("failed", NoEvent)}
              /\ UNCHANGED <<stake, withdrawable>>
    /\ UNCHANGED <<pc, run, sent, report>>

\* Mutation: big.Int.Int64 in place of Uint64, a two's-complement view of
\* the low 64 bits.
ReportedAmountInt64(amount) ==
    ((amount + 2^(AmountWidth - 1)) % 2^AmountWidth) - 2^(AmountWidth - 1)

\* The amount withdraw-root reports for a StakeWithdrawn event:
\* big.Int.Uint64 keeps the low 64 bits.
ReportedAmount(amount) == amount % 2^AmountWidth

\* The report runCommand makes of its receipt r: a failed status is an
\* error; otherwise the logs are scanned for the withdrawal event (a log
\* of another event does not match) and without one the command fails;
\* with one it writes the result, of the given amount.
ReceiptReport(r, amount) ==
    IF r.status # "success" \/ r.event = NoEvent
    THEN [NoReport EXCEPT !.status = "error", !.tx = r.id]
    ELSE [status |-> "ok", tx |-> r.id, amount |-> amount]

\* Mutation: the "could not find an appropriate log" check of withdraw-root
\* dropped; a receipt without the event reports the zero-valued event's
\* amount.
rootReceiptArrivesNoFoundLog ==
    /\ pc = "waiting"
    /\ sent.cmd = "withdraw-root"
    /\ \E r \in receipts :
          /\ r.id = sent.id
          /\ pc' = "idle"
          /\ report' =
               IF r.status # "success"
               THEN [NoReport EXCEPT !.status = "error", !.tx = r.id]
               ELSE [status |-> "ok", tx |-> r.id,
                     amount |-> IF r.event = NoEvent THEN 0
                                ELSE ReportedAmount(r.event)]
    /\ UNCHANGED <<run, sent, pending, receipts, stake, withdrawable>>

\* withdraw-root gets its receipt from SendTransaction: a ReceiptFailed
\* status is an error; StakeWithdrawn is looked for among the logs, and
\* its amount reported through Uint64.
rootReceiptArrives ==
    /\ pc = "waiting"
    /\ sent.cmd = "withdraw-root"
    /\ \E r \in receipts :
          /\ r.id = sent.id
          /\ pc' = "idle"
          /\ report' = ReceiptReport(r, ReportedAmount(r.event))
    /\ UNCHANGED <<run, sent, pending, receipts, stake, withdrawable>>

\* withdraw gets its receipt from SendTransaction: a status other than
\* success is an error; Withdrawal is looked for among the logs and its
\* big.Int amount reported, with the exit event id the same successful
\* ValidatorSet call emits.
sideReceiptArrives ==
    /\ pc = "waiting"
    /\ sent.cmd = "withdraw"
    /\ \E r \in receipts :
          /\ r.id = sent.id
          /\ pc' = "idle"
          /\ report' = ReceiptReport(r, r.event)
    /\ UNCHANGED <<run, sent, pending, receipts, stake, withdrawable>>

\* The receipt wait times out: SendTransaction returns an error and the
\* command fails, while the transaction stays pending on the chain.
ReceiptTimeout ==
    /\ pc = "waiting"
    /\ pc' = "idle"
    /\ report' = [NoReport EXCEPT !.status = "error", !.tx = sent.id]
    /\ UNCHANGED <<run, sent, pending, receipts, stake, withdrawable>>

\* The operator has run the commands MaxRuns times and the chain has
\* mined everything sent.
Finished ==
    /\ pc = "idle"
    /\ run = MaxRuns
    /\ pending = {}
    /\ UNCHANGED vars

Next ==
    \/ \E a \in Amounts, t \in Targets : rootRunCommand(a, t)
    \/ sideRunCommand
    \/ \E tx \in pending : Mine(tx)
    \/ rootReceiptArrives
    \/ sideReceiptArrives
    \/ ReceiptTimeout
    \/ Finished

Spec == Init /\ [][Next]_vars

-----------------------------------------------------------------------------
TypeOK ==
    /\ pc \in {"idle", "waiting"}
    /\ run \in 0..MaxRuns
    /\ pending \subseteq [id : 1..MaxRuns, cmd : Cmds, target : Targets,
                          amount : Amounts \cup {0}]
    /\ receipts \subseteq [id : 1..MaxRuns, status : {"success", "failed"},
                           event : Nat \cup {NoEvent}]
    /\ stake \in 0..InitialStake
    /\ withdrawable \in 0..InitialWithdrawable
    /\ report \in [status : {"none", "ok", "error"}, tx : 0..MaxRuns, amount : Nat]

\* A run of either command that reports a withdrawal reports one its own
\* transaction made on the chain, of the amount the contract paid out:
\* the receipt-status check, the event match, the missing-log error and
\* the amount conversion of runCommand together guarantee it.
SuccessReportIsExecuted ==
    report.status = "ok" =>
        \E r \in receipts : /\ r.id = report.tx
                            /\ r.status = "success"
                            /\ r.event = report.amount

=============================================================================
