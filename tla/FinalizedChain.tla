--------------------------- MODULE FinalizedChain ---------------------------
(***************************************************************************)
(* What block finalization promises the rest of the node, stated without   *)
(* rounds, votes or messages: the chain grows one height at a time; at     *)
(* each height one block is decided, built by a validator of that height's *)
(* roster; the decided block, and no other, is what the chain appends.     *)
(* PolyBFTConsensus implements it under a refinement mapping (the chain    *)
(* is its chain, the decision is the set of blocks its honest validators   *)
(* have finalized at the current height).                                  *)
(***************************************************************************)
EXTENDS Naturals, Sequences

CONSTANTS
    Blocks,     \* the blocks that can be built
    Members,    \* height -> the validators of its roster
    MaxHeight   \* last height

VARIABLES
    ledger,     \* the finalized chain
    decision    \* {} or {the block decided at height Len(ledger) + 1}

vars == <<ledger, decision>>

Init ==
    /\ ledger = <<>>
    /\ decision = {}

\* The next height decides a block built by one of its validators.
Decide(b) ==
    /\ Len(ledger) < MaxHeight
    /\ decision = {}
    /\ b.proposer \in Members[Len(ledger) + 1]
    /\ decision' = {b}
    /\ UNCHANGED ledger

\* The decided block is appended, and the next height starts undecided.
Extend ==
    /\ \E b \in decision : ledger' = Append(ledger, b)
    /\ decision' = {}

Next == (\E b \in Blocks : Decide(b)) \/ Extend

Spec == Init /\ [][Next]_vars
=============================================================================
