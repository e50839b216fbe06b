------------------------- MODULE MC_DeployContracts -------------------------
(* Instance of DeployContracts for TLC: four contracts of allContracts, two
   of them with an initializer (ExitHelper reads CheckpointManager's
   address, RootERC20Predicate those of StateSender, ExitHelper and the
   existing root token), and up to two runs of the command. *)
EXTENDS DeployContracts

MC_Contracts == {"StateSender", "CheckpointManager", "ExitHelper", "RootERC20Predicate"}
=============================================================================
