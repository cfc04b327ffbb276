------------------------------ MODULE BotState ------------------------------
(***************************************************************************)
(* What the Telegram bots share with each other: the players' accounts and *)
(* one process.  BotMatch has the matches against the bot, Tips the tips,  *)
(* Bots puts them together.                                                *)
(*                                                                         *)
(* Every await is a step of its own.  A call to the database, a queue,     *)
(* Telegram or the wallet may fail without effect (a fault); where nothing *)
(* catches its error node ends the process, which is a crash here.         *)
(***************************************************************************)
EXTENDS Integers, FiniteSets, Wallet

CONSTANTS
    Users,          \* players, all registered
    InitBalance     \* balance of every player at first

CONSTANTS           \* bounds of the model, not of the system
    MaxFaults,      \* failed calls
    MaxCrashes      \* crashes of the process

ASSUME BotStateAssumption ==
    InitBalance \in Int /\ MaxFaults \in Nat /\ MaxCrashes \in Nat

VARIABLES
    wallet,         \* the wallet service's accounts
    faults, crashes

StateTypeOK ==
    /\ wallet \in [Users -> Account]
    /\ faults \in 0..MaxFaults /\ crashes \in 0..MaxCrashes

StateInit ==
    /\ wallet = [u \in Users |-> [balance |-> InitBalance, locked |-> 0]]
    /\ faults = 0 /\ crashes = 0

(* A call fails although nothing in the state makes it fail. *)
Fault == faults < MaxFaults /\ faults' = faults + 1

(* A wallet call that the service accepts fails only by a fault. *)
Refused(accepted) == IF accepted THEN Fault ELSE UNCHANGED faults
=============================================================================
