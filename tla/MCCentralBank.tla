--------------------------- MODULE MCCentralBank ---------------------------
(***************************************************************************)
(* Instances of CentralBank for TLC.  MCGenesisFree is the shape of the    *)
(* genesis preset: the Central Bank's account holds M0, the pure proxies   *)
(* do not exist yet, the wallets hold a little.                            *)
(*                                                                         *)
(* The credit engine and the distribution of M0 each have a part of their  *)
(* own: with both in full their states would multiply.  In "credit" the    *)
(* distribution waits and nothing is emitted; in "emission" there is one   *)
(* epoch and one unit of credit at a time.                                 *)
(***************************************************************************)
EXTENDS CentralBank

CONSTANTS BankHolds, CreatorHolds, WalletHolds

VARIABLE part

MCAccounts == Wallets \cup {Creator, CentralBankAccount} \cup PureAccounts

MCGenesisFree ==
    [a \in MCAccounts |->
        IF a = CentralBankAccount THEN BankHolds
        ELSE IF a = Creator THEN CreatorHolds
        ELSE IF a \in Wallets THEN WalletHolds ELSE 0]

MCNext ==
    /\ Next
    /\ part = "credit" =>
          /\ totalEmitted' = 0 /\ ~genesisDistributed'
          /\ free'[CentralBankAccount] = free[CentralBankAccount]
    /\ part = "emission" => currentEpochId' = 1 /\ totalOutstanding' <= 1
    /\ UNCHANGED part

MCInit == Init /\ part \in {"credit", "emission"}

MCSpec == MCInit /\ [][MCNext]_<<vars, part>>
=============================================================================
