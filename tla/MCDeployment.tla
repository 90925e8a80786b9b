---------------------------- MODULE MCDeployment ----------------------------
(***************************************************************************)
(* Arguments at the edges of what the launchers check and of what they do  *)
(* not: a stake of nothing, of the whole founder allocation and of more,   *)
(* an epoch of zero, ten testnet validators that hold all coins and eleven *)
(* that would hold more.                                                   *)
(***************************************************************************)
EXTENDS Deployment

CONSTANTS pass, other, key, rotated

Mainnet(stake, epoch, cliff, passphrase) ==
    [program |-> "mainnet", stake |-> stake, epoch |-> epoch, vest_cliff |-> cliff,
     vest_duration |-> IF cliff = 0 THEN 0 ELSE 500, passphrase |-> passphrase]
Testnet(validators) == [program |-> "testnet", validators |-> validators]

LaunchArguments ==
    {Mainnet(50, 4, 50, pass), Mainnet(250, 4, 50, other), Mainnet(0, 4, 0, pass),
     Mainnet(251, 4, 50, pass), Mainnet(50, 0, 50, pass), Mainnet(50, 4, 0 - 1, pass),
     Testnet(1), Testnet(10), Testnet(11)}
=============================================================================
