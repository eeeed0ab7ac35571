------------------------------- MODULE Workload -------------------------------
(***************************************************************************)
(* The operations the load generators send (config/workloads.js of each)   *)
(* as far as they depend on each other: what an operation needs a wallet   *)
(* to have, and what a wallet has once it is confirmed.  Amounts are in    *)
(* the smallest units that keep the code's ratios.                         *)
(***************************************************************************)
EXTENDS Naturals

Op(needs, takes, whose, gives, adds) ==
  [needs |-> needs, takes |-> takes, whose |-> whose, gives |-> gives, adds |-> adds]

Plain == Op({}, 0, "own", {}, 0)
Makes(kind, n) == Op({}, 0, "own", {kind}, n)
Uses(kind, n) == Op({kind}, n, "own", {}, 0)
Turns(kind, into) == Op({kind}, 1, "own", {into}, 1)
UsesOthers(kind) == Op({kind}, 1, "others", {}, 0)

\* Needs what it does not use up.
Calls(kind) == Op({kind}, 0, "own", {}, 0)

\* Transfers, approvals, swaps and calls that any wallet can send at any time.
plainOps ==
  {"nativeTransfer", "erc20Mint", "erc20Transfer", "erc20Approve", "dexSwap",
   "feeSwap", "rebaseSwap", "rebaseUp", "nativeSwapIn", "nativeSwapOut",
   "diamondBump", "diamondSet", "cloneAndInit", "deepChainRun", "deepCallback",
   "disperseMany", "eventsBurst", "batchMulticall", "workbenchSet",
   "workbenchLoop", "voucherRedeem"}

\* Sums a wallet may spend of.
creditOps ==
  [wrapGMB |-> Makes("wgmb", 10),       unwrapGMB |-> Uses("wgmb", 1),
   dexAddLiq |-> Makes("lp", 25),       dexRemoveLiq |-> Uses("lp", 1),
   nativeAddLiq |-> Makes("nlp", 1),    nativeRemoveLiq |-> Uses("nlp", 1),
   ecoDeposit |-> Makes("eco", 5),      ecoWithdraw |-> Uses("eco", 2),
   vaultDeposit |-> Makes("vault", 5),  vaultMint |-> Makes("vault", 5),
   vaultWithdraw |-> Uses("vault", 2),
   stakeDeposit |-> Makes("stake", 5),  stakeWithdraw |-> Uses("stake", 2),
   rwdStake |-> Makes("rwd", 5),        rwdUnstake |-> Uses("rwd", 2),
   rwdClaim |-> Calls("rwd")]

\* Things a wallet owns, one entry each.
queueOps ==
  [nftMint |-> Makes("nftOwned", 1),     nftTransfer |-> Uses("nftOwned", 1),
   erc1155Mint |-> Makes("has1155", 1),  erc1155Transfer |-> Calls("has1155"),
   deployChild |-> Makes("eoaChildren", 1),
   callDeployedChild |-> Calls("eoaChildren"),
   factoryDeploy |-> Makes("factoryChildren", 1),
   factoryCallChild |-> Calls("factoryChildren"),
   cloneDeterministic |-> Op({}, 0, "own", {"clones", "uninited"}, 1),
   cloneInit |-> Uses("uninited", 1),    cloneCall |-> Calls("clones"),
   batchMint |-> Makes("batchIds", 3),
   nftStakeStake |-> Turns("batchIds", "nftStaked"),
   nftStakeUnstake |-> Uses("nftStaked", 1)]

\* Things another wallet takes up: listings and auctions.
sharedOps ==
  [mktMint |-> Makes("mktOwned", 1),     mktList |-> Turns("mktOwned", "mktListed"),
   mktBuy |-> UsesOthers("mktListed"),
   royaltyMint |-> Makes("royOwned", 1), royaltyList |-> Turns("royOwned", "royListed"),
   royaltyBuy |-> UsesOthers("royListed"), royaltyCancel |-> Uses("royListed", 1),
   auctionMint |-> Makes("aucOwned", 1),
   createEnglish |-> Op({"aucOwned"}, 1, "own", {"english", "unsettled"}, 1),
   bidEnglish |-> UsesOthers("english"),
   settleEnglish |-> Op({"unsettled"}, 1, "any", {}, 0),
   createDutch |-> Turns("aucOwned", "dutch"),     buyDutch |-> UsesOthers("dutch")]

\* What a permit makes is its spender's, who may be any wallet; its own wallet
\* makes it ready by the nonce.  The allowance is a hundred thousand times what
\* a transfer uses of it, and no run uses it up.
permitOp == Op({}, 0, "any", {"permits"}, 1)

\* A bid is built within 110 seconds of learning of the auction and refused by
\* the chain once the auction is over, 180 seconds after its block.
Timed == {"bidEnglish"}

\* What the workload says of an operation.
defs(op) ==
  IF op \in DOMAIN creditOps THEN creditOps[op]
  ELSE IF op \in DOMAIN queueOps THEN queueOps[op]
  ELSE IF op \in DOMAIN sharedOps THEN sharedOps[op]
  ELSE IF op = "permit" THEN permitOp
  ELSE IF op = "permitTransferFrom" THEN Calls("permits")
  ELSE Plain

\* The mixes of the stress run (stress/config/workloads.js): what is made counts
\* when it is built, and what is used is seldom used up.
stressOps ==
  [nftMint |-> Makes("nftOwned", 1),     nftTransfer |-> Uses("nftOwned", 1),
   wrapGMB |-> Makes("wrapped", 1),      unwrapGMB |-> Calls("wrapped"),
   dexAddLiq |-> Makes("liqProviders", 1),
   dexRemoveLiq |-> Calls("liqProviders")]

stressDefs(op) == IF op \in DOMAIN stressOps THEN stressOps[op] ELSE Plain

\* Three are kept back, so that the oldest has been mined.
KeptBack(op) == IF op = "nftTransfer" THEN 3 ELSE 1

opNames ==
  plainOps \cup DOMAIN creditOps \cup DOMAIN queueOps \cup DOMAIN sharedOps
    \cup {"permit", "permitTransferFrom"}
=============================================================================
