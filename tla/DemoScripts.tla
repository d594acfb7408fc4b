----------------------------- MODULE DemoScripts -----------------------------
(***************************************************************************)
(* The programs of demos/localnet-pq as data: their scenarios, in order,   *)
(* each the remote calls it makes and what the line it prints at the end   *)
(* says of the chain.  What is computed in the process itself (keys,       *)
(* signatures, digests) is no step.                                        *)
(*                                                                         *)
(* A call reads ids of objects from variables (uses) and, if it goes       *)
(* through, changes what there is (adds): coins in thousandths of a SUI,   *)
(* or units of their own; 1 for a package or an object; and 1 more for     *)
(* each change of its counter or nonce.                                    *)
(***************************************************************************)
EXTENDS Integers, Sequences

Call(do, by, uses, adds) == [do |-> do, by |-> by, uses |-> uses, adds |-> adds]

(* The payer of a call: an account of this run alone, or one that every    *)
(* run derives from the same label, or the active address of the CLI.      *)
Own    == "own"
A      == "pq-exhaustive:A"
Active == "active"

None == [x \in {} |-> 0]

(* Faucet and poll.                                                        *)
fund(by)           == Call("fund", by, {}, None)
fundedKeypair(got) == Call("fund", Own, {}, got)
faucet(by)         == Call("fund", by, {}, None)

(* Build, sign, execute, wait, and throw unless the status is success.     *)
pqExec(uses, adds)  == Call("tx", A, uses, adds)
run(by, uses, adds) == Call("tx", by, uses, adds)
pqRun(uses, adds)   == Call("tx", Own, uses, adds)
executeTx(adds)     == Call("tx", Own, {}, adds)

(* The CLI publishes as its active address.                                *)
publishPackage(adds)  == Call("tx", Active, {}, adds)
publishWithDeps(adds) == Call("tx", Active, {}, adds)

(* A transaction that aborts, and one whose failure is caught.             *)
Tampered(uses)  == Call("aborts", Own, uses, [aborted |-> 1])
Offer(by, adds) == Call("offer", by, {}, adds)

(* A query whose answer is not looked at, and two that are compared.       *)
Query(uses)  == Call("query", Own, uses, None)
Equals(is)   == Call("equals", Own, {}, is)
AtLeast(is)  == Call("atLeast", Own, {}, is)

(* A scenario that is nested runs in the try block of the one before it.   *)
Scenario(name, steps, says) ==
    [name |-> name, steps |-> steps, says |-> says, nested |-> FALSE]

-----------------------------------------------------------------------------
(* pq-exhaustive.ts                                                        *)
TransferSui == Scenario("transfer-sui",
    <<pqExec({}, [B |-> 50]), Equals([B |-> 50])>>, [B |-> 50])

(* Faulty: the balance of the other recipient is compared.                 *)
PayMultipleOfB == Scenario("pay-multiple",
    <<pqExec({}, [B |-> 20, C |-> 30]), Equals([B |-> 20])>>,
    [B |-> 20, C |-> 30])

PayMultiple == Scenario("pay-multiple",
    <<pqExec({}, [B |-> 20, C |-> 30]), Equals([C |-> 30])>>,
    [B |-> 20, C |-> 30])

CoinMerge == Scenario("coin-merge", <<pqExec({}, [merged |-> 1])>>, [merged |-> 1])

Publish == Scenario("publish", <<pqExec({}, [counterPkg |-> 1])>>, [counterPkg |-> 1])

MoveCall == Scenario("movecall",
    <<pqExec({"counterPkg"}, [counter |-> 1]),
      pqExec({"counterPkg", "counter"}, [counter |-> 1]),
      Equals([counter |-> 2])>>, [counter |-> 2])

NftTransfer == Scenario("nft+transfer",
    <<pqExec({}, [nftPkg |-> 1]), pqExec({"nftPkg"}, [nft |-> 1]),
      pqExec({"nft"}, [nft |-> -1, nftOfB |-> 1]), Equals([nftOfB |-> 1])>>,
    [nftOfB |-> 1])

CoinMint == Scenario("coin-mint",
    <<pqExec({}, [coinPkg |-> 1, treasury |-> 1]),
      pqExec({"coinPkg", "treasury"}, [minted |-> 1000])>>, [minted |-> 1000])

MultiPtb == Scenario("multi-ptb",
    <<pqExec({"counterPkg"}, [second |-> 1, C |-> 1])>>, [second |-> 1])

SharedPqOnPq == Scenario("shared+pq-on-pq",
    <<fund(Active), publishWithDeps([vaultPkg |-> 1, guardPkg |-> 1]),
      pqExec({"guardPkg"}, [identity |-> 1]),
      pqExec({"vaultPkg"}, [vault |-> 500]),
      Query({"identity"}),
      pqExec({"guardPkg", "vaultPkg", "identity", "vault"},
             [identity |-> 1, vault |-> -200, B |-> 200])>>,
    [identity |-> 2, B |-> 200])

Exhaustive ==
    [setup |-> <<Query({}), fund(A)>>,
     scenarios |-> <<TransferSui, PayMultiple, CoinMerge, Publish, MoveCall,
                     NftTransfer, CoinMint, MultiPtb, SharedPqOnPq>>]

-----------------------------------------------------------------------------
(* run.ts                                                                  *)
PqcCore == Scenario("pqc-core", <<>>, None)

Counter == Scenario("counter",
    <<fundedKeypair(None), publishPackage([counterPkg |-> 1]),
      run(Own, {"counterPkg"}, [counter |-> 1]),
      run(Own, {"counterPkg", "counter"}, [counter |-> 1]),
      Equals([counter |-> 2])>>, [counter |-> 2])

PqGuardDemo == Scenario("pq-guard",
    <<fundedKeypair(None), publishPackage([guardPkg |-> 1]),
      run(Own, {"guardPkg"}, [identity |-> 1]), Query({"identity"}),
      run(Own, {"guardPkg", "identity"}, [identity |-> 1])>>, [identity |-> 2])

PqGuardNeg ==
    [Scenario("pq-guard-neg", <<Tampered({"guardPkg", "identity"})>>,
              [aborted |-> 1]) EXCEPT !.nested = TRUE]

Nft == Scenario("nft",
    <<fundedKeypair(None), publishPackage([nftPkg |-> 1]),
      run(Own, {"nftPkg"}, [nft |-> 1])>>, [nft |-> 1])

Coin == Scenario("coin",
    <<publishPackage([coinPkg |-> 1, treasury |-> 1]), Query({"treasury"}),
      run(Active, {"coinPkg", "treasury"}, [minted |-> 1000])>>, [minted |-> 1000])

(* The recipient has what the faucet gave it before the withdrawal.        *)
PqVaultDemo == Scenario("pq-vault",
    <<publishWithDeps([vaultPkg |-> 1, vaultGuard |-> 1]),
      run(Active, {"vaultGuard"}, [vaultIdentity |-> 1]),
      run(Active, {"vaultPkg"}, [vault |-> 500]),
      fundedKeypair([recipient |-> 1000]), Query({"vaultIdentity"}),
      run(Active, {"vaultGuard", "vaultPkg", "vaultIdentity", "vault"},
          [vaultIdentity |-> 1, vault |-> -200, recipient |-> 200]),
      AtLeast([recipient |-> 200])>>,
    [vaultIdentity |-> 2, recipient |-> 1200])

(* Both queries are caught, and the row passes on any answer.              *)
EventQuery == Scenario("indexer", <<>>, None)

Run ==
    [setup |-> <<Query({})>>,
     scenarios |-> <<PqcCore, Counter, PqGuardDemo, PqGuardNeg, Nft, Coin,
                     PqVaultDemo, EventQuery>>]

-----------------------------------------------------------------------------
(* pq-ecosystem.ts                                                         *)
PqcEngine == Scenario("pqc", <<>>, None)
SdkCore   == Scenario("sdk-core", <<executeTx([recipient |-> 1])>>, [recipient |-> 1])

(* A transaction is built against the node, signed, and not sent.          *)
WalletKit == Scenario("wallet-kit", <<Query({})>>, None)

SponsoredTx == Scenario("sponsored-tx",
    <<faucet(Own), Query({}), pqRun({}, [gift |-> 1])>>, [gift |-> 1])

publishPkg(adds) == pqRun({}, adds)

(* The transfer is built from the coins of the sender, if it has any.      *)
buildLwaTransfer == AtLeast([lwa |-> 1])

LwaTransfer(amount) ==
    <<buildLwaTransfer, pqRun({}, [lwa |-> -amount, lwaOfRecipient |-> amount]),
      Query({})>>

Lumiwave == Scenario("lumiwave",
    <<publishPkg([lwaPkg |-> 1, cap |-> 1]), pqRun({"lwaPkg", "cap"}, [lwa |-> 1000])>>
    \o LwaTransfer(250), [lwaOfRecipient |-> 250])

IndexerPkg == Scenario("indexer", <<Query({})>>, None)

(* A stand-in for the publisher keeps what was put; the blob that comes    *)
(* back is compared with it.                                               *)
startWalrus  == [blob |-> 1]
put          == Call("offline", Own, {}, startWalrus)
getText      == Equals(startWalrus)
WalrusClient == Scenario("walrus-client", <<put, getText>>, [blob |-> 1])

SealClient == Scenario("seal-client",
    <<publishPkg([sealPkg |-> 1]), pqRun({"sealPkg"}, [allowlist |-> 1]),
      pqRun({"sealPkg", "allowlist"}, [member |-> 1])>>, [member |-> 1])

Kiosk   == Scenario("kiosk", <<pqRun({}, [kiosk |-> 1])>>, [kiosk |-> 1])
ZkLogin == Scenario("zk-login", <<>>, None)
Oracles == Scenario("oracles", <<Query({})>>, None)
DeepBookPkg == Scenario("deepbook", <<Query({})>>, None)
Bridge  == Scenario("bridge", <<Query({})>>, None)

Ecosystem ==
    [setup |-> <<Query({}), faucet(Own)>>,
     scenarios |-> <<PqcEngine, SdkCore, WalletKit, SponsoredTx, Lumiwave,
                     IndexerPkg, WalrusClient, SealClient, Kiosk, ZkLogin,
                     Oracles, DeepBookPkg, Bridge>>]

-----------------------------------------------------------------------------
(* Programs that end at the first failure.                                 *)
publish(adds) == pqRun({}, adds)

(* pq-deepbook.ts: the first two packages, a pool, and one order.          *)
DeepBook == Scenario("pq-deepbook",
    <<Query({}), faucet(Own), faucet(Own), publish([demoPkg |-> 1]),
      publish([deepbookPkg |-> 1, registry |-> 1, adminCap |-> 1]),
      pqRun({"deepbookPkg", "demoPkg", "registry", "adminCap"}, [pool |-> 1]),
      pqRun({"deepbookPkg", "demoPkg", "pool"}, [manager |-> 1, order |-> 1])>>,
    [pool |-> 1, manager |-> 1, order |-> 1])

(* pq-mnemonic.ts: the transaction spends the coin that was looked up.     *)
Mnemonic == Scenario("pq-mnemonic",
    <<Query({}), fund(Own), Query({}), pqRun({}, [recipient |-> 1]), Query({})>>,
    [recipient |-> 1])

(* pq-services.ts                                                          *)
Services == Scenario("pq-services",
    <<Query({}), faucet(Own), put, getText,
      publish([lwaPkg |-> 1, cap |-> 1]), pqRun({"lwaPkg", "cap"}, [lwa |-> 5000])>>
    \o LwaTransfer(1000), [blob |-> 1, lwaOfRecipient |-> 1000])

(* pq-seal.ts: the gate is asked for the member and for an outsider.       *)
Seal == Scenario("pq-seal",
    <<Query({}), faucet(Own), publish([sealPkg |-> 1]),
      pqRun({"sealPkg"}, [allowlist |-> 1]),
      pqRun({"sealPkg", "allowlist"}, [member |-> 1]),
      Equals([member |-> 1]), Query({"allowlist"})>>, [member |-> 1])

(* pq-only-account.ts: whether the validator takes it is printed only.     *)
OnlyAccount == Scenario("pq-only-account",
    <<fund("pq-only-account"), Offer("pq-only-account", [selfPaid |-> 1])>>, None)

(* pq-only-native.ts                                                       *)
OnlyNative == Scenario("pq-only-native",
    <<Query({}), fund("pq-only-native"),
      run("pq-only-native", {}, [selfPaid |-> 1])>>, [selfPaid |-> 1])

Single(s) == [setup |-> <<>>, scenarios |-> <<s>>]
=============================================================================
