------------------------------- MODULE PqVault -------------------------------
(***************************************************************************)
(* move/pq_vault/sources/vault.move composed with PqGuard: shared vaults   *)
(* of SUI that anyone may fill and whose owner draws from them with a      *)
(* PqAuthorized witness for exactly (vault, recipient, amount).            *)
(*                                                                         *)
(* A transaction of this module is a transaction of PqGuard whose commands *)
(* also move coins.  bank is the committed side, till the private copy of  *)
(* the transaction in progress, coins the Coin values among its results.   *)
(* Gas is not modelled; SUI moves only as the commands say.                *)
(***************************************************************************)
EXTENDS PqGuard, Functions

CONSTANTS VaultId,      \* ids object::new may return for a vault
          Funds         \* the SUI each address starts with

(* Faulty: the digest leaves the amount out (as if it were always 1).      *)
DigestWithoutAmount(v, to, amount) ==
    [vault |-> v, to |-> to, amount |-> 1]

(* sha256 over vault id, recipient and amount: an injection.               *)
WithdrawActionDigest(v, to, amount) ==
    [vault |-> v, to |-> to, amount |-> amount]

ASSUME VaultAssumption ==
    /\ IsFiniteSet(Address) /\ IsFiniteSet(VaultId) /\ IsFiniteSet(Signable)
    /\ Funds \in [Address -> U64]
    /\ Digest = {WithdrawActionDigest(v, to, amount) :
                    v \in VaultId, to \in Address, amount \in U64}

VARIABLES bank,         \* the committed vaults and wallets, and history
          till,         \* the private copy of the transaction in progress
          coins         \* the coins it holds

bankVars  == <<bank, till, coins>>
vaultVars == <<guardVars, bankVars>>

(* balance is the u64 field, pool the value of the Balance<SUI> beside it. *)
Vault == [owner: Address, balance: U64, pool: U64]

(* wallet is the SUI each address owns.  History: put is what went into a  *)
(* vault, drawn what left vaults on each signature, received the coins out *)
(* of vaults each address was sent.                                        *)
Bank == [vault    : UNION {[D -> Vault] : D \in SUBSET VaultId},
         wallet   : [Address -> U64],
         put      : [VaultId -> Nat],
         drawn    : [Signable -> Nat],
         received : [Address -> Nat]]

(* A Coin<SUI> among the transaction's results; drawn tells, for history,  *)
(* the coins that withdraw made.                                           *)
Coin == [result: Nat, value: U64, drawn: BOOLEAN]

-----------------------------------------------------------------------------
(* Faulty: the seed is counted twice.                                      *)
OpenCountingTwice(b, v, a, amount) ==
    [b EXCEPT !.vault = [u \in DOMAIN b.vault \union {v} |->
                            IF u = v THEN [owner   |-> a,
                                           balance |-> amount + amount,
                                           pool    |-> amount]
                            ELSE b.vault[u]],
              !.put[v] = @ + amount]

AfterOpen(b, v, a, amount) ==
    [vault    |-> [u \in DOMAIN b.vault \union {v} |->
                      IF u = v
                      THEN [owner |-> a, balance |-> amount, pool |-> amount]
                      ELSE b.vault[u]],
     put      |-> [b.put EXCEPT ![v] = @ + amount],
     wallet   |-> b.wallet, drawn |-> b.drawn, received |-> b.received]

(* Faulty: the coin is joined to the pool and the balance left alone.      *)
DepositIntoPoolOnly(b, v, amount) ==
    [b EXCEPT !.vault[v].pool = @ + amount,
              !.put[v] = @ + amount]

AfterDeposit(b, v, amount) ==
    [vault    |-> [b.vault EXCEPT
                      ![v] = [owner   |-> @.owner,
                              balance |-> @.balance + amount,
                              pool    |-> @.pool + amount]],
     put      |-> [b.put EXCEPT ![v] = @ + amount],
     wallet   |-> b.wallet, drawn |-> b.drawn, received |-> b.received]

(* Faulty: the balance is debited and the pool is not split.               *)
WithdrawKeepingPool(b, v, amount, s) ==
    [b EXCEPT !.vault[v].balance = @ - amount,
              !.drawn[s] = @ + amount]

(* Faulty: the pool is split and the balance is not debited.               *)
WithdrawKeepingBalance(b, v, amount, s) ==
    [b EXCEPT !.vault[v].pool = @ - amount,
              !.drawn[s] = @ + amount]

AfterWithdraw(b, v, amount, s) ==
    [vault    |-> [b.vault EXCEPT
                      ![v] = [owner   |-> @.owner,
                              balance |-> @.balance - amount,
                              pool    |-> @.pool - amount]],
     drawn    |-> [b.drawn EXCEPT ![s] = @ + amount],
     wallet   |-> b.wallet, put |-> b.put, received |-> b.received]

AfterSplit(b, a, amount) ==
    [wallet   |-> [b.wallet EXCEPT ![a] = @ - amount],
     vault    |-> b.vault, put |-> b.put, drawn |-> b.drawn,
     received |-> b.received]

AfterTransfer(b, a, c) ==
    [wallet   |-> [b.wallet EXCEPT ![a] = @ + c.value],
     received |-> [b.received EXCEPT ![a] = IF c.drawn THEN @ + c.value ELSE @],
     vault    |-> b.vault, put |-> b.put, drawn |-> b.drawn]

NewCoin(amount, drawn) == [result |-> count, value |-> amount, drawn |-> drawn]

-----------------------------------------------------------------------------
VaultInit ==
    /\ GuardInit
    /\ bank = [vault    |-> [v \in {} |-> 0],
               wallet   |-> Funds,
               put      |-> [v \in VaultId |-> 0],
               drawn    |-> [s \in Signable |-> 0],
               received |-> [a \in Address |-> 0]]
    /\ till = bank
    /\ coins = {}

(* The PTB's own commands: split a coin off the sender's SUI, and transfer *)
(* a coin to an address.                                                   *)
SplitCoin(amount) ==
    /\ Command
    /\ till.wallet[sender] >= amount
    /\ till' = AfterSplit(till, sender, amount)
    /\ coins' = coins \union {NewCoin(amount, FALSE)}
    /\ UNCHANGED <<work, held, bank>>

TransferCoin(c, a) ==
    /\ Command
    /\ till.wallet[a] + c.value \in U64
    /\ till' = AfterTransfer(till, a, c)
    /\ coins' = coins \ {c}
    /\ UNCHANGED <<work, held, bank>>

Open(v, c) ==
    /\ Command
    /\ v \notin DOMAIN till.vault
    /\ till' = AfterOpen(till, v, sender, c.value)
    /\ coins' = coins \ {c}
    /\ UNCHANGED <<work, held, bank>>

(* A vault is shared: any transaction takes it as an input, once the       *)
(* transaction that opened it has committed.                               *)
Deposit(v, c) ==
    /\ Command
    /\ v \in DOMAIN bank.vault
    /\ till.vault[v].pool + c.value \in U64
    /\ till.vault[v].balance + c.value \in U64
    /\ till' = AfterDeposit(till, v, c.value)
    /\ coins' = coins \ {c}
    /\ UNCHANGED <<work, held, bank>>

(* Faulty: whoever holds a witness may draw.                               *)
AnySenderMayDraw(vault) == TRUE

MayDraw(vault) == vault.owner = sender

Withdraw(v, w, to, amount) ==
    /\ v \in DOMAIN bank.vault
    /\ MayDraw(till.vault[v])
    /\ w.sender = sender
    /\ w.action_digest = WithdrawActionDigest(v, to, amount)
    /\ till.vault[v].balance >= amount
    /\ till.vault[v].pool >= amount
    /\ Consume(w)
    /\ till' = AfterWithdraw(till, v, amount, w.by)
    /\ coins' = coins \union {NewCoin(amount, TRUE)}
    /\ UNCHANGED bank

(* A Coin has no drop either: none is left when a transaction commits.     *)
VaultCommit ==
    /\ Commit
    /\ coins = {}
    /\ bank' = till
    /\ UNCHANGED <<till, coins>>

VaultAbort ==
    /\ Abort
    /\ till' = bank
    /\ coins' = {}
    /\ UNCHANGED bank

(* The commands and the off-chain steps that move no coin.                 *)
GuardOnly ==
    /\ \/ \E s \in Signable : Sign(s)
       \/ \E a \in Address : Begin(a)
       \/ \E i \in ObjId, scheme \in Scheme, pk \in PubKey :
              Register(i, scheme, pk)
       \/ \E i \in ObjId, pk \in PubKey : Rotate(i, pk)
       \/ \E i \in ObjId, s \in signed : Unlock(i, s.digest, s)
       \/ \E w \in held : Consume(w)
    /\ UNCHANGED bankVars

VaultNext ==
    \/ GuardOnly
    \/ \E amount \in U64 : Executing /\ SplitCoin(amount)
    \/ \E c \in coins, a \in Address : TransferCoin(c, a)
    \/ \E v \in VaultId, c \in coins : Open(v, c)
    \/ \E v \in VaultId, c \in coins : Deposit(v, c)
    \/ \E v \in VaultId, w \in held, to \in Address, amount \in U64 :
          Withdraw(v, w, to, amount)
    \/ VaultCommit
    \/ VaultAbort

VaultSpec == VaultInit /\ [][VaultNext]_vaultVars

-----------------------------------------------------------------------------
(***************************************************************************)
(* Properties                                                              *)
(***************************************************************************)
VaultTypeOK ==
    /\ TypeOK
    /\ bank \in Bank
    /\ till \in Bank
    /\ coins \in SUBSET Coin

(* The u64 balance that withdraw checks is the value of the pool that it   *)
(* splits, after every history of deposits and withdrawals: a withdrawal   *)
(* that passes the check never fails on the pool.                          *)
Solvent ==
    \A v \in DOMAIN till.vault : till.vault[v].balance = till.vault[v].pool

(* Of a bank and the coins outside it: all the SUI there was at the start. *)
Pools(b) == [v \in DOMAIN b.vault |-> b.vault[v].pool]

Complete(b, cs) ==
    SumFunction(b.wallet) + SumFunction(Pools(b))
        + SumFunction([c \in cs |-> c.value])
      = SumFunction(Funds)

(* No SUI appears or disappears, in the middle of a transaction or after.  *)
Conserved == Complete(till, coins)

(* A signature draws its amount once or nothing: two withdrawals never     *)
(* rest on one signature, in one transaction or in several.                *)
DrawnAsSigned ==
    \A s \in Signable : bank.drawn[s] \in {0, s.digest.amount}

Naming(v) == {s \in Signable : s.digest.vault = v}

(* Every unit that was put into a vault is still there or left on a        *)
(* signature that names the vault.                                         *)
VaultAccounts ==
    \A v \in DOMAIN bank.vault :
        bank.vault[v].balance + SumFunctionOnSet(bank.drawn, Naming(v))
          = bank.put[v]

(* A vault keeps its owner, and its balance falls only in a transaction    *)
(* of the owner.                                                           *)
OnlyOwnerDraws ==
    [][\A v \in DOMAIN bank.vault :
          /\ v \in DOMAIN bank'.vault
          /\ bank'.vault[v].owner = bank.vault[v].owner
          /\ bank'.vault[v].balance < bank.vault[v].balance
                => sender = bank.vault[v].owner]_bank

(* What the comments on withdraw say of the recipient: an address receives *)
(* out of vaults no more than the signatures that name it drew.            *)
PaidToSignedRecipient ==
    \A a \in Address :
        bank.received[a] <= SumFunctionOnSet(bank.drawn,
                                             {s \in Signable : s.digest.to = a})

-----------------------------------------------------------------------------
(***************************************************************************)
(* The inductive invariants behind them.                                   *)
(***************************************************************************)

(* Of one bank: the two counts of every vault agree, and what went into a  *)
(* vault, open or not yet, is there or was drawn on signatures naming it.  *)
Balanced(b) ==
    \A v \in DOMAIN b.vault : b.vault[v].balance = b.vault[v].pool

Balance(b, v) == IF v \in DOMAIN b.vault THEN b.vault[v].balance ELSE 0

Accounted(b) ==
    \A v \in VaultId :
        Balance(b, v) + SumFunctionOnSet(b.drawn, Naming(v)) = b.put[v]

(* How the transaction's copy stands to the committed bank.                *)
TillExtends ==
    \A v \in DOMAIN bank.vault :
        /\ v \in DOMAIN till.vault
        /\ till.vault[v].owner = bank.vault[v].owner
        /\ till.vault[v].balance < bank.vault[v].balance
              => sender = bank.vault[v].owner

AtRest == ~Executing => till = bank /\ coins = {}

(* A coin is the result of a command already executed; a witness names the *)
(* action of the signature it was made from.                               *)
Results ==
    /\ IsFiniteSet(coins)
    /\ \A c \in coins : c.result < count
    /\ \A w \in held : w.by.digest = w.action_digest

(* VaultInv: balances and pools agree, nothing leaves a vault but by        *)
(* signatures, no SUI is made or lost, between the commands of a           *)
(* transaction too, and what a transaction did is seen only if it commits. *)
VaultInv ==
    /\ VaultTypeOK
    /\ DOMAIN ledger.identity \subseteq DOMAIN work.identity
    /\ Balanced(bank) /\ Balanced(till)
    /\ Accounted(bank) /\ Accounted(till)
    /\ Complete(bank, {}) /\ Complete(till, coins)
    /\ TillExtends
    /\ AtRest
    /\ Results

(* For KeyPolicy = "fresh": a signature that was drawn on was used, and    *)
(* one that a witness still stands for was used and not drawn on.          *)
DrawnOnce(l, b) ==
    \A s \in Signable :
        /\ b.drawn[s] \in {0, s.digest.amount}
        /\ b.drawn[s] > 0 => l.uses[s] > 0

HeldUndrawn ==
    /\ \A w \in held : work.uses[w.by] > 0 /\ till.drawn[w.by] = 0
    /\ \A w, x \in held : w.by = x.by => w = x

DrawInv ==
    /\ GuardInv
    /\ VaultInv
    /\ DrawnOnce(ledger, bank)
    /\ DrawnOnce(work, till)
    /\ HeldUndrawn
=============================================================================
