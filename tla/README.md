# Phala World in TLA+

A verification project for the Phala World pallets of this repository: TLA+
modules that follow the Rust code, TLC configurations that model-check them on
small instances, and theorems that the TLA+ proof system checks for every value
of the constants. File names below are relative to the repository's root;
`nft_sale.rs` and `incubation.rs` are in `pallets/phala-world/src/`.

Run `tlc -config presale.cfg MCNftSale` (and so on, see the table of runs) and
`tlapm NftSaleProofs.tla` in this directory.

## 1. Inventory

**NFT sale pallet** (`nft_sale.rs`). State: the Overlord's account, five status
flags, the ids of the Spirit and the Origin of Shell collection, the metadata
of Spirits and of the races, the inventory per rarity and race (minted, left for
sale, as giveaway, reserved), the count per career, the preorder index, the open
preorders, and a flag per account that it has preordered. Operations: users
claim or redeem a Spirit, buy a rare or a Prime shell, or preorder one (which
reserves its price); the Overlord mints the chosen preorders and refunds the
others in lists, gives shells away, switches statuses, initialises and restocks
the inventory, names the collections and the metadata; the governance origin
appoints the Overlord. It calls `pallet_balances` (reserve, unreserve, transfer)
and `pallet_rmrk_core`/`pallet_uniques` (create, mint, freeze, attributes).
*Hard:* settlement in batches where one failing preorder undoes all; a batch cut
at `IterLimit`; the last day's rules applied to preorders made under others;
ignored results of `unreserve`; counters kept apart from what they count;
replacing the Overlord in mid-sale. *Correct means:* the reserve of an account is
the price of its open preorders; nobody pays for another's shell; no rare shell
beyond the inventory; ids are never reused; one Spirit each; counters agree with
the shells.

**World clock** (same file: `initialize_world_clock`, `on_finalize`). State:
zero day and era. Each block's end counts at most one era. *Hard:* a chain that
stands still for several eras; a zero day in the future, from which the seconds
since would wrap around. *Correct means:* nothing wraps; the era never runs ahead,
catches up, and is exact if blocks come often enough.

**Status events** (same file). Each setter writes a flag and announces it.

**Incubation pallet** (`incubation.rs`). State: hatch time per shell, the
official hatch time, whether incubation is on, the food each account gave in its
last feeding era, the food each shell got in each era, the collection of awakened
shells. Operations: start incubating, feed (limits per era and per shell), hatch
(burn the shell, mint the awakened one with its attributes), reduce hatch times,
two setters. It reads the sale's era, Overlord and collection id. *Hard:* era
boundaries between the two records of feeding, hatch-time entries that outlive
their shell, a second official hatch time. *Correct means:* the two records agree;
a hatch time never rises; a shell hatches once, in time, into an equal one.

**Shared types** (`traits.rs`): enumerations and records of both pallets.

**External**: `pallet_balances`, `pallet_rmrk_core` over `pallet_uniques`; modelled
only as far as the pallets use them.

**Runtime** (`runtime/src/lib.rs`): configuration. Every call is let through
(`type BaseCallFilter = Everything`), so users can burn their items and create
collections without going through the pallets; both are in the models.

**Node** (`node/src`): the Substrate template's service, RPC, command line and chain
specification; no logic of its own.

**Scripts** (`scripts/phala-world`): clients that send the calls of a sale in order.
State: nonces they count themselves, the transaction they wait for. They look at
nonces only, never at the outcome of a call, and know the collection ids by heart.
*Hard:* two signers, one of whom depends on the other's call; a script that is
killed and run again; another client of the same account; a transfer that fails
unnoticed and leaves the Overlord without the deposits of its collections.
*Correct means:* a script that comes to its end has set up the sale, and it does
come to its end.

**Mock runtime and tests**: reference
for the intended behaviour.

## 2. Plan

1. `Traits`, `Balances`, `Rmrk`, `NftSale` with instances and proofs: done, with a
   theorem for every property.
2. `WorldClock` with proofs, `StatusEvents`, `BatchRecall`: done.
3. `Incubation` over the clock and the collections, with its proofs: done.
4. `Escrow`, the abstract specification of the preorders, implemented by
   `NftSale`: checked and proved.
5. `BatchLoop`, the settlement loops id by id with their rollback, implementing
   the settlement calls of `NftSale`: checked and proved, in both directions.
6. `PhalaWorld`, sale, incubation and clock in one chain, implementing
   `Incubation` with the real sale around it: checked and proved.
7. `InitScript`, the script that sets a chain up, with crashes and other clients:
   checked, its safety proved.

What could come next: the scripts of the drawing and of the incubation, which send
calls as `init.js` does and read storage in between.

## 3. Modules and their correspondence to the code

A call of a pallet is one action. Extrinsics are executed one after the other,
and one that fails leaves nothing behind: the calls with several writes are
`#[transactional]`, the others make their checks before the first write. So the
checks of a call are the guard of its action, and a failing call is no step. What
can interleave are calls of different accounts, in every order, with the blocks.

| module | models | state and actions |
|---|---|---|
| `Traits` | `traits.rs` | the enumerations and records; `U32` is `0 .. U32Max`, with wrapping and saturating arithmetic where the code has them |
| `Balances` | external | free and reserved balances; reserve, unreserve, keep-alive transfer |
| `Rmrk` | external | collections, their issuers, items as a sequence per collection; an item that was burned has no owner |
| `NftSale` | `nft_sale.rs` without the clock | one variable per storage item, named in its comment; one action per extrinsic, named after it; `status` is the set of the five flags that are true |
| `WorldClock` | `initialize_world_clock`, `on_finalize` | the cycle of a block: `BeginBlock` sets the time, calls run, `FinalizeBlock` counts an era, as on_finalize decides it in u64 (`SecsSince`, `EraOver`); `ErasSince`, exact, is what the properties compare it with |
| `Incubation` | `incubation.rs` | one variable per storage item, one action per extrinsic; an INSTANCE of `WorldClock` for time and era; `OtherCall` for what the sale, the users and the root origin do to the items and the Overlord |
| `StatusEvents` | `set_status_type` and its setters | the flags against what the events say of them |
| `BatchRecall` | `refund_not_chosen_preorders` called again | `NftSale` with the list of the last refund |
| `Escrow` | what the preorders promise | funds and deposits; abstract |
| `BatchLoop` | the loops of `mint_chosen_preorders` and `refund_not_chosen_preorders` | one action per step of the loop body: `TakePreorder`, `MintTaken`, `ClearFlag`, on a layer over the storage (`newFree`, `newItems`, ...); `Fail` is the `?` that leaves the function and rolls the layer back, as `#[transactional]` does; `Return` makes the layer the storage |
| `PhalaWorld` | both pallets as the runtime composes them | the variables of `NftSale`, `Incubation` and `WorldClock`, the shared ones once; calls run between `BeginBlock` and `FinalizeBlock` |
| `InitScript` | `scripts/phala-world/init.js`, with the pool, nonces and blocks of the node | `position` in the list of transactions, its own nonces, what it waits for; `Kill` and `Start`; `Include` executes a transaction of the pool, whose call has its `Effect` if it `Succeeds` |
| `MC...` | | instances: accounts, balances, genesis, inventory |
| `NftSaleProofs` | | types, escrow, ids, rare supply and Spirits of the sale |
| `PreorderProofs` | | on top of it: settlements, limits per account, the implementation of `Escrow` |
| `LedgerProofs` | | on top of that: the counters, prices, the conservation of funds |
| `WorldClockProofs`, `IncubationProofs`, `BatchLoopProofs`, `WorldProofs`, `InitScriptProofs` | | the theorems about the module each is named after |

How the code's less direct parts are rendered:

* *Settling a list* (`mint_chosen_preorders`, `refund_not_chosen_preorders`) is a
  loop over the first `IterLimit` ids in which the first failure undoes the call.
  The action says what a call that succeeds has done to all its ids (`Settle`,
  `FreeAfterSale`) and under which conditions none fails (`CanTake`, `CanPay`,
  enough shells of each race). An id that comes up twice fails, as its preorder
  was taken the first time.
* *A result that is ignored*: `unreserve` returns what it could not free; the
  model frees what there is (`Unreserved`) and goes on, like the code.
* *Arithmetic without checks* wraps, as in a release build: the u32 counters of the
  sale (`Wrapped`) and the seconds since the zero day (`SecsSince`, modulo
  `U64Max + 1`); `saturating_add` and `saturating_sub` saturate.
* *Signatures* (`verify_claim`) are membership in `Tickets`, the messages ever
  signed off chain; a ticket of a former Overlord stops working.
* *Hatching* burns a shell in its owner's name, clears its attributes and mints
  the awakened one in the Overlord's: `HatchOriginOfShell` requires that each of
  these steps succeeds (`issuer` of either collection is the sender), and
  `Awaken` also holds if both collections are the same.
* *The sale beside the incubation* is in `Incubation` only `SaleMints`, any list of
  shells one call can mint, and `NewOverlord`. `PhalaWorld` has the sale itself
  and shows (`ImplementsIncubation`) that these two are all that it can do to the
  incubation. Feeding is left out of its instance, not of the module: no other
  call reads or writes the records of feeding, which `feeding` exercises.
* *The script* is its list of transactions. `Send` is a `signAndSend` that returns
  when the pool takes the transaction; `waitTxAccepted` is a state in which only
  `Poll` goes on, when the nonce is exactly the expected one; a refused
  transaction rejects the promise and ends `main()`. A call that fails
  in its block (not `Succeeds`, say because the sender is not yet the Overlord)
  changes the nonce and nothing else (`Include`).
* *Deposits* of the NFT pallets are left out of the sale, whose Overlord is taken to
  have them. In `InitScript` the one of a collection is there
  (`CreateWithDeposit`, of `CollectionDeposit`, `runtime/src/lib.rs:354`), since the
  script's first call is what pays for it.
* *Other clients* of the script's two accounts send, in any number and at any time,
  calls that have nothing to do with the sale or calls of the same preparation
  (`OtherCalls`), say a second script on another machine. One that appoints another
  Overlord or names other collections undoes the preparation, and is left out.
* *The list of reductions* is a function from shells to times; a shell that
  comes up twice is reduced by the sum.

Left out: events (but for `StatusEvents`), weights and fees, metadata contents
(set or not), the generation of a shell, deposits of the NFT pallets other than
those of the script's collections (so that `EscrowMatchesPreorders` speaks of the
reserves that the two pallets make, beside which an account may hold such
deposits), transfers by which root kills its account, nesting of NFTs, the maximum of a collection, thawing and transferring of items by the
issuer, changes of a collection's issuer. Spirits and Origin of Shells are frozen
when minted, so their owners can burn but not move them; awakened shells are not,
but no property depends on who owns one.

Mutants (`X_Name`, next to the definition `X` they alter) are plausible mistakes;
each property of a passing run finds one of them. No specification uses them.

## 4. Runs

Run `tlc -config NAME.cfg MODULE`.

| run (module) | question | instance |
|---|---|---|
| `presale` (`MCNftSale`) | Before the last day: one preorder and at most two shells each, no id reused, the counters agree with the shells, funds are conserved, and a settled batch gives each owner a shell or its money, whoever else is in it | Overlord and two users, one of whom can pay a preorder but not keep the existential deposit; two races; four preorder ids; lists of up to 3 ids with `IterLimit` 2 |
| `last_day` (`MCNftSale`) | While preorders are open the last day is switched on and off, the root origin replaces the Overlord by a user and back, users transfer funds and the ids run out: the escrow stays exact, nobody gets a shell without paying its price, and all this is a behaviour of `Escrow` | one race, two preorder ids, both by one user if it likes |
| `setup` (`MCNftSale`) | From an empty genesis, every order of the Overlord's preparations, while a user creates collections, burns what it owns and comes back by every way there is: one Spirit each, every mint counted once, burned ones included | two collections, lists of 2 ids with `IterLimit` 1 |
| `batch_loop` (`MCBatchLoop`) | The loops id by id implement the settlement calls of `NftSale` (`ImplementsSettlement`), and fail only where those are refused (`FailsOnlyIfRefused`): the two models of a settlement are the same | from a sale with Spirits; the Overlord can preorder once, the user twice, paying for one; it burns its Spirit or shell in between; lists of 3 ids with `IterLimit` 2 |
| `world` (`MCPhalaWorld`) | Sale, incubation and clock together: rare shells are capped over both collections, whatever is sold, restocked, hatched and burned; the era stays exact; the storage of both pallets and the clock keep their types (`WorldTypeOK`); the incubation is the one `Incubation` describes | from a sale with Spirits on its last day; one Magic and one Prime shell, the latter restocked; the Overlord replaced; two eras |
| `init_script` (`MCInitScript`) | A run of the script that comes to its end has set up the sale, and one that does not end was overtaken by another client | two runs, killed anywhere; one transaction of another client from either account, unrelated or of the preparation; one user who creates a collection; the Overlord has less than one deposit, root enough for one transfer of three, so that a second one fails; time stands still |
| `clock_halts` (`MCWorldClock`) | After a halt the era is behind, never ahead, and catches up; nothing wraps while the zero day is in the future | eras of 5 seconds; gaps of 2 and of 17 seconds, more than three eras; a genesis with an era of 2, and a zero day in the future or none; the u64 ends at 90, little after the last timestamp, 80: a subtraction that wrapped would give some 14 eras at once |
| `feeding` (`MCIncubation`) | What the shells got is what the accounts gave; the limits hold; past eras stay fixed | two accounts, two shells, 3 units of food per era, 2 per shell, three eras; gaps of one and of two eras, so that the era in storage also lags behind |
| `hatching` (`MCIncubation`) | Hatch times only fall, keep within the official one, and come, whatever the Overlord switches; a shell hatches once, into one with its attributes, and is not lost where hatching fails at a later step | two shells of two kinds, three accounts, one of whom burns; reductions by more than what is left; the Overlord replaced; either collection named |
| `events` (`StatusEvents`), `recall` (`MCBatchRecall`), `fed_burned` (`MCIncubation`) | violations, see below | |

Every bound is a CONSTANT marked "bound" where it is declared. They are enough
for what the hazards need: two users suffice for one to suffer from the other's
failing preorder; lists of three ids with a limit of two reach beyond the limit
and repeat ids; three units of food and two per shell keep the two limits apart;
`U32Max` is small so that ids, counters and items do run out. Prices are
different from each other and from 1, so that no mixed-up price goes unnoticed.
Accounts are told apart by their balance, so that no symmetry is used. The
instances of the sale end when ids and stock are used up and the script is an
end in itself (`CHECK_DEADLOCK FALSE`); clock, incubation and the chain of both
pallets never stop, and are checked for deadlock. `batch_loop` and `world` start
from a sale that is set up, a state that `setup` goes through, to spend their
bounds on what comes after.

Fairness is only assumed of the production and the finalization of blocks
(`Fairness` of `WorldClock` and of `Incubation`): the node keeps producing blocks
for ever (the aura task of `node/src/service.rs:294`, which takes the node down if
it ends), while no account has to call anything. With it an era
catches up and a hatch time comes. That a shell does hatch depends on the
Overlord calling, which nothing in the code guarantees; nor that preorders are
settled. For the script (`ScriptFairness`) a block also does not pass over for
ever a transaction whose turn it is, and a script that can go on does; both
fairly in the strong sense, as the end of a block takes the first, and its
beginning the second, away for a moment: polls read the state of a finished
block, every 100 ms, and blocks keep coming. Nobody has to start the script.

### Disagreements found

Three runs end in a violation of something the repository says:

* `events`: the setter of the last day of sale deposits the event
  `PreorderOriginOfShellsStatusChanged` (`nft_sale.rs:1193`).
  `LastDayOfSaleStatusChanged` is declared and never used.
* `recall`: a list longer than `IterLimit` cannot be continued by the same call
  (`nft_sale.rs:741`): its first id is gone and fails the call.
* `fed_burned`: a shell that was burned while it incubated is still fed, as its
  hatch time stays in storage (`incubation.rs:248`).

Smaller ones, without a run: the initial inventory has 10/0/10 Magic and 1250/0/0
Prime shells for sale, to give away and reserved, the comment at
`nft_sale.rs:1203` says 15/0/5 and 1250/50/0; the script takes its collections to be
0, 1 and 2 (`init.js:86`, "collection 0: spirits"), which a collection that a user
creates first makes untrue, hence the proviso of `FinishedMeansSetUp`, and prints
"Done." after each step whether or not its call succeeded (`init.js:71`): where
neither root nor the Overlord has the funds, it comes to its end like that with
collections named that do not exist, hence the other proviso (`EnoughFunds`); switching incubation, on or off, moves the "official
hatch time for all Origin of Shells" (`incubation.rs:75`), while shells that
incubate keep theirs; `incubation.rs:346` says a shell hatches when the
hatch time is less than or equal to the present, the code requires less; the
constant of the limit per shell is called `MaxFoodFeedSelf`, "max food to feed your
own Origin of Shell", and limits feeding of any one shell; the runtime declares a
`BaseCallFilter` that keeps users from creating collections and burning items
(`runtime/src/lib.rs:469`) and installs `Everything` instead (line 180).

## 5. Proofs

`tlapm M.tla` checks all obligations of a module of proofs. The theorems hold for
all values of the constants that satisfy the named assumptions of the modules
(`TraitsAssumption`, `BalancesAssumption`, `RmrkAssumption`, `NftSaleAssumption`,
`WorldClockAssumption`, `IncubationAssumption`, `WorldAssumption`,
`InitScriptAssumption`): any finite or, in the sale, infinite set of accounts, any
prices above 0, any widths and limits. TLC evaluates them in every run. Some
theorems have a hypothesis of their own: `FundsConservedCorrect` and
`WorldFundsConservedCorrect`, that the accounts are finitely many;
`FinishedMeansSetUpCorrect`, that the genesis names no collections and three of
them fit (`NothingNamed`), as is so of the genesis of
`node/src/chain_spec.rs`, which has nothing of the sale. Other provisos are part of
the property, and so of the theorem: of `FinishedMeansSetUp`, that the funds suffice
at genesis (`EnoughFunds`) and that no user's collection got an id the script names;
of `RareShellsCapped`, that no collection has two roles; of `EraExact`, that blocks
come often enough.

| theorem | says | by |
|---|---|---|
| `TypeCorrect` | `NftSale` keeps its types; above all, no balance becomes negative in a settlement | `TypeOK` is inductive: `unreserve` frees at most the reserve, `CanPay` bounds the price |
| `EscrowCorrect` | the reserve of each account is the price of its open preorders | `EscrowInv`: types, this, and that the ids the index has not reached hold no preorder. Without the last part a new preorder could replace an open one, and the number of open ones would not grow with the reserve |
| `FreshIdsCorrect` | ids are never handed out twice, open preorders never altered | a consequence of `EscrowInv` and one step |
| `RareSupplyCorrect` | minted and remaining Magic and Legendary shells add up to the initial inventory | `RareInv`, about the pairs of rarity and race. That nothing wraps follows from the sum being at most `U32Max` |
| `OneSpiritCorrect` | no account has two live Spirits | `SpiritInv`: this, and that only collections that were named hold items. Without it a collection could be named that already holds several items of an account |
| `SettlementCorrect` (`PreorderProofs`) | each owner in a settled batch gets, for each of its preorders in it, a shell or its price, and nobody else gains or loses | `EscrowInv`, so that `unreserve` frees the full price; a batch appends as many items for an account as it has ids in it (`BatchCount`, a bijection) |
| `OnePreorderCorrect` (`PreorderProofs`) | while the last day never comes, nobody has two preorders open | `OneInv`: the flag is set exactly for the accounts with an open preorder. Without this equivalence the check of the flag says nothing about preorders |
| `TwoShellsCorrect` (`PreorderProofs`) | while the last day never comes and nothing is given away, shells and open preorders of an account are at most two | `TwoInv`, with `EscrowInv`, `OneInv` and `SpiritInv` (`Before`): a purchase asks for no shell and meets at most one preorder; a preorder asks for no shell; a settlement turns preorders into shells |
| `CountersCorrect` (`LedgerProofs`) | the counters of races and careers are the shells minted | `CounterInv`: this, that only the collection of the shells holds items with attributes, and that there is no row before the inventory is set. A collection has at most `U32Max` items, so that no counter wraps |
| `PaymentCorrect` (`LedgerProofs`) | whoever gets shells for sale pays the price of their rarity for each, and a gift costs nothing | `EscrowInv`, one step: a mint appends one item and takes one from one kind of stock; a batch takes what was reserved |
| `EscrowImplemented` (`PreorderProofs`) | `NftSale` implements `Escrow`: every call is, of free balances and open preorders, one step of the abstract escrow or none | `EscrowInv` makes `unreserve` free the full price, so that a refund gives each owner its deposits back and a mint pays as many to the Overlord as it closes |
| `FundsConservedCorrect` (`LedgerProofs`) | funds are conserved, over any finite set of accounts | from `TypeOK`, one step. The sum of balances is stated as the size of a set, the units of balance each named by holder and number (`Units`), as a fold could only be unfolded by induction. In a batch the units that disappear from the winners and those that appear with the Overlord are each in bijection with the preorders of others times the price (`UnitsMoved`) |
| `NothingWrapsCorrect`, `NeverAheadCorrect` | what on_finalize decides in u64 is what exact numbers say, also before the zero day, and the era it counts is not the largest u64; eras are never ahead | `TypeOK` of the clock, with times and era in the u64: the guard of on_finalize is what makes `SecsSince` exact (`SecsExact`), and an era lasts at least a second, so that the largest is never over (`ExactDecision`) |
| `EraExactCorrect` | eras are exact if blocks are at most one apart | `ExactInv`: in an open block at most one era is uncounted, and the zero day is not in the future |
| `IncubationTypeCorrect` | no hatch time becomes negative | `TypeOK` is inductive |
| `HatchTimesCorrect` | a hatch time never rises nor is lost | from the types, one step |
| `OfficialTimeCorrect` | no hatch time exceeds the official one | `OfficialInTime`: the official time is at most a duration ahead of the clock, so that setting it again never lowers it, as the clock only moves forward |
| `FoodStatsCorrect` | the two records of feeding agree | `FoodInv`: this, and that no record is ahead of the era, so that in a new era both are empty; a feeding adds one element to the set of meals of one shell |
| `PastErasCorrect` | past eras are never altered | from the types, one step |
| `FoodLimitsCorrect` | no shell ever got more in an era than all accounts may give it | `LimitInv`: the two records of feeding agree (`FoodInv`), and no record of an account names a shell more often than `MaxFoodFeedSelf` (`ShareInv`), so that the meals of a shell inject into accounts times that limit |
| `AwakenedCorrect` (`IncubationProofs`) | every awakened shell comes from a burned shell of its own with its attributes | `AwakenedInv`: this, that no third collection holds items, so that the one that is named is empty, and that every shell has an id below `U32Max`, so that it keeps its hatch time |
| `LoopImplemented` (`BatchLoopProofs`) | the loops id by id are, of the storage, a behaviour of `NftSale`: a call that returns is one settlement, and one that fails none | `LoopInv`: the storage is untouched while a call runs (the layer is the storage when none does, or after a rollback), and the layer is exactly the effect that `NftSale` gives to the ids settled so far (`LayerHolds`), with the preorder at hand taken but not yet minted or cleared (`TakenTo`, `MintedTo`). Without the exact effect the last id would not complete the guard and the effect of the whole call |
| `FailsOnlyIfRefusedCorrect` (`BatchLoopProofs`) | the other direction: a call fails at some id only if `NftSale` refuses the whole call | `LoopInv`: if the layer refuses the next id, the batch up to it does not meet `CanTake`, `CanPay`, the stock or the room in the collection, and no longer batch does |
| `NoShellLostCorrect` (`IncubationProofs`) | who burns nothing never owns fewer shells of a kind than before | from the types, one step: what is burned by hatching is minted again with the same owner and attributes, in the same collection or in the other (`HatchKeepsShells`) |
| `WorldTypeCorrect` (`WorldProofs`) | sale, clock and incubation keep their types in one chain | `SaleInv` for the sale; the types of the clock are inductive as in `WorldClockProofs`, and those of the records of the incubation with them (`RecordsStep`) |
| `WorldEscrowCorrect`, `WorldRareSupplyCorrect` (`WorldProofs`) | escrow and rare supply of the sale hold in the chain with both pallets | `SaleInv`: the invariants of the sale, with the type of the collection of awakened shells; hatching burns and mints items, and touches nothing else of the sale |
| `WorldSettlementCorrect`, `WorldEscrowImplemented`, `WorldFundsConservedCorrect` (`WorldProofs`) | settlement, `Escrow` and the conservation of funds (of finitely many accounts) in the chain | `SaleInv`; a step of the chain is one of the sale, to which the step lemmas about the sale apply, or leaves balances and preorders alone (`SaleOrQuiet`) |
| `RareShellsCorrect` (`WorldProofs`) | the live rare shells of both collections and those in stock are at most the initial inventory | `LiveInv`, on top of `SaleInv`: the live ones are at most those counted as minted, as hatching burns one for each it mints (`LiveShellsCounted`); only the two named collections hold shells, so that none is there when a collection is named; no row before the inventory is set. Only while no collection has two roles (`SeparateCollections`), which the code does not enforce; ids are named once, so that this, once it fails, never holds again (`StaysDistinct`) |
| `WorldEraCorrect` (`WorldProofs`) | the era is exact after every block of the chain with both pallets | `ExactInv`, as for the clock alone; no other call writes to it |
| `IncubationImplemented` (`WorldProofs`) | from any state in which the sale is set up (`SetUpInit`), the chain with the real sale is, of the incubation, a behaviour of `Incubation` with its outline of a sale | `SetUpInv`: the Overlord exists and the collections have their roles for good. Each step of the chain is mapped to one of `Incubation`: a sale to `SaleMints`, a change of the Overlord to `NewOverlord`, Spirits to none |
| `FinishedMeansSetUpCorrect` (`InitScriptProofs`) | a script that comes to its end has set up the sale, however often it was killed and run again and however many unrelated calls, or calls of the same preparation, other clients send from its accounts | `ScriptInv`: there are two nonces the run has started from such that each transaction it has sent is either in the pool, under its nonce, or was included and left its trace on the chain (`RunInv`, `Done`), be it because its call succeeded or because an earlier run's had; the pool has one transaction for each nonce, so that no other client can have used it; and nothing the operator signs is sent before `setOverlord` was included. That the script waits there is what makes its calls succeed. Its collections are created because the Overlord has the deposits of those that are missing (`Funded`) from when the transfer was included, or had them before; until then root can still make the transfer (`Fundable`), as nothing else spends its funds |

Only model-checked: `EraCatchesUp`, `HatchTimeComes` and `EndsUnlessOvertaken`, as
liveness under fairness is beyond the prover. The properties of the three runs that
end in a violation are false. Everything else that a run checks is a theorem.

## 6. Not modelled

Of the runtime, the other pallets it configures and the values of its constants; of
the node everything but genesis, pool and the authoring of blocks: it is the
Substrate template, start-up and wiring without logic of its own. Forks, fees and
transactions that a pool drops. The scripts after `init.js`: they wait for nonces in
the same way, read storage in between and print. The mock runtime and the tests are
tests. `pallet_balances` and the NFT pallets are modelled as far as the two pallets
use them, from the calls they make.
