# The state machine of INOMAD in TLA+

The repository holds the runtime of a Substrate chain: thirty-two pallets (one of
them the template's example) that together describe a republic, its citizens, its
offices, its two-tier bank and its treasuries. Every pallet is a state machine over
on-chain storage. A transaction runs alone and is rolled back as a whole when it
returns an error, so a *call* is one atomic step; what is hard is the order in which
calls of different people arrive, the hooks that run at the beginning of every block,
money that several pallets keep books about, and counters that saturate, overflow
or are kept beside the thing they count.

This directory models those state machines, all thirty-one of them, checks them with TLC
and proves the central ones with TLAPS. `PROJECT.json` lists components, runs, mutants, the
mapping of definitions to source lines, hazards, findings and theorems.

## Conventions

* One module per pallet, or per group of small pallets of one kind; an action per
  dispatchable, hook or migration, with the name it has in the source. Origins
  (`ensure_signed`, `ensure_root`) are the parameter of an action, or its absence. A call
  that returns an error changes nothing and is the action not being enabled.
* A storage map is a function. `OptionQuery` maps are total functions with `None` at
  missing keys, or functions whose domain is the set of stored keys; `ValueQuery`
  maps are total functions with the default value. The storage of a pallet that few others
  read is one variable, a record with a field for each storage item.
* An optional value that a call takes or a record holds is a set of one element or of none.
* Hashes, names, texts, weights and events are left out. Amounts are naturals, and where
  the code saturates, checks or divides, the model does.
* A definition whose comment begins with *Mutant* is a plausible bug in the definition after
  it. It is not used by any specification. Substituted for that definition it must
  violate the property `PROJECT.json` names, which shows that the property can fail.
* Properties that the documentation states and the code does not have are in a section of
  their own at the end of a module and have runs that expect the violation.

## The parts of the system

| part | state | operations | what makes it correct |
|---|---|---|---|
| **central-bank** | operator licences, issuance counters, credit pool, epochs with their key rate, operators' debts per epoch, genesis flags | licence, mint, burn, epoch transition, base rate, request and repay credit, grant, genesis distribution; migration | pool + outstanding = limit; four records of one debt agree; the rate is that of the present utilisation; issuance is covered |
| **bank-of-siberia** | master and sub-accounts, loan requests, active-loan index, escrows, time deposits, card collateral, cash-advance nonces | 21 calls of citizens, the Board and the treasury; migration | one active loan per borrower; all indices agree; contracts settle once; nobody's money moves without them; the bank issues nothing |
| **org-roles** | organizations, role keys | found, mint and revoke keys | the founder stays Root, only Root makes officers |
| **inomad-elections** | Arbad membership, ranks, zone counters, four families of ballots with tallies, councils, leaders, chairman | enrol, promote, open election, vote, confirm, reset | tallies are votes; seats are elected; ranks stand on full zones |
| **khural-governance** | proposals, votes, expert bills, deposits | propose, vote, execute; settles expired proposals at every block | every proposal is settled once, in time, by its nation, and money follows the decision |
| **inomad-identity** | citizen records, units from Arbad to Confederation, families, deaths, used papers, nicknames | register, verify, birth, marriage, units of five ranks, death, exile | papers identify one citizen; units stand on units of their own nation and branch; terms are counted; marriages are mutual |
| **guilds** | guilds, members, quests with rewards in escrow, unions, academy, councils of mirrored guilds | 18 calls; reacts to death and exile | an unfinished quest has its reward in escrow, beside what tickets and stings hold of the same person; counters are counts |
| **organization** | organizations, crew, declarations, penalty debt, founder deposits | 8 calls; a cursor scans for defaulters at every block | nobody escapes the scan; what a firm's account loses arrives whole, at both treasuries or one beneficiary |
| **licensing** | ministries, applications, votes, licences | 6 calls; applications end at a block | an application settles once, with its deposit; a licence in force is found |
| **shielded-vaults** | commitments, nullifiers, the shielded total | shield, transfer, unshield, tax of a firm | nothing is lost: what left the public ledger is in the audit counter; a destroyed commitment cost a nullifier |
| **bank-operator** | collateral, credit contracts, scores | 9 calls; interest accrues when a call asks for it | collateral outlives its credit; the outstanding total is the sum; no period is charged twice |
| **judicial-courts, constitution** | cases and verdicts, habeas-corpus timers, register of shame | open, judge, execute; timers release at every block | nobody without a verdict is held past the deadline; the register is what was executed |
| **black-book** | warrants, bounties, payouts | warrant, donate, capture, cancel, claim | pools are held, a bounty leaves when vested |
| **altan-vault, steppe-offline** | vaults, offline pockets with IOUs | lock, settle, withdraw | what was locked covers what can be claimed; nothing is claimed twice |
| **altan-tax, annual-profit-tax** | declarations, treasuries | taxed transfer, declare profit | shares add up; a year is declared once |
| **buryad-mongol-mixer** | commitments, nullifiers, fee shares, audits | deposit, withdraw, reveal, audit | each note leaves once |
| **inheritance, chancery, citizen-voice, land-registry** | wills; agreements; tickets and stings; parcels | life cycles of one record each, ended by the death or exile of their people | heirs get the rest; nothing stays open for the dead; deposits are held; land is its owner's |
| **foreign-affairs** | states, representatives, councils, channels | recognise, freeze, appoint, message | the voice of a state is delegated |
| **access-nft, achievement-nft, recovery-nft** | tokens and their indices | issue, revoke, redeem, recover | portals open by live keys; rewards are reserved; recovery needs guardians |
| **migration-center, decimal-dao, forums, chronicles** | anchors, DAO proposals, threads, documents | life cycles | one owner, one ballot, whole threads, first author |
| **runtime** | the wiring: origins, treasuries, hooks and bridges | origin checks read the offices at the time of the call; the terminal hook | an origin accepts whom its name says; an end of citizenship cleans up everywhere |
| **node, genesis presets, weights, benchmarks** | none of their own | | not modelled |

Interactions. All pallets move money on one ledger (`pallet_balances`). `bank-of-siberia`
calls the credit engine of `central-bank` directly. The origins of the banks read
`org-roles`; those of the courts, the mixer and the banking branch read
`inomad-elections`. Most others read the records of `inomad-identity`, which tells
`guilds`, `chancery` and `inheritance` about deaths and exiles through the runtime's
`TerminalHookImpl`. `judicial-courts` freezes and exiles through the same pallet and sets timers
in `constitution`, whose hook asks back for verdicts. `organization` pays taxes from
`shielded-vaults`. `bank-of-siberia` asks `migration-center` who was approved.

Hard behaviours: interleavings of calls of several actors on shared balances and indices;
block hooks that act on everything that has expired; storage items that mirror each other;
counters beside collections; saturating arithmetic; transfers that fail after a decision
was taken; migrations that run on live state; offices that change between two calls; one call
that ends in seven pallets. The list is under `hazards` in `PROJECT.json`: the forty at which the
most can go wrong.

## Modules

| module | models |
|---|---|
| `AltanBalances` | external: the ledger as the pallets use it. `free`, `reserved`, `frozen`, `issuance`; deposits that are lost below the existential deposit, transfers with and without `KeepAlive`, lists of payments in one call, reaping, locks, reserves |
| `StorageMaps`, `Clock` | external: insert and remove on a storage map, the sum of its values; the block number |
| `CreditPool` | what the credit pool promises its borrowers: the abstract specification |
| `CentralBank` | `pallets/central-bank` with its migration |
| `BankOfSiberia` | `pallets/bank-of-siberia` with its migration, composed with `CentralBank` over one ledger |
| `OrgRoles` | `pallets/org-roles` and the origin `EnsureOrgOfficer` |
| `Elections` | `pallets/inomad-elections` and the origin `EnsureRootOrKhuralChairman` |
| `CitizenRegistry` | the records of `pallets/inomad-identity` that others read, with Root's calls on them |
| `Identity` | the rest of that pallet about single citizens: registration, verification, births, marriages, deaths, citizenship, nicknames |
| `FractalUnits` | the units of that pallet, from the Arbad of two citizens to the Confederation |
| `KhuralGovernance` | `pallets/khural-governance`, composed with `CitizenRegistry` and the ledger |
| `Guilds` | `pallets/guilds` |
| `ShieldedVaults` | `pallets/shielded-vaults` |
| `Organization` | `pallets/organization`, composed with `ShieldedVaults` |
| `Licensing` | `pallets/licensing` |
| `ForeignAffairs` | `pallets/foreign-affairs` |
| `Chancery` | `pallets/chancery` |
| `Terminal` | `pallets/inheritance`, and the runtime's `TerminalHookImpl` that composes `Identity`, `Guilds`, `Chancery` and the wills at the end of a citizenship |
| `Courts` | `pallets/judicial-courts` and `pallets/constitution` with the runtime's two bridges, on top of `Terminal` |
| `CitizenVoice` | `pallets/citizen-voice`, on top of `Terminal` |
| `Records` | `pallets/land-registry` and `pallets/migration-center` |
| `BankOperator` | `pallets/bank-operator` |
| `SteppeOffline` | `pallets/steppe-offline` with the runtime's `IdentitySlasher` |
| `BlackBook` | `pallets/black-book`, composed with `CitizenRegistry` and the ledger |
| `AltanVault` | `pallets/altan-vault` |
| `Taxes` | `pallets/altan-tax` and `pallets/annual-profit-tax` |
| `Mixer` | `pallets/buryad-mongol-mixer` |
| `Tokens` | `pallets/achievement-nft`, `pallets/access-nft` and `pallets/recovery-nft` |
| `DecimalDao` | `pallets/decimal-dao` |
| `Publications` | `pallets/forums` and `pallets/chronicles` |
| `LedgerSums` | lemmas on sums over finite sets, for the proofs: unfolding, a changed cell, two parts, equal cells, bounds; on integer division: its order, and that of a sum; and on records numbered from 0 |
| `CentralBankProofs`, `BankOfSiberiaProofs`, `OfficesProofs` (`OrgRoles`, `Elections` and, in `MCIdentity`, the register and its units), `KhuralProofs`, `CustodyProofs` (`MCCustody` and its four pallets), `RegistriesProofs` (`MCRegistries`: courts and registries), `CivilProofs` (`ForeignAffairs` and `MCCivil`) | theorems |
| `MCCentralBank`, `MCBankOfSiberia`, `MCIdentity`, `MCKhural`, `MCCustody`, `MCCivil`, `MCRegistries` | instances for TLC |

**CentralBank.** `RecordDebt`, `RestorePool` and `EpochsAfterRepayment` are the
statements of `do_request_credit` and `do_repay_credit` that write the books, with the
saturating operations of the source. `compute_dynamic_rate` keeps the two-phase
curve with its integer divisions. `InitCreditPool` is what the migration would store; since a
runtime upgrade may re-apply it at any time, the property is that it changes nothing in
any reachable state. `ImplementsCreditPool` maps the pallet's pool and debts to
`CreditPool`: an operator who borrows gets what it asked for
exactly when the pool holds it, and a repayment frees it.

**BankOfSiberia.** The sub-account of an owner and type is an account of its own
(`derive_sub_account`). All contracts are paid from and to the one treasury
account, as in the source. `NextBlock` moves time for time deposits and escrows.
Off-chain signatures of the bank's server are `Authorised`: a nonce is used once and a key is set.

**Elections.** The three zone counters of a zone identifier are functions of one set of
identifiers, because the source uses one `u32` space: the zone of a Zun leader
is his Arbad's identifier. `reset_ballot` is one action that conjoins the purge of each
ballot.

**KhuralGovernance.** `on_initialize` is the beginning of a block: it advances the block
number and enacts, one after the other with `enact_proposal`, what has expired, in any
order, since the map is iterated in the order of hashed keys. A call happens within a
block. `execute_proposal` finds something to do only for a proposal whose voting
period is zero, as the hook settles everything else first; `VotingPeriods` therefore
contains 0.

**Identity, FractalUnits.** A passport or another paper is an identifier in `Papers`, and the
sets of used hashes are what registration and birth check. `units` holds for each rank the
units and who leads which, as the pallet's pairs of maps do; `Formed` stores a unit of any rank, and each of the calls that
form one keeps the checks it has in the source. `TermsAreCounted` reads the counter of
terms against the formations a citizen led.

**Guilds.** Escrow is the reserve of the employer, which the pallet shares between all quests
of that person with the tickets and stings of `citizen-voice`. `HeldIsBooked` therefore adds up
what all of them should hold and is checked where they meet (`CitizenVoice`, `MCRegistries`). The clean-up at
the end of a citizenship is one operator on balances, `GuildsAfterCleanup` with
`EscrowReturned`, which `Terminal` calls. The guilds that the relayer mirrors have councils and
ballots of their own.

**Organization.** `on_initialize` is the scan: it looks at `MaxOrgsPerBlock` organizations
from the stored cursor on, charges the overdue ones and wraps around. `ScanIsTimely` bounds,
from the cursor alone, when an overdue organization is reached. A return is paid openly or from the shielded vault (`file_tax_return_zk`), with the same
split between region and confederation.

**ShieldedVaults, Mixer.** No call of `shielded-vaults` is given a proof or an opening of a
commitment, and none compares what was paid in for one with what is paid out: the amount of a
withdrawal or a tax is the caller's word, any of `ShieldedAmounts` in the model, and only the vault
of an organization, where the call names one, bounds it. That no more comes back than went in is
therefore no property of this pallet. `PoolLosesNothing` states what is: whatever amounts are named,
what the public ledger is short of is in the audit counter, and every destroyed commitment cost a
nullifier of its own. The amount of a withdrawal from the mixer is the word of its relayer, a
privileged account; there the model assumes that it is the value of the note (`MixerValueOf`), and
`MixIsBacked` holds as far as the relayer is right.

**Terminal, Courts, CitizenVoice.** `DeathWithHook` and `ExileWithHook` are single
steps through up to seven pallets, as the source's nested calls are, with errors of the will
swallowed. A verdict that exiles, and a sting that is sprung, go through `ExileWithHook`. The
hook of `constitution` releases in one step everybody whose timer is due and who has no
verdict. Martial law is a flag that is set, as in the source, where nothing reads it.

**BankOperator.** A repayment is one action whose `MoveMoney` makes the three movements of
the source on the balances the movement before left behind. Fee, rate and interest are
the integer divisions of the source on amounts of real size, since with small amounts all
of them round to zero. `Income` reads the interest the bank earned off the balances, so that
`IncomeIsInterest` compares the ledger with the contracts.

**SteppeOffline, BlackBook.** IOUs are a constant set of signed records that may be brought
in any order and any number of times, two to a nonce. Bounties lie on the account of
the fugitive, who may spend them like any money: `BountyIsVested` therefore says what a
payout does, not that it can be made. A confiscation fails for an account with a reserve, for
example an offline pocket, because the ledger does not reap it.

**Taxes.** The profit tax has amounts of real size and days of the calendar: in the
window, its last day, the first day that is late, and the year after. Both taxes pay with
`pay_in_order`, which undoes everything when one payment of the call cannot be made.

## Runs

| run | module | what it shows |
|---|---|---|
| `central_bank` | `MCCentralBank` | two operators borrow and repay over two epochs while others mint, burn, grant and distribute the genesis money: pool, four records of every debt, rate, audit trail and issuance stay in step; the migration changes nothing; the pallet implements `CreditPool` |
| `bank_of_siberia` | `MCBankOfSiberia` | two requests of one borrower in every order; escrows and a time deposit over four blocks; sub-accounts, cards and the wholesale window: the books agree, contracts pay once and only with the owner's consent, money comes only from the Central Bank |
| `custody` | `MCCustody` | collateralised credits over interest periods, with default and another bank account; offline pockets with conflicting IOUs; warrants and vested bounties; keyless vaults |
| `khural` | `MCKhural` | two proposals compete for a treasury that can pay one; two expert bills; a citizen frozen and thawed; every proposal settles |
| `offices` | `MCIdentity` | papers, births and marriages; units from the Arbad to the Confederation with their terms; role keys; the hierarchy, elections, councils and the chairman |
| `registries` | `MCRegistries` | the end of a citizenship through seven pallets; wills of one heir and of two, with rounded shares; agreements, trials and their timers, land; quests, tickets and stings that hold of one reserve through deaths, settled estates, exiles and freezes; taxes, mixer, tokens, recovery, migration, DAOs and publications |
| `civil` | `MCCivil` | guilds with quests, members, unions and councils; organizations with their scan and vault; licences; foreign states |
| `cb_hard_cap` | `MCCentralBank` | expected violation: "Hard Cap" |
| `bos_lock_covers` | `MCBankOfSiberia` | expected violation: the lock "covers the MAXIMUM" |
| `chairman_origin` | `MCIdentity` | expected violation: the origin does not accept the elected chairman |
| `exile_terminal` | `MCCustody` | expected violation: exile "CANNOT be reversed", and an IOU settled late reverses it |
| `habeas_corpus` | `MCRegistries` | expected violation: a verdict of an earlier case keeps a citizen frozen past the deadline of a later one |

A property of a run is often a conjunction of named parts, which the modules state and
explain one by one. The large ones are:

* `BooksAgree` of the bank: active-loan index and locks, the two maps of sub-accounts, and the index
  that the migration rebuilds.
* `RegistersAgree`: agreements in force have their signatures, the register of shame is what
  was executed, the one reserve of a citizen is what open quests, tickets and stings count on
  together (`HeldIsBooked`; of the dead, whose estate takes the reserve, no more than that), each
  parcel has one owner, marriages and nicknames are their own inverses.
* `NothingIsLeftOpen`, an action property of the end of a citizenship: after it the citizen
  has no unfinished quest, no seat in the academy and no agreement that waits for signatures.
* `HeirsGetTheRest`: of a notarised estate the debt is burned, and the heirs together gain
  all that was left.
* `IndicesAgree`, `DecisionsAreSingle`, `MoneyIsAccounted`, `TillsAreKept`: the small registries.
* `EscrowsAreFunded`: nothing is lost in the shielded pool (`PoolLosesNothing`), and applications
  for licences hold their deposits. `GuildCountsAgree`: the counters of guilds.
  `OrgMoneyIsAccounted`: what leaves the account of a firm arrives whole at the two treasuries of
  the return that the call declares, or at one beneficiary, no other balance moves with it, and
  nothing leaves a frozen one. Who may sign a spending is the guard of one call and not part of it.

### Bounds, and why they are enough

* *Two operators, two epochs, a pool of three.* The kink of the rate curve
  is crossed, the pool is exhausted, one operator repays for an epoch while the other
  borrows in the next, and both may hold debts of both epochs. The existential deposit is above
  the smallest amount, so that deposits can be lost.
* *Two loans of one borrower.* Every conflict between loans is about one lock and one index
  entry per borrower, so two requests exhibit it.
* *Blocks 0 to 3.* A deposit may be claimed too early, in time and late.
* *Two people and one zone with sizes of one and two* take the hierarchy from nothing to a
  Tumed leader; counts go beyond one, candidates and voters differ, councils have two
  seats, counters reach `MaxCount`, where the source returns `MathOverflow`.
* *Two proposals of two units on a treasury of three* with an existential deposit of one:
  either can be paid, both cannot.
* *Collateral of 1000, repayments of half a credit and of more than all of it, periods of two
  blocks in four:* a credit of 8100 earns one unit a period, or four after a default, so
  that a period charged twice shows; the rest of a period is lost in some behaviours.
* *Pockets up to three, IOUs of one and three:* an honest payment, an exact one and a fraud.
* *Six people for the units, `OtherUnits` = 1:* a unit joins two of the rank below where the code
  has ten. Forming a Confederation from nothing would take some dozens of calls, so
  behaviours start before the first registration, with verified citizens, with the Arbads
  formed (`Assembly`) or with Tumeds of two branches (`Summit`). Each is a state of the program:
  the records are those the calls would have left, after Root made some leaders regular again.
* *Guilds* start with none, with one of two members, or with three, since a union needs two and its
  Grandmaster a majority of members. *Firms:* two, and a scan of one a block, so that the
  cursor wraps and an overdue firm waits for its turn.
* *Trials* go on for three blocks with a deadline of two: a timer can be set, run out, and be
  renewed by a second case. Two cases are enough for a verdict in one and none in the other.
* *Wills* name one heir, or two with shares in which the first is rounded down; one of the heirs is
  a guest, so that in `<<Second, 40>, <Guest, 60>>` the author is neither of them and the
  rounding reaches heirs who are alive. An odd estate is left by odd stakes, fees and rewards.
* *One reserve:* up to `MaxVoiceActs` = 6 calls of one ticket, two stings and one quest, with
  deaths, settled estates, exiles and freezes between them: a sting whose target was frozen and thawed is
  sprung again, a quest goes into review and its employer dies. The
  estates are those of people without a will, which fall to the treasury; with wills beside quests
  they are in the part `estates`. Either way `do_execute_will` takes the whole reserve.
* *Shielded amounts* of 2 and 4, whichever note they are for: more and less than was paid in.
* *Councils of DAOs* are lists, in which a member may stand twice, as in the code.
* *Days of the profit tax:* in the filing window, its last day, the first late one, deep in the
  year and in the next year.
* *`MaxActs`, `MaxOrgActs`* bound the calls of a behaviour where records could be made for
  ever; blocks are bounded beside them by `MaxBlock`, so that hooks run out after the last call.
* *Parts.* Where an instance has a `part`, a behaviour belongs to one. In the Central Bank, credit over two epochs and emission
  share the pool and the ledger, so the instance looks at each beside a little of the other; the
  theorems are about the full interleaving. Elsewhere
  the storage that the parts write is disjoint, except for balances. An invariant about the records
  of one part therefore says of the full system what it says of the part. One about balances does so
  only as far as the accounts differ, and the reserve of a citizen is not such a balance: quests,
  tickets and stings hold of it, and the will that a death executes takes all of it. Where
  parts meet like this they are composed, and the properties and theorems about them are of
  the composition: quests, tickets, stings, deaths, estates, exiles and freezes in the part `voices`,
  wills, notaries and quests in `estates`,
  loans, contracts and the wholesale window each with the engine below, the end of a citizenship with
  everything it cleans up, trials with the timers and deaths, firms with the vault. In the civil run
  nobody's citizenship ends but for the clean-up of guilds, and it claims nothing of the rewards
  that quests hold. The proofs about `BankOfSiberia` are of the full interleaving.
* The composition of pockets and warrants on the same citizens is `JusticeSpec`. `BookAgrees`
  does not survive it: it rests on a warrant being issued once for a citizen, and after an IOU has
  undone the exile (`exile_terminal`) a second one finds the pool of the first still open. What does
  survive is proved of it: `PocketsOutliveExile` and `ExilesPayOnce`.
* `CHECK_DEADLOCK FALSE` where the system may stop: everybody holds every role key, every
  record is settled, or the bounds are reached.

### Fairness

Only `khural` checks liveness, and its only assumption is weak fairness of
`on_initialize`: the chain goes on producing blocks. No person is ever obliged to
make a call. What the other hooks owe is stated as safety: `UndecidedAreReleased` says that at no
block is anybody held beyond the deadline, `ScanIsTimely` how far a scan may lag.

## Proofs

Each theorem holds for every set of accounts, every limit and every rate that satisfies the
named assumptions of its module (finiteness, non-negative amounts, `None` outside the
sets it is added to).

* **LedgerSums.** The models sum with `SumOver`, a fold of the community modules, which is a
  recursive function on subsets. That the function exists is proved first, from the
  well-foundedness of the naturals: a size of subsets without it would have a least one,
  one step below which it exists. The same argument, on the set of the
  subsets of which a fact holds, gives the induction by which a sum is unfolded at any
  element, split in two parts, or follows a cell that changes. So the theorems speak of
  the sums TLC computes, with no second definition beside them.
* **CentralBankProofs.** Every property of the run `central_bank` is a theorem. The properties are
  not inductive by themselves: the
  saturating subtraction of a repayment keeps `PoolConservation` only if no epoch or
  operator is repaid more than it owes, which is a fact about sums. `IInv` says that the
  debt of an operator, the balance of an epoch and the outstanding total are sums of
  the one table of debts. From `IInv` follow `TypeCorrect`, `PoolIsConserved`,
  `IssuanceIsCovered`, `RateIsCurrent` and, as an action property, `HistoryIsKept`. Three invariants
  are carried on top of it: the operators' totals add up to the outstanding total
  (`DebtRecordsAgree`, `PoolIsImplemented`: every step is a `Borrow`, a `Repay` or a stutter of
  `CreditPool`), the epochs issued what they got back and what is outstanding
  (`MigrationChangesNothing`), and the issuance is what the accounts hold (`LedgerIsHeld`, where
  the genesis distribution, which changes many accounts at once, needs that the treasuries
  receive what the Central Bank loses, whatever the divisions by the number of regions leave
  over). `LedgerIsHeld` rests on what `pallet_balances` demands of a genesis: no account starts
  with less than the existential deposit. `RateFollows` shows the curve to be monotone from what
  integer division does to an order; at the kink both phases meet at the optimal rate.
* **BankOfSiberiaProofs.** The composed system of the retail bank and the Central Bank. Its invariant
  is `IInv` and one part for each line of business (loans, members, escrows, deposits, cards). The
  bank enters the Central Bank only through `do_request_credit` and `do_repay_credit`,
  whose lemmas are those of `CentralBankProofs`; every other step of the bank moves money on
  the ledger and leaves the books of the Central Bank alone. Every property of the run
  `bank_of_siberia` is a theorem: `BankBooksAgree`, `BankNeverEmits`, and about the customers
  `NobodyElseTakes` and `ContractsArePaidOnce`. For `NobodyElseTakes` the net worth of a customer is
  taken apart into money, money on sub-accounts, claims on the bank and debts, and each call is
  shown either to leave all four alone, or to give what it takes from one of them to another.
  The proof found two calls that the property had not exempted and that do change the net worth of
  somebody who did not sign: the grants of the Central Bank and the repayment of wholesale credit.
  `PoolSurvivesTheBank`: what is proved of the Central Bank holds beside the bank too.
* **OfficesProofs**, role keys. `FounderIsRoot` by induction over the three calls,
  `OfficersComeFromRoot` as an action property.
* **OfficesProofs**, elections. `CountOneVote` is the heart: a vote of somebody who has none raises
  the number of votes for a candidate by one. It is lifted to families of ballots and
  used for four of them; `BallotsStayInStep` combines them. `TumedStandsOnFullZone` needs the
  strengthening `ZonesFillUpwards`: no rank of a zone is occupied before the one below is
  full, since `promote_leader` itself looks only one rank down.
* **OfficesProofs**, units of the people. `UnitsStandOnTheRegister` and `TwoTermsAtMost` from
  `RegisterInv`, whose added parts are that units are numbered from 0, that what they name is there
  (`PartsExist`) and that registrations never touch an older record. A call that forms a unit
  comes down to three facts about the new record: it stands on units of its own nation and branch
  (`StandsOn`), its leader serves a further term or nobody does (`Serving`), and its identifier is
  fresh (`UnitIsNew`); `UnitIsFounded` is the step they share, and leaving an Arbad, Root's calls and
  registrations have steps of their own. The counter agrees because a role that Root takes away leaves both it and
  the unit's record, and because nobody leads a unit before being registered.
  *Assumptions* (`SettlersAssumption`): the initial states of `MCIdentity` name two families of two nations;
  a registration shows two hashes.
* **KhuralProofs.** The three safety properties of the run `khural`. `KhuralBooksAgree` is inductive
  as it stands (`BooksAgree`). The hook enacts whatever has expired, one proposal after
  the other in the order of their hashed keys, and the balances a proposal meets are those its
  predecessors left. `EnactedSoFar` says what the first i proposals of a sequence have done: the
  executed ones among them account for every balance, because none comes twice. It holds of
  every state of the chain, since there is no least i for which it does not. `SettlesAll` is what
  remains of it for the whole step; `HookLeavesNothingBehind` and `TreasuriesPayDecisions` follow, the
  latter with the assumption that no treasury is a citizen, as the treasuries are
  keyless accounts (`runtime/src/sovereign_accounts.rs:65`). `TreasuryPaysDecisions` counts what a
  treasury is granted by another nation too: without that it fails for a nation that
  decides to support another.
* **CustodyProofs.** The four properties of the run `custody`, about the specification that composes
  the bank operator, the pockets, the wall of shame and the vaults over one ledger
  (`CreditsAreAccounted`, `HoldingsAlwaysAgree`, `IousAreSettledOnce`, `OwnersGetTheirHoldings`).
  The invariant `CustodyInv` has one part for each pallet and each part is shown twice: that the
  pallet's own calls keep it, and that the calls of the others do (`CreditsAside`, `PocketsAside`,
  `VaultsAside`, `BookAside`), which move no money of its accounts. *Credit.* The interest
  that all periods could have charged, `MostInterestOf`, grows with every accrual by at least what
  was accrued: periods that are charged one after the other are never charged more than if they were
  charged at once, because the quotient of a sum is at least the sum of the quotients
  (`DivisionOfSum`). A repayment moves interest from what is accrued to what is earned, and collateral
  that is returned lowers what the bank holds and what it keeps for others equally. *Bounties.*
  `BookAgrees` is kept where pockets are settled on their own, because the parts that settle
  IOUs have nobody on the wall (`Aside`), so that a warrant is issued once; it speaks of the keys of
  pools and payouts, not of the money on the exile's account, which its owner may spend. Where both
  concern the same citizens (`JusticeSpec`) it is false, and two theorems say what remains:
  `PocketsOutliveExile`, that a pocket is what the ledger reserves on its owner whatever is
  confiscated, donated or paid, and `ExilesPayOnce`, that IOUs of exiles are settled as everybody's.
  *Assumptions:* the bank's accounts, the citizens, the treasury and the vaults' addresses are
  different accounts (`CustodyAssumption`, `VaultAssumption`), since the first are set by Root and the
  last are derived by hash.
* **RegistriesProofs**, courts. `HabeasCorpus`: whoever is under a timer has an open case, and nobody
  without a verdict is held past the deadline, because the hook of the block in which a timer ends
  finds it, whatever calls came between. `RegistryOfShame`: entries are executed verdicts and
  executed verdicts are entries. The invariant also says that every entry names a case. The steps
  that belong to the rest of the republic (the death of the sentenced with its clean-up) are covered
  by what they leave unchanged.
* **RegistriesProofs**, registers. Of the specification of `MCRegistries` as a whole, with one
  invariant for each pallet (`RegistersInv`): no step is of two of them. `Indices`: the index by
  holder holds the keys of that holder, all of them, because a call fails before an index would
  drop a key; and the role that `get_hr_role` answers is that of the least of them, which exists
  because identifiers are naturals. `ThreadsAreWhole` unfolds the threads of a forum a message at
  a time: a message that is never found has a least one of its kind, and the message it replies
  to is older and of the same forum. `SingleDecisions`: a request to recover has at most as many
  confirmations as there are tokens that confirm it, and is past its window when it collects, a fact
  that stays true because the block number never falls (`ClockRuns`); a resubmitted application
  finds its own entry in the map back; the ballots of a proposal include the votes it counts,
  since a ballot is written with every vote and never removed.
* **RegistriesProofs**, money. `MoneyInv` has a part for each till. A call that pays several
  accounts is a sequence of payments that all succeed (`OrderedPayments`): each takes from the payer
  what the next account gets, so that nobody outside a known set loses anything (`OnlyPay`), which is
  all that the other tills need to know of it. *Fees* (`TillsKept`): the last share is what the
  rounded ones leave, and is not negative. *Taxes* (`Books`): the total that a declaration records is
  what its two payments bring, and it grows with the days, since each charge does and a quotient
  keeps the order. *Mixer*: a deposit adds one active note and its amount to the pool, a
  withdrawal spends one note and one nullifier. *Rewards*: what is reserved is a sum with one term
  for each unredeemed token, so the value of each is reserved when it is redeemed
  and `unreserve` never comes up short. *Assumptions:* the treasuries of DAOs are different accounts
  (`DaoAssumption`), and pallet accounts, tax treasuries and fee collectors are not those that pay
  to them (`TillsAssumption`): most of them are derived from pallet identifiers or seeds and have
  no key (`runtime/src/sovereign_accounts.rs:65`), the others are named by the genesis.
  `TillsKept` speaks of the behaviours about the registries (`part \in Parts`); in those about
  estates and courts money is moved by `Terminal`.
* **RegistriesProofs**, justice. `RegistersInOrder` from `JusticeInv`: a part for the books of each
  pallet (`BooksInv`), and what holds in single parts of the instance (`PartInv`). *Agreements*: what is
  in force has all its signatures, and what the end of a citizenship cancels was not in force.
  *Families*: couples and nicknames are their own inverses, since a marriage and a divorce write
  both sides. *Land*: a parcel is on the list of its owner and on no other, and an owner stays a
  citizen, because neither Root, nor death, nor exile takes the citizenship back (`PeopleInv`). *What
  is held* (`HeldInv`): the books count on the reserve of a citizen for the escrow of unsettled quests,
  the deposits of open tickets and the stakes of unsprung stings (`Booked`). The reserve covers all of
  it while the citizen lives; a death takes the reserve for the estate and leaves tickets, stings and
  quests in review open, and from then on `unreserve` gives back what is there, so that the reserve
  is at most what is booked (`Covers`). Each call raises or lowers both by the same amount
  (`HeldGrows`, `ClampCovers`); the end of a citizenship closes the quests of one person
  and returns their escrow. That whoever is dead is on record (`DeadAreRecorded`) makes the
  condition one about the register of deaths. Reserves of accounts that are not citizens are
  those of the tills (`MoneyInv`), since the reward treasury is no citizen (`EstatesAssumption`).
  `DeparturesAreSettled`: a step either ends nobody's citizenship (whoever is freed,
  frozen or demoted gets a status that is not terminal) or is a clean-up after the one citizen whose
  citizenship it ends (`Departure`), and what a clean-up leaves is shown once (`CleanedUp`), for
  guilds whose records have the fields of the pallet (`GuildFields`).
* **RegistriesProofs**, estates. `HeirsShareTheRest` from `EstateInv`. The shares are given by a fold
  over the list of heirs, a recursive function on the sets of those who were given theirs:
  `GiftsInTurn` shows that it exists and gives to one heir after the other. The floors of the first
  shares are together no more than the floor of their sum (`FloorsOfParts`), so that the last share
  is not negative and the shares make up all there is (`SharesAddUp`). A gift arrives because its
  giver keeps the existential deposit beside what is still to be given, and its receiver has one
  (`NextGift`). That all citizens and guests do is kept by every step (`HeldWell`): quests and
  notaries are paid with `KeepAlive`, and a reserve leaves the deposit.
  *Assumptions* (`EstatesAssumption`): the wills of the instance name citizens and guests
  (`Relatives`), who have accounts to which the genesis gives the deposit at least, and the treasuries
  are keyless accounts apart from them. `draft_will` looks at no heir, and for one without an
  account the theorem would be false: the transfer of a share below the deposit fails, which
  `do_execute_will` passes over.
* **CivilProofs.** `DelegatedVoice` from `CouncilIsAppointed`: a council exists only
  beside a representative, so that appointing or removing one leaves no second voice behind.
  `Guildbooks` from `GuildsInv`: guilds and quests are numbered from 0, every member and every
  quest names a guild that is there, and each counter is the size of the set it counts; what was
  done stays done, so that a count of completed quests is never more than there are.
  `EscrowsAlwaysFunded` from `EscrowsInv`, a part for each pallet that holds money. *Vaults* (`VaultInv`): whatever
  amounts the calls name, each lowers the audit counter by no more than it mints, and nobody is
  below the existential deposit, so that all that is minted arrives; issuance and counter together
  are never less than what the chain began with, and a nullifier destroys one commitment. *Licences*
  (`LicencesInv`): pending applications, deposits and the index of blocks agree, each
  approved application has its one licence, votes are voters, and the list of an organization
  has its first licences. The hook settles a set of applications one after the other, by a
  recursive function over the subsets: `EnactedInTurn` shows that the function exists, from
  which `AllEnacted` follows by induction on the subset.
  `ScanAlwaysTimely` from `ScanInv`: an organization that has been due for `w` blocks is at least
  `MaxOrgsPerBlock * w` places behind where the cursor will come by (`Behind`), a measure that a
  block moves (`WaitsOn`), a registration only lengthens (`OneMoreToPass`), and a deposit of today
  or a tax return sets back. A delinquent one has the same measure from its last penalty.
  `FirmsAreAccounted` from `FirmInv`: all the calls of the other pallets that share the ledger are
  made by people about what people hold (`QuestsAreOfOthers`, `NotesAreOfOthers`,
  `LicencesAreOfOthers`), so that they leave the account of an organization as it is
  (`Untouched`); a return takes what it declares, gives the two treasuries their shares to the last
  unit of the rounding and moves nothing else (`TaxIsPaid`), and it gets the next number, as no other
  call does; a spending leaves whole for one account. No call that pays is open to a
  frozen organization. The invariant of the licences is
  needed: the hook pays back deposits to whoever the index says made them.
  *Assumptions:* the model has two artisans, and the accounts are those of its people,
  organizations and offices, all apart, with a capital of at least the existential deposit; the
  calls are those of people, each organization has an account of its own (`derive_org_account`
  hashes the identifier), a nation's treasury is an office, and the treasuries of the region and
  of the Confederation are two (`runtime/src/configs/mod.rs:1600`, `:1625`; `CivilAssumption`); the
  treasuries of nations are accounts, amounts are not negative, and a hundredth of the base penalty is not
  nothing (`OrganizationAssumption`; the runtime sets 100 ALTAN), without which a debt would not
  grow nor the block of its last accrual be written.

Only model-checked: liveness (`EveryProposalSettles`; the prover has no fairness).

## Where documentation and code differ

With a run, see `findings` in `PROJECT.json`: `cb_hard_cap`, `bos_lock_covers`, `chairman_origin`,
`exile_terminal`, `habeas_corpus`. Seen while modelling, without a run:

* `licensing/src/lib.rs:679` drops the error of a full `LicensesByOrg`, so that `is_licensed`
  does not see the licences of an organization past its first `MaxLicensesPerOrg`;
  `LicencesAreSeen` speaks of those.
* `inheritance/src/lib.rs:524` counts a share as distributed, and reports it in `WillExecuted`,
  when the transfer before it has failed.
* `central-bank/src/lib.rs:352` "The dynamic key rate is always ≤ `BaseKeyRate`":
  `compute_dynamic_rate` does not read `BaseKeyRate`.
* `central-bank/src/lib.rs:101` "Historical epochs are immutable once closed": a
  repayment raises `total_repaid` of the epoch the debt is from. `ClosedEpochHistory`
  states what is fixed.
* `central-bank/src/lib.rs:880` "one-time constitutional entitlement": no record of who had
  a grant is kept.
* `central-bank/src/migrations.rs:40` "TotalEmitted must always be >= TotalBurned": `burn` counts
  money of any origin.
* `bank-of-siberia/src/lib.rs:1465` says of escrowed money "Funds remain there until either"
  release or refund; loans, advances and the interest of deposits are paid from the same
  treasury balance.
* `bank-of-siberia/src/lib.rs:1177` says `KeepAlive`; the transfer is made with `AllowDeath`.
* `org-roles/src/lib.rs:71` stores slots that nothing reads; `:176` says Root mints
  officers and members, and the code lets it mint Root.
* `inomad-elections`: the member count of an Arbad counts enrolments, so that enrolling one
  citizen twice counts twice; a council may contain one winner several times.
* `inomad-identity/src/lib.rs:244` says of the cooldown "before they may join or form another"; it is
  not asked of the caller of `form_arbad` nor in `form_family_arbad`.
* `inomad-identity/src/lib.rs:716`: the people of a naturalised citizen is "1001+";
  `register_citizen` stores the nation (`:1978`).
* `inomad-identity/src/lib.rs:2484`: `register_citizen` "replaces the Minor record"; it refuses
  everybody who has a record.
* `inomad-identity`: `verify_citizen` sets the vesting level of a member of an Arbad back to
  Verified; the caller's own Tumed is not compared with the list of `form_khural`; a family Arbad
  needs no marriage.
* `runtime/src/configs/mod.rs:472` "Synchronously execute the deceased's Will": `register_death`
  reserves the whole free balance just before (`inomad-identity/src/lib.rs:2671`), but an account with
  a reserve must keep the existential deposit; the reserve fails, its error is dropped, the balance
  stays where it is, and the will shares only what was reserved before.
* `bank-operator/src/lib.rs:457` "where collateral is held": after `set_bank_account` the
  collateral of open contracts is on the former account, and repayments are returned from
  the new one. A full repayment at a score of 850 does not count in `credits_repaid`, since
  the record is stored only when the score changed.
* `altan-vault/src/lib.rs:349` says a recorded deposit "cannot be spoofed"; `record_inbound`
  books any amount without looking at the balance.
* `altan-tax/src/lib.rs:8` gives 54/26/10/10 to four accounts; the code pays 54/36/10 to three.
* `annual-profit-tax/src/lib.rs:114` "Jan 1, 2026": the number is that of 2025-01-01. Between the
  end of the window (day 105) and the first late day (106) lies a day that is neither.
* `khural-governance`: an expert bill passes with three votes whatever the votes against,
  and anybody may finalise it at any time.
* `organization`: the bound on directors cuts the crew before it is filtered for directors
  (`:790`), so that a default freezes fewer than all; an organization of several founders is never
  activated, since `add_crew_member` refuses pending ones; the reporter of an evasion is paid
  whatever the punishment did (`:1285`); the shielded balance of a firm is not lowered by a tax
  paid from the vault.
* `guilds`: a quest in review is not closed by a death, while its escrow goes with the estate, so
  that its assignee is paid from the employer's free balance or not at all.
* `shielded-vaults/src/lib.rs:630` says of the amount "Must match the shielded amount"; no call
  compares them, and a commitment that was spent may be registered again.
* `inomad-identity/src/lib.rs:2547`: `register_birth` gives a child the number that the counter shows, which
  is that of the last citizen: `register_citizen` (`:1965`) counts before it numbers.
* `black-book`: after an IOU has undone an exile a second warrant may be issued for the same citizen,
  and finds the pool of the first one open.
* `migration-center/src/lib.rs:46` "Finalized applications are IMMUTABLE": a resubmission with the
  same anchor writes over one. `decimal-dao` keeps the ballots of executed proposals.
* `achievement-nft/src/lib.rs:424` "burn it": the token stays and is marked.

## Not modelled

* The node, weights, benchmarks, genesis presets and runtime APIs: no logic of the republic.
* `pallets/template`: the example of the SDK.
* In `runtime`: the fee splitter, the filter of blocked calls and the filters of proxies; they
  decide which transactions are charged or admitted and keep no state.
* In `constitution`: Root's direct calls on timers. The bridge of the courts makes the same changes.
* In `inomad-identity`: the ends of mandates, which nothing reads, and helpers without callers
  (`validate_fractal_level`, `is_mandate_active`, `derive_family_account`).
* The ledger and signatures are external: the ledger is modelled as far as
  the pallets use it, a signature is valid or the call fails. `shielded-vaults` verifies no proof, see above.

## Running

    tlc -workers 2 -config central_bank.cfg MCCentralBank
    tlapm BankOfSiberiaProofs.tla
