# Nexash: TLA+ specifications and proofs

Nexash pays salaries from an on-chain treasury to payees who hold a valid KYC
attestation. Two Solidity contracts keep attestations and funds; a TypeScript
backend (Express, SQLite, a Telegram bot) registers payees, obtains a decision
from the HSP payment protocol, and releases payments as the treasury's operator.

This directory holds TLA+ models of that system, TLC configurations for small
instances, and proofs checked by TLAPS for every instance. Paths below are
relative to the repository.

## 1. Inventory

| Component | State | Operations | Interacts with |
| --- | --- | --- | --- |
| `contracts/src/AttestationRegistry.sol` | issuers, attestations per subject and capability, owner, pause | register/revoke issuer, record/revoke attestation, pause, `isValid`, `isValidWithMinLevel` | read by the treasury and the backend, written by the backend's issuer key |
| `contracts/src/PayrollTreasury.sol` | policies, spent amount and window start per payee, settled mandates, operator, owner, pause, token balances | set operator, deposit, register/update/deactivate payee, release payment, pause, views | reads the registry, calls the tokens; called by the backend |
| Payment release, `src/routes/payments.routes.ts`, `src/chain/payrollTreasuryClient.ts` | requests in progress (nothing of them persists), `payee_payment_history` | `POST /payments/release` | directory, Coordinator, verifier, treasury |
| Payee directory, `src/payees/payeeService.ts`, `src/db/schema.ts`, `src/routes/institutions.routes.ts` | `payee_directory` | register, upsert (`/addpayee`), delete, look up | treasury, history (foreign key) |
| HSP verifier, `src/hsp/vendor/verifier`, `src/hsp/verifierClient.ts` | sequence index, observation index | `verify`, `fetchAndVerify` | Coordinator; used by both payment paths |
| HSP mandates and capabilities, `src/hsp/mandateBuilder.ts`, `src/hsp/vendor/*` | none | hash, sign, compare capabilities | |
| KYC issuance, `src/issuer`, `src/routes/attestations.routes.ts` | `issued_attestations_log` | verify a NexaID report, sign, log, anchor, mark | registry |
| Telegram payments, `src/wallet/walletService.ts`, `src/telegram/bot.ts` | testnet balances | `/pay`, `/kyc`, `/faucet` | Coordinator, verifier, ERC-20 |
| Accounts, `src/db/users.ts`, `src/routes/link.routes.ts` | `users`, `link_tokens` | create user and wallet, create/consume link token, link | |
| Paper trading, `src/agents/tradingAgent/paperPortfolio.ts`, `src/db/portfolioRepository.ts` | `paper_portfolios`, `paper_positions` | ask, trade, session | market data, LLM |
| Retry, migrations, agents, LLM, market data, HTTP shell | see `PROJECT.json` | | |

What is hard in each, and what makes it correct:

- **Registry.** Overwriting, revoking, re-registering issuers and the passing of
  time all change `isValid`; it must change for no other reason.
- **Treasury.** Compliance is read from another contract at payment time; a
  mandate is paid at most once; counters equal the sums they stand for; the daily
  window bounds what is paid; the requirement of a payee never changes.
- **Payment release.** Concurrent requests read the same funds, the directory is
  read twice, a transaction may revert, be late or never be mined, the process
  may die between payment and row. The answer, the ledger and the treasury must
  differ only in ways that can be named, and no request may hang.
- **Verifier.** Prior state is read before awaits and used after them; each
  `fetchAndVerify` starts with empty indexes. A transfer must not pay for two
  mandates, a mandate's receipts must come in order, a refusal for good must be
  one, and ACCEPT must mean that the money arrived and the payer is attested.
- **Telegram payments.** Money moves before the decision, several commands see
  one balance, the wallet that is checked is not always the one that signs. What
  the user is told must leave no transfer unexplained.
- **KYC issuance.** Sign, log, anchor and mark are four steps that can fail apart,
  and a transaction can outlive the request that sent it. Every attestation of
  the backend must go back to a request that earned it.
- **Accounts.** Link and wallet creation overwrite each other's columns. The bot
  must not lose a key, and a row must not change hands without its user's code.
- **Paper trading.** A portfolio is loaded, awaited upon, and saved whole, in
  several statements. Books must balance, and only the agent may lose a trade.

`PROJECT.json` lists each hazard with its line and the property that covers it,
or why none does yet.

## 2. Modules

| Module | Models |
| --- | --- |
| `OwnablePausable` | external: OpenZeppelin's `Ownable2Step` and `Pausable`, instantiated once per contract |
| `AttestationRegistry` | the registry and the block clock |
| `PayrollPromise` | abstract specification of a treasury: funds, paid mandates, who is eligible, what may still be paid |
| `PayrollTreasury` | the treasury composed with the registry on one chain (EXTENDS `AttestationRegistry`), refines `PayrollPromise` |
| `PayrollTreasuryAudit` | the treasury's counters against sums over the history of payments |
| `PaymentRelease` | `POST /payments/release`, directory, history and transactions, with what decides on the chain whether `releasePayment` succeeds |
| `HspCapabilities` | when one capability will do for another |
| `HspChecks` | the checks of the HSP verifier, as operators on mandates, receipts and attestations |
| `MandateLifecycle` | abstract specification of a verifier with an index: the order in which a mandate's receipts pass |
| `HspVerifier` | `verify` and `fetchAndVerify`, overlapping calls on one index (EXTENDS `HspChecks`), refines `MandateLifecycle` |
| `UserAccounts` | the tables `users` and `link_tokens` and every operation on them |
| `TelegramPay` | `/pay` and `/faucet` on the accounts (EXTENDS `UserAccounts`), the testnet's balances, and the verifier (`Hsp`, an instance of `HspChecks`) |
| `KycIssuance` | `POST /attestations/issue-kyc` and `/kyc`, on the registry (EXTENDS `AttestationRegistry`) |
| `PaperTrading` | `POST /trading/ask`, `/trade`, and the saving and loading of portfolios |
| `SumLemmas` | that a sum over a finite set is one, whatever the order; used by `PayrollTreasury_proofs` and `PaperTrading_proofs` |
| `AttestationRegistry_proofs`, `PayrollTreasury_proofs`, `PaymentRelease_proofs`, `HspVerifier_proofs`, `TelegramPay_proofs`, `KycIssuance_proofs`, `PaperTrading_proofs` | theorems |
| `MC*` | instances for TLC |

### Registry and treasury

One action is one successful transaction. A revert undoes everything, so a
`require`-style check is a conjunct of the action and a reverting call is an
action that is not enabled. Names are those of the code without the leading
underscore: `_settledMandates` is `settled`, `_spentToday` is `spentToday`.
Storage that was never written reads as a zero record (`EmptyAttestation`,
`EmptyPolicy`). `now` is the block time; several transactions can share it.
`payments` and `funded` are history variables: no guard reads `payments`, and
`funded` only bounds deposits. `revokedBy` in an attestation is history too: it
names the sender of the revocation, so that a property can tell whose it was.

Abstractions: addresses, tokens, mandates and capabilities are model values;
labels, report and task hashes are left out because the contracts never read
them; tokens move exactly the amount and do not call back; amounts are naturals
far below 2^256, and the one subtraction that can underflow
(`dailyLimit - spentToday`, which reverts) is a guard, `WithinDailyLimit`.

### Payment release

One step is what the handler does between two awaits where another step can
matter. `stage[r]` is how far request `r` has come: `received`, `checked`
(`validateProposedPayment`), `mandated` (second lookup, mandate signed),
`verified` (registered, observed, `decision.ok`), `waiting` (transaction
broadcast), `recorded` (row inserted); or how it was answered: `released` (201),
`refused` (403, 404, 422), `failed` (500), `lost` (the process died). A mandate
carries a fresh random nonce, so the request stands for its mandate and a
client's retry is another request.

- `Submit` needs `Payable`: viem estimates the gas before broadcasting, which
  throws where the call would revert at that moment.
- `Pay` and `Revert` decide again, when the transaction is in a block. Which of
  several pending transactions comes first is open, and none has to come at all.
- `Record` does not read the receipt's status, as the code does not. The row's
  foreign key accepts it only when it is spelled as the directory spells it and
  the payee is still there (`RowAccepted`).
- `VerifyOk` covers the receipts the verifier calls ok: SETTLED, ATTEMPTED and
  FAILED. DISPUTED is rejected because each call has an empty sequence index.
- `CallThrows` is any external call of the handler that fails, a broadcast that
  was taken although its answer was lost included. A body with capabilities in
  it ends there too, or in a refusal.
- The chain's environment (`SetPolicy`, `SetCompliance`, `Deposit`) is free
  between any two steps. A pause of the treasury is `SetCompliance({})`.
- The directory changes under the requests: `AddPayee` is the bot's `/addpayee`,
  which validates a policy of its own making (`ValidPayeePolicy`) and writes the
  directory only; `Delete` is refused by the foreign key while a row names the
  payee. Identifiers are in lower case, as the directory keeps and looks them
  up. Only the row of the history has the spelling of the body, so that it is a
  choice of `Record`.
- `PreCheck` is the first lookup and the read of the policy on the chain,
  `SignMandate` the second lookup. `TxPayee` is whom `releasePayment` is called
  for. Two histories say what that should be: `seen[r]` has the addresses that
  the directory listed from the first lookup to the second, `paid[r]` is the
  account the money went to.

### Verifier

`HspChecks` holds the checks in the order of the code, each as the class of the
first refusal or "none": `PhaseA`, `Provenance`, `RefusalAtIndex`, and `Refusals`
with the proof, the capabilities, the deadline, the sequence and the observation.
Mandates, receipts and attestations are records of what the checks look at; a
hash stands for the object it is of, a signature for whom it recovers to. The
policy is that of `buildCompliancePolicy`.

A call of `HspVerifier` is cut where others can come between: `idle`,
`presented` (everything that depends on the arguments alone has passed), `read`
(the prior receipts of the mandate are in `prior`), `done` or `threw`. Between
`read` and `done` lie the awaits of the proof and the attestations; at the end
`Conclude` judges the sequence by the old `prior`, looks up the observation anew
and enters the receipt, which the code does without an await in between. `index`
is both of the code's maps, the sequence and the observations, since both are
derived from the receipts entered. A call with `fresh` has an index of its own
and empty, as every call of this backend (`verifierClient.ts`). `raced` is a
history variable: the mandates that two calls were verified for at once, to
which the promise of order does not extend. `FetchThrows` is a Coordinator that
does not answer or has no receipt.

### Accounts and Telegram payments

A private key is named by the address of its account, so a row whose `key` and
`address` differ is one whose bot signs for another account than it shows.
`Link` is such a step: it replaces the address and leaves the key, as
`linkPrivyToUser` does. `StartWithNewWallet` overwrites both. `ShowWallet` is the row that `/wallet`
leaves of whoever sends it, `AskForLink` the code that `/link` makes; a user can
hold several. Both UNIQUE
constraints are in `RowAccepted`; the code is spent even where they fail. Every
operation on the tables is one synchronous stretch of the program and one step.

A payment goes through `asked`, `funded` (balance read), `checked` (KYC valid on
mainnet), `registered`, `waiting` (broadcast), `confirmed`, `observed`, to an
answer: `succeeded`, `refused`, `blocked`, `failed`, or `lost`. Its job keeps the
wallet as it was read at the start: `from` is the row's address, which is the
balance and KYC that is checked and the mandate's payer; `signer` is the account
of the key, which signs the mandate and pays. `MandateOf`, `AttestationOf` and
`ReceiptOf` build what the code builds from them, and `ReportAccepted` asks the
verifier's own checks (`Hsp!Accepts`), not a boolean. The last depends on a
Coordinator that attests a transfer only where it is in a block, as it is
described to; `ReportNotAccepted` is always possible, because it may lag.
`AmountRead` is the parser's choice of the first number in the text, which is
the 0 of `0x` where the address comes first. Time is left out: the wait for a
receipt ends well before the mandate's deadline of a quarter of an hour, and
only a payment whose handler still waits is verified.

### KYC issuance

A request is `asked` or `wanted`, then `reported`, `ready`, `waiting` and
answered (`anchored`, `unanchored`, `already`, `failed`, `lost`), and is the name
of its only transaction and of its row in the log. A transaction stays pending
as long as it likes, is `Mined` into the registry of `AttestationRegistry` after
its request failed, or is `Reverted` if the registry refuses it then.
`MarkAnchored` does not look at the receipt's status and sets the hash in every
row of the report that has none, as the SQL does. `CheckAttested` of `/kyc`
reads the registry; its record comes in a later block. Reports and tasks that
ever become good are constants; any of them may not be so yet
(`CallThrows`). The level of a task is a natural that viem encodes only up to
`MaxUint8`. The owner and the other issuers act between any two steps;
`registeredAt` is a history variable.

### Paper trading

Fractions of floating-point balances become whole numbers: any whole part of a
balance or position at a price that divides it. What is kept is the control:
which portfolio a trade starts from. `Ask` loads it before the model answers and
the price is known, `/trade` when it has the price (`Basis`). `ExecuteProposal`
and `ExecuteTrade` save it whole. `CutSave` is a save that ends early: it is an
update, a deletion and one insertion per position without a transaction, so the balance can be of one
trade and the positions of another, or of a part of it. `torn` names the users
whose save was cut visibly, `saves` is the order of saves, and `trades` in a
portfolio names the trades it comes from; all three are history. `TotalPnl` is
the profit `/portfolio` shows, at whatever the tickers answer: a position whose
pair is `Unpriced` is passed over, and since tickers are asked for per position,
two positions of one pair may be priced differently.

## 3. Runs

| Run | Checks | Instance and why it is enough |
| --- | --- | --- |
| `registry` | `RegistryTypeOK`, `ValidityGainIsAccounted`, `ValidityLossIsAccounted` | two accounts that can each be owner and issuer, one subject, two levels, expiries that pass, coincide with the clock, and never come; four block times. Ownership is offered, accepted, cancelled and renounced |
| `registry_expiry` | violation of `InvalidFromExpiryOn` | the same instance |
| `treasury_limits` | `FundsConserved`, `SpentTodayIsWindowTotal`, `WindowsADayApart`, `WindowWithinLimit`, `AnyDayWithinTwiceTheLimit` | two tokens, three mandates (two windows and a payment across their boundary), a day of three block times, two daily limits that can be swapped between payments, one of them below what is spent |
| `treasury_compliance` | `TreasuryTypeOK`, `MandatePaidOnce`, `RequirementIsFixed`, `PromiseKept` | two levels on both sides, an expiry that passes, an issuer that can be revoked and become operator, owner renounced, both pauses |
| `treasury_rolling_day` | violation of `AnyDayWithinTheLimit` | a limit of 2 and three payments: 1 opens a window, 1 follows at its end and 2 open the next, 3 within a day |
| `release` | `ReleaseTypeOK`, `BooksExplained`, `HistoryHasPayee`, `PaidAsLookedUp`, `EveryRequestAnswered` | two requests, one identifier that is listed under either of two addresses, moved between them and deleted; funds and allowance for one payment at a time and refills, so that one request's payment makes the other's revert; both addresses or none compliant. One outcome, as these properties do not look at the verdict |
| `release_not_accepted` | violation of `PaidOnlyOnAccept` | as `release`, with every outcome and an amount over the limit |
| `release_reverted` | violation of `RecordedMeansPaid` | as `release`, with every outcome and an amount over the limit |
| `verifier` | `VerifierTypeOK`, `TransferPaysOneMandate`, `DisputeHasSettlement`, `PermanentIsFinal`, `AcceptMeansPaidAndAttested`, `LifecycleKept` | three calls; two sound mandates of one payer and four that fail a check of their own; receipts that settle, attempt, fail, dispute, contradict and reuse one another, on both sides of the dispute window (30 s) and of the deadline; attestations that expire, are misnamed, of another subject or issuer |
| `telegram` | `PayTypeOK`, `KeyKeptUnlessLinked`, `AnswersExplained`, `AcceptableUnlessLinked`, `PayerVettedUnlessLinked`, `LinkSpendsOwnCode` | two users, two wallets, two payments, one Privy account and one code: enough to link to a wallet of one's own, of the other user or of none, to spend one balance twice, and to pay oneself |
| `onboarding` | `IssuanceTypeOK`, `AttestationsTraced`, `LogExplained`, `DemoYieldsToEarlier` | two requests, of one report, two reports, or the bot; a level that is no uint8, a task that did not pass, another template; two block times, so that an attestation can expire; the owner is an issuer and can replace the backend |
| `trading` | `TradingTypeOK`, `BooksBalance`, `TradesLostToAgentOnly`, `SessionStartsEven` | one portfolio, as users do not meet; three requests, two pairs, two prices: two positions of one pair, priced alike or not or not at all, a gain and a loss, an answer of the agent that overtakes two trades |

Mandates are interchangeable in the treasury's runs and declared symmetric, as
are calls, users, wallets, payments, requests and pairs in the later four;
`release` checks liveness and uses no symmetry. All runs but the release's do
not check for deadlock: ownership can be renounced, time is bounded by `MaxTime`,
and once every call, payment or request of the instance is answered nothing is
left to do.

Bounds are constants named in the modules: `MaxTime`, `MaxFunds`, `MaxGiven`, the
input sets `Amounts`, `PaymentLimits`, `DailyLimits`, `Levels`, `Expiries`,
`Allowances`, `Attested`, `Outcomes`, `Asked`, `Bodies`, `Wallets`, `Prices`, the codes in `Token`, and the
sets of accounts that certain calls are made with (`NewOwners`, `Operators`,
`Issuers`, `Subjects`). `Asked` bounds `verifier` to the combinations of mandate,
receipt, attestations and time that are about one another: all receipts of the
first mandate with a sound attestation, both settlements under every set of
attestations at three times, the flawed receipts of the second, and every
mandate without an index.

What the properties of the later runs allow is as telling as what they forbid.
`KeyKeptUnlessLinked` and `PayerVettedUnlessLinked` except linked users: there
the key stays while the address changes, so the account that pays need not be
the one whose KYC was checked; the verifier notices, but after the transfer.
`AnswersExplained` allows that a payment reported as failed was paid, that two
payments rest on one reading of the balance, and that a transfer of nothing
succeeds; `LinkSpendsOwnCode` that a code is spent without a link.
`LogExplained` allows that a row's hash is another request's for the same report,
and that of a reverted transaction. `DemoYieldsToEarlier` allows that the bot's
attestation replaces a valid one recorded while it was on its way.
`TradesLostToAgentOnly` allows that an answer of the agent undoes trades made
while it was thinking, and says nothing of what the user was told; `BooksBalance`
excepts cut saves. In these cases the hazard is documented rather than caught:
its note in `PROJECT.json` says so. So it is with what follows from the empty
index of each `fetchAndVerify`: the properties of `HspVerifier` speak of an index
that is kept, which this backend does not do. `AttestationsTraced` counts the demo
attestations of `/kyc` as legitimate, which no report stands behind, although the
comment at `src/chain/attestationRegistryClient.ts:39-44` describes `issuerService`
as the gate before every write. The others contradict no text of the repository.

### Disagreements between code and text

1. `registry_expiry`: an attestation is valid at the second it expires
   (`AttestationRegistry.sol:86`); the fuzz test's comment says it is invalid
   "at-or-after" that time.
2. `treasury_rolling_day`: the daily limit holds per window, not "across a single
   day" as the fuzz test says. The trace has 3 paid within a day under a limit
   of 2. As the payment that opens a window counts against it, the excess stays
   below a second full limit; `treasury_limits` checks that it never passes
   twice the limit.
3. `release_not_accepted`: the release route looks at `decision.ok` only, which
   holds for RETRYABLE and PERMANENT decisions too.
4. `release_reverted`: a reverted transaction is recorded as a released payment.

## 4. Fairness

Only `ReleaseSpec` states fairness: `WF_vars(Handle(r))` for each request. Node's
event loop serves every continuation that is ready, and every await of the
handler ends: `fetch` and viem's HTTP transport have timeouts, and so has
`waitForTransactionReceipt`. Nothing is assumed of clients, the Coordinator's
verdicts, the operator or the chain; in particular a transaction may stay pending
for ever. `EveryRequestAnswered` therefore rests on the timeouts: its mutant,
where the wait ends with a receipt only, hangs. The contracts have no scheduler
and promise nothing to happen, so the registry and the treasury have no liveness
property. The handlers of the later four modules never wait for one another: each
waits for a network call, and ends where the call does. That they are answered
would restate that assumption, so nothing is stated, and their specifications
have no fairness.

## 5. Proofs

All are for arbitrary constants that satisfy `RegistryAssumption`,
`TreasuryAssumption`, `ReleaseAssumption`, `VerifierAssumption`, `AskedAssumption`,
`AccountsAssumption`, `PayAssumption`, `IssuanceAssumption` and
`TradingAssumption` (sets of naturals, accounts among the addresses, the
placeholder for nothing not among the things, levels that fit eight bits, a day
longer than zero and a chain older than a day).

**Registry.** `RegistryTypeCorrect` is an ordinary invariance proof, one step per
transaction. `ValidityGainHolds` and `ValidityLossHolds` are action properties;
their common core is `StepOnAttestation`, which says the three things a step can
do to one attestation, and `StepOnIssuers`, that the set of issuers changes only
by the owner's call. Both properties follow from the two by cases. Of a loss
they say who is behind it: time only where there is an expiry, the owner where
the issuer was removed, and the issuer or an owner that is an issuer where it was
revoked.

**Sums.** Balances, counters and books are compared with sums over histories,
and `SumFunctionOnSet` is a fold in an order that `CHOOSE` fixes. The library's
induction theorems take an operator, which no installed prover instantiates; but
every set of finite sets that is not empty has a smallest member (`SmallestSet`,
from the well-founded order on finite subsets), so that each fact about sums is
proved by its smallest counterexample, a set. First that the fold has a value at
all (`FoldExists`, `FoldUnique`); then that any element can be taken out of a sum
(`SumRemove`), whatever `CHOOSE` picks first; the rest follows from it:
`SumAdd`, `SumEqual`, `SumUnion`, `SumMonotone`, `SumOfSums`, and `SumRenamed`,
by which the positions behind a removed one may move up.

**Treasury.** The inductive invariant is
`IInv == TreasuryTypeOK /\ KeysMatch /\ MandatePaidOnce`. `MandatePaidOnce`
contains its own strengthening: that no two payments share a mandate is inductive
only together with "the settled mandates are exactly those paid". `KeysMatch`
(each attestation names the subject it is stored under, each policy its payee) is
not needed for the invariants but for the refinement, where the promise speaks of
payees and the contract of keys. `StepKinds` groups the disjuncts of `Next` by
the state they disturb, so each proof treats few cases.

- `TreasuryTypeCorrect`, `MandatesPaidOnce`: from `SpecIInv`.
- `RequirementStaysFixed`: only `RegisterPayee` writes the fields, and it needs
  an empty slot (`PolicyStepFrame`).
- `TreasuryKeepsPromise`: `Spec => PromiseKept`. The mapping takes `balance` for
  the funds, `settled` for the paid mandates, `Eligible` (stated on the storage
  of both contracts, without the views) for who may be paid, and
  `getRemainingDailyAllowance` for the allowance. Deposits fund, releases
  disburse, and everything else, time and the registry included, regulates or
  stutters.

The books have an invariant of their own, `BooksInv`: `IInv`, that no window
opens in the future, and the four properties `FundsConserved`,
`SpentTodayIsWindowTotal`, `WindowsADayApart` and `WindowWithinLimit`, which are
inductive only together. A release appends one payment, which adds its amount to
the sums it belongs to (`SumOfAppend`). Where it opens a window, every earlier
payment of the payee must lie before that window, or `spentToday`, reset to zero,
would not be the window's sum: that is `WindowsADayApart`. `WindowWithinLimit` in
turn needs that `spentToday` is the sum, since the contract compares the limit
with the counter.

- `FundsAreConserved`, `SpentTodayIsTheTotal`, `WindowsAreADayApart`,
  `WindowsStayWithinLimit`: from `SpecBooks`. The limits may change between any
  two payments.
- `AnyDayStaysWithinTwiceTheLimit` is not inductive and follows from the others.
  A day of payments meets at most two windows: the first of these
  payments lies in its window, and a third window would open two days after that
  one did (`TwoWindowsADay`). Of each of the two, the last payment of that day was
  within a limit of that day (`OneWindowOfADay`). That the limit itself may be
  exceeded is `treasury_rolling_day`.

**Payment release.** The inductive invariant `ReleaseInv` adds three facts to
type correctness, `HistoryHasPayee` and `PaidAsLookedUp`. `StageMatchesTx` is how
far a request has come against what became of its transaction and row (no
transaction before the broadcast, no row before the block, paid exactly when
mined). `OrderGiven` says that a request which left `idle` has a proper order;
without it `HistoryHasPayee` is not inductive, since the row could name an
identifier no deletion is checked against. `PayeeSettled` is what lies between
the lookups and the payment: while a request is `checked`, what the directory
lists for it is in `seen`, and from the mandate on the payee is. Two lemmas
describe what a step does to the rest, `HandleIsRequestStep` for the nine steps of
the handler and `ChainIsChainStep` for the chain; the invariant is proved from
the descriptions.

- `ReleaseTypeCorrect`, `BooksAreExplained`, `HistoryKeepsPayee`,
  `PaymentsFollowLookups`: from `ReleaseInvariant`. The last is of any number of
  requests and of edits of the directory, at any time: an address that was
  listed only after the mandate was signed is not paid, nor one that was replaced
  before the pre-check.

**Verifier.** `VerifierInv` adds to type correctness that a call which has read
the index has passed the earlier checks and that what it read is still in the
index (`Calls`), and that of calls in `read` about a mandate that is not `raced`
there is one, whose `prior` is all the index has of the mandate (`ReaderAlone`).
The latter is why the old `prior` is as good as the index at the end.

- `TransfersPayOneMandate` needs no order at all: the observation is looked up in
  the step that enters it (`IndexGrowsByPassing`).
- `VerifierKeepsLifecycle`: `VerifierSpec => LifecycleKept`. A receipt enters by
  `Emit`, in order by `ReaderAlone` and `SequencingKeepsOrder`, or of a raced
  mandate; overlapping reads are `Race`; the rest stutters.
- `DisputesHaveSettlements` and `AcceptsArePaidAndAttested` hold of each step that
  decides, from the checks it passed (`PassedEveryCheck`,
  `CapabilitiesAttested`), and stay.
- `RefusalsAreFinal` is the deepest. `FinalInv` says that the receipts of an
  unraced mandate have numbers of their own and at most one of them settles
  (`Ordered`), and that each decision has a cause that lasts: a call refused for
  good is `Doomed` by its arguments, by what it had read or by what the index
  has, and a call that passed is `Sound`. A call that has read as much as a
  doomed one is not sound (`SequencingIsFinal`, `ExplainedIsFinal`).

**Accounts and Telegram payments.** `PayInv` is `PayTypeOK`, `KeyKeptUnlessLinked`
and, for each payment, how its stage relates to its transaction, that it has a
job once it is asked, that its signer is its payer unless its user is linked,
and that a payment past the KYC check was vetted or has two accounts. Since a
user never unlinks, the third survives a change of the row. `PayersAreVetted`
then follows by the verifier's check of the signer: `Accepts` implies that the
mandate is signed by its payer. `LinksSpendOwnCode` is an action property.

`PaymentsAreAcceptable` has both directions. What the verifier accepts is signed by
its payer (`AcceptedIsSignedByPayer`, from the check of the signature); and a
payment in a block whose signer is its payer passes every check
(`SignedByPayerIsAccepted`): the mandate, the attestation and the receipt that the
handler builds fit one another and the policy. `PayInv` connects the two with
linking.

**KYC issuance.** `IssuanceInv` is `IssuanceTypeOK` and `RequestOK(r)` for each
request: how its stage relates to its job, row and transaction, and that a
request with a transaction is `Sourced`, of the bot with the demo level or with
a row and a task that passed. Steps of requests frame each other
(`OthersKeepTheirs`); a step of the chain is one of the registry
(`StepOnRegistry`), so its proofs are used again.

- `AttestationsAreTraced`: an attestation of the backend changes by `Mined` only
  (`StepOnBackendsAttestation`), and a mined request, unlike an attestation,
  stays as it is.
- `LogIsExplained` adds two facts about marks (`MarkTrue`, `AnchorTold`).
- `DemosYieldToEarlier` needs `DemoFresh`: of a demo in progress, the subject's
  attestation was not valid at the check, or was recorded, or its issuer
  registered, since. That an issuer's registration is dated
  (`RegistrationsAreDated`) makes this inductive. The registry's
  `StepGainsValidityOnlyBy` is what excludes every other way to become valid.

**Paper trading.** `TradingInv` is `TradingTypeOK` with the jobs of requests in
progress and of those saved. `TradingTypeCorrect` is not shallow here: that a
balance stays a natural and sizes stay positive is what `Within` and `Reduced`
are for, and the first position of a pair exists by `MinIsElement`.
`LostTradesAreAccounted` is by induction over saves: what an executed request saves has
all trades of its basis, and a `/trade`'s basis is what is saved.

`BooksBalance` speaks of any prices; the invariant `Books` is the one equation
behind it (`Balanced`): cash and the cost of the open positions are the start and
the profit made. It holds of each portfolio saved, unless a save was cut, and of
each one that an answer of the agent will go by; without the latter it would not
be inductive, because the agent may save a result of a portfolio long overwritten.
A sale reduces the oldest position of its pair or takes it out of the middle of
the list (`CostReduced`, `CostWithout`). Since a position is worth its cost and the
profit shown for it, at any price or at none (`WorthOfPosition`), the sum of both
gives `TradingBooksBalance` (`BalancedAtAnyPrice`). `SessionsStartEven` is the case
of no positions.

Every safety and action property of the passing runs is stated by a theorem. Only
model-checked are `EveryRequestAnswered`, as liveness is out of TLAPS's reach, and
the four violations, which are facts about an instance.

## 6. Plan

Done, in this order:

1. registry and treasury, with proofs and the refinement of the promise;
2. the books of the treasury (`PayrollTreasuryAudit`);
3. `PaymentRelease`, concurrent requests on directory, history and chain;
4. `PaymentRelease_proofs`;
5. `HspVerifier`, its checks, and the refinement of `MandateLifecycle`;
6. `UserAccounts` and `TelegramPay`;
7. `KycIssuance`, composed with the registry;
8. `PaperTrading`;
9. proofs of 5 to 8;
10. sums, and with them the books of the treasury and of paper trading.

Left:

11. tokens that call back into the treasury (`PayrollReentrancy`), which needs the
    contract's calls cut at the token;
12. `Migrations` under crashes;
13. more of the bot's and the institutions' commands, where they write.

## 7. Not modelled

- `POST /institutions/payees`. At this commit `registerPayee` hands the contract
  call the name of a capability cast to bytes32; viem refuses to encode it and
  the route answers 500 before anything changes. `/addpayee` writes the
  directory, which `PaymentRelease` has.
- `chain/txManager.ts`: no caller outside the tests at this commit.
- `db/client.ts` and its migrations: a short sequential program at start-up.
- Prompts and the parsing of model output, market data, configuration, logging,
  validation middleware and authentication: no state of their own, or pure I/O.
  Where their failure matters (`ReasoningFails`, `TickerFails`, `CallThrows`) it
  is an action.
- The Coordinator and NexaID are outside the repository. They appear by what the
  code lets them decide: whether a call succeeds, and which receipt or status
  comes back.
- Hashes and signatures are abstracted to the identity of what they cover.
- Floating-point arithmetic of paper portfolios.
- Commands of the bot and routes that only read, but for the profit shown. A
  payee's history is one: `GET .../history` shows the latest 20 rows, after a read
  of the chain that can fail. `HistoryHasPayee` is about the rows, not the view.
- Scripts that exercise a deployment by hand (`smokeTest`, `hspFullRoundTrip`).
