# TLA+ models of POTG

POTG is a Discord community's server: members own points, give them away, bet
them on in-house matches, spend them in a shop, earn them by attending, belong
to a clan and are drafted into teams in auctions. The backend (`src/backend`,
NestJS + TypeORM + PostgreSQL) holds all state; the Discord bot and the web front
end (`src/frontend`, Next.js) call its services. This directory holds TLA+
specifications of the parts where interleavings, long histories, stale screens
and rounding decide whether points and results stay right.

Paths below are relative to `src/backend/src/modules/` unless they start with `src/`.

## 1. Inventory

| Component | State | Operations | What is hard | What makes it correct |
|---|---|---|---|---|
| Point ledger (`ledger/`) | `users.points_balance` (cache), `point_tx` (append-only rows) | `transfer`, `mint`, `burn`; audit queries | concurrent transfers on one row, lock order, several legs in one transaction, entity saves that overwrite the cache | cache = sum of rows; nobody overdrawn; supply = issued - destroyed |
| Members (`discord-bot/discord-member.service.ts`, `users/`) | rows of `users` | join (row + seed), profile save, role save, delete | saves of entities read earlier, rows deleted while other tables refer to them | a save changes only what it is meant to |
| Matches (`matches/`) | `matches.status`, `winner_team_id`, teams, placements | create, add team, open, lock, settle, cancel, scenario | cascades to markets, markets handled on their own, all-or-nothing settlement | no stake is stranded; results are final |
| Betting (`betting/`) | markets (status, pool, rake, winning option), stakes | create market, stake, lock, settle, cancel | stake against lock, late markets, rounding, failing refunds | pool = stakes; payouts <= pool; every stake resolved once |
| Bot commands and notices (`discord-bot/`) | conversations of some minutes, in memory | `/베팅`, `/순위예측`, `/베팅잠금`, `/베팅결과`, `/구매`, `/출석`; results by direct message | menus read once, late and double clicks, time limits, a restart | what is done is what the last question said; bettors are told the truth |
| Match pages (`src/frontend/src/app/admin/matches`) | what a page was told last | open, lock, cancel, add team, form of results | the match changes under the page | a button acts only on the state it was offered for |
| Auctions (`auctions/`) | auction status, participants, budgets, current player, bid log, pause data | some twenty operations of the service, bidding, undo, assignment | every mutation may meet a timer, a bid and an admin | a player is sold once, budgets match sales |
| Auction gateway (`auctions/auction.gateway.ts`) | in-memory timers, rooms | socket handlers, timer callbacks, broadcasts | timers not bound to a player, pause/resume races, restart, handlers that overlap | no player is confirmed by another player's timer; changes are told |
| Auction pages (`src/frontend/src/modules/auction`) | the room as it was told last; the set-up page's list, picker, dialogs | bids, the master's buttons, set-up | connections lost, messages on their way, lists that are old | a bid counts for the player on the screen; who was picked takes part |
| Auction payout (`auctions/services/auctions-admin.service.ts`), wallet, corrections | `point_tx.idempotency_key` | payout of all participants, `addPoints`, adjust, gifts | retries, two payouts at once, one participant of many who cannot be paid | nobody rewarded twice, all or nobody |
| Shop (`shop/`) and its pages | products (stock, status), orders, vouchers | purchase, deliver, cancel, edit product | unlocked checks, double refund, stale saves | stock never negative, one refund per order, one voucher per order |
| Market gate (`src/backend/src/common/`), attendance records (`attendance/`), settings (`system-config/`) | `users.market_gate_passed`, `attendance_records`, key-value rows | check, upload of a sheet, change of a requirement | a flag that outlives what it was earned by; settings that are no number | buyers have earned it |
| Attendance rewards (`discord-bot/attendance-reward.service.ts`, `voice-attendance.service.ts`) | daily rewards, streak, voice presence in memory | claim, voice poll, leave | two claims a day, midnight, restart, failed claims | one reward per member and day, every long stay is paid |
| Clans (`clans/`) | clans, members, join requests, announcements, hall of fame | request, approve, leave, roles, transfer master, kick, edits | no transactions or locks | one master; nobody enters unasked |
| Auth, uploads, health, other pages and commands | - | I/O and user interface | - | not modelled |

Interactions. Every component that moves points calls `LedgerService`, inside
its own database transaction when it passes its `manager`. `MatchService` calls
`BettingService` for each market in its own transaction, and the betting
controller calls the same functions on a single market. Bot and pages call the
services at the end of a conversation or on a click, with what they read at its
beginning. The gateway calls the auction services, reads the room and tells every
socket in it. Notices to members are sent after the commit and are best effort.

`PROJECT.json` lists each component with its status and each hazard with the
line where it bites and the properties that would catch it.

## 2. How the modules build on each other

    Ledger ---- LedgerTx (refines Ledger) - LedgerTxProofs
      |-------- Payout --\
      |-------- Attendance - RewardProofs
      |-------- Shop ------- Market - MarketProofs
      |-------- Betting ---- BettingBook (abstract)
                   |-------- BettingTx ---- BettingProofs
                   |-------- BettingFlows - MatchPages --/
    Auction --- Draft (abstract)
      |-------- AuctionTimers ----------------\
      |-------- AuctionRoom ------------------ AuctionProofs
      |-------- AuctionRoster - AuctionSetup -/
    Clans ----- ClansProofs
    PointSums - LedgerProofs, which every proof about points EXTENDS; AuctionProofs

A module to the right or below EXTENDS the one it hangs from: its actions are the
latter's whole transactions in a wider setting (a countdown, a page, a
conversation, row locks). The order in which they were written is that of how
much depends on them: points first, then bets, auctions, the rest, and at last
the bot and the pages, which only call.

## 3. Modules

**`Ledger`** - one action per committed transaction.
`balance` is `users.points_balance`; `inflow[a]`/`outflow[a]` are the two sums
`computeBalanceFromLedger` takes over `point_tx`, which is all any code reads of
the table's history; `account` says whether the user's row exists. `SINK` is the
system account that issues and destroys. `Transfer` is `LedgerService.transfer`
with all its refusals (sign, both sides system, self transfer, missing row,
insufficient balance); `Mint` and `Burn` are its two callers; `MintAll` is what a
transaction that mints to several users amounts to (used by settlements);
`Join` is the first command of a member (row and seed in one transaction);
`RemoveUser` deletes the row and leaves the ledger rows. `AnyTransfer` stands
for every other caller: gifts, rewards, admin corrections, purchases.

**`LedgerTx`** - the same transfers by statement, for concurrent PostgreSQL
sessions at READ COMMITTED. `pc` is where a session stands, `legs` the transfers
its transaction has still to make, `done` those made but uncommitted, `work` the
balances it read or computed, `holders` the row locks. `LockRow` grants one row of
`SELECT ... WHERE id IN (...) FOR UPDATE` (in any order: there is no `ORDER BY`)
and reads it; `Apply` checks and computes one transfer; `Commit` publishes;
`Refuse`, `Crash` and `DeadlockVictim` roll back. `ReadEntity`, `Reload`,
`WriteEntity` are the read, TypeORM's second read and the write of `save(user)`
as `findOrCreate` and `adminUpdateRole` use it. PostgreSQL's and TypeORM's
behaviour is external and marked so in the map. `Serial == INSTANCE Ledger` is
the refinement: the variables of `Ledger` are kept as committed values, so every
step of `LedgerTx` is a step of `Ledger` or leaves it unchanged.

**`Payout`** - extends `Ledger` by those who give points by hand. The payout of
an auction is one transaction of many statements: `ReadAuction` (without a lock),
`CheckKey` looks for the `point_tx` row with the key of auction and user,
`MintNext` waits for the user's row and inserts, `CommitPayout` publishes,
`RollBack` undoes all (a key that exists by now, a row that is gone, a deadlock).
Meanwhile participants come and go and the auction is completed or reopened.
`AdminAdjust`, `Gift`, `AddPoints` are the other callers, one transfer each.

**`Betting`** - extends `Ledger`; matches, teams, markets and stakes, one action
per transaction, each with its whole cascade: `LockMatch` locks every open
market, `SettleMatch` settles every locked one and skips the others,
`CancelMatch` cancels every unsettled one. Because an action is one transaction,
a single failing mint disables the whole action, exactly as it rolls the whole
transaction back. `createMarket` is two steps, because its check for an existing
market holds no lock. Stakes are functions of market, user and side, which is
the key under which the service adds them up. The arithmetic is the code's:
`BigInt` division truncates towards zero and `rakeBps` has no upper bound, so the
pool after rake may be negative. `paidIn`/`paidOut` are the `point_tx` rows that
refer to a market. `AddStake`, `CloseBetting`, `EnterResult` and `CallOff` are
the writes of `placeStake`, `lockMatch`, `settleMatch` and `cancelMatch` for the
markets they found, shared with `BettingTx`.

**`BettingBook`** - what a market promises whatever its formulas are: take
contributions while open, then either pay contributors at most what was taken or
give everything back, once. `Betting!BookSpec` is that specification under the
mapping of market states to phases.

**`BettingTx`** - the transactions of `Betting` by statement where they can meet.
`BeginStake` locks the market and reads the match without a lock; `CommitStake`
writes. `BeginClosing` is `lockMatch`, `settleMatch` or `cancelMatch` taking the
row of the match and finding its markets; `LockNext` locks one of them and looks
at its status again; `CommitClosing` writes all. What a transaction wrote is seen
by others when it commits, so it is written then. Between taking the match and
finding its markets nothing of another transaction matters, so they are one step.
Inserts of markets and teams wait for the row of their match, because the foreign
key takes `FOR KEY SHARE` on it (`MayRefer`;
`src/backend/src/database/migrations/1747900001000-Phase1DiscordRefactor.ts:94`,
`:135`); without that key `LateMarketIsEmpty` would fail. `FoundIsStillSo` is the
heart of the module: what a transaction found without a lock, or under a lock it
still holds, is so when it commits. `BettingTx` satisfies the properties and
the book of `Betting`; it is not claimed to refine `Betting` itself, since an empty market
that is locked between the read and the commit of a settlement stays unsettled,
which no single step of `Betting` does.

**`BettingFlows`** - the bot's commands about bets as conversations. `flow[s]` is a
conversation: where its command waits, what it read at its beginning, what was
chosen, what the message shows, and the clicks that are on their way. The bot reads
any selection as the answer to what it waits for, so a late or double click is
an answer to another question. `TimesOut` is the end of the fifteen minutes of a menu's
collector or of the five of the modal, `LoseClick` a click that meets no collector, and
`Restart` the death of the process.
`NotifyBettors` reads the results after the settlement has committed and reaches some.

**`MatchPages`** - the administrators' pages of a match in the place of a
conversation: `seen` is the status the page was told, `Reload` the answer to a
query it repeats only after a change of its own or a broken connection. `HandleSubmit`
is always refused (section 5).

**`Auction`** - one draft auction; one action per transaction of
`AuctionsService` and `AuctionsBiddingService`, all of which lock the row of the
auction first. `auction` is that row: the end time of a turn is kept as the
seconds to it (`left`, which `Elapse` lowers to zero), the only thing the code
computes from it. `entry[r]` is a row of `auction_participants`; rows have ids of
their own because nothing makes a user's row unique, and `findOne` is the choice
of any row that matches. `bid[u][t]` is the active bid of `u` for `t`, which
`placeBidWithValidation` keeps to one. `UnderHammerIsFree`, `BidsCovered` and
`TeamBudget` hold for auctions set up as they should be; `SoldToHighestBidder`
says who may join a team, and for what.

**`Draft`** - what an auction promises: equal purses, a player in at most one
team, sold for a price the team can pay, or given for nothing; released for the
price paid. `Auction!DraftSpec` is that specification under the mapping of
participants to teams, prices and purses. `AuctionTimers` is checked against it
too: the gateway adds handlers, not sales.

**`AuctionTimers`** - extends `Auction` by the gateway. A handler is a job; a step
of it is what the process does between two awaits, so handlers meet as they do
in Node. `timer` is the countdown of the auction (one per auction, whoever
started it), `expiring` the callback whose transaction has not begun.
Events whose handler stops the countdown first (`StopFirst`), selects, bids and
resumes have steps of their own; the others are the transaction alone, as are the
REST routes, which know nothing of the countdown. `Restart` forgets both.
These handlers stop the countdown for anybody who is signed in: who the creator is, the
service asks afterwards (`auctions/auctions.service.ts:90`), and no handler starts it
again. So `CallStopped` may be refused in every state. `dropped` is a history variable and
guards nothing: it remembers (`NoteDrop`) that bidding was left open without a countdown by
a refused call, a restart or a selection through REST, until a countdown is started.

**`AuctionRoom`** - extends `Auction` by the room and the pages in the browsers.
A handler joins a socket, or calls the service, reads the room and tells it; `inbox`
is what is on its way to a page, `view` what the page shows, and `Offered` the
buttons that page offers for it, as its components decide. `Disconnect` loses
the inbox and keeps the view. The countdown is a step that may happen while a
player is up; pausing and resuming it is left to `AuctionTimers`.

**`AuctionRoster`** - extends `Auction` by its set-up, where nothing is locked: a
request reads the auction and the participants, and what it still has to write
is in `requests`, whole entities included, as TypeORM saves them. `SerialSpec`
handles one call after the other; `RosterSpec` lets calls meet and die half way.
`SetUpIsOrderly` is what the bidding assumes of its beginning.

**`AuctionSetup`** - the page of the master who sets an auction up, over
`AuctionRoster`. `current` and `room` are what the page was told, `dialog` and
`chosen` what is open on it, `waiting` and `calls` the requests it waits for: one
for all players, one per captain. Others call the same server.

**`Shop`** - extends `Ledger` by the market. A call is its reads and checks
(`ReadProduct`, `ReadToCancel`, ...) and, later, its writes (`Purchase`,
`CancelOrder`, ...): nothing is locked while it reads, and `call` is what it
still knows from then. The writes are one step, because the first of them locks
the row of the product or of the buyer. `Purchase` asks for the stock again, in the
`WHERE` of its update, and for nothing else; `Refused` is a failure of the later
checks and rolls back. `SaveProduct` writes the product as it was read, with the
edited fields. `coupon[k]` is the member a coupon is assigned to.

**`Market`** - who may shop, and through what: the market gate, the `/구매`
conversation (`visit`), the pages for products, settings and attendance sheets
(`edit`, `upload`), over `Shop`. A field opened on a page remembers what the list
showed. `Enter` is `enforce` and what follows of it: the flag and, for the bot, the
menu. A sheet is read row by row while others shop; `lowest` remembers the
mildest requirements there were.

**`Attendance`** - extends `Ledger` by the daily claim: the member is found or
made, the transaction begins (its rows carry that time), the member's row is locked
and today looked for, the reward and the bonus of the streak are minted.
Claims come from the command, from the poll over the members in a voice channel
and from their leaving; `presence` is the service's map, `Midnight` the clock.

**`Clans`** - members, roles, requests, announcements and hall-of-fame entries.
Only `create` and `addMember` are transactions; every other request is its reads
and, later, its save of what it read (`SaveMembers`, `SaveAnswer`, `SaveItem`).
A save of a row that is gone inserts it again. `mishap` records that a save has
undone a change it had not read, so that a property can say what holds otherwise.

**`PointSums`** - lemmas about sums over finite sets (type, removal, update,
addition, congruence). The library's induction rules take an operator as
parameter, which the provers cannot instantiate; `SubsetInduction` states the
rule with a set of subsets instead and is proved from the well-foundedness of
strict inclusion.

**`LedgerProofs`**, **`LedgerTxProofs`**, **`RewardProofs`**, **`BettingProofs`**,
**`MarketProofs`**, **`ClansProofs`**, **`AuctionProofs`** - the theorems about `Ledger`;
`LedgerTx`; `Payout` and `Attendance`; `BettingTx`, `BettingFlows` and `MatchPages`; `Shop`
and `Market`; `Clans`; `AuctionTimers`, `AuctionRoom`, `AuctionRoster` and `AuctionSetup`. Section 7 says what they show and how.

An `MC` module gives a module its small instances. Definitions marked *Mutant* are
faulty variants of the definition that follows them. Nothing uses them; each is
put in its place to see that a property notices.

## 4. Runs

`tlc -workers 2 -config <file> <module>`, in this directory. The twelve runs of
`PROJECT.json`, all of which pass:

| Run | Module, configuration | Instance | What it shows |
|---|---|---|---|
| `payout` | `MCPayout`, `Payout.cfg` | 2 members, 2 rows of participants, 2 payouts at once, gifts, corrections -1 and 1, one deleted member | balances, rows and supply agree; nobody is rewarded twice for one auction; a payout is made whole or not at all |
| `ledger_serial` | `MCLedgerTx`, `LedgerTxSerial.cfg` | 2 members, 3 sessions, 4 transactions, crashes | concurrent transfers amount to one transfer at a time (refinement of `Ledger`) |
| `ledger_mixed` | `MCLedgerTx`, `LedgerTxMixed.cfg` | 2 sessions, settlements of two legs, entity saves, 3 transactions | every transaction ends; a balance no save touches stays the ledger's |
| `betting_pool` | `MCBettingTx`, `BettingTx.cfg` | one match, a WIN market with a rake of 30 %, 2 members who own 3 points, stake 0 to 2 and may be deleted | what is read without a lock is so at the commit; no stake is stranded; pool, stakes and payouts agree, and of the pool less than a point per winner is kept back (refinement of `BettingBook`) |
| `timers_orderly` | `MCAuctionTimers`, `TimersOrderly.cfg` | 2 captains with a point each, 2 players, turns of 2 seconds, every event by anybody, one handler | purses cover what is spent and bid; whoever is up is free; open bidding ends, unless its countdown was `dropped` |
| `timers_races` | `MCAuctionTimers`, `TimersRaces.cfg` | 2 captains with 2 points, 2 handlers that meet, eleven kinds of events by anybody, two of them REST calls, a restart | sales are right under every order (refinement of `Draft`); open bidding has a countdown, unless it was `dropped` |
| `roster_serial` | `MCAuctionSetup`, `AuctionSetup.cfg` | 2 users, 3 rows, points and teams 1 or 2, one page | who was picked takes part, nobody twice; captains have the starting points and nobody is in a team when it starts |
| `shop` | `MCMarket`, `Market.cfg` | a voucher product of price 1 or 2, stock 1 and limit 1, 2 orders, a profile item, one member with the bot and one on the web, one administrator, a requirement of 2 or 1 days, a sheet of two rows | orders account for points and vouchers; limits hold; buyers have earned it |
| `attendance` | `MCAttendance`, `Attendance.cfg` | a member, 2 claims at once, 3 days, a bonus after 2, restarts | paid once a day, each bonus once a run of days, every long stay paid |
| `clans` | `MCClans`, `Clans.cfg` | 3 users, a clan, 3 rows, a request to join, an announcement, 2 requests at once | one master but for mishaps of saves; members were asked; deleted items come back only by an edit that had read them before |
| `commands` | `MCBettingFlows`, `BettingFlows.cfg` | a member, a WIN and a RANK market (whose rake takes everything), a conversation or page with 3 clicks, 2 of them on their way | the bot does what its last question said, pages change what they show, bettors are told the truth, conversations end |
| `room` | `MCAuctionRoom`, `AuctionRoom.cfg` | a captain, 2 players, the master's page and the captain's, which loses its connection | pages follow what they are told, changes are told, bids count for the player on the screen |

Beside them, for who wants to know more, pass `FlowsTypes.cfg` (`MCBettingFlows`: the types
of conversations and pages, and `NobodySkipped`), `TimersTypes.cfg` (`MCAuctionTimers`: the
types of the gateway), `TimersHandlers.cfg` (`MCAuctionTimers`: `OpenBiddingHasTimer` for two
handlers and every event, with a point each), `MarketEnds.cfg` (a
conversation in the shop ends), `BettingTxTwo.cfg` (`MCBettingTx`: a WIN and a RANK market of
one match; also `StakesFollowMarket`, `ResolvedOnce`), `RosterSerial.cfg`
(`MCAuctionRoster`: the set-up without the page) and `RoomHandlers.cfg` (`MCAuctionRoom`: two
handlers of the gateway that overlap).

Why these bounds are enough. Two of a kind meet in every way two can: two
sessions, two payouts, two handlers, two members on two sides. A third session
is there in `ledger_serial` because a cycle of waiters next to a bystander needs
it. Amounts are as small as makes a purse run out, a division leave a rest and a
rake take all. Stock, limit, inbox and clicks are at the size where the second
request finds nothing left. A member of a match is deleted after the stake, a sheet counts
a member up to the requirement, and a streak reaches its bonus. What would need
more of a kind (three captains who outbid each other in turn, a waiting line of clicks)
repeats steps of the same kind, which only the proofs of section 7 cover for any number.

A deadlock is looked for in `shop` only: elsewhere the system may really stop
(a bound is reached, an auction is over, every message was sent).

## 5. Where the code and its documentation part

Each of these properties states what a document, a comment, a check or a text on
the screen says, and each is violated within seconds: take the
configuration, put the property in the place of its `INVARIANT`s and `PROPERTY`s,
change the constants named, and leave out `SYMMETRY` for a `PROPERTY`.
The last state of the trace is the disagreement.

| Property | Configuration | Claim | What the code does |
|---|---|---|---|
| `NoWaitCycle` | `LedgerTxSerial`; `MaxTx = 3`, `Session <- MCSessions` | "locks the smaller id first to avoid deadlock" (`ledger/ledger.service.ts:53`) | the ids are sorted in memory; `WHERE id IN (...) FOR UPDATE` locks in the order of the plan (93) |
| `BalanceIsLedgerSum` | `LedgerTxSave` as it is | the balance is the sum of the rows (`ledger/entities/point-tx.entity.ts:18`) | `save(existing)` writes a balance back that a transfer has changed meanwhile (`discord-bot/discord-member.service.ts:63`, `users/users.service.ts:164`) |
| `SettledOnlyAfterMatchLocked` | `BettingTx` | settle needs market and match LOCKED (`betting/betting.service.ts:44`) | `settleMarket` never reads the match (252) |
| `CancelRefundsAll` | `BettingTx` | a cancelled match refunds every stake in full (`matches/match.service.ts:55`) | one stake of a deleted user makes its mint fail and the cancellation of all with it (352) |
| `OneMarketPerType` | `BettingTx`; `Market <- MCTwoWins`, `WinMarket <- MCTwoWins` | "Market already exists" (`betting/betting.service.ts:78`) | the check holds no lock (73) and the table has no key |
| `ShownTeamsCanBeChosen` (action) | `BettingFlows`; `FlowsSpec`, `MaxClicks = 4`, `Placements <- MCNone` | going back works as it should (`discord-bot/commands/admin-betting-settle.command.ts:242`) | settle-back2 redraws the menu of the teams and waits for a match (245) |
| `SoldPlayerHasNoActiveBid` | `TimersOrderly`; `Spec` | a sale deactivates every bid for the player, which frees the losers' points (`src/docs/handoff.md:138`) | `placeBidWithValidation` does not look at the phase (114): a bid after the sale stays active |
| `CompletedIsFinal` (action) | `TimersOrderly`; `Spec` | COMPLETED is final (`src/docs/auction/PROCESS.md:82`) | `enterAssignmentPhase` asks for no status (`auctions/auctions.service.ts:655`) |
| `TimeUpDecides` (temporal) | `TimersOrderly`; `Message <- MCWithPass`, `Turn = 1` | when the time is up the backend sells or passes (`src/docs/handoff.md:94`) | a `passPlayer` that is refused, whoever sent it, has stopped the countdown (`auctions/auction.gateway.ts:329`; also 295, 387, 426, 475), and only then the creator is asked for (`auctions/auctions.service.ts:90`) |
| `TimeUpDecides` (temporal) | `TimersOrderly`; `MaxRestarts = 1`, `Message <- MCBasic`, `Turn = 1` | the same | countdowns are lost with the process (86) |
| `TimeUpDecides` (temporal) | `TimersOrderly`; `Message <- MCRest`, `Turn = 1` | the same | `PATCH /auctions/:id/select-player` starts no countdown (`auctions/auctions.controller.ts:82`) |
| `DecidedOnlyAtEndTime` | `TimersNextPlayer` as it is | a turn of 30 to 60 seconds per player (`src/docs/handoff.md:93`) | a countdown started for one player decides on the next (`auctions/auction.gateway.ts:639`) |
| `ResumedTimerRunsTheRest` (action) | `TimersOrderly`; `Spec`, `Message <- MCPausing` | "Restore timer if we have remaining time" (`auctions/auctions.service.ts:519`) | the gateway reads the saved time after it was cleared (455) and counts a whole turn |
| `AutoConfirmedOnlyUnrivalled` (action) | `TimersOrderly`; `Spec`, `Handler <- MCTwoHandlers`, `Message <- MCWithPass`, `StartPoints = 2`, `Turn = 1` | a bid is sold at once after checking the rivals' points (`auctions/services/auctions-bidding.service.ts:29`) | check and sale are two reads (`auctions/auction.gateway.ts:224`, 234) |
| `JoinedPageShowsRoom` | `AuctionRoom` | a page that joins is given the state (`src/docs/auction/PROCESS.md:134`) | `joinRoom` answers with the bare state, and the page takes `payload.roomState` of it (`use-auction-socket.ts:65`) |
| `MasterCanGoOn` | `AuctionRoom` | BIDDING goes to WAITING on a pass or when time is up (`src/docs/auction/PROCESS.md:97`) | the phase stays BIDDING without a player (`auctions/services/auctions-bidding.service.ts:283`), and no button of the page fits |
| `OneRowPerUser` | `RosterSerial` (`MCAuctionRoster`); `RosterSpec`, `MaxRequests = 2` | "Already joined" (`auctions/auctions.service.ts:102`) | check and insert without a lock or a key |
| `StartedStaysStarted` (action) | `RosterSerial`; `RosterSpec` | PENDING is left once (`src/docs/auction/PROCESS.md:69`) | a settings request saves the whole row it read (300) |
| `TeamLimit` | `RosterSerial`; `RosterSpec` | at most `teamCount` teams (`auctions/auctions.service.ts:215`) | `join` and the settings do not count captains; the page sends its requests for captains at once (`auction-pending-master.tsx:57`) |
| `CaptainsHaveStart` | `RosterSerial`; `RosterSpec`, `MaxCrashes = 1` | "Update all captains' points" (`auctions/auctions.service.ts:291`) | two statements without a transaction (292, 300) |
| `StartsAsShown` (action) | `AuctionSetup` | the dialog names the teams and players the auction starts with (`auction-pending-master.tsx:117`) | the list may be old when the master starts |
| `OrdersReconcile` | `Market`; `Admin <- MCTwoAdmins` | "Already cancelled" (`shop/shop.service.ts:255`) | two administrators who both read the order before either cancelled it refund it twice (250) |
| `LimitKept` | `Market`; `Client <- MCTwoClients`, `MemberOf <- MCBothOfOne`, `Chat <- MCNobody` | "Purchase limit exceeded" (`shop/shop.service.ts:158`) | two calls of one member count the same orders and both buy (146) |
| `SoldMatchesOrders` | `Market` | stock is taken atomically (`shop/shop.service.ts:163`) | an edit that read the product before the sale writes its stock and its sales back (97, 111) |
| `ChargedAsShown` (action) | `Market` | the modal shows the price (`discord-bot/commands/buy.command.ts:126`) | the purchase reads it again |
| `StockShownIsStock` (action) | `Market` | an inline edit changes the stock the list shows (`products/page.tsx:89`) | the field holds the stock of when the list was read |
| `RequirementsAreNumbers` | `Market`; `NewValue <- MCTypos` | the server refuses what is no number (`config/page.tsx:181`) | `set` stores any text (`system-config.service.ts:45`), and `getNumber` fails for everybody from then on |
| `SheetCountsOnce` | `Market`; `MaxUploads = 3` | a row is a day or a match attended | uploading a sheet again counts it twice: no key (`attendance/attendance.service.ts:197`) |
| `PaidOnceADay` | `Attendance`; `Spec`, `Leaver <- MCNone` | one award a day also under concurrency (`discord-bot/attendance-reward.service.ts:43`) | a row bears the time of BEGIN (`created_at DEFAULT now()`), today is computed after the wait for the lock (88) |
| `PresentIsTracked` | `Attendance`; `Spec`, `Leaver <- MCNone` | members present count from the restart on (`discord-bot/voice-attendance.service.ts:35`) | the listeners hear later events only (97) |
| `PaidWhileCompleted` (action) | `Payout` | only a completed auction is paid (`auctions/services/auctions-admin.service.ts:143`) | it is read without a lock (134) and may be reopened before the commit |
| `ClanHasMaster` | `Clans`; `Item <- MCNone` | the master may not leave or be removed (`clans/clans.service.ts:218`) | `transferMaster` to oneself (299) makes the master a manager |
| `OneClanPerUser` | `Clans`; `Item <- MCNone`, `Clan <- MCClans` | a member of a clan may not join another (`clans/clans.service.ts:67`) | the check holds no lock |
| `OnePendingRequest` | `Clans`; `Item <- MCNone`, `Request <- MCRequests` | one request waits at a time (`clans/clans.service.ts:73`) | the same |

Found while modelling, and seen by reading alone:

- The form of results sends `placements` as an array and the route wants an
  object, and the page of matches sends `teamCount`: both are always refused
  (`ValidationPipe` with `whitelist` and `forbidNonWhitelisted`, `src/backend/src/main.ts:25`).
- The list of matches offers filters the route ignores, and the detail page links to an
  auction under the id of the match.
- The auction page does not listen to `playerUndone`, `timerPaused` and `timerResumed`;
  REST calls broadcast nothing; two handlers that overlap may leave the older state on
  the screen.
- `wasUnsold` is set by a manual assignment only, so the button of the assignment phase is never offered.
- The page of orders offers delivery and cancellation for a status `PENDING` no order has;
  the switch of a product always sends `isActive: true`.
- The attendance page looks for `status === 'FAIL'` where the route answers `ok`, and names
  columns the route does not read.
- `/출석` and voice claims are rewarded and never count toward the market gate.

## 6. Fairness

In `LedgerTx`: `WF` of a session's own steps (apply, commit, refuse, victim of the
detector, second read of a save): the Node process runs what it has begun, and
PostgreSQL's detector does not sleep. `SF` of granting a row lock and of the write
of a save, which waits for one: PostgreSQL queues waiters of a row, so one that is
enabled again and again is served. Beginning a transaction, crashing, joining and
deleting are never forced. Without the deadlock detector `EveryTxEnds` would
fail, as `NoWaitCycle` shows.

In `AuctionTimers`: `WF` of the steps of each handler that has begun, of the
clock and of the callback of a countdown that has run out: the process is
running and PostgreSQL answers. No client has to send anything, least of all the
one event that would end the bidding. `BiddingEnds` allows the master to give the
player a new turn, which may go on for ever, and it claims nothing once the countdown
was `dropped`: then the code does nothing more by itself.

In `Attendance`: `WF` of the steps of a claim that has begun, and `SF` of the
poll: the interval runs as long as the process does, but in the model it needs one of the
few claims that may be in progress at once, which others can take again and again.

In `BettingFlows` and `MatchPages`: `WF` of the bot's own answers and of the time
limits of its collectors. Nobody has to click, and nobody has to leave a page.
`ChatsEnd` relies on a conversation having at most `MaxClicks` clicks, since a
selection does begin a new wait. `MarketEnds.cfg` assumes the same of `/구매`.

## 7. Proofs

`tlapm <module>` checks them from nothing; no step is left without proof.

`LedgerProofs` proves, for every finite set of users, every set of integer
amounts and every bound: `LedgerTypeOK`, `BalanceIsLedgerSum`, `NoOverdraft` and
`CirculatingSupply` are invariants of `LedgerSpec`, and `OnlyRecordedMoves` (each step appends rows for
what it changes) holds.
The inductive invariant `LedgerInv` is the conjunction of the four with
`NobodyOwnsBeforeJoining`: a user without a row has balance 0. It is needed
because `Join` assigns the seed instead of adding it, which preserves the sum
only if nothing was there. The argument: each transaction is `Balanced` (every
balance moves with the rows of its user, and the sum of balances with the rows
of `SINK`) by one lemma per transaction; `BalancedKeepsSums` turns that into the
two equations of the invariant; the guard of `Transfer` gives `NoOverdraft`.

`LedgerTxProofs` proves, for any number of users, sessions and transactions of any legs:
`UnsavedBalanceIsLedgerSum` is an invariant of `LedgerTx!Spec` and so is `LockedRowIsCurrent`, on
which it rests: what a session has copied of a row it holds is the committed balance and
its own legs. `LocksInv` adds that a row has one holder, is not deleted while it is held
(the delete waits for the lock), and that a session moves points between held rows only.
`SessionsAreSerial` proves the refinement: under two hypotheses `Spec => SerialSpec`, so that
all that is proved of `Ledger` holds of interleaved transactions (`SessionsKeepLedger`). The
first, `SaveTarget = {}`, says that nobody saves whole rows; section 5 shows what such a save
does (`BalanceIsLedgerSum`). The second, `ServicePrograms`, describes the transactions there
are: one transfer, or transfers from `SINK` only, as settlements, refunds and payouts make
them. `SerialInv` adds to the locks that a session never computes a negative balance
(`WorkCovered`) and that the legs of a mint add up (`MintsAddUp`).

`RewardProofs` proves, of payouts, for any number of users, rows and payouts in progress:
`PaidOnce` is an invariant of `PayoutSpec`, `AllOrNothing` holds, and payouts, gifts and corrections
keep the ledger. The invariant says of a payout in progress that it accounts for
every participant it has read (`ReadIsAccountedFor`) and that whom it has credited nobody else
has or will before it ends (`CreditedByOne`: the lock of the user's row, then the key). Of
attendance, for any members, claims, days, milestones and bonuses: `OnceADay` and `MilestoneOncePerRun`
are invariants of `Attendance!Spec`, and `StopsOnlyWhenPaid` (a stay is marked only when it was
paid) holds. What carries it is `NothingSinceTheCheck` (while a claim that has looked for today holds
the row, no row of that day appears), and `StreaksAreComplete` (a row that earned a bonus has
the days of its streak before it and a gap before them), whence two bonuses of one
length cannot lie in one run of days.

`BettingProofs` proves, for any number of members, matches, teams and markets, any
amounts and any rakes: `FoundIsStillSo`, `LateMarketIsEmpty` and `NoStrandedStake`
are invariants of `TxSpec`, and `BookCloses` holds. `TxInv` adds to the three what
they rest on: the types of matches, markets and stakes (`BookTypeOK`), that no two
transactions hold one lock (`LocksAreApart`), that markets a match's transaction
did not find have no stakes (`MissedIsEmpty`), and that stakes are `PLACED` only in
markets neither settled nor cancelled (`PlacedInUnresolved`). The argument goes by
the locks: what a transaction found may be changed only by one that holds
the same row, and what is not locked cannot matter, because a stake needs an
open match at its commit.

Then the money. `BooksReconcile` is that pools are sums of stakes (`PoolMatchesStakes`) and that what the
ledger took and gave for a market is what the stakes say (`StakesReconcile`); `BooksInv` adds that
stakes of unresolved markets wait (`BooksAlwaysReconcile`). Steps of `BettingTx` are first sorted into what they do to one
set of markets (`BooksMove`: open, lock, stake, settle, cancel), and each kind keeps the
sums by one lemma. `MintedWithinPool` is the arithmetic of a settlement: truncated
shares of the pool after the rake, one per winner in proportion to his stake, are
never negative when paid and add up to no more than the pool, whatever the rake.
`SettlementsAreSolvent` (`Solvency`) is the other half: for a rake of at most everything, less than a point
per winner is lost. A share, times the winning pool `w`, falls short of its exact value by less than
`w` (`ShareFalls`); `SumOfRoundedShares` of `PointSums` sums this over the winners by
`SubsetInduction` and divides by `w`. It needs that a settled market names a side (`ResultIsSide`).
From `MintedWithinPool` `MarketsAreBooks` shows
`TxSpec => BookSpec`: every market is the book it promises to be. `BettingKeepsLedger` shows that
all this keeps balances, rows and supply in agreement.

And the conversations and pages, for any number of them, any clicks on their way and
any request of others in between: `ToldTheResult` is an invariant of `PagesSpec`, and
`CommandsStakeOnSides`, `AsConfirmed` and `PagesChangeWhatTheyShow` hold. `FlowsInv` relates what a
conversation read to what has become of it: teams stay in their match (`TeamsStay`), what
was chosen is of the list that was offered (`ListFits`), where a command waits determines
what its screen asks (`StepFits`: a late click may lead back, never on), a page shows a status its
match has had (`SeenBefore`), and results come late and stay (`ResultsAreLate`,
`ToldAreResults`). One lemma per transaction of `Betting` shows that it moves matches on only to
the next status and leaves teams and results alone (`BetsGoOn`); one per step of a command or page
that it keeps what fits.

`ClansProofs` proves, for any number of users, clans, rows and requests in
progress: `ClansTypeOK` and `MembersAsked` are invariants of `Clans!Spec`, and
`DeletedStaysDeleted` holds. A save writes what its request read some time
ago, so `ClansInv` says of every request in progress that what it may still save
satisfies what is said of the rows there are (`SavesWelcome`, `AnswersKnown`, `AddsAnswered`). `OneMasterUnlessMishap` is
an invariant too. A transfer is two saves in one request, which are there together or not at
all; `SavesOrderly` says that the writes of a request are a master's own row, rows of others, or
such a pair, and `OneMaster` names the one row of a master: a save that finds the rows as they were
read moves that row or leaves it, and any other save is a mishap.

`MarketProofs` proves, for any number of members, clients, administrators, products, orders and
sheets: `BuyersEarnedIt` is an invariant of `MarketSpec`. `GateInv` follows what was earned from the
counters through the flag and the visit to the call that buys: each step of the way was
taken when at least the mildest requirements were met, and counts never fall.
`OrdersReconcile` is proved with one administrator (`OneAdministrator`), since an order is read to
be cancelled without a lock, and `LimitKept` with one client per member besides
(`OneClientPerMember`), since the orders that count are read without one: section 5 shows that
without these hypotheses each is violated. Members and products may be as many as they like and meet in
any order. `OrdersInv` says that a member who has joined has the seed less what the
standing orders cost, and holds as many vouchers of a kind as ordered; `LimitInv` that a purchase
under way still fits.

`AuctionProofs` proves, for any number of captains and players, any purses, bids and
turns, any handlers, messages and restarts: `PursesCover` and `UnderHammerIsFree` are
invariants of `AuctionTimers!Spec`, `SoldToHighestBidder` holds, and the gateway runs a
`Draft` (`DraftSpec`). All four are shown for `AuctionSpec` first; that the gateway
implements `AuctionSpec` (`GatewayImplementsAuction`) carries them over. The hypothesis
`OrderlyEnrolled` is that the auction was set up as it should be: a row per user, captains
with the starting points, nobody in a team or paid for. The instances satisfy it, and the proofs
about the set-up below discharge it. `AuctionInv` adds to the invariants that rows are never
added or given to somebody else (`RosterKept`), that only captains bid and own players
(`BiddersAreCaptains`, `TeamsMakeSense`: a free player has no price, one assigned by hand
costs nothing, so an undone sale refunds what was paid), and that nobody is under the
hammer while players are assigned by hand (`AssigningHasNoCurrent`), the one other way into
a team. A sale, an undone sale and an assignment each move one row of a player against one
of a captain (`SoldTo`, `Released`, `Given`); one lemma each shows that such a move keeps
the purses balanced (`MoveKeepsBudget`) and is a step of the draft (`MoveInDraft`).

The countdown: `OpenBiddingIsTimed` proves `OpenBiddingHasTimer` under the same hypothesis,
also for any handlers that overlap, any events from anybody, REST calls and restarts: open
bidding loses its countdown by a call that was refused, by a restart or by a selection through
REST (`dropped`), and by nothing else. That it does lose it so is shown in section 5. The
property speaks of moments without a handler at work, so `CountdownInv` says of the others
what accounts for the countdown: it runs, has just run out or is known to be lost (`Accounted`), or some
handler has yet to set it, to end the bidding or to be refused (`Busy`; one that is about to
resume a timer is none, since it may be refused without a trace). A countdown that runs out
ends the bidding because whoever is up is in no team (`OpenCanEnd`, from `UnderHammerIsFree`).

The set-up, for any number of users and rows, any points and teams: `OneRowPerUser` and
`SetUpIsOrderly`, which includes it, are invariants of `SerialSpec`, with `CaptainsHaveStart` (`SerialSetUpIsOrderly`), and of
`SetupSpec`, the page among other callers (`SetupEnrollsOnce`, `SetupEndsOrderly`). The lemma
`StartsOrderlyEnrolled` says that an auction which is pending, orderly and has no request in
progress is one that satisfies `OrderlyEnrolled`, so what calls handled one after the other leave is
what the bidding assumes; section 5 shows that calls which meet may leave something else. A
request is several statements, so `RosterInv` says of the one in progress that what it read is
still so when it writes (`StillSo`), that captains have the points of the auction or of the
settings about to be saved (`CaptainsDue`), and that nothing is left of an auction that is gone
(`GoneIsEmpty`). `ChosenAlwaysTakePart` (`PickedTakePart`) rests on `PickerInv`: while the picker waits,
each user who was chosen takes part or is still to be added by the request on its way (`AddsAll`).

The room, for any number of pages, handlers, disconnections and any length of an inbox:
`PagesFollowBroadcasts`, `ChangesAreTold` and the types are invariants of `RoomSpec`, and
`BidsOnThePlayerShown` holds. The first is not inductive, since it speaks of a page with
nothing on its way. `PagesWillFollow` says it of every page in the room: the last message it listens to, of
those on their way, carries what was told last, or there is none and the page shows it
already. For `ChangesAreTold` it is that a change not told yet has a handler that has still to read or
to tell (`ChangesWillBeTold`). `RoomImplementsAuction` shows that to the auction all this is one transaction
after the other, so that `RoomBidsSoundly` and `RoomRunsDraft` carry over what is proved of
the bidding. `WithoutCall`, a handler that changes nothing, is guarded in the model by `~ ENABLED` of
the call; the proofs use only that it leaves the auction alone.

Assumptions are those named with `ASSUME` in the modules: users, rows, markets, teams and orders are
finitely many, no user is `SINK` or null, amounts and bids are integers, the seed, rakes, prices, limits and
bounds are natural numbers, a null is no row, user, match or clan; who is enrolled is a user
(`InputAssumption`), and the programs beside the pages in `AuctionRoom` are the master's, who does
not bid (`DirectAssumption`).
TLC evaluates them in every run of a module that has them.

Model-checked only: properties of the configurations beside the runs (section 4), which are
`NobodySkipped`, `StakesFollowMarket` and `ResolvedOnce`. Out of the prover's reach: liveness under fairness
(`EveryTxEnds`, `BiddingEnds`, `LongStayIsPaid`, `ChatsEnd`) and formulas with `ENABLED`
(`CancelRefundsAll`).

## 8. Not modelled, and limits

Components:

- Login, tokens and guards (libraries), file uploads and the health check (I/O);
  migrations, except that the keys that exist or are missing decide what is an action.
- `/팀나누기`, which moves members between voice channels and keeps no state; commands,
  pages and queries that only show something; the activity feed of a clan; chat.
- The page of members, which asks for routes the backend does not have; the pages of
  orders, of the ledger and of all auctions; the CRUD of point rules, which nothing reads.

Limits of the models:

- `bigint` overflow of balances (2^63) and of JavaScript numbers in requests
  (2^53) are beyond any amount the community can hold.
- `LedgerTx` has no transaction that both mints and burns, since the services have none;
  what a settlement writes besides points is in `Betting`.
- `Betting` is one action per transaction; `BettingTx` takes apart those that can meet
  and writes at the commit. `createMarket` is two steps in both.
- In the auction modules, calls by others than the creator of the auction: they are
  refused and change nothing. `AuctionTimers` has those that stop the countdown first;
  `turnTimeLimit` as a setting that changes; inactive bids, which nothing
  reads. A row of an auction that is being deleted is not met by the statements of a
  locked transaction in progress. The second read of the room state that
  `handleSelectPlayer` waits for before it starts the countdown is one step with the read.
- `AuctionRoom`: one handler at a time in the run that is listed; dialogs of confirmation are
  answered at once; time is a step that may happen. A player selected twice and passed may be
  decided upon while another is on the screen of a page that has not heard yet.
- `AuctionSetup`: one request and one auction at a time; the answer is one step with the
  last write. The page of a completed auction is left out.
- `Payout`: one auction at a time; the reads of a payout before its first row are steps of
  their own, the insert of a row and the update of its balance are one.
- `Attendance`: no transaction spans two midnights; the listeners of one guild.
- `Clans`: the reads of one request are taken together; names and descriptions are left out.
- `BettingFlows`: stakes made on the web, and the route that settles one market
  (`betting/betting.service.ts:252`), are left to `Betting`: results are final whoever settles, and
  the instance would more than double; whether the caller is an
  administrator is not asked; one conversation or page at a time.
- `Shop`, `Market`: products, coupons and items are there from the start; the two reads of one `save` are one
  step, so an edit writes every column of its copy; the order in which coupons are
  handed out; two settings are read in one step; the flag of the gate and the menu are one step;
  fractions, which the DTO lets through and the service refuses; records of attendance
  come by upload only. The deadlock of a purchase, which locks product then
  buyer, with a cancellation, which locks buyer then product, is left to PostgreSQL, which ends one
  of the two.
- Upper- and lower-case spellings of a team's uuid are different sides for
  `placeStake` and the settlement alike; such a side is one of `Foreign`.
- The symmetry of the instances is used for invariants and for properties of steps that do
  not name a member, never for liveness.
