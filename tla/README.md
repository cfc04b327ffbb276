# Formal models of hopium-be

hopium-be is the NestJS back end of a Telegram mini app: players bet a token, *Hopium*, on the
next move of the BTC price. This directory holds TLA+ models of the parts of it that handle
money, the TLC configurations that check them on small instances, and TLAPS proofs of what
matters most for every instance. Paths below are relative to the repository's `src/`, whose
files are cited as `src/...` in `PROJECT.json` with one more leading `src/`.

## 1. The system

One node process talks to MongoDB, redis (keys, a cache and BullMQ queues), a wallet service
over gRPC (outside the repository) and Binance's price streams. Requests come from HTTP
(the mini app) and from four Telegram bots. Everything is asynchronous in one thread: code
between two `await`s is atomic, and anything may happen at an `await`. docker restarts the
process whenever it ends (`docker-compose.yml`), and an unhandled rejection ends it.

| Component | State | Operations | Correct when |
|---|---|---|---|
| Single-player game, `game/game.service.ts` | `turns` collection, `lock-user:` keys, timers in memory | `play`, `closeTurn` (timer, poll, boot), `initTimeouts` | a turn is paid once, with the result it records; it is closed in the end; a player's open margins stay locked |
| PvP challenge, `game/game-pvp.service.ts`, `telegram-pvp-bot/` | `pvp:` keys of redis, `PVP_ACCEPT_ROOM` queue | `createPvPRoom`, `acceptPvPRoom`, `handleCancelCron` | a challenge becomes one room or one refund; no stake is forgotten or freed early |
| PvP settlement, `playPvP`, `game/game-pvp.queue.ts` | `pvprooms` collection, `PVP_EVENT` queue | four wallet calls, update of the room, rollback | whole or undone; money leaves only as tax; every job ends |
| Match against the bot, `telegram-bot/`, `game/game-pvp.service.ts` | `pvprooms`, `HANDLE_PVP_RESULT` jobs | `createAndAcceptPvPWithBot`, `handlePvPResultWithBot` | the account is what the rooms say; the right room gets the result; it is announced, as it was settled |
| Wallet client, `wallets/wallets.service.ts` | accounts, in the external service | `changeBalance`, `changeLocked`, `rollbackWallet`, `increasePoint`, `tipHopium` | a call is applied once or refused |
| Price feed, `price/price.service.ts` | last price and its time, two sockets, reconnect timers | streams, hourly restart, `getLastPrice` | a price is recent; a stream has one socket and comes back when it has none |
| Users, `users/users.service.ts`, `telegram-bot/`, `auth/` | `users` collection, cached streak | streak, profile and `/start`, `addReferral`, `connectTonWallet` | one parent per player, who is the one rewarded; a wallet for each; one player per address |
| Referral bonus, `game/game.queue.ts` | `GAME` queue | `bonusUserHasReferral` | the parent's bonus before the player's, each once |
| Scoring, `wallets/calculation-score.service.ts` | table of known ids | `calculateScore` | a new wallet's balance fits the age of the account |
| Tasks, `tasks/tasks.service.ts` | `users_tasks`, cache locks | `claimTask` and its kinds | a task is paid once (a day) |
| Tips, `telegram-tip-bot/`, `telegram-bot/` | tip history | `tipHopium` and its callers | what players are told of a tip is so |
| Statistics bot, rank, TON proof, auth hash, socket | none of their own | queries, pure functions, forwarding | |

How they interact. `play` and `closeTurn` call the wallet, the price feed, the user service and
put jobs into the bonus queue. A PvP challenge is opened by HTTP or by the `/bless` command of
a bot, accepted by HTTP or by a button whose taps go through a queue, and settled by another
queue. All of them share a player's one account, where a margin is only a part of a total
`locked`: a margin released twice is taken from whatever else the player has at stake. The
socket gateway and the bots' messages only report.

What is hard here: two requests, timers, polls and cron sweeps between whose awaits anything
happens; wallet calls that fail halfway through a settlement, with a rollback that may fail as
well; a process that dies between two of them, losing its timers while its queues survive;
check-then-act on redis keys. `PROJECT.json` lists these hazards at their lines, each with the
properties that would notice, or why none does yet.

## 2. The modules

| Module | Models |
|---|---|
| `Wallet` | the accounts of the external wallet service and when it takes a call |
| `GameTurn` | the single-player game, from the play request to the payment, over crashes |
| `BetLedger` | what the game promises, with none of the machinery |
| `GameTurnProofs`, `GameMarginProofs` | its theorems |
| `PvPState` | the variables the PvP modules share, their types and first values |
| `PvPChallenge` | opening, accepting and cancelling challenges |
| `PvPSettlement` | the worker that settles rooms |
| `PvP` | both together with crashes, their fairness and properties |
| `RoomLedger` | what the players of a room are promised, with none of the machinery |
| `PvPProofs` | the theorems of `PvP` |
| `Sums` | lemmas on sums over finite sets of players, for the proofs |
| `Tasks` | clicking and claiming tasks |
| `TasksProofs` | its theorems |
| `BotState` | the accounts and failures that the bots' commands share |
| `BotMatch` | `/bless` against the bot, from the command to the announcement |
| `Tips` | tips in private chats and groups |
| `Bots` | both together with crashes, their fairness and properties |
| `BotsProofs` | its theorems |
| `Score` | the balance of a new wallet, and a reference for it |
| `Users` | registration, referrals and their rewards, bonuses, TON addresses |
| `UsersProofs` | its theorems |
| `PriceFeed` | the streams, the HTTP request, the age of prices |
| `PriceFeedProofs` | its theorems |
| `MCGameTurn`, `MCPvP`, `MCTasks`, `MCBots`, `MCUsers`, `MCPriceFeed` | values of the constants for TLC |

**GameTurn.** An action per await: `PlayCheck`, `PlayLock`, `PlayPrice`, `PlayCreate` are the
parts of `play` and `PlayAbort` its catch block; `Fire`, `Poll` and `Boot` start `closeTurn`,
whose parts are `Find`, `Price`, `Streak`, `Commit` (the `findOneAndUpdate`), `Unlock`, `Pay`,
then `Finish`, or `Undo` and `Cancel` when a wallet call was refused. `close[t][k]` holds the
local variables of the run of `closeTurn` on turn `t` by the timer or by poll `k`; what these
read may be stale when they use it. Time is `Tick`, which ages open turns, runs timers down and
lets user locks expire. `ProcessDies` forgets everything that is in memory; an exception that
leaves `closeTurn` under a timer has this effect, since nothing catches it. `lastPrice` is 0
from a start until the first answer of the feed (`feed`, `StartPrice`). `paid` is a history
variable: the wallet's own `GAME_RESULT` transactions per turn.

**PvP.** A request to open a challenge is `create[c]`, a request or tap to accept one is
`accept[a]`, and the room it makes has the same identity. `pvpKeys` are redis' keys, `stale`
those whose five minutes are over. Web acceptances run side by side; those of the chat are
served one at a time from `botQueue`. `cancel[c]` is the cron's run for a challenge. `jobs[a]`
is the BullMQ job of a room, `settle` the worker with its local variables. `moved` and `refunds`
are history: which wallet calls of a settlement stand, and the cancellations of a challenge.
A job is active until BullMQ has marked it, which comes after all that the handler does: `SettleEnds`
and, for the chat's acceptances, `ChatLeaves` are steps of their own. Between the room's update
(`SettleRecord`) and `SettleEnds` playPvP notifies the players (`Over`).
`Crash` is the crash and the restart in one step, as nothing happens in between; BullMQ gives a
job whose worker died to the next one, once (`stalled`), also if only its mark was missing: a room
that names its winner may be settled again, with four more calls and perhaps the other winner.
`SettlementsAtomic` maps this to `RoomLedger`, where a room that is due is settled in one step, or
dropped unpaid: a room's winner is the one its document names, and the accounts are the wallet's with
the payments of the settlement that is running counted out (`SettledAccounts`), as a rollback would
leave them. A settlement that fails may leave some of the payments (`Fail`); one that a crash cuts may
as well, and is due once more, even when it was over (`Cut`).

**Tasks.** `click[r]` is a click (`ClickFind`, `ClickCreate`), `claim[c]` a claim: `ClaimGet` and
`ClaimSet` read and set the cache's lock, `ClaimFind` reads the user's task, `ClaimCondition` is
what the rest of the system or Telegram says of the user, `ClaimRecheck` the second look that only
the wallet's tasks get, `ClaimMark`, `ClaimLog`, `ClaimPay` and `ClaimCredit` the four writes, and
`ClaimUnlock` the finally block. `LockExpires` is the end of the five minutes, which may come while
the claim is at work, and `NextDay` is midnight. `task`, the type and group of a task, is chosen by
`Init` and never changes. `overlapped` is history: the tasks of which a claim took the lock while
another was past it.

**Bots.** `bless[m]` is a `/bless` command in a private chat: it locks the margin, saves a room and
adds a delayed job. `worker` holds the local variables of `handlePvPResultWithBot`, run by the
queue's one worker: `WorkPrice` decides with the exact price and keeps the rounded one, `WorkCall`
makes the two wallet calls of a player who won, `WorkRecord` stores the result in `RoomOf`, the first
room with the same players and open price, `WorkTell` puts the announcement into the queue, and
`WorkEnds` is BullMQ's mark on the job, before which a crash runs it again: then it decides with
another price, pays, stores and tells once more. A player who loses is
neither charged nor freed. `told` (what was told last) is history, and so is `upset`, the matches whose wallet calls
stand although no room tells of them. `tip[t]` is a tip, private or in a group; `Tips` follows
`tipHopium` and what each caller says when it fails or declines. `Bots` runs both on the same
accounts with one crash; each command is one message, taken by the bot it was sent to.

**Users.** `profile[p]` is a `GET auth/profile`, `referral[r]` a `/start <parent>` or a
`POST users/add-referral`: both go on to `addReferral` (`ReferFind`, `ReferClaim`, `ReferLink`), the
first after it registered the user by two calls side by side (`pending`). `ReferClaim` is one of the
calls of `claimAddFriendTask`. `worker` is that of the bonus queue, which ends a job in a step of its
own (`BonusEnds`). `connect[k]` is a `POST ton/connect`. History: `overlapped`, `unlinked` and `raced` name the
users and requests for which the code's check-then-act was not alone, which are the exceptions of the
properties; `rewarded`, `bonuses` and `bonusTo` are what was paid. `Score` computes a new wallet's
balance from the table of known ids as the code does, `0 / 0` included.

**PriceFeed.** `stream[i]` is the socket `this.stream<i>` refers to; others that are open are `orphans`,
those that `startStreams` terminated and whose close event is still to come `terminated`. `timers[i]` are
pending reconnects. `startStreams` is run by the boot and by the cron, which sets `restarting`
(`StartFirst`, `StartSecond`, `StartEnds`, with a sleep of a second before the second and before the
third). A price is known by its kind
(a quote, or the 0 or NaN that is none) and its age, in `Tick`s; ages stop at the first that is too old
in any case, so that time has no bound. `request[c]` waits for an HTTP answer, which replaces the price
however late it comes. `crossed` (history) counts replacements that met a pending reconnect and thus left
a socket over; `unlucky` are streams that closed while `startStreams` ran, whose close event is ignored.

**Failures.** A call to redis, MongoDB, a queue or a wallet may fail without having had any
effect: `faults` counts these, bounded by `MaxFaults`. `crashes` is bounded by `MaxCrashes`.
Both are bounds of the models only, as is `MaxTroubles` for their sum in the PvP modules. A call that took effect but reports an error (a reply lost
by gRPC) is not modelled; there the code has no idempotency key and would pay twice or roll
back what it does not know of.

**Amounts.** The margin of a turn is 10 and the loss 7, which are the code's own. PvP stakes are
10 units, so that the 5 % tax of the pot is one.

## 3. The runs

| Run | Instance | Shows |
|---|---|---|
| `game_safety` | 1 player, 2 play requests (one per side), timer and 1 poll per turn, streak 9, 1 fault, 1 crash | `TypeOK`, `AtMostOnePayout`, `PaidAsRecorded`, `OpenTurnsBacked`, `WinnerIsPaid`, `PaidIsFinal`, and that the game implements `BetLedger` (`LedgerSpec`) |
| `game_liveness` | 1 turn, 2 prices, 1 poll, 2 faults, 1 crash | `EveryTurnCloses`, `EveryTurnPaid` |
| `game_one_turn` | 2 requests, no fault | violation of `OneOpenTurn` |
| `pvp_chat` | 1 chat challenge, 2 taps, 2 crashes or 1 fault and 1 crash | `OneRoomPerChat`, `JobsEnd`, `StakeNotForgotten` |
| `pvp_money` | 1 chat and 1 web challenge between 2 players, 1 fault or 1 crash | `TypeOK`, `RefundedOnce`, `SettledAsRecorded`, `TaxIsAllThatLeaves`, `StakesAreLocked`, and that the rooms implement `RoomLedger` (`SettlementsAtomic`) |
| `pvp_two_rooms` | 1 web challenge, 2 acceptors | violation of `OneRoomPerChallenge` |
| `pvp_cancel_race` | 1 chat challenge, 1 tap, the cron | violation of `CanceledMeansNobodyJoined` |
| `tasks_claims` | 1 task of any type and group, 2 clicks, 3 claims, 2 days, 1 fault, 1 crash | `TypeOK`, `PaidOncePerPeriod`, `PaidIsOnRecord` |
| `tasks_overlap` | 2 claims, no fault | violation of `ClaimedOnce` |
| `bot_money` | 1 player, 1 match per side, prices of 1.4 and 2 cents, 1 tip, 1 fault, 1 crash | `TypeOK`, `RoomSaysWhatWasTold`, `AnnouncedAsSettled`, `BooksBalance`, `TipAnswersAreTrue`, `QueuedIsTold` |
| `users` | 4 users; 1 profile, 1 start, 2 referrals and 1 bonus of a new one; 3 connect requests for 2 addresses; 1 fault, 1 crash | `TypeOK`, `PaidParentIsLinked`, `BonusesInStep`, `UsersHaveWallets`, `ScoreFitsAge`, `AddressOfOneUser`, `AddressIsKept` |
| `price_feed` | 1 caller beside the boot's request, window and delay of 1 tick, 1 extra socket, 1 crash, no bound on time | `TypeOK`, `OneSocketPerStream`, `SomebodyReconnects`, `QuoteIsRecent`, `StreamsComeBack` |

*Why the bounds are enough.* Two turns of one player are what the code can confuse: turns of
different players share nothing but the process. A streak of 9 wins once to the end of the rate
table and once around it. One price suffices for safety because the price 0 of a fresh process
gives the second: both results occur for both sides, and the payout depends on the price only
through the result. A timer may run in the very tick it is due, so its "still in progress" return
happens (`TooEarly`). Two faults are a wallet
call that fails and the failure of its rollback or cancellation; two crashes make a job's
second interruption, after which BullMQ gives it up; one, after the room's update, has a settled room
settled again. With `MaxTroubles` = 1, `pvp_money` has a rollback after a refused call (a refusal is
no fault) and the crash of any step, but not the crash of a settlement that also failed: that product is
left to `pvp_chat` and to the proofs, which have no such bound. Two challenges in opposite directions make
each player creator and acceptor, so a margin can be taken from the wrong one (with a single
challenge the wallet itself would refuse a second refund). A web challenge
needs a second acceptor only for the violation. `MaxOpen` is 1 in the runs and 3 in the code: the
limit is reached with one challenge. Nothing relates the tasks of two users or two tasks of one, so
one task suffices; a third claim comes after one that was paid and one that failed or was lost with
its lock, two clicks are what can race, and two days have one midnight for a claim to straddle.
`MCTasks` declares the clicks and the claims symmetric; its run has no liveness property.

In `bot_money` the two matches are one player's, as only these can share a room or a margin; the
open prices may be equal or not, and 1.4 cents round to 1, so that a price that stays may be announced
as a fall. The wallet holds two margins, or one and the tip. In `users` the three parents are one who is
registered, one who is not and the user himself; the table of known ids has a date that is out of order,
and the ids are one below it, the first of it, one between two and one above. Connect requests share
nothing with the rest: no action of either kind reads what the other writes, but for `registered`, which
holds the users who connect from the start. So `OneKind` (a CONSTRAINT) explores either
kind, not their product; only the counters of faults and crashes are common, and each kind has them to
itself. The connect requests are symmetric, and the run has no liveness property. In `price_feed` one
tick is enough to be too old, the boot's startStreams may overlap the hourly one, and `MaxCrossed` = 1
lets one socket be left over per stream and process; `TypeOK` has room for one more.

Deadlock is not checked but in `price_feed`: all requests of the other instances may be answered, and
then nothing is left to do.

**What the violations show.** Each is a disagreement between the code and its own words.
1. `OneOpenTurn`: `play` answers "User is already playing", but looks for the lock before and sets
   it after the wallet call; two requests side by side open two turns.
2. `OneRoomPerChallenge`: the second acceptor of a challenge is to be told "PvP room not found".
   Two that have both read the challenge each get a room, on the creator's one margin.
3. `CanceledMeansNobodyJoined`: the cron cancels "because no one joined", and refunds the creator of, a
   challenge somebody is accepting; the room is settled all the same.
4. `ClaimedOnce`: a second claim of a task is to be told "Task already claimed". `claimTask` reads
   its lock and sets it in two calls, and two claims that read it first are both paid.

The properties that do hold say how far this goes. In the game, with two open turns both margins are locked
(`OpenTurnsBacked`) and each turn is paid once; stakes stay locked as long as no challenge was
released twice (`ReleasedOnce` in `StakesAreLocked`), a premise the races 2 and 3 break; a task whose
claims did not overlap is paid once per period (`PaidOncePerPeriod`), and one that was paid never
looks unclaimed again, overlap or not (`PaidIsOnRecord`). What is left to overlaps are the race of
4, a claim that outlives its lock, and a lock deleted by a claim that did not set it last.

Each of the other properties names the exceptions the checks found, which are the known weak spots of
the code:
- `BooksBalance`, `QueuedIsTold`: a bot match's job that a crash interrupted after a wallet call is run
  again and makes it again, on the margin of another match or not at all.
- `RoomSaysWhatWasTold`: two matches of one player opened at one price, the first room gets both results;
  and a match that was told, run again by a crash and settled anew, whose second announcement failed.
- `EveryTurnCloses`, `EveryTurnPaid`: a turn whose timer ran in the very tick it was due (`RanEarly`). It was
  told "still in progress", and stays OPEN as long as the process lives and nobody polls it.
- `SettledAsRecorded`, `TaxIsAllThatLeaves`: a job that a crash interrupted, even after its last call;
  what such a job may do is in `RoomLedger`.
- `AnnouncedAsSettled`: a price that moved by less than the rounding to cents.
- `TipAnswersAreTrue`: a transfer the service declines is announced as a tip (`tipHopium` returns without
  an error); a private tip may be announced and then reported as failed.
- `PaidParentIsLinked`, `BonusesInStep`: two referrals side by side reward two parents, and a referral
  that fails after the reward leaves the user without a parent, free to be referred again.
- `UsersHaveWallets`: a registration that fails between the user and his wallet is never completed, since
  the user is found the next time.
- `ScoreFitsAge`: the account with the smallest known id has the date `0 / 0`.
- `AddressOfOneUser`, `AddressIsKept`: connect requests side by side.
- `OneSocketPerStream`: a restart beside a pending reconnect leaves a socket that nothing refers to; it
  reports prices until it closes, and reconnects then.
- `SomebodyReconnects`: a stream that closes while `startStreams` runs waits for the next full hour.
- `QuoteIsRecent`: an answer over HTTP replaces a newer price of the stream, so that a price may be older
  than five seconds by the duration of a request.

**Fairness.** `GameTurn!Fairness`: time passes, docker restarts the process, a due timer fires and
a run of `closeTurn` that began goes on (each of its steps is the completion of a call, which
succeeds or fails). Nobody has to play or to poll, so a turn's closing rests on the timer and the
boot alone. `PvP!Fairness`: time passes, the cron sweeps every ten seconds, the workers take their
jobs, and a request that began goes on; nobody has to open or accept anything. No fairness
makes timers late: node promises that a callback does not run before its time, while `isTurnExpired` asks for
strictly more than `turnDuration` since `openTime`, and a boot arms timers with exactly what is left.
The turn that this strands is an exception of the two liveness properties, and no assumption.
`Bots!Fairness` is that of the worker alone: it takes the jobs whose delay is over and goes on. Nobody
has to send a command, nor is one that is being served finished in the end. `PriceFeed!Fairness`:
timers run, terminated sockets close, and `startStreams` is begun every hour and goes on. The latter is
strong fairness because `MaxCrossed`, a bound of the model, may disable a step the code would
always take; the streams themselves need not send anything.

## 4. The theorems

`GameTurnProofs` proves, for all players, requests, sides, prices, durations and bounds that
satisfy the assumptions named in `GameTurn`:

| Theorem | States |
|---|---|
| `TypeCorrect` | `Spec => []TypeOK` |
| `NoDoublePayout` | `Spec => []AtMostOnePayout` |
| `PaymentsAreRecorded` | `Spec => []PaidAsRecorded` |
| `PaidTurnsAreFinal` | `Spec => PaidIsFinal` |
| `GameImplementsLedger` | `Spec => LedgerSpec`, the refinement of `BetLedger` |

`AtMostOnePayout` is not inductive: nothing in it keeps a second run of `closeTurn` from the
wallet. `PayoutInv` adds who may be there. At most one run of a turn is past `Commit`; while one
is, the turn is CLOSED with that run's result and streak, so `Claimable` refuses all others; and
`paid` is what the place of that run says (nothing before `Unlock`, the margin until `Pay`, nothing
again after `Undo`). A CANCELED turn has nothing paid, which is why it may be closed again. The
proof has one lemma per action that touches this and one for the crash, which empties `close`:
whatever was paid by then stays so on a CLOSED turn. Refinement follows from it: `Pay` is the only
action that moves a balance, on a turn whose `Stage` it takes from open to settled.

`GameMarginProofs` adds two theorems, from the same assumptions:

| Theorem | States |
|---|---|
| `OpenMarginsStayLocked` | `Spec => []OpenTurnsBacked` |
| `WinsPay` | `Spec => []WinnerIsPaid` |

Counting the OPEN turns is not inductive: a turn is closed before its margin is released, and the
request locks it before the turn is stored. `StakeInv` counts the turns *at stake* instead, those whose
margin has been locked and not released, whoever holds them: the request, the document while it is
OPEN or CANCELED, or the run of `closeTurn` between `Commit` and the end of its rollback. Each step
moves the margin of one turn at most (`PlayMovesMargin`, `CloseMovesMargin`), and the set follows the
locked amount (`OneTurnMoves`). That `Unlock` takes its turn out of the set needs `PayoutInv`: no other
run owns it. A crash only takes turns out, and leaves their margins locked.

`PvPProofs` proves of `PvP`, for any players, challenges, acceptances and prices, and however many calls fail or
processes crash:

| Theorem | States |
|---|---|
| `TypeCorrect` | `Spec => []TypeOK` |
| `ChatMakesOneRoom` | `Spec => []OneRoomPerChat` |
| `MarginRefundedOnce` | `Spec => []RefundedOnce` |
| `SettlementsAsRecorded` | `Spec => []SettledAsRecorded` |
| `SettlementIsAtomic` | `Spec => SettlementsAtomic`, the refinement of `RoomLedger` |
| `OnlyTaxLeaves` | `Spec => []TaxIsAllThatLeaves` |
| `MarginsStayLocked` | `Spec => []StakesAreLocked` |

Its invariant follows a challenge. The chat's queue has the one acceptance that is under way, or
answered and not yet marked, at its head (`OneServed`), and a key that is gone does not come back (`KeysOnce`): so no acceptance of a chat
challenge is past its reading of the key when the challenge has a room (`RoomsOnce`). A job is made once
(`JobsOnce`), and what stands of its wallet calls is what its worker has counted, plus at most one
run that a crash cut (`Ledger`); that is why the rollback leaves nothing of an uninterrupted one.
As a crash may have the job run again after the room has a winner, only an uninterrupted job finds the room
without one.
`StakesAreLocked` is far from inductive, as margins are locked before there is a key or a room and
freed before a room is recorded. `Locked` compares what is locked with the sets of challenges and
acceptances whose margin is held, from the moment of the lock to the call that frees it
(`Freed`), and each handler changes one of the two sets by the one member whose margin it moves, or
leaves money locked that nobody holds. The two margins of a room are told apart because nobody accepts his
own challenge, which `AcceptGet` checks.

`SettlementIsAtomic` takes each step to one of `RoomLedger`. A wallet call of the worker and its
undoing are stutters, since what they move is what `SettledAccounts` counts out; the update that
names the winner is `Settle`, where the count falls away with all four payments made, by `Ledger`;
a margin locked or freed beside it is `Margin`; and a rollback that fails, or a crash in the middle,
leaves between none and four of the payments (`Fail`, `Cut`). Which rooms are `due` is not what BullMQ has
marked: a room whose worker is past its last call is settled already, and a crash before the mark
makes it due again. `OnlyTaxLeaves` needs the sum over
all players of those same accounts. `SumFunction` of the community modules is a fold by `CHOOSE`
on a recursive function; `Sums` proves that the function exists by induction over the finite subsets
of its domain, as a set (the least counterexample by `FS_StrictSubsetOrderingWellFounded`), and from
it that the sum does not depend on the order (`AnyFirst`), follows a change of one value
(`SumFollows`), and is a product for a constant function. The prize and the loss of one settlement
then differ by the tax (`SettleTakesTax`), and every other step keeps the sum.
`UsersAssumption`, that there are finitely many players, is for this sum.

`TasksProofs` proves of `Tasks`, for any tasks, clicks, claims and days:

| Theorem | States |
|---|---|
| `TypeCorrect` | `Spec => []TypeOK` |
| `PaidOnce` | `Spec => []PaidOncePerPeriod` |
| `PaymentsOnRecord` | `Spec => []PaidIsOnRecord` |

The invariant `IInv` says of a task whose claims did not overlap that one claim at most is at work
(`OneAtWork`), so that what it found is still so when it marks the task (`StillClaimable`): a
one-time task is not COMPLETED, a daily one was last claimed before today. As every mark stays on
record with its day or a later one (`MarksOnRecord`), a new mark is of a new period (`MarkedOnce`).
Nothing of this mentions the lock: `overlapped` is all it has to prevent.

`BotsProofs` proves of `Bots`, for any players, matches, tips and prices:

| Theorem | States |
|---|---|
| `TypeCorrect` | `Spec => []TypeOK` |
| `SidesAreTold` | `Spec => []AnnouncedAsSettled` |
| `ResultsAreInTheirRooms` | `Spec => []RoomSaysWhatWasTold` |
| `TipsAreTold` | `Spec => []TipAnswersAreTrue` |
| `AccountsAreAsRecorded` | `Spec => []BooksBalance` |

A match has one job. One that has told waits or runs again only after a crash, or is about to be marked
(`MatchInv`): its next result is told in place of the first, or its job fails. Between its price and its end the worker holds the winner and the rounding of one price (`PriceRead`).
The rounding moves a price by five tenths at most, hence `AnnouncedAsSettled`. Of a match
that is alone `RoomOf` can only be its own room: the fitting indices have a least element (by
`WFMin`), and every one of them holds the match. What the worker is about to tell is then in
that room (`RoomIsWorkers`), and a later match stores its result elsewhere. From the record of a second
run to its announcement the room is ahead of what was told, which is what `MayBeUntold` excepts. For tips it suffices where
each is: nothing is told or moved before `record` (`TipInv`).

`BooksBalance` only speaks of players at rest, and is not inductive. `BooksInv` gives the account of a
player in the middle of anything (`Book`): he has locked the margins of the commands that are past
their lock, freed that of the match the worker has made a call for, and moved the tips that were
transferred, recorded or not. Besides, the worker's place says how many calls it has made (`WinnerPaid`),
and a match that has yet to be settled has not been won (`NotYetWon`). The sets counted change by one
member at a step, hence their finiteness; and a `Clean` player was clean before (`CleanShrinks`).

`UsersProofs` proves of `Users`, for any users, requests, plays and any table of ages:

| Theorem | States |
|---|---|
| `TypeCorrect` | `Spec => []TypeOK` |
| `RewardedIsLinked` | `Spec => []PaidParentIsLinked` |
| `BonusesToOneParent` | `Spec => []BonusesInStep` |
| `WalletsAreOpened` | `Spec => []UsersHaveWallets` |
| `ScoresFitAges` | `Spec => []ScoreFitsAge` |
| `AddressHasOneUser` | `Spec => []AddressOfOneUser` |
| `AddressStays` | `Spec => AddressIsKept` |

Each part of its invariant is one check-then-act pair: while nobody else is between both, what was
checked is still so. A referral past the check whose user is not in `overlapped` is alone there, and
the user has no parent (`Referred`); so nobody was rewarded for him before, unless the link was lost, and
the parent that is set is the first. As parents then stay, so do those the bonuses went to
(`PaidTo`). A connect request at work that is not in `raced` finds its address free and, from the
second check on, its user without one (`Connected`). `Paid` ties the number of bonuses to the worker's
place, `Opened` adds to `UsersHaveWallets` what a start that has only one of its two calls left may rely
on. That a wallet is opened with a number or NaN rests on `UpperIsKnown`: an id within the table has a
least upper neighbour. For `ScoreFitsAge` it also needs that no known id lies between an account's id and
the two that `getDate` interpolates (`nids` ascends), and that the interpolated date is between theirs
in whichever order they are (`DateBetween`), so that the score is between those of the two neighbours,
the random part and Premium aside.

`PriceFeedProofs` proves of `PriceFeed`, for any window, delay, callers and bounds:

| Theorem | States |
|---|---|
| `TypeCorrect` | `Spec => []TypeOK` |
| `NoOtherSocket` | `Spec => []OneSocketPerStream` |
| `ClosedIsReconnected` | `Spec => []SomebodyReconnects` |
| `PricesAreRecent` | `Spec => []QuoteIsRecent` |

Sockets and timers of a stream are counted against `crossed`, which is inductive with where orphans come
from (`OrphansAreCounted`) and with when a close event may miss the restart that caused it
(`CountIsBounded`). For ages, a price that is not too old to be handed out is older than the last
update by the duration of one request at most (`PriceInv`).

The assumptions are those on the constants, each evaluated by TLC in every run of the modules.

*Model-checked only.* With these, every invariant and every action property that a passing run checks,
and both refinements, are theorems. TLC alone checks the liveness properties, as the prover has no
`ENABLED`: `EveryTurnCloses`, `EveryTurnPaid`, `JobsEnd`, `StakeNotForgotten`, `QueuedIsTold` and
`StreamsComeBack`. The four properties of the violation runs are false.

## 5. What is not modelled, and why

- Read-only queries, rank, statistics and history; the socket gateway, which forwards events; messages,
  their wording and the rate limit of the bots, whose result the code does not use; the command line
  and the migrations.
- The boot's read of the open turns is not awaited (`game.service.ts:69`): requests are served before its
  answer, and a turn stored in between gets a second timer. The model has the read in the step of the
  start, and a run of `closeTurn` by the timer and by polls side by side.
- BullMQ's own bookkeeping is taken not to fail: a job whose handler returned is marked in the end, unless the
  process dies first. A notification of a settlement that fails is swallowed by the code and changes
  nothing; one whose chat message cannot be edited after an acceptance has the job fail with the room made.
- Replies lost after a call took effect (above), and two sweeps of the cron that overlap: a
  sweep is taken to end before the next, ten seconds later.
- A web request that names the key of a chat challenge; the app offers only web keys.
- The wallet service's own rules are those its replies and the calls show. Where they leave it
  open whether a loss may be taken out of locked money, it may or may not.
- Cache and collection of the win streak are one value; the cache is written with the collection.
- Four hazards of `PROJECT.json` have no property: the streak counted once for two wins side by side and
  the points that stay when a settlement is undone (the code promises neither), the limit of three web
  challenges under requests side by side, and a challenge accepted between the listing of the keys and
  their values.
- Verification of TON proofs and Telegram hashes: pure functions over cryptography.

Known consequences of the design that no property contradicts: a turn that is CANCELED, or CLOSED
by a process that died before the wallet calls, keeps its margin locked for ever; a challenge whose
key cannot be stored, or whose acceptance fails after the key is deleted, loses its stakes the same
way; a failed settlement is logged and not tried again; a settlement interrupted by a crash, be it
after its last call, repeats wallet calls that were made; a turn whose timer runs in the millisecond it is
due stays OPEN until it is polled or the process restarts.

## 6. Plan

Done: the game, PvP, tasks, the bots, users and the price feed, with a theorem for every safety property
that holds.

Left, in this order:

1. A ledger for the bots' matches, whose losers are not charged, and its refinement.
2. What the proofs do not yet say of the code's weak spots: bounds on what a second release of a margin
   can take, in place of the premise `ReleasedOnce`.
3. Capacity of web challenges, with ids that are prefixes of each other.
