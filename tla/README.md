# golagram: specification and proofs

TLA+ modules, model-checking runs and proofs for golagram, a Go framework for
Telegram bots. Everything is translated from the Go source; line numbers below
are those of the repository this directory stands beside. `PROJECT.json` maps
each definition to the lines it models and lists runs, hazards, findings and
theorems.

- [1 The system](#1-the-system)
- [2 The modules](#2-the-modules)
- [3 The runs](#3-the-runs)
- [4 The proofs](#4-the-proofs)
- [5 Where code and comments disagree](#5-where-code-and-comments-disagree)
- [6 What is not modelled](#6-what-is-not-modelled)
- [7 Plan](#7-plan)

## 1 The system

A bot is one process. Telegram delivers *updates* (messages, button clicks, ...)
either to `Run`, which polls `getUpdates`, or to the HTTP server of
`RunWebhook`. Both put updates on a bounded channel (`updateChan`) which a pool
of worker goroutines empties; a webhook request whose route asks for it is
dispatched by its own goroutine instead. Dispatching takes a lock for the
update's conversation (`keyedMutex`), walks the tree of routers for the first
registration whose filters match, runs the handler, and turns errors and panics
into calls of error handlers. Handlers keep conversation state in an
`FSMStorage` (in memory or Redis), usually through a `Wizard`, and call Telegram
through the API client, for many chats at once through `Broadcast`.

| Component | State | Operations | Correct if |
|---|---|---|---|
| Per-key lock (`keyed_mutex.go`) | map of reference-counted mutexes, guarded by `k.mu` | `Lock`, `Unlock` | one holder per key; nobody waits on a mutex that is no longer in the map; entries go away; a stuck handler of one key delays no other |
| Polling (`bot.go`) | offset, batch, `updateChan`, workers, status, counters | `Run`, `getUpdates`, `worker`, `dispatchCtx`, `StopWorkers`, hooks | no confirmed update is lost but by a crash; none dispatched twice by a process; shutdown hooks after the last handler; a canceled `Run` returns |
| Webhook (`webhook.go`) | open requests, `updateChan`, workers, server | `Handler`, `RunWebhook`, `Shutdown` | an update answered 200 is handled; none is dispatched twice unless its request was left unanswered; a channel is not sent on after its close; hooks after the last handler; `RunWebhook` returns |
| Router (`router.go`) | tree of routers, frozen flags, middleware and error handlers | `Include`, `Handle`, `Use`, `UseOuter`, `OnError`, `dispatch` | the tree is acyclic, and what is dispatched no longer changes; registrations are tried in order; the walk ahead of a webhook's request finds the registration that runs; an error reaches the innermost handler only |
| FSM storage (`fsm_memory.go`, `storage/redis`) | state and data per key, expiry | the `FSMStorage` interface | each operation is atomic, data is copied, only idle conversations expire |
| FSM keying (`fsm.go`, `ctx.go`, `sender.go`) | none: pure functions of update and options | `storageKey`, `FSM()`, `Sender` | the key locked is the key the handler works on |
| Wizard (`wizard.go`) | a state and a data map in the storage | `Enter`, steps, `Next`, `Back`, `GoTo`, `Exit`, `Cancel` | a step sees its own conversation; answers of an abandoned attempt never turn up in another; no step without the answers before it, unless they were left out |
| Broadcast (`broadcast.go`) | shared pacer, result, workers | `Broadcast`, `Wait`, `pauseFor` | the rate and every `RetryAfter` are kept; each chat is resolved once; it returns, with nothing in flight |
| Health (`health.go`) | status and counters | `Increment...`, `SetStatus` | the counters add up |
| Lifecycle (`bot.go`) | ran, stopped, channel, workers | `Run`, `StartWorkers`, `StopWorkers`, again and again | a stop is final; nothing is sent on the closed channel; a second stop waits for the first |
| Rate limiter (`middleware.go`) | a bucket per sender | `Allow`, the sweep, `Close` | a sender keeps to the rate although buckets are forgotten, but for one silent for longer than the idle time |
| Admin cache (`admin_cache.go`) | cached answers | `FilterIsAdmin`, the sweep | a verdict is never about a longer gone past than a ttl and a call |
| API client (`internal/api`) | none between calls | `Call`, `doRequest` | the waits between retries stay in budget and deadline |
| Texts (`format.go`, `entity_text.go`, `format_entities.go`) | none | `SplitTextWithEntities`, `EntitySegments`, `Node.Render` | chunks fit and lose nothing but spaces at seams; entities stay on their words |
| Rich messages (`richmessage_builder.go`, `richmessage_reader.go`) | counter of blocks | `RenderRichMessage`, `RichBlockPlainText` | tags nest; limits hold on every path; the plain text has the words |
| Buttons (`callback_data.go`, `pagination.go`, `keyboard.go`, `inline_keyboard.go`) | a keyboard under construction | `Pack`, `Unpack`, `Filter`, `Row`, `Add`, `Insert`, `Adjust` | no button is lost; a tap reaches its own handler |
| Translations (`i18n.go`) | templates per locale | `Translate`, `TranslateN`, locale of an update | a user reads the own language where it has the text, in the form the number asks for |
| Filters (`filters.go`, `commands.go`) | none | `ParseCommand`, `FilterCommand`, `FilterJoined`, ... | the bot that is mentioned answers; a list of members kept by filters is right |

What is hard here: goroutines that meet in the per-key lock, in the channel and
in the pacer; the order of offset, queue, drain and hooks when a process is
canceled or dies; requests that outlive the server's `Shutdown`; errors that
leave nested routers; Go maps shared between handlers and the in-memory store;
operations of several commands that fail half way; expiry. `PROJECT.json` lists
these hazards one by one, at their lines, with the properties that cover them.

## 2 The modules

```
KeyLock  <-- refined by --  KeyedMutex  <-- KeyedMutexProofs
   |  the dispatch lock, as an instance
   +-- Polling <-- PollingProofs     FSMStore <-- refined by -- MemoryStorage
   +-- Webhook <-- WebhookProofs              <-- refined by -- RedisStorage
   +-- Wizard --> Identity           TokenBucket <-- refined by -- Broadcast <-- BroadcastProofs
         ^-- WizardProofs            TokenBucket <-- ForgetfulBucket
Router <-- RouterProofs              ForgetfulBucket <-- refined, per sender, by -- RateLimiter
Lifecycle;  Freezing                 Client <-- AdminCache
Text, Translations, Filters, Callbacks, Keyboards <-- PureParts <-- PurePartsProofs
Text <-- Formatting;  PureParts, Formatting, RichMessage <-- MCAlgorithms

Parts:   MemoryStorage + RedisStorage + RateLimiter + Lifecycle + Freezing
Parts + AdminCache              <-- PartsProofs
Parts + AdminCache + PureParts + MCAlgorithms <-- MCParts
```

Each `MC...` module gives the constants of one of these for TLC. `Parts` puts the
state of five components side by side and states what each of them promises, for the
run and for the proofs; `MCParts` is the run of these, of the admin cache and of the
functions: of all that no other component of the models runs concurrently with.
Its behaviours are those of one part each, chosen in the initial state (`part`);
the variables of the others keep their initial values. A pure function is a part
whose initial states are its inputs and whose only step stutters. That is one
run where there would be six, and nothing is shared between the parts.

**KeyLock, KeyedMutex.** `KeyLock` is the lock the callers of `keyedMutex` may
count on: a thread requests a key, is granted it when no other thread holds it,
releases it. `KeyedMutex` has one action per access of shared memory: taking
`k.mu`, looking the key up or creating the entry, `refs++`, releasing `k.mu`,
locking the entry's mutex, and the same for `Unlock` with `refs--` and the
removal of the entry. Mutexes are cells of a small heap, so one can be
unreachable and still locked. The property `ImplementsKeyLock` is the
refinement; Polling, Webhook and Wizard then use `KeyLock` for the dispatch lock.

**Polling.** The poller's program counter `rpc` follows `Run` from start through
`skipPendingUpdates` and the loop (poll, queue, backoff) to the deferred
`StopWorkers` and the hooks; `wpc[w]` follows a worker from receive through the
lock to the handler's outcome and the counters. Telegram is the interval
`first..last` of updates not yet confirmed; a poll confirms what is below its
offset. Environment: new updates, cancellation, a crash at any point, a restart.
An update in `Undecodable` fails the poll it comes with. `handled`, `started`,
`lost` and `dropped` are history.

**Lifecycle.** The same pool seen from the outside: goroutines (`Starters`) call
`Run`, `StartWorkers` and `StopWorkers` again and again, and the program counter
of each stops at every access to `hasRun`, `stopOnce` and the channel. Polling
has one `Run` per process and all that happens in it; Lifecycle has many calls,
and of `Run` only its startup, its sends and its deferred stop. It does not have every
interleaving of the calls: the guards of `CallStopWorkers` and `CallRunOrStartWorkers` leave out
a stop by one goroutine while another's `Run` or `StartWorkers` is on its way, since
`StopWorkers` is for who has called `StartWorkers`, or for a bot that never starts. Nothing in
the code prevents such a stop (section 5, item 11, says what it does).

**Webhook.** A request goroutine decodes, evaluates the routes
(`matchingAllowsWebhookReply`), and either dispatches the update itself or sends
it on the channel unless the client hangs up; the run goroutine calls
`Shutdown`, which may time out, closes the channel, waits for the workers and
runs the hooks. Two panics of the application reach net/http, which then sends no answer:
a filter's while the routes are evaluated (`MatchPanics`), and `TelegramBot.OnError`'s
after the handler of a synchronous dispatch (`DispatchPanics`), since `handleError` is
called outside `safeDispatch`'s recover. After the second Telegram delivers an
update again that has been dispatched, as after a hang-up: `unanswered` is the history of both, and
`OnceUnlessUnanswered` says there is no third way. Which way a route goes may depend on the conversation state,
`replying[k]`, that handlers change.

**Router.** First any sequence of `Include`, registrations, `OnError` and
`UseOuter` wires a tree. Then the request of a webhook may walk it (`Look`:
`firstMatchingRoute`, with its own stack `ahead` and its own answers of the filters,
`foreseen`), and one update is dispatched, which evaluates the filters again (`matches`):
what they say may have changed in between. The walk of the dispatch is a stack of
frames [router, position], as deep as the Go call stack; `mode` says what
happens next (outer middleware, next route, in a handler, leaving with a result, the bot's
own error handling). Filters match or not by choice, handlers return nil, an
error, `ErrSkipHandler`, a `Reply`, or panic. `raised` and `caught` record where
an error came from and who got it, `tried` the places of the tree where a registration
was tried. A place is the stack of frames that leads to it; `Before` compares two of them
where their ways part, which says what the order of registrations is without
walking the tree as either walk does. `SyncDecisionRight` relates the two walks: where the
filters said the same to both, the registration that runs is the one that was found ahead.

**Freezing.** Routers are frozen one by one, by each goroutine that starts the bot or
dispatches an update, while another goroutine still registers. Every access is a step of its own:
a registration's check of the flag and its append, freeze's compare-and-swap, its reading of
the list, and each route it goes on to, and the same of dispatch, which freezes a
router before it reads it. So goroutines overtake each other half way round the
tree. A call that has passed its check when the flag is set still appends (`late`):
what such a router does is not promised, and its list, which is then written while it
may be read, is seen before or after. `FrozenForGood` is what is left: what a dispatch
reads does not change under it, every router dispatched is frozen, and once
nobody is freezing, so is everything below a frozen router.

**FSMStore, MemoryStorage, RedisStorage.** `FSMStore` states what the interface
promises; `last` holds the last call and its answer, so that an implementation
has to get answers right too. `MemoryStorage` represents data maps as objects of
a heap because sharing is what can go wrong: handlers keep changing the maps
they passed in or got back. `RedisStorage` has two keys with separate
expiry, one action per Redis command, and the dispatch lock around handlers.

**Identity, Wizard.** `Identity` holds the pure functions from an update's
identities to storage keys: what is locked and what `Ctx.FSM` uses (`ctxKey`),
and what `Message.FSM` uses (`entityKey`). `Wizard` runs workers over the locks
and the storage: match (cancel route, then the step's), the handler's answer and
move, `Exit`, `Cancel`, and `Enter` as the two storage calls it is. Any storage
call or handler may fail (`Fail`), and so may the reading of a state in a filter
(`FallThrough`). A step whose answer could not be stored returns the error, or discards it and
goes on, as the example in `Wizard`'s comment does (`AnswerDiscarded`), and `GoTo` jumps to any
step. `missed` is the history of the answers that were left out in these two ways;
`EarlierAnswersKept` asks for all the others.

**TokenBucket, Broadcast.** `TokenBucket` is the textbook bucket: one part of a
token per unit of time, `Cost` parts per event. `Broadcast` has the feeder with
its select, the workers (`Feed`, `Reserve`, `SendReturns`, `Flood`, `GiveUp`,
`Leave`) and the pacer, which is refilled only when asked, by the time elapsed.
Time is kept as remaining durations, so no clock bound is needed.

**ForgetfulBucket, RateLimiter.** A bucket per sender with its level and its idle time,
refilled lazily by `Allow`; the sweep forgets buckets idle for longer than `IdleTTL`, `Close` ends
it. `NewRateLimiter` takes any idle time, and so does the model, the run with one in
which a bucket is not refilled. A forgotten bucket starts full again, so what
a sender gets is not a TokenBucket but a `ForgetfulBucket`, which may become full at once, and
only when its sender has been silent for longer than the idle time. `KeepsRate` is the refinement, for
each sender; `silent`, the time since the last call, is history and no
variable of the code.

**Client, AdminCache.** `Client` is `Call`: a deadline, the larger of 30 s and
the retry budget, attempts, flood errors and the waits between. `AdminCache`
composes it with `FilterIsAdmin`: several updates look up, ask and store at the
same time while members are promoted and demoted, calls fail, and answers arrive
in another order than they were given. `since` is history: how long ago a member
was last an administrator, and last was not.

**Text, Formatting.** A text is a sequence of UTF-16 units (letters, spaces, line
breaks, halves of surrogate pairs). `Text` has `SplitTextWithEntities` (its loops as
recursive functions of the position) and `EntitySegments`, `Formatting` the tree of nodes that renders to text and
entities. `SplitsWell`, `SegmentsWell` and `Survives` say what they are for,
without following their loops: concatenating the chunks gives the text but for spaces at
seams, every unit keeps its formats, words are cut only if they are longer than a chunk,
and entities only in the case of item 16 in section 5.

**RichMessage.** The five mutually recursive render functions with their counter
of blocks and depth, and the plain text of the same blocks. `RendersWell`
parses the tags back.

**Callbacks, Keyboards.** Packing and unpacking of callback data with its
separators, prefixes and narrow integers (booleans are read as `Pack` writes them),
filters, pagination rows; the builders of keyboards over any sequence of calls.

**Translations, Filters.** A text is named by locale and form, so that one can
tell which was found. `SpeaksRight` says whose language a user reads, `CountsRight`
gives the plural rule once more, by the teens and the last digit. `Filters`
parses commands written by `CommandsRight` and follows members over
histories of statuses (`FollowsMembers`).

**PureParts, MCAlgorithms.** An input of a function is the state: PureParts says which
inputs there are (`Given`: texts of any length with entities as Telegram sends them,
any translations, commands, histories, schemas with their values, pages and calls of a
keyboard's builder) and what is promised of them, for the proofs;
MCAlgorithms has bounded inputs for TLC, of which it takes those that are `Given`, and the
trees and rich messages that only it knows.

Operators named as mistakes (`...Forgotten`, `...TooFar`, `ReturnAtOnce`, ...)
stand before the action they distort. They are no part of any specification;
`PROJECT.json` pairs each with the property it breaks, which shows that the
property depends on that piece of code.

## 3 The runs

| Run | Shows | Bounds and why they are enough |
|---|---|---|
| keyed_mutex | Mutual exclusion, `Unlock` finds its own mutex, no entry stays behind, refinement of KeyLock, every `Lock` returns although one key's handler never ends | 3 threads on 2 keys: one leaves, one waits, one arrives anew, which is what deleting and recreating an entry takes; 3 heap cells are all that can be alive |
| polling | Nothing confirmed is lost, nothing is dispatched twice, hooks after the drain, counters, `Run` polls until canceled; a canceled `Run` returns, every update is handled unless the bot stays down | 3 updates of 2 users in batches of at most 2, a channel of 1 (so that queueing blocks), 2 workers, 2 processes in a row |
| polling_undecodable (violation) | An update that cannot be decoded stops the bot silently | as above, one process |
| webhook | Acknowledged updates are safe, no send on a closed channel, one dispatch unless a client hung up or `TelegramBot.OnError` panicked, hooks after handlers, `RunWebhook` returns | 2 requests of one user, 1 worker, channel of 1; `Shutdown` may time out, `Serve` may fail, filters and `OnError` may panic |
| webhook_filters (violation) | Filters run outside the dispatch lock | as above, without faults |
| redis_storage_ttl (violation) | State and data expire separately in a conversation in use | TTL of 3 ticks |
| router | Acyclic trees, order of registrations, webhook reply decision, where errors go | 3 routers, 2 registrations, 4 routes in all: cycles through three routers, shared sub-routers, an outer middleware on one router, error handlers on two, so that an error can pass one, and one without |
| router_reply (violation) | `Reply` is swallowed by `OnError` | 3 routes |
| wizard | No two handlers on one conversation, steps match states, no stale answers, none missing that was stored | 2 workers; senders who share a conversation under strategy `Chat` and not under `ChatUser`, with and without sender identity; 3 steps, so that a jump can pass one; 2 attempts |
| wizard_entity (violation) | With sender identity, `Message.FSM` leaves the lock | anonymous admins of 2 groups |
| broadcast | Rate, pauses, result, return | 3 chats, 2 workers, 1.5 tokens of burst so that the bucket runs dry, pauses shorter and longer than a refill |

The parts run, part by part:

| Part | Shows | Bounds |
|---|---|---|
| memory | MemoryStorage implements FSMStore (`MemoryKeepsPromise`) | 2 conversations of 2 fields, a handler that keeps and changes a map, a value that cannot be marshaled, TTL of 1 tick |
| redis | But for expiry, so does RedisStorage (`RedisKeepsPromise`) | 3 handlers, two of them with the same key, crashes, failing commands, TTL of 2 ticks |
| cache | Verdicts are recent (`VerdictsAreRecent`), waits fit budget and deadline (`RetriesFit`) | 2 updates ask about 1 member; ttl 2, deadline and budget 3, waits of 1 and 2: two retries fit, a third does not |
| limiter | Each sender keeps the rate while it is remembered (`KeepsRate`) | 2 senders, burst of two tokens, which takes 4 ticks to refill, of which a sender is forgotten after more than 2 |
| lifecycle | A stop is final (`StopIsFinal`) | 2 goroutines, 2 workers, a channel of 1 |
| freezing | What is dispatched no longer changes (`FrozenForGood`) | 3 routers, 2 goroutines that freeze and dispatch and one that registers, 2 routes in all: a chain of three routers, one of them frozen while the next is on its way |
| function | Texts, rich messages, buttons, translations, filters (`TextSurvives`, `RendersRight`, `ButtonsWork`, `TextsFitTheUser`, `FiltersRight`) | texts of up to 4 units in chunks of 1 to 3 with up to 2 entities, trees of height 3; rich messages of at most 3 blocks, 1 level of nesting and 1 column, and those just beyond, 9 tags or words; callback data of at most 7 characters, integers of 5 bits (`MaxInt = 15`), prefixes over two letters, pages to 11; 4 calls of a keyboard builder; numbers from -225 to 225, all templates of 2 languages and a region; commands with up to 3 words of arguments; 4 statuses in a row |

The limits of the functions (4096 units, 500 blocks, 64 bytes, ...) are constants, and small
ones make every case happen that depends on reaching them: a chunk that ends inside
a pair inside an entity takes 3 units, a limit that is exceeded below a list takes
3 blocks.

Type invariants are not listed among the runs' properties: they are proved, as
parts of the inductive invariants of section 4.

Deadlock is checked where the system cannot stop (keyed_mutex, parts: its
storages, its limiter, its cache and its functions' stuttering).
The other systems end: a bot returns, a broadcast returns, an update has been
dispatched, a wizard runs out of attempts.

**Fairness.** Weak fairness of a goroutine's own steps is Go's scheduler.
Handlers, and the sends of a broadcast, are assumed to return (every API call has
a deadline; keyed_mutex is checked with handlers that do not). Strong fairness is
used where Go picks among ready goroutines again and again: a mutex that is
released infinitely often is not withheld from one waiter for ever (Go's mutexes
hand over after 1 ms of starvation), and a `select` that finds `ctx.Done()` ready
over and over takes it. Polling also assumes that a `getUpdates` call that is
retried for ever succeeds now and then, and `EveryUpdateHandled` that every update
can be decoded (`Undecodable = {}`; polling_undecodable is what happens else). Nothing makes updates, cancellation,
crashes or restarts happen.

## 4 The proofs

All are checked by TLAPS (SMT, Zenon, PTL) and hold for every value of the
constants that satisfies the named assumptions.

**KeyedMutexProofs** (assumption `KeyedMutexAssumption`: finitely many threads;
None is no thread, key or mutex). Mutual exclusion is not inductive: it has to be known
that the entry a thread is about to lock or release is still the one in the map.
`IndInv` says that `refs` is the number of threads between their `refs++` and
`refs--` on that entry (`RefsInv`, a cardinality), that an entry with references
is in the map under its key (`EntryInv`, `DistinctInv`, `AliveInv`), and that owners agree
with program counters. Then no thread can find, create or delete an entry while another
still needs it, which is `Exclusive`, `OwnMutexFound` and `NoEntryLeft`.
`Refinement` maps each step to a step of KeyLock or a stutter.

**RouterProofs** (finitely many routers, any registrations, any number of routes; a
router is no registration).
`NoCycle`: the edge that `Include` adds closes a cycle only if the target reaches
the source, and `Reaches` is the least set closed under edges, so the set of
routers that do not reach the new edge is a witness against a cycle
(`EdgeKeepsAcyclic`); no induction over paths is needed. `InnermostHandler`: an invariant of the stack says that an
error on its way out (`Bubbling`) has passed no router with an `OnError`, that
one that was caught (`Caught`) was caught by the innermost, and that a panic
(`Recovered`) has skipped them all.

`RegistrationIsPriority` is about the whole walk, so it needs to know
where the walk is: the stack is a way through the tree (`OnTheWay`), the places
tried so far are in order with none left out (`TriedInv`), and they are exactly the places
before the stack (`Frontier`), until something settles the update and the
last of them is where it was settled (`SearchInv`). The step that needs all of it is the
return from an included router: nothing lies between the last place below it and the
next route of its parent. The property speaks of `Ends`, places no deeper than there are routers with
routes; `NoEndLeftOut` is that an acyclic tree has no others, since a way
meets no router twice (`NoRouterTwice`, and the pigeonhole principle).

`FirstMatchRuns` compares two walks that share no code. `AheadInOrder` is the invariant of
`firstMatchingRoute`: it is on a way through the tree, no registration before its place matches, and
where it ends is the first that does, or there is none. `InOrder` says the same of the
dispatch, so with equal answers of the filters both have ended at a registration with no match before it;
of two such, neither is before the other, and places that are not ordered are the same
(`OneIsFirst`: the ways would part somewhere, and the least such position, `LeastNumber`, orders them).

**PollingProofs** (assumptions: finitely many workers and at least one, as `WithWorkers`
refuses 0, `bot.go:88-93`; positive buffer and batch). The theorems are of
`SafeSpec`, `Spec` without its fairness. `NothingLost` is not inductive: what
a failed or repeated poll returns depends on the offset. `IndInv` adds that the batch
being queued goes on where the frontier is (`OffsetInv`), that what is below
the frontier, which Telegram has forgotten or will forget with the next poll, is handled,
in the channel, in a worker's hand, was dropped on request or lost in a crash
(`Covered`), that the channel is in order
and disjoint from all that has been started (`ChanInv`), from which
`AtMostOnce` follows, and that workers leave only when the closed channel is empty
(`DrainInv`), which gives `HooksLast`. `CountersRight` relates the counters to the number of
running workers, a cardinality, and is inductive with the types.

**WebhookProofs** (at least one worker; requests are no workers). An update that a
client hung up on, or whose dispatch panicked out of its request (`unanswered`), may come again while it is still in hand, so nothing about it can be
kept; of every other, `OnceInv` says it is in one place: with one goroutine, or once
in the channel, and not dispatched before it gets to a handler. `AnswerInv` says
that a request answers only for a handled update, `DrainInv` in which order server, requests,
channel and workers end, with the exception of an `overtime` Shutdown that section 5 (9)
explains. `NothingLost`, `Once` (an action property: no step dispatches a second time what has not been left
unanswered) and `Quiet` follow.

**WizardProofs** (assumption `OneIdentity`: `Message.FSM` and `Ctx.FSM` name the same
conversation, wherever handlers use both. Lemma `OneIdentityHolds` shows it of
applications that keep to the Ctx and of bots without `WithSenderIdentity`;
wizard_entity shows what happens without it). `NeverRaces` is the lock plus the
equality of the key locked and the key worked on. `StepStaysCurrent` and the two about
answers need what a handler has done by its next step (`HandlerInv`) and what
the store holds after each single storage call (`Sound`): data without a state
does not exist, every answer is of the current attempt, and no step before the current one
lacks its answer unless it was left out (`missed`). That survives failed calls because `Enter` clears the store before
it sets the first state, and a step answers, or is entered in `missed`, before it moves on; a
jump enters the steps it passes.

**PartsProofs**, six components:

- Lifecycle (at least one worker). `StopsForGood`: while the flag `ran` is unset nobody is past
  it (`UnmarkedInv`), one caller at a time starts, and nobody stops meanwhile
  (`StartingInv`), and `stopOnce` runs once, with the channel closed by it
  and the workers gone when it is done (`OnceInv`, `WorkerInv`).
- RateLimiter (any positive idle time). `RateKept`: a stored bucket's level
  is `min(Burst, tokens + age)`, and its age is the time since its sender's last call
  (`BucketsInv`), so when the sweep forgets it the sender has been silent for longer
  than `IdleTTL` and the step is ForgetfulBucket's `Forget`.
- Freezing (the root is a router, no registration is one). `Frozen`: of each call on a stack, the
  list it has read is the router's, unless the router is `late` (`FrameOK`, `StackOK`), because
  whoever registers on a frozen router has been noticed (`NoticedInv`). That a
  subtree is frozen is not inductive, as a goroutine that finds a flag set goes on
  at once; `Followed` says that for every route of a frozen router that is not frozen yet, some call of
  `freeze` that is still on a stack will come to it. Once no call of `freeze` is left, nothing is.
- MemoryStorage (names that are used as "nothing" are no values). `PromiseKept`, refinement of FSMStore. A map
  is a cell, and the refinement holds because a stored cell is referred to by one entry and by
  no handler (`NotShared` in `StoreInv`) and because the age of an entry is
  the time since its conversation's last use (`ClockIsLastUse`): without the latter the
  sweep could not be mapped to FSMStore's expiry, which speaks of last uses.
- RedisStorage (`OwnOnly`: a handler works on the conversation it has the lock for). `RedisPromiseKept`
  needs `Excluded`, no two handlers with one key at a time, and `Merged`, what
  `UpdateData` has merged is still the merge of what is stored when it
  writes. Expiry is excepted by the property, as redis_storage_ttl shows it must be.
- AdminCache with Client (durations are naturals). `RetriesInBudget`: a call's
  elapsed time and what its deadline leaves add up to the timeout (`ClocksAgree`). `Recent`: an
  answer in hand is no older than its call (`AnswersAreRecent`), and an entry's age and what
  it has left to live are at most the horizon together (`EntriesAreRecent`). That is
  stable although lookups overlap and answers overtake each other, because each
  is stored with the time of its own return.

**PurePartsProofs** (inputs as `Given` has them; `EmptyAssumption`: the empty locale is no
other; `MaxIntAssumption`: an integer field's greatest value is a natural). The provers cannot instantiate an induction theorem with an operator, so each
induction here is by a counterexample: a set of numbers that is not empty has a
least one (`LeastNumber`, from the library's well-founded induction, which takes a set), and a
set below a bound a greatest one. That a recursive function is defined at all - TLA+ only
chooses one that satisfies the equation if there is one - is shown in the same way
(`DownwardExists`, `UpwardExists`, `RecursionExists`, `IterationExists`), and that two
iterations by the same equations agree by `IterationOnly`, which is how a loop over
`Append(s, x)` is related to the loop over `s`.

- `TextSound`, segments (`Segmenting`): the boundaries are in the text and at characters, an
  entity's own ends are among them if they are (`Boundaries`), and the ranges between
  neighbouring boundaries partition the text (`SegmentsMeet`).
- `TextSound`, chunks (`Splitting`): going back from a point leads from a character to a
  character after the chunk's start and stops where no entity that could be avoided is cut
  (`GoingBack`). So the loop ends, the "defensive" return of `splitPoint`
  (`format.go:176`) is never taken, and `SplitPoint` says where a chunk ends. If the
  chunks from the next start on are well split (`WellSplit`), so are those from this one (`OneMore`).
- `TextsSound`: `Counting` is arithmetic of remainders; `Lookup` and `LookupN` unfold the two
  chains of fallbacks, and `Speaking` goes through what may be missing in them.
- `FiltersSound`: `Cut` and `Uncut` say what strings.Cut gives of a text that was put
  together, `Parsing` and `Commanding` what follows for commands; `Following` compares who
  is on the list with who is a member, status by status.
- `ButtonsSound`, keyboards (`Keeping`): `Holds(kb, m)` is what is true of a builder that has
  been given the buttons 1..m: it has each of them once, in rows that are not empty and
  ascend. Each call takes it from m to m + n (`RowStep`, `AddStep`, `InsertStep`), and the
  whole keyboard ascends unless an `Add` came after an `Insert`, which it overtakes
  (`Building`). Each turn of `adjustRows`' loop takes at least one button, so its loop ends
  with none left (`TurnStep`, `Adjusting`).
- `ButtonsSound`, numbers (`Parsed`): what `FormatInt` writes is a numeral that is read as the
  number, by `Formatting` for its digits; an integer that fits its field is kept by
  `SetInt` (`Kept`).
- `ButtonsSound`, schemas (`Packing`): a character more goes to the last part or begins a
  new one (`SplitAppend`), so `Split` takes apart what `Join` put together of parts without
  separators (`Rejoined`). Data belongs (`Owned`) to at most one prefix without separators, since
  the first separator ends it (`OneOwner`).
- `ButtonsSound`, paginations (`Paging`): the last separator of a tap that leads to a page ends
  `:pg:`, so it is of one pagination even if prefixes have separators (`OnePager`); and a row
  is put together of pieces that lead to different pages (`TwoPieces`, `RowReaches`).

**BroadcastProofs** (assumption: numbers are naturals, `Burst` and `Cost`
positive). `Paced`: the pacer implements TokenBucket under the mapping
`level = min(Burst, tokens + elapsed)`; a failed reservation changes `tokens` and
`elapsed` but not that sum. `PausesHonored` follows from `owed[w] <= paused`.
`ResolvedByOne` and `FinalResult` need the bookkeeping of `IndInv`: workers have
different chats, a chat handed out is in the result or with a worker, chats that were begun
(`Begun`) have been handed out and others are not in the result, after
an undisturbed feed all chats have been handed out, and only a canceled broadcast gives up on
one (`Uncanceled`).

What the attempts taught: `RetriesFit` is not true of a wait that is over, since its
goroutine may be scheduled when the budget has passed, and is about waits that last now;
Lifecycle's `StopIsFinal` needs a worker, because without one nobody empties the
channel; the order of registrations was defined by recursion over
the tree, which no prover could use, and is now the order of places; that everything
below a frozen router is frozen is false while somebody is freezing, and needs to be said of
what is still to come.

**Only model-checked**: liveness (`EveryLockReturns`, `CancelEndsRun`, `EveryUpdateHandled`,
`ShutdownEnds`, `Returns`: fairness and ENABLED are outside these provers' reach), and the
functions on trees (`RendersRight`). Their modules have RECURSIVE operators, as the code has
functions that call each other over trees, and what such a recursion computes for every
tree is an induction over data. They are compared with definitions that do not follow
their loops, over all inputs up to the bounds above.

## 5 Where code and comments disagree

Shown by runs that are expected to find a violation:

1. `Reply` below an `OnError`: `handleOrBubble` (`router.go:160`) treats the reply
   as a failure, and the call is never made (router_reply).
2. `Message.FSM` and `CallbackQuery.FSM` (`message.go:302`) ignore
   `WithSenderIdentity`; handlers that use them work outside the dispatch lock
   (wizard_entity).
3. `Storage` renews the expiry of one of a conversation's two Redis keys
   (`storage/redis/storage.go:81`), so an active conversation can lose half
   (redis_storage_ttl).
4. `Handler` evaluates filters before the dispatch lock (`webhook.go:135`), which
   `Filter`'s comment excludes (webhook_filters).

5. An update that cannot be decoded fails the whole poll (`bot.go:648`), so `Run`
   asks for it again for ever, and neither it nor any later update is handled;
   `src/internal/gen/unions.go:299` wants such a bot to "fail loudly in the error
   handler", and no error handler is called (polling_undecodable).

Met while modelling, without a run of their own. Of the runtime:

6. `Broadcast` with a rate between 0 and 1 never gets a whole token
   (`broadcast.go:196`); TLC finds `Returns` violated with `Burst = 1, Cost = 2`.
7. A canceled `Broadcast` records chats that were waiting for their first token
   as failed (`broadcast.go:130-133`), where the comment (`broadcast.go:81-83`) has chats that had not
   started sending simply absent. `ResultIsFinal` takes neither side: it asks that every chat
   that was begun is in the result, that those not handed out are absent, and says nothing
   of these. `Errors` contains blocked chats (`broadcast.go:29`).
8. `Run` returns when `skipPendingUpdates` fails (`bot.go:551`), although the
   comment (`bot.go:520-523`) has it run until canceled.
9. After a `Shutdown` that timed out, hooks can run before synchronous handlers
   have ended (`webhook.go:271`); `QuietAfterShutdown` excepts this case by `overtime`, so
   the hazard that Shutdown gives up is covered by `AckedIsSafe` only.
10. `RunWebhook` leaves the status "starting" if its certificate cannot be opened
    (`webhook.go:215-219`), unlike its other failures.
11. `StopWorkers` called while another goroutine's `Run` or `StartWorkers` starts or
    polls closes the channel before a send, or waits for workers not yet born;
    called by a handler it waits for itself (`bot.go:475-482`). Two updates of one
    conversation may be handled in the other order than they came in: workers
    receive them in order and then compete for the lock (`bot.go:692`). No doc
    promises otherwise.
12. `routeFlags` stays set after a handler that skipped (`router.go:337-339`), and a
    sub-router's outer middleware that returns `(false, err)` loses the error.
13. `RateLimiter` gives a full burst to a bucket it has swept (`middleware.go:166`),
    which exceeds the rate when the idle time is shorter than the refill: any is accepted, and
    the default (`middleware.go:121-126`, ten tokens' time but at least a minute) is shorter for bursts
    above ten at slow rates. `KeepsRate` allows this to a sender who was silent for
    longer than the idle time, and to nobody else. A retry
    that uses up its budget exactly leaves no time for its answer
    (`internal/api/client.go:302-315`); a verdict of `AdminCache` can be older than its ttl, by as
    much as the call took, and concurrent misses ask more than once per ttl
    (`admin_cache.go:124-142`). The comment on `RateLimitMiddlewareBySender`
    (`middleware.go:221-229`) says that RateLimitMiddleware leaves anonymous senders alone; it
    gives their shared dummy user one bucket.
14. The application's code can panic where golagram does not recover (`bot.go:801-808` is
    around the dispatch only). A filter's panic in `matchingAllowsWebhookReply`
    (`webhook.go:135`) and one of `TelegramBot.OnError` (`bot.go:846-847`) in a request
    goroutine end the request without an answer, and Telegram delivers the update
    again, in the second case after it was dispatched; `AllowWebhookReply` mentions
    neither. A panic of `OnError` in a worker ends the process, and with it the updates in
    the channel that were answered 200: in Polling that is one of its crashes, in Webhook
    it is not modelled.
15. `freeze` is for "dispatch is reading the router concurrently" (`router.go:142`), but a registration that
    is between `ensureMutable` and its append (`router.go:183-190`, `387-388`) when the flag is
    set still appends, and races with the readers. `OnError`, `Use` and `UseOuter`
    check and set in the same way. `firstMatchingRoute` and `UsedUpdateKinds` read the tree
    without freezing it, and rely on who started the bot.

Of the functions:

16. `splitPoint` (`format.go:148-183`) cuts an entity that would fit a chunk of its own
    if a chunk begins with it and the last break of the window is inside it,
    although the comment (`format.go:104-106`) cuts only entities longer than the
    limit. A tab is dropped at seams but is no place to split. With a limit of 1 a
    surrogate pair makes a chunk of 2.
17. `RenderRichMessage` accepts 17 levels where the comment has 16 (depth starts at
    0, `depth > 16` is refused): `RendersWell` accepts either at exactly that level, and asks for
    refusal beyond and acceptance below it. `PlainText` leaves out captions of tables and media and
    what is in a collage or slideshow.
18. `NewPagination("a:b")` shares its taps with a `CallbackData` named "a", whose
    `Filter` matches them (`callback_data.go:258`).
19. `TranslateN` picks the form by the user's language and then looks for it in all
    locales before it tries the next form (`i18n.go:113-126`): a language with only
    "other" loses to the default locale's "one" for n = 1, a Russian reader of
    English texts gets "one" for 21, and with a default locale of only Slavic
    forms everybody else sees the bare key. Hence the precondition on "other"
    in `SpeaksRight`. The saved locale is conversation data (`i18n.go:293`), which
    a wizard's `Enter` and `Exit` clear.

## 6 What is not modelled

Generated types and methods (`types.gen.go`, `methods.gen.go`, more than half of
the code) and the code generator: one struct or call each, without behaviour of
their own. Encoding and decoding of requests, uploads, escaping, the fields of
albums and media, signature checks (`WithHMAC`, web apps), deep links,
payments: single values. `KeepChatAction` and the middleware that calls Telegram around a handler.
Filters that look at one field of a message, and templates' formatting. HTTP and TLS, the
Telegram server beyond its queue of updates, Redis beyond its commands and
expiry are environment. `Use` middleware is part of the handler it wraps.
A send counts as begun when its token is granted, so one granted just before a flood error's pause may go out
during it. Handlers change the maps they passed to `SetData` or got back; a map passed to `UpdateData`
is not changed later. The Redis property is about handlers that stay in their own conversation
(`OwnOnly`): `NewFSMContext` on somebody else's has no lock to rely on.
`PROJECT.json` lists every component with its status.

Abstractions to keep in mind: a Redis command either happens or fails (a command
that happens but whose answer is lost is the caller's failure after the fact, as
a crash is); floating-point tokens are whole parts of a token; a wizard
conversation does not expire in Wizard (the storages' models cover expiry); the
application's step handlers answer and then move, as the comment on `Wizard`
shows, with or without regard to a failed answer; wiring in Router is over before the first update, and in Freezing one
goroutine registers (several at once would race with each other as they do with readers); a rate limiter's clock moves between calls and not within one; a member's status is read by
Telegram at one instant of the call.

## 7 Plan

Order: what every update passes first, then what handlers use, then the rest.

1. Done: per-key lock, polling, webhook, router, storages, keying, wizard,
   broadcast, with proofs for lock, router and broadcast.
2. Done: lifecycle, rate limiter, API client and admin cache, texts, rich
   messages, buttons, translations, filters.
3. Middleware around a handler: `KeepChatAction`'s goroutine against the handler's
   end, `CallbackAnswerMiddleware`.
4. Wizard over an expiring store, with a locale saved in its conversation.
5. `MediaGroup.Build`, and uploads that are read twice by a retry.
6. Done: proofs of every safety property of a concurrent component: Polling, Webhook,
   Wizard, AdminCache and its calls, Lifecycle, RateLimiter, Freezing, both storages, and
   the order in which a router tries registrations, in both of its walks.
7. Done: proofs of what texts, entities, translations, filters, callback data, paginations
   and keyboards promise, for inputs of any size. Left: rendered trees and rich messages,
   which would have to be recursive functions on a set of trees by height.
