# A TLA+ model of the Gain Capital API client

`GCClient` (`src/include/gain_capital_client.h`, `src/src/gain_capital_client.cpp`)
is a C++ class through which a program trades currencies with the REST service
of Gain Capital: it logs in, keeps the session alive, reads prices and places
orders. This directory models in TLA+ the client, the server it talks to, the
programs of the repository that use it (its tests, their mock servers, the
example) and the part of the JSON library under it that the client runs. TLC
checks the models on small instances, TLAPS proves their main safety properties
for all. Paths start at the directory that holds the repository as `src/`;
`cpp:` stands for `src/src/gain_capital_client.cpp:` and `json.hpp:` for
`src/include/json/json.hpp:`.

## 1. The system

| component | state | operations | modelled in |
|---|---|---|---|
| session and account | `auth_payload`, `session_header`, `CLASS_trading_account_id`, `CLASS_client_account_id` | `authenticate_session`, `set_trading_account_id`, `validate_session`; guarded by the last: `list_open_positions`, `list_active_orders`, `cancel_order` | `GCSession` |
| market data | `market_id_map` | `get_account_info`, `get_margin_info`, `get_market_id`, `get_market_info`, `return_market_id`, `get_prices`, `get_ohlc` | `GCMarkets` |
| orders | the locals of one call | `trade_order` | `GCTrade`, `TradeOnce` |
| requests and arguments | none | checks on arguments, the contents of the requests | `GCRequests` |
| network exchange | none | `make_network_call` | `GCState` (client side), `GCServer` (the rest) |
| the server | live sessions, accounts, market numbers, prices, orders | the HTTP resources | `GCServer`, external |
| lifecycle, configuration | the members above, the URLs | constructors, moves, `set_testing_rest_urls` | `GCState!Init`, `MockServers` |
| `GCException` | where an error arose | `where`, `what` | `GCCalls` |
| tests | the client under test, the mock server | three test files, two mock servers | `MockServers`, `GCTests` |
| example program | its place in `main`, the last prices, the orders to cancel | `main` | `ExampleProgram` |
| JSON: parser | stack of open containers, value under construction | `parse` with a `json_sax_dom_parser` | `JsonParser` |
| JSON: lexer | input position, `token_buffer`, one byte put back | `get`, `unget`, `scan` | `JsonLexer` |
| JSON: output | `string_buffer`, decoder state; `number_buffer` | `dump`, `dump_escaped`, `dump_integer`, `dump_float` | `JsonDump`, `JsonSerializer`, `JsonNumbers`, `JsonText` |
| JSON: destruction | the stack of `destroy` | `json_value::destroy` | `JsonDestroy` |
| cpr, curl, HTTP mock, build | | | not modelled, see section 6 |

**How they interact.** One thread owns a client, and every request blocks. An
operation is a chain of requests: `list_open_positions` may send a validation,
a login, an account request and its own; `trade_order` a market request and
then, per attempt, two price requests and an order. All of them share the
session header, the account numbers and the cache of market numbers. The
server moves between any two requests: it ends sessions, moves prices, refuses,
and its answers get lost. Errors are returned as values, but a JSON access to a
body of another shape throws, and nothing in the client catches that. Every
body is read by the JSON parser, every payload written by its `dump()`, and
parts of one answer are dumped into the next request.

**What is hard.** A session that ends between the check and what it guards; a
member read before a nested call that changes it; a login that fails after it
has stored half of what it learnt; a retry after an answer that may belong to
an executed order; an answer lost after the order was executed; the bound of
the retry loop; a missing number that gets into a cache; a client that is moved
or redirected half way; in the library two stacks kept in step, fixed buffers,
bounds of UTF-8 and of integers, and recursion. `PROJECT.json` lists these
hazards at their lines with the properties that watch them.

**What makes each part correct.**

* Session: no login passes without a header and two account numbers, also after
  failures; a renewal changes the session and nothing else; what a guarded
  operation sends is sent under the session just confirmed and the account just learnt; a
  program that keeps validating gets a live session back.
* Market data: the number used for a market is the one the server gave it.
* Orders: one call executes at most one order; a failure that the server's
  answers do not excuse means no order; every attempt carries current prices;
  attempts are bounded.
* All operations: every call comes back.
* Lifecycle: nothing is sent without credentials; what an earlier server left
  in the client neither helps nor harms with another one.
* Programs: the tests pass; the end of the example tells what was traded.
* JSON: exactly the texts of the grammar are read, as the values they denote;
  what is written reads back as the same value; no buffer is overrun; a value
  of any depth is freed without recursion, each part once.

## 2. The modules of the client

`GCRequests` -> `GCState` -> `GCSession`; `GCMarkets` -> `GCTrade`; `GCServer`;
all of them -> `GCClient` -> `GCInduction` -> `MCClient` (TLC). `TradeOnce`
stands apart: `GCClient` instantiates it. `GCClient` -> `GCCalls` ->
`MockServers` -> `GCTests`, and `GCCalls` -> `ExampleProgram`; both ->
`GCPrograms`, with `GCInduction` -> `GCProgramsInduction` -> `MCPrograms` (TLC).
The proofs: `GCInduction` -> `GCClientProofs` -> `GCOrderProofs`, with `GCProgramsInduction` -> `GCBenchProofs` ->
`GCExampleProofs`.

**`GCRequests`** computes: which arguments are accepted (`PriceTypeOk`,
`IntervalOk`, `OrderTypeOk`, `FieldsMissing`), what a request holds
(`TickRequest`, `BarRequest`, `OrderRequest` with `IfDone`), and when an order
counts as done (`OrderDone`, cpp:532). A string the client stores is the
sequence of the JSON values dumped into it: `<<>>` is the empty string, and
`Dump(Null)`, the text `null`, is not empty. That difference is what cpp:70 and
cpp:101 turn on. Trade maps are functions from market numbers to orders; the
order of the numbers stands for the order of the object's keys.

**`GCState`** holds all variables. `auth_payload`, `session_header`,
`trading_account_id`, `client_account_id` and `market_id_map` are the data
members. (`session_header` keeps only its `Session` field: the others never
change. A market that was never stored is `Empty`.) `call`, `pc`, `request`,
`response` are the call in progress: what was called, which answer it waits
for, the request and the answer. `current_time` (seconds since the loop
started), `bid_response` and `attempts` belong to the loop of `trade_order`;
`attempts` only counts its posts. `sessions` and `tick` (the round of prices)
are the server's. `vouched`, `placed`, `disturbed`, `lost` and `result` record
what happened during the call, for the properties; no guard reads them. A step
of the client runs from one answer to the next request or to the return, as the
code does between two blocking calls. `CallFails` and `CallThrows` are the two
ways an answer ends almost any call; `ReceiveDirect` is the
`return make_network_call(...)` of most operations.

**`GCSession`, `GCMarkets`, `GCTrade`** have one action for each entry of an
operation, named like the operation, and one for each kind of answer it goes
on from:

| waiting for (`pc`) | code | actions |
|---|---|---|
| `login` | cpp:55-79 | `ReceiveLogin`, `RefuseLogin` |
| `account` | cpp:91-106 | `ReceiveAccount` (both numbers are stored before either is checked) |
| `validate` | cpp:128-143 | `SessionIsValid`, `BeginLogin` |
| `market` | cpp:200-216, 669-674 | `ReceiveMarket`, `ReceiveTradeMarket`, `MarketMissing` |
| `bid`, `ask` | cpp:474-523 | `ReceiveBid`, `PricesFail`, `PricesThrow`, `PricesMissing`, `PlaceOrder` |
| `order` | cpp:525-538 | `OrderTaken`, `PauseBeforeRetry` |
| `sleep` | cpp:538-544, 472 | `Retry`, `TimeExpired` |
| `direct` | the last line of most operations | `ReceiveDirect` |

`PostLogin` is `authenticate_session` up to its request, called by the program
or by `validate_session`; `Proceed` is what follows a good session: the return,
or the request of a guarded operation with header and default account read at
that moment.

**`GCServer`** is external: it answers what the client sends in the forms the
client reads and the mock servers of `src/test` reply. The faults of the
constant `Faults` add refused logins, fields that are missing, connections that
fail before or after the server has acted (`FailExchange`, `SpoilAnswer`),
status codes, bodies that do not parse (`garbage`) or parse to something that is
no object (`not_object`; a body that is JSON `null` acts like an object without
keys, which is the fault `null`), and sessions that expire. `RefusalIds` are the
order numbers of refused orders: 0 as an integer, 0 as a float, or none.

**`TradeOnce`** is the abstract specification of a trade: a call executes at
most one order and, if no answer was spoilt, reports success when it executed
one. `GCClient!ImplementsTradeOnce` is the refinement.

**`GCClient`** composes the modules, states fairness and the properties.
**`GCInduction`** has the inductive invariants, `GCProgramsInduction` those of the
programs.

**`GCCalls`** is the public interface with the two checks at the head of every
operation (`validate_session_header`, `validate_auth_payload`, cpp:677-695) and
the place a `GCException` names (`where`): a test compares it, and a program
sees it. Its constant `Program` is the set of calls that are made.

**`MockServers`** is the bench: a client between the two mock servers of the
functional tests and an address where nobody answers. `MockReply` is their
`responseHandler`s; `set_testing_rest_urls` redirects the client, `AssignIds`
writes the public members, `MoveAway` and `MoveInto` are the defaulted moves,
which leave a client without credentials, header and URLs.

**`GCTests`** replays every test of `src/test`: the calls it makes (one test
assigns both account members before its call), and the outcome, the place of the
error and the members it expects or leaves. **`ExampleProgram`**
is `main` of `src/examples/example.cpp` with its loops over the pairs and over
the active orders; `line` is the call it is at, named by its line. The server
keeps a book of orders, which may be filled at once or stay active.
**`GCPrograms`** runs one of the three.

In all these modules a definition that a comment calls a mutant is a variant
with a plausible mistake: the model does not use it; put in place of the
definition after it, it makes the property named for it in `PROJECT.json` fail.

## 3. The modules of the JSON library

What of nlohmann's library the client, its tests and the example run: `parse`
of a text with exceptions, `dump()` without indentation, destruction. A token, a
byte or a value is an element of the state; the properties compare with
definitions of their own: those from the grammar of JSON (RFC 8259) in the MC
modules, that of UTF-8 (RFC 3629) in `UnicodeText`, where the proofs use it too.

* **`JsonParser`** is `sax_parse_internal` with its two jumps (`phase` is
  "value" or "state") and the `json_sax_dom_parser` it reports to. A pointer is
  the number of a node; `ref_stack` and `object_element` are the builder's.
  `MCParser!Value` is the grammar, as the set of values a text denotes.
* **`JsonDump`** is `dump` of such a tree, as tokens.
* **`JsonLexer`** works byte by byte: `get` and `unget` with their counters, one
  action for each place in `scan` (`at`), the table of `scan_number` as `Arcs`,
  escapes with surrogates, UTF-8 as the list of ranges of the code (`Follow`).
  `source` bounds the texts of a run: the bytes they may have, how they may
  start, their length; or it is one given text. `IntBits` is the width of
  `number_integer_t`.
* **`JsonSerializer`** is `dump_escaped` with `decode` (its table `utf8d` as
  `Class` and `Step`) and `string_buffer` of `BufferSize` bytes.
* **`JsonNumbers`** is `dump_integer`, which writes digits in pairs from the
  end that `count_digits` foresees, and `dump_float` from the digits and the
  exponent that Grisu2 has found (`format_buffer`, `append_exponent`).
* **`JsonText`** joins the last three: a text is read, or a string or number is
  dumped and then read. `DecimalOf` is the number that a text denotes by the
  grammar of JSON, the reference for doubles. `JsonTextProofs` proves what is written,
  `JsonReadBackProofs` what is read of it.
* **`JsonDestroy`** is `json_value::destroy`: the calls that are open, what lies
  on the stack of each, which values are moved from.

## 4. The runs

| run | states | instance | shows |
|---|---|---|---|
| `Composed` | 3 609 454 | all operations; missing fields, lost answers, expiry | `LoginHasAccounts`, `AccountsStable`, `GuardedFresh`, `DefaultAccountCurrent`, `RenewsExpiredSession`, `MarketIdsTruthful`, and `IInv`, all inductive invariants together |
| `Trade` | 1 018 166 | login and `trade_order`; missing fields, status codes, lost answers, bodies that are no object, expiry | `TypeOK`, `AtMostOnce`, `ErrorMeansNotPlaced`, `FreshPrices`, `AttemptsBounded`, `ImplementsTradeOnce` |
| `Liveness` | 541 870 | one operation of each kind; refused logins, missing fields, bodies that are no object, expiry | `EveryCallReturns`, `SessionRecovers` |
| `Programs` | 312 020 | bench, tests and example; all faults and all forms of refusal for the example | `NothingWithoutCredentials`, `FailedServerFails`, `CorrectServerSucceeds`, `TestsPass`, `ExitTellsOrders`, `ListedOrdersCancelled`, `ProgramsEnd` |
| `Parser` | 126 193 | all texts of up to 8 tokens, objects of up to 17 | `ParserCorrect`, `RejectsAtFault`, `DumpDenotes`, `StacksAgree`, `ParserInv`, `ParserEnds` |
| `Text` | 344 786 | five kinds of free texts, integers at their limits, strings of 4 bytes, numbers around the powers of 10 and 2 | `LexerCorrect`, `PositionExact`, `DumpsUtf8`, `ReadsBack`, `BufferFits`, `DecodesScalars`, `IntegerReadsBack`, `FloatReadsBack`, `NumberPlaced` |
| `Destroy` | 32 850 | all documents of five values | `CallsShallow`, `FreedOnce`, `OneOwner` |

**The client** (`MCClient`): two session tokens, so that a renewed session
differs from the old one; two markets, so that numbers can be confused (one in
`Liveness`, where no number matters); two accounts in `Composed`, where numbers
may be swapped; calls with the default account and with a given one; a clock that advances one or two seconds per
`sleep(1)`. A program may call the operations of `Ops` in any order for ever;
nothing bounds the length of a run. The state is finite because the texts, the
clock of the loop and the two prices are. `Trade` leaves out the faults whose
outcome is one the others have already (`no_connection` is a failure like
`http_error`, `garbage` is spoilt like `lost_reply`); its trade maps cover a
market order over two markets, a limit order with a stop and a given account, a
limit order without a trigger price, an empty map and an unknown type; an order
may be refused with the number 0 of either type, or with none. There the clock
needs both increments: with one the bound of six orders is met exactly, with two
`TimeExpired` is reached past `stop_time`; in `Composed`, which is about the
interplay of the operations, it advances two seconds.

**The programs** (`MCPrograms`): one account and one token, as the mock servers
have; two pairs, which the example lists in another order than the keys of a
trade map, as its own list does; orders refused under the number 0 of either type
or under none; the active orders listed as an array or inside an object.

**The library**: a text of eight tokens nests three containers and has room for
a second member after a container. `RejectsAtFault` compares with texts of up to
ten tokens, so it says nothing of a rejection deeper than about five containers.
A key that returns with another container as its value needs the seventeen
tokens. `Text` has, for each range that the code
tests, its first and last byte; escapes whose digits reach the limits of every
UTF-8 length and the surrogates; integers of 26 bits, the widest TLC can
compare, with the limits of both kinds and their neighbours; a buffer of sixteen
bytes, so that four bytes of input fill it; digits of 1, 2, 3 and 17 places and
exponents around both switches of notation. Five values are enough for two
containers of two, and for every way a container may lie in another.

Deadlock is checked in the runs of the client, which a program may always call
again: a client that waits for something nobody sends would be found. In
`Programs` (and `ActiveOrders`), `Parser`, `Text` and `Destroy` the modelled
code comes to an end, so there `CHECK_DEADLOCK` is off, and `ProgramsEnd` and
`ParserEnds` say that it is the right end which is reached.

**Fairness.** `FairSpec` assumes that a client with an answer goes on and that a
request in flight ends, in an answer or a failure. The first is the thread
running; the second is a property of the connection, not of the client, which
sets no timeout (cpp:630-634). No fairness makes the server succeed, or a fault
stop. `SessionRecovers` speaks of a program that keeps calling
`validate_session`: that is a premise of the property
(`SF_vars(validate_session)`, strong because other calls disable it), and it
concedes sessions that expire and exchanges that fail for ever. `ProgramsSpec`
assumes that a test and the example make their next call, and that exchanges
end. `Parser` assumes that the parser takes its next step.

### What the code does otherwise than it says

Five runs expect a violation; each checks what a comment, a document or a test
says, and TLC shows a behaviour of the code that differs.

* `NullAccounts`: a login whose account answer lacks a number fails, but the
  text `null` is stored, so the next login succeeds with it (cpp:98-105, 70).
* `ZeroOrderId`: an answer with the integer `OrderId` 0, or without any, is
  success (cpp:532); only the float 0 is retried.
* `ZeroStop`: a `StopPrice` of 0, "0 for None" in cpp:397, becomes a stop order
  at 0 (cpp:449).
* `TwoMarkets`: a trade map with an order for each currency pair, as in
  `src/README.md:158`, is traded in its first pair only (cpp:420), with success.
* `ActiveOrders`: the example iterates over the answer of `list_active_orders`,
  not over the list in its member `ActiveOrders` (cpp:591), so it cancels none
  and ends with success (example.cpp:169). When the server answers with an
  array, `ListedOrdersCancelled` shows that none stays.

The first of them bounds what can be said of a login. `LoginHasAccounts` is what
the code does keep: no login passes without a header and two account numbers,
neither `authenticate_session` nor one made on the way to another request, and
what it passes with is an account it has just fetched and checked or what was
there before. So the text `null` never enters through a login that passes; it
is left behind by one that fails, and then passes with the next.

Three more were met and have no run: `trade_order` throws on a body that is JSON
but no object, where cpp:384 promises a response or an error (the exception is
in the model: `CallThrows`); the example computes the limit orders of all pairs
from the price of the pair of the round (example.cpp:122-127); and `unget` of a
newline takes back the line but not its column (json.hpp:8753), though
json.hpp:3039 calls the counter the characters read of the current line.
`PositionExact` has the column as the characters since the last end of line
everywhere but there, where it is 0.

## 5. The proofs

| module | theorem | property |
|---|---|---|
| `GCClientProofs` | `TypeCorrect` | `TypeOK` |
| | `TradeAtMostOnce` | `AtMostOnce` |
| | `TradeErrorTruthful` | `ErrorMeansNotPlaced` |
| | `AttemptsAreBounded` | `AttemptsBounded` |
| | `GuardedRequestsAreFresh` | `GuardedFresh` |
| | `AuthenticationIsComplete` | `LoginHasAccounts` |
| | `AccountsNeverChange` | `AccountsStable` |
| `GCOrderProofs` | `ExpiredSessionIsRenewed` | `RenewsExpiredSession` |
| | `MarketsAreTrue` | `MarketIdsTruthful` |
| | `PricesAreFresh` | `FreshPrices` |
| | `DefaultAccountIsCurrent` | `DefaultAccountCurrent` |
| | `TradeOnceImplemented` | `ImplementsTradeOnce`, the refinement |
| | `InvariantsHold` | `IInv` |
| `GCBenchProofs` | `NothingIsSent` | `NothingWithoutCredentials` |
| | `FailedServerAlwaysFails` | `FailedServerFails` |
| | `CorrectServerAlwaysSucceeds` | `CorrectServerSucceeds` |
| `GCExampleProofs` | `ExampleTellsOrders` | `ExitTellsOrders` |
| | `ExampleCancelsOrders` | `ListedOrdersCancelled` |
| `JsonParserProofs` | `ParserInvariant`, `ParserStacksAgree` | `ParserInv`, `StacksAgree` |
| `JsonTextProofs` | `DumpInvariant`, `TextInvariant` | `DumpInv`, `TextInv` |
| | `PositionsAreExact` | `PositionExact` |
| | `BufferNeverOverrun` | `BufferFits` |
| | `DecodesOnlyScalars` | `DecodesScalars` |
| | `DumpsExactlyUtf8` | `DumpsUtf8` |
| | `NumbersPlaced` | `NumberPlaced` |
| `JsonReadBackProofs` | `StringsReadBack` | `ReadsBack` |
| | `IntegersReadBack` | `IntegerReadsBack` |
| | `FloatsReadBack` | `FloatReadsBack` |
| `JsonDestroyProofs` | `FlatInvariant`, `DestroyShallow` | `FlatInv`, `CallsShallow` |
| | `EachFreedOnce` | `FreedOnce` |
| | `EachHasOneOwner` | `OneOwner` |

**Assumptions of the client.** JSON null is not `TRUE` and no account number
(`AccountsAssumption`; the run `NullAccounts` is about the server that sends
null *instead* of one). Markets are natural numbers, and the markets of the
arguments are among them. A second of sleep is at least a second of clock
(`ClockAssumption`: otherwise the loop has no bound). A refusal has the order
number 0 or none (`RefusalAssumption`: a server that refused an order under a
number, or executed one under 0.0, would break the trade properties).

**Assumptions of the programs.** The calls of the bench have arguments that the
client accepts (`ProgramAssumption`, with `ValidCall`), for with others nothing
could be said of success; none of the values in the mock servers' bodies is null
(`MockAssumption`); the example has at least one pair, and the markets are those
of its list (`PairsAssumption`, example.cpp:17). The server may refuse orders in
every form that `RefusalAssumption` allows. Of these cpp:532 takes only the
float 0 for a refusal: an order refused under the integer 0, as the mock server
of functional_failed_server_test.cpp:73 does, or without a number, is reported as
placed (run `ZeroOrderId`). `ExampleTellsOrders` therefore counts, in `misled`,
the refusals that the example was given in these two forms: the trades that it
takes for done are the orders executed and these.

**Assumptions of the library.** A bound on tokens is a number; bytes are bytes
and the buffer has at least the 13 that one step may write; integers are as
narrow as `IntBits` says. `WidthAssumption` is arithmetic, two facts on powers
of two that the provers do not know, and a width that holds 1000;
`DigitsAssumption` says that Grisu2 gives 1 to 17 digits, the first of them not
0, and an exponent of at most three digits, as json.hpp:17837 asserts;
`NumberBufferAssumption` is what json.hpp:18769 asserts of
`number_buffer`, that the longest integer leaves a byte, and that a double
fits. A document is a tree (`NestingAssumption`): every value
but the root lies in one place of one container, and none lies, at whatever
depth, in itself; a `json` owns its items, so the code can build no other. TLC
evaluates all of these in its runs.

**The client.** None of the properties is inductive; `GCInduction` has the
strengthenings. `TypeInv` adds which request is out for each `pc` (`RequestOK`)
and what an answer may hold (`AnswerOK`): without the first, the server's reply
could not be related to what the client waits for. `TradeInv` says that an
executed order shows only while the client has an answer to it, which either
counts as done or was spoilt, so that a retry starts from zero orders.
`AttemptsInv` ties the number of posts to the clock. `SessionInv` follows the
session from the server's word (`vouched`) through the login and the account
request to the guarded request. `AccountInv` says that the account is fetched
only by a client that has a session and lacks a number; with it, the two steps
by which a login can pass (`PassingSteps`) leave both numbers.
`MarketInv` follows a number from the market request through the answer and the
cache to the requests of the loop; it needs that `begin().key()` of a trade map
is one of its markets, hence that every non-empty set of numbers has a least
(`LeastNumber`, from the well-foundedness of `<`). `PriceInv` follows the two prices: the
bid is held while the offer is fetched, and neither answer is of an earlier
round. `RenewInv` follows a renewal while nothing goes wrong: which header is
live at each `pc`, and that a client with a header has the credentials to log
in again. The proofs rest on lemmas about every step of the client, such as
`ClientStepFrame` (which members it may change) and `ClientStepShape` (it ends
the call or sends the request that belongs to its new `pc`); then each invariant
is split over the client's actions that touch it and over the server's.

**The refinement.** `TradeOnceImplemented` maps the entry of `trade_order`, its
return, the server's execution of an order and a spoilt answer to `Start` or
`TurnDown`, `Finish`, `Execute` and `Spoil`; the entry of another operation, or
its return to an idle client, to `Forget` or a stutter; prices, pauses and
everything else to stutters. `TradeInv` before and after the step supplies the
guards: none was executed before, and an order executed and answered is
reported.

**The bench.** Here the client is moved, redirected and assigned to between two
calls, so `IInv` is of no use: its numbers may come from another server.
`CallInv` keeps what holds regardless, that a call sends only what belongs to
its operation and that a header needs credentials; its lemmas cover the entry
and the steps of every operation. `MockInv` says that the answer is that of the
server the client points to (it points to no other during a call) and that the
cache has nothing but the mock servers' number. From these, `FailedInv` (no call
gets as far as an order) and `CorrectInv` (each `pc` finds what it reads) give
the two theorems: for all markets, for all calls with valid arguments, and
whatever the other servers have left in the client before.

**The example.** While it runs, `TypeInv` and `TradeInv` hold again, as its
server is `GCServer`. `LineInv` ties the call in progress to the line of `main`.
`OrdersInv` says that the server has executed the orders of the lines passed and
of the call under way, less the refusals that read as success; `TradeInv` bridges
the retries. `CancelsInv` says that
what is still to be cancelled covers what is active, and that the order at the
head is no longer active once its cancellation is answered. Both hold for lists
of any length.

**The parser.** The stacks agree only because each pointer of `ref_stack` is a
container, each is an item or a member of the one below it (`Nested`), and
`object_element` is a member of the innermost object: `handle_value` writes
where these point. `ParserInv` has all of it; two lemmas say that adding a fresh
value, as an item or as a member, keeps it.

**The texts.** `TextInv` is `DumpInv` and `LexerInv`, each kept by the steps of
the other. That 13 bytes are enough for the serializer needs a relation between
the decoder's state, the bytes held back and the bytes in the buffer (`DumpInv`:
at most three wait, and after every complete character at least 13 are free).
`DecodesScalars` needs which code points a partial character may still become
(`IsPart`), for each state of the table. For the lexer's position, `LexerInv`
says that a byte put back is the last one of the input, so that `unget` takes
back what the `get` before it has counted; that the lines counted are those of
the bytes read needs that a newline more is one more element in the finite set
of newlines (`LinesIn`), and the column the same of the bytes after the last of
them (`ColumnOf`, `ColumnAppend`).

`DumpsExactlyUtf8` compares the table with RFC 3629. `IsUtf8Text` says that a
text can be cut into characters, by a set of cuts: a definition without
recursion. `ReadSoFar` says that what has been decoded can be cut so, that no cuts
of the whole text can avoid the last place of these (`Unavoidable`), and which
bytes since then put the decoder into its state; as those bytes determine what
must follow, a byte that is rejected leaves no way to cut the text. A
rejection before the end says more, that no continuation of what has been read
is UTF-8: the byte rejected is misplaced in every text that goes on from there
(`Misplaced`, `NoneAfter`). The model tries the continuations of up to three bytes
(`BeginsText`), which are enough to end any character; the theorem speaks of
all of them (`RejectsForGood`).

`StringsReadBack` needs to know what was written: `WrittenSoFar` gives each byte
of the text its place in the output (`Encoded`), as itself or as an escape. In
the text that the lexer then reads, it is always between two characters, within
one, after a backslash or among the digits of an escape (`ReadingBack`), and the
bytes it has recovered are those of the text up to there.

**The numbers.** `dump_integer` writes backwards. `NumberInv` has, for the
digits from `buffer_ptr` on, the numbers that they make with what is left of
the value in front of them (`Digits`): ten times one and the next digit is the
next one, and the last is the value. That the first digit ends up just after
the sign needs `count_digits`: it is a recursive function, of which `CountDigits`
proves that it exists and satisfies its equation (from approximations on
`0 .. n`, by a least counterexample), `CountPair` that a division by a hundred
takes two digits, and `CountMonotonic` that no value has more digits than the
largest, for which the buffer was sized.

Both kinds of numbers are read by one argument. `NumberText` says where the
parts of a numeral lie: a sign, digits that begin with 0 only if that is all, a
point and digits, an exponent. `Place` relates the state of the automaton of
`scan_number` to them, and `NumberBack` says that at every moment the text
given is such a numeral and the lexer is at one of its places; so one token is
read, an integer if the digits reach to the end and a float otherwise. For
`IntegersReadBack`, the same sequence of numbers that `dump_integer` went
through backwards is what `strtoull` goes through forwards (`ValueOfDigits`),
and it stays within the width of the type. For `FloatsReadBack`, `FloatText`
says of what `format_buffer` writes that its digits are those of the double
between zeros (`Padded`), and that point and exponent together give its power
of ten; `FormatText` proves it for the four forms, whole, with a point within,
below 1, and with an exponent. `Denotes` then computes what `DecimalOf` makes of
any such text, `PaddedNormal` that the zeros do not count.

**Destruction.** `FlatInv`: at most two calls are open, and the inner one is on
a value whose children are all moved from, so that it makes no third. `OwnInv`
is the invariant of ownership: a value that is not freed lies in a container,
on a stack or in a call, in one of the three and at one place of it; the
containers stay a tree, and what is freed holds nothing any more. `FreedOnce`
follows at the end: were a value left, there would be one that lies in no other
value left (`Grounded`), and it would have no owner.

**Only model-checked:**

* liveness (`EveryCallReturns`, `SessionRecovers`, `ProgramsEnd`, `ParserEnds`),
  which is outside the prover's reach;
* what recursive definitions compute, as the library's induction theorems take
  an operator as a parameter, which the provers cannot instantiate:
  `ParserCorrect`, `RejectsAtFault`, `DumpDenotes`, `LexerCorrect`;
* `TestsPass`, which speaks of the tests of the repository, a finite set that
  the run `Programs` goes through: nothing is left to generalise.

## 6. Not modelled

* **cpr, curl, typecheck, the HTTP mock server.** `src/include/cpr`,
  `src/include/curl` and `src/include/httpmockserver` are headers of
  declarations; their code is in binaries or not in the repository. The client
  calls `cpr::Post` and `cpr::Get` at four places (cpp:630-645), for which
  `GCServer` stands.
* **The rest of `json.hpp`**, a file of 24 765 lines: the formats CBOR, BSON,
  UBJSON and MessagePack, JSON pointers and patches, iterators, conversions to
  other containers, indentation, the error handlers other than `strict`, the
  parser with a callback, comments in texts. Nothing in the repository calls
  them. Of what is called, Grisu2's search for the digits of a double needs
  64-bit products that TLC's integers do not hold, so `FloatReadsBack` starts
  from its result; `strtod` and the containers are the C++ library's.
* **Build and CI**: no behaviour of the running program.
* Contents the client passes on without looking at them: the number of ticks,
  order ids, the fields of prices and lists, names and passwords, error texts.
* A client used by two threads at once (it has no locks and is not meant for
  it).
* An empty JSON *object* as trade map: `begin().key()` is undefined there. The
  empty map of the model is JSON `null`, the state of `nlohmann::json m = {}`,
  for which the library throws.
* A clock that is set back, a `sleep` cut short, a server that renumbers its
  markets, a market that moves between bid and offer.

These parts keep the share of the source that is modelled small: the repository
is mostly vendored headers, of which the program runs a part.

## 7. Plan

Done: the client with its server, the programs that use it, and the JSON
library's reading, writing and destruction; of the properties that the passing
runs check, all safety properties are proved but those that section 5 lists as
only model-checked.

Next, proving: `TestsPass` for any set of tests that expect what their calls
give, from the invariants of the bench; and `LexerCorrect`, first for texts of
one token, with the grammar restated by cuts as `UnicodeText` does.

Next, extending the model: the comparison of JSON values (json.hpp:2899, used
at cpp:532), the moves of values (json.hpp:20516), and prices that move at any
time as a further fault of the server.
