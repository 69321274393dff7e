# TLA+ verification of the P2P micropayment system

This directory holds TLA+ models of the payment server and client in `../src`,
the TLC runs that check them on small instances, and proofs that TLAPS checks
for every instance. Paths below are relative to the repository.

## 1. The system

| component | code | state | operations |
|---|---|---|---|
| account database | `src/Database.cpp`, `include/Database.hpp` | table `CLIENT` in the file `server.db`: per user name, address, public and private port, online flag, balance | `user_register`, `user_login`, `user_logout`, `user_transaction`, `user_info`, `list`, `user_num`; constructor (reset), destructor (erase) |
| server sessions | `src/server.cpp` `process_request` | per connection: the user name it logged in with; shared: `client_fds` (name to descriptor), `current_user`, `termination_flag` | one loop per connection: receive, parse, call the database, reply |
| command parser | `src/server.cpp` `split`, `is_number`, `parse_command` | `strtok`'s hidden position | one command to a kind and its arguments |
| thread pool | `include/ctpl_stl.h` | queue of tasks, its mutex, the pool's mutex and condition variable, `isDone`, `isStop`, per-thread flags | `push`, worker loop, `resize`, `stop` |
| server lifecycle | `src/server.cpp` `main`, `sigint_handler`, `check_db_status` | the listening socket, the two answers about the database, the file | accept, push, SIGINT, restart |
| client | `src/client.cpp`, `include/client.hpp` | user name, peer list, server connection, private server socket | menu thread: register, login, list, pay, exit; receive thread: peers' transfers |
| P3 transport | `include/util.hpp` `send_P3`, `recv_P3` | none of its own; the TCP stream | one 4096-byte frame holding one RSA block each way |
| keys, certificates | `include/util.hpp`, `create_ca.sh` | key files | generate, delete, load |

How they interact. `main` accepts connections and pushes one task per connection
into the pool; at most LIMIT tasks run, each for as long as its client stays.
A task calls the database for its client; all tasks share one database file and
the globals. A transfer goes from the payer's client to the payee's client
(peer to peer), from there to the server over the payee's connection, and the
server sends the result over the payer's connection, which it looks up in
`client_fds`. The client's two threads share the server connection.

What is hard here. No lock and no transaction protects anything above the level
of one SQL statement or one queue operation, so calls of different workers
interleave between statements. A statement can fail because of another one. The
server may be stopped at any time and restarted on its old database; connections
end without notice; frames may arrive in parts. `PROJECT.json` lists these
hazards line by line.

What makes each component correct:

- *database*: no overdraft, one whole row per user, no registered user lost;
  and, while calls in progress concern different users, no money made, and lost only
  by a credit that fails or truncates; one session per user; every reply true of the
  accounts.
- *sessions*, while calls in progress concern different users: a reply goes to the client it is for; a session that ends logs its
  user out; `client_fds` names live connections only.
- *parser*: a command is what its sender sent, whoever parses at the same time.
- *pool*: each task runs once, in order, at most LIMIT at a time; no task waits
  while a worker sleeps.
- *lifecycle*: registrations outlast crashes and restarts; nobody is in a new
  table who did not register; who is online is being served, or left so for a
  known cause.
- *client*: an open client is who it takes itself for, and is listed at the port
  where it listens; a payer is told the result.
- *transport*: messages come in order and unchanged; a torn frame is never taken
  for a message.

## 2. Modules

| module | models | role |
|---|---|---|
| `AccountStore` | all calls of class `Database`, one action per SQL statement, interleaved by the pool's workers | core model |
| `IsolatedStore` | the same while calls in progress concern different users; the mapping to `Bank` | condition for correctness, refinement |
| `Bank` | what the database promises: each call one indivisible step | abstract specification |
| `StoreMoney` | - | the properties about sums of money |
| `AccountStoreProofs` | - | inductive invariant and safety theorems of `AccountStore` |
| `IsolatedStoreProofs` | - | inductive invariant of `IsolatedStore`: reads stay current; `IsolatedStore` implements `Bank`; sums over finite sets, and with them the properties of `StoreMoney` |
| `ThreadPool` | `ctpl::thread_pool`: push, worker loop, resize, stop, and its users | component model |
| `ThreadPoolProofs` | - | inductive invariant and safety theorems of `ThreadPool` |
| `Server` | accept loop, `process_request`, `client_fds`; the clients as far as the server can tell | component model, composed with `Bank` |
| `Lifecycle` | start, reset, first schema synchronisation, SIGINT, crash, erasure, restart, around the calls of `AccountStore` | composition |
| `Delivery` | what the program takes a connection for | abstract specification |
| `P3Channel` | `send_P3`, `recv_P3` on a byte stream | component model, implements `Delivery` |
| `Parser` | `split`, `parse_command`, by several threads | component model |
| `Client` | menu, peer list, private port, a payment from client to client to server | component model |
| `LifecycleProofs` | - | inductive invariant and theorems of `Lifecycle`, on those of `AccountStoreProofs` |
| `P3ChannelProofs` | - | `P3Channel` implements `Delivery` |
| `ClientProofs` | - | inductive invariant and theorems of `Client` |
| `ServerProofs` | - | inductive invariants and theorems of `Server` |
| `ParserProofs` | - | inductive invariant and theorems of `Parser` |
| `MCAccountStore`, `MCServer`, `MCLifecycle` | - | symmetry and state constraints for TLC |

### AccountStore

`clients` is the table, a set of rows. `pc[w]` is the statement worker `w` runs
next (`"idle"` outside the database), `req[w]` its arguments, `own[w]` and
`other[w]` the C++ locals `check_user[0]`/`sender` and `receiver`, `reply[w]` the
value returned.

| code | actions |
|---|---|
| entering a function: `connect()`, `sync_schema()` | `Call`, or `RejectedCall` for a transfer that fails its first test |
| `user_register` | `RegisterCheck`, `RegisterReplace` |
| `user_login` | `LoginCheck`, `LoginOnline`, `LoginUpdate` |
| `user_logout` | `LogoutCheck`, `LogoutUpdate` |
| `user_transaction` | `SenderCheck`, `ReceiverCheck`, `Debit`, `Credit` |
| `user_info`, `list`, `user_num` | `ListSelect` |
| `std::system_error` out of any statement | `Busy` |

A pair (ip, public port) is one value of `Addrs`. The column `fd` is not mapped by
`connect()` and is left out. `sync_schema()` changes nothing once the table has
been synchronised, which is the case after a reset and on any database a server
has used; the first synchronisation of a fresh file that is not reset is in
`Lifecycle`. `Busy` needs another worker inside the database, since only another
connection's statement can hold a lock. Amounts are multiples of 1/`Scale`;
`-=` and `+=` on an `int` with a `double` truncate, and neither result is
negative (a proved fact), so truncation is `\div`. `int` overflow of a balance is not modelled:
it needs more than 200000 registrations paid to one user.

`Kept` is what an earlier server left in the file, empty after a reset; the
models assume of it what the theorems show every server leaves behind.

### Bank and IsolatedStore

`Bank` has `balance`, `session` and `reply`, and a step per call that changes the
accounts and answers at once. Its `Fail` is a call cut short by a busy database:
nothing was done, or the sender was debited. `IsolatedStore` restricts
`AccountStore` by `Isolated`: no two calls in progress touch the same user, or come
from the same connection. A server with thread limit 1 satisfies it always; a
server with more threads while its users do not deal with each other at the same
instant. The code does not see to it otherwise; what happens without it is under
Findings. The mapping (`Balances`, `Sessions`) lets a transfer happen at its credit:
between debit and credit the sender's old row, still in `own`, counts. `StoreMoney`
adds up what the users own, for the properties about money as a whole.

### ThreadPool

`queue` is the queue, `slots` the vector of threads without the detached ones,
`flag[t]` the flag a thread was started with, `pc[t]` its place in the loop of
`set_thread`, `task[t]` what it runs; `pushing[p]` is a task that pusher `p` has
queued without having notified anyone yet; `opc` and `want` are the owner's place in
`resize` or `stop`.

| code | actions |
|---|---|
| `push` | `Enqueue`, `NotifyOne` |
| loop of `set_thread` | `Pop`, `Finish`, `CheckFlag`, `Lock`, and for the predicate of `cv.wait` `TestQueue`, `TestDone`, `TestFlag`; `SpuriousWakeup` |
| `resize`, constructor | `Resize`, then `Grow` thread by thread, or `Shrink` thread by thread and `ShrinkNotify` |
| `stop(false)` | `StopNow`, `SetFlags`, `Clear`, `StopNotify`, `Join`, `Clear` |
| `stop(true)`, destructor | `StopWait`, `StopNotify`, `Join`, `Clear` |

Every queue operation (under the queue's own mutex), every read or write of an
atomic and every notification is a step. The pool's mutex is held over several
steps only by a worker testing its predicate (`Testing`); push and notify_all can
come at any of these. A notifier locks, notifies and unlocks in one step, since
nothing it does in between depends on the others. `resize` and `stop` are called by
one owner, one after the other, which is what the comment at `resize` demands. The
variables `pushed` (each task is pushed once) and `promised` (what `stop(true)` found in
the queue, its push complete) only observe. `nWaiting` is read by `n_idle()` alone.

### Server

`line` is the pool's queue (a connection waits there until a worker is free);
`pc[w]`, `conn[w]`, `username[w]`, `cmd[w]` are the locals of the `process_request` that
worker `w` runs; `fds` is `client_fds`, whose entries point to the local
`connection` of a frame, named by its worker; `at[w]` and `target[w]` are the loops' `i`
and `sender_fd`. `wire[c]` and `back[c]` are the two directions of a connection.

| code | actions |
|---|---|
| `accept`, `thread_pool.push` | `Connect` |
| start of `process_request`, public key | `Begin` |
| `recv_P3`, `parse_command` | `Receive`; `Hangup` when there is nothing to read any more |
| `REGISTER`, `LOGIN` | `Register` (`RegisterCheck`, `RegisterReplace`); `Login` (`LoginCheck`, `LoginUpdate`), `PushBack` |
| `LIST`, `TRANSACTION`, `EXIT` | `List`; `Transfer`; `Logout` |
| `user_info`, `user_num`, `user_list_info` for the answer | `Read` |
| loops over `client_fds` | `Search` (result of a payment), `Find` (end of a session), `Erase`, one turn a step |
| `send_P3` | `Reply`, and `Result` through `sender_fd` |
| end of `process_request` | `Close`; `Busy` when an exception ends it |
| client: menu, payment, receive thread, exit | `Ask`, `Take`; `Pay`; `Report`; `Leave`; `Depart` when it is killed |

The accounts are the state of `Bank`. Registration and login are two steps, as in the
code: what is looked up, and the write of a later statement that relies on it. A
transfer and a logout are one step of `Bank`. **All specifications of `Server` have the
condition `Isolated`** (that of `IsolatedStore`): the calls that are in progress at once
concern different users, a registration, login, transfer or logout being in progress
from the arrival of the command until its last statement. Under it a call does what
`Bank` says (`StoreImplementsBank`), and everything said below of sessions holds under
it only. The code does not enforce it: it is true of a server with one pool thread,
and of others as long as no two commands about one user arrive at the same
moment. Without it two logins of one user both succeed; the recipe is under Findings.

`push_back` and `erase` are steps, so the model has every order of the vector's operations
and not what two of them do to the memory when they overlap. What an answer lists is left
out; it carries the command it answers and the result of the database call.

What is undefined in the code is a choice: `sender_fd` without an entry, or pointing
into a frame that has ended, sends the result to any connection or none or ends
the server (`Result`); an erase past the end of the vector does nothing or ends the
server; the buffer of a `recv` that read nothing holds the previous frame of the
session, something that is no command, nothing, or something that cannot be
decrypted (`Hangup`).

`Faults` names the disturbances of an instance: `"depart"` (a client is killed),
`"interrupt"` (SIGINT while it waits), `"relogin"` (`bind` fails after the server has
accepted the login, `client.cpp:220`), `"busy"` (a database call throws; it may have
debited the payer). A client of `"relogin"` may log in again but pays nobody in the
model. Only whole-frame messages are modelled; a client pays at the address where the
payee is at that moment (its list may be older in the code).

`client_fds` is right only while sessions do not end at the same time: an index found in
one session's loop is stale after another's erase, and between `user_logout` and the
erase the same user may log in again. `OrderlySpec` leaves out those
interleavings as well (`Undisturbed`: of two workers, when one is ending a session, the
other neither ends one nor is routing a result). What holds without `Undisturbed`, with all
faults, is `OneSessionPerUser` under `Spec`; what fails without it, although `Isolated`
holds, is the run `misrouted`.

| property of `Server` | needs `Isolated` | needs `Undisturbed` | with faults |
|---|---|---|---|
| `TypeOK`, `OneSessionPerUser` | yes | no | yes |
| `SessionHasEntry` | yes | yes | yes |
| `AnswersFit`, `NobodyLeftOnline`, `LoginsAreTrue` | yes | yes | no |
| `CommandsAnswered`, `PaymentsAnswered` | yes | yes | no |

### Lifecycle

`Lifecycle` extends `AccountStore`: its statements are taken over as they are, and
around them come the process and the file. `server` is where the main thread or the
signal handler is (`"open"`, `"sync"`, `"remove"` are the constructor's statements),
`table` says whether the file has no table, the constructor's (`"raw"`), or
sqlite_orm's (`"synced"`); `sync[w]` is the step of `sync_schema` a worker's call has
reached, `call[w]` that call. `left` is a history variable: who is online in the table
because nobody logged them out. A transfer adds to `left` only a user whose session has ended
since the transfer read his row (`BroughtBack`), so that one between users whose sessions last
explains nothing.

| code | actions |
|---|---|
| `check_db_status` | `Start` |
| constructor of `Database` | `CreateTable`, `ResetSync`, `RemoveAll` |
| `accept`; a command of `process_request` | `Accept`; `Command` |
| `sync_schema` | `SyncCheck`, `SyncDrop`, `SyncCreate`; `SyncFails` when it throws |
| the statements of the call | `Statement`; `StatementFails` |
| `sigint_handler`, destructor | `Interrupt`, `DeleteDb`, `Exit` |
| `exit(0)` in the transport, a signal without handler | `Die` |

The constructor declares columns NOT NULL, `connect()` does not, so sqlite_orm finds
the schema different, drops the table and creates its own. With a reset that happens
before anyone is served; without one the first call does it, next to other workers'
calls, and two workers that both saw the raw table drop it twice, the second time with
the rows the first one's users have registered. `RegistrationsKept` says exactly when a
row may go, and that this is the only unasked-for way.

### P3Channel and Delivery

A frame is `Frame` bytes of which the first `Block` are decrypted; a byte is its
position in all that was sent. `recv` may return any number of bytes up to the room and
what has come (`Receive`), fills the head of a buffer that holds what it held before or
anything (`Stale`), and the block at its head decrypts if it is that of a message, whole;
if not, the process ends, as `recv_P3` calls `exit(0)`. When the sender is gone, recv
reads nothing and the buffer is decrypted all the same: `Repeated`, or `Dropped` when the
server sees the -1. `Delivery` is what the callers rely on: the messages in order, each
once, but that the last one may come again when the sender is gone.
`Delivery!Spec` is property `InOrder`. `Server` builds on it: its `wire` has whole
messages and its `Hangup` is the end of a connection.

### Parser

A message is the sequence of its fields. `pc[t]` says whether thread `t` is at the
beginning or inside a call of `strtok`, `place[t]` where that call looks, `saved` is
`strtok`'s static variable: field number and the thread whose copy it points into. A
call reads it when it begins and writes it when it ends; a place in a copy that is gone
is read as garbage (at most one field of it, a bound). `alone[t]` is a history variable.
When splits overlap, a message can come out as another command with fields of another
user's: the properties say what is still right. `Names` has a name that looks like a number; the names
`REGISTER`, `Exit` and `List` are left out, a user called so cannot be told from the command.

### Client

Here calls to the server are one step each (but for the two SELECTs a list is made of,
`Announce` and `Parse`), so that the client's own state comes to the front: the name it
takes itself for, the port it tried and the port it is bound to, the list of peers, the
payments its receive thread holds. That is an assumption: two logins of one user at the same
moment (Findings) would make `OpenIsTrue` false of the first of them. Processes share one machine, as `INADDR_ANY` at
`client.cpp:339` has it, and a port has one listener.

| code | actions |
|---|---|
| menu | `Register`, `Login`, `Bind` (from the answer to the open receive thread), `Want` |
| the list | `Announce`, `Parse` |
| `p2p_transaction` | `Pay`: to whoever listens on the listed port by now |
| receive thread, the server's result | `Report`, `Answered` |
| Exit, SIGINT, the end of a client that broke | `Leave` |

## 3. Runs

All use model values for names. Symmetry is over users, workers and addresses,
which the specifications never tell apart; no liveness is checked under it.

| run | instance | shows |
|---|---|---|
| `races` | 2 users, 2 workers, 2 addresses, amounts 0, 1/2, 1, 3/2, initial balance 2 | under all races and failures: no overdraft, no torn or double row, acknowledged registrations last |
| `isolated` | 3 users, 2 workers, 2 addresses, amounts -1/2, 1/2 and 1, initial balance 1 | calls on different users: `AccountStore` implements `Bank`, replies included; no money is made, and it is lost only where a credit fails or truncates |
| `races_money` | 2 registered users, 2 workers, 2 addresses, amount 1, initial balance 1 | *violation*: a logout that read its user's row before a payment of his writes it back after it, and there is more money than was given out |
| `pool` | 2 threads, 2 pushers, 2 tasks, sizes 0 to 2 | no wake-up is lost; `stop(true)` runs all that was pushed before it; every task is started or the pool stopped; `stop` returns |
| `sessions` | 2 users, none registered, 2 workers, 3 connections, `OrderlySpec`, no faults | sound entries in `client_fds`, every answer where it belongs, nobody left online |
| `sessions_live` | the same with 2 registered users, 2 connections, `FairSpec` | commands and payments are answered |
| `sessions_faults` | 1 user, 2 workers, 2 connections, `Spec`, all faults | however sessions break, no two are of one user (while calls concern different users) |
| `misrouted` | as `sessions`, `Spec` | *violation*: a result is sent to a connection that is ending |
| `lifecycle` | 2 users, 2 workers, 2 addresses, `LifeSpec`, any number of restarts | who leaves the table, who enters it, who stays online, across crashes, erasure and restarts |
| `channel` | frames of 8 bytes, blocks of 3, 5 messages, every split | messages in order or the receiver ends, and it ends for a cause |
| `parser` | 2 threads, 3 messages of all kinds, names `ann` and `7` | a split that nothing overlaps is right whatever came before; what still holds when splits mix; all return |
| `client` | 2 clients, 2 users, 2 ports | an open client is truly logged in; a payer is answered while the payee's client stays |

Why the bounds are enough. Two workers give every pair of calls in conflict;
three users are needed for a transfer next to a call on a third user. Two addresses allow two sessions, and two users at
one address. Balances of 0 to 3 units with amounts below, at and above them cover
every outcome of the bankruptcy test. Races create money without end, so the
run `races` stops at states in which a row owns more than `MaxBalance` = 3 (a state
constraint); the theorems have no such bound. `races_money` starts with both users
registered and offline (`AllOffline`) and lets each user call over one connection of his own
(`OwnConnections`), so that its trace is one of two ordinary sessions.

For the pool, two threads allow one asleep and the other testing its predicate or
running; two pushers allow a notification to be taken by the other push's thread; as
many tasks as threads allow a task for each. `Resize` never asks for more threads
than `Threads` has left. The theorems of section 4 have no such bounds.

For the server, two workers and two users allow a payment between two sessions, two
logins of one user, one after the other, and a session that ends next to another; a third connection waits
in line. `SocketBuffer` bounds the messages unread in one direction of a connection,
and the payments a client has yet to report; 2 lets two payments reach one payee, and 1,
where faults make the instance large, still lets a payment wait behind a command.
`MaxFds` = 2 stops runs with faults at states with more entries left behind: enough for
a stale entry next to a live one. One user suffices to violate `OneSessionPerUser`.

For the lifecycle, `FewTransfers` lets one transfer be in progress at a time, and only in
a server that neither resets nor erases: two at once are the subject of `races`, and a
transfer next to an erasure writes with the same UPDATE as a login does. Every other call
meets every kind of start and end. Amount 1/2 of an initial balance of 1 lets balances
change; two workers are enough for a second drop of the table.

For the channel, a frame of 8 with a block of 3 has splits inside the block, at its end,
and in the zeroes; after a split the next `recv` begins inside a frame and may reach into
the one after, and five messages have room for that before and after whole frames. `MaxRepeats` bounds the repetition of a last
message. For the parser, three messages let a third split begin after two have mixed and
one has ended. For the clients, `MaxInbox` = 1 makes a client that is full wait; two
clients and two ports give each the other's port, one after the other; three clients were
too many states.

Deadlock is not checked: nobody has to call the database again, a stopped pool does
nothing more, and neither does a server without clients or one that has ended.

Fairness (`FairSpec` of `ThreadPool`). A pusher that has queued a task goes on to
notify, each thread that can run does run, and the owner finishes a `resize` or `stop` it
has begun: weak fairness of each, which any preemptive scheduler gives threads that
stay able to run. The mutex needs no strong fairness in these instances: it is held
for a bounded number of steps, and a thread asks for it again only after it was woken
or ran a task. A task ends: a client leaves some day. Spurious wake-ups cease at some
point, or one thread could take the mutex for ever. No fairness is assumed of what
users may do: push, resize, stop.

Fairness (`FairSpec` of `Server`). Each worker goes on while it can, and a client reads an
answer that has come and reports a payment it was handed (its receive thread loops for
ever). Nobody has to connect, ask, pay or leave. Workers are strongly fair because
`Isolated` and `Undisturbed` may disable a worker's step for a while and because a full
socket does; each such wait ends with a step of another fair process, but may recur as
often as users come and go. For the first two that is part of the condition, and not of
the scheduling: commands about one user come one after the other.

Fairness of the others. `P3Channel`: the receiver keeps calling `recv`, which returns some
bytes when there are any; `Parser`: a thread inside `split`, which never waits, goes on;
`Client`: a receive thread that has got a payment hands it on. Senders, users and crashes
are not fair.

### Findings

Two runs end in a violation, and the code disagrees there with its documentation, quoted in
`PROJECT.json`.

- `races_money` (`Database.cpp:153-164`, `190`): u1 and u2 log in and u1 pays u2 while his client
  leaves; the logout has read his row before the debit and writes it back after it. u2 has
  the money and so has u1. Any two calls that read and write a row of the same
  user can overwrite each other like that, two transfers too; this is the shortest way.
- `misrouted` (`server.cpp:422-445`): a user who logs in again while the old session is ending pays,
  and the result is sent to the old connection. Here no two calls about one user overlap.

Two races the code allows are left out of `IsolatedStore` and `Server` by `Isolated`, and no
run is about them; TLC shows each after one change of a configuration.

- *Two logins of one user at the same moment both succeed* (`Database.cpp:126-141`). Both find
  nobody online, both write. After it `client_fds` has two entries with one name: results of
  payments go to the first, the end of either session erases the first, and the table has
  the address of the second, so that the first client's logout fails. `OneSessionPerUser` is then
  false, and with it `AnswersFit`, `SessionHasEntry`, `LoginsAreTrue` and `PaymentsAnswered` lose their
  reason. To see it, put `SPECIFICATION RacingSpec` (of `MCServer`, the server without `Isolated`)
  into `sessions_faults.cfg`: `OneSessionPerUser` is violated after 12 steps.
- *Two registrations of one name at the same moment are both acknowledged* (`Database.cpp:113-117`),
  and the later REPLACE resets a row that may be online already. To see it, put
  `SPECIFICATION Spec` into `isolated.cfg`: `ActsAsBank` is violated after 6 steps, by a second
  `REGISTER_OK`.

Others the models make plain, without a run of
their own: a client that
goes away can end the server (`Hangup`, `up' = FALSE`; `P3Channel`, `EndsForCause`); after SIGINT on a kept
database whoever was online stays so and cannot log in again (`left` of `Lifecycle`); a transaction
parsed next to another command may come out as that user's login (`Parser`).

## 4. Proofs

`AccountStoreProofs` proves for all constants that satisfy `StoreAssumption`:

- `TypeCorrect`: `Spec => []TypeOK`
- `NeverOverdrawn`: `Spec => []NoOverdraft`
- `NeverTorn`: `Spec => []NoTornRow`
- `RegistrationLasts`: `Spec => RegistrationIsPermanent`

None of the invariants is inductive, because calls write rows they read earlier.
`IInv` says of every row a call holds what the invariants say of the table, that a
program counter inside a function goes with a request of that function, and that
for a transfer past its checks the amount is positive and the balance it read
covers it. `ReturnKeeps` and `GotoKeeps` show once that a step leaves the other
workers alone; each statement then has its own lemma.

`StoreAssumption` asks that the special values differ from real ones, that
amounts are integers (in 1/`Scale`), and that the kept rows are solvent, whole and
unique per user.

From the same assumption, for calls in progress that concern different users,
`IsolatedStoreProofs` proves

- `ReadsStayCurrent`: `IsolatedSpec => []IsolatedInv`
- `StoreImplementsBank`: `IsolatedSpec => ActsAsBank`

and, with `KeptAssumption` (a database file holds finitely many rows),

- `NobodyMakesMoney`: `IsolatedSpec => []NoMoneyMade`
- `LossesExplained`: `IsolatedSpec => LossHasCause`

`IsolatedInv` adds to `IInv` what each statement has learnt and still relies on
(`Current`): the name a registration found free is free, the row a login, logout or
transfer read is the row in the table, and the row a transfer has debited is the
debited copy. `WritesDisturbNobody` is the reason: a write concerns a user and an
address that no other call in progress has. The refinement is a step simulation:
`WriteView`, `SessionView` and `ReadView` say what a write and a read change in the
bank's view, and each statement is then a bank step (the last one of its call) or
a stutter (`DebitView` and the checks that pass).

The money theorems compare `AllOwned`, a sum over the users, with `Granted`, a sum over the kept
rows. Their invariant is that `Shortfall`, the difference, is a natural number: `MoneyStep` shows that it
never shrinks, and grows only as `LossHasCause` allows. It needs three things. Sums: what a fold
computes is shown without an induction theorem, by taking a smallest subset for which it would
fail (`SmallestSet`, from the well-foundedness of strict inclusion); `SumExcept`, `SumExtended` and
`SumRenamed` then say what one changed value, one more user and another naming of the rows
do to a sum. Counting: as names are keys, there are as many rows as users (`RowsCounted`), so a
registration adds to `AllOwned` what it adds to `Granted`. Division: a debit and a credit truncated
separately give together at most the two balances and at least one unit less, and exactly them if
the amount is whole (`PaidTogether`). The steps of the code enter through the bank's view:
only a registration, a credit and a failure at the credit change the balances
(`OtherStepsMoveNothing`).

From `PoolAssumption` (finitely many threads and pushers; `NoTask` is no task; sizes
are naturals), `ThreadPoolProofs` proves

- `PoolTypeCorrect`: `Spec => []TypeOK`
- `NoWakeupIsLost`: `Spec => []NoLostWakeup`
- `StopKeepsItsPromise`: `Spec => []PromiseKept`

`NoLostWakeup` is not inductive: a thread about to sleep (`TestDone`, `TestFlag`) has
already seen the queue empty, and is not asleep yet. `WakeInv` therefore counts such
threads (`Settling`) with the sleepers, and says that if there is one, the queue is no
longer than the number of pushes still to notify and of threads still to look at the
queue. `SettledQueue` is about the mutex: while a thread is settling, every queued task's
push has still to notify, for nobody notifies while the mutex is held. For
`PromiseKept`, `PromiseInv` follows `stop(true)` up to the join (`Draining`): while promised
tasks are in the queue there is a thread in `slots`, and they have left it (`Drained`)
once such a thread is past its look at the queue or has ended; `join` waits for that. `PushedOnce`, `SlotsDistinct` and
`AttachedRun` say that tasks and threads occur once and that the threads in the vector
were started. Counting needs the cardinality facts of `FiniteSetTheorems`.

From `ChannelAssumption` (a block is not empty and fits its frame), `P3ChannelProofs`
proves

- `ChannelTyped`: `Spec => []ChannelTypeOK`
- `EndsOnlyForCause`: `Spec => []EndsForCause`
- `MessagesInOrder`: `Spec => InOrder`, the refinement of `Delivery`

While the receiver runs, its buffer holds the block of the message handed over last, and
the stream stands behind the first byte of that message's frame and not beyond its end
(`InFrame`); with no split it stands at the end (`InvWhole`). The head of the buffer can
then decrypt only as the next message or, with nothing read, as the last one again.

From `StoreAssumption`, `LifecycleProofs` proves

- `LifecycleTyped`: `LifeSpec => []LifeTypeOK`
- `NeverTornByCrash`: `LifeSpec => []NoTornRow`
- `OnlineForCause`: `LifeSpec => []OnlineIsExplained`
- `RegistrationsSurvive`: `LifeSpec => RegistrationsKept`
- `NobodyComesBack`: `LifeSpec => OnlyRegistrationsEnter`

`LifeInv` keeps `IInv` as it is and adds the process around the calls: a worker in a call has
a connection of its own and the server runs (`Served`); its login or logout is for that
connection's address (`OwnAddress`); a table to be reset is not the constructor's any more once
there are workers, so that no call drops it (`ResetFirst`); and between the two statements of
a logout, who is online at the address is its user or was left there (`LogoutRow`). Without
the last one, a connection could end with somebody online at its address.

From `ClientAssumption` (finitely many users; the special values are none), `ClientProofs` proves

- `ClientTyped`: `Spec => []ClientTypeOK`
- `OpenClientsAreTrue`: `Spec => []OpenIsTrue`

A client opens long after the answer to its login, so `ClientInv` says the same of one that
has yet to bind its port (`BindIsLogged`); no other client's step can take that session away,
and its own menu is closed until it is bound. `Nameless` is for the types of payments.

From `ServerAssumption` (the special values differ from real ones, amounts and the initial
balance are naturals), `ServerProofs` proves, for any `Faults` (each of the specifications contains
`Isolated`: none of these is about calls on one user at the same moment),

- `TypeCorrect`: `Spec => []TypeOK`
- `UsersOnce`: `Spec => []OneSessionPerUser`
- `EntriesKept`: `OrderlySpec => []SessionHasEntry`

and, if `Faults = {}`,

- `AnswersReachWhoAsked`: `OrderlySpec => []AnswersFit`
- `SessionsEndOffline`: `OrderlySpec => []NobodyLeftOnline`
- `ClientsKnow`: `OrderlySpec => []LoginsAreTrue`

The conditions are those of the run `sessions`; that there is one session per user whatever
calls meet is not proved, and not true. Each of the four faults breaks one of the last
three: a client that stops waiting leaves an answer behind, an exception of the database leaves its user
online, and a client of `"relogin"` does not know that it is logged in.

Four invariants build on each other. `CallsCurrent`: what a registration or a login has found
when it looked (nobody of that name; the user, and not online) is still so when it writes; it is
here that `Isolated` is used. `SessionInv`: a connection is served by one worker and
waits in line once (`ConnServed`), and the user of a session is online at the address of its
connection (`SessionOnline`); a login of the same user therefore finds him online, and a
logout elsewhere does not concern him. `EntryInv`: a session that has passed its `push_back` has
its entry; a session that ends has an entry with its user's name until it erases the first
such entry, and if the same user has logged in again by then, the entry of that session comes
later (`EntryLeft`); a search has passed no entry that it looks for (`Index`). `EntryLeft` is
what makes `SessionHasEntry` inductive. Erase and search agree on the index only because no
other session ends in between, which is `Undisturbed`. `TalkInv`: of what a client asks there is,
at any time, one thing under way: the command in `wire` (`OnTheWay`), a worker that carries it out
(`CarriedOut`), or the answer in `back` (`AnsweredRight`). A payment is in one place, the payee's
`mail`, a `wire` or a worker, and its payer waits for it (`TokenInv`); who waits does not leave,
so that the payer's session, whose entry the result is sent through, is there (`RouteInv`), and
every entry that a search can meet belongs to a session or to one about to erase it (`LiveInv`).

From `ParserAssumption` (`REGISTER`, `Exit` and `List` are no names) and `MessageAssumption`,
`ParserProofs` proves

- `ParserTyped`: `Spec => []ParserTypeOK`
- `AloneParsedRight`: `Spec => AloneIsRight`
- `FirstFieldKept`: `Spec => MixedKeepsFirst`

A split whose fields are still empty looks at the first field of its own message
(`FirstIsOwn`), because only the first call of `strtok` is given a message; a split that nobody
overlaps has collected just the fields before its place or `saved` (`OnItsOwn`). How many fields a
mixed split collects has no bound that is linear in the messages: the more threads hold an old
position, the more often one of them takes the others back.

Every invariant of the passing runs is a theorem. Only model-checked: the liveness properties
(`EveryTaskServed`, `StopReturns`, `CommandsAnswered`, `PaymentsAnswered`, `EverythingArrives`,
`SplitsReturn`, `PayersAnswered`), which need `ENABLED` and fairness and are out of the prover's
reach.

## 5. Plan

Every property of the passing runs that is not a liveness property is proved. What could still be
sharpened are hypotheses. `Server` with the statements of a transfer and a logout as steps too could say
what is left of each property without `Isolated`; and `AnswersReachWhoAsked`, `SessionsEndOffline` and `ClientsKnow` exclude all
of `Faults` at once, and each of them should survive some of them; which ones, TLC can tell first.

## 6. Not modelled

- RSA, key files and certificates, terminal input and output, build scripts; the vendored
  library `sqlite_orm` but for what the program sees of it.
- That a wrong block passes the padding check of a decryption by chance, or, with a newer
  OpenSSL, always, as something random that is no message (`P3Channel` lets every
  decryption of a wrong block fail).
- The plain `recv` of a public key at the start of a connection.
- The counters of connected users, which are only printed, and the limit on the command line.
- The loop of `sigint_handler` over `client_fds`, whose pointers may be dead: the process
  ends with it, and the file does not depend on it.
- What overlapping operations on the vector `client_fds` do to its memory.
- The client's second use of `strtok` in its receive thread, and the uninitialised memory a
  payment message is built in (`client.cpp:307`).
