# Verification of P2P_NET_Start

TLA+ models of the P2P server, the Linux client, the Windows client, the database
layer, the socket layer and the task library of this repository, model-checked with TLC on small instances. Every
safety property and refinement that a passing run checks is also proved with TLAPS,
for all instances.

Paths below are relative to `src/P2P_Server_src/` unless they say otherwise.

## 1. The system

| part | state | operations | source |
|---|---|---|---|
| P2P server | the SQLite file `p2pinfo.db` (table `p2p_peerinfo`: one row per user with its address and `loginstatus`), the list `ClientList` in memory, one receive thread | `main()`: open or create the database, bind UDP port 8888, start the thread. `P2PSrvProc`: login, logout, get peers, heartbeat, hole, have-send-p2p, relay | `server.cpp` |
| Linux client | `stPeerLocal.bIsLogin`, a list of peers | `DoInput` (login, get, connect, logout), `SendHeartbeat`, `P2PClientProc` | `client.cpp` |
| Windows client | `bLogin`, `bConnect`, `bRelay`, a list of users, a timer | the dialog's buttons, a receive thread, heartbeat threads | `../P2P_Client_src/client/clientDlg.cpp` |
| database layer | the connection, observers and callbacks | `sqllite_init/query/insert/update/delete/close` | `db_sqlite.cpp` |
| sockets | non-blocking UDP sockets | create, select, receive, send | `FTCSock.c` |
| peer list | a list of pointers to `T_PeerInfo` | look up, test, remove | `FTCPeer.cpp` |
| task library | a handle with `eTskState`, shared by two threads without a lock | create, wait for ready, delete | `FTCTask.c` |
| wire format | | `T_Msg` (server, Linux client), `stCommMsg` (Windows client) | `FTCMessage.h` |

The parts interact in three ways. A client sends a `T_Msg` datagram to the
server for each command and handles what comes back, in whatever order the
network delivers it: no request is numbered, repeated or timed. The server's
thread calls the database layer, whose return value decides what it answers.
Inside a client the threads share `bIsLogin` (Linux) or the dialog's fields and
thread handles (Windows) without a lock; inside the task library the owner and
the task share `eTskState`; the database layer shares one connection, with a
mutex that only some calls take.

What is hard here:

* **Ordering and delivery.** UDP loses, reorders and duplicates. Answers carry
  no number, so the last one to arrive decides what a client believes.
* **Partial failure.** A database call can fail or find the file locked; the
  layer reports some failures as success, and the handler takes others for
  "no such user".
* **Crash and restart.** The file outlives the server, and a half-made one is
  taken as complete. A client that dies tells nobody.
* **Liveness.** The server has one receive thread; whatever makes it return or
  spin silences the server.
* **Timeouts.** The Windows client gives a hole punch two seconds; the answer may
  come later.
* **Shared state without locks.** `TSK_delete` polls a state the other thread
  writes; the three threads of the Windows client share the dialog's fields.

The Windows client speaks `stCommMsg`, not `T_Msg`: the fields are at other
offsets and some ids differ (`MSG_C_LOGOUT` is 8, not 18), so it does not
understand the server of this repository. The server it was written for is not
here; the model takes its behaviour from how `clientDlg.cpp` uses it.

What makes each part correct: a user name belongs to one address until it is
logged out (server); a client believes it is logged in only if it is (client
and server together); every command settles (client, server and network); a
Windows client that reports a P2P connection has one, nobody is told to start
before the punch, a call ends with a connection or in relay mode, and nobody is
quoted to a user he did not write to; logging in and out leaves one receive thread
or none, and no heartbeat behind; a hole punch opens the hole before the caller
uses it; the ids the database layer announces or returns are those of the rows
stored (database layer); what the socket accepted is read once, in order (sockets);
deleting a task ends it, in bounded time, and its memory is not used afterwards
(task library).

`PROJECT.json` lists every component, also those that are not modelled, and
every hazard at its line.

## 2. The modules

| module | what it is |
|---|---|
| `P2PNet` | The network: the set `net` of datagrams in flight and the messages. Any datagram may be received next (reordering); `NetLose` loses one; with `Dup` a received one may stay in flight. A message keeps the fields the handlers read: source and destination, id, the two names and the result byte. |
| `LoginService` | The abstract specification: the addresses that hold each name, the requests under way, and the names that were once granted blindly. Holders change only when a request is served: a login gives a name nobody holds to the address that asked, a logout takes it from all. If lookups may fail, a login may be granted blindly, and only such a name can have two holders. |
| `P2PServer` | `main()` and `P2PSrvProc` as compiled, with the database they use. |
| `P2PServerEnv` | The server with an environment that sends anything the switch dispatches on, from any address with any name. |
| `P2PClient` | The Linux client's commands, heartbeat and receive thread. |
| `P2PSystem` | Server, clients and network composed; the end-to-end properties and the fairness. |
| `FTCTask` | The task library: one owner thread and one task thread. |
| `WinNet` | The network of the Windows clients: datagrams in any order, and the NATs (`opened`: to whom each client has sent). |
| `WinClient` | The Windows client while it is logged in. |
| `WinSystem` | Windows clients, NATs and the external `stCommMsg` server composed; their properties and fairness. |
| `WinSession` | The Windows client's login, logout and end: the dialog's thread, the receive threads and the heartbeat threads. |
| `HolePunch` | The Linux client's peer list and hole punch, behind NATs, with the server's handlers of it. |
| `IdJournal` | Abstract specification of what the database layer tells an insert callback. |
| `DbSqlite` | The database layer with several threads. |
| `DatagramQueue` | Abstract specification of the receive loop: what is accepted is read once, in order, by the switch or as the body of the relay request before it. |
| `FTCSock` | The socket layer under the server's receive loop, with the kernel's queue. |
| `MCServer`, `MCSystem`, `MCTask`, `MCWin`, `MCSession`, `MCPunch`, `MCDb` | Values of the constants for TLC (`FTCSock` is instantiated by its cfg). |
| `P2PServerProofs` | Lemmas about the table operations and about one step of the server. |
| `P2PServerEnvProofs`, `P2PSystemProofs` | The theorems about the server and about server and clients together. |
| `FTCLibraryProofs` | The theorems about the task library and the socket layer. |
| `WinSystemProofs`, `WinSessionProofs` | The theorems about the Windows clients and their sessions. |
| `HolePunchProofs`, `DbSqliteProofs` | The theorems about the hole punch and the database layer. |

### Server

`pc` says where the process is: `off` (not running), `init` (running the
statements of a first start, one per step), `sock` (creating the socket and the
thread), `run` (the receive loop), `relay` (waiting inside the relay handler for
the body), `exited` (the thread has returned while `main()` sleeps) and `spin`
(`FTC_Sendto2` retries for ever). `dbfile`, `schema`, `rows` and `seq` are the
file and survive a crash; `granted` is a history variable.

A handler is one step. That is sound: the receive thread is the only one to use
the database, and a crash between the commit and the reply looks to everyone
like a lost reply followed by a crash. `SystemAssumption` therefore demands a
lossy network wherever the server may crash.

`login` is three actions, one per outcome of its query: `LoginReject` (the row
says online), `LoginUpdate` (it says offline) and `LoginInsert` (the query
returned anything but a row, an error included). What SQLite answers is chosen
from `QueryFaults`, `WriteFaults` and `InitFaults`; `busy` is the fault that
`sqllite_insert` and `sqllite_update` report as success (`WriteRet`).

`ClientList` is the empty set: the statements that fill it are inside `#if 0`.
So `Hole` always answers with a failure, and `HaveSendP2P` and `Relay`, which do
not test before they look up, read what `GetPeerByName` leaves when it runs off
its end: any address, a crash, or an address `sendto` refuses for ever. The body
of a relay is the next datagram, whatever it is.

### Client

`DoInput` may send any command at any time; `Patient` restricts the user to one
command at a time. `Restart` kills the process and starts another, which has a
new port and hence a new address (`<<client, incarnation>>`). The threads
share one word, `bIsLogin`; its accesses are single steps.

### Task library

Every read and write of `eTskState` is a step, for the owner (`TSK_create`,
`WaitTurn`, `DeleteTest`, `DeleteMark`, `DeletePoll`, ...) and for the thread
(`EntryRunning`, `ProcReturns`, `EntryWait`, `EntryIdle`, `EntryFree`).
`Cancelled` is the effect of `pthread_cancel` at a cancellation point. With
`Careful` the owner deletes only tasks that `TSK_WaitforReady` reported ready.

### Windows client

`dlg[u]` holds the fields of one dialog and where its threads are: `gui` is
`ack` while `OnBnClickedBtnSend` polls `RecvedACK` and blocks the dialog's
thread; `recv` is `fill` between `ClientList.clear()` and the `push_back`s,
`punched` during the `Sleep(500)` between `P2PPUNCH` and `P2PHAVECONNECT1`, and
`p2p` or `relay` while the receive thread waits for the text behind a head. A
handler that touches a control (`SetWindowText`, `EnableWindow`, `LineScroll`)
sends a message to the dialog's thread and waits, so it needs `gui = "idle"`
(`UiFree`). Enter in the dialog (`PreTranslateMessage`) is the send button.

`GetLocalUser` of a name that is not in the list has no return statement: the
step may crash the client (`up`), or go on with an address nobody has. A
datagram longer than the announced text overruns a buffer: again a crash or not.
A `recvfrom` that fails behind a head leaves the handler (`RecvTextError`).
`SetTimer` is taken to work from the receive thread. `sent`, `shown` and
`asked` are history.

The NATs are `open`, `cone` (they pass what comes from an address the client has
sent to) or `closed`. The external server sends the list to who asks, tells the
callee of a `MSG_C_HOLE`, sends `P2PCANSTART` to the user named in
`P2PHAVECONNECT1`, and relays a head with its text.

### Windows session

`WinClient` starts logged in; `WinSession` is what comes before and after. The
dialog's thread is between two steps in `login` (sent, receive thread not yet
created), `logout` and `leave` (sent, `bLogin = TRUE` not yet assigned, line 633)
and `quit`. A receive thread goes through `off` and `on`, the two controls of
`UpdateCtrlStates` that matter, `list` (the users are displayed) and starts a
heartbeat thread, whatever the result of the login; `box` is `AfxMessageBox`. A
heartbeat thread tests `bLogin`, sleeps, or terminates the thread `h_recv` names
and then resets the handle, in two steps (`kill`, `null`). `Quit` is what remains
of `OnDestroy` and of the quit button; the process ends with the dialog. The user
may click whenever a button is enabled and the dialog's thread is idle, also while
heartbeat threads of earlier sessions still sleep, and an answer may be handled as
soon as it arrives, before line 633 too. `lost`, `hurried` and `mishaps` are
history; the last records three races of the threads, which the properties name:

* `crossed`: a receive thread is created between a heartbeat's `TerminateThread`
  (line 226) and its reset of `h_recv` (line 227);
* `raced`: a login is answered while a heartbeat that has read `bLogin` as FALSE is
  about to terminate the receive thread;
* `revived`: line 633 sets `bLogin` after the answer to the logout reset it, or in a
  client that was logged out already.

### Hole punch of the Linux client

The server's handlers are those of `server.cpp`: `SrvHole` refuses a callee that is
not in its list and tells one that is, `SrvHaveSend` sends the start order to the
user whom the report names, `SrvHaveSendGarbage` is the same for a name that is not
in the list (`GetPeerByName` runs off its end: any address, a crash, an endless
retry), and `SrvGetPeers` ends the thread, since its query fails. The list itself,
`ClientList`, is filled and sent by code inside `#if 0` only, so `SrvLogin` and
`SrvPeers` are external: a server that lists its users in the order of their logins.
The behaviours without a `SrvLogin` step are those of the compiled server, in which
every `MSG_C_HOLE` is refused; the others are what the handlers are written for.

`ptPeer[u]` is all there is to a client's peer list: every element points to it,
so the list holds as many copies of the last entry of the last answer (its length,
which only grows, is left out). The callee of a punch reports with its own `-r`
argument (`HaveSend`). `RecvHoleReqOverrun` is the effect of the two `memset`s
with a wrong size, `RecvCanStartGarbage` that of `GetPeerByName` for a name that
is absent. A name stands for the public address too; a NAT passes what comes from
whom its client has sent to (`opened`). `ok` is history.

### Database layer

`sqllite_insert` is a sequence of steps: the test that decides `haslock`, the lock,
the slots of the observers one by one (`NextSlot`: the test of line 312; then the
use of the name, `OtherName` or `ReadSeq`), `Prepare`, the step with its outcomes,
the test of the callback (`End`) and its call (`Call`), the unlock. Registering and
unregistering may come between any two of them. An observer that is unregistered
between the test of its slot and the use of its name leaves a freed pointer: the
call is `torn` and reads anything (`ReadFreed`), nothing (`SkipFreed`) or ends the
process (`UseFreed`); a callback that is reset between its test and its call is
called all the same or ends the process (`CallReset`).
`sqllite_delete` and `sqllite_update` take the same way without lock and observer.
`sqllite_close` locks, frees (`db = "freed"`), resets, unlocks and destroys the
mutex in separate steps. `saved` is an open transaction, `announced` the history
of what the insert callback was told. The compiled server registers neither
observers nor callbacks and has one thread; the layer is modelled as the library
it is written to be.

Its users are taken to keep these rules, without which the layer promises nothing:
it is opened only when no thread is inside it; only one thread closes it, while it
is open, and nobody begins a transaction meanwhile; a transaction is rolled back
only if nothing was inserted, and none is open when the database is closed; a
statement mentions no other table's observer. The code tests none of this. SQLite is external (serialised, `AUTOINCREMENT`), and so
are pthread mutexes: a destroyed mutex returns an error that nobody looks at.

### Socket layer

The receive loop of `P2PSrvProc` over `FTC_CreateUdpSock`, `FTC_SelectRead`,
`FTC_Recvfrom2` and `FTC_Sendto2`. The kernel's queue is bounded; a datagram with
a bad checksum makes the socket readable and is dropped when it is read.
`stMsg` records from which datagram its head and its body come, since a short
datagram leaves the rest as it was. `RecvAgain` and `SendAgain` are the retries;
`refused` is an answer to an address that `sendto` never accepts.

What the handlers do to the database is in `P2PServer`; here they matter by what
they do to the loop. `HandleRelay` goes on to read the next datagram itself
(`server.cpp:545`), with the same `FTC_Recvfrom2`, into a buffer of its own and over
`fromAddr`: `RecvBody` and `HandleBody`. `HandleGetPeers` returns -1
(`server.cpp:365`) and ends the thread (`ended`) with the socket open. Any other
case is `Handle`. A handler may crash (`Answers`): `GetPeerByName` runs off its
end, and `recvmessage[recv - 1]` may lie outside its buffer. `handled` records for
each datagram what it was read for.

## 3. The runs

| run | what it checks | result |
|---|---|---|
| `server_faults` | types; the table implements `LoginService`, and `HalfMadeGrantsNothing`, under every database fault, crashes anywhere and interrupted first starts | holds |
| `system_faulty` | `NoPhantomLogin`, `UniqueRow`, `LoginReplyTruthful` with two clients of one name, restarts, loss, reordering, writes that fail openly and server crashes | holds |
| `system_patient` | `BeliefMatchesRegistry`, `CommandsSettle` for users who wait for each answer | holds |
| `system_hole` | `OnlineTargetIsCalled` | violated: the list it looks in is never filled |
| `win_chat` | types; `ConnectMeansReachable`, `StartAfterPunch`, `ShownWasWritten`, for three users, two of whom call and write to the third, with loss and reordering, open and cone NATs, chat and relay | holds |
| `win_punch` | `ConnectSettles`: a call between two users who name each other ends with `bConnect` or `bRelay` | holds |
| `win_call` | `CanStartReachesCaller`: `P2PCANSTART` goes to the requesting end | violated: it goes to the user in the callee's edit field |
| `win_session` | types; `OneReceiver`, `LoggedInListens`, `NeverStuck`, `HeartbeatsEnd`, `QuitLogsOut`, with clicks at any moment, lost and late datagrams | holds |
| `hole_punch` | types; `HoleBeforeStart`, `OkIsMutual`, with three users | holds |
| `db` | types; `AnnouncesJournal` (the layer implements `IdJournal`), `IdIsOfStoredRow`, `OnlyUnlockedCollide`, `LockedNeverFreed`, `CallsReturn` | holds |
| `sock` | types; `HandsOver` (the loop implements `DatagramQueue`), `WholeIsWhole`, `AllHandled` | holds |
| `task` | types, `NoUseAfterFree`, `TerminationSticks`, `DeleteReturns` | holds |

The violations are the entries under "findings" in `PROJECT.json`, with the lines of
the repository they contradict. Where a property that holds needs an assumption, "What
does not hold" below says what happens without it; dropping the assumption in the
cfg shows it.

**Bounds.** The server run uses two addresses, so that a name can be contended
for, and four requests, which reach login, logout, a login by the other address and
one more request handled late, the longest of the patterns the properties speak of.
The system runs use two clients, with one name where contention is the question and
with a name each where the peer is; three commands each reach a login after a logout
of both in every order. One restart per client is enough for an answer to an earlier
process to meet a later one. The task run uses the real
`TSK_DELETE_TRY_TIMES` (100), and time-outs of none, zero and three polls.
`win_chat` has three users, so that two senders and two callers meet at one, whose
field names one of them: a call and a text of the first, which reach relay mode and
chat in either order, and a call or a text of the second. `win_call` needs one click;
`win_punch` has two users with a call each, which reach crossing calls.
`ACK_TRIES` is 1 instead of 10, since each poll only
delays; `MaxClicks` and `MaxBeats` bound the clicks and heartbeats of each user.
All texts have one length. The session run has five clicks, the fewest that lead to
two receive threads, and two slots for receive threads, so that a second can be
seen, and two for heartbeat threads, so that one of an earlier session, or of a
refused login, meets the next. The hole punch has the
smallest set with a pair who name each other and a third who calls one of them, and
three commands: a call by each, or the list and the call of one and another's call. The
database run has two threads, two tables, of which either or none is observed, one
observer slot, and `SERVER_NUM_CYC` is 3 instead of 50, so that three inserts
pass a multiple of it; three calls let an unlocked insert and a close, or a change of
the observers, fall between the steps of an observed insert; its statements have a
VALUES list. The socket run has a queue of two and four arrivals, so
that the queue overflows and a short datagram follows a whole one and precedes
another, and a relay with its body fits in between. Everything the theorems of section 4 cover holds without these bounds.

**Symmetry.** Names and addresses (server), and clients where both have the same
name, are interchangeable. No run that checks liveness uses symmetry.

**Deadlock** is checked except where a system really may stop: users who have
typed their last command or clicked their last button (`system_patient`,
`system_hole`, the Windows runs, `hole_punch`), a task that has been deleted
(`task`), a dialog that has been closed (`win_session`), threads that have made
their last call (`db`) and a server that could not open its socket or has no more
datagrams to read (`sock`).

**Fairness.** The receive loops never block for good, and the kernel queues
datagrams per socket in order of arrival, so no request waits behind later ones
for ever: weak fairness of `P2PSrvProc` for every client and kind of request,
and of each client's `P2PClientProc`. Nothing is assumed of users, of the
network's losses (there are none in that run) or of the server's coming up:
`CommandsSettle` speaks of a server that comes up for good. In the
Windows runs the threads, the polling loop, the timer and the server go on
while they have something to do, and a user closes a message box; clicks are not
assumed. In the database layer threads are scheduled; in the
socket layer the thread runs, and a transient error of `sendto` does not come back
for ever. In the task library both threads are scheduled and the task's function meets cancellation
points; it is not assumed to return.

**What does not hold, and is not claimed.** That the server goes on serving: the SQL
of `MSG_C_GET_PEERS` (`server.cpp:360`) is malformed, the query fails, and the
receive thread returns (`pc = "exited"`); `CommandsSettle` is about the other
commands, and `AllHandled` names the end of the thread. That a file whose first
start failed is repaired: every later start serves it without the table, and all it
promises is to grant nothing (`HalfMadeGrantsNothing`). A Windows client in
relay mode stays there: a `P2PPUNCHOK` that comes after the timer sets `bConnect`,
but nothing resets `bRelay`. `BeliefMatchesRegistry` fails once
clients restart: a `MSG_C_LOGOUT` of a killed client, still in flight, logs out
its successor, because the handler looks only at the name. It fails too for
users who do not wait, by reordering alone. `NoUseAfterFree` fails for an owner
that deletes a task which has not been reported ready: `TSK_delete` takes the
state `IDLE` of a thread that has not started for that of one that has ended.
`UniqueRow` fails when a query may fail (`QueryFaults`): the login handler tests
only for 0 (`server.cpp:168`), takes the error for "no such row" and inserts a
second one, whoever holds the name: the blind grant of `LoginService`. `LoginReplyTruthful` fails when a write may be refused as busy:
`sqllite_update` and `sqllite_insert` return 0 (`db_sqlite.cpp:618`, `455`), and
the client is told of a login that did not happen, although `FTCMessage.h:205`
says of that byte "0:seccuess 1:failed".
`ConnectSettles` is claimed for users who name each other: with another name in the
callee's field (`clientDlg.cpp:507`) `P2PCANSTART` goes to a user who called nobody,
although `p2ptype.h:136` says it goes to the requesting end (run `win_call`); the
caller gets none, hence no timer either, and waits for ever. That a text is shown
under its author's name does not hold with a third user: after a head the next
datagram of anyone is taken for the text (`clientDlg.cpp:388`) and shown under the
head's name, although `p2ptype.h:186` says of that name that it is the sender's. What
does hold, for any number of users, is `ShownWasWritten`.
The session properties name the races in which they fail. Two quick clicks on login,
with answers out of order, are enough for `raced`: a heartbeat thread of the refused
login terminates the receive thread in the middle of `UpdateCtrlStates` and leaves
both buttons dead. `crossed` takes a login while the last heartbeat of an earlier
session ends; five clicks then lead to two receive threads. In `revived` the client
believes it is logged in and its heartbeats go on, so that `HeartbeatsEnd`, which
speaks of a client that is logged out, promises nothing.
`HoleBeforeStart` is claimed for a callee with one caller: with two, the report of
one punch starts the other caller. `OkIsMutual` says that the call of a user whom
the callee's `-r` does not name never ends in "P2P connect ok!" except by a garbage
address.
A hole punch need not complete: the caller finds the callee's address only if the
callee is the last of the list it was sent, and the callee's buffers may overrun.
`CallsReturn` names what it excludes: a mutex destroyed under a waiter, a callback
that inserts under its own thread's lock (`db_sqlite.cpp:485`), and the end of the
process, by a call without the lock that meets the freed connection, or by an
observer (line 312) or a callback (line 481) that is unregistered between its test
and its use. Nor is an id read for an observer freed meanwhile good for anything:
`OnlyUnlockedCollide` and `AnnouncesJournal` leave out such a call. `IdIsOfStoredRow` is claimed for
statements with a VALUES list: without one (`db_sqlite.cpp:357`) the id returned is
a guess that an insert in between makes wrong. `AllHandled` excludes an answer to an
address that is refused for good, on which `FTC_Sendto2` spins (`FTCSock.c:445`), a
handler that crashes, and the end of the thread. `HandsOver` does not say that every
request is served: the datagram that follows a relay request is its body, a login of
another client too. `ConnectMeansReachable` does not say which peer:
`bConnect` is one flag, kept when the user enters another name.

## 4. The proofs

TLAPS checks these for every value of the constants:

| theorem | statement |
|---|---|
| `ServerTypeCorrect` | `EnvSpec => []SrvTypeOK` |
| `RegistryRefines` | `EnvSpec => RegistryIsLoginService`, under all faults and crashes |
| `OneRowPerName` | `EnvSpec => []UniqueRow` if `QueryFaults = {}` |
| `HalfMadeServesNobody` | `EnvSpec => []HalfMadeGrantsNothing`, under all faults and crashes |
| `RepliesTruthful` | `EnvSpec => LoginReplyTruthful` if no write may be `busy` |
| `SystemRefines` | `SysSpec => RegistryIsLoginService` |
| `NoPhantom` | `SysSpec => []NoPhantomLogin` if no write may be `busy` |
| `BeliefIsRegistry` | `SysSpec => []BeliefMatchesRegistry` if `Quiet`: patient users with a name each and no restarts, a network that delivers once, no failing queries, no write that is `busy` |
| `TaskTypeCorrect` | `TaskSpec => []TaskTypeOK` |
| `TaskNoUseAfterFree`, `TaskTerminationSticks` | `TaskSpec => []NoUseAfterFree`, `TaskSpec => TerminationSticks` for a `Careful` owner |
| `SockTypeCorrect`, `SockWholeIsWhole` | `SockSpec => []SockTypeOK`, `SockSpec => []WholeIsWhole` |
| `SockHandsOver` | `SockSpec => HandsOver`: the loop implements `DatagramQueue` |
| `PunchTypeCorrect`, `PunchOkIsMutual`, `PunchHoleBeforeStart` | `PunchSpec => []PunchTypeOK`, `[]OkIsMutual`, `[]HoleBeforeStart` |
| `DbTypeCorrect`, `DbLockedNeverFreed` | `DbSpec => []DbTypeOK`, `DbSpec => []LockedNeverFreed` |
| `DbIdIsOfStoredRow` | `DbSpec => []IdIsOfStoredRow` if every insert has a VALUES list (`WithValues`) |
| `DbOnlyUnlockedCollide` | `DbSpec => []OnlyUnlockedCollide` if a statement mentions only its own table (`OwnTable`) |
| `DbAnnouncesJournal` | `DbSpec => AnnouncesJournal` if `OwnTable`: the layer implements `IdJournal` |
| `WinTypeCorrect`, `ConnectReachable` | `WinSpec => []WinTypeOK`, `WinSpec => []ConnectMeansReachable`, for any users, NATs, targets and bounds |
| `StartFollowsPunch`, `TextsWereWritten` | `WinSpec => []StartAfterPunch`, `WinSpec => []ShownWasWritten`, for any users, targets and texts |
| `SessTypeCorrect`, `SessOneReceiver`, `SessLoggedInListens`, `SessNeverStuck` | `SessSpec => []SessTypeOK`, `[]OneReceiver`, `[]LoggedInListens`, `[]NeverStuck`, for any user, threads and clicks |

The preconditions are needed: section 3 says what happens without them.

*Registry.* The holders of a name are the addresses of its rows that are online, all
of them; the requests of the abstract service are the login and logout datagrams in
flight; a name is doubled if it has two rows. A step that changes the holders must
then take a request of the right kind out of the network, which is what
`RequestServed` says of the handlers; main, a crash and a restart leave the table
alone. That a login with a row gives the name to one address needs that the row the
query reads, the one of least id, is the only one unless the name is doubled, and
that ids are natural numbers, distinct, and at most `seq` (`Table`). `LoginEffect`,
`LogoutEffect` and `OtherEffect` say what each handler does to the table;
`FirstIsLeast` takes the least id from the well-foundedness of the natural numbers.

*Half-made file.* `HalfMadeGrantsNothing` is inductive with the types: without the
table every query and write fails, a failed write is answered with 1, and no step
takes the table away once it is there.

*No phantom login.* The strengthening says that every `MSG_R_LOGIN` with result 0
in flight is addressed to a pair of address and name in `granted`, and that the
requests in flight carry the name of the client whose address they come from, an
earlier incarnation included. The first is what the receive step needs, the
second what the server's step needs to establish it.

*Task library.* The invariant ties the two program counters to the shared state
and to the memory: after "ready" the thread is past its write of `RUNNING`; the
state is `RUNNING` until the owner marks it; the handle is freed only when the
thread is dead, after the join or because it was found `IDLE` at the end.

*Windows clients.* `ConnectMeansReachable` speaks of the NATs after the last
message of a punch; the strengthening (`Honest`) says what the messages under way
prove: who sent a `P2PPUNCH2` has opened its NAT for the receiver, and a
`P2PPUNCHOK` travels between two NATs each open for the other. Both stay true
because no step closes a hole (`Grows`). That the polling loop stays within
`ACK_TRIES` needs that it is entered with a poll to go (`AckLoop`), and that what
is sent has an address needs that a call names its caller.

*Calls and chat.* `CallInv` follows a call through its four messages: each goes on
behalf of a user who asked, and a client between punch and report (`Punchers`) has
opened its NAT for such a one. It does not say for whom the report is: that is the
name in the edit field. `ChatInv` says of every text under way that it was said by one
who wrote to the user it goes to, of every head that it names such a one, and of every
head that waits for its text the same. So whatever datagram is taken for the text,
author and name shown are users who wrote to the reader, if not the same. What each
thread may send, and that no step takes back what was asked or said, is in
`ClientAdds`, `Sends` and `OnlySendSays`.

*Sessions.* None of the three properties is inductive. `SessInv` ties the threads
together: unless a login crossed a heartbeat's end, a running receive thread is the one
`h_recv` names (`HandleNames`) and a heartbeat resets the handle only after the end of
that thread (`NullAfterKill`); a logged-in client without a mishap has no heartbeat
that is about to end it (`Listening`); while the receive thread changes the buttons
nobody can terminate it, unless the login was raced (`Switching`). Nothing is assumed
of the user or of the answers.

*Belief.* `BeliefMatchesRegistry` speaks of a client with nothing outstanding. The
invariant says what holds before: a client has at most one request or answer
outstanding (`OneAtATime`, which needs that nothing is duplicated); each request is by
the client whose name it carries; a client that believes, and for which no answer to a login
or logout is on its way, is the holder of its name, and so is one to whom a positive
answer is on its way (`Believes`). A logout is always answered with 0, so the client does not go
on believing.

*Hole punch.* `Honest` says what each message of the exchange proves: a request to punch
goes to the user its caller's `-r` names; a report, and the start order made from it,
come from a callee who has opened its NAT for one of its callers (`Punched`); a start
request whose address was found goes to such a callee, and its `-r` names the sender.
A callee that sleeps before its report has punched (`SleepsAfterPunch`). With one
caller, the one it has punched for is the sender of the start request.

*Database.* Three layers. `LockInv` is mutual exclusion with a mutex that can be
destroyed: while it is live only its owner is inside; the one thread that closes is
where `db` says; an id that went into a statement belongs to the owner of the lock.
`SeqInv` says that `sqlite_sequence` is above every row of its table, in an open
transaction too, and that an id which was read and not used is above it, unless a call
without the lock came in between. `Ascending` adds that everything announced is below
the id in use; that the id skips multiples of `SERVER_NUM_CYC` is `NextIdType` and
`NotBothMultiples`. The refinement of `IdJournal` is one step: the callback.

*Sockets.* The kernel's numbers grow along the queue; what was accepted and not yet read
is, in order, the intact part of the queue (`QueueIsUnread`); and the buffer holds head
and body of the same datagram while a whole one is in hand. Reading a datagram, in the
loop or inside the relay handler, then takes exactly the next one accepted; that it is
taken as a body exactly when the one before was a relay request is `RelayOpen`. The
four handlers are one step of `DatagramQueue` (`HandlersHandle`).

Every safety invariant, action property and refinement that a run checks is proved.
Left to TLC is liveness (`CommandsSettle`, `DeleteReturns`, `ConnectSettles`,
`HeartbeatsEnd`, `QuitLogsOut`, `CallsReturn`, `AllHandled`), which
needs fairness and `ENABLED`, and the prover treats neither.

## 5. Plan

Done: every part of the compiled programs that keeps state, and the proofs of all that
the runs check except liveness. What is left, in this order:

1. Belief under loss. `BeliefMatchesRegistry` fails when the answer to a logout is lost;
   what remains, that only a client's own logout makes its belief wrong, can be stated
   and proved.
2. The steps behind the liveness properties that are safety: that the polls of
   `TSK_delete` and of the acknowledgement loop decrease a bound, and that an
   outstanding command is always a datagram the server or the client can take.

## 6. Not modelled

`FTCMutex.c` (one pthread call per function), `FTC_Time.c`, `nettool.cpp`,
`FTCIcmp.c` (conversions, a query, an empty file), `use_func.cpp` (not compiled),
the MFC shell, the vendored SQLite and UDT headers and the binaries. The address
book fields that no modelled property depends on (LAN address, device type, ID)
and all texts printed are left out. The overruns of buffers
and the unterminated look-up appear by their possible outcomes only.

`RemovePeerByName` has no caller; `sqllite_exec` runs a statement of its caller's
and keeps no state; `FTC_Recvfrom` and `FTC_Sendto` are the loops of `FTC_Recvfrom2`
and `FTC_Sendto2` with other parameters and have no caller either. The two byte
layouts (`T_Msg`, `stCommMsg`) are left out: no program here receives both.

Met while modelling and left to the reader of the code, since no state of a model
depends on them or nothing calls them: `TSK_create` allocates the size of a pointer
(`FTCTask.c:127`); `RemovePeerByName` skips the element after one it removes
(`FTCPeer.cpp:103`); an observed table is found with `strstr`, so a table whose name
ends in another's is numbered from the other's sequence (`db_sqlite.cpp:320`);
`TerminateThread` may stop the receive thread while it holds a lock of the C runtime
(`clientDlg.cpp:205`, `226`); `RecvedACK` is one flag for every peer and text
(`clientDlg.cpp:849`).

Most of the tree is not this program's own code. Of some 22,700 lines of C, C++ and
headers, 11,900 are the SQLite headers and 3,800 those of UDT; 826 are
`use_func.cpp`, and about 300 of `server.cpp` are inside `#if 0`. What remains,
about 5,000 lines, is half declarations, comments and output; the modules cover the
functions that keep state.
