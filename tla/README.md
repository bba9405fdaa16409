# A TLA+ model of the DVS video server

The repository (`src/multi_chs_test`) is the network side of a digital video
server. It reads encoded H.264 frames, copies them to the channels of the board,
and sends each channel by RTP to the clients that opened it. Clients control the
server through a TCP connection. This directory models the parts of it that carry
its own logic, checks them with TLC on small instances and proves most of the
safety results with TLAPS for every instance.

Paths below are relative to `src/multi_chs_test`. The repository has no manual and
no tests of the server; what it promises is in its header comments.

## 1. The system

| Component | State | Operations | Talks to |
|---|---|---|---|
| Process life, `core/src/main.c`, `core/inc/common.h` | global data under one mutex (`quit`, exit state, channels, resolution), thread handles | start all threads, poll the exit state, set quit, join, `rtp_exit`, clean up | everything |
| Session thread and sub-session threads, `core/src/session.c` | fifos, thread handles, loop counters | `sessionThrFxn`, `subSessionThrFxn` | encoder (fifos), client table |
| Client table, `core/src/session.c` | `g_clients`: 10 records with client ID, channel flags, session IDs; no lock | `add_client`, `del_client`, `open_channel`, `close_channel`, `send_to_client` | service threads, sub-session threads |
| RTP session table, `utils/com/src/rtpsend.c` | `g_rtpSessionMgr`: 32 entries with pointer and time-stamp; no lock | create, send, remove, `rtp_exit` | client table, oRTP |
| TCP server, `network/src/server.c`, `serverIf.c` | connection slots; per service thread its client ID | accept, the DVS commands, clean-up | client table, exit state |
| Encoders, `core/src/videoEncode.c`, `audioEncode.c` | one frame buffer per channel | read, copy, put, FLUSH | fifos |
| Alarm thread, `network/src/server.c` | none | sends random alarm packs to all connections | connection slots |
| Rendezvous, fifos, `utils/osa/inc` | count, mutex, condition; a pipe | meet, force; open, close, get, put | all worker threads |
| OSA queues, semaphores, flags, buffers, `utils/osa/src/osa_{que,sem,flg,buf}.c` | a ring, a count, a pattern of bits, reader counts; each with a mutex and condition variables | blocking and polling operations | its users |
| OSA mailboxes and tasks, `osa_{msgq,mbx,tsk}.c` | a receive and an acknowledgement queue per task, messages and parameters on the heap | send, broadcast, acknowledge, flush, wait for a command | the tasks of `osa_test.c` |
| OSA inter-process objects, `osa_ipc.c` | System V message box, shared memory, semaphore | open, create, destroy, send, lock | the processes of `osa_test_ipc.c` |
| Serial port server, `uart/src` | a second TCP server with reused slots, the serial line under a mutex | PTZ and serial set-up commands, stop | its own clients |
| oRTP scheduler, `utils/ortp/src/{scheduler,sessionset,posixtimer}.c` | a list of sessions, a mask of positions, the time | add, remove, tick, select | every scheduled session |
| oRTP sessions, `rtpsession.c`, `rtpparse.c`, `rtpmod.c`, `rtcp.c` | wait points, reordering queue, statistics | paced send and receive, reports, reset | RTP session table, network |
| oRTP message blocks, `str_utils.c` | reference counts of data blocks | allocate, share, copy, free, queue | oRTP sessions |
| oRTP telephone events, `telephonyevents.c` | the pending event | send a DTMF, report its end | oRTP sessions |

What is hard here:

* **No locks.** The service threads (one per connection), the sub-session threads
  (four) and the main thread all work on the two tables without a lock.
* **Start and stop.** Four worker threads meet at a rendezvous. On exit the quit flag,
  the FLUSH messages through the pipes, the joins and `rtp_exit` have to come in an
  order in which nobody uses what is already gone and nobody waits for ever.
* **Limits.** There are ten client records but 32 RTP sessions, which is enough for four
  clients of eight sessions. The error paths are therefore normal paths.
* **Protocol sequences.** A client may send the commands in any order, or vanish.
* **Threads that hand over addresses.** The sub-session threads and the serial port's service
  threads get a pointer to a loop variable their creator goes on changing.
* **Circles.** RTP numbers have 16 bits, time and timestamps 32, and all of them wrap.
* **Shared memory blocks.** A packet is shared between queues, the application and the network by
  reference counts, and its header is converted in place when it is sent.

What makes each part correct:

* *queue*: it is a bounded FIFO; no wake-up is lost.
* *client and session tables*: no two clients share an RTP session, none has a destroyed
  one, none is leaked; a frame reaches exactly those who opened its channel; one client's
  end does not touch another.
* *threads*: nobody works before everybody is initialised; a fifo has one reader and
  is not used outside its life; nothing uses RTP after `rtp_exit`; the process ends
  when asked to.
* *servers*: a connection is served by its own thread on its own socket; the alarm thread never
  meets a half-filled slot or a closed socket; the stop routines return.
* *mailboxes*: a message has one owner; a call that waits gets its own answer, and returns.
* *semaphores, flags, buffers*: no wake-up is lost; a buffer is in one place and comes back.
* *oRTP*: a packet leaves when its time has come, and not before; delivery is in order, each packet
  once; a block is freed when its last holder is done, and only then.

## 2. The modules

| Module | Models | Role |
|---|---|---|
| `OsaQueSpec` | – | abstract bounded FIFO with blocking and non-blocking calls |
| `OsaQue` | `utils/osa/src/osa_que.c` | ring, mutex, `condRd`, `condWr`; implements `OsaQueSpec` |
| `OsaQue_proofs` | | theorems about `OsaQue` |
| `ServerLife` | – | abstract life of the server: what `ClientMgr` takes for granted and `Dvs` implements |
| `ClientMgr` | `session.c`, `rtpsend.c`, `serverIf.c`, part of `server.c` and `main.c` | the two tables and the commands |
| `ClientMgr_proofs` | | theorems about `ClientMgr`: types, sharing, registration, leaks, time-stamps, delivery |
| `Dvs` | `main.c`, the threads of `session.c`, `videoEncode.c`, `audioEncode.c`, `rendezvous.h`, `fifoutil.h` | start, work and stop of the threads; implements `ServerLife` |
| `Dvs_proofs` | | theorems about `Dvs` |
| `OsaMbx` | `osa_msgq.c`, `osa_mbx.c`, `osa_tsk.c` | mailboxes with acknowledgements |
| `OsaSem`, `OsaFlg`, `OsaBuf` | `osa_sem.c`, `osa_flg.c`, `osa_buf.c` | synchronisation and buffer exchange |
| `OsaIpc` | `osa_ipc.c` as `osa_test_ipc.c` uses it | System V objects, processes that are killed |
| `OsaSync_proofs` | | theorems about `OsaSem`, `OsaFlg`, `OsaBuf`, `OsaIpc`, `OsaMbx` |
| `TcpServer` | `server.c`, the frame of `serverIf.c`, the stop in `main.c` | listener, alarm thread, connection slots |
| `UartServer` | `uart_server.c`, `uart_service.c`, `uart_operate.c` | serial port server |
| `Servers_proofs` | | theorems about `TcpServer`, `UartServer` |
| `OrtpScheduler` | `scheduler.c`, `sessionset.c`, `posixtimer.c`, the paced calls of `rtpsession.c`, `ortp.c` | pacing of sends and receives, select |
| `OrtpRecv` | `rtpparse.c`, `rtpmod.c`, `jitterctl.c`, the receiving calls of `rtpsession.c`, the report of `rtcp.c` | lost, repeated, reordered packets |
| `OrtpRecv_proofs` | | theorems about `OrtpRecv` |
| `OrtpMsg` | `str_utils.c` and its users in `rtpsession.c`, `rtcp.c`, `telephonyevents.c` | life of the message blocks |
| `OrtpMsg_proofs` | | theorems about `OrtpMsg` |
| `OrtpTev` | `telephonyevents.c` | telephone events from sender to application |
| `Ortp_proofs` | | theorems about `OrtpScheduler`, `OrtpTev` |
| `MCOsaQue`, `MCClientMgr`, `MCDvs`, `MCOsaMbx`, `MCOrtpSched` | | instances for TLC |
| `MCOsaSync`, `MCServers`, `MCOrtpRecv` | | instances of several independent components |

In the last three a variable `which`, chosen in the initial state, says which component the behaviour
is about; the others keep their initial state. The components share nothing in the code either, so
interleaving them would add states and no behaviour.

### OsaQue

A thread touches the ring only with the mutex held, so one turn of the `while(1)`
loop is one step. `pc` says whether a thread competes for the mutex, sleeps on a
condition variable, or is outside. `pthread_cond_signal` moves one sleeper, any
one, back to the competitors; a spurious wake-up may do so too. `Contents` (the
entries from `curRd`, oldest first) and `Pending` (the calls not yet answered) are
the refinement mapping to `OsaQueSpec`.

### ClientMgr

A step is one whole operation: a command of a connection, a frame, or an action of the
main or session thread. `clients`, `sessions` and `conns` are the two tables and the
locals of the service threads. `added`, `types` and `opened` record what a client has been told
and which ports it gave, so that properties can compare that with the tables.

Clients may do anything: send the commands in any order and any number of times, with or without
ports, and vanish. Some of these sequences make the code lose track of a session or a client. Rather than
forbid them, the model lets them happen and marks them in the history variable `faults`, which no action looks at
except through `MaxFaults`, the bound on how many kinds of them a behaviour has:

| Mark | What the code has done |
|---|---|
| `stale` | `add_client` gave a record with session IDs of its last owner to a client without a port for that stream (`session.c:160` did not clear them) |
| `partial` | `add_client` failed after it had created sessions, and left them behind (`session.c:116`) |
| `reset` | `del_client` cleared the IDs of record `chs / CHS_PER_SESSION`, which is another client's (`session.c:160`) |
| `alien` | a connection without a client acted on a record in use through its uninitialised `clientID` (`serverIf.c:38`) |
| `again` | a connection that had a client added another, and forgot the first |
| `early` | a client was added before `init_session_tsk` had run (a record counts as used until then, so only an `alien` clean-up makes this possible) |

A property says which of the marks excuse it, and holds in every behaviour until one of those has happened: so it also says that
nothing else can break it. None excuses itself with a mark it does not need (section 3; `early` never comes without `alien`). Points worth knowing:

* The creation loop of `add_client` is one choice of the lowest free IDs (`Grabs`).
  When the table runs out, the sessions made so far stay, as in the code (`AddVideoFails`,
  `AddRest`). The answer of a failed `add_client` is -2 or -3, and the service thread takes it for its client ID.
* `del_client` resets the session IDs of record `chs / CHS_PER_SESSION`, the value of its
  loop counter, instead of its own record; so does `DelClients`.
* `clientID` of a service thread is not initialised: `Connect` chooses it from `Garbage`.
  When a record outside the table is touched (index -2, -3 or garbage), `wild` is set and
  the model stops, since nothing can be said about the program any more.
* A pack with a wrong header is answered with an error and then executed anyway
  (`serverIf.c:67-82`), so the header plays no part in the model.
* Ports are abstracted to "given" (> 0) or "absent"; a session is identified by the
  destination it was made for: client host, type and group.
* `LoopTop` joins the test of the quit flag to the end of the previous command. The
  interleavings this leaves out (quit set while a thread is between the test and `recv`)
  are those of a thread in `recv`, which the model has.
* The resolution is left out: it is stored and read back, and nothing depends on it.

### Dvs

A step is what a thread does between two operations the others can see. The constants
`SpuriousWakeups`, `InitMayFail` and `LateStart` switch on the environment's misbehaviour:
`pthread_cond_wait` returning without a signal, `malloc` or `pipe` failing at start, a new
thread needing more than the 10 ms the code gives it. `n` in a queued element (the frame the
writer meant) and `overrun` (the encoder woke up before a pipe was drained) are history
variables. After `close`, a put fails and the caller does not notice. A write into a full pipe
blocks. `FifoUtil_close` closes the reading and the writing end in one step. A put between the two, or one that sleeps in a full pipe, gets a
`SIGPIPE`, which nobody handles and which ends the process; the model lets that put fail and go on. This only adds
behaviours after a point where the program has none, and a process that is gone has ended, which is all that `ShutdownCompletes` asks. What `send_to_client` does is `ClientMgr`'s subject; here it only counts `nsent`.

### ServerLife: how ClientMgr and Dvs fit together

`ClientMgr` lets frames be sent, the clients be deleted and `rtp_exit` be called under simple
guards (`sessionThr`, `quit`). That these guards are right is a fact about threads, joins and
FLUSH messages. `ServerLife` states them as a small specification, and run `threads` checks that
`Dvs` implements it; theorem `ImplementsLife` of `Dvs_proofs` proves it when the initialisations succeed. For
`ClientMgr` there is nothing to show: its guards are those of `ServerLife`.

### OsaMbx

A message is a heap block that the sender allocates and the receiver frees, or sends back as its own
acknowledgement, and then the sender frees it; a broadcast shares one parameter among its messages.
`heap`, `prms`, `rcv`, `ack` are these; `call` is the place of a task inside a mailbox call, so that a
send, the wait for its acknowledgement and its end are separate steps. Blocks freed twice are recorded
in `freed`. A queue is the bounded FIFO that `OsaQue` is shown to implement. Messages only go down a
hierarchy (`Below`), as in `osa_test.c`: two tasks that wait for each other's acknowledgement
would wait for ever, since a waiting task reads only its acknowledgement queue.

### OsaSem, OsaFlg, OsaBuf, OsaIpc

* `OsaSem`, `OsaFlg`: everything between lock and unlock (or the wait) is a step; a woken thread
  competes for the mutex again, and another thread may take the count or the bits first.
* `OsaBuf`: buffer numbers go from the empty queue through a writer, the full queue and all the
  readers back. Counting a reader and putting the buffer back are two steps, as the code unlocks between
  them.
* `OsaIpc`: the kernel's objects have identifiers and outlive the processes. The check and the
  post of `OSA_ipcSemUnlock` are two steps, and so are `semget` and `SETVAL`. A server may be killed
  anywhere.

### TcpServer, UartServer

`TcpServer` has main, the listener, the alarm thread and one service thread per slot. Filling a
slot, counting it and starting its thread are separate steps, as are the closing of a socket and the join
of its thread. A thread may fail to come about: the listener does not look at the result, and the slot stays counted. So
`clean_tcp_listen_thread` may join a handle that names no thread, that of such a slot or of one the listener has counted and not
yet given a thread (`JoinsNoThread`). POSIX leaves that undefined, and glibc follows the null handle: the model lets the join return
at once or end the process (`tcpMain = "crashed"`). There are at most `CLIENTNUM` connections: slots are not reused and the
count is not compared with their number, so the next one would be written behind the array.
`UartServer` has reused slots, a stop routine that reads and clears them while service threads do the
same, and the mutex of the serial line. A new thread reads its slot number through the address of the listener's `clientNo`, at any
later time; if by then the slot with that number is not its own, the history variable `misread` says so and the model goes on.
A listener that cannot create a thread ends and leaves the slot taken, with a handle that the stop routine will join
(`uartJoinsNoThread`). `LateConnects` (connections are also accepted during the stop) is `FALSE` in the run, which the code does not ensure (see
below).

In both a client connects when it is accepted, since how long it waited matters to nobody, and connections are named in the
order of acceptance.

### OrtpScheduler

One pass of the scheduler holds its lock; a session's thread holds the lock of its wait point from the
test of the time to the update of the session set, except while it sleeps. The sets have no lock: setting a
bit is a read and a write (`SelectReads`, `SelectWrites`). Times and timestamps are numbers on circles of
`TimeMod` and `TsMod`; the comparison is the signed one of `TIME_IS_NEWER_THAN`. A session is used by one
thread and destroyed outside its calls.

### OrtpRecv, OrtpMsg, OrtpTev

* `OrtpRecv`: the sender numbers its packets `1..N`; what the receiver sees of the number is a
  16-bit sequence number and a timestamp, both on a circle. The network loses, repeats and reorders, and brings datagrams
  shorter than an RTP header (`Runt`). A call of the
  application (read the socket until it is empty or an error stops the reading, parse, queue, take by time-stamp, copy into the
  user's buffer, put back what did not fit) is one step. Properties compare the receiver's
  queues and counters with the numbers the sender meant.
  A packet whose timestamp is `JumpLimit` or more ahead goes past the test for old packets, to the handlers of `timestamp_jump`, which do
  nothing or reset the session before the packet is queued (`resets`, chosen in the initial state). `rtp_recv` runs before the lock
  is taken, so such a reset does not lock twice. A limit of zero, which also results when the payload type is undefined, puts the far future at half of
  the circle, just where the old packets begin; the default of 5000 ms (`rtpsession.c:136`) does not. Only for the properties, `missed` records that an old packet
  got past both tests, `runts` and `kept` what `packet_recv` leaves out.
* `OrtpMsg`: a message is the sequence of data blocks its parts point to. Each function of the
  library that touches messages is a state transformer, and a call is the composition of them in the code's
  order. What is in a packet is chosen freely. `mp`, `m1`, `m2` and `m3` are the messages a call works on and `rep` the
  RTCP packet it sends, which is another message than the one the call returns. A call starts when `PerCall` blocks
  are free (`rtp_session_send_dtmf` with its reports takes most), so an allocation never fails inside one: the code
  does not look at what `malloc` returns.
* `OrtpTev`: five packets per DTMF, the last one three times. `evbuf` in
  `rtp_session_check_telephone_events` points behind the message block, not to the event, so the
  flag that suppresses repetitions is a word of the block; the model keeps that word.

## 3. The runs

Passing runs:

| Run | Instance | Checks |
|---|---|---|
| `que` | 3 threads, ring of 2, 2 values | `RingOK`, `NoLostWakeup`, refinement `FifoSpec`, liveness `SleepersHaveReason` |
| `clients` | 2 connections, 2 records, 3 sessions, 1 group, with and without audio, any client ID, 1 fault, 1 frame | `NoSharedSession`, `NoLeakedSession`, `ServedUntilGone`, `FreshTimeStamp`, `DeliversExactly`, `OthersUntouched` |
| `deliver` | 2 connections, 3 records, 5 sessions, 4 channels in 2 groups, with and without video | `DeliversExactly` |
| `threads` | 4 channels in 2 groups, 2 frames | `InitBarrier`, `FrameIntact`, `LifeSpec`, `ShutdownCompletes` |
| `thread_faults` | the same with pipes of 2 elements, failing initialisation, spurious wake-ups | `FifoInv` (`NoGetAfterClose`, `OneReaderPerFifo`), `NoThreadOutlivesRtpExit` |
| `mailboxes` | a main thread above a sequencer above a worker, queues of 1, 2 commands, 3 calls | `HeapInv` (`OneOwner`, `PrmOutlivesMessages`), `AckInv` (`AcksExpected`, `AnswerIsTrue`), liveness `CallsReturn` |
| `osa_sync` | 4 threads at a semaphore of 2; 1 waiter and 3 bits; 3 buffers, 2 writers, 2 readers; 2 servers and 2 clients | `SemInv` (`SemNoLostWakeup`), `FlgInv` (`FlgNoLostWakeup`, `FlgGotRight`), `BufOnePlace`, `IpcInv` (`IpcNothingLeft`, `IpcSemLimit`), liveness `BufReturns` |
| `servers` | 3 TCP connections; 3 serial connections for 2 slots; threads that cannot be created or start late | `TcpInv` (`AlarmOnOpenSockets`, `OneLateConnection`), `UartInv` (`UartServedByOwn`, `UartNotInBetween`), liveness `TcpStops`, `UartMutexFreed`, `UartStops` |
| `rtp_sched` | 2 sending sessions, circles of 16, 2 calls | `ListInv` (`ListMatchesMask`, `ListIsAlive`), `NotBeforeTime`, liveness `CallsPaced`, `SelectSees` |
| `rtp_recv` | 7 packets and runts over the end of 16 numbers, jumps with and without reset, 4 arrivals, 3 calls; 4 calls on message blocks; 3 telephone events | `OrderInv` (`RqSorted`, `DeliveredInOrder`), `NothingUnaccounted`, `ReportInv` (`ExtSeqIsHighest`, `LossIsReal`), `BlockInv` (`BlocksHeld`, `NothingLeaked`), `WireInNetworkOrder`, `TevInv` (`EndReportedOnce`, `EndNotMissed`) |

An invariant with names in brackets is the conjunction of these parts and of the module's type
invariant, where it has one. The type invariants of `OsaQue` and
`ClientMgr` are proved, not model-checked; that of `Dvs` is both (it is part of `FifoInv`).

Runs that show a disagreement between the code and what it says of itself (each is a finding
in `PROJECT.json`):

| Run | What happens |
|---|---|
| `after_rtp_exit` | a client is added after `rtp_exit`, which comes before the service threads are stopped |
| `put_after_close` | the readers leave on the quit flag in the middle of the encoder's puts; the fifos are closed under it |

The properties of the passing runs name the faults of the code they exclude, or hold under assumptions that the cfg states. Each of the
following changes makes TLC show what the code does without them (check the named property alone: some of the
changes break others first; with `CHECK_DEADLOCK FALSE` where a thread may hang):

| Run | Change | Violated | What the code does |
|---|---|---|---|
| `clients` | check `AddFailureReported` | it | the client that meets the full session table is told SUCCESS: only -1 is taken for a failure (`serverIf.c:90`) |
| `clients` | without `"stale"` | `NoSharedSession`, `OthersUntouched` | a client that gives no audio port gets the old audio sessions in its record, which may be another's by now (`session.c:160`) |
| `clients` | without `"partial"` | `NoLeakedSession` | the sessions of a failed `add_client` belong to nobody (`session.c:116`) |
| `clients` | without `"reset"` | `OthersUntouched`, `NoLeakedSession`, `DeliversExactly` | the end of one client erases the session IDs of record `chs / CHS_PER_SESSION` (`session.c:160`) |
| `clients` | without `"alien"` | `ServedUntilGone`, `DeliversExactly` | a connection that closes without ADD_CLIENT deletes another client (`serverIf.c:38`) |
| `clients` | without `"early"` | `NoLeakedSession` | `init_session_tsk` forgets the clients added before it (`session.c:173`) |
| `clients` | without `"stale"` or without `"again"` | `DeliversExactly` | a frame goes to the old client too; a second ADD_CLIENT leaves the first client's record open for ever |
| `threads` | `SpuriousWakeups = TRUE` | `InitBarrier` | `Rendezvous_meet` waits under an `if`, not in a loop |
| `threads` | `InitMayFail = TRUE` | `ShutdownCompletes` | one failed initialisation and the process never ends (`session.c:299`) |
| `threads` | `LateStart = TRUE` with `OneReaderPerFifo` | it | two sub-session threads read the same fifo (`session.c:313`) |
| `osa_sync` | `FlgWaiters = {w1, w2}` | `FlgInv` | `OSA_flgSet` wakes one waiter, maybe the wrong one |
| `servers` | check `~misread` | it | a thread reads the number of the next connection's slot (`uart_server.c:100`) |
| `servers` | `LateConnects = TRUE` | `UartStops` | a connection accepted during the stop takes the slot just cleared, and the stop routine joins its thread, which nobody has told to end (`uart_server.c:128`) |
| `servers` | check `~JoinsNoThread`, `~uartJoinsNoThread` | they | the stop routine joins a slot whose thread is not created yet, or never was (`server.c:137`, `uart_server.c:130`) |
| `rtp_sched` | `LateDestroy = TRUE` | `ListInv` | a session that left scheduled mode stays in the list after its destruction (`rtpsession.c:194`) |
| `rtp_sched` | one session, `MaxSessions = 1`, `TsMod = 8`, `FirstTs = 0`, `TsSteps = {4}`, `LongAfter = 0`, `MaxCalls = 3`, `MaxTicks = 6`, `LastCall = 4` | `NotBeforeTime` | the difference of timestamps is converted to milliseconds, whose circle is longer: after the timestamps wrap a packet is sent too early (`rtpsession.c:1110`) |
| `rtp_recv` | `JumpLimit = 0`, check `~rs.missed` | it | with the test for jumps switched off, a late packet passes for one of the far future and is queued (`rtpparse.c:157`, `rtpsession.c:1770`) |
| `rtp_recv` | check `LossBounded` | it | a repeated packet makes the unsigned loss negative, which is about 2^32 (`rtcp.c:228`; `rtp.h:70` has "cumulative number of packet lost") |

### Bounds

* `ClientMgr`: as in the build, the record `chs / CHS_PER_SESSION` that `del_client` resets exists and can be in use, and the session
  table is too small for all the records, so that `add_client` fails at the video loop, at the audio loop and for want of a record. Two
  connections are enough for one to act on the other's record, to inherit it, and to add twice; each mark but `early`, which needs an `alien`
  step first, is reached as the only one. `MaxFaults = 1` lets a behaviour go on after its first kind of fault, since a property that one mark excuses must survive the
  others; the theorems have no such bound. One frame (`MaxSends`) is enough to leave a time-stamp behind. `TS_MOD` replaces
  2^32, which only the wrap-around of the time-stamp depends on. `deliver` has two groups, so that the channel has to be divided; it
  stops at the first fault. The shutdown is part of every run.
* `Dvs`: two groups are enough for one reader to leave on the quit flag and another to wait
  for the FLUSH; two frames let the second overwrite the first. `PIPE_CAP` is never reached in
  `threads` (a Linux pipe holds more than two thousand elements) and is reached in
  `thread_faults`. There the process may hang, so deadlock is not checked.
* `mailboxes`: queues of one are full at once; three calls let a send, a broadcast and a flush meet.
  Three tasks make a broadcast with two receivers, one of which broadcasts itself.
* `osa_sync`: four threads at a semaphore of two, so that two may sleep while two are woken. Three buffers
  let each of two readers hold a different one. `MaxIds` and `MaxRuns` bound the objects made and
  the clients started; a server killed between its three opens and a second one are within them.
* `servers`: a third serial connection finds the two slots taken or reuses one. Three TCP connections let one
  be served, one be in the listener's hands and one come after quit. Any thread may fail to come about or be late.
* `rtp_sched`: the time begins two ticks before its end and the timestamps three units before theirs, so both
  wrap within the run. `MaxTicks` bounds the time after the last call.
* `rtp_recv`: the wrap of the numbers lies inside the stream, the window of 200 is 3, and the queue is full at two
  packets. A jump is two frames, within reach of the gaps the network makes; every old packet is on the other side of it. A telephone event, a bad version, an empty packet, an unknown type and one that needs
  two reads are among the seven. Three calls let the first packet start the stream and a long one be put back and read
  to its end, with a report at each; four arrivals pass the wrap with one lost, repeated or
  late, or a runt. Four calls on message blocks fill and overrun the queue of two and replace a pending event by a shared and by a copied
  one. `MaxArrivals`, `MaxCalls` and `MaxOps` may be this small because all invariants of the run but `TevInv` are proved for every
  value of them. With this `Memory` the `PerCall` blocks a call may take are free in every
  state of the run in which a call is left, so the guard of `CallTo` hides nothing.
* The `ClientMgr` runs do not check deadlock because the process ends. `que` and `threads` do; in
  `Dvs` the end of the process is an explicit stuttering step. The other runs end
  when their bounded calls are used up or their servers have stopped, so they do not check it; that nobody
  waits for ever is what their liveness properties say.

### Fairness

* `OsaQue`: weak fairness of every thread's turn. Critical sections are finite, so a thread that
  competes for the mutex gets it. Nobody has to call, and no wake-up comes without a signal.
* `Dvs`: weak fairness of each thread, which is what the scheduler gives to runnable threads.
  Nobody has to ask for the exit, no failure has to happen, and spurious wake-ups are never
  relied on.
* `OsaMbx`: weak fairness of each task's next step inside a call or handler. Nobody has to send.
* `OsaBuf`: readers release what they hold and the full queue is served. Writers need not do anything.
* `TcpServer`, `UartServer`: weak fairness of main, the listener and the service threads where they do not wait for
  the peer, as long as the process runs (`running`, `uartRunning`: the join of no thread may end it). `accept` fails, and `recv` returns, once the socket is shut; nobody has to connect,
  send or leave. Strong fairness of the lock of the serial line: a thread that
  waits for a mutex released again and again gets it.
* `OrtpScheduler`: weak fairness of the threads of the sessions; strong fairness of the scheduler's step and of the
  reads of select, which need a lock that others take and release.

## 4. The proofs

All are safety results, for every value of the constants that satisfies the named assumptions.

Most invariants are not inductive as they stand; each item names the strengthening and why it is needed. Each
strengthening holds initially and is kept by every step, action by action.

Hypotheses of theorems (section 3 has the runs that fail without them, where a run does):

| Hypothesis | Theorems | Why |
|---|---|---|
| `~SpuriousWakeups` | `BarrierInvariant` | glibc wakes a waiter without a signal only in rare races; the code waits under an `if` |
| `~LateStart` | `FifoInvariant`, `FrameInvariant` | the session thread sleeps after each creation so that the new thread can read its number (`session.c:313`) |
| `~InitMayFail` | `Dvs`: `ImplementsLife` | after a failure the session thread has no clients to delete, and the process hangs anyway |
| `chs = NS * CHS_PER_SESSION` | `DeliveryInvariant` | the groups are full, as with the build's 16 channels in groups of 4: a channel of an incomplete group has no session |
| one waiter | `FlgInvariant` | `OSA_flgSet` signals one waiter only |
| `~LateDestroy` | `ListInvariant`, `PaceInvariant` | a session in the list is destroyed in scheduled mode, as every user of the library here does |
| `InRange` | `PaceInvariant` | see `Ortp_proofs` below |
| `JumpFar` | `LimitKeepsOrder` | the limit is not zero, and limit and stream together span at most half of the timestamps; beyond that an old packet may pass for a jump |
| `FirstSeq + MaxGap < SnMod` | `LossInvariant`, `ReportInvariant` | the first packet that arrives is taken for one of the first round of the 16 bits; a stream that begins closer to their end than its longest gap may lose its start and arrive behind it |
| `BadFromThenOn` | `ReportInvariant` | `rtp_parse` drops a packet of another protocol version before it looks at its number, so a sender that went back to version 2 could hide a step of the numbers |

Every other theorem holds for all values of the constants that satisfy the modules' assumptions. Two of these restrict more than
a type: `CLIENTNUM` bounds the connections of `TcpServer` (beyond it the code writes behind its array), and in `OrtpRecv` a stream has
less than half of the sequence numbers, because two packets further apart cannot be told apart from their 16 bits by any receiver.

### OsaQue_proofs

* `TypeInvariant`, `RingInvariant`, `WakeupInvariant`. `NoLostWakeup` is inductive together with `TypeOK`: a put adds
  an entry and, if a getter sleeps, also an awake getter; a get that finds nothing goes to sleep when the count is
  zero. The lemmas count how a set of threads changes when one thread, or one thread and a sleeper, move.
* `ImplementsFifo`: `Spec => FifoSpec`. The lemmas say what writing at `curWr` and advancing `curRd` modulo the
  length do to `Contents`: they append and take the head. A turn that goes to sleep, and a wake-up, leave
  `Contents` and `Pending` alone and are stuttering steps.

### ClientMgr_proofs

No theorem has a hypothesis about what clients do: neither about ports, nor about the uninitialised client IDs, nor about the number and order of the
commands, nor about the sizes of the tables, apart from `DeliveryInvariant`'s full groups. What can go wrong is in the properties, as marks.

* Two lemmas carry the argument. `AddOutcome`: whatever the ports and however full the table, ADD_CLIENT either fails, changes no record in
  use and hands out only free sessions, all of them marked `partial` (`AddFails`); or makes a client, whose entries are new sessions of its own for each stream with a
  port and -1 or marked `stale` for the others (`NewClient`). `Steps`: every other step is a clean-up, a switch of
  channels, one of four of the server's own, or leaves records, destinations and connections alone (`Idle`).
* `SharingInvariant` is proved entry by entry (`EntrySafe`): the entries of a new client differ from each other and from every old one (`AddShares`);
  `del_client` removes only sessions of the record it deletes, and the record it resets by mistake has then nothing to share
  (`DelShares`). So the wrong reset alone, which the code does all the time, breaks nothing here.
* `NoLeakInvariant`: the sessions of a live record stay named by it until its own deletion, which removes them all.
* `OthersStayWhole`, from `NoSharedSession`: what `del_client` removes is named by one record only. It needs that RTP is up while the server works (`RtpUpInvariant`).
* `ServedInvariant`, from `Serving`: owners have distinct records in use, and before `init_session_tsk` there are no owners, because no
  record is free.
* `FreshInvariant`: a free entry of the session table has time-stamp zero after every operation.
* `DeliveryInvariant`, from `Delivering`: every record in use has an owner, its flags are the channels its client was told are open, and
  its entries are the sessions made for that client (`HasSessions`). A half-failed `add_client` keeps it, since what it leaves is in no record in use;
  every other mark ends it.

### Dvs_proofs

* `BarrierInvariant`. The inductive invariant `IInv` says that the rendezvous is either shut, and then `count` is the
  number of threads that do not wait there (a thread whose initialisation failed counts for ever), or open, and
  then nobody is in front of it. It needs `MainInv`: main cancels the alarm thread only after it has joined the audio
  thread, which cannot have ended while the rendezvous is shut.
* `TypeInvariant` and `RtpExitInvariant` hold whatever fails. They come from `DvsInv`: what main has joined has
  exited (`MainOK`); the session thread joins the sub-session threads in order before it closes the fifos
  (`SessionOK`, `SubOK`); a FLUSH is in a pipe, and a sub-session thread has ended, only after quit.
* `FifoInvariant` adds `IdsOK`: while a sub-session thread is starting the session thread sleeps with the counter
  the new thread is about to read, so every thread has its own number.
* `FrameInvariant` adds `FrameOK`: until the encoder overruns a pipe, every queued buffer, and the one a
  sub-session thread is sending, is of the current frame and of a channel the encoder has passed.
* `ImplementsLife` maps every step to a step of `ServerLife` or to none.

### OsaSync_proofs

* `SemInvariant`: the argument of `WakeupInvariant` with one condition variable.
* `FlgGotInvariant` for any number of waiters, `FlgInvariant` for one.
* `BufInvariant`, from `BufIInv`: each buffer is in one of five places (`BufPlace`), and while readers have it they and
  the count make up `numReaders` (`BufCounted`). So only the last reader puts it back, although its count and its
  put are two steps.
* `IpcInvariant`: an object no server will close (`Orphan`) can exist only while no server is past the point where it
  opens that kind, and a server that comes there later finds the object and closes it in the end (`IpcFound`). The posts
  beyond the limit are those of clients between check and post, at most one each.
* `HeapInvariant` and `AckInvariant`, for any tasks that send to one another in any way: the hierarchy `Below` matters
  to liveness only. `MbxInv` says that queues and handlers share the heap out (`Owned`), that a call waits for exactly the
  messages that say so (`Awaited`), that a parameter belongs to one call and is shared only by messages of a call that waits
  (`PrmOwned`), and that a negative answer is in the call's status or still in its queue (`Answered`). It is
  preserved only together with `Idle`: a task that flushes, or waits for a command, handles no message.

### Servers_proofs

* `TcpInvariant`, from `TcpIInv`: as many connections were accepted as slots are counted (`TcpCounted`), so with at
  most `CLIENTNUM` the slot being filled exists; counted slots are filled (`TcpFilled`); sockets are closed only when the
  alarm thread is gone (`TcpMainOK`); a slot main is done with has no running thread except possibly the last, whose
  thread the listener created after main looked, and passed over it as over a handle without a thread (`TcpJoined`).
* `UartLineInvariant`: who writes to the line has the mutex (`UartLocked`), misread numbers or not. `UartInvariant` needs
  `UartOwned`, which holds until the server stops or a number is misread: what is in a slot is the socket of the thread that has its number, of a thread
  about to read it, or of the connection in the listener's hands (for good, if its thread was not created), and no
  connection has two slots. Neither theorem has a hypothesis: threads may start late, and `misread` is exactly the step after which the first fails.

### Ortp_proofs

* `TevInvariant`, whatever the network loses or repeats. `TevIInv` orders the packets on the wire (`WireOK`), says that nothing
  taken is newer (`GotOK`), and what the pending event and the word used as its flag are for what has
  arrived (`ReportsOK`, `FlagOK`).
* `ListInvariant`, from `SchedIInv`: list, flags and mask describe the same sessions, positions are distinct, and the rest of a
  pass is part of the list. The lemmas are about the least free position and about what unlinking one element of a sequence
  without repetitions does.
* `PaceInvariant`: `SchedulerSpec /\ []InRange => []NotBeforeTime`. `PaceIInv` ties the time to the number of passes
  (`ClockOK`), the offsets to the first call of the stream (`OffsetsOK`), and a sleeper's wait point to the time it waits for
  (`WaitOK`). Lemmas about remainders show that the signed comparison on the circle decides as the true times do
  (`DecidesRight`, `DueRight`). `InRange` is what that takes: while a call is under way its stream has advanced by less than the
  range of a timestamp (2^32 units, 13 hours at 90 kHz) and lasts less than half the range of `time_` (24 days). Every state of
  run `rtp_sched` satisfies it; beyond it the theorem is false, as the table in section 3 shows. It does not restrict
  where the circles begin: both may wrap inside the stream.

### OrtpRecv_proofs

A call of the application reads the socket until it is empty, so a step of the model is a loop over packets. `rtp_recv`
is a recursive function on the number of packets read; a set of these numbers that has 0 and with each its successor has
them all (`UpTo`, from the least number that is missing), so a fact that reading one packet keeps is kept by the call
(`ReadKeeps`). The loop of `rtp_getq` is the least number of packets after which it stops.

* `OrderInvariant` and `AccountInvariant` have no hypothesis, from `OrderIInv`: every jump limit, with and without a handler that resets. That the queue is sorted is not
  enough: a late packet would be queued in front of one the application has. So `QueuesOK` puts what was handed over in
  front of what is queued, also while a call holds a packet it may put back, and `PlaceOK` and `ClockOK` say where in the
  stream the application is: `rcv_last_ts`, the two differences kept since the first packet, and the application's own
  timestamp are all the timestamp of that place on the circle. This is what makes the test for late packets refuse every
  packet that is older than the last one handed over, over the wrap of the timestamps. Lemmas about remainders show that the
  comparisons on the circles of numbers and timestamps decide as the true numbers do. `Accounted` is the sum that
  `NothingUnaccounted` states, with the packet in the call's hands. Once an old packet has passed for a jump nothing is known of
  what was handed over (`History`), but queue and sum stay in order.
* `LimitKeepsOrder`: with `JumpFar`, `JumpIsNew` shows that a packet which the test for old ones would refuse is no jump, so `missed` stays false and
  the order holds without exception.
* `LossInvariant` and `ReportInvariant`, from `ReportIInv`: the packets in the socket are those the network added one after the
  other (`Tops`), so the extended number is that of the highest packet before the first of them (`ExtOK`), and reading
  them in turn brings it to the network's highest. `LossOK` adds up the reports.

### OrtpMsg_proofs

* `BlockInvariant` and `WireInvariant` have no hypothesis. What they state is not inductive: if two messages shared a block, freeing
  one would have to leave the count of the other, and sending one would convert the header of the other. `MsgIInv` says that
  between calls no block is in two messages (`Balanced`): `dupmsg` shares blocks only with a message that the same call sends or frees, or
  joins to the first (a report, a packet split in two parts, a telephone event). So the count of a block is the number of
  parts of one message that point to it; what is in no message is free unless something was forgotten; and no block of a message is
  in network order, so the one that is sent is converted once.
* A call is a composition of functions. The states between them are `Good(s, n, D)`: balanced, with `n` blocks left to
  allocate, and with the blocks `D`, just read from the wire, exempt from host order. Each function has a lemma that says which
  fields it changes (`Same`) and how `n` and `D` change. Most of them only move messages from place to place
  (`MovedKeeps`, `CarriedKeeps`). `CopymsgKeeps` goes over the blocks of a message as `ReadKeeps` does over packets.
* The proof found an error of the model: a report made during `rtp_session_recvm_with_ts` was built in the
  message that held the packet the call returns. The code builds it in one of its own (`rtcp.c:276`), and so does
  `rep` now.

### Only model-checked

All liveness (`SleepersHaveReason`, `ShutdownCompletes`, `CallsReturn`, `BufReturns`, `TcpStops`, `UartMutexFreed`,
`UartStops`, `CallsPaced`, `SelectSees`), which is outside the prover's reach. Every invariant that a passing run checks is
stated by a theorem.

## 5. Not modelled, and the plan

Not modelled:

* The steps inside `add_client`, `del_client` and `rtp_send`. There is no lock, so two service threads may take the
  same record or session, and a session may be destroyed while it is sent through. No line of the repository promises
  anything about two commands at once, so each property of `ClientMgr` would simply be false; the hazard is listed
  in `PROJECT.json` with that note. `ClientMgr` shows what holds when commands do not overlap.
* What follows a write behind an array (`CLIENTNUM` connections, record -2): the models stop there or assume it
  away, and say so.
* The first report with a contributing source, which follows a null pointer (`rtcp.c:143`); in `OrtpMsg`
  the process ends there. A DTMF of one packet with both flags is reported twice; `EndReportedOnce` says so by its bound.
* Of oRTP: sockets, addresses and symmetric RTP; continuous audio; the adaptive jitter control, which
  is off by default; the accessors of received RTCP packets (`rtcpparse.c`), which only read; signal tables; payload
  types and profiles, which are tables of constants; logging, statistics and wrappers of pthreads.
* `osa_mutex`, `osa_thr` (one call of pthreads each; their effect is in every module that uses them), `osa_file`
  and `osa_prf` (I/O and measurement), the menu of `osa_test.c`, the format of H.264 files, the termios settings behind
  a serial speed, and `pause.h`, which nothing uses.

What is left of the plan: the accessors of received RTCP packets, if a user of them is ever added, and a finer `ClientMgr`
whose operations may overlap, once the code has a lock whose use could be checked.
