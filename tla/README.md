# Serial Modem: TLA+ models, model checking and proofs

The Serial Modem application turns an nRF91 SiP into a modem that a host drives
with AT commands over a UART. This directory holds TLA+ modules of its core, TLC
configurations that check them on small instances, and TLAPS proofs. File and
line references are to the repository (`app/src/...` is `src/app/src/...` here);
`PROJECT.json` lists for every definition the lines it models.

## 1. The system

### Threads and how they interleave

* `sm_work_q` (`main.c:218-233`) is one preemptible thread of the lowest
  application priority. The work items submitted to it run one after the other:
  reading a pipe and executing its commands, AT host messages, a socket's poll
  work, the scheduled data mode send, CMUX and PPP work. Nothing on it runs
  concurrently with another item, but an item may *call into* another's state
  (a send that fails exits data mode in the middle of the receive work).
* Interrupts interleave anywhere: the UART driver's callback, the idle timer and
  the data mode inactivity timer.
* The system work queue runs the modem pipe notifications (`notify_closed`,
  `notify_transmit_idle`).
* Other threads (MQTT, CoAP, PPP data passing, the modem library's event thread)
  send URCs and data and poll callbacks.

Before `main()` starts `sm_work_q`, the UART pipe is already open and modem
events arrive: several paths exist only for this window.

### Inventory

| Component | State | Operations | What is hard, what makes it correct |
|---|---|---|---|
| UART receive path, `sm_uart_handler.c` | slab of reference-counted buffers, RX event queue, enabled / recovery / recovery-disabled bits | UART RX events, `pipe_receive`, `rx_recovery`, open, close | interrupt against reader; buffers and queue at their limit; RX disabled and who enables it again. Byte stream in order, exact reference counts, RX comes back |
| UART transmit path, `sm_uart_handler.c` | TX ring buffer, `tx_done_sem`, enabled bit, open bit | `pipe_transmit`, transfer done / aborted, close, AT+IPR | who starts the next transfer; a close in the middle of one; who reports the closure. Each byte once and in order, one owner of the transmitter |
| AT host: data mode, `sm_at_host.c` | mode, data ring buffer, `data_len`, terminator match, handler and result | enter, receive, send, inactivity, service error, exit | terminator cut anywhere; failures in the middle of a write; counters wrapping. Bytes as-is, truthful result, clean exit |
| AT host: commands, URCs, idle work, `sm_at_host.c` | command buffer, `executing_lock`, idle timer, two URC buffers, idle work list, message queue | receive work, messages, `sm_at_host_lock`, `rsp_send`, URC sending | commands, URCs and data share one channel; work postponed while busy must come back. Whole blocks, no URC or input left behind |
| AT host: contexts and pipes, `sm_at_host.c` | instances, current and URC context, pipe of each | create, attach, release, destroy | events of a pipe queued behind its reopening; a pipe that names a destroyed context. Every open pipe has one server, who is alive |
| CMUX, `sm_cmux.c` | channels, AT channel, delayed stop | start, stop, channel events | stop racing with a new start; the UART returns to AT commands |
| PPP, `sm_ppp.c` | state, event queue, PDN, pipe | start, stop, PDN events, data passing | event queue full, partial start; the pipe it took is given back |
| Sockets, `sm_at_socket.c` | socket table, poll and send callbacks, delayed events, `#XAPOLL` requests | open, connect, send, receive, automatic reception, poll work | an event is one-shot, and is kept, dropped or asked for again in many places. No event is forgotten |
| HTTP client, `sm_at_httpc.c` | request per socket, receive buffer, timer | request, poll events, pull, cancel, timeout | the response comes in any pieces; five ways to end a request. One result each, and a truthful one |
| CoAP client, `sm_at_coap.c` | one request, staging buffer, three semaphores | request, upload, response, pull, cancel | two threads hand blocks to each other, each with a timeout |
| MQTT, nRF Cloud clients | connection and request state | requests, events from other threads | use of the AT host's lock from other threads |
| GNSS, DFU and FOTA, ICMP, SMS, provisioning, carrier, generic commands | small session state | command handlers over libraries | mostly sequential |
| Control pin, settings, utilities, trace and log backends | hardware, storage | | pure I/O |
| DTR UART driver, `drivers/dtr_uart` | power and RX state by the DTR line | DTR edges, RX and TX of the application | DTR edges against RX disabling; a wait that gives up |
| AT client library for hosts, `lib/sm_at_client` | command in progress, buffers, DTR, RX recovery | send command, response, timeout | late responses |
| nRF91 Serial Modem driver for Zephyr, `drivers/modem` | chat scripts | | data rather than control |

How they meet: `sm_uart_handler.c` implements Zephyr's `modem_pipe`; the AT host
reads and writes pipes (UART, or CMUX channels over it), and is called by every
service through `rsp_send`, `urc_send`, `data_send`, `sm_at_host_lock`,
`enter_datamode` and `exit_datamode_handler`. Zephyr (work queues, message
queues, ring buffers, modem pipe, UART drivers) and the modem library are not in
the repository and are modelled from how they are used.

`PROJECT.json` lists the hazards, each at the line where it bites, and
the properties that cover it or the reason why none does.

## 2. Modules

| Module | Models | Checked by |
|---|---|---|
| `UartRx` | receive half of `sm_uart_handler.c` | `MCUartRx.cfg`; proofs in `UartRxProofs` |
| `UartTx` | transmit half of `sm_uart_handler.c`, `sm_at_host_pipe_tx_blocking`, AT+IPR | `MCUartTx.cfg`, `MCUartTxClose.cfg`; proofs in `UartTxProofs` |
| `DataMode` | data mode of one context of `sm_at_host.c` | `MCDataMode.cfg`, `MCDataModeOther.cfg`; proofs in `DataModeProofs` |
| `AtHost` | commands, URCs, lock, idle work of one context; automatic reception of a socket | `MCAtHost.cfg`, `MCAtHostPipelining.cfg`; proofs in `AtHostProofs` |
| `ByteFifo` | abstract: a bounded first-in first-out queue of bytes, without loss | refined by `UartTx` (`ImplementsFifo`, run and proof) |
| `Contexts` | contexts and pipes of `sm_at_host.c`, `sm_cmux.c`, `sm_ppp.c` | `MCContexts.cfg`, `MCContextsStop.cfg`; proofs in `ContextsProofs` |
| `DtrUart` | `drivers/dtr_uart` (a component of `Link`) | `MCLink.cfg` |
| `AtClient` | `lib/sm_at_client` (a component of `Link`) | `MCLink.cfg` |
| `Link` | the two over DTR, RI and a UART | `MCLink.cfg`; proofs in `LinkProofs` |
| `Coap` | `sm_at_coap.c`: `sm_work_q` and the CoAP library's thread | `MCCoap.cfg`; proofs in `CoapProofs` |
| `Sockets`, `Httpc` | operations of `sm_at_socket.c` and `sm_at_httpc.c` as operators on a state | through `Services` |
| `Services` | the actions of the two, data mode, and the peers | `MCServices.cfg`; proofs in `ServicesProofs` |

In each `X.tla` the definitions named `...Mutant` change one definition the way a
plausible bug would; substituted for it, they make a property fail.
They show that the property depends on that code.

### UartRx

Two agents: the driver with `uart_callback` (one action per event; `DriverByte`
receives a byte into the current buffer) and the thread that opens, reads and
closes the pipe. `pipe_receive` is cut into get, copy (with the put-back of a
partly read event) and the check that starts a recovery; `rx_enable` and
`rx_disable` are cut at their waits and bit operations. A block's memory is
modelled: bytes are numbered as the host sends them, so a buffer recycled too
early is seen as a wrong number delivered. `dropped` and `discarded` count what the
code throws away (full event queue; before `sm_work_q` runs).

Driver assumptions, from the Zephyr asynchronous UART API as the code relies on
it: events of one buffer come in order; a buffer is requested after the previous
one is taken into use; without a next buffer, RX ends after the current one with
UART_RX_BUF_RELEASED and UART_RX_DISABLED; `uart_rx_disable` leads to the same
events, or returns -EFAULT with nothing to stop.

`DriverFaults` lets `uart_rx_enable` and `uart_rx_buf_rsp` return errors (the proofs
cover it; the runs have it off, since the liveness properties are not promised
then). The thread may lose the CPU anywhere, also inside `rx_enable` for the time
of all buffers. `rx_enable()` sets the enabled bit after `uart_rx_enable()` has returned;
if all buffers fill up in between, the RX-disabled callback clears the bit first, the
bit is then set with RX off, and no recovery is ever tried, nor does `rx_disable`'s wait
for the bit end. `StaleBit` names that state, and it is reached: `RxRecovers` and
`CloseTerminates` hold with exactly this exception, and without it (`RxRecovers` as
`<>[]opened => []<>(drv = "on")`, `CloseTerminates` without `StaleBit`) TLC refutes
both in the same run. With the default three buffers of 256 bytes that takes about 8 ms of
preemption of the lowest-priority thread at 1 Mbaud: unlikely, not impossible.

### UartTx

`sm_at_host_pipe_tx_blocking` (put, wait for transmit idle, retry), `pipe_transmit`
(`ring_buf_put`, then `k_sem_take`), the interrupt at the end of a transfer
(finish the claim, start the next or give `tx_done_sem`, notify), the abort of a
transfer half-way, by a close or by dtr_uart with TX still enabled when DTR drops,
`pipe_close` with its waits, the closed notification, and
AT+IPR's close, configure, open. The ring buffer's contiguous claim is modelled by
`getPos`: what wraps around is sent in two transfers. Of RX, only whether it is
enabled is kept; the buffers running out is `RxDisabled` at any time.
With `UartErrors` (on in `MCUartTx.cfg`, off in `MCUartTxClose.cfg`) `uart_tx` may
return an error. In `pipe_transmit` the semaphore is given back, the caller gives up
the message, and what was put waits for the next one; in the interrupt nobody looks at
the result, so the semaphore is neither held nor given and nothing is sent until the
pipe is opened again. `failed` records which it was, and the properties name it as
their exception.

### DataMode

The context is one record, and the code's functions are operators on it. A
function that calls the service's handler gives the *set* of contexts it may leave,
because the handler may accept any prefix of the buffer before it fails.
`erred` records that the service met an error of its own in this session. The result
of a session is -1 also when all bytes were accepted before that error, so
`ResultTruthful` asks of a -1 only that there was such an error or that the handler did
not take all of the payload; the bytes of the terminator are no payload.
Actions are the work items: start and end of the receive work, one byte of it,
the scheduled send, the inactivity timer, a service's own error.
`sm_at_host_get_current()` falls back to the URC context when there is no
current one: `OwnFallback` says whether that is the same context.

### AtHost

The work queue is a sequence of submitted items, each at most once (as `k_work`),
dispatched in order; the thread is cut wherever a URC, a timer or an event can
matter: between deciding that the context is idle and sending, between claiming
from `urc_buf` and finishing, between a block's header, data and end of
line. Input is abstracted to "char" and "term" tokens, output to its last item.
A command may be invalid, refused, answered, enter data mode, or continue in the
background (AT+CGDATA, which waits for the network and, without one, answers
NO CARRIER; on success the pipe leaves the AT host, which belongs to the contexts
module), and one may stay without a response (SILENT_AT_COMMAND_RET, or a response
that cannot be sent). `urc_buf` is reset when full, possibly while it is being transmitted: what
is put next may overwrite memory that is still to be sent (`sending`; 0 is
overwritten memory).

URCs also get lost in other ways, which `lost` records, as `dropped` does an overflow of
`urc_buf`: `tx_blocking` gives up or has no pipe in the middle of `send_urcs` or of the
context's own list (what was claimed is finished all the same, an entry is freed),
`calloc` fails for an entry of that list, and a URC that comes while no context is for
URCs (AT#XMCUXURC chose a channel that has none: `urc_ctx`) resets the buffer.
The first three are faults (`MaxFaults`), changes of the URC channel are `SelectUrcChannel`.
`UrcsAccounted` says that nothing is lost or dropped otherwise, and nothing twice.

A socket's receive in automatic reception may get nothing: it fails, or the datagram has
length zero. `do_recvfrom` does not set POLLIN again then, so nothing that comes later
is read until the host reads itself. Of the second case a comment says "Treat as
normal case" (`sm_at_socket.c:1252-1256`), so this is not
meant. `sock.dull` is that state and the exception of `SocketRead`;
without `\/ sock.dull` TLC refutes it in the same run, with the second event of the socket.

Not modelled here: echo, quotes and the syntax check (data), bootloader mode; several
contexts are in `Contexts`, several sockets in `Services`.

### ByteFifo

What `UartTx` promises whoever writes to the pipe: bytes that were accepted go out in
order, once, however transfers end, are aborted and begin again. The refinement
mapping takes the ring buffer `tx_buf`, with what a transfer has claimed but not
finished, as the queue, and the bytes on the wire as the output. A producer that gives up
after its retries leaves a gap in the numbers, which `Put` allows.

### Contexts

A pipe (the UART or a CMUX channel) has a callback and a user; a context has a pipe, or
none while it waits to be destroyed; contexts are addresses that `malloc` hands out again,
so that a late message may name a new context at an old address. The actions are the
commands (AT#XCMUX, AT+CMUX, AT#XCMUXURC, AT#XCMUXCLD, AT#XPPP, AT+CGDATA), the
AT host's messages one by one (with the destruction of a context cut in two),
`stop_work_fn`, the PDP activation, the PPP thread cut at its waits, and the events of
channels, peer and network.

`ChannelServed` has exceptions, which the ghost `mishaps` records: the code gives up, or
loses track of a pipe, when the PPP event queue is full ("event dropped"), `malloc` fails
("no memory"), an open event meets a context with another pipe ("open
ignored"), a context without a pipe is used again for another pipe before its close was
handled ("callback left"), `ppp_stop` releases the PPP module after `init_dlci` has given
the pipe to the null handler ("released late"), or a command gives PPP another
pipe while PPP is not idle ("start overlaps"); and when the message queue is purged.
In `pppPc = "fault"` a stop came between two steps of `ppp_start`, which attaches a pipe
that is NULL by then.

### DtrUart, AtClient, Link

`Link` composes the driver on the modem's side and the library on the host's side: the
host raises DTR before it sends, drops it after inactivity, and is woken by RI; the modem
powers its UART with DTR and raises RI when it has something to send. A unit is the text of
a command, its terminator, a response or a URC, and leaves one side only while the
receiver of the other is on. The host writes text and terminator one after the other into
`tx_buf`, which may be full (`PutText`, `PutTerminator`, `PutFull`, `Room`); a transmission may be
aborted after any part of it. The modem answers what it gets: a text without its terminator
runs into the next command, and two texts in one line give an error response (`Err`). A
response or URC arrives in one receive event or with a first part in another, and what
`at_cmd_resp` or `at_monitor_heap` has no room for is dropped. `api_tx` is cut after its
look at `dtr_state`, `dtr_work_handler` at its wait for RX, which may end by its 100 ms with RX
still on (`PowerOff(TRUE)`), the library's enabling between RX, pin and TX. The
modem's application is a pipe: `pipe_close` disables RX and waits without limit for
UART_RX_DISABLED, an open one may find RX busy, and its answer to a buffer
request may be none.

Assumptions: hardware flow control, so that a transmission of the host times out only if the
modem does not receive and has followed DTR; the host's work queue is cooperative, so its thread
runs when the queue has nothing to do (`HostIdle`); the inactivity period is longer than the rest
of `dtr_uart_enable` and than the modem takes to follow DTR (`Inactive`); a UART
reports UART_RX_DISABLED for every RX that was stopped, sooner or later; the library finds a
buffer when it enables RX; the modem's pipe is closed only with nothing left to send.

Five kinds of runs go wrong in the code and it does not recover by itself. They are in the model,
are reached, and each is recorded by a ghost that the properties name as their exception:

* `raced`: an edge of RI that nobody waits for. `api_tx` stores its data and raises RI while DTR
  rises, after `dtr_work_handler` looked for data; or RI is up already when DTR becomes
  automatic or suspension ends. The unit waits for the next transmission or edge
  (`LinkAgrees`, `Calm`).
* `Stuck`: DTR drops while `pipe_close` waits for RX to be disabled. The driver takes
  UART_RX_DISABLED for its own and does not pass it on (`dtr_uart.c:323-331`), and the loop of
  `sm_uart_handler.c:172-175` never ends, with `sm_work_q` in it. Or the pipe did not open
  because RX was still busy. No command is answered from then on (`CommandAnswered`); units that
  were accepted before are still sent (`UnitsDelivered` has no such exception).
* `c.twice`: `tx_start` while a transmission goes on. The library enables the UART again
  (work queued by RI or the user while `dtr_uart_disable` waits) and starts to send; `uart_tx` fails and
  `ring_buf_get_finish(0)` gives back what the transmission has claimed
  (`sm_at_client.c:359-365, 707-714`): it is sent, and answered, a second time (`AnswerMatches`).
* `c.cut`: a transmission is aborted while the thread has not written all of the command. Its
  text is gone, `k_sem_reset` wakes nobody, and without a timeout the command waits for ever
  for the response to an empty line (`CommandAnswered`).
* `c.missed`: `rx_event_queue` or `at_cmd_resp` was full, so data was dropped.

`AnswerMatches` also bears with a late response: once a command has failed (it timed out, or could not
be written to its end), the next one takes its response, or the semaphore it left, for its own;
nothing in the library tells them apart.

### Coap

Two threads hand blocks to each other. The library's (external) asks for the blocks of an upload,
delivers those of the response and reports errors; `sm_work_q` stages what the host sends in data
mode, lets it pull the response in manual mode, and cancels. Each is cut where it waits for the
other (`cb`, `pc`) and each wait may time out. The channel is reduced to its mode: at the end of a
request in another thread, data mode may be over for the handler while the host still sends
("null"). The socket of a request is open, and data mode has the length of the payload. What
`sm_work_q` does after the library's thread has freed the request under it is not modelled
(`dangling`, the exception of `WorkReturns`).

The library's thread has priority 0 (`CONFIG_COAP_CLIENT_THREAD_PRIORITY`, `prj.conf:115`) and
`sm_work_q` the lowest one, so a callback runs to its end or its next wait before `sm_work_q` goes
on: `coap_payload_cb` after its wait and the library's copy of the block are one step. With another
priority DATAMODE_EXIT could reduce `payload_len` between the callback's two looks at it, and
`staging_consumed`, which is given before the copy, could let the next block overwrite it;
the model says nothing about such a configuration. When the payload is complete
`coap_payload_cb` is called again for every block of the response and changes nothing.

### Sockets, Httpc, Services

Everything that runs on `sm_work_q` is an operator from state to state; `Services` has
the actions. The poll handler is cut per socket at its middle, because the modem's interrupt
(`poll_cb`) may come while it works on an event of the same socket. The host uses
plain sockets or HTTP (`s.use`, chosen at the beginning), which share the poll
handler and data mode. Peers send data, datagrams of length zero, connections, responses
in pieces (headers in parts, bodies of a length, chunks with the terminator cut), and
leave in an orderly way or not.

Abstractions and assumptions: one AT channel; POLLNVAL is as POLLERR; a TLS
socket occurs only under HTTP; `zsock_send` takes at least one unit when POLLOUT was
reported; the idle timeout of HTTP is two scans of the timer without activity; servers are
well-formed; a command with bad parameters or without memory has no effect ("bad" for
HTTP); commands that set up a socket are not counted; the host does not ask for more on a
connection whose response it did not wait for.
Ghosts: `told` (events the host knows of), `dull` (a receive had nothing to return,
and POLLIN stays off), `spoiled` (an HTTP body was read by other means), `owed`, `untrue`.

Behaviour met while modelling, which the properties leave out or bear with:

* A datagram of length zero, or a receive that fails, leaves POLLIN off, although the
  comment at `sm_at_socket.c:1252-1256` treats the first as normal; automatic reception stops until
  another command on the socket polls for it again. AT#XRECV between the
  interrupt and the poll work has the same effect.
* `http_process_request` asks for POLLOUT again after a partial send, and the poll handler
  that called it removes POLLOUT afterwards (`sm_at_socket.c:399`): the request ends by its
  timeout only.
* Automatic reception configured on a socket with an HTTP request takes the body away from it.
* In manual mode a full buffer makes a receive of zero bytes look like the end of
  the connection, and `Content-Length: 0` ends by the timeout only.
* A chunk terminator that is cut between two reads is not found.
* AT#XACCEPT without a free handle does not poll for the next connection.
* AT#XCOAPCCANCEL while the library's thread waits for AT#XCOAPCDATA blocks the channel until
  that wait times out.
* `stop_work_fn` leaves the contexts of other channels to their close events;
  `sm_at_host_set_pipe` looks for the old context after it has set the pipe;
  `ppp_start` that fails for want of an address leaves AT+CGDATA's pipe without an owner;
  a channel closed while its AT+CGDATA waits keeps its lock.

## 3. Runs

| Run | Result | States | Shows |
|---|---|---|---|
| `uart_rx` | pass | 301,960 | reference counts exact, stream intact, no drop within the queue's budget, every byte settled; RX recovers and a close terminates but for `StaleBit` |
| `uart_tx` | pass | 139,954 | bytes once and in order, exactly one start token, no lost start, all accepted bytes sent (but for `failed`), a close with RX on reopens; implements `ByteFifo` |
| `data_mode` | pass | 246,008 | bytes as-is, result truthful, length honoured, clean exit, terminator exits, inactivity sends |
| `at_host` | pass | 519,309 | blocks whole, commands undisturbed, URCs accounted and delivered, input read; sockets read but for `dull` |
| `contexts` | pass | 728,127 | there is always a context, no pipe is left with a destroyed one, every open channel is served again |
| `link` | pass | 755,254 | a command gets its own response, the two ends agree on the state of the link, commands are answered and units delivered, with the exceptions of section 2 |
| `coap` | pass | 4,084 | every request has one, truthful result; the server gets the payload as the host sent it; every request ends, and so does every wait of `sm_work_q` |
| `services` | pass | 525,165 | every request has one, truthful result; no event is forgotten; every request ends |
| `uart_tx_close` | violation of `CloseReopens` | | see below |
| `data_mode_other` | violation of `KeepsWorking` | | see below |
| `at_host_pipelining` | violation of `CommandsUndisturbed` | | see below |
| `contexts_stop` | violation of `LinkReturns` | | see below |

Each property's comment, in its module, says what it states and of which code.

**Disagreements with what the repository says of itself** (details and quotations
in `PROJECT.json`, "findings"):

1. The closed notification is sent by a UART callback that finds RX and TX off.
   If RX is already off (buffers full) and no transfer is active, `pipe_close` causes no
   callback; `modem_pipe_close` times out and AT+IPR leaves the pipe closed.
   `CloseWithRxReopens` shows that the other case works.
2. `exit_datamode_handler()` clears `current_ctx` in the middle of the receive
   work. When `write_data_buf` has more to write, it resolves the current context
   again; with a second AT channel (CMUX) that is another context with no data
   buffer, and its loop never ends. With one context the fallback is the context itself.
3. `at_pipe_rx_work_fn` looks at `executing_lock` before its loop only. A command
   that follows AT+CGDATA in the same batch of bytes is executed before AT+CGDATA is
   answered. Hosts that wait for each response are not affected (`Pipelining = FALSE`
   in the passing run: nothing follows a command in its batch).
4. AT+CGDATA holds the executing lock of its context until the PDN is up or the activation has
   failed. If CMUX is closed in between, `sm_ppp_detach` forgets `ppp_pipe`; the failure then
   finds no pipe to answer, returns early, and `cmd_done` is never called. The context has
   moved to the UART, where it reads no command any more.

### Bounds

* `uart_rx`: two blocks of two bytes and two queue entries, one budgeted per block; five bytes.
  Two blocks are the least with which the driver's next buffer is refused; two bytes
  per block allow a block to be reported in two events and an event to be read in two
  parts; with five bytes a block is reused after both were filled, and the queue
  overflows beyond its budget.
* `uart_tx`: `uart_tx` may fail; a ring of three bytes, messages of one and of more bytes than the ring,
  six bytes (wrap-around twice), two closes (the second after leftovers of the first),
  two retries.
* `data_mode`: the default terminator `+++`, an alphabet that also has another character,
  a buffer of three, seven bytes per session, two sessions (what the first leaves
  for the second), lengths none and small; `SIZE_MAX` 255 keeps wrapping of
  `data_len` visible.
* `at_host`: four inputs out of up to three URCs, four tokens (two commands, or one that enters
  data mode and its end), two socket events (the second finds what the first left of the poll
  callback), two changes of the URC channel (away and back) and one fault; one URC fits the
  buffer, so the second resets it; a message queue of two, so that it is purged.
* `contexts`: the UART and two channels, memory for three contexts (so that addresses are
  reused), a message queue of three and a PPP queue of two (both overflow), three commands
  and three events: open, close and reopen around a stop or a start.
* `link`: two commands, so that a late response meets the next command; an event queue, a
  response buffer and a heap of two; a ring of three, so that the second command does not fit while the
  first is sent. Three of the following, commands included: a URC, a timeout, a call
  of the user, a suspension, a closed pipe, a late power-off, a refused buffer, a receiver that
  starves, a unit in two parts, the inactivity timer in the middle of `tx_write`. With a ring
  of three `Room` finds all sent, or fails; that it sends a full ring (every command does with a
  ring of one) is left to the proofs, which hold for every `RingLen`.
* `services`: two handles (the second for an accepted connection), receive buffers of
  two units, two commands besides the set-up of sockets, two units from peers of plain
  sockets and three from servers (headers and two units, or a chunk and its cut terminator; a reset
  comes with the first at the latest).
* `coap`: blocks of two units, payloads of none, less than a block, two blocks, and one unit more;
  two requests, so that one meets what another left; four blocks of response.

`CHECK_DEADLOCK FALSE` in all: the bounded host stops sending, and then the system
rightly rests.

### Fairness

* Interrupts are served, transfers end and timers expire: hardware. The system work
  queue and `sm_work_q` are scheduled: nothing of higher priority runs for ever.
* What the host, the network, a service's error or a driver's fault do is never fair.
* `DataMode`: strong fairness of the scheduled send, because the receive work may
  come before it again and again; the work queue is first-in first-out, so a
  submitted send is not overtaken for ever.
* `AtHost`: a background command ends (AT+CGDATA has a time-out); a socket with
  data and a callback set is called back by the modem library; and
  `[]<>(pc # "host")`: the 100 ms idle timer does not for ever expire between two
  iterations of the message loop, which takes microseconds.
* `Contexts`: messages, delayed stop, PDP activation (it has a time-out) and the PPP thread are
  scheduled; commands and events of channels and network are not.
* `Link`: work items, threads, interrupts and the answering AT host are scheduled, and an application
  that disabled RX enables it again once its wait has ended. The liveness properties hold once nobody
  suspends the modem and DTR is automatic (`Calm`): a host that switches DTR by hand owes it itself.
  A `raced` unit is assumed to meet a later transmission or edge, and `CommandAnswered` that the modem's
  application is not `Stuck` for ever.
* `Coap`: weak fairness of the two threads as one action: they run, their waits time out, and the
  library gives up on a server that does not answer. The host and the server owe nothing.
* `Services`: weak fairness of everything the system does, as one action: interrupts, work items,
  the idle timer. Nothing is assumed of their order, nor
  of the host and the peers. `Due` spells out when that action is enabled.
* `UrcsDelivered` and `SocketRead` assume that the host does not stay in data mode for
  ever; during it, URCs and socket data rightly wait.

## 4. Proofs

Each theorem holds for every value of the module's constants that satisfies its
assumption; TLC evaluates the assumptions in the runs. The bounds of the runs (bytes,
commands, events) are constants like the others, so a theorem covers behaviours of any
length.

| Module | Theorem | States |
|---|---|---|
| `UartRxProofs` | `TypeCorrect` | `Spec => []TypeOK` |
| | `RefCountsCorrect` | `Spec => []RefCountsExact` |
| | `NoDropCorrect` | `Spec => []NoDropWithinBudget` |
| | `StreamCorrect` | `Spec => []StreamIntact` |
| `UartTxProofs` | `TypeCorrect`, `TransmitCorrect`, `StartTokenCorrect`, `StartsNotLost` | `Spec => []TypeOK`, `[]TransmitIntact`, `[]StartTokenExact`, `[]NoLostStart` |
| | `Refinement` | `Spec => ImplementsFifo` |
| `DataModeProofs` | `TypeCorrect`, `DataCorrect`, `LengthCorrect`, `ExitClean`, `ResultCorrect` | `Spec => []TypeOK`, `[]DataAsIs`, `[]LengthHonoured`, `[]CleanExit`, `[]ResultTruthful` |
| | `TerminatorCorrect` | `Uniform` implies `Spec => []TerminatorExits` |
| `AtHostProofs` | `TypeCorrect`, `UrcsCorrect` | `Spec => []TypeOK`, `[]UrcsAccounted` |
| | `BlocksCorrect` | `Spec => BlocksWhole` (an action property) |
| | `CommandsCorrect` | `~Pipelining` implies `Spec => CommandsUndisturbed` (an action property) |
| `ContextsProofs` | `TypeCorrect`, `HandlersCorrect` | `Spec => []TypeOK`, `[]HandlersLive` |
| `LinkProofs` | `TypeCorrect`, `AnswerCorrect`, `AgreeCorrect` | `Spec => []TypeOK`, `[]AnswerMatches`, `[]LinkAgrees` |
| `CoapProofs` | `TypeCorrect`, `SettledCorrect`, `UploadCorrect` | `Spec => []TypeOK`, `[]RequestSettled`, `[]UploadWhole` |
| `ServicesProofs` | `TypeCorrect`, `SettledCorrect` | `Spec => []TypeOK`, `[]RequestsSettled` |

In every module the proof has the same shape: an inductive invariant (`IInvInvariant`, in
`AtHostProofs` `ControlInvariant` and `UrcInvariant`), one lemma per group of actions that
shows it preserved, and the properties as its consequences. The candidate invariants were
checked by TLC on the runs' instances before they were proved.

The type invariants of `UartRx`, `UartTx`, `DataMode`, `AtHost` and `Link` say no more than types and sizes;
being proved, they are not checked by the runs again. Those of `Contexts`, `Coap` and `Services` also
relate parts of the state (data mode has one owner, who is there; the library holds no freed request;
no context is listed twice), and are checked and proved.

### Reference counts and the stream of UartRx

With driver faults, and with preemption anywhere. Assumptions: `SlabAssumption` (a finite, nonempty set
of blocks), `SizeAssumption` (positive sizes), `SwitchAssumption` (faults are on or off).

`RefCountsExact` is not inductive by itself. It does not say that a release finds
something to release: in `pc = "copy"` the reader holds an event whose block is
real and nowhere else, with RX on the driver holds a current block, with RX off it holds
none, without a current block it has no next one, and a buffer request is pending only
while RX is on without a next block. `BuffersHeld` states this, and
`IInv == TypeOK /\ BuffersHeld /\ RefCountsExact` is inductive. The counting rests on
lemmas about the positions of a block in the event queue: appending an event, taking the first
and putting one back at the front change the number by one for that event's block and by
none for the others (`QueuedAppend`, `QueuedTail`, `QueuedPutFront`).

`NoDropWithinBudget` needs that the events of a block, queued or being copied, are no more than
were reported since it was allocated (`EventsReported`); that holds because a block
is allocated only when nothing refers to it, which is `RefCountsExact`. Then, without a
burst, a full queue would map the positions of the queue one to one into pairs of a block and
a number within its budget, one pair of which is left for the event that is to be put: a
pigeonhole argument (`Numbering` and the finite set theorems).

`StreamIntact` needs to know where each byte is. The bytes delivered, of the event being
copied, of the queued events from first to last, and written but not yet reported are
*lanes*: each rises, each lies below the next, no lost byte is in one of them, and together with
the lost ones they are all bytes sent (`Lanes`). `EventsSound` keeps recycled memory apart: an
event lies in its block before what the driver still writes there. The lemmas on lanes are stated
for sets (append a lane, move the first into another, cut one in two), without
the module's variables, and each action is an instance of one of them.

### Start token and queue of UartTx

Assumption: `TxAssumption` (sizes and retries positive). The invariant adds to the properties
`CallBounds` (the bytes of a message not yet accepted are younger than all
accepted) and `CloseProgress` (where the thread is when TX is disabled or a transfer
is being aborted): without these, a close could be imagined to give `tx_done_sem` while the
transfer it aborts is still active. A `uart_tx` that fails is covered, in the thread and in
the interrupt, as are aborts with TX enabled. `Refinement` shows that an initial state is one of
`ByteFifo` and that each step puts, takes, or leaves queue and wire unchanged, from the same
invariant.

### Data mode

Assumption: `DataModeAssumption` (a nonempty terminator that fits the buffer, lengths within
`SIZE_MAX`). Both values of `OwnFallback` are covered. The functions of the code are
operators that give a set of contexts, and have a lemma each that says what every
context in that set satisfies. The invariant says what each mode means for the
bytes received (`ModeMeans`): in data mode all was handed over, buffered or held back; in null
mode the handler is gone and, unless the service met an error of its own, did not take some of what
was sent before the terminator (`Dead`), which is what makes a -1 truthful; in AT mode nothing is left. In the
middle of receive work in data mode the current context is this one (`Own`), without which a
write could go elsewhere.

`TerminatorCorrect` has the hypothesis `Uniform`: the characters of the terminator are all the
same, as in `+++`, the default. Without it the property is false: the matcher starts again from the
beginning when a match breaks off, so a terminator like `aab` is missed in `aaab`. What is
inductive is `RunInv`: as long as the host sends without a pause, what it sent ends in no more
characters of the terminator than the matcher has counted (`Matched`, `AtMost`), in data mode and
while data is dropped. It needs the
count to survive every send and every failure in the middle of a write (`SendCounts` and the
lemmas after it).

### Commands, blocks and URCs of AtHost

Assumption: `AtHostAssumption` (buffers of at least one). `ControlInv` says who holds
`executing_lock`: the thread as often as its position tells (`Held`), a background command
once, and nobody else; URCs are flushed and sockets read only when it is zero. What was sent last
tells where the thread is, so nothing comes between the parts of a block. For
`CommandsUndisturbed` the hypothesis `~Pipelining` is needed (finding 3): then a batch ends with
the end of a command (`LastTerm`), and the pipe is empty while one is executed.

`UrcInv` numbers the URCs as they are put, and places each: sent, in the context's own
list, dropped, unclaimed in `urc_buf`, or in flight. Those in flight are older than the
unclaimed and younger than the sent, also when `urc_buf` is reset under `send_urcs`, which
leaves memory in flight that is not claimed and may be overwritten. A URC that a transmission
loses while it is claimed stays in `urc_buf` until the claim is finished (`ClaimInv`); those in the
context's own list are younger than those sent from it (`Listed`), so one that was lost is
not sent later.

### Contexts and pipes

Assumption: `ContextsAssumption` (two channels or more, memory for at least one context, queues of
at least one, addresses and pipes distinct from the null and the poison value). `HandlersLive`
says that a pipe's context is alive or its close message queued; what is inductive is where
that context is (`TrackedPipe`): in the list and on this pipe, named by a queued close
message of this pipe, or the one `sm_at_host_work_fn` is about to destroy. Also, no context is
the one of two pipes, a context is marked with the poison value exactly while it is about to be
destroyed, and the list is never empty and holds none twice. Each operation on contexts has a
lemma of the form "sound before, sound after", so the commands, CMUX and PPP, which
compose them, follow by composition. Two cases are outside, as in the property: a purged
message queue, and a context used again before its close was handled.

### The two ends of the link

Assumptions: `ClientAssumption` (`tx_buf`, `rx_event_queue`, `at_cmd_resp` and `at_monitor_heap` have
room for at least one), `LinkAssumption` (a URC is no command). The invariant has three parts.

* `ModemInv`: what the driver sends or has stored is the application's first unit, and of an
  application that is not busy it has none (`TxInv`); unless an edge of RI may be lost, RI is up
  exactly while a unit is stored, and none is stored with DTR asserted (`RiInv`);
  `dtr_state` is the level of DTR or `dtr_work` is queued, and the UART is powered with it
  (`DtrInv`).
* `HostInv`: a host that is active receives, or UART_RX_DISABLED is still to come or to be
  processed, and `dtr_uart_disable` waits for an event that is still to come (`RxInv`); the pin and TX
  follow `dtr_config.active` except in the middle of `dtr_uart_enable` (`PinInv`); the queues are
  within their size (`Bounded`).
* `TalkInv`: as long as no command failed, nothing was dropped and nothing sent twice (`Clean`),
  the text and the terminator of the command in progress are, in this order, with the modem or in
  the ring; once both are read, its response is in one place at most, in the modem's queue
  or the host's, or has been given to the thread; and there is no other response anywhere
  (`Talk`). `AnswerMatches` alone does not say so, and a stale response in a queue would break it
  several steps later. `Order` adds that commands are sent in turn.

`LinkAgrees` follows from the first two parts. The operations of the driver and of the library have a
lemma each about what they leave alone (`SameButTx`, `SameTalk`, `SameLink`), so a step that
only switches the link cannot disturb a command, and the other way round.

### A CoAP request

Assumption: `CoapAssumption` (a block of at least one unit; lengths and counts are natural numbers).
`ReqInv` says where each unit is. Of the response, a unit came and is with the host or in the
buffer, and the buffer is filled only while the library's thread waits in its callback; `rx_consumed`
is given, or about to be, once per block (`ResponseInv`). Of the upload, the staging buffer holds the
units the host sent last (`StagingInv`), those before were handed over, and the semaphores say
whose turn it is (`Uploading`); the response begins when all were. An upload that was given up is out of
data mode and fails when the library next asks (`AbortedInv`). Without these a stale semaphore of one
block would hand over half of the next. The two threads' steps change the two halves of the invariant
apart from each other (`Keeps`).

### Sockets and HTTP requests

Assumptions: `SocketsAssumption` (finitely many sockets, a receive buffer of at least one unit),
`ServicesAssumption` (budgets). The invariant is `StateOK(s) /\ WorkOK(s, work)`.

* `Response` says where each unit of a response is: sent by the server, on the wire, in `recv_buf`
  or with the host, in this order and without a gap. While the headers are received, the buffer and
  the wire are the beginning of a response (`Beginning`); once they are complete, what the host has, the
  buffer and the wire are what the server sent of the body, and `total` counts the first two.
  `RequestsSettled` looks only at the moment of the result, and follows.
* `SockOK` keeps a request with its socket, also in `SENDING_BODY`, when data mode is its own;
  `ChanOK` says to whom data mode belongs. `owed` is the number of active requests, so a
  request cannot end twice.
* `WorkOK`: what the poll handler looked at before its loop (whether the channel was in AT or in data
  mode) still holds where it matters, although a request or a socket that failed for an earlier socket
  may have changed the mode.

The lemmas follow the layers of the code. What polling, its callback and its work item do leaves types,
connections, requests and the wire alone (`Same`); what an operation on one socket does leaves the
others alone (`Apart`), and a socket that is closed takes its request with it; commands on plain
sockets do not touch requests (`Beside`). The operations of `sm_at_httpc.c` have each a lemma that says
what becomes of `Response` (a step of the parser, a pull, a refill of the buffer, the five ways to
end), and `Services`' actions compose them.

### What stays with TLC

* Liveness (TLAPS reasons neither about fairness nor about ENABLED): all `~>` and `[]<>` properties.
* `TerminatorExits` for terminators that are not `Uniform`: it is false for some of them.
* What is violated: `CloseReopens`, `KeepsWorking`, `LinkReturns`, and `RxRecovers` and `CloseTerminates`
  without `StaleBit`, `SocketRead` without `dull`, and the link's properties without their ghosts.
* What recursively defined functions compute over all inputs would need induction over data, which
  is out of the prover's reach; the modules declare no RECURSIVE operator.

## 5. Not modelled, and plan

Modelled: the UART paths, the AT host with its contexts, CMUX, PPP, sockets, the HTTP and
CoAP clients, the DTR UART driver and the AT client library. Not modelled:

* MQTT and nRF Cloud clients, GNSS, DFU and FOTA: session state over libraries that are
  not in the repository. What they share with the rest is the AT host's lock taken from another
  thread; `PROJECT.json` lists it as a hazard without a property.
* ICMP ping, SMS, provisioning, carrier, generic queries: handlers that format, parse or
  forward to a library.
* Control pin, settings, utilities, trace and log output: hardware, storage, text. The trace
  channel of CMUX is output.
* The Zephyr modem driver's chat scripts: data.
* Of modelled components: socket options and name resolution, packets and addresses of PPP,
  frames of CMUX, text of HTTP headers and CoAP options, echo and the command grammar.

Every safety property that a passing run checks is also a theorem, `TerminatorExits` and
`CommandsUndisturbed` under the hypotheses above. What is left to extend is the model: the
library threads of MQTT and nRF Cloud against the AT host's lock would come first.

`PROJECT.json`, "components", gives the reason for each part that is left out.
