# TLA+ models of stm32_openvpn

The repository is OpenVPN 2.4 ported to an STM32F746 board: FreeRTOS tasks, lwIP, FatFs on a USB stick
and mbedTLS carry a C code base that is mostly upstream's (`src/openvpn`), glued to the board by
`src/Src`. This directory holds TLA+ models of the program's own logic, the TLC runs that check them on
small instances, and theorems that TLAPS checks for every instance.

Paths below are relative to `src/`; `O/` stands for `openvpn/Src/`, `I/` for `openvpn/Inc/`.

## 1. Inventory

### Parts of the system

| part | sources | state it keeps | operations | what makes it correct |
|---|---|---|---|---|
| reliability layer | `O/reliable.c` | `struct reliable` (send and receive arrays: ids, retransmission times, hold), `struct reliable_ack` | take a slot, mark active, send, schedule, purge, acknowledge, write acknowledgements | in-order delivery, each packet once; nothing acknowledged that is not stored; the receive array never blocks itself |
| TLS control channel | `O/ssl.c` | `tls_multi` > `tls_session` > `key_state`: state, ids, buffers, keys | `tls_process`, `tls_multi_process`, `tls_pre_decrypt`, soft reset | the handshake completes; both ends agree on keys; an old key outlives its successor's negotiation |
| packet ids | `O/packet_id.c`, `crypto_check_replay` of `O/crypto.c` | next id and stamp; window of ids with times of arrival; image of `--replay-persist` | write, test, add, reap, save, load | no packet accepted twice, also across restarts; late packets refused, others not |
| virtual interface | `Src/ethernet_openvpn.c` | queues `qRx`, `qTx`, lwIP's netif | output (lwIP's thread), read and write (OpenVPN's task), input (a task of its own) | frames pass, in order; nobody waits for ever |
| UDP server loop | `O/mudp.c` | `m->pending`, status bits of the iteration | wait, socket write, tun write, socket read, tun read, management | one instance has output at a time; what is read is handled |
| client instances | `O/multi.c`, `I/multi.h`, `O/mbuf.c` | instances, hash tables, packet queue, schedule | create, close, float, post-process, unicast, broadcast, time out | nothing refers to a closed instance; frames in order; wakeups served |
| event wait | `O/event.c`, `O/forward.c`, `I/forward-inline.h` | descriptor sets, timers | `io_wait`, `pre_select`, per-packet processing | returns what is ready, or times out |
| TCP server loop | `O/mtcp.c` | action per instance, deferred output | dispatch, post | an action is carried out on a live instance |
| scheduler, lists, pool | `O/schedule.c`, `O/list.c`, `O/pool.c` | treap of wakeups, hash tables, addresses | add, remove, find, iterate, acquire, release | earliest first; entries found again; no address twice |
| fragmentation | `O/fragment.c` | 25 reassembly buffers, sequence id | split, join, expire | fragments of different datagrams do not mix |
| ping, occ, push, signals | `O/ping.c`, `O/occ.c`, `O/push.c`, `O/sig.c` | timers, negotiated options | send, receive, expire, restart | a dead peer is noticed, a live one is kept |
| clock | `O/otime.c`, `I/otime.h`, `I/basic.h`, `O/interval.c` | `now`, `now_adj` | update, intervals | time does not go back |
| firmware | `Src/main.c`, `Src/ethernetif.c`, `Src/random.c`, `Src/delay.c`, `Src/network.c` | queues between tasks, DMA descriptors, mutexes | send, receive, suspend | no lost wake-up |
| everything else | options, sockets, routes, cryptography, compression, management protocol, vendored libraries | | | see `PROJECT.json` for each part and why it is left out |

### How they interact

One task runs OpenVPN. Its loop waits (`io_wait`), then calls handlers that run to completion, and each
handler ends in `multi_process_post`, which calls `pre_select` and so the timers and `tls_multi_process`
of the instance it touched. Decrypted packets pass `crypto_check_replay`; control packets go to
`tls_pre_decrypt` and the reliability layer. Between that task and lwIP stand the two queues of the
virtual interface; lwIP is built with core locking, so that the thread which sends a frame holds the
core lock while the driver's output function runs, and the OpenVPN task takes the same lock to send on
its UDP socket. The input task, and lwIP's own thread, empty the other queue.

### What is hard here

* A network that loses, duplicates and reorders (reliability layer, packet ids, fragments).
* Timers: retransmission, reaping, key transition, pings, all on a clock of whole seconds of uptime that
  starts over every 49.7 days.
* Wrap-around: 32-bit control ids, data ids that end and start again with a new stamp, key ids of three
  bits, fragment ids of eight.
* Restarts on signals, which keep some state in memory, reload some from a file, and forget the rest.
* The port's own concurrency: blocking queues inside a lock, a `select` that is skipped, independent
  `if`s in place of upstream's `else if`s in the server's loop.
* Instances that close while they are pending, scheduled or the destination of queued packets.
* Two peers that renegotiate on timers of their own, and must find a common key at every moment between.

`PROJECT.json` lists each hazard at its line with the properties that are about it, or says why none is.

## 2. Plan

Done, in this order:

1. `Reliable`, `ControlChannel`, `InOrderDelivery`: the reliability layer under the control channel, and
   the abstract channel it implements; proofs in `ControlChannelProofs`.
2. `PacketId`: replay protection and its persistence; proofs in `PacketIdProofs`.
3. `VpnIf`, `UdpServer`: the port's virtual interface composed with the server's event loop; proofs in
   `UdpServerProofs`.
4. `TlsSession`, over the in-order channel of 1: the primary and the retiring key, soft resets from both
   sides and their duplicates, key ids, the choice of a key for data; proofs in `TlsSessionProofs`.
5. `Schedule` and `Wakeups`: the treap of wakeups, the functions of the server that use it, and the set of
   times it implements; proofs in `ScheduleTreap` and `ScheduleProofs`.
6. `Fragment`: joining over a network that reorders and loses, sequence ids that wrap; proofs in
   `FragmentProofs`.
7. `Keepalive`: the clock with its backtrack protection, event timeouts, coarse timers, ping and
   ping-restart of two ends of a point-to-point tunnel; proofs in `KeepaliveProofs`.

Left:

8. Sessions: a hard reset that opens a second session beside the active one (`TM_UNTRUSTED`), the old one
   that retires (`TM_LAME_DUCK`), and failed sessions that start again.
9. The outer loop of `O/openvpn.c`: what a tunnel keeps over SIGUSR1 and SIGHUP, beyond the packet ids.
10. The half of `Survives` with a soft reset that comes late: the keys may then be a renegotiation apart,
    which the situations of the proof of the other half do not include.

## 3. Modules

| module | is |
|---|---|
| `Reliable` | the operations of `reliable.c` as operators on records |
| `ControlChannel` | two peers running `tls_process` and `tls_pre_decrypt` over a network |
| `InOrderDelivery` | what a control channel promises: two channels that lose, repeat and reorder nothing |
| `MCControlChannel` | its bounds per peer, given by single numbers of a configuration |
| `ControlChannelProofs` | its types, the spread of retransmissions, the inductive invariant and the refinement, the handshake, the receive array that never blocks |
| `PacketId` | a sender's stamps, a receiver's window, the persisted image |
| `PacketIdProofs` | proofs about the window, the linear mode, the stamps and restarts |
| `VpnIf` | the virtual interface between lwIP and OpenVPN |
| `UdpServer` | the event loop of the UDP server over `VpnIf` |
| `UdpServerProofs` | its invariant: types, one owner of the buffers, no dangling instance; on top of it the order of frames |
| `TlsSession` | two peers that renegotiate their keys |
| `MCTlsSession` | the renegotiation interval of each peer, given by single numbers of a configuration |
| `TlsSessionProofs` | its types, that data is understood, and that the session survives lost packets |
| `Schedule` | the treap of wakeups, and the server's loop as its user |
| `Wakeups` | what a scheduler promises: one wakeup per entry, near the time asked for, the earliest first |
| `MCSchedule` | the symmetry of its entries |
| `ScheduleTreap` | lemmas: what each function of `schedule.c` makes of a search tree, and that its loops end |
| `ScheduleProofs` | the scheduler's invariant, and that it implements `Wakeups` |
| `Fragment` | a datagram from `fragment_outgoing` to `fragment_incoming` |
| `FragmentProofs` | its invariant: where the window is, and whose pieces each buffer holds |
| `Keepalive` | the two ends of a point-to-point tunnel that ping each other on the board's clock |
| `KeepaliveProofs` | proofs that the clock keeps time, that a restart is neither early nor late, that live peers stay |

### ControlChannel

`send`, `rec` and `recAck` are `ks->send_reliable`, `ks->rec_reliable` and `ks->rec_ack` of each peer.
An entry of an array is a record; `next_try` is kept as the seconds that are left (`wait`), so that a
behaviour does not count time. `tls_process` loops until a pass changes nothing: `PassSends` is a pass
that writes a packet into `to_link`, `PassTransfers` one that moves a packet from the receive array to
TLS or takes ciphertext from it, `ProcessReturn` is the end of the call, with a dedicated
acknowledgement if one is due, and `ProcessFails` its error exit. `pc` keeps a peer inside the call;
`"busy"` is a call that finds `to_link` occupied. `Receive` is the control part of `tls_pre_decrypt`:
routing, burst, purge of acknowledged packets, storing and acknowledging. The network is the set `net`;
`Lose`, `ReceiveCopy` and choosing any member of the set are loss, duplication and reordering. TLS is
an oracle that takes what it is given and produces up to `MaxPackets` packets. A packet carries the
number of packets generated before it, which is its content: with it the properties can say what was
delivered although ids wrap.

### PacketId

`sender` is `struct packet_id_send`, `rec` is `struct packet_id_rec`, its circular list a sequence with
the newest item first; `persist` and `file` are `struct packet_id_persist` and what the file holds.
`Receive` is `crypto_check_replay`: reap if due, test, add, save the object. `Flush` is the save once a
minute, at any time here. `Restart` is the whole path of a signal: `do_close_packet_id`, and the load
and `packet_id_persist_load_obj` of the initialisation that follows. The network keeps every packet
sent and may bring any of them at any time.

### VpnIf and UdpServer

`qRx` is a sequence of frames, each with its destination and its number; of `qTx` only the length
matters. `output` holds the frame of a sender that is blocked in `xQueueSend` with the core lock held.
In `UdpServer` an instance is `"closed"`, `"new"` or `"up"` (`connection_established_flag`); `toLink`
and `toTun` are the lengths of `c2.to_link` and `c2.to_tun`, except that `toLink` remembers which frame
of the tun it holds. `todo` is what is left of `event_set_status` in this iteration; each handler is one
action, enabled in the order of `multi_process_io_udp` (`Rank`). `Post` is `multi_process_post`
with the outcomes of `pre_select` that matter: a signal for the instance, a packet of its own, a
connection found established, which closes older instances of the same name. `Close` is the part of
`multi_close_instance` that removes references. The instance's wakeup is a member of `due` once its time
has passed, for `Tick` may happen at any time.

### TlsSession

`primary` is `key[KS_PRIMARY]` of the active session of each peer, `lame` what is used of
`key[KS_LAME_DUCK]`. Each key has two packets in each direction: the soft reset (id 0), and one that
stands for the TLS flights with the key material (id 1); `una`, `acks` and `arrived` are what remains of
the reliability layer, whose in-order delivery is `ControlChannel`'s subject. `must`, `defer`, `reneg`
and `die` are `must_negotiate`, `auth_deferred_expire`, `established + renegotiate_seconds` and
`must_die`, as times left. A pass of `tls_process` is `Top` (opening, time-out, the two waits for
acknowledgements) and either the sending of a packet (`PassSends`) or `Bottom` (take, send key, receive
key); `Call`, `PassFails`, `PassSends`, `PassWorks` and `ProcessReturns` are the call from the check of
the renegotiation interval to the dedicated acknowledgement. `Receive` is `tls_pre_decrypt`: a soft reset
that finds the key in use moves the keys (`AsksForReset`), every packet then goes through the check of
the key id and the reliability layer (`Taking`). `session->burst` is set at the hard reset of a session,
so that a soft reset never bursts. Time is counted in seconds, with the backoff of `reliable_send`:
`Tried` is its part that waits `timeout` for the next try and doubles it, `Tick` makes due what has waited
(`Older`). A key's packets have one `wait` and one `timeout` for both, since the first is acknowledged
before the second is made. Both peers run the loop of `O/openvpn.c`, which calls `tls_process` when one of
these timers ends: a client, or either end of a point-to-point tunnel, with `Server` the one that has
`tls-server`. An instance of the UDP server is called only when it has traffic (finding 3): it answers
what it receives, but neither sends again nor renegotiates on its own timers, so that the promises of this
module are not about it. The same goes for the liveness of `ControlChannel`, whose fairness is that of such
loops. `Selected` is `tls_pre_encrypt`'s choice, `DecryptedBy`
`tls_pre_decrypt`'s search for the key of a data packet.

### Schedule and Wakeups

`root` and `node` are the treap with its links, priorities and times, `earliest` is `s->earliest_wakeup`,
`chosen` is `m->earliest_wakeup`, `timeout` what is left of the wait. The operators on a tree (`RotateUp`,
`RemoveNode`, `Insert`, `Lift`, `AddModify`) take the links and return them changed, one operator
for each function; `AddModify` returns the trees for all random priorities. The loops of the functions are
`Loop(F, x)`, where the body `F` leaves what the loop ends with alone: `F` as many times as there are
entries. That this is enough is `LoopEnds` of the proofs. `Handle`, `CloseInstance`,
`GetTimeout`, `Event` and `ProcessTimeout` are what the server's loop does with it. Times are relative to
now. `Wakeups` knows nothing of trees: a function from entries to times, and who is served. The mapping
takes the times of the entries in the tree for it. `UdpServer` has only the set of instances that are
due; `Schedule` is the other half.

### Fragment

`out` is the outgoing half of `struct fragment_master`, `list` is `struct fragment_list` of the other
peer, `wakeup` its housekeeping timer. A fragment and a piece that was copied to a buffer remember their
datagram as an age, the number of datagrams begun since, which is history: the code never sees it, and it
tells datagrams with the same sequence id apart. `Incoming` is `fragment_incoming`, with
`fragment_list_get_buf` as `GetBuf`; `recent` and `behind` are history for the properties. The replay
protection below (`PacketId`) is the assumption about the network: no duplicates, and nothing older than
`MaxLate`. Datagrams that are sent whole pass through without touching any state.

### Keepalive

`tick` is `time()` of each board, `HAL_GetTick()/1000`, which starts over (`SystemSeconds` stands for
4294967); `now` and `now_adj` are otime's. `timers` holds `last` of `ping_send_interval` and
`ping_rec_interval` and `coarse_timer_wakeup`. Each event of a peer's loop (`WaitEnds`, `ReadsLink`,
`ReadsTun`, `WritesLink`) is `update_time`, the handler, and `pre_select`, whose result is the next wait.
The loop is that of `O/openvpn.c`, of either end of a point-to-point tunnel with `keepalive p t`, for which
`helper_keepalive` makes `p` the ping interval and `t` the restart timeout. What is shown is not shown of
the UDP server: there an idle instance comes to its `pre_select` only through `multi_process_timeout`, which
finding 3 says is never reached. It does not ping on its own timer, nor notice that its client is silent,
before a packet from the client or for it makes it run, nor is the server's doubled restart timeout
(`O/helper.c:548`) modelled. Nor does all of it hold for a client of that server, which runs the loop modelled
here but hears pings only when the server's instance runs: of the properties only `SilenceIsNoticed`,
`KeepsTime` and `NoRestartTooEarly` are about one peer's loop alone. In a peer's own loop `se_wait_fast`
skips `select` as well, but there this only makes the wait end early, with two reads that do not block and
find nothing: `WaitEnds` may be taken at any time, and must be once the wait is over.
`CoarseTimers` is `check_coarse_timers` with `check_ping_restart` and `check_ping_send` in the order of
the code. `Longest` is the longest wait another timer allows, and how late a wait may end. `up`, `wraps`
and `heard` are history: true time, which the program does not have. `now - backward_trigger` in unsigned
arithmetic is written as what it is, a number beyond any time when `now` is small (`FallsBack`). A peer
whose `ping-restart` came is out of the model (`signal`), and so is one without power.

## 4. Runs

The modules bound their counters in the guards; `keepalive` alone has a state constraint, `Bounded`,
which ends the check at an uptime of `Horizon` and leaves the specification, about which there are
theorems, unbounded. `CHECK_DEADLOCK FALSE` stands where the system really stops: the control channel
comes to rest when everything is acknowledged, the packet ids when time and ids are used up, and the
server's loop when its process ends or it waits for lwIP as described below. `tls_session`, `schedule`,
`fragment` and `keepalive` are checked for deadlock.

| run | bounds | shows |
|---|---|---|
| `control_channel` | both peers call, keys may fail, 4 + 1 packets, send array of 3, receive array of 2, 1 + 1 in flight | types, nothing lost, replays acknowledged, retries spread, a three-way handshake, the receive array is not filled up by packets ahead of sequence, implements `InOrderDelivery` (hence in order) |
| `control_channel_live` | one caller, 2 + 2 packets, send array of 2, receive array of 3, backoff, copies in flight | the handshake completes, everything arrives |
| `packet_id_window` | 3 ids, window of 2 ids and 1 second, 3 seconds, stamps that change | no replay, no late packet, no packet refused for nothing, the reap walk may stop early, fresh stamps |
| `packet_id_linear` | 3 ids, linear mode, SIGUSR1 at any time | no gaps, the place in the sequence is kept |
| `packet_id_hangup` | SIGHUP at any time | violation: finding 1 |
| `udp_server` | 2 clients, queue of 1, 2 frames, packet queue of 2 | types, one owner of the buffers, no dangling instance, link reads handled, frames in order; output and tun writes go on unless both sides wait for each other |
| `udp_server_assert` | 2 clients, queue of 1 | violation: finding 2 |
| `udp_server_wakeup` | 1 client, `--fast-io` | violation: finding 3 |
| `tls_session` | handshake window of 4 seconds, first retransmission after 1, transition window of 8, renegotiation every 8, 2 faults per renegotiation, of which 1 may be a late soft reset, key ids up to 2 | types, data always understood, the session survives, both peers come to the same key again and again |
| `schedule` | 3 entries, priorities 1 to 3, waits up to 3, a tolerance of half the wait up to 1 | the treap is one and well typed, cached entries are fresh, the loop wakes in time, implements `Wakeups`, who was served is rescheduled |
| `fragment` | 6 ids, 2 buffers, datagrams of 2 fragments of 2 sizes, 2 in flight, ages up to 2, bursts up to 2, a time to live of 2 | only whole datagrams are joined, what arrived is joined, the window finds the newest datagram |
| `keepalive` | both ends of a point-to-point tunnel, a counter of 20 seconds, keepalive 2 8, delay 1, 1 packet lost, 1 frame, uptime up to 31 from 15 or 17 | the clock keeps time, silence is noticed, live peers stay, no restart is early |

Why the bounds are enough. In the control channel a receive array of two gives the cases the code
distinguishes: an id behind, at and ahead of the next one, an array with and without room, an id in the
array twice. A send array of three is larger than that, which the code does not have on its own side
(4 and 8) but must survive from another implementation, and which four packets fill. A receive array of
one would not do: a peer that waits for its hard reset to be acknowledged keeps the other's in the
array, has no room left, and `tls_pre_decrypt` acknowledges a replay only when there is room, so that
two peers whose first acknowledgements were lost would wait for each other for ever.
`Lifetime` bounds how old a packet of the network may get compared with the ids in use, as the 32-bit
ids do by their number. For packet ids, three ids and a window of two reach jumps within, at and beyond
the window, the clock runs past the time window and a reap, and stamps change three times; the theorems
cover the other sizes. In the server two clients are the fewest for broadcasts, floats, duplicates and
client-to-client packets, and two frames overflow a queue of one; the safety properties were also checked
with a queue of two and three frames.

In `tls_session` behaviours have no end: key ids wrap, and every interleaving of two renegotiation timers
occurs, on either side first or on both. With retries after 1, 3 and 7 seconds a window of 4 is passed by
three losses of one packet and not by two, which the run allows; the code's are 2, 6, 14, 30 and 62
seconds, so that five losses pass the default window of 60. A fault is a packet lost or a second the network is
late by, and with the bound of 2 a renegotiation has two faults, or one and a soft reset that comes again.
Also checked: a window of 2 with a transition window of 4 and renegotiation every 4, where two faults end
the session; three faults in the window of 4, without a late packet, which may end it too; and a window of 8
with a first retransmission after 2. The latency of `Understood`, `TransitionWindow - 2 * HandshakeWindow`,
is proved for all bounds; the run would pass with one second more, which three faults reach in a window of
2 without late packets.

`Survives` is sharp where it counts losses: in a window of 3 seconds two losses of the same packet, whose
third try would come after 3 seconds, end the session. And it promises less than one would like, for faults
and late soft resets do not add up. In the window of 4 one loss and one late soft reset end the session.
The server has sent its key packet, which is lost; a soft reset that comes late moves it to a new key
in place of the one it would have sent the packet of again; and the client, which waits for that packet,
lets its handshake window pass. Two late soft resets do it without any loss, and so does one in a window
of a single retransmission timeout: a client that has received the last packet of the handshake, and not
looked at it yet, ignores the soft reset of a server that was moved on, and the server repeats it one
timeout later. So the property is about losses, or one late soft reset in a window longer than the first
timeout.

In `schedule` three entries give rotations to both sides at the root and below it, deletions with no, one
and two children, and equal times; four entries (waits up to 2, none overdue) were checked too. The code's
tolerance is an eighth of the wait, up to two minutes; here it is half, so that it is not zero.

In `fragment` the ids go round several times within the state space, and ages of two reach from inside
the window of two buffers to beyond it. `NetworkAssumption` (what is late and what is lost in one burst
stay below the number of ids less the number of buffers) is needed: with `N_SEQ_ID` 4 in its place the
properties fail. In the code that number is 256 - 25 = 231 datagrams.

In `keepalive` each counter wraps once, at the same time, before or after the other's, while packets are
lost, late and delayed. Also checked: two packets lost (timeout 10, a counter of 23 seconds), two wraps (a
counter of 18 seconds), and a loop that is late by a second (timeout 11). The parameters are at the edge:
with a timeout of 7 a peer that is alive is given up at a wrap, because the wrap costs up to one wait, in
which `now` stands still and the ping is not sent. With `keepalive 10 60` and one wait of ten seconds, three
pings may be lost in a row.

`reliable_pid_in_range2` (`O/reliable.c:81`) allows for the wrap of `base + extent` only. With ten packets
on eight ids and one caller, delivery stays in order, but two properties fail: a replay with an id just
below 2^32 counts as ahead of a base that has wrapped to 0 and is not acknowledged
(`ReplayAcknowledged`), and an id that has wrapped counts as below a sum that has not, so that a packet
beyond the window is stored (`NotWedged`, when the sender's window is larger). Both take 2^32 control
packets on one key, and the configurations here keep below the wrap.

Fairness. In `ControlChannel` each peer's loop calls `tls_process` over and over (the loop of `O/openvpn.c` has
a timeout of at most a minute; an instance of the UDP server without traffic is not called, finding 3, so
that the liveness is that of two peers with that loop), so its passes are strongly fair: a call that finds
`to_link` busy does not count. The network may misbehave as long as it likes but not for ever (`<>[][Calm]_vars`), without which
nothing can be promised. In `UdpServer` the tasks run (weak fairness of the loop, of the input task, of
a send that has room): FreeRTOS schedules them by priority, and the model claims nothing of a starved
task. `SF_vars(SocketWrite /\ pending' = NoClient)` says that an instance does not have a packet of its
own to send after every one that was sent; `pre_select` adds one only when a timer or an
acknowledgement is due, and the send array of the reliability layer has four places. `TlsSession` asks
only that something happens (`WF_vars(Next)`): between two ticks there are finitely many steps, so that
time passes, and a peer with something to do acts before it does. Its faults are bounded for each
renegotiation, not in all. `Schedule`, `Fragment` and `Keepalive` make no liveness claims: that a wakeup
is served in time, or silence noticed, is an invariant of the times.

## 5. Findings

1. `packet_id_hangup` (`O/packet_id.c:441`): the `--replay-persist` file is opened with
   `FA_CREATE_ALWAYS`, hence empty, before it is read. Nothing is ever loaded.
2. `udp_server_assert` (`O/mudp.c:223`): a tun write of an iteration whose earlier handlers closed the
   pending instance, or sent its packet and left none pending, fails `ASSERT(mi)`. The cause is that
   the four events are handled in independent `if`s; for the same reason the tun is read in an iteration
   in which the packet from the link has left output pending, and `multi_process_incoming_tun` drops the
   frame (`TunRead`).
3. `udp_server_wakeup` (`O/event.c:1049`): with the tun in its set the wait never times out, so that a
   client instance without traffic is never served by its timers: its wakeups (`Schedule`), the time to
   live of its fragments, its pings and its restart timer (`Keepalive`), and the retransmissions and the
   renegotiation of its TLS session (`TlsSession`) wait for the next packet from its client or for it.

Observations, which no run of the table shows:

* `O/packet_id.c:128`: after a SIGUSR1 with `--replay-persist` the first packet ahead moves the lower end
  of the window below the restored id, and packets from before the restart are accepted again
  (`AcceptedOnce` is violated in `PacketId` with `Signals = {"SIGUSR1"}`, `Persist` and a window).
* `Src/ethernet_openvpn.c:188`: lwIP blocks on a full `qRx` with its core locked; the OpenVPN task, which
  empties `qRx`, waits for the lock to send. Both stop. `CrossWait` of `UdpServer` is this state, which
  `TunWritten` and `OutputWaitsForLoop` except.
* `O/fragment.c:69`: a replay window of 64 packets lets fragments through that are up to 32 datagrams old,
  but there are 25 buffers: such a fragment makes the window start anew around it, and the datagrams that
  were being joined are lost, once then and once when the next fragment brings it forward again. The
  property `ArrivedIsJoined` has the exception for it. `O/fragment.c:109`: the first sequence id is
  random, the receiver's window starts at 0, and an id among the 24 below 0 is taken for an old one until
  the ids pass 0; nothing is lost by it. With `--fragment` a fragment that completes no datagram does not
  reset the restart timer (`O/forward.c:969`), for its length is 0 by then. In the server the time to live
  is only enforced when an instance has traffic, because of finding 3.
* `I/interval.h`: the comment on `event_timeout_trigger` says that it returns true when the timeout has
  passed; with `et_const_retry` of 0 or more it does not, and `check_ping_send` relies on that.
* `O/otime.c:58`: the damping of forward jumps needs a wait of a day and cannot happen on this board.

## 6. Proofs

What TLAPS proves holds for every value of the constants allowed by the named assumptions of the
modules. Where a theorem assumes more, it says so itself (`NoWrap`, `OnceAround`, `SlowWrap`, `Patience`,
a condition on `Signals`), and the constants of the run that checks its property satisfy it.

* `ControlChannelProofs!TypeCorrect`: `TypeOK` is inductive.
* What it proves about delivery assumes `NoWrap`: a key generates no more packets than half of the ids.
  `IInv` adds to `TypeOK` and to the properties three parts. `Bounded` ties `generated` to the bound.
  `Numbered` says that a packet's id is its number wherever the packet is, which is what makes the
  comparisons modulo 2^32 comparisons of numbers. `AcksTruthful` says that whoever acknowledges a packet
  has it, in `recAck` and in flight. `InOrder` alone is not inductive, since a packet in the receive
  array could be anything; `NothingLost` is not, since an acknowledgement in flight could be a lie. From
  `IInv` follow `DeliveryInOrder`, `DeliveryLosesNothing`, `ReplaysAcknowledged` (which also needs room
  for a receive window below the wrap), and `Implementation`: each step is a step of `InOrderDelivery`
  or leaves `generated` and `delivered` alone.
* `RetransmissionsSpread` is inductive with `TypeOK`, wraps included, for `reliable_unique_retry` looks at
  the whole array. `HandshakeIsComplete` adds `Opening` to `IInv`: hard resets are packets 0, a peer that
  is not linked has stored and delivered nothing, and the hard reset of an opened key is in its send array
  until the other's has come. It needs a window below the whole space of ids. `NeverWedged` needs no
  window to reach the wrap (`MaxPackets[p] + RecSize < PidMod`): by `Windowed` the ids in a receive array
  differ and lie within the window, so that an array without the next id has a free place, which is a
  count of an injection into an interval one shorter than the array.
* `PacketIdProofs`, without restarts (`Signals = {}`): the invariant has five parts. `Remembers`: an
  accepted id is not ahead of the window, and its item of the list, if it has one, is `SeqExpired` or
  its time of arrival. `Young`: an item that the last reap left is not older than the time window.
  `Ordered`: expired items are behind the others. `Begun`: the list is empty only before the first
  accepted packet. `Clock`: no time is ahead of the clock. `NoReplay`, `TimeWindow` and
  `ReapStopsEarly` follow. `NoReplay` needs `StartAssumption`: a time of arrival that equals
  `SEQ_UNSEEN` would leave an accepted id unmarked. `FreshIds` has an invariant of its own, that what was
  sent is not ahead of the sender in the order of stamps and ids. `RestartKeepsPlace` allows any number of
  SIGUSR1, given `Persist` and `LongForm`, by showing that the object in memory is never behind.
  `RefusedOnlyLate` is the converse of `NoReplay`, again without restarts: by `Explained` the list is as
  long as it can be and every item of it marks an id that was accepted or is expired behind one accepted
  long ago, and by `Reached` the window is at an id that was accepted. `NoGaps` is the linear mode: the
  receiver's place is the last id accepted of its stamp (`LinearInv`), also after any number of SIGUSR1,
  by `RestartKeepsPlace`.
* `TlsSessionProofs`: `TypeCorrect` rests on lemmas that say what each part of a pass does to a key
  (`OpenedIs` to `KeyReadIs`). `DataIsUnderstood` assumes nothing beyond the module's own assumptions,
  which are lower bounds on the windows and intervals. Its invariant, while both sessions last and no
  soft reset has come late, knows two situations. Both peers are at one key, and in each direction `Link`
  holds: the packets on their way and what each end has acknowledged fit both keys (`Flow`); a peer does
  not encrypt with its new key before the other one can decrypt with it, nor renew it before the other's
  could be used (`Pace`); and until both new keys may be used both peers have the retired one, for at least
  as long as that can take (`Kept`). Or one peer leads: it has renewed its key, all that can have left it
  since is soft resets, the other peer has not seen one and uses the old key, which the leader keeps
  (`Lead`). `Parted` and `Joined` are the two transitions between the situations. That time passes is the
  hard step: a second passes only when nobody has anything to do, so that a peer whose handshake has come to
  the last second has either finished it or given the session up (`OpensAtOnce`, `ClientReads`, `Ready`).
  Every step that fails a session leaves it failed (`Ended`).
  `SessionSurvives` is `Survives` while no soft reset came late. Its invariant `Thrift` goes beside that of
  `DataIsUnderstood`: it is a budget of time. `Backoff[n]` is how long after its first try a packet is sent
  that was lost `n` times, defined in `BackoffAssumption` by what `reliable_send` does, twice as much and one
  timeout more with every loss. With `c` the budget that the faults of this renegotiation make, no
  handshake in progress has taken longer than `c` (`Charged`). For that to hold when the next second
  passes, an unacknowledged packet is sent again within `c`, and its next timeout is at most `c` and one
  first timeout, so that the try after it comes within the budget of one more fault (`Affords`); or it
  is sent again only within the next fault's budget, but then nothing of it is lost: what was sent and has
  not been acknowledged is on its way, or its acknowledgement is (`Covered`). A fault enlarges the budget,
  and so may break `Covered`; sending a packet spends the wait and doubles the timeout (`ChargedTry`);
  other steps hand what is unacknowledged from one of its places to the next. When time is about to pass
  there is nothing due, on its way or to be acknowledged, so that with `Covered` nothing is unacknowledged
  (`NothingLost`), and a handshake all of whose packets came is over (`HandshakeOver`). Losses of
  different packets cost less than as many of one, whose timeout starts anew with the next packet. A session
  that failed spent its whole window this way.
* `UdpServerProofs` assumes finitely many clients, a queue of at least one packet, and that neither NULL
  nor the broadcast address is a client. `IInv` is the three invariants the run checks and `Turns`: while
  the link or the tun is still to be read in an iteration, no write was asked for in it, and until the
  link is read no instance is pending. `LinkReadsWait` follows, and the handlers need it too: a packet
  from the link is processed on an instance only because no other has output.
* The second half of `UdpServerProofs` adds where the frames of the tun may be. `FrameOrder`: those still to be read are
  numbered upwards, the one of a blocked sender last. `Passed`: what was sent, waits in `to_link` or
  waits in the queue is older than all of them (`QueuePassed` for the queue). `Increasing` and
  `AfterSent`: in the queue the frames of one client increase, and come after what it was sent.
  `Direct`: a frame is in `to_link` only while no frame of the tun waits in the queue, which is why it
  overtakes none. `ReadsTun`: while the tun is still to be read nothing of the tun waits anywhere. Each
  handler keeps these parts, `FramesSentInOrder` follows, and with it that no client is sent a frame
  twice.
* `FragmentProofs`: in `IInv`, `Window` says that there is an age `h`, of the window's newest datagram,
  at most `MaxLate` behind the newest one that anything arrived of, and that a buffer `i` positions
  before it holds pieces of the datagram of age `h + i` only. `h` and every fragment on its way are
  then, by `NetworkAssumption`, near enough on the circle of ids that `modulo_subtract` is the true
  difference of their ages, or `Outside` when that is (`ModuloSubtractFinds`), so that
  `fragment_list_get_buf` finds the datagram's own buffer (`GetBufFinds`). `WholeInv` says that each bit
  of a map has its piece. `WholeDatagrams` and `NewestIsFound` follow. `ArrivedAreJoined` needs `JInv`
  as well: while nothing strayed, the fragments that came of a datagram are in its buffer, or it is
  so old that further ones stray (`KeptInv`), and all pieces of a datagram have one size (`SizeInv`), for
  else the buffer would be begun again.
* `KeepaliveProofs`: `IInv` is `TypeOK` and, for each running peer, `ClockInv`. Its subject is the lag of
  `now` behind the true uptime, the wait in progress aside. The lag is never negative, and either the
  clock is in step (no wrap since the last update: `now` is the system time of that update plus the
  adjustment, and the lag is at most one longest wait for each wrap) or a wrap is still to be made good
  (`now` is a whole period ahead of that, and one wait is still in hand). `UpdateKeepsTime` shows that
  `update_now` tells the two apart, by `ClockAssumption`: the longest wait and the backward trigger on
  top of it are shorter than the counter's period. Since the lag never shrinks, an interval measured
  with `now` is never longer than in true time, which is the last part of `ClockInv` (the restart timer's
  `last` is behind the time the peer was last heard by no more than the lag) and gives
  `RestartNotEarly`. `RestartNotLate` assumes that the counter does not wrap twice within a restart timeout
  (`OnceAround`; in the code, 49.7 days). `Missed` follows the lag since the last packet instead of since
  the start: none before the counter's next wrap, at most one wait after it, and nothing while the wrap is
  still to be noticed. `Listens` says that the loop wakes for the restart timer. `LivePeersAreKept` assumes
  the same of the counter (`SlowWrap`) and that the timeout exceeds what the losses can cost (`Patience`:
  a ping interval for each lost packet and one more, the delay, and one wait). Its invariant `Fed` accounts
  for the seconds since a peer last heard something: with `Gap` the longest time between two packets of
  the sender, every packet on its way, every lost one, and the one that is due pay for one `Gap`; and each
  packet on its way, together with the older ones and the lost ones, pays for the seconds up to when it was
  sent. What is not paid for is at most the wait that one wrap of the sender's counter costs (`Within`).
  Sending turns the packet that is due into one on its way (`FedSent`), a loss turns one on its way into a
  lost one (`FedLost`), a second makes all of them older (`FedAged`), and what is heard starts the account
  anew (`FedHeard`).
* `ScheduleTreap` and `ScheduleProofs`: a tree is followed through the functions of `schedule.c` with its
  subtrees. `Built(t, M, sub)` says that `t` is a search tree of the entries `M`, where `sub[e]` is the
  set of entries in the subtree of `e`; every lemma gives the `sub` of its result. `RotateBuilt`: a
  rotation gives `e` the subtree of its parent, and leaves the parent a smaller one. While
  `schedule_remove_node` sinks an entry the tree is a heap but for that entry (`HeapBut`), while
  `schedule_add_modify` lifts one it is a heap up to that entry (`HeapUpTo`), and at the end of either
  loop it is a heap. Each loop makes a set of entries smaller with every turn (the subtree of the sinking
  entry, the entries outside the subtree of the lifted one, the subtree of the place that
  `schedule_insert` and `schedule_find_least` descend to), so that it ends within as many turns as there
  are entries (`LoopEnds`, by well-founded induction on the number of turns, over a set instead of an
  operator). Nothing is assumed of the tree but that there are finitely many entries and no fewer
  priorities.
  `IInv` is `TypeOK`, `Sound(Tree)` (`Treap`, and the other entries hold nothing), `CacheFresh`,
  `WakesInTime` and two parts that make it inductive. `WakeupsKept`: an entry's time is within the largest
  tolerance of what was asked for, from which come the bounds of `wakeup` and `tv` in `TypeOK`.
  `ServedIsDue`: when the wait is over the chosen instance is due, from which, with the tolerance shorter
  than the wait (`SigmaBounds`), come `ServedAreRescheduled` and the step `Serve` of `Implements`. The
  refinement maps every step to a step of `Wakeups` or a stutter; that only the earliest is served is
  `LeastFound`.

Only model-checked: the liveness properties (`HandshakeCompletes`, `EverythingArrives`, `Renegotiates` and
those of `UdpServer`), since fairness is out of the prover's reach; and `Survives` of `TlsSession`
after a soft reset that came late, for the reason in the plan.
`TunWriteHasInstance` is false (finding 2).

## 7. What is not modelled

* The contents of packets, cryptography, certificates, TLS itself: a packet is what its receiver makes
  of it.
* Sessions beside the active one: `TM_UNTRUSTED`, `TM_LAME_DUCK`, and a failed session that starts again
  (`TlsSession` ends with it); authentication that is deferred; renegotiation by bytes or packets, which
  is one more reason for the soft reset that is modelled.
* `mtcp.c`, the TCP server. Its main wait uses `select`, with the tun under the pseudo-descriptor
  `MEMP_NUM_NETCONN - 1`, which lwIP's `select` skips because no socket is behind it. The tun is seen
  only in the short wait after a write to a socket (`IOW_READ_TUN_FORCE`), where `se_wait_fast` skips
  `select` and reports everything as ready, so that an action is never deferred and its timeouts never
  happen. A model of the loop with a working wait would be one of upstream's program.
* Process signals and restarts in `UdpServer`, the packet filter, virtual addresses (the destination of
  a frame is a client), `openvpnif_create` and `openvpnif_dispose`.
* `multi_process_timeout` is in `UdpServer` as a branch of `Wait`, and no behaviour takes it, for the
  reason of finding 3. `Schedule` has it, over a wait that times out.
* `DynamicQueue` of `Src/main.c`: `StartWebTask` enters an endless loop before it creates the queue.
* The timers of an instance of the UDP server in `Keepalive` and `TlsSession`: finding 3 says that they are
  not served without traffic, and a model in which they were would be of another program.
* `ping-exit`, `ping-timer-rem`, option compatibility (`occ.c`), pushed options, exit notification.
* Task priorities, and buffering in FatFs.
* Parts with status `not_modelled` in `PROJECT.json`, each with its reason.
