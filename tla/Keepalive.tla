------------------------------ MODULE Keepalive ------------------------------
(***************************************************************************)
(* The keepalive of a tunnel: two peers that ping each other and restart   *)
(* when they hear nothing, on the board's clock.                           *)
(*                                                                         *)
(* The clock is the HAL's millisecond counter divided by 1000, a number of *)
(* seconds that falls back to 0 every 49.7 days (Inc/basic.h).  update_now *)
(* (otime.c) makes of it a time that does not: `now'.  The event timeouts  *)
(* (interval.c) compare `now' with the time of the last packet, the coarse *)
(* timers (forward.c) run them and keep in coarse_timer_wakeup when to run *)
(* them next, and ping.c acts on what they report.  `keepalive p t'        *)
(* (helper.c) gives a peer the ping interval p and the restart timeout t.  *)
(*                                                                         *)
(* A peer is the loop of openvpn.c: either end of a point-to-point tunnel, *)
(* each with `keepalive p t'.  The loop waits, updates `now', handles what *)
(* ended the wait, and runs pre_select.  A client runs the same loop with  *)
(* what the server pushes, but its server does not: an instance of the UDP *)
(* server comes to its timers only after a packet from its client or for   *)
(* it (event.c:1049; WakeupsServed of UdpServer fails), and is no peer     *)
(* here.  The network and the power supply are external.                   *)
(***************************************************************************)
EXTENDS Naturals, Integers

CONSTANTS
    SystemSeconds,     \* the system clock counts 0 .. SystemSeconds - 1
    BackwardTrigger,   \* backward_trigger of update_now
    ForwardThreshold,  \* forward_threshold of update_now
    MaxSleep,          \* longest wait another timer of the loop allows (TLS, reaping)
    MaxLate,           \* a wait may end this late (task priorities)
    Ping, Timeout,     \* the parameters of `keepalive'
    MaxDelay,          \* seconds a packet spends in the network
    MaxLost,           \* packets the network loses
    MaxFrames,         \* frames the tunnels' users send
    Starts             \* the system time when OpenVPN starts, the counter at most once around

ASSUME ClockAssumption ==
    /\ SystemSeconds \in Nat /\ BackwardTrigger \in Nat /\ ForwardThreshold \in Nat
    /\ MaxSleep \in Nat \ {0} /\ MaxLate \in Nat
    /\ MaxSleep + MaxLate <= ForwardThreshold
    /\ MaxSleep + MaxLate + BackwardTrigger < SystemSeconds
    /\ Starts \subseteq 0 .. SystemSeconds - 1

ASSUME KeepaliveAssumption ==      \* the checks of helper_keepalive
    /\ Ping \in Nat \ {0} /\ Timeout \in Nat
    /\ 2 * Ping <= Timeout
    /\ MaxDelay \in Nat /\ MaxLost \in Nat /\ MaxFrames \in Nat

Peers == {"near", "far"}
Other(p) == IF p = "near" THEN "far" ELSE "near"

SendTimeout == Ping
RecTimeout == Timeout

Longest == MaxSleep + MaxLate

VARIABLES
    tick,     \* the system clock of each peer: time(NULL)
    idle,     \* seconds since each peer last updated `now'
    up,       \* true seconds each peer has been up: history
    wraps,    \* how often each system clock has wrapped: history
    now, now_adj,
    timers,   \* send, rec: `last' of the two event timeouts; wakeup: coarse_timer_wakeup
    to_link,  \* a packet waits in c2.to_link
    signal,   \* the peer got SIGUSR1 and left its loop
    power,
    wait,     \* seconds until the wait of the loop has ended
    net,      \* ages of the packets on their way to each peer
    lost, frames,
    heard     \* `up' of each peer when it last received a packet: history

clock == <<tick, idle, up, wraps>>
vars == <<clock, now, now_adj, timers, to_link, signal, power, wait, net,
          lost, frames, heard>>

Running(p) == power[p] /\ ~signal[p]

-----------------------------------------------------------------------------
(* update_now.  In the first seconds now - backward_trigger is negative,   *)
(* which in the unsigned arithmetic of the code is beyond any time.        *)
JumpsForward(real_time, t, adj) ==
    /\ real_time - t - 1 > ForwardThreshold
    /\ adj >= real_time - t - 1

\* Mutant: the comparison is reversed.
FallsBackMutant(real_time, t) ==
    /\ real_time <= t
    /\ t < BackwardTrigger \/ real_time > t - BackwardTrigger

FallsBack(real_time, t) ==
    /\ real_time <= t
    /\ t < BackwardTrigger \/ real_time < t - BackwardTrigger

Updated(t, adj, system_time) ==
    LET real_time == system_time + adj IN
    CASE real_time > t /\ JumpsForward(real_time, t, adj) ->
           [now |-> t + 1, adj |-> adj - (real_time - t - 1)]
      [] real_time > t /\ ~JumpsForward(real_time, t, adj) ->
           [now |-> real_time, adj |-> adj]
      [] FallsBack(real_time, t) ->
           [now |-> t, adj |-> adj + (t - real_time)]
      [] OTHER -> [now |-> t, adj |-> adj]

UpdateNow(p) ==
    LET u == Updated(now[p], now_adj[p], tick[p]) IN
    /\ now' = [now EXCEPT ![p] = u.now]
    /\ now_adj' = [now_adj EXCEPT ![p] = u.adj]
    /\ idle' = [idle EXCEPT ![p] = 0]
    /\ UNCHANGED <<tick, up, wraps>>

-----------------------------------------------------------------------------
(* The time left of an event timeout; at or below 0 it triggers.           *)
Left(last, n, t) == last - t + n

Earlier(a, b) == IF a < b THEN a ELSE b

\* Mutant: a ping is due a second late.
PingSendsMutant(tm, t, link) == Left(tm.send, SendTimeout, t) < 0 /\ ~link

(* check_ping_send: with a packet in to_link the ping is tried again in a  *)
(* second, and that packet stands for it.                                  *)
PingSends(tm, t, link) == Left(tm.send, SendTimeout, t) <= 0 /\ ~link

\* Mutant: no retry in a second.
PingWakeupMutant(tm, t, link) ==
    LET left == Left(tm.send, SendTimeout, t)
    IN  IF left > 0 \/ link THEN left ELSE SendTimeout

PingWakeup(tm, t, link) ==
    LET left == Left(tm.send, SendTimeout, t)
    IN  IF left > 0 THEN left ELSE IF link THEN 1 ELSE SendTimeout

(* check_coarse_timers: nothing to do before coarse_timer_wakeup; then     *)
(* check_ping_restart, which ends the peer, and else check_ping_send.      *)
CoarseTimers(t, tm, link) ==
    LET left == Left(tm.rec, RecTimeout, t) IN
    CASE t < tm.wakeup ->
           [timers |-> tm, link |-> link, signal |-> FALSE]
      [] t >= tm.wakeup /\ left <= 0 ->
           [timers |-> [send |-> tm.send, rec |-> t, wakeup |-> t + RecTimeout],
            link   |-> link, signal |-> TRUE]
      [] OTHER ->
           [timers |-> [send   |-> IF PingSends(tm, t, link) THEN t ELSE tm.send,
                        rec    |-> tm.rec,
                        wakeup |-> t + Earlier(left, PingWakeup(tm, t, link))],
            link   |-> link \/ PingSends(tm, t, link),
            signal |-> FALSE]

(* pre_select, and the wait it leaves to io_wait.                          *)
PreSelect(p, tm, link) ==
    LET c == CoarseTimers(now'[p], tm, link) IN
    /\ timers' = [timers EXCEPT ![p] = c.timers]
    /\ to_link' = [to_link EXCEPT ![p] = c.link]
    /\ signal' = [signal EXCEPT ![p] = c.signal]
    /\ \E late \in 0 .. MaxLate :
          wait' = [wait EXCEPT ![p] =
                      Earlier(c.timers.wakeup - now'[p], MaxSleep) + late]

-----------------------------------------------------------------------------
\* Mutant: the restart timer starts like the ping timer.
InitTimersMutant(t) == [send |-> 0, rec |-> 0, wakeup |-> 0]

(* do_init_timers: the ping is due at once, the restart counts from now.   *)
InitTimers(t) == [send |-> 0, rec |-> t, wakeup |-> 0]

(* Both peers have just set up the tunnel; update_now has run once.        *)
Init ==
    /\ tick \in [Peers -> Starts]
    /\ idle = [p \in Peers |-> 0]
    /\ up = tick
    /\ wraps = [p \in Peers |-> 0]
    /\ now = tick
    /\ now_adj = [p \in Peers |-> 0]
    /\ timers = [p \in Peers |-> InitTimers(now[p])]
    /\ to_link = [p \in Peers |-> FALSE]
    /\ signal = [p \in Peers |-> FALSE]
    /\ power = [p \in Peers |-> TRUE]
    /\ wait = [p \in Peers |-> 0]
    /\ net = [p \in Peers |-> {}]
    /\ lost = 0
    /\ frames = 0
    /\ heard = up

(* io_wait returns with nothing to read, when its time is over or sooner:  *)
(* with the tun in its set se_wait_fast takes everything to be ready, and  *)
(* neither of the two reads blocks.                                        *)
WaitEnds(p) ==
    /\ Running(p) /\ ~to_link[p]
    /\ UpdateNow(p)
    /\ PreSelect(p, timers[p], FALSE)
    /\ UNCHANGED <<power, net, lost, frames, heard>>

(* process_incoming_link: any authenticated packet, a ping or another,     *)
(* resets the restart timer.  Not read while to_link is occupied.          *)
ReadsLink(p) ==
    /\ Running(p) /\ ~to_link[p]
    /\ \E age \in net[p] : net' = [net EXCEPT ![p] = @ \ {age}]
    /\ UpdateNow(p)
    /\ heard' = [heard EXCEPT ![p] = up[p]]
    /\ PreSelect(p, [timers[p] EXCEPT !.rec = now'[p]], FALSE)
    /\ UNCHANGED <<power, lost, frames>>

(* process_incoming_tun puts a packet into to_link.                        *)
ReadsTun(p) ==
    /\ Running(p) /\ ~to_link[p] /\ frames < MaxFrames
    /\ frames' = frames + 1
    /\ UpdateNow(p)
    /\ PreSelect(p, timers[p], TRUE)
    /\ UNCHANGED <<power, net, lost, heard>>

\* Mutant: a packet sent resets both timers.
WritesLinkMutant(p) ==
    /\ Running(p) /\ to_link[p]
    /\ net' = [net EXCEPT ![Other(p)] = @ \union {0}]
    /\ UpdateNow(p)
    /\ PreSelect(p, [timers[p] EXCEPT !.send = now'[p], !.rec = now'[p]], FALSE)
    /\ UNCHANGED <<power, lost, frames, heard>>

(* process_outgoing_link: a packet sent resets the ping timer.             *)
WritesLink(p) ==
    /\ Running(p) /\ to_link[p]
    /\ net' = [net EXCEPT ![Other(p)] = @ \union {0}]
    /\ UpdateNow(p)
    /\ PreSelect(p, [timers[p] EXCEPT !.send = now'[p]], FALSE)
    /\ UNCHANGED <<power, lost, frames, heard>>

(* External: the network loses a packet.                                   *)
Loses(p) ==
    /\ Running(p) /\ lost < MaxLost
    /\ lost' = lost + 1
    /\ \E age \in net[p] : net' = [net EXCEPT ![p] = @ \ {age}]
    /\ UNCHANGED <<clock, now, now_adj, timers, to_link, signal, power, wait,
                   frames, heard>>

(* External: a peer loses its power.                                       *)
PowersOff(p) ==
    /\ Running(p)
    /\ power' = [power EXCEPT ![p] = FALSE]
    /\ UNCHANGED <<clock, now, now_adj, timers, to_link, signal, wait, net,
                   lost, frames, heard>>

(* A second passes.  A loop whose wait is over, which can write, or whose  *)
(* packet has arrived runs before.                                         *)
Tick ==
    /\ \A p \in Peers :
          Running(p) => wait[p] > 0 /\ ~to_link[p] /\ MaxDelay \notin net[p]
    /\ tick' = [p \in Peers |-> IF tick[p] = SystemSeconds - 1 THEN 0 ELSE tick[p] + 1]
    /\ wraps' = [p \in Peers |-> IF tick[p] = SystemSeconds - 1
                                 THEN wraps[p] + 1 ELSE wraps[p]]
    /\ up' = [p \in Peers |-> up[p] + 1]
    /\ idle' = [p \in Peers |-> IF Running(p) THEN idle[p] + 1 ELSE idle[p]]
    /\ wait' = [p \in Peers |-> IF Running(p) THEN wait[p] - 1 ELSE wait[p]]
    /\ net' = [p \in Peers |-> {age + 1 : age \in net[p] \ {MaxDelay}}]
    /\ UNCHANGED <<now, now_adj, timers, to_link, signal, power, lost, frames, heard>>

Next ==
    \/ \E p \in Peers : \/ WaitEnds(p) \/ ReadsLink(p) \/ ReadsTun(p)
                        \/ WritesLink(p) \/ Loses(p) \/ PowersOff(p)
    \/ Tick

Spec == Init /\ [][Next]_vars

-----------------------------------------------------------------------------
(* Every variable stays in its set: the times are natural numbers although *)
(* update_now subtracts, and no wait is negative.                          *)
TypeOK ==
    /\ tick \in [Peers -> 0 .. SystemSeconds - 1]
    /\ idle \in [Peers -> 0 .. Longest]
    /\ up \in [Peers -> Nat] /\ wraps \in [Peers -> Nat]
    /\ now \in [Peers -> Nat] /\ now_adj \in [Peers -> Nat]
    /\ timers \in [Peers -> [send : Nat, rec : Nat, wakeup : Nat]]
    /\ to_link \in [Peers -> BOOLEAN] /\ signal \in [Peers -> BOOLEAN]
    /\ power \in [Peers -> BOOLEAN]
    /\ wait \in [Peers -> 0 .. Longest]
    /\ net \in [Peers -> SUBSET (0 .. MaxDelay)]
    /\ lost \in 0 .. MaxLost /\ frames \in 0 .. MaxFrames
    /\ heard \in [Peers -> Nat]

(* `now' keeps time across any number of wraps of the counter: apart from  *)
(* the wait in progress it is never ahead of the true uptime, and behind   *)
(* it by at most one wait for every wrap (update_now, otime.c).            *)
KeepsTime ==
    \A p \in Peers : Running(p) =>
        /\ now[p] + idle[p] <= up[p]
        /\ up[p] <= now[p] + idle[p] + wraps[p] * Longest

(* A peer that hears nothing restarts in time: no running peer has been    *)
(* without a packet for longer than its restart timeout, the lateness of   *)
(* its loop and the wait a wrap of the counter can cost                    *)
(* (check_ping_restart, event_timeout_trigger).                            *)
SilenceIsNoticed ==
    \A p \in Peers :
        Running(p) => up[p] - heard[p] <= RecTimeout + MaxLate + Longest

(* A peer that is up is not given up: if no more packets than MaxLost are  *)
(* lost, a peer only restarts after the other one did or lost its power,   *)
(* whichever of the two clocks wraps meanwhile (ping-inline.h, ping.c).    *)
LivePeersStay ==
    \A p \in Peers : signal[p] => ~Running(Other(p))

(* No restart is early: a peer restarts only when it has heard nothing for *)
(* its restart timeout in true time (event_timeout_trigger, update_now).   *)
NoRestartTooEarly ==
    [][\A p \in Peers :
          signal'[p] /\ ~signal[p] => up[p] - heard[p] >= RecTimeout]_vars

(* Bound of the check: the true uptime, while a peer is left.              *)
CONSTANT Horizon
Bounded == (\A p \in Peers : up[p] <= Horizon) /\ (\E p \in Peers : Running(p))

=============================================================================
