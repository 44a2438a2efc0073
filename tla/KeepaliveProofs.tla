--------------------------- MODULE KeepaliveProofs ---------------------------
(***************************************************************************)
(* Proofs about Keepalive, for any period of the system clock, any pair of *)
(* thresholds in update_now, any ping interval and timeout: `now' keeps    *)
(* time through any number of wraps, no restart comes early, silence is    *)
(* noticed, and a peer that is up is kept.                                 *)
(*                                                                         *)
(* The clock: between two updates less time passes than the system clock's *)
(* period less the thresholds, so update_now can tell a wrap from the      *)
(* passing of time.  Without a wrap `now' is the system time plus the      *)
(* adjustment, and moves by the wait; with one it stays, and the wait is   *)
(* lost.  The lag behind the true time therefore never shrinks, which is   *)
(* why an interval measured with `now' is never longer than it was         *)
(* (RestartNotEarly), and shorter by at most one wait as long as the       *)
(* counter wraps once in it (RestartNotLate).                              *)
(*                                                                         *)
(* The peers: what one of them has not heard is paid for by what the other *)
(* sent, packet by packet (LivePeersAreKept).                              *)
(***************************************************************************)
EXTENDS Keepalive, TLAPS, FiniteSetTheorems, WellFoundedInduction

Timers == [send : Nat, rec : Nat, wakeup : Nat]

\* How far `now' is behind the true time, the wait in progress aside.
Lag(p) == up[p] - now[p] - idle[p]

\* The system clock has not wrapped since the last update: no time is missing.
InStep(p) ==
    /\ idle[p] <= tick[p]
    /\ now[p] = tick[p] - idle[p] + now_adj[p]
    /\ Lag(p) <= wraps[p] * Longest

\* It has wrapped: the adjustment of that wrap is still to be made.
Wrapped(p) ==
    /\ tick[p] < idle[p]
    /\ wraps[p] > 0
    /\ now[p] = tick[p] - idle[p] + SystemSeconds + now_adj[p]
    /\ Lag(p) <= (wraps[p] - 1) * Longest

ClockInv(p) ==
    /\ idle[p] + wait[p] <= Longest
    /\ 0 <= Lag(p)
    /\ InStep(p) \/ Wrapped(p)
    /\ heard[p] - timers[p].rec <= Lag(p)

IInv == TypeOK /\ \A p \in Peers : Running(p) => ClockInv(p)

-----------------------------------------------------------------------------
(* The constants, as the provers need them.                                *)
LEMMA Constants_ ==
    /\ Longest \in Nat \ {0}
    /\ RecTimeout \in Nat \ {0}
    /\ SendTimeout \in Nat \ {0}
BY ClockAssumption, KeepaliveAssumption DEF Longest, RecTimeout, SendTimeout, Peers

(* update_now: the clock is in step after it, and the lag only grows.      *)
LEMMA UpdateKeepsTime ==
    ASSUME NEW p \in Peers, TypeOK, ClockInv(p), UpdateNow(p)
    PROVE  /\ now' \in [Peers -> Nat] /\ now_adj' \in [Peers -> Nat]
           /\ idle' = [idle EXCEPT ![p] = 0]
           /\ now' = [now EXCEPT ![p] = now'[p]]
           /\ now_adj' = [now_adj EXCEPT ![p] = now_adj'[p]]
           /\ now'[p] = tick[p] + now_adj'[p]
           /\ up[p] - now'[p] <= wraps[p] * Longest
           /\ Lag(p) <= up[p] - now'[p]
           /\ now[p] <= now'[p]
           /\ InStep(p) => up[p] - now'[p] = Lag(p)
           /\ up[p] - now'[p] <= Lag(p) + Longest
<1> DEFINE real == tick[p] + now_adj[p]
           u == Updated(now[p], now_adj[p], tick[p])
<1>0. /\ tick[p] \in Nat /\ now[p] \in Nat /\ now_adj[p] \in Nat /\ idle[p] \in Nat
      /\ up[p] \in Nat /\ wraps[p] \in Nat /\ idle[p] <= Longest /\ Longest \in Nat
      /\ BackwardTrigger \in Nat /\ ForwardThreshold \in Nat /\ SystemSeconds \in Nat
      /\ Longest <= ForwardThreshold /\ Longest + BackwardTrigger < SystemSeconds
  BY ClockAssumption DEF TypeOK, Longest
<1>1. CASE InStep(p)
  <2>1. real = now[p] + idle[p]
    BY <1>0, <1>1 DEF InStep
  <2>2. ~JumpsForward(real, now[p], now_adj[p])
    BY <1>0, <2>1 DEF JumpsForward
  <2>3. CASE idle[p] > 0
    <3>1. u = [now |-> real, adj |-> now_adj[p]]
      BY <1>0, <2>1, <2>2, <2>3 DEF Updated, FallsBack
    <3> QED
      BY <1>0, <1>1, <2>1, <2>3, <3>1 DEF UpdateNow, InStep, Lag, TypeOK
  <2>4. CASE idle[p] = 0
    <3>1. u = [now |-> now[p], adj |-> now_adj[p]]
      BY <1>0, <2>1, <2>2, <2>4 DEF Updated, FallsBack
    <3> QED
      BY <1>0, <1>1, <2>1, <2>4, <3>1 DEF UpdateNow, InStep, Lag, TypeOK
  <2> QED
    BY <1>0, <2>3, <2>4
<1>2. CASE Wrapped(p)
  <2>1. real = now[p] + idle[p] - SystemSeconds
    BY <1>0, <1>2 DEF Wrapped
  <2>2. FallsBack(real, now[p]) /\ ~(real > now[p])
    BY <1>0, <2>1 DEF FallsBack
  <2>3. u = [now |-> now[p], adj |-> now_adj[p] + (now[p] - real)]
    BY <2>2 DEF Updated
  <2>4. now_adj[p] + (now[p] - real) = now_adj[p] + SystemSeconds - idle[p]
    BY <1>0, <2>1
  <2>5. wraps[p] * Longest = (wraps[p] - 1) * Longest + Longest
    BY <1>0
  <2>6. now'[p] = now[p] /\ ~InStep(p)
    BY <1>0, <1>2, <2>3 DEF UpdateNow, Wrapped, InStep, TypeOK
  <2>7. now[p] <= now'[p] /\ up[p] - now'[p] <= Lag(p) + Longest
    BY <1>0, <2>6 DEF Lag
  <2> QED
    BY <1>0, <1>2, <2>1, <2>3, <2>4, <2>5, <2>6, <2>7 DEF UpdateNow, Wrapped, Lag, TypeOK
<1> QED
  BY <1>1, <1>2 DEF ClockInv

(* pre_select: the timers stay times, the wait is over after a second at   *)
(* the earliest, and a restart is due when it comes.                       *)
LEMMA PreSelectWaits ==
    ASSUME NEW p \in Peers, NEW tm \in Timers, NEW link \in BOOLEAN,
           TypeOK, now'[p] \in Nat, PreSelect(p, tm, link)
    PROVE  /\ timers' \in [Peers -> Timers] /\ timers' = [timers EXCEPT ![p] = timers'[p]]
           /\ to_link' \in [Peers -> BOOLEAN]
           /\ signal' \in [Peers -> BOOLEAN] /\ signal' = [signal EXCEPT ![p] = signal'[p]]
           /\ wait' \in [Peers -> 0 .. Longest] /\ wait' = [wait EXCEPT ![p] = wait'[p]]
           /\ signal'[p] => now'[p] - tm.rec >= RecTimeout
           /\ ~signal'[p] => timers'[p].rec = tm.rec
           /\ ~signal'[p] /\ tm.wakeup <= tm.rec + RecTimeout =>
                /\ timers'[p].wakeup <= tm.rec + RecTimeout
                /\ now'[p] + wait'[p] <= tm.rec + RecTimeout + MaxLate
<1> DEFINE t == now'[p]
           c == CoarseTimers(t, tm, link)
           left == Left(tm.rec, RecTimeout, t)
           ping == PingWakeup(tm, t, link)
<1>0. /\ t \in Nat /\ RecTimeout \in Nat \ {0} /\ SendTimeout \in Nat \ {0}
      /\ tm.rec \in Nat /\ tm.send \in Nat /\ tm.wakeup \in Nat
      /\ MaxSleep \in Nat \ {0} /\ MaxLate \in Nat
  BY Constants_, ClockAssumption DEF Timers
<1>1. left \in Int /\ left = tm.rec - t + RecTimeout
  BY <1>0 DEF Left
<1>2. ping \in Nat \ {0}
  BY <1>0 DEF PingWakeup, Left
<1>3. PingSends(tm, t, link) \in BOOLEAN
  BY DEF PingSends
<1>4. /\ c.timers \in Timers /\ c.link \in BOOLEAN /\ c.signal \in BOOLEAN
      /\ c.timers.wakeup > t
      /\ c.signal => left <= 0
      /\ ~c.signal => c.timers.rec = tm.rec
      /\ ~c.signal /\ tm.wakeup <= tm.rec + RecTimeout =>
            c.timers.wakeup <= tm.rec + RecTimeout
  <2>1. CASE t < tm.wakeup
    <3>1. c = [timers |-> tm, link |-> link, signal |-> FALSE]
      BY <2>1, <1>0 DEF CoarseTimers
    <3> QED
      BY <3>1, <2>1, <1>0 DEF Timers
  <2>2. CASE t >= tm.wakeup /\ left <= 0
    <3>1. c = [timers |-> [send |-> tm.send, rec |-> t, wakeup |-> t + RecTimeout],
               link |-> link, signal |-> TRUE]
      BY <2>2, <1>0 DEF CoarseTimers
    <3>2. t + RecTimeout \in Nat /\ t + RecTimeout > t
      BY <1>0
    <3> QED
      BY <3>1, <3>2, <2>2, <1>0 DEF Timers
  <2>3. CASE t >= tm.wakeup /\ ~(left <= 0)
    <3>1. c = [timers |-> [send |-> IF PingSends(tm, t, link) THEN t ELSE tm.send,
                           rec |-> tm.rec, wakeup |-> t + Earlier(left, ping)],
               link |-> link \/ PingSends(tm, t, link), signal |-> FALSE]
      BY <2>3, <1>0 DEF CoarseTimers
    <3>2. Earlier(left, ping) \in Nat \ {0} /\ Earlier(left, ping) <= left
      BY <1>1, <1>2, <2>3 DEF Earlier
    <3> QED
      BY <3>1, <3>2, <2>3, <1>0, <1>1, <1>3 DEF Timers
  <2> QED
    BY <1>0, <1>1, <2>1, <2>2, <2>3
<1>5. /\ timers' = [timers EXCEPT ![p] = c.timers]
      /\ to_link' = [to_link EXCEPT ![p] = c.link]
      /\ signal' = [signal EXCEPT ![p] = c.signal]
  BY DEF PreSelect
<1>6. PICK late \in 0 .. MaxLate :
         wait' = [wait EXCEPT ![p] = Earlier(c.timers.wakeup - t, MaxSleep) + late]
  BY DEF PreSelect
<1>7. /\ Earlier(c.timers.wakeup - t, MaxSleep) \in 0 .. MaxSleep
      /\ Earlier(c.timers.wakeup - t, MaxSleep) <= c.timers.wakeup - t
  BY <1>0, <1>4 DEF Earlier, Timers
<1>8. Earlier(c.timers.wakeup - t, MaxSleep) + late \in 0 .. Longest
  BY <1>0, <1>7 DEF Longest
<1> HIDE DEF c, left, ping
<1>9. /\ timers \in [Peers -> Timers] /\ to_link \in [Peers -> BOOLEAN]
      /\ signal \in [Peers -> BOOLEAN] /\ wait \in [Peers -> 0 .. Longest]
  BY DEF TypeOK, Timers
<1>10. timers'[p] = c.timers /\ signal'[p] = c.signal
  BY <1>5, <1>9
<1>11. signal'[p] => t - tm.rec >= RecTimeout
  BY <1>0, <1>1, <1>4, <1>10
<1>12. /\ timers' \in [Peers -> Timers] /\ timers' = [timers EXCEPT ![p] = timers'[p]]
       /\ to_link' \in [Peers -> BOOLEAN]
       /\ signal' \in [Peers -> BOOLEAN] /\ signal' = [signal EXCEPT ![p] = signal'[p]]
  BY <1>4, <1>5, <1>9
<1>13. wait' \in [Peers -> 0 .. Longest] /\ wait' = [wait EXCEPT ![p] = wait'[p]]
  BY <1>6, <1>8, <1>9
<1>14. t + wait'[p] <= c.timers.wakeup + MaxLate
  <2>1. wait'[p] = Earlier(c.timers.wakeup - t, MaxSleep) + late
    BY <1>6, <1>9
  <2>2. c.timers.wakeup \in Nat /\ late \in Nat /\ late <= MaxLate
    BY <1>0, <1>4 DEF Timers
  <2> QED
    BY <1>0, <1>7, <2>1, <2>2
<1>15. ~signal'[p] /\ tm.wakeup <= tm.rec + RecTimeout =>
          t + wait'[p] <= tm.rec + RecTimeout + MaxLate
  <2>1. /\ c.timers.wakeup \in Nat /\ wait'[p] \in Nat
        /\ ~signal'[p] /\ tm.wakeup <= tm.rec + RecTimeout =>
              c.timers.wakeup <= tm.rec + RecTimeout
    BY <1>4, <1>10, <1>13, Constants_ DEF Timers
  <2> QED
    BY <1>0, <1>14, <2>1
<1> QED
  BY <1>4, <1>10, <1>11, <1>12, <1>13, <1>15

(* What the four steps of a peer's loop have in common: it wakes, and what *)
(* it was woken by can only put the restart timer to the present.          *)
Woken(p, tm, link) ==
    /\ Running(p) /\ UpdateNow(p) /\ PreSelect(p, tm, link)
    /\ power' = power
    /\ tm.wakeup = timers[p].wakeup
    /\ \/ tm.rec = timers[p].rec /\ heard' = heard
       \/ tm.rec = now'[p] /\ heard' = [heard EXCEPT ![p] = up[p]]
    /\ net' \in [Peers -> SUBSET (0 .. MaxDelay)]
    /\ lost' \in 0 .. MaxLost /\ frames' \in 0 .. MaxFrames

Early(p) == signal'[p] /\ ~signal[p] /\ up[p] - heard[p] < RecTimeout

LEMMA WokenPreserves ==
    ASSUME NEW p \in Peers, NEW tm \in Timers, NEW link \in BOOLEAN,
           IInv, Woken(p, tm, link)
    PROVE  IInv' /\ \A q \in Peers : ~Early(q)
<1>1. TypeOK /\ ClockInv(p)
  BY DEF IInv, Woken
<1>2. /\ now' \in [Peers -> Nat] /\ now_adj' \in [Peers -> Nat]
      /\ idle' = [idle EXCEPT ![p] = 0]
      /\ now' = [now EXCEPT ![p] = now'[p]]
      /\ now_adj' = [now_adj EXCEPT ![p] = now_adj'[p]]
      /\ now'[p] = tick[p] + now_adj'[p]
      /\ up[p] - now'[p] <= wraps[p] * Longest
      /\ Lag(p) <= up[p] - now'[p]
  BY <1>1, UpdateKeepsTime DEF Woken
<1>3. tm \in Timers /\ now'[p] \in Nat
  BY <1>2
<1>4. /\ timers' \in [Peers -> Timers] /\ timers' = [timers EXCEPT ![p] = timers'[p]]
      /\ to_link' \in [Peers -> BOOLEAN]
      /\ signal' \in [Peers -> BOOLEAN] /\ signal' = [signal EXCEPT ![p] = signal'[p]]
      /\ wait' \in [Peers -> 0 .. Longest] /\ wait' = [wait EXCEPT ![p] = wait'[p]]
      /\ signal'[p] => now'[p] - tm.rec >= RecTimeout
      /\ ~signal'[p] => timers'[p].rec = tm.rec
  BY <1>1, <1>3, PreSelectWaits DEF Woken
<1>5. /\ tick' = tick /\ up' = up /\ wraps' = wraps
      /\ heard' \in [Peers -> Nat]
      /\ \A q \in Peers \ {p} : heard'[q] = heard[q]
  BY <1>1 DEF Woken, UpdateNow, TypeOK
<1>6. idle' \in [Peers -> 0 .. Longest]
  BY <1>1, <1>2, Constants_ DEF TypeOK
<1>7. TypeOK'
  BY <1>1, <1>2, <1>4, <1>5, <1>6 DEF TypeOK, Woken, Timers
<1>8. heard'[p] - tm.rec <= up[p] - now'[p]
  <2>1. CASE tm.rec = timers[p].rec /\ heard' = heard
    BY <1>1, <1>2, <1>3, <2>1 DEF ClockInv, Lag, TypeOK, Timers
  <2>2. CASE tm.rec = now'[p] /\ heard' = [heard EXCEPT ![p] = up[p]]
    BY <1>1, <1>3, <2>2 DEF TypeOK
  <2> QED
    BY <2>1, <2>2 DEF Woken
<1>9. Running(p)' => ClockInv(p)'
  <2> SUFFICES ASSUME Running(p)' PROVE ClockInv(p)'
    OBVIOUS
  <2>1. timers'[p].rec = tm.rec
    BY <1>4 DEF Running
  <2>2. idle'[p] = 0 /\ wait'[p] \in 0 .. Longest /\ Longest \in Nat
    BY <1>1, <1>2, <1>4, Constants_ DEF TypeOK
  <2>3. /\ tick'[p] \in Nat /\ up'[p] \in Nat /\ now'[p] \in Nat
        /\ now_adj'[p] \in Nat /\ wraps'[p] \in Nat /\ heard'[p] \in Nat
    BY <1>7, ClockAssumption DEF TypeOK
  <2>4. Lag(p)' = up[p] - now'[p]
    BY <1>5, <2>2, <2>3 DEF Lag
  <2>5. 0 <= Lag(p)'
    BY <1>1, <1>2, <2>3, <2>4, <1>5 DEF ClockInv, Lag, TypeOK
  <2>6. InStep(p)'
    BY <1>2, <1>5, <2>2, <2>3, <2>4 DEF InStep
  <2> QED
    BY <1>8, <2>1, <2>2, <2>4, <2>5, <2>6 DEF ClockInv
<1>10. ASSUME NEW q \in Peers \ {p}, Running(q)' PROVE ClockInv(q)'
  <2>1. Running(q) /\ ClockInv(q)
    BY <1>1, <1>4, <1>10 DEF IInv, Running, Woken, TypeOK
  <2>2. /\ tick'[q] = tick[q] /\ up'[q] = up[q] /\ wraps'[q] = wraps[q]
        /\ idle'[q] = idle[q] /\ now'[q] = now[q] /\ now_adj'[q] = now_adj[q]
        /\ wait'[q] = wait[q] /\ heard'[q] = heard[q] /\ timers'[q] = timers[q]
    BY <1>1, <1>2, <1>4, <1>5 DEF TypeOK
  <2> QED
    BY <2>1, <2>2 DEF ClockInv, InStep, Wrapped, Lag
<1>11. ASSUME NEW q \in Peers, Early(q) PROVE FALSE
  <2>1. q = p
    BY <1>1, <1>4, <1>11 DEF Early, TypeOK
  <2>2. now'[p] - tm.rec >= RecTimeout
    BY <1>4, <1>11, <2>1 DEF Early
  <2>3. /\ up[p] \in Nat /\ heard[p] \in Nat /\ heard'[p] \in Nat /\ heard'[p] >= heard[p]
        /\ RecTimeout \in Nat /\ tm.rec \in Nat
    <3>1. /\ up[p] \in Nat /\ heard[p] \in Nat /\ heard'[p] \in Nat
          /\ RecTimeout \in Nat \ {0} /\ tm.rec \in Nat
      BY <1>1, <1>3, <1>5, Constants_ DEF TypeOK, Timers
    <3>2. tm.rec # now'[p]
      BY <1>3, <2>2, <3>1
    <3> QED
      BY <3>1, <3>2 DEF Woken
  <2> QED
    BY <1>3, <1>8, <1>11, <2>1, <2>2, <2>3 DEF Early
<1> QED
  BY <1>7, <1>9, <1>10, <1>11 DEF IInv

(* The second: every clock moves, one of them perhaps around.              *)
LEMMA TickPreserves ==
    ASSUME IInv, Tick
    PROVE  IInv'
<1>1. TypeOK
  BY DEF IInv
<1>2. ASSUME NEW p \in Peers, Running(p) PROVE
        /\ idle[p] + 1 \in 0 .. Longest /\ wait[p] - 1 \in 0 .. Longest
        /\ ClockInv(p)'
  <2> DEFINE M == SystemSeconds - 1
  <2>0. /\ tick[p] \in 0 .. M /\ SystemSeconds \in Nat /\ Longest < SystemSeconds
        /\ idle[p] \in 0 .. Longest /\ wait[p] \in 0 .. Longest /\ wait[p] > 0
        /\ up[p] \in Nat /\ now[p] \in Nat /\ now_adj[p] \in Nat /\ wraps[p] \in Nat
        /\ heard[p] \in Nat /\ timers[p].rec \in Nat /\ Longest \in Nat
    BY <1>1, <1>2, ClockAssumption, Constants_ DEF TypeOK, Tick, Longest
  <2>1. ClockInv(p)
    BY <1>2 DEF IInv
  <2>2. /\ up'[p] = up[p] + 1 /\ idle'[p] = idle[p] + 1 /\ wait'[p] = wait[p] - 1
        /\ now'[p] = now[p] /\ now_adj'[p] = now_adj[p]
        /\ timers'[p] = timers[p] /\ heard'[p] = heard[p]
    BY <1>1, <1>2 DEF Tick, TypeOK
  <2>3. Lag(p)' = Lag(p) /\ Lag(p) \in Int
    BY <2>0, <2>2 DEF Lag
  <2>4. InStep(p)' \/ Wrapped(p)'
    <3>1. CASE tick[p] = M
      <4>1. tick'[p] = 0 /\ wraps'[p] = wraps[p] + 1
        BY <1>1, <3>1 DEF Tick, TypeOK
      <4>2. InStep(p)
        BY <2>0, <2>1, <3>1 DEF ClockInv, Wrapped
      <4>3. (wraps'[p] - 1) * Longest = wraps[p] * Longest
        BY <2>0, <4>1
      <4>4. Lag(p)' <= (wraps'[p] - 1) * Longest
        BY <2>3, <4>2, <4>3 DEF InStep
      <4>5. now'[p] = tick'[p] - idle'[p] + SystemSeconds + now_adj'[p]
        BY <2>0, <2>2, <3>1, <4>1, <4>2 DEF InStep
      <4> QED
        BY <2>0, <2>2, <4>1, <4>4, <4>5 DEF Wrapped
    <3>2. CASE tick[p] # M
      <4>1. tick'[p] = tick[p] + 1 /\ wraps'[p] = wraps[p]
        BY <1>1, <3>2 DEF Tick, TypeOK
      <4>2. CASE InStep(p)
        BY <2>0, <2>2, <2>3, <4>1, <4>2 DEF InStep
      <4>3. CASE Wrapped(p)
        BY <2>0, <2>2, <2>3, <4>1, <4>3 DEF Wrapped
      <4> QED
        BY <2>1, <4>2, <4>3 DEF ClockInv
    <3> QED
      BY <3>1, <3>2
  <2>5. idle[p] + 1 \in 0 .. Longest /\ wait[p] - 1 \in 0 .. Longest
    BY <2>0, <2>1 DEF ClockInv
  <2> QED
    BY <2>0, <2>1, <2>2, <2>3, <2>4, <2>5 DEF ClockInv
<1>3. /\ tick' \in [Peers -> 0 .. SystemSeconds - 1]
      /\ up' \in [Peers -> Nat] /\ wraps' \in [Peers -> Nat]
  <2>1. ASSUME NEW p \in Peers
        PROVE  /\ (IF tick[p] = SystemSeconds - 1 THEN 0 ELSE tick[p] + 1)
                     \in 0 .. SystemSeconds - 1
               /\ up[p] + 1 \in Nat
               /\ (IF tick[p] = SystemSeconds - 1 THEN wraps[p] + 1 ELSE wraps[p]) \in Nat
    <3>1. /\ tick[p] \in 0 .. SystemSeconds - 1 /\ SystemSeconds \in Nat
          /\ up[p] \in Nat /\ wraps[p] \in Nat
      BY <1>1, ClockAssumption DEF TypeOK
    <3>2. (IF tick[p] = SystemSeconds - 1 THEN 0 ELSE tick[p] + 1)
             \in 0 .. SystemSeconds - 1
      BY <3>1
    <3> QED
      BY <3>1, <3>2
  <2> QED
    BY <2>1 DEF Tick
<1>4. idle' \in [Peers -> 0 .. Longest] /\ wait' \in [Peers -> 0 .. Longest]
  BY <1>1, <1>2 DEF Tick, TypeOK
<1>5. net' \in [Peers -> SUBSET (0 .. MaxDelay)]
  <2>1. ASSUME NEW p \in Peers, NEW age \in net[p] \ {MaxDelay}
        PROVE  age + 1 \in 0 .. MaxDelay
    <3>1. net[p] \subseteq 0 .. MaxDelay
      BY <1>1 DEF TypeOK
    <3> QED
      BY <3>1, KeepaliveAssumption
  <2> QED
    BY <2>1 DEF Tick
<1>6. TypeOK'
  BY <1>1, <1>3, <1>4, <1>5 DEF Tick, TypeOK
<1>7. \A p \in Peers : Running(p)' => Running(p)
  BY DEF Tick, Running
<1> QED
  BY <1>2, <1>6, <1>7 DEF IInv

-----------------------------------------------------------------------------
LEMMA InitEstablishes == Init => IInv
<1> SUFFICES ASSUME Init PROVE IInv
  OBVIOUS
<1>1. tick \in [Peers -> 0 .. SystemSeconds - 1]
  BY ClockAssumption DEF Init
<1>2. tick \in [Peers -> Nat]
  BY <1>1, ClockAssumption
<1>3. TypeOK
  BY <1>1, <1>2, Constants_, KeepaliveAssumption DEF Init, InitTimers, TypeOK
<1>4. ASSUME NEW p \in Peers PROVE ClockInv(p)
  <2>1. /\ idle[p] = 0 /\ wait[p] = 0 /\ now[p] = tick[p] /\ up[p] = tick[p]
        /\ now_adj[p] = 0 /\ wraps[p] = 0 /\ heard[p] = tick[p]
        /\ timers[p].rec = tick[p] /\ tick[p] \in Nat /\ Longest \in Nat
    BY <1>2, Constants_ DEF Init, InitTimers
  <2> QED
    BY <2>1 DEF ClockInv, InStep, Lag
<1> QED
  BY <1>3, <1>4 DEF IInv

(* The four steps of a peer's loop.                                        *)
Loop(p) == WaitEnds(p) \/ ReadsLink(p) \/ ReadsTun(p) \/ WritesLink(p)

LEMMA LoopWakes ==
    ASSUME IInv, NEW p \in Peers, Loop(p)
    PROVE  \E tm \in Timers, link \in BOOLEAN : Woken(p, tm, link)
<1>0. TypeOK /\ timers \in [Peers -> Timers]
  BY DEF IInv, TypeOK, Timers
<1>1. CASE WaitEnds(p)
  <2>1. Woken(p, timers[p], FALSE)
    BY <1>0, <1>1 DEF WaitEnds, Woken, TypeOK
  <2> QED
    BY <1>0, <2>1
<1>2. CASE ReadsLink(p)
  <2> DEFINE tm == [timers[p] EXCEPT !.rec = now'[p]]
  <2>1. PICK age \in net[p] : net' = [net EXCEPT ![p] = @ \ {age}]
    BY <1>2 DEF ReadsLink
  <2>2. net' \in [Peers -> SUBSET (0 .. MaxDelay)]
    BY <1>0, <2>1 DEF TypeOK
  <2>3. now'[p] \in Nat
    <3>1. ClockInv(p)
      BY <1>2 DEF IInv, ReadsLink
    <3> QED
      BY <1>0, <1>2, <3>1, UpdateKeepsTime DEF ReadsLink
  <2>4. tm \in Timers /\ tm.rec = now'[p] /\ tm.wakeup = timers[p].wakeup
    BY <1>0, <2>3 DEF Timers
  <2>5. Woken(p, tm, FALSE)
    BY <1>0, <1>2, <2>2, <2>4 DEF ReadsLink, Woken, TypeOK
  <2> QED
    BY <2>4, <2>5
<1>3. CASE ReadsTun(p)
  <2>1. frames' \in 0 .. MaxFrames
    BY <1>0, <1>3, KeepaliveAssumption DEF ReadsTun, TypeOK
  <2>2. Woken(p, timers[p], TRUE)
    BY <1>0, <1>3, <2>1 DEF ReadsTun, Woken, TypeOK
  <2> QED
    BY <1>0, <2>2
<1>4. CASE WritesLink(p)
  <2> DEFINE tm == [timers[p] EXCEPT !.send = now'[p]]
  <2>1. now'[p] \in Nat
    <3>1. ClockInv(p)
      BY <1>4 DEF IInv, WritesLink
    <3> QED
      BY <1>0, <1>4, <3>1, UpdateKeepsTime DEF WritesLink
  <2>2. tm \in Timers /\ tm.rec = timers[p].rec /\ tm.wakeup = timers[p].wakeup
    BY <1>0, <2>1 DEF Timers
  <2>3. net' \in [Peers -> SUBSET (0 .. MaxDelay)]
    <3>1. 0 \in 0 .. MaxDelay
      BY KeepaliveAssumption
    <3>2. Other(p) \in Peers
      BY DEF Other, Peers
    <3> QED
      BY <1>0, <1>4, <3>1, <3>2 DEF WritesLink, TypeOK
  <2>4. Woken(p, tm, FALSE)
    BY <1>0, <1>4, <2>2, <2>3 DEF WritesLink, Woken, TypeOK
  <2> QED
    BY <2>2, <2>4
<1> QED
  BY <1>1, <1>2, <1>3, <1>4 DEF Loop

(* Every step keeps the invariant, and no step restarts a peer early.      *)
LEMMA NextPreserves == IInv /\ [Next]_vars => IInv' /\ \A q \in Peers : ~Early(q)
<1> SUFFICES ASSUME IInv, [Next]_vars PROVE IInv' /\ \A q \in Peers : ~Early(q)
  OBVIOUS
<1>0. TypeOK /\ timers \in [Peers -> Timers]
  BY DEF IInv, TypeOK, Timers
<1>1. ASSUME NEW p \in Peers, Loop(p) PROVE IInv' /\ \A q \in Peers : ~Early(q)
  BY <1>1, LoopWakes, WokenPreserves
<1>2. ASSUME NEW p \in Peers, Loses(p) PROVE IInv' /\ \A q \in Peers : ~Early(q)
  <2>1. TypeOK'
    BY <1>0, <1>2, KeepaliveAssumption DEF Loses, TypeOK, clock
  <2>2. \A q \in Peers : /\ Running(q)' <=> Running(q)
                         /\ ClockInv(q)' <=> ClockInv(q)
    BY <1>2 DEF Loses, clock, Running, ClockInv, InStep, Wrapped, Lag
  <2> QED
    BY <1>2, <2>1, <2>2 DEF IInv, Early, Loses
<1>3. ASSUME NEW p \in Peers, PowersOff(p) PROVE IInv' /\ \A q \in Peers : ~Early(q)
  <2>1. TypeOK'
    BY <1>0, <1>3 DEF PowersOff, TypeOK, clock
  <2>2. \A q \in Peers : /\ Running(q)' => Running(q)
                         /\ ClockInv(q)' <=> ClockInv(q)
    BY <1>0, <1>3 DEF PowersOff, clock, Running, ClockInv, InStep, Wrapped, Lag, TypeOK
  <2> QED
    BY <1>3, <2>1, <2>2 DEF IInv, Early, PowersOff
<1>4. CASE Tick
  BY <1>4, TickPreserves DEF Tick, Early
<1>5. CASE UNCHANGED vars
  BY <1>5 DEF IInv, TypeOK, Running, ClockInv, InStep, Wrapped, Lag, Early, vars, clock
<1> QED
  BY <1>1, <1>2, <1>3, <1>4, <1>5 DEF Next, Loop

-----------------------------------------------------------------------------
(* The inductive invariant holds throughout.                               *)
THEOREM Inductive == Spec => []IInv
<1>1. IInv /\ [Next]_vars => IInv'
  BY NextPreserves
<1> QED
  BY InitEstablishes, <1>1, PTL DEF Spec

(* Every variable stays in its set: the adjustment update_now subtracts    *)
(* from stays a natural number and every wait ends (otime.c, forward.c).   *)
THEOREM TypeCorrect == Spec => []TypeOK
<1>1. IInv => TypeOK
  BY DEF IInv
<1> QED
  BY Inductive, <1>1, PTL

(* `now' is never ahead of the true time, and behind it by at most one     *)
(* wait for every wrap of the millisecond counter (update_now, otime.c).   *)
THEOREM ClockKeepsTime == Spec => []KeepsTime
<1>1. IInv => KeepsTime
  <2> SUFFICES ASSUME IInv, NEW p \in Peers, Running(p)
               PROVE  /\ now[p] + idle[p] <= up[p]
                      /\ up[p] <= now[p] + idle[p] + wraps[p] * Longest
    BY DEF KeepsTime
  <2>1. /\ up[p] \in Nat /\ now[p] \in Nat /\ idle[p] \in Nat /\ wraps[p] \in Nat
        /\ Longest \in Nat
    BY Constants_ DEF IInv, TypeOK
  <2>2. ClockInv(p)
    BY DEF IInv
  <2>3. Lag(p) <= wraps[p] * Longest
    <3>1. (wraps[p] - 1) * Longest + Longest = wraps[p] * Longest
      BY <2>1
    <3>2. (wraps[p] - 1) * Longest \in Int /\ wraps[p] * Longest \in Int /\ Lag(p) \in Int
      BY <2>1 DEF Lag
    <3> QED
      BY <2>1, <2>2, <3>1, <3>2 DEF ClockInv, InStep, Wrapped
  <2>4. wraps[p] * Longest \in Int
    BY <2>1
  <2> QED
    BY <2>1, <2>2, <2>3, <2>4 DEF ClockInv, Lag
<1> QED
  BY Inductive, <1>1, PTL

(* A peer restarts for silence only when it has lasted the restart timeout *)
(* in true time, whatever its counter did (check_ping_restart, ping.c).    *)
THEOREM RestartNotEarly == Spec => NoRestartTooEarly
<1>1. IInv /\ [Next]_vars
        => [\A p \in Peers : signal'[p] /\ ~signal[p] => up[p] - heard[p] >= RecTimeout]_vars
  <2> SUFFICES ASSUME IInv, [Next]_vars, NEW p \in Peers, signal'[p], ~signal[p]
               PROVE  up[p] - heard[p] >= RecTimeout
    OBVIOUS
  <2>1. ~Early(p)
    BY NextPreserves
  <2>2. up[p] - heard[p] \in Int /\ RecTimeout \in Int
    BY Constants_ DEF IInv, TypeOK
  <2> QED
    BY <2>1, <2>2 DEF Early
<1> QED
  BY Inductive, <1>1, PTL DEF Spec, NoRestartTooEarly

-----------------------------------------------------------------------------
(* Silence.  What a wrap of the counter costs is lost once: of the time    *)
(* since a peer last heard something `now' misses nothing as long as the   *)
(* counter has not wrapped since, and at most one wait if it wrapped once, *)
(* which is all it does before the restart timeout is over.  The true time *)
(* at which the counter was last at 0 is up - tick.                        *)

OnceAround == RecTimeout + MaxLate + Longest < SystemSeconds

\* What `now' has missed since the last packet.
Missed(p) ==
    /\ idle[p] <= tick[p] =>
          /\ heard[p] >= up[p] - tick[p] => Lag(p) <= heard[p] - timers[p].rec
          /\ heard[p] + SystemSeconds >= up[p] - tick[p] =>
                Lag(p) <= heard[p] - timers[p].rec + Longest
    /\ tick[p] < idle[p] /\ heard[p] + SystemSeconds >= up[p] - tick[p] =>
          Lag(p) <= heard[p] - timers[p].rec

\* The loop wakes for the restart timer before it is much too late.
Listens(p) ==
    /\ timers[p].rec <= now[p]
    /\ timers[p].wakeup <= timers[p].rec + RecTimeout
    /\ now[p] + idle[p] + wait[p] <= timers[p].rec + RecTimeout + MaxLate
    /\ heard[p] <= up[p] - idle[p]

SilenceInv ==
    \A p \in Peers : Running(p) =>
        /\ Listens(p) /\ Missed(p)
        /\ up[p] - heard[p] <= RecTimeout + MaxLate + Longest

LEMMA Numbers ==
    ASSUME TypeOK, NEW p \in Peers
    PROVE  /\ tick[p] \in Nat /\ tick[p] <= SystemSeconds - 1 /\ idle[p] \in Nat
           /\ up[p] \in Nat /\ now[p] \in Nat /\ heard[p] \in Nat /\ wait[p] \in Nat
           /\ timers[p] \in Timers /\ timers[p].rec \in Nat /\ timers[p].wakeup \in Nat
           /\ Lag(p) \in Int /\ Lag(p) = up[p] - now[p] - idle[p]
           /\ RecTimeout \in Nat /\ MaxLate \in Nat /\ Longest \in Nat
           /\ SystemSeconds \in Nat
<1>1. /\ tick[p] \in 0 .. SystemSeconds - 1 /\ SystemSeconds \in Nat
      /\ idle[p] \in 0 .. Longest /\ wait[p] \in 0 .. Longest /\ Longest \in Nat
      /\ MaxLate \in Nat
  BY ClockAssumption, Constants_ DEF TypeOK
<1>2. /\ up[p] \in Nat /\ now[p] \in Nat /\ heard[p] \in Nat
      /\ timers[p] \in Timers /\ RecTimeout \in Nat
  BY Constants_ DEF TypeOK, Timers
<1>3. timers[p].rec \in Nat /\ timers[p].wakeup \in Nat
  BY <1>2 DEF Timers
<1> QED
  BY <1>1, <1>2, <1>3 DEF Lag

LEMMA WokenListens ==
    ASSUME NEW p \in Peers, NEW tm \in Timers, NEW link \in BOOLEAN,
           IInv, SilenceInv, Woken(p, tm, link)
    PROVE  SilenceInv'
<1>1. TypeOK /\ ClockInv(p) /\ Listens(p) /\ Missed(p) /\ Running(p)
  BY DEF IInv, SilenceInv, Woken
<1>2. IInv' /\ TypeOK'
  BY WokenPreserves DEF IInv
<1>3. /\ idle' = [idle EXCEPT ![p] = 0]
      /\ now' = [now EXCEPT ![p] = now'[p]] /\ now'[p] \in Nat
      /\ now[p] <= now'[p]
      /\ InStep(p) => up[p] - now'[p] = Lag(p)
      /\ up[p] - now'[p] <= Lag(p) + Longest
  BY <1>1, UpdateKeepsTime DEF Woken
<1>4. /\ timers' = [timers EXCEPT ![p] = timers'[p]]
      /\ signal' = [signal EXCEPT ![p] = signal'[p]]
      /\ wait' = [wait EXCEPT ![p] = wait'[p]]
      /\ ~signal'[p] => timers'[p].rec = tm.rec
      /\ ~signal'[p] /\ tm.wakeup <= tm.rec + RecTimeout =>
            /\ timers'[p].wakeup <= tm.rec + RecTimeout
            /\ now'[p] + wait'[p] <= tm.rec + RecTimeout + MaxLate
  BY <1>1, <1>3, PreSelectWaits DEF Woken
<1>5. tick' = tick /\ up' = up /\ \A q \in Peers \ {p} : heard'[q] = heard[q]
  BY <1>1 DEF Woken, UpdateNow, TypeOK
<1>6. ASSUME NEW q \in Peers \ {p}, Running(q)'
      PROVE  /\ Listens(q)' /\ Missed(q)'
             /\ up'[q] - heard'[q] <= RecTimeout + MaxLate + Longest
  <2>1. Running(q) /\ Listens(q) /\ Missed(q)
        /\ up[q] - heard[q] <= RecTimeout + MaxLate + Longest
    BY <1>1, <1>4, <1>6 DEF SilenceInv, Running, Woken, TypeOK
  <2>2. /\ tick'[q] = tick[q] /\ up'[q] = up[q] /\ idle'[q] = idle[q]
        /\ now'[q] = now[q] /\ wait'[q] = wait[q] /\ heard'[q] = heard[q]
        /\ timers'[q] = timers[q]
    BY <1>1, <1>3, <1>4, <1>5 DEF TypeOK
  <2> QED
    BY <2>1, <2>2 DEF Listens, Missed, Lag
<1>7. ASSUME Running(p)'
      PROVE  /\ Listens(p)' /\ Missed(p)'
             /\ up'[p] - heard'[p] <= RecTimeout + MaxLate + Longest
  <2>1. /\ tick[p] \in Nat /\ idle[p] \in Nat /\ up[p] \in Nat /\ now[p] \in Nat
        /\ heard[p] \in Nat /\ timers[p].rec \in Nat /\ timers[p].wakeup \in Nat
        /\ Lag(p) \in Int /\ RecTimeout \in Nat /\ MaxLate \in Nat /\ Longest \in Nat
        /\ SystemSeconds \in Nat
    BY <1>1, Numbers
  <2>2. /\ now'[p] \in Nat /\ heard'[p] \in Nat /\ wait'[p] \in Nat
        /\ timers'[p].wakeup \in Nat /\ Lag(p)' = up'[p] - now'[p] - idle'[p]
        /\ timers'[p].rec \in Nat
    <3>1. timers' \in [Peers -> Timers]
      BY <1>2 DEF TypeOK, Timers
    <3>2. timers'[p].wakeup \in Nat /\ timers'[p].rec \in Nat
      BY <3>1 DEF Timers
    <3>3. wait'[p] \in Nat
      BY <1>2, Constants_ DEF TypeOK
    <3> QED
      BY <1>2, <3>2, <3>3 DEF TypeOK, Lag
  <2>3. idle'[p] = 0 /\ tick'[p] = tick[p] /\ up'[p] = up[p] /\ Lag(p)' = up[p] - now'[p]
    <3>1. idle'[p] = 0
      BY <1>1, <1>3 DEF TypeOK
    <3> QED
      BY <1>5, <2>1, <2>2, <3>1
  <2>4. ~signal'[p] /\ timers'[p].rec = tm.rec /\ tm.wakeup = timers[p].wakeup
    BY <1>4, <1>7 DEF Running, Woken
  <2>5. \/ tm.rec = timers[p].rec /\ heard'[p] = heard[p]
        \/ tm.rec = now'[p] /\ heard'[p] = up[p]
    BY <1>1 DEF Woken, TypeOK
  <2>6. Listens(p)'
    <3>1. tm.rec <= now'[p] /\ tm.wakeup <= tm.rec + RecTimeout
      BY <1>1, <1>3, <2>1, <2>2, <2>4, <2>5 DEF Listens
    <3>2. heard'[p] <= up'[p] - idle'[p]
      BY <1>1, <2>1, <2>2, <2>3, <2>5 DEF Listens
    <3>3. now'[p] + idle'[p] + wait'[p] <= timers'[p].rec + RecTimeout + MaxLate
      BY <1>4, <2>1, <2>2, <2>3, <2>4, <3>1
    <3> QED
      BY <1>4, <2>4, <3>1, <3>2, <3>3 DEF Listens
  <2>7. Missed(p)'
    <3>1. CASE tm.rec = now'[p] /\ heard'[p] = up[p]
      BY <2>1, <2>2, <2>3, <2>4, <3>1 DEF Missed
    <3>2. CASE tm.rec = timers[p].rec /\ heard'[p] = heard[p]
      <4>1. CASE InStep(p)
        BY <1>1, <1>3, <2>1, <2>2, <2>3, <2>4, <3>2, <4>1 DEF Missed, InStep
      <4>2. CASE tick[p] < idle[p]
        <5>1. heard[p] < up[p] - tick[p]
          BY <1>1, <2>1, <4>2 DEF Listens
        <5> QED
          BY <1>1, <1>3, <2>1, <2>2, <2>3, <2>4, <3>2, <4>2, <5>1 DEF Missed
      <4> QED
        BY <1>1, <4>1, <4>2 DEF ClockInv, Wrapped
    <3> QED
      BY <2>5, <3>1, <3>2
  <2>8. up'[p] - heard'[p] <= RecTimeout + MaxLate + Longest
    BY <1>1, <2>1, <2>3, <2>5 DEF SilenceInv
  <2> QED
    BY <2>6, <2>7, <2>8
<1> QED
  BY <1>6, <1>7 DEF SilenceInv

LEMMA TickListens ==
    ASSUME IInv, SilenceInv, Tick, OnceAround
    PROVE  SilenceInv'
<1>1. TypeOK
  BY DEF IInv
<1> SUFFICES ASSUME NEW p \in Peers, Running(p)'
             PROVE  /\ Listens(p)' /\ Missed(p)'
                    /\ up'[p] - heard'[p] <= RecTimeout + MaxLate + Longest
  BY DEF SilenceInv
<1>2. Running(p) /\ wait[p] > 0
  BY DEF Tick, Running
<1>3. /\ ClockInv(p) /\ Listens(p) /\ Missed(p)
      /\ up[p] - heard[p] <= RecTimeout + MaxLate + Longest
  BY <1>2 DEF IInv, SilenceInv
<1>4. /\ tick[p] \in Nat /\ tick[p] <= SystemSeconds - 1 /\ idle[p] \in Nat
      /\ up[p] \in Nat /\ now[p] \in Nat /\ heard[p] \in Nat /\ wait[p] \in Nat
      /\ timers[p].rec \in Nat /\ Lag(p) \in Int /\ Lag(p) = up[p] - now[p] - idle[p]
      /\ RecTimeout \in Nat /\ MaxLate \in Nat /\ Longest \in Nat
      /\ SystemSeconds \in Nat
  BY <1>1, Numbers
<1>5. /\ up'[p] = up[p] + 1 /\ idle'[p] = idle[p] + 1 /\ wait'[p] = wait[p] - 1
      /\ now'[p] = now[p] /\ timers'[p] = timers[p] /\ heard'[p] = heard[p]
      /\ tick'[p] = IF tick[p] = SystemSeconds - 1 THEN 0 ELSE tick[p] + 1
  BY <1>1, <1>2 DEF Tick, TypeOK
<1>6. Lag(p)' = Lag(p)
  BY <1>4, <1>5 DEF Lag
<1>7. Listens(p)'
  BY <1>3, <1>4, <1>5 DEF Listens
<1>8. Missed(p)'
  <2>1. CASE tick[p] = SystemSeconds - 1
    <3>1. idle[p] <= tick[p]
      BY <1>3, <1>4, <2>1, ClockAssumption DEF ClockInv, Longest
    <3>2. tick'[p] = 0 /\ tick'[p] < idle'[p]
      BY <1>4, <1>5, <2>1
    <3> QED
      BY <1>3, <1>4, <1>5, <1>6, <2>1, <3>1, <3>2 DEF Missed
  <2>2. CASE tick[p] # SystemSeconds - 1
    BY <1>3, <1>4, <1>5, <1>6, <2>2 DEF Missed
  <2> QED
    BY <2>1, <2>2
\* The counter has not wrapped twice since the last packet.
<1>9. heard'[p] + SystemSeconds >= up'[p] - tick'[p]
  <2>1. RecTimeout + MaxLate + Longest < SystemSeconds
    BY DEF OnceAround
  <2>2. up'[p] - heard'[p] <= SystemSeconds /\ tick'[p] \in Nat
    BY <1>3, <1>4, <1>5, <2>1
  <2> QED
    BY <1>4, <1>5, <2>2
<1>10. Lag(p)' <= heard'[p] - timers'[p].rec + Longest
  <2>1. tick'[p] \in Nat /\ idle'[p] \in Nat
    BY <1>4, <1>5
  <2> QED
    BY <1>4, <1>5, <1>6, <1>8, <1>9, <2>1 DEF Missed
<1>11. up'[p] - heard'[p] <= RecTimeout + MaxLate + Longest
  <2>1. now'[p] + idle'[p] <= timers'[p].rec + RecTimeout + MaxLate
    BY <1>2, <1>3, <1>4, <1>5 DEF Listens
  <2> QED
    BY <1>4, <1>5, <1>6, <1>10, <2>1
<1> QED
  BY <1>7, <1>8, <1>11

LEMMA SilenceInvInductive ==
    /\ Init => SilenceInv
    /\ OnceAround /\ IInv /\ SilenceInv /\ [Next]_vars => SilenceInv'
<1>1. ASSUME Init PROVE SilenceInv
  <2> SUFFICES ASSUME NEW p \in Peers
               PROVE  /\ Listens(p) /\ Missed(p)
                      /\ up[p] - heard[p] <= RecTimeout + MaxLate + Longest
    BY DEF SilenceInv
  <2>1. TypeOK
    BY <1>1, InitEstablishes DEF IInv
  <2>2. /\ idle[p] = 0 /\ wait[p] = 0 /\ now[p] = tick[p] /\ up[p] = tick[p]
        /\ heard[p] = tick[p] /\ timers[p].rec = tick[p] /\ timers[p].wakeup = 0
    BY <1>1 DEF Init, InitTimers
  <2>3. /\ tick[p] \in Nat /\ RecTimeout \in Nat /\ MaxLate \in Nat /\ Longest \in Nat
        /\ Lag(p) = up[p] - now[p] - idle[p] /\ SystemSeconds \in Nat
    BY <2>1, Numbers
  <2> QED
    BY <2>2, <2>3 DEF Listens, Missed
<1>2. ASSUME OnceAround, IInv, SilenceInv, [Next]_vars PROVE SilenceInv'
  <2>1. ASSUME NEW p \in Peers, Loop(p) PROVE SilenceInv'
    BY <1>2, <2>1, LoopWakes, WokenListens
  <2>2. ASSUME NEW p \in Peers, Loses(p) PROVE SilenceInv'
    BY <1>2, <2>2 DEF Loses, clock, SilenceInv, Running, Listens, Missed, Lag
  <2>3. ASSUME NEW p \in Peers, PowersOff(p) PROVE SilenceInv'
    <3>1. \A q \in Peers : Running(q)' => Running(q)
      BY <1>2, <2>3 DEF PowersOff, Running, IInv, TypeOK
    <3> QED
      BY <1>2, <2>3, <3>1 DEF PowersOff, clock, SilenceInv, Listens, Missed, Lag
  <2>4. CASE Tick
    BY <1>2, <2>4, TickListens
  <2>5. CASE UNCHANGED vars
    BY <1>2, <2>5 DEF vars, clock, SilenceInv, Running, Listens, Missed, Lag
  <2> QED
    BY <1>2, <2>1, <2>2, <2>3, <2>4, <2>5 DEF Next, Loop
<1> QED
  BY <1>1, <1>2

(* If the counter does not wrap twice within a restart timeout, no running *)
(* peer has been without a packet for longer than that timeout, however    *)
(* late its loop is within MaxLate and wherever its counter wraps          *)
(* (check_ping_restart, event_timeout_trigger, update_now).                *)
THEOREM RestartNotLate == OnceAround => (Spec => []SilenceIsNoticed)
<1> SUFFICES ASSUME OnceAround PROVE Spec => []SilenceIsNoticed
  OBVIOUS
<1>1. OnceAround /\ IInv /\ SilenceInv /\ [Next]_vars => SilenceInv'
  BY SilenceInvInductive
<1>2. IInv /\ SilenceInv /\ [Next]_vars => SilenceInv'
  BY <1>1
<1>3. Init => SilenceInv
  BY SilenceInvInductive
<1>4. SilenceInv => SilenceIsNoticed
  BY DEF SilenceInv, SilenceIsNoticed
<1> QED
  BY Inductive, <1>2, <1>3, <1>4, PTL DEF Spec

-----------------------------------------------------------------------------
(* A peer that is up is kept.  The other one sends at least every Gap      *)
(* seconds by its `now', so that the silence of p is paid for by the       *)
(* packets that are on their way to it, those that were lost, and at most  *)
(* one wait that the other's counter cost it since it sent the one that p  *)
(* heard last.                                                             *)

Gap == Ping + MaxLate

\* The seconds that n packets on their way and l lost ones pay for, with the one
\* that is to come.
Gaps(n, l) == (n + l + 1) * Gap

\* No more packets may be lost than the restart timeout has room for, and the
\* counter does not wrap twice within it.
Patience == (MaxLost + 1) * Gap + MaxDelay + Longest < Timeout
SlowWrap == Timeout + Longest <= SystemSeconds

\* x seconds of a silence of s are not paid for: none as long as the sender,
\* idle for i seconds at time t of its counter, has lost none to a wrap.
Within(i, t, s, x) ==
    /\ i <= t =>
          /\ s + Longest <= t => x <= 0
          /\ s + Longest <= t + SystemSeconds => x <= Longest
    /\ t < i /\ s + Longest <= t + SystemSeconds => x <= 0

Older(N, a) == {b \in N : b > a}

\* The silence s of a peer with the packets N on their way to it and l lost,
\* whose sender sends again within d seconds.
Fed(N, l, s, d, i, t) ==
    /\ Within(i, t, s, s + d - Gaps(Cardinality(N), l))
    /\ \A a \in N : Within(i, t, s, s - a - Gaps(Cardinality(Older(N, a)), l))
    /\ s <= Gaps(MaxLost, 0) + MaxDelay + Longest

\* When q sends again.
Due(q) ==
    IF to_link[q] THEN 0
    ELSE IF timers[q].send + Gap > now[q] + idle[q]
         THEN timers[q].send + Gap - now[q] - idle[q] ELSE 0

\* The loop of q wakes for its ping.
Sends(q) ==
    /\ wait[q] <= Due(q) \/ to_link[q]
    /\ timers[q].send <= now[q]
    /\ \/ timers[q].wakeup <= timers[q].send + Ping
       \/ to_link[q] /\ timers[q].wakeup <= now[q] + 1

IsFed(p, q) == Fed(net[p], lost, up[p] - heard[p], Due(q), idle[q], tick[q])

FeedInv ==
    /\ \A p \in Peers : heard[p] <= up[p]
    /\ \A q \in Peers : Running(q) => Sends(q)
    /\ \A p \in Peers : Running(p) /\ Running(Other(p)) => IsFed(p, Other(p))
    /\ LivePeersStay

Below == {ss \in Nat \X Nat : ss[1] < ss[2]}

LEMMA HasGreatest ==
    ASSUME NEW M \in Nat, NEW N \in SUBSET (0 .. M), N # {}
    PROVE  \E a \in N : \A b \in N : b <= a
<1> DEFINE T == {M - a : a \in N}
<1>1. ASSUME NEW a \in N PROVE M - a \in Nat
  <2>1. a \in 0 .. M
    OBVIOUS
  <2> QED
    BY <2>1
<1>2. T \subseteq Nat
  BY <1>1
<1>3. T # {}
  OBVIOUS
<1>4. IsWellFoundedOn(Below, Nat)
  <2>1. Below = OpToRel(<, Nat)
    BY DEF Below, OpToRel
  <2> QED
    BY <2>1, NatLessThanWellFounded
<1>5. PICK x \in T : \A y \in T : ~(<<y, x>> \in Below)
  <2> HIDE DEF T
  <2> QED
    BY <1>2, <1>3, <1>4, WFMin
<1>6. PICK a \in N : x = M - a
  OBVIOUS
<1>7. ASSUME NEW b \in N PROVE b <= a
  <2>1. ~(<<M - b, M - a>> \in Below)
    BY <1>5, <1>6
  <2>2. M - b \in Nat /\ M - a \in Nat /\ a \in 0 .. M /\ b \in 0 .. M
    BY <1>1
  <2>3. ~(M - b < M - a)
    BY <2>1, <2>2 DEF Below
  <2> QED
    BY <2>2, <2>3
<1> QED
  BY <1>7

-----------------------------------------------------------------------------
(* Numbers of packets.                                                     *)

LEMMA GapsIs ==
    /\ Gap \in Nat \ {0} /\ Gap = Ping + MaxLate
    /\ \A n, l \in Nat : /\ Gaps(n, l) \in Nat /\ Gaps(n, l) >= Gap
                         /\ Gaps(n + 1, l) = Gaps(n, l) + Gap
                         /\ Gaps(n, l + 1) = Gaps(n, l) + Gap
<1>1. Gap \in Nat \ {0}
  BY ClockAssumption, KeepaliveAssumption DEF Gap
<1>2. ASSUME NEW k \in Nat, NEW g \in Nat
      PROVE  (k + 1) * g = k * g + g /\ k * g \in Nat
  OBVIOUS
<1>3. ASSUME NEW n \in Nat, NEW l \in Nat
      PROVE  /\ Gaps(n, l) \in Nat /\ Gaps(n, l) >= Gap
             /\ Gaps(n + 1, l) = Gaps(n, l) + Gap
             /\ Gaps(n, l + 1) = Gaps(n, l) + Gap
  <2>1. /\ Gaps(n, l) = (n + l + 1) * Gap
        /\ Gaps(n + 1, l) = ((n + l + 1) + 1) * Gap
        /\ Gaps(n, l + 1) = ((n + l + 1) + 1) * Gap
    <3>1. n + 1 + l + 1 = (n + l + 1) + 1 /\ n + (l + 1) + 1 = (n + l + 1) + 1
      OBVIOUS
    <3> QED
      BY <3>1 DEF Gaps
  <2>2. n + l + 1 \in Nat /\ n + l \in Nat
    OBVIOUS
  <2>3. (n + l + 1) * Gap = (n + l) * Gap + Gap /\ (n + l) * Gap \in Nat
    BY <1>1, <1>2, <2>2
  <2>4. ((n + l + 1) + 1) * Gap = (n + l + 1) * Gap + Gap
    BY <1>1, <1>2, <2>2
  <2> QED
    BY <1>1, <2>1, <2>3, <2>4
<1> QED
  BY <1>1, <1>3 DEF Gap

LEMMA GapsGrow ==
    ASSUME NEW n \in Nat, NEW m \in Nat, NEW l \in Nat, n <= m
    PROVE  Gaps(n, l) <= Gaps(m, l) /\ Gaps(l, n) <= Gaps(l, m) /\ Gaps(n, l) = Gaps(l, n)
<1>1. Gap \in Nat
  BY GapsIs
<1>2. ASSUME NEW g \in Nat PROVE (n + l + 1) * g <= (m + l + 1) * g
  <2>1. (m + l + 1) * g = (n + l + 1) * g + (m - n) * g
    OBVIOUS
  <2>2. (m - n) * g \in Nat /\ (n + l + 1) * g \in Nat
    OBVIOUS
  <2> QED
    BY <2>1, <2>2
<1>3. n + l + 1 = l + n + 1 /\ m + l + 1 = l + m + 1
  OBVIOUS
<1> QED
  BY <1>1, <1>2, <1>3 DEF Gaps

LEMMA Counts ==
    ASSUME NEW N \in SUBSET (0 .. MaxDelay)
    PROVE  /\ IsFiniteSet(N) /\ Cardinality(N) \in Nat
           /\ \A a \in N : /\ IsFiniteSet(Older(N, a)) /\ Cardinality(Older(N, a)) \in Nat
                          /\ a \in Nat
<1>1. IsFiniteSet(0 .. MaxDelay)
  BY KeepaliveAssumption, FS_Interval
<1>2. IsFiniteSet(N)
  BY <1>1, FS_Subset
<1>3. ASSUME NEW a \in N PROVE IsFiniteSet(Older(N, a))
  <2>1. Older(N, a) \in SUBSET N
    BY DEF Older
  <2> QED
    BY <1>2, <2>1, FS_Subset
<1>4. ASSUME NEW a \in N PROVE a \in Nat
  <2>1. a \in 0 .. MaxDelay
    OBVIOUS
  <2> QED
    BY <2>1
<1> QED
  BY <1>2, <1>3, <1>4, FS_CardinalityType

\* As many packets are as old after a second as before.
LEMMA SameCount ==
    ASSUME NEW S, IsFiniteSet(S), S \subseteq Nat
    PROVE  Cardinality({b + 1 : b \in S}) = Cardinality(S)
<1> DEFINE T == {b + 1 : b \in S}
           f == [b \in S |-> b + 1]
<1>1. f \in Bijection(S, T)
  BY DEF Bijection, Injection, Surjection, IsInjective
<1> QED
  BY <1>1, FS_Bijection DEF ExistsBijection
-----------------------------------------------------------------------------
(* What is paid for.                                                       *)

LEMMA ConstantNumbers ==
    /\ Longest \in Nat \ {0} /\ SystemSeconds \in Nat /\ Longest < SystemSeconds
    /\ MaxDelay \in Nat /\ MaxLost \in Nat /\ Ping \in Nat \ {0} /\ Timeout \in Nat
    /\ MaxLate \in Nat /\ MaxSleep \in Nat \ {0}
BY ClockAssumption, KeepaliveAssumption DEF Longest

LEMMA WithinLess ==
    ASSUME NEW i \in Nat, NEW t \in Nat, NEW s \in Nat, NEW x \in Int, NEW y \in Int,
           y <= x, Within(i, t, s, x)
    PROVE  Within(i, t, s, y)
BY ConstantNumbers DEF Within

LEMMA WithinNothing ==
    ASSUME NEW i \in Nat, NEW t \in Nat, NEW s \in Nat, NEW y \in Int, y <= 0
    PROVE  Within(i, t, s, y)
BY ConstantNumbers DEF Within

\* A second passes.
LEMMA WithinAged ==
    ASSUME NEW i \in Nat, NEW t \in 0 .. SystemSeconds - 1, NEW s \in Nat, NEW x \in Int,
           NEW t2 \in Nat, t2 = IF t = SystemSeconds - 1 THEN 0 ELSE t + 1,
           i + 1 <= Longest, Within(i, t, s, x)
    PROVE  Within(i + 1, t2, s + 1, x)
<1>1. t \in Nat /\ t <= SystemSeconds - 1
  BY ConstantNumbers
<1>2. CASE t = SystemSeconds - 1
  BY <1>1, <1>2, ConstantNumbers DEF Within
<1>3. CASE t # SystemSeconds - 1
  BY <1>1, <1>3, ConstantNumbers DEF Within
<1> QED
  BY <1>2, <1>3

\* The sender updates `now', which loses at most one wait, if the counter has wrapped.
LEMMA WithinUpdated ==
    ASSUME NEW i \in Nat, NEW t \in Nat, NEW s \in Nat, NEW x \in Int, NEW y \in Int,
           i <= Longest, Within(i, t, s, x),
           i <= t => y <= x, y <= x + Longest
    PROVE  Within(0, t, s, y)
BY ConstantNumbers DEF Within

LEMMA FedUpdated ==
    ASSUME NEW N \in SUBSET (0 .. MaxDelay), NEW l \in Nat, NEW s \in Nat,
           NEW d \in Nat, NEW d2 \in Nat, NEW i \in Nat, NEW t \in Nat,
           i <= Longest, i <= t => d2 <= d, d2 <= d + Longest, Fed(N, l, s, d, i, t)
    PROVE  Fed(N, l, s, d2, 0, t)
<1>1. Cardinality(N) \in Nat /\ Gaps(Cardinality(N), l) \in Nat
  BY Counts, GapsIs
<1>2. Within(0, t, s, s + d2 - Gaps(Cardinality(N), l))
  <2> DEFINE g == Gaps(Cardinality(N), l)
             x == s + d - g
             y == s + d2 - g
  <2>1. x \in Int /\ y \in Int /\ (i <= t => y <= x) /\ y <= x + Longest
    BY <1>1, ConstantNumbers
  <2>2. Within(i, t, s, x)
    BY DEF Fed
  <2> HIDE DEF x, y
  <2>3. Within(0, t, s, y)
    BY <2>1, <2>2, WithinUpdated
  <2> QED
    BY <2>3 DEF y
<1>3. ASSUME NEW a \in N
      PROVE  Within(0, t, s, s - a - Gaps(Cardinality(Older(N, a)), l))
  <2> DEFINE x == s - a - Gaps(Cardinality(Older(N, a)), l)
  <2>1. Gaps(Cardinality(Older(N, a)), l) \in Nat /\ a \in Nat
    BY Counts, GapsIs, ConstantNumbers
  <2>2. x \in Int /\ x <= x + Longest
    BY <2>1, ConstantNumbers
  <2>3. Within(i, t, s, x)
    BY DEF Fed
  <2> HIDE DEF x
  <2>4. Within(0, t, s, x)
    BY <2>2, <2>3, WithinUpdated
  <2> QED
    BY <2>4 DEF x
<1> QED
  BY <1>2, <1>3 DEF Fed

\* A packet has just been heard.
LEMMA FedHeard ==
    ASSUME NEW N \in SUBSET (0 .. MaxDelay), NEW l \in Nat,
           NEW d \in Nat, NEW i \in Nat, NEW t \in Nat, d <= Gap
    PROVE  Fed(N, l, 0, d, i, t)
<1>1. /\ Gaps(Cardinality(N), l) \in Nat /\ Gaps(Cardinality(N), l) >= Gap
      /\ Gaps(MaxLost, 0) \in Nat /\ Gap \in Nat
  BY Counts, GapsIs, ConstantNumbers
<1>2. Within(i, t, 0, 0 + d - Gaps(Cardinality(N), l))
  <2>1. 0 + d - Gaps(Cardinality(N), l) \in Int /\ 0 + d - Gaps(Cardinality(N), l) <= 0
    BY <1>1
  <2> QED
    BY <2>1, WithinNothing
<1>3. ASSUME NEW a \in N
      PROVE  Within(i, t, 0, 0 - a - Gaps(Cardinality(Older(N, a)), l))
  <2>1. Gaps(Cardinality(Older(N, a)), l) \in Nat /\ a \in Nat
    BY Counts, GapsIs, ConstantNumbers
  <2>2. /\ 0 - a - Gaps(Cardinality(Older(N, a)), l) \in Int
        /\ 0 - a - Gaps(Cardinality(Older(N, a)), l) <= 0
    BY <2>1
  <2> QED
    BY <2>2, WithinNothing
<1> QED
  BY <1>1, <1>2, <1>3, ConstantNumbers DEF Fed

\* A packet is lost that was on its way to this peer, or to the other one.
LEMMA FedLost ==
    ASSUME NEW N \in SUBSET (0 .. MaxDelay), NEW l \in Nat, NEW s \in Nat,
           NEW d \in Nat, NEW i \in Nat, NEW t \in Nat, Fed(N, l, s, d, i, t)
    PROVE  /\ Fed(N, l + 1, s, d, i, t)
           /\ \A e \in N : Fed(N \ {e}, l + 1, s, d, i, t)
<1>1. ASSUME NEW N2 \in SUBSET N, Cardinality(N) <= Cardinality(N2) + 1,
             \A a \in N2 : Cardinality(Older(N, a)) <= Cardinality(Older(N2, a)) + 1
      PROVE  Fed(N2, l + 1, s, d, i, t)
  <2>1. N2 \in SUBSET (0 .. MaxDelay)
    OBVIOUS
  <2>2. ASSUME NEW n \in Nat, NEW m \in Nat, n <= m + 1
        PROVE  /\ Gaps(n, l) <= Gaps(m, l + 1)
               /\ Gaps(n, l) \in Nat /\ Gaps(m, l + 1) \in Nat
    <3>1. Gaps(n, l) <= Gaps(m + 1, l)
      <4>1. m + 1 \in Nat
        OBVIOUS
      <4> QED
        BY <2>2, <4>1, GapsGrow
    <3>2. Gaps(m + 1, l) = Gaps(m, l) + Gap /\ Gaps(m, l + 1) = Gaps(m, l) + Gap
      BY GapsIs
    <3>3. l + 1 \in Nat
      OBVIOUS
    <3>4. Gaps(n, l) \in Nat /\ Gaps(m, l) \in Nat /\ Gaps(m, l + 1) \in Nat
      BY <3>3, GapsIs
    <3> QED
      BY <3>1, <3>2, <3>4
  <2>3. Within(i, t, s, s + d - Gaps(Cardinality(N2), l + 1))
    <3> DEFINE x == s + d - Gaps(Cardinality(N), l)
               y == s + d - Gaps(Cardinality(N2), l + 1)
    <3>1. Cardinality(N) \in Nat /\ Cardinality(N2) \in Nat
      BY <2>1, Counts
    <3>2. x \in Int /\ y \in Int /\ y <= x
      BY <1>1, <2>2, <3>1
    <3>3. Within(i, t, s, x)
      BY DEF Fed
    <3> HIDE DEF x, y
    <3>4. Within(i, t, s, y)
      BY <3>2, <3>3, WithinLess
    <3> QED
      BY <3>4 DEF y
  <2>4. ASSUME NEW a \in N2
        PROVE  Within(i, t, s, s - a - Gaps(Cardinality(Older(N2, a)), l + 1))
    <3> DEFINE x == s - a - Gaps(Cardinality(Older(N, a)), l)
               y == s - a - Gaps(Cardinality(Older(N2, a)), l + 1)
    <3>1. Cardinality(Older(N, a)) \in Nat /\ Cardinality(Older(N2, a)) \in Nat /\ a \in Nat
      BY <2>1, Counts
    <3>2. x \in Int /\ y \in Int /\ y <= x
      BY <1>1, <2>2, <3>1
    <3>3. Within(i, t, s, x)
      BY DEF Fed
    <3> HIDE DEF x, y
    <3>4. Within(i, t, s, y)
      BY <3>2, <3>3, WithinLess
    <3> QED
      BY <3>4 DEF y
  <2> QED
    BY <2>3, <2>4 DEF Fed
<1>2. Fed(N, l + 1, s, d, i, t)
  <2>1. /\ Cardinality(N) <= Cardinality(N) + 1
        /\ \A a \in N : Cardinality(Older(N, a)) <= Cardinality(Older(N, a)) + 1
    BY Counts
  <2> QED
    BY <1>1, <2>1
<1>3. ASSUME NEW e \in N PROVE Fed(N \ {e}, l + 1, s, d, i, t)
  <2>1. Cardinality(N) <= Cardinality(N \ {e}) + 1
    BY Counts, FS_RemoveElement
  <2>2. ASSUME NEW a \in N \ {e}
        PROVE  Cardinality(Older(N, a)) <= Cardinality(Older(N \ {e}, a)) + 1
    <3>1. Older(N \ {e}, a) = Older(N, a) \ {e}
      BY DEF Older
    <3>2. IsFiniteSet(Older(N, a)) /\ Cardinality(Older(N, a)) \in Nat
      BY Counts
    <3> DEFINE O == Older(N, a)
               O2 == Older(N \ {e}, a)
    <3>3. O2 = O \ {e} /\ IsFiniteSet(O) /\ Cardinality(O) \in Nat
      BY <3>1, <3>2
    <3> HIDE DEF O, O2
    <3>4. Cardinality(O2) = IF e \in O THEN Cardinality(O) - 1 ELSE Cardinality(O)
      BY <3>3, FS_RemoveElement
    <3>5. Cardinality(O) <= Cardinality(O2) + 1
      BY <3>3, <3>4
    <3> QED
      BY <3>5 DEF O, O2
  <2> QED
    BY <1>1, <2>1, <2>2
<1> QED
  BY <1>2, <1>3

\* The sender sends: what was due is on its way, and the next one is a Gap away.
LEMMA FedSent ==
    ASSUME NEW N \in SUBSET (0 .. MaxDelay), NEW l \in Nat, NEW s \in Nat,
           NEW d \in Nat, NEW i \in Nat, NEW t \in Nat,
           i <= Longest, d <= Gap, Fed(N, l, s, 0, i, t)
    PROVE  Fed(N \union {0}, l, s, d, 0, t)
<1> DEFINE N2 == N \union {0}
<1>0. /\ N2 \in SUBSET (0 .. MaxDelay)
      /\ IsFiniteSet(N) /\ Cardinality(N) \in Nat /\ Gap \in Nat
      /\ Gaps(Cardinality(N), l) \in Nat
      /\ \A a \in N2 : a \in Nat
  <2>1. 0 \in 0 .. MaxDelay
    BY ConstantNumbers
  <2>2. N2 \in SUBSET (0 .. MaxDelay)
    BY <2>1
  <2>3. Cardinality(N) \in Nat /\ Gap \in Nat
    BY Counts, GapsIs
  <2>4. Gaps(Cardinality(N), l) \in Nat
    BY <2>3, GapsIs
  <2> QED
    BY <2>2, <2>3, <2>4, Counts
<1>1. Fed(N, l, s, 0, 0, t)
  BY FedUpdated, ConstantNumbers
<1>2. Older(N2, 0) = N \ {0}
  <2>1. ASSUME NEW b \in N2 PROVE b > 0 <=> b # 0
    BY <1>0
  <2> QED
    BY <2>1 DEF Older
<1>3. ASSUME NEW a \in N2, a # 0 PROVE a \in N /\ Older(N2, a) = Older(N, a)
  <2>1. a \in Nat
    BY <1>0
  <2> QED
    BY <1>3, <2>1 DEF Older
<1>4. CASE 0 \notin N
  <2>1. Cardinality(N2) = Cardinality(N) + 1 /\ Older(N2, 0) = N
    <3>1. N \ {0} = N
      BY <1>4
    <3> QED
      BY <1>0, <1>2, <1>4, <3>1, FS_AddElement
  <2>2. Gaps(Cardinality(N2), l) = Gaps(Cardinality(N), l) + Gap
    BY <1>0, <2>1, GapsIs
  <2>3. Within(0, t, s, s + 0 - Gaps(Cardinality(N), l))
    BY <1>1 DEF Fed
  <2>4. Within(0, t, s, s + d - Gaps(Cardinality(N2), l))
    <3>1. s + d - Gaps(Cardinality(N2), l) <= s + 0 - Gaps(Cardinality(N), l)
      BY <1>0, <2>2
    <3>2. /\ s + d - Gaps(Cardinality(N2), l) \in Int
          /\ s + 0 - Gaps(Cardinality(N), l) \in Int
      BY <1>0, <2>2
    <3> QED
      BY <2>3, <3>1, <3>2, WithinLess
  <2>5. Within(0, t, s, s - 0 - Gaps(Cardinality(Older(N2, 0)), l))
    <3>1. s - 0 - Gaps(Cardinality(N), l) = s + 0 - Gaps(Cardinality(N), l)
      BY <1>0
    <3> QED
      BY <2>1, <2>3, <3>1
  <2>6. ASSUME NEW a \in N2
        PROVE  Within(0, t, s, s - a - Gaps(Cardinality(Older(N2, a)), l))
    BY <1>1, <1>3, <2>5 DEF Fed
  <2> QED
    BY <1>1, <2>4, <2>6 DEF Fed
<1>5. CASE 0 \in N
  <2>1. N2 = N
    BY <1>5
  <2>2. Cardinality(N) = Cardinality(Older(N, 0)) + 1 /\ Cardinality(Older(N, 0)) \in Nat
    <3>1. Older(N, 0) = N \ {0}
      BY <1>2, <2>1
    <3>2. Cardinality(N \ {0}) = Cardinality(N) - 1
      BY <1>0, <1>5, FS_RemoveElement
    <3>3. Cardinality(Older(N, 0)) \in Nat
      BY <1>5, Counts
    <3> QED
      BY <1>0, <3>1, <3>2, <3>3
  <2>3. /\ Gaps(Cardinality(N), l) = Gaps(Cardinality(Older(N, 0)), l) + Gap
        /\ Gaps(Cardinality(Older(N, 0)), l) \in Nat
    BY <2>2, GapsIs
  <2>4. Within(0, t, s, s - 0 - Gaps(Cardinality(Older(N, 0)), l))
    BY <1>1, <1>5 DEF Fed
  <2>5. Within(0, t, s, s + d - Gaps(Cardinality(N), l))
    <3>1. /\ s + d - Gaps(Cardinality(N), l) <= s - 0 - Gaps(Cardinality(Older(N, 0)), l)
          /\ s + d - Gaps(Cardinality(N), l) \in Int
          /\ s - 0 - Gaps(Cardinality(Older(N, 0)), l) \in Int
      BY <1>0, <2>3
    <3> QED
      BY <2>4, <3>1, WithinLess
  <2> QED
    BY <1>1, <2>1, <2>5 DEF Fed
<1> QED
  BY <1>4, <1>5

\* A second passes, and the sender's is not due yet.
LEMMA FedAged ==
    ASSUME NEW N \in SUBSET (0 .. MaxDelay), NEW l \in 0 .. MaxLost, NEW s \in Nat,
           NEW d \in Nat \ {0}, NEW i \in Nat, NEW t \in 0 .. SystemSeconds - 1,
           NEW t2 \in Nat, t2 = IF t = SystemSeconds - 1 THEN 0 ELSE t + 1,
           i + 1 <= Longest, MaxDelay \notin N, Patience, SlowWrap, Fed(N, l, s, d, i, t)
    PROVE  Fed({a + 1 : a \in N}, l, s + 1, d - 1, i + 1, t2)
<1> DEFINE N2 == {a + 1 : a \in N}
<1>0. /\ N \subseteq Nat /\ IsFiniteSet(N) /\ Cardinality(N) \in Nat
      /\ t \in Nat /\ l \in Nat /\ l <= MaxLost
      /\ Gaps(Cardinality(N), l) \in Nat
      /\ \A n \in Nat : Gaps(n, l) \in Nat
  <2>1. t \in Nat /\ l \in Nat /\ l <= MaxLost
    BY ConstantNumbers
  <2>2. N \subseteq Nat /\ IsFiniteSet(N) /\ Cardinality(N) \in Nat
    BY Counts
  <2> QED
    BY <2>1, <2>2, GapsIs
<1>1. Cardinality(N2) = Cardinality(N)
  BY <1>0, SameCount
<1>2. ASSUME NEW a \in N PROVE Cardinality(Older(N2, a + 1)) = Cardinality(Older(N, a))
  <2>1. Older(N2, a + 1) = {b + 1 : b \in Older(N, a)}
    <3>1. ASSUME NEW b \in N PROVE b + 1 > a + 1 <=> b > a
      BY <1>0
    <3> QED
      BY <3>1 DEF Older
  <2>2. IsFiniteSet(Older(N, a)) /\ Older(N, a) \subseteq Nat
    BY <1>0, Counts DEF Older
  <2> QED
    BY <2>1, <2>2, SameCount
<1>3. Within(i + 1, t2, s + 1, (s + 1) + (d - 1) - Gaps(Cardinality(N2), l))
  <2> DEFINE x == s + d - Gaps(Cardinality(N), l)
  <2>1. x \in Int /\ (s + 1) + (d - 1) - Gaps(Cardinality(N2), l) = x
    BY <1>0, <1>1
  <2>2. Within(i, t, s, x)
    BY DEF Fed
  <2> HIDE DEF x
  <2> QED
    BY <2>1, <2>2, WithinAged
<1>4. ASSUME NEW c \in N2
      PROVE  Within(i + 1, t2, s + 1, (s + 1) - c - Gaps(Cardinality(Older(N2, c)), l))
  <2>1. PICK a \in N : c = a + 1
    OBVIOUS
  <2> DEFINE x == s - a - Gaps(Cardinality(Older(N, a)), l)
  <2>2. a \in Nat /\ Gaps(Cardinality(Older(N, a)), l) \in Nat
    BY <1>0, Counts
  <2>3. x \in Int /\ (s + 1) - (a + 1) - Gaps(Cardinality(Older(N, a)), l) = x
    BY <2>2
  <2>4. (s + 1) - c - Gaps(Cardinality(Older(N2, c)), l) = x
    BY <1>2, <2>1, <2>3
  <2>5. Within(i, t, s, x)
    BY DEF Fed
  <2> HIDE DEF x, N2
  <2> QED
    BY <2>3, <2>4, <2>5, WithinAged
<1>5. s + 1 <= Gaps(MaxLost, 0) + MaxDelay + Longest
  <2> DEFINE L == Gaps(MaxLost, 0)
  <2>1. L \in Nat /\ L = (MaxLost + 1) * Gap /\ Gaps(0, l) \in Nat
    <3>1. MaxLost + 0 + 1 = MaxLost + 1
      BY ConstantNumbers
    <3> QED
      BY <1>0, <3>1, GapsIs, ConstantNumbers DEF Gaps
  <2>2. Gaps(0, l) <= L
    <3>1. Gaps(l, 0) <= Gaps(MaxLost, 0) /\ Gaps(l, 0) = Gaps(0, l)
      BY <1>0, ConstantNumbers, GapsGrow
    <3> QED
      BY <3>1
  <2> HIDE DEF L
  <2>3. s <= L + MaxDelay + Longest
    BY DEF Fed, L
  <2>4. s + Longest <= t + SystemSeconds
    BY <1>0, <2>1, <2>3, ConstantNumbers DEF Patience, SlowWrap
  <2>5. ASSUME NEW x \in Int, Within(i, t, s, x) PROVE x <= Longest
    BY <1>0, <2>4, <2>5, ConstantNumbers DEF Within
  <2>6. CASE N = {}
    <3>1. Cardinality(N) = 0
      BY <2>6, FS_EmptySet
    <3>2. s + d - Gaps(0, l) \in Int /\ Within(i, t, s, s + d - Gaps(0, l))
      BY <2>1, <3>1 DEF Fed
    <3>3. s + d - Gaps(0, l) <= Longest
      BY <2>5, <3>2
    <3> QED
      BY <2>1, <2>2, <3>3, ConstantNumbers DEF L
  <2>7. CASE N # {}
    <3>1. PICK a \in N : \A b \in N : b <= a
      BY <2>7, HasGreatest, ConstantNumbers
    <3>2. Older(N, a) = {}
      <4>1. \A b \in N : ~(b > a)
        BY <1>0, <3>1
      <4> QED
        BY <4>1 DEF Older
    <3>3. Cardinality(Older(N, a)) = 0
      BY <3>2, FS_EmptySet
    <3>4. a \in Nat /\ a < MaxDelay
      <4>1. a \in 0 .. MaxDelay /\ a # MaxDelay
        OBVIOUS
      <4> QED
        BY <4>1, ConstantNumbers
    <3>5. s - a - Gaps(0, l) \in Int /\ Within(i, t, s, s - a - Gaps(0, l))
      BY <2>1, <3>3, <3>4 DEF Fed
    <3>6. s - a - Gaps(0, l) <= Longest
      BY <2>5, <3>5
    <3> QED
      BY <2>1, <2>2, <3>4, <3>6, ConstantNumbers DEF L
  <2> QED
    BY <2>6, <2>7
<1> QED
  BY <1>3, <1>4, <1>5 DEF Fed

-----------------------------------------------------------------------------
(* pre_select: the loop wakes for the next ping.                           *)
LEMMA PreSelectSends ==
    ASSUME NEW p \in Peers, NEW tm \in Timers, NEW link \in BOOLEAN,
           TypeOK, now'[p] \in Nat, PreSelect(p, tm, link),
           tm.send <= now'[p], tm.wakeup <= tm.send + Ping, ~signal'[p]
    PROVE  /\ \/ timers'[p].send = tm.send /\ to_link'[p] = link
              \/ timers'[p].send = now'[p] /\ to_link'[p]
           /\ timers'[p].send <= now'[p]
           /\ \/ timers'[p].wakeup <= timers'[p].send + Ping
              \/ to_link'[p] /\ timers'[p].wakeup <= now'[p] + 1
           /\ to_link'[p] \/ now'[p] + wait'[p] <= timers'[p].send + Gap
           /\ to_link' = [to_link EXCEPT ![p] = to_link'[p]]
<1> DEFINE t == now'[p]
           c == CoarseTimers(t, tm, link)
           left == Left(tm.rec, RecTimeout, t)
           ping == PingWakeup(tm, t, link)
<1>0. /\ t \in Nat /\ RecTimeout \in Nat \ {0} /\ SendTimeout = Ping
      /\ tm.rec \in Nat /\ tm.send \in Nat /\ tm.wakeup \in Nat
  BY Constants_ DEF Timers, SendTimeout
<1>1. left \in Int
  BY <1>0 DEF Left
<1>2. /\ timers' = [timers EXCEPT ![p] = c.timers]
      /\ to_link' = [to_link EXCEPT ![p] = c.link]
      /\ signal' = [signal EXCEPT ![p] = c.signal]
  BY DEF PreSelect
<1>3. PICK late \in 0 .. MaxLate :
         wait' = [wait EXCEPT ![p] = Earlier(c.timers.wakeup - t, MaxSleep) + late]
  BY DEF PreSelect
<1>4. /\ timers'[p] = c.timers /\ to_link'[p] = c.link /\ signal'[p] = c.signal
      /\ wait'[p] = Earlier(c.timers.wakeup - t, MaxSleep) + late
  <2> HIDE DEF c
  <2> QED
    BY <1>2, <1>3 DEF TypeOK
<1>5. /\ \/ c.timers.send = tm.send /\ c.link = link
         \/ c.timers.send = t /\ c.link
      /\ c.timers.send \in Nat /\ c.timers.send <= t
      /\ c.timers.wakeup \in Int
      /\ \/ c.timers.wakeup <= c.timers.send + Ping
         \/ c.link /\ c.timers.wakeup <= t + 1
  <2>1. CASE t < tm.wakeup
    <3>1. c = [timers |-> tm, link |-> link, signal |-> FALSE]
      BY <1>0, <2>1 DEF CoarseTimers
    <3> QED
      BY <1>0, <3>1
  <2>2. CASE t >= tm.wakeup /\ left <= 0
    <3>1. c.signal = TRUE
      BY <1>0, <2>2 DEF CoarseTimers
    <3> QED
      BY <1>4, <3>1
  <2>3. CASE t >= tm.wakeup /\ ~(left <= 0)
    <3>1. c = [timers |-> [send |-> IF PingSends(tm, t, link) THEN t ELSE tm.send,
                           rec |-> tm.rec, wakeup |-> t + Earlier(left, ping)],
               link |-> link \/ PingSends(tm, t, link), signal |-> FALSE]
      BY <1>0, <2>3 DEF CoarseTimers
    <3>0. /\ c.timers.send = (IF PingSends(tm, t, link) THEN t ELSE tm.send)
          /\ c.link = (link \/ PingSends(tm, t, link))
          /\ c.timers.wakeup = t + Earlier(left, ping)
      <4> HIDE DEF ping, left
      <4> QED
        BY <3>1
    <3>2. ping \in Int /\ Earlier(left, ping) \in Int /\ Earlier(left, ping) <= ping
      BY <1>0, <1>1, ConstantNumbers DEF PingWakeup, Left, Earlier
    <3>3. CASE tm.send - t + Ping > 0
      <4>1. ping = tm.send - t + Ping /\ PingSends(tm, t, link) = FALSE
        BY <1>0, <3>3, ConstantNumbers DEF PingWakeup, PingSends, Left
      <4>2. c.timers.send = tm.send /\ c.link = link
            /\ c.timers.wakeup = t + Earlier(left, ping)
        BY <3>0, <4>1
      <4> HIDE DEF c, ping, left
      <4> QED
        BY <1>0, <3>2, <4>1, <4>2, ConstantNumbers
    <3>4. CASE ~(tm.send - t + Ping > 0) /\ ~link
      <4>1. ping = Ping /\ PingSends(tm, t, link) = TRUE
        BY <1>0, <3>4, ConstantNumbers DEF PingWakeup, PingSends, Left
      <4>2. c.timers.send = t /\ c.link = TRUE
            /\ c.timers.wakeup = t + Earlier(left, ping)
        BY <3>0, <4>1
      <4> HIDE DEF c, ping, left
      <4> QED
        BY <1>0, <3>2, <4>1, <4>2, ConstantNumbers
    <3>5. CASE ~(tm.send - t + Ping > 0) /\ link
      <4>1. ping = 1 /\ PingSends(tm, t, link) = FALSE
        BY <1>0, <3>5, ConstantNumbers DEF PingWakeup, PingSends, Left
      <4>2. c.timers.send = tm.send /\ c.link = link
            /\ c.timers.wakeup = t + Earlier(left, ping)
        BY <3>0, <3>5, <4>1
      <4> HIDE DEF c, ping, left
      <4> QED
        BY <1>0, <3>2, <3>5, <4>1, <4>2, ConstantNumbers
    <3> QED
      BY <3>3, <3>4, <3>5
  <2> QED
    BY <1>0, <1>1, <2>1, <2>2, <2>3
<1> HIDE DEF c, left, ping
<1>6. c.link \/ t + wait'[p] <= c.timers.send + Gap
  <2>1. Earlier(c.timers.wakeup - t, MaxSleep) \in Int
        /\ Earlier(c.timers.wakeup - t, MaxSleep) <= c.timers.wakeup - t
    BY <1>0, <1>5, ConstantNumbers DEF Earlier
  <2>2. late \in Nat /\ late <= MaxLate
    BY ConstantNumbers
  <2> QED
    BY <1>0, <1>4, <1>5, <2>1, <2>2, ConstantNumbers DEF Gap
<1>7. to_link' = [to_link EXCEPT ![p] = to_link'[p]]
  BY <1>2, <1>4
<1> QED
  BY <1>4, <1>5, <1>6, <1>7

LEMMA Others == \A p \in Peers : /\ Other(p) \in Peers /\ Other(p) # p
                                 /\ Other(Other(p)) = p
                                 /\ \A q \in Peers : q # p => q = Other(p)
BY DEF Peers, Other

LEMMA Remaining ==
    ASSUME NEW g \in Nat, NEW a \in Nat, NEW n \in Nat, NEW i \in Nat
    PROVE  /\ (IF a + g > n + i THEN a + g - n - i ELSE 0) \in Nat
           /\ a <= n => (IF a + g > n + i THEN a + g - n - i ELSE 0) <= g
OBVIOUS

\* The numbers of a sender.
LEMMA SenderNumbers ==
    ASSUME TypeOK, NEW q \in Peers
    PROVE  /\ timers[q].send \in Nat /\ now[q] \in Nat /\ idle[q] \in Nat
           /\ idle[q] <= Longest /\ tick[q] \in 0 .. SystemSeconds - 1 /\ tick[q] \in Nat
           /\ wait[q] \in Nat /\ lost \in Nat /\ lost <= MaxLost
           /\ to_link[q] \in BOOLEAN /\ Due(q) \in Nat
           /\ net[q] \in SUBSET (0 .. MaxDelay)
<1>1. timers[q] \in Timers /\ now[q] \in Nat /\ idle[q] \in 0 .. Longest
      /\ tick[q] \in 0 .. SystemSeconds - 1 /\ wait[q] \in 0 .. Longest /\ lost \in 0 .. MaxLost
  BY DEF TypeOK, Timers
<1>2. timers[q].send \in Nat /\ idle[q] \in Nat /\ idle[q] <= Longest /\ tick[q] \in Nat
      /\ wait[q] \in Nat /\ lost \in Nat /\ lost <= MaxLost
  BY <1>1, ConstantNumbers DEF Timers
<1>3. to_link[q] \in BOOLEAN /\ net[q] \in SUBSET (0 .. MaxDelay)
  BY DEF TypeOK
<1>4. Due(q) \in Nat
  <2>1. timers[q].send \in Nat /\ now[q] \in Nat /\ idle[q] \in Nat /\ Gap \in Nat
    BY <1>1, <1>2, GapsIs
  <2>2. CASE to_link[q]
    BY <2>2 DEF Due
  <2>3. CASE ~to_link[q]
    BY <2>1, <2>3, Remaining DEF Due
  <2> QED
    BY <2>2, <2>3
<1> QED
  BY <1>1, <1>2, <1>3, <1>4

LEMMA SilenceIsNat ==
    ASSUME TypeOK, NEW p \in Peers, heard[p] <= up[p]
    PROVE  up[p] - heard[p] \in Nat
<1>1. up[p] \in Nat /\ heard[p] \in Nat
  BY DEF TypeOK
<1> QED
  BY <1>1

\* What a step of p's loop does to what it sends and hears.
Feeds(p, tm, link) ==
    /\ tm.send <= now'[p] /\ tm.wakeup <= tm.send + Ping
    /\ \/ /\ ~to_link[p] /\ tm.send = timers[p].send
          /\ net'[Other(p)] = net[Other(p)]
       \/ /\ to_link[p] /\ ~link /\ tm.send = now'[p]
          /\ net'[Other(p)] = net[Other(p)] \union {0}
    /\ \/ heard' = heard /\ net'[p] = net[p]
       \/ heard' = [heard EXCEPT ![p] = up[p]]
    /\ lost' = lost

LEMMA LoopFeeds ==
    ASSUME IInv, FeedInv, NEW p \in Peers, Loop(p)
    PROVE  \E tm \in Timers, link \in BOOLEAN : Woken(p, tm, link) /\ Feeds(p, tm, link)
<1>0. /\ TypeOK /\ timers \in [Peers -> Timers] /\ timers[p] \in Timers
      /\ net \in [Peers -> SUBSET (0 .. MaxDelay)]
  BY DEF IInv, TypeOK, Timers
<1>1. Running(p) /\ UpdateNow(p) /\ ClockInv(p) /\ Sends(p)
  <2>1. Running(p) /\ UpdateNow(p)
    BY DEF Loop, WaitEnds, ReadsLink, ReadsTun, WritesLink
  <2> QED
    BY <2>1 DEF IInv, FeedInv
<1>2. now'[p] \in Nat /\ now[p] <= now'[p]
  BY <1>0, <1>1, UpdateKeepsTime
<1>3. timers[p].send \in Nat /\ timers[p].wakeup \in Nat /\ now[p] \in Nat
  BY <1>0 DEF Timers, TypeOK
<1>4. timers[p].send <= now'[p]
  BY <1>1, <1>2, <1>3 DEF Sends
<1>5. ~to_link[p] => timers[p].wakeup <= timers[p].send + Ping
  BY <1>1 DEF Sends
<1>6. CASE WaitEnds(p)
  <2>1. Woken(p, timers[p], FALSE)
    BY <1>0, <1>6 DEF WaitEnds, Woken, TypeOK
  <2>2. Feeds(p, timers[p], FALSE)
    BY <1>4, <1>5, <1>6 DEF WaitEnds, Feeds
  <2> QED
    BY <1>0, <2>1, <2>2
<1>7. CASE ReadsLink(p)
  <2> DEFINE tm == [timers[p] EXCEPT !.rec = now'[p]]
  <2>1. PICK age \in net[p] : net' = [net EXCEPT ![p] = @ \ {age}]
    BY <1>7 DEF ReadsLink
  <2>2. net' \in [Peers -> SUBSET (0 .. MaxDelay)] /\ net'[Other(p)] = net[Other(p)]
    BY <1>0, <2>1, Others
  <2>3. /\ tm \in Timers /\ tm.rec = now'[p] /\ tm.wakeup = timers[p].wakeup
        /\ tm.send = timers[p].send
    BY <1>0, <1>2 DEF Timers
  <2> HIDE DEF tm
  <2>4. PreSelect(p, tm, FALSE)
    BY <1>7 DEF ReadsLink, tm
  <2>5. Woken(p, tm, FALSE)
    BY <1>0, <1>7, <2>2, <2>3, <2>4 DEF ReadsLink, Woken, TypeOK
  <2>6. Feeds(p, tm, FALSE)
    BY <1>4, <1>5, <1>7, <2>2, <2>3 DEF ReadsLink, Feeds
  <2> QED
    BY <2>3, <2>5, <2>6
<1>8. CASE ReadsTun(p)
  <2>1. frames' \in 0 .. MaxFrames
    BY <1>0, <1>8, KeepaliveAssumption DEF ReadsTun, TypeOK
  <2>2. Woken(p, timers[p], TRUE)
    BY <1>0, <1>8, <2>1 DEF ReadsTun, Woken, TypeOK
  <2>3. Feeds(p, timers[p], TRUE)
    BY <1>4, <1>5, <1>8 DEF ReadsTun, Feeds
  <2> QED
    BY <1>0, <2>2, <2>3
<1>9. CASE WritesLink(p)
  <2> DEFINE tm == [timers[p] EXCEPT !.send = now'[p]]
  <2>1. /\ tm \in Timers /\ tm.rec = timers[p].rec /\ tm.wakeup = timers[p].wakeup
        /\ tm.send = now'[p]
    BY <1>0, <1>2 DEF Timers
  <2> HIDE DEF tm
  <2>2. PreSelect(p, tm, FALSE)
    BY <1>9 DEF WritesLink, tm
  <2>3. /\ net' \in [Peers -> SUBSET (0 .. MaxDelay)] /\ net'[p] = net[p]
        /\ net'[Other(p)] = net[Other(p)] \union {0}
    <3>1. 0 \in 0 .. MaxDelay
      BY KeepaliveAssumption
    <3> QED
      BY <1>0, <1>9, <3>1, Others DEF WritesLink
  <2>4. Woken(p, tm, FALSE)
    BY <1>0, <1>9, <2>1, <2>2, <2>3 DEF WritesLink, Woken, TypeOK
  <2>5. tm.wakeup <= tm.send + Ping
    BY <1>1, <1>2, <1>3, <1>4, <1>9, <2>1, ConstantNumbers DEF Sends
  <2>6. Feeds(p, tm, FALSE)
    BY <1>2, <1>9, <2>1, <2>3, <2>5 DEF WritesLink, Feeds
  <2> QED
    BY <2>1, <2>4, <2>6
<1> QED
  BY <1>6, <1>7, <1>8, <1>9 DEF Loop

LEMMA WokenFeeds ==
    ASSUME NEW r \in Peers, NEW tm \in Timers, NEW link \in BOOLEAN,
           IInv, FeedInv, Patience, Woken(r, tm, link), Feeds(r, tm, link)
    PROVE  FeedInv'
<1>0. /\ TypeOK /\ Running(r) /\ ClockInv(r) /\ Sends(r)
      /\ UpdateNow(r) /\ PreSelect(r, tm, link) /\ power' = power
  BY DEF IInv, FeedInv, Woken
<1>1. IInv' /\ TypeOK' /\ \A q \in Peers : ~Early(q)
  BY WokenPreserves DEF IInv
<1>2. /\ idle' = [idle EXCEPT ![r] = 0]
      /\ now' = [now EXCEPT ![r] = now'[r]] /\ now'[r] \in Nat
      /\ InStep(r) => up[r] - now'[r] = Lag(r)
      /\ up[r] - now'[r] <= Lag(r) + Longest
      /\ now[r] <= now'[r]
  BY <1>0, UpdateKeepsTime
<1>3. /\ timers' = [timers EXCEPT ![r] = timers'[r]]
      /\ to_link' \in [Peers -> BOOLEAN]
      /\ to_link' = [to_link EXCEPT ![r] = to_link'[r]]
      /\ signal' = [signal EXCEPT ![r] = signal'[r]] /\ signal' \in [Peers -> BOOLEAN]
      /\ wait' = [wait EXCEPT ![r] = wait'[r]]
  <2>1. to_link' = [to_link EXCEPT ![r] = to_link'[r]]
    BY <1>0 DEF PreSelect, TypeOK
  <2> QED
    BY <1>0, <1>2, <2>1, PreSelectWaits
<1>4. tick' = tick /\ up' = up /\ lost' = lost
  BY <1>0 DEF UpdateNow, Feeds
<1>5. ASSUME NEW q \in Peers, q # r
      PROVE  /\ idle'[q] = idle[q] /\ now'[q] = now[q] /\ timers'[q] = timers[q]
             /\ to_link'[q] = to_link[q] /\ wait'[q] = wait[q] /\ heard'[q] = heard[q]
             /\ Running(q)' <=> Running(q)
             /\ signal'[q] = signal[q]
  BY <1>0, <1>2, <1>3, <1>5 DEF TypeOK, Feeds, Running
<1>6. ASSUME NEW p \in Peers PROVE heard'[p] <= up'[p]
  <2>1. up[p] \in Nat /\ heard[p] <= up[p]
    BY <1>0 DEF TypeOK, FeedInv
  <2>2. heard'[p] = heard[p] \/ heard'[p] = up[p]
    BY <1>0 DEF Feeds, TypeOK
  <2> QED
    BY <1>4, <2>1, <2>2
\* The sender's part, after the step.
<1>7. ASSUME Running(r)'
      PROVE  /\ Sends(r)' /\ Due(r)' \in Nat
             /\ ~to_link[r] => /\ idle[r] <= tick[r] => Due(r)' <= Due(r)
                               /\ Due(r)' <= Due(r) + Longest
             /\ Due(r)' <= Gap
  <2>1. ~signal'[r]
    BY <1>7 DEF Running
  <2>2. /\ \/ timers'[r].send = tm.send /\ to_link'[r] = link
           \/ timers'[r].send = now'[r] /\ to_link'[r]
        /\ timers'[r].send <= now'[r]
        /\ \/ timers'[r].wakeup <= timers'[r].send + Ping
           \/ to_link'[r] /\ timers'[r].wakeup <= now'[r] + 1
        /\ to_link'[r] \/ now'[r] + wait'[r] <= timers'[r].send + Gap
    BY <1>0, <1>2, <2>1, PreSelectSends DEF Feeds
  <2>3. /\ timers'[r].send \in Nat /\ wait'[r] \in Nat /\ Due(r)' \in Nat
        /\ idle'[r] = 0 /\ to_link'[r] \in BOOLEAN
        /\ timers[r].send \in Nat /\ now[r] \in Nat /\ idle[r] \in Nat /\ Due(r) \in Nat
        /\ tick[r] \in Nat /\ up[r] \in Nat /\ idle[r] <= Longest
        /\ Longest \in Nat /\ Gap \in Nat /\ to_link[r] \in BOOLEAN
    <3>1. /\ timers'[r].send \in Nat /\ wait'[r] \in Nat /\ Due(r)' \in Nat
          /\ to_link'[r] \in BOOLEAN
      <4>1. /\ timers'[r] \in Timers /\ wait'[r] \in 0 .. Longest
            /\ to_link'[r] \in BOOLEAN /\ now'[r] \in Nat /\ idle'[r] \in 0 .. Longest
        BY <1>1 DEF TypeOK, Timers
      <4>2. /\ timers'[r].send \in Nat /\ wait'[r] \in Nat /\ idle'[r] \in Nat
            /\ Gap \in Nat
        <5>1. timers'[r].send \in Nat
          BY <4>1 DEF Timers
        <5>2. wait'[r] \in Nat /\ idle'[r] \in Nat
          BY <4>1, ConstantNumbers
        <5> QED
          BY <5>1, <5>2, GapsIs
      <4>3. CASE to_link'[r]
        BY <4>1, <4>2, <4>3 DEF Due
      <4>4. CASE ~to_link'[r]
        <5>1. Due(r)' = IF timers'[r].send + Gap > now'[r] + idle'[r]
                        THEN timers'[r].send + Gap - now'[r] - idle'[r] ELSE 0
          BY <4>4 DEF Due
        <5> DEFINE a == timers'[r].send
                   n == now'[r]
                   i == idle'[r]
        <5>2. a \in Nat /\ n \in Nat /\ i \in Nat
          BY <4>1, <4>2
        <5> HIDE DEF a, n, i
        <5>3. (IF a + Gap > n + i THEN a + Gap - n - i ELSE 0) \in Nat
          BY <4>2, <5>2, Remaining
        <5> QED
          BY <4>1, <4>2, <5>1, <5>3 DEF a, n, i
      <4> QED
        BY <4>1, <4>2, <4>3, <4>4
    <3>2. idle'[r] = 0 /\ up[r] \in Nat
      BY <1>0, <1>2 DEF TypeOK
    <3> QED
      BY <1>0, <3>1, <3>2, SenderNumbers, GapsIs, ConstantNumbers
  <2>4. Due(r)' = IF to_link'[r] THEN 0
                  ELSE IF timers'[r].send + Gap > now'[r] + idle'[r]
                       THEN timers'[r].send + Gap - now'[r] - idle'[r] ELSE 0
    BY DEF Due
  <2>5. Sends(r)'
    BY <1>2, <2>2, <2>3, <2>4 DEF Sends
  <2>6. Due(r)' <= Gap
    BY <1>2, <2>2, <2>3, <2>4
  <2>7. ASSUME ~to_link[r]
        PROVE  (idle[r] <= tick[r] => Due(r)' <= Due(r)) /\ Due(r)' <= Due(r) + Longest
    <3>1. tm.send = timers[r].send
      BY <2>7 DEF Feeds
    <3>2. CASE to_link'[r]
      BY <2>3, <2>4, <3>2
    <3>3. CASE ~to_link'[r]
      <4>1. timers'[r].send = timers[r].send
        BY <2>2, <3>1, <3>3
      <4>2. Due(r) = IF timers[r].send + Gap > now[r] + idle[r]
                     THEN timers[r].send + Gap - now[r] - idle[r] ELSE 0
        BY <2>7 DEF Due
      <4>3. Due(r)' = IF timers[r].send + Gap > now'[r]
                      THEN timers[r].send + Gap - now'[r] ELSE 0
        BY <1>2, <2>3, <2>4, <3>3, <4>1
      <4>4. now'[r] >= now[r] + idle[r] - Longest
        BY <1>2, <2>3 DEF Lag
      <4>5. idle[r] <= tick[r] => now'[r] = now[r] + idle[r]
        <5>1. idle[r] <= tick[r] => InStep(r)
          BY <1>0, <2>3 DEF ClockInv, Wrapped
        <5> QED
          BY <1>2, <2>3, <5>1 DEF Lag
      <4> HIDE DEF Due
      <4> QED
        BY <1>2, <2>3, <4>2, <4>3, <4>4, <4>5
    <3> QED
      BY <2>3, <3>2, <3>3
  <2> QED
    BY <2>3, <2>5, <2>6, <2>7
<1>8. ASSUME NEW q \in Peers, Running(q)' PROVE Sends(q)'
  <2>1. CASE q = r
    BY <1>7, <1>8, <2>1
  <2>2. CASE q # r
    <3>1. Sends(q)
      BY <1>5, <1>8, <2>2 DEF FeedInv
    <3>2. Due(q)' = Due(q)
      BY <1>5, <2>2 DEF Due
    <3> QED
      BY <1>5, <2>2, <3>1, <3>2 DEF Sends
  <2> QED
    BY <2>1, <2>2
<1>9. ASSUME NEW p \in Peers, Running(p)', Running(Other(p))' PROVE IsFed(p, Other(p))'
  <2> DEFINE q == Other(p)
             s == up[p] - heard[p]
             N == net[p]
  <2>1. /\ q \in Peers /\ q # p /\ (r = p \/ r = q) /\ Other(q) = p
    BY Others
  <2>2. Running(p) /\ Running(q)
    BY <1>0, <1>5, <1>9, <2>1
  <2>3. Fed(N, lost, s, Due(q), idle[q], tick[q])
    BY <2>2 DEF FeedInv, IsFed
  <2>4. s \in Nat /\ N \in SUBSET (0 .. MaxDelay)
    BY <1>0, SilenceIsNat DEF FeedInv, TypeOK
  <2>5. /\ idle[q] \in Nat /\ idle[q] <= Longest /\ tick[q] \in Nat /\ lost \in Nat
        /\ Due(q) \in Nat /\ timers[q].send \in Nat /\ now[q] \in Nat
        /\ to_link[q] \in BOOLEAN
    BY <1>0, <2>1, SenderNumbers
  <2>6. IsFed(p, Other(p))' =
          Fed(net'[p], lost, up[p] - heard'[p], Due(q)', idle'[q], tick[q])
    BY <1>4 DEF IsFed
  <2>7. CASE r = q
    <3>1. Running(r)' /\ heard'[p] = heard[p] /\ idle'[q] = 0
      BY <1>0, <1>2, <1>5, <1>9, <2>1, <2>7 DEF TypeOK
    <3> DEFINE d2 == Due(q)'
    <3>2. /\ d2 \in Nat /\ d2 <= Gap
          /\ ~to_link[q] => (idle[q] <= tick[q] => d2 <= Due(q)) /\ d2 <= Due(q) + Longest
      BY <1>7, <2>7, <3>1
    <3> HIDE DEF d2, N, s
    <3>3. CASE ~to_link[q] /\ net'[p] = N
      <4>1. Fed(N, lost, s, d2, 0, tick[q])
        BY <2>3, <2>4, <2>5, <3>2, <3>3, FedUpdated
      <4> QED
        BY <2>6, <3>1, <3>3, <4>1 DEF d2, s
    <3>4. CASE to_link[q] /\ net'[p] = N \union {0}
      <4>1. Due(q) = 0
        BY <3>4 DEF Due
      <4>2. Fed(N \union {0}, lost, s, d2, 0, tick[q])
        BY <2>3, <2>4, <2>5, <3>2, <4>1, FedSent
      <4> QED
        BY <2>6, <3>1, <3>4, <4>2 DEF d2, s
    <3> QED
      BY <2>1, <2>7, <3>3, <3>4 DEF Feeds, N
  <2>8. CASE r = p
    <3>1. Due(q)' = Due(q) /\ idle'[q] = idle[q]
      BY <1>5, <2>1, <2>8 DEF Due
    <3>2. CASE heard' = heard /\ net'[p] = net[p]
      BY <2>3, <2>6, <3>1, <3>2
    <3>3. CASE heard' = [heard EXCEPT ![p] = up[p]]
      <4>1. up[p] - heard'[p] = 0
        BY <1>0, <3>3 DEF TypeOK
      <4>2. Due(q) <= Gap
        <5>1. timers[q].send <= now[q]
          BY <2>1, <2>2 DEF FeedInv, Sends
        <5>2. Gap \in Nat
          BY GapsIs
        <5>3. CASE to_link[q]
          BY <5>2, <5>3 DEF Due
        <5>4. CASE ~to_link[q]
          BY <2>5, <5>1, <5>2, <5>4, Remaining DEF Due
        <5> QED
          BY <5>3, <5>4
      <4>3. net'[p] \in SUBSET (0 .. MaxDelay)
        BY <1>1 DEF TypeOK
      <4> DEFINE N2 == net'[p]
      <4>4. Fed(N2, lost, 0, Due(q), idle[q], tick[q])
        <5> HIDE DEF N2, q
        <5> QED
          BY <2>5, <4>2, <4>3, FedHeard DEF N2
      <4> QED
        BY <2>6, <3>1, <4>1, <4>4
    <3> QED
      BY <2>8, <3>2, <3>3 DEF Feeds
  <2> QED
    BY <2>1, <2>7, <2>8
<1>10. LivePeersStay'
  <2> SUFFICES ASSUME NEW p \in Peers, signal'[p], Running(Other(p))' PROVE FALSE
    BY DEF LivePeersStay, Running
  <2>1. Other(p) \in Peers /\ Other(p) # p
    BY Others
  <2>2. Running(Other(p))
    BY <1>0, <1>5, <2>1
  <2>3. ~signal[p]
    BY <2>2 DEF FeedInv, LivePeersStay
  <2>4. p = r
    BY <1>5, <2>3
  <2>5. up[p] - heard[p] >= RecTimeout
    <3>1. ~Early(p) /\ up[p] \in Nat /\ heard[p] \in Nat /\ RecTimeout \in Nat
      BY <1>0, <1>1, Constants_ DEF TypeOK
    <3> QED
      BY <2>3, <3>1 DEF Early
  <2>6. IsFed(p, Other(p))
    BY <1>0, <2>2, <2>4 DEF FeedInv
  <2>7. up[p] - heard[p] <= Gaps(MaxLost, 0) + MaxDelay + Longest
    BY <2>6 DEF IsFed, Fed
  <2>8. Gaps(MaxLost, 0) = (MaxLost + 1) * Gap /\ Gaps(MaxLost, 0) \in Nat
    <3>1. MaxLost + 0 + 1 = MaxLost + 1
      BY ConstantNumbers
    <3> QED
      BY <3>1, GapsIs, ConstantNumbers DEF Gaps
  <2>9. RecTimeout >= Timeout
    BY ConstantNumbers DEF RecTimeout
  <2>10. up[p] - heard[p] \in Nat /\ RecTimeout \in Nat
    BY <1>0, SilenceIsNat, Constants_ DEF FeedInv
  <2> QED
    BY <2>5, <2>7, <2>8, <2>9, <2>10, ConstantNumbers DEF Patience
<1> QED
  BY <1>6, <1>8, <1>9, <1>10 DEF FeedInv

LEMMA TickFeeds ==
    ASSUME IInv, FeedInv, Patience, SlowWrap, Tick
    PROVE  FeedInv'
<1>0. TypeOK
  BY DEF IInv
<1>1. /\ \A p \in Peers : /\ Running(p) => wait[p] > 0 /\ ~to_link[p] /\ MaxDelay \notin net[p]
                          /\ Running(p)' <=> Running(p)
                          /\ up'[p] = up[p] + 1
                          /\ net'[p] = {age + 1 : age \in net[p] \ {MaxDelay}}
                          /\ tick'[p] = IF tick[p] = SystemSeconds - 1 THEN 0 ELSE tick[p] + 1
                          /\ Running(p) => idle'[p] = idle[p] + 1 /\ wait'[p] = wait[p] - 1
      /\ now' = now /\ timers' = timers /\ to_link' = to_link /\ signal' = signal
      /\ lost' = lost /\ heard' = heard
  BY DEF Tick, Running
<1>2. ASSUME NEW p \in Peers PROVE heard'[p] <= up'[p]
  <2>1. up[p] \in Nat /\ heard[p] \in Nat /\ heard[p] <= up[p]
    BY <1>0 DEF TypeOK, FeedInv
  <2> QED
    BY <1>1, <2>1
<1>3. ASSUME NEW q \in Peers, Running(q)
      PROVE  Sends(q)' /\ Due(q) \in Nat \ {0} /\ Due(q)' = Due(q) - 1
  <2>1. /\ Sends(q) /\ ~to_link[q] /\ wait[q] > 0
        /\ to_link'[q] = to_link[q] /\ timers'[q] = timers[q] /\ now'[q] = now[q]
        /\ idle'[q] = idle[q] + 1 /\ wait'[q] = wait[q] - 1
    BY <1>1, <1>3 DEF FeedInv
  <2>2. /\ timers[q].send \in Nat /\ now[q] \in Nat /\ idle[q] \in Nat /\ wait[q] \in Nat
        /\ Due(q) \in Nat /\ Gap \in Nat
    BY <1>0, SenderNumbers, GapsIs
  <2>3. wait[q] <= Due(q)
    BY <2>1 DEF Sends
  <2>4. Due(q) = IF timers[q].send + Gap > now[q] + idle[q]
                 THEN timers[q].send + Gap - now[q] - idle[q] ELSE 0
    BY <2>1 DEF Due
  <2>5. Due(q)' = IF timers[q].send + Gap > now[q] + (idle[q] + 1)
                  THEN timers[q].send + Gap - now[q] - (idle[q] + 1) ELSE 0
    BY <2>1 DEF Due
  <2>6. Due(q) \in Nat \ {0} /\ Due(q)' = Due(q) - 1
    <3> HIDE DEF Due
    <3> QED
      BY <2>1, <2>2, <2>3, <2>4, <2>5
  <2>7. wait'[q] <= Due(q)'
    BY <2>1, <2>2, <2>3, <2>6
  <2> QED
    BY <2>1, <2>6, <2>7 DEF Sends
<1>4. ASSUME NEW p \in Peers, Running(p), Running(Other(p)) PROVE IsFed(p, Other(p))'
  <2> DEFINE q == Other(p)
             s == up[p] - heard[p]
             N == net[p]
             d == Due(q)
             t2 == tick'[q]
  <2>1. q \in Peers /\ Running(q) /\ ClockInv(q) /\ ClockInv(q)'
    <3>1. IInv'
      BY NextPreserves DEF Next
    <3> QED
      BY <1>1, <1>4, <3>1, Others DEF IInv
  <2>2. Fed(N, lost, s, d, idle[q], tick[q])
    BY <1>4 DEF FeedInv, IsFed
  <2>3. s \in Nat /\ N \in SUBSET (0 .. MaxDelay)
    BY <1>0, SilenceIsNat DEF FeedInv, TypeOK
  <2>4. /\ idle[q] \in Nat /\ tick[q] \in 0 .. SystemSeconds - 1 /\ tick[q] \in Nat
        /\ lost \in Nat /\ lost <= MaxLost /\ lost \in 0 .. MaxLost /\ wait[q] \in Nat
    BY <1>0, <2>1, SenderNumbers, ConstantNumbers DEF TypeOK
  <2>5. d \in Nat \ {0} /\ Due(q)' = d - 1
    BY <1>3, <2>1
  <2>6. /\ t2 = IF tick[q] = SystemSeconds - 1 THEN 0 ELSE tick[q] + 1
        /\ t2 \in Nat /\ idle'[q] = idle[q] + 1
    BY <1>1, <2>1, <2>4
  <2>7. idle[q] + 1 <= Longest
    <3>1. idle[q] + wait[q] <= Longest /\ wait[q] > 0
      BY <1>1, <2>1 DEF ClockInv
    <3> QED
      BY <2>4, <3>1, ConstantNumbers
  <2>8. MaxDelay \notin N /\ net'[p] = {a + 1 : a \in N}
    <3>1. MaxDelay \notin N /\ net'[p] = {age + 1 : age \in N \ {MaxDelay}}
      BY <1>1, <1>4
    <3>2. N \ {MaxDelay} = N
      BY <3>1
    <3> QED
      BY <3>1, <3>2
  <2>9. up'[p] - heard'[p] = s + 1
    <3>1. up[p] \in Nat /\ heard[p] \in Nat
      BY <1>0 DEF TypeOK
    <3> QED
      BY <1>1, <3>1
  <2>10. IsFed(p, Other(p))' =
           Fed(net'[p], lost, up'[p] - heard'[p], Due(q)', idle'[q], t2)
    BY <1>1 DEF IsFed
  <2>11. Fed({a + 1 : a \in N}, lost, s + 1, d - 1, idle[q] + 1, t2)
    <3> HIDE DEF N, s, d, t2, q
    <3> QED
      BY <2>2, <2>3, <2>4, <2>5, <2>6, <2>7, <2>8, FedAged
  <2> QED
    BY <2>5, <2>6, <2>8, <2>9, <2>10, <2>11
<1>5. LivePeersStay'
  BY <1>1, Others DEF FeedInv, LivePeersStay
<1> QED
  BY <1>1, <1>2, <1>3, <1>4, <1>5, Others DEF FeedInv

LEMMA LosesFeeds ==
    ASSUME IInv, FeedInv, NEW r \in Peers, Loses(r)
    PROVE  FeedInv'
<1>0. TypeOK
  BY DEF IInv
<1>1. /\ lost' = lost + 1
      /\ UNCHANGED <<tick, idle, up, wraps, now, now_adj, timers, to_link, signal, power,
                     wait, frames, heard>>
  BY DEF Loses, clock
<1>2. PICK e \in net[r] : net' = [net EXCEPT ![r] = @ \ {e}]
  BY DEF Loses
<1>3. ASSUME NEW p \in Peers, Running(p), Running(Other(p)) PROVE IsFed(p, Other(p))'
  <2> DEFINE q == Other(p)
             s == up[p] - heard[p]
             N == net[p]
             d == Due(q)
  <2>1. q \in Peers
    BY Others
  <2>2. Fed(N, lost, s, d, idle[q], tick[q])
    BY <1>3 DEF FeedInv, IsFed
  <2>3. s \in Nat /\ N \in SUBSET (0 .. MaxDelay)
    BY <1>0, SilenceIsNat DEF FeedInv, TypeOK
  <2>4. idle[q] \in Nat /\ tick[q] \in Nat /\ lost \in Nat /\ d \in Nat
    BY <1>0, <2>1, SenderNumbers
  <2>5. Due(q)' = d
    BY <1>1 DEF Due
  <2>6. IsFed(p, Other(p))' = Fed(net'[p], lost + 1, s, d, idle[q], tick[q])
    BY <1>1, <2>5 DEF IsFed
  <2>7. net'[p] = N \/ \E c \in N : net'[p] = N \ {c}
    BY <1>0, <1>2 DEF TypeOK
  <2>8. /\ Fed(N, lost + 1, s, d, idle[q], tick[q])
        /\ \A c \in N : Fed(N \ {c}, lost + 1, s, d, idle[q], tick[q])
    <3> HIDE DEF N, s, d, q
    <3> QED
      BY <2>2, <2>3, <2>4, FedLost
  <2> QED
    BY <2>6, <2>7, <2>8
<1>4. \A q \in Peers : (Running(q)' <=> Running(q)) /\ (Sends(q)' <=> Sends(q))
  BY <1>1 DEF Running, Sends, Due
<1>5. LivePeersStay' /\ \A p \in Peers : heard'[p] <= up'[p]
  BY <1>1, <1>4, Others DEF FeedInv, LivePeersStay
<1> QED
  BY <1>3, <1>4, <1>5, Others DEF FeedInv

LEMMA FeedInvInductive ==
    /\ Init => FeedInv
    /\ Patience /\ SlowWrap /\ IInv /\ FeedInv /\ [Next]_vars => FeedInv'
<1>1. ASSUME Init PROVE FeedInv
  <2>0. TypeOK
    BY <1>1, InitEstablishes DEF IInv
  <2>1. ASSUME NEW p \in Peers
        PROVE  /\ idle[p] = 0 /\ wait[p] = 0 /\ now[p] = tick[p] /\ up[p] = tick[p]
               /\ heard[p] = tick[p] /\ timers[p].send = 0 /\ timers[p].wakeup = 0
               /\ ~to_link[p] /\ ~signal[p] /\ net[p] = {} /\ lost = 0 /\ tick[p] \in Nat
               /\ Due(p) \in Nat
    BY <1>1, <2>0, SenderNumbers DEF Init, InitTimers
  <2>2. ASSUME NEW q \in Peers PROVE Sends(q)
    BY <2>1, ConstantNumbers DEF Sends
  <2>3. ASSUME NEW p \in Peers PROVE IsFed(p, Other(p))
    <3> DEFINE q == Other(p)
    <3>1. q \in Peers /\ up[p] - heard[p] = 0 /\ net[p] = {} /\ lost = 0
      BY <2>1, Others
    <3>2. Due(q) \in Nat /\ Due(q) <= Gap /\ idle[q] \in Nat /\ tick[q] \in Nat
      <4>1. /\ timers[q].send = 0 /\ now[q] \in Nat /\ idle[q] = 0 /\ ~to_link[q]
            /\ Gap \in Nat /\ tick[q] \in Nat /\ Due(q) \in Nat
        BY <2>1, <3>1, GapsIs
      <4> QED
        BY <4>1, Remaining DEF Due
    <3>3. Fed({}, 0, 0, Due(q), idle[q], tick[q])
      <4> HIDE DEF q
      <4> QED
        BY <3>2, FedHeard
    <3> QED
      BY <3>1, <3>3 DEF IsFed
  <2>4. \A p \in Peers : heard[p] <= up[p]
    BY <2>1
  <2> QED
    BY <2>1, <2>2, <2>3, <2>4 DEF FeedInv, LivePeersStay
<1>2. ASSUME Patience, SlowWrap, IInv, FeedInv, [Next]_vars PROVE FeedInv'
  <2>1. ASSUME NEW p \in Peers, Loop(p) PROVE FeedInv'
    BY <1>2, <2>1, LoopFeeds, WokenFeeds
  <2>2. ASSUME NEW p \in Peers, Loses(p) PROVE FeedInv'
    BY <1>2, <2>2, LosesFeeds
  <2>3. ASSUME NEW p \in Peers, PowersOff(p) PROVE FeedInv'
    <3>1. \A q \in Peers : Running(q)' => Running(q)
      BY <1>2, <2>3 DEF PowersOff, Running, IInv, TypeOK
    <3>2. \A q \in Peers : (Sends(q)' <=> Sends(q)) /\ (Due(q)' = Due(q))
      BY <2>3 DEF PowersOff, clock, Sends, Due
    <3>3. \A q \in Peers : IsFed(q, Other(q))' <=> IsFed(q, Other(q))
      BY <2>3, <3>2, Others DEF PowersOff, clock, IsFed
    <3> QED
      BY <1>2, <2>3, <3>1, <3>2, <3>3, Others DEF PowersOff, clock, FeedInv, LivePeersStay
  <2>4. CASE Tick
    BY <1>2, <2>4, TickFeeds
  <2>5. CASE UNCHANGED vars
    <3>1. \A q \in Peers : /\ Running(q)' <=> Running(q)
                           /\ Sends(q)' <=> Sends(q)
                           /\ Due(q)' = Due(q)
      BY <2>5 DEF vars, clock, Running, Sends, Due
    <3>2. \A q \in Peers : IsFed(q, Other(q))' <=> IsFed(q, Other(q))
      BY <2>5, <3>1, Others DEF vars, clock, IsFed
    <3> QED
      BY <1>2, <2>5, <3>1, <3>2, Others DEF vars, clock, FeedInv, LivePeersStay
  <2> QED
    BY <1>2, <2>1, <2>2, <2>3, <2>4, <2>5 DEF Next, Loop
<1> QED
  BY <1>1, <1>2

(* A peer that is up is not given up: if the restart timeout has room for  *)
(* the packets that may be lost, for the delay of the network, and for one *)
(* wait that a wrap of the sender's counter costs, and the counter does    *)
(* not wrap twice within it, a peer restarts only after the other one did  *)
(* or lost its power (check_ping_send, check_ping_restart, update_now).    *)
THEOREM LivePeersAreKept == Patience /\ SlowWrap => (Spec => []LivePeersStay)
<1> SUFFICES ASSUME Patience, SlowWrap PROVE Spec => []LivePeersStay
  OBVIOUS
<1>1. Patience /\ SlowWrap /\ IInv /\ FeedInv /\ [Next]_vars => FeedInv'
  BY FeedInvInductive
<1>2. IInv /\ FeedInv /\ [Next]_vars => FeedInv'
  BY <1>1
<1>3. Init => FeedInv
  BY FeedInvInductive
<1>4. FeedInv => LivePeersStay
  BY DEF FeedInv
<1> QED
  BY Inductive, <1>2, <1>3, <1>4, PTL DEF Spec
=============================================================================
