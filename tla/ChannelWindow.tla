--------------------------- MODULE ChannelWindow ---------------------------
(***************************************************************************)
(* The adaptive transmission window of rns/channel.go: the window of a new *)
(* channel, its growth on a delivery and its back-off on a timeout.  The   *)
(* measured round trip time is abstracted to the class the thresholds      *)
(* ChannelRTTFast, ChannelRTTMedium and ChannelRTTSlow put it in.  The     *)
(* rate counters are only ever compared with RateRounds, so they stop      *)
(* counting there.                                                         *)
(***************************************************************************)
EXTENDS Integers

CONSTANTS WindowDefault, WindowMin, WindowMinMedium, WindowMinFast,
          WindowMaxSlow, WindowMaxMedium, WindowMaxFast,
          WindowFlexibility,   \* 4 in NewChannel
          RateRounds           \* ChannelFastRateRounds

ASSUME WindowAssumption ==
    /\ {WindowDefault, WindowMin, WindowMinMedium, WindowMinFast, WindowMaxSlow,
        WindowMaxMedium, WindowMaxFast, WindowFlexibility, RateRounds} \subseteq Nat
    /\ 1 <= WindowMin /\ WindowMin <= WindowDefault
    /\ WindowDefault <= WindowMaxSlow /\ WindowMaxSlow <= WindowMaxMedium
    /\ WindowMaxMedium <= WindowMaxFast
    /\ WindowMinMedium \in 1..WindowMaxMedium /\ WindowMinFast \in 1..WindowMaxFast
    /\ WindowFlexibility >= 1 /\ RateRounds >= 1

RttClasses == {"unmeasured", "fast", "medium", "slow", "slowest"}

Windows == [window : Nat, max : Nat, min : Nat, flexibility : Nat,
            fast : 0..RateRounds, medium : 0..RateRounds]

NewWindow(rtt) ==
    IF rtt = "slowest"
    THEN [window |-> 1, max |-> 1, min |-> 1, flexibility |-> 1, fast |-> 0, medium |-> 0]
    ELSE [window |-> WindowDefault, max |-> WindowMaxSlow, min |-> WindowMin,
          flexibility |-> WindowFlexibility, fast |-> 0, medium |-> 0]

CountRound(n) == IF n < RateRounds THEN n + 1 ELSE n

(***************************************************************************)
(* packetDelivered: open the window by one, count the round for the class  *)
(* of the round trip time, and upgrade the limits after RateRounds rounds. *)
(***************************************************************************)
GrowByOne(w) == IF w.window < w.max THEN [w EXCEPT !.window = @ + 1] ELSE w

RateMedium(w) ==
    LET n == CountRound(w.medium)
        v == [w EXCEPT !.fast = 0, !.medium = n]
    IN  IF w.max < WindowMaxMedium /\ n >= RateRounds
        THEN [v EXCEPT !.max = WindowMaxMedium, !.min = WindowMinMedium]
        ELSE v

RateFast(w) ==
    LET n == CountRound(w.fast)
        v == [w EXCEPT !.fast = n]
    IN  IF w.max < WindowMaxFast /\ n >= RateRounds
        THEN [v EXCEPT !.max = WindowMaxFast, !.min = WindowMinFast]
        ELSE v

Grow(w, rtt) ==
    LET v == GrowByOne(w)
    IN  CASE rtt = "fast"       -> RateFast(v)
          [] rtt = "medium"     -> RateMedium(v)
          [] rtt = "unmeasured" -> v
          [] OTHER              -> [v EXCEPT !.fast = 0, !.medium = 0]

(***************************************************************************)
(* packetTimeout: back off by one, and lower the limit while it is more    *)
(* than the flexibility above the minimum.                                 *)
(***************************************************************************)
Shrink(w) ==
    IF w.window > w.min
    THEN [w EXCEPT !.window = @ - 1,
                   !.max = IF @ > w.min + w.flexibility THEN @ - 1 ELSE @]
    ELSE w
=============================================================================
