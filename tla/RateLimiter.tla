----------------------------- MODULE RateLimiter -----------------------------
(***************************************************************************)
(* The sliding window limiter of the fault laboratory's public entry       *)
(* (rate_limit_service.py).                                                *)
(*                                                                         *)
(* The deque of a key is kept here as all times ever appended to it and    *)
(* the number of them that popleft took away, so that what the limiter has *)
(* forgotten can be compared with what it still counts.  allow runs on the *)
(* event loop, under a lock and without an await: one call at a time, in   *)
(* which every pop is a step.                                              *)
(***************************************************************************)
EXTENDS Integers, Sequences

CONSTANTS
    Keys,        \* visitors
    Nobody,      \* no visitor
    Limit,       \* requests a visitor may make
    Window       \* in so much time

(* The constructor's check: limit < 1 or window_seconds <= 0 is an error.  *)
ASSUME LimiterAssumption == /\ Limit \in Nat /\ Limit >= 1
                            /\ Window \in Nat /\ Window > 0
                            /\ Nobody \notin Keys

VARIABLES
    now,         \* time.monotonic
    times,       \* times[k]: what was appended for k
    popped,      \* popped[k]: how many of them are gone
    visitor,     \* whom allow is called for, if it is
    current      \* the time it read

limiter == <<now, times, popped, visitor, current>>

Waiting == visitor = Nobody
Over == visitor' = Nobody /\ current' = 0

LimiterInit == /\ now = 0
               /\ times = [k \in Keys |-> << >>]
               /\ popped = [k \in Keys |-> 0]
               /\ visitor = Nobody /\ current = 0

Tick == now' = now + 1 /\ UNCHANGED <<times, popped, visitor, current>>

(* allow is called and reads the clock.                                    *)
Allow(k) == /\ Waiting
            /\ visitor' = k /\ current' = now
            /\ UNCHANGED <<now, times, popped>>

Held(k) == Len(times[k]) - popped[k]
(* The oldest time held is a window old or older.                          *)
Expired(k) == /\ Held(k) > 0
              /\ times[k][popped[k] + 1] <= current - Window
FullLate(k) == Held(k) > Limit     \* mutant: one request too many
Full(k) == Held(k) >= Limit

Pop == /\ ~Waiting /\ Expired(visitor)
       /\ popped' = [popped EXCEPT ![visitor] = @ + 1]
       /\ UNCHANGED <<now, times, visitor, current>>

Admit == /\ ~Waiting /\ ~Expired(visitor) /\ ~Full(visitor)
         /\ times' = [times EXCEPT ![visitor] = Append(@, current)]
         /\ Over
         /\ UNCHANGED <<now, popped>>

Reject == /\ ~Waiting /\ ~Expired(visitor) /\ Full(visitor)
          /\ Over
          /\ UNCHANGED <<now, times, popped>>

LimiterNext == Tick \/ (\E k \in Keys : Allow(k)) \/ Pop \/ Admit \/ Reject
LimiterSpec == LimiterInit /\ [][LimiterNext]_limiter
------------------------------------------------------------------------------
(* Times are kept per key, in the order they were taken, and only some of  *)
(* the oldest are gone (the deque of allow).                               *)
LimiterTypeOK ==
    /\ now \in Nat
    /\ times \in [Keys -> Seq(Nat)]
    /\ popped \in [Keys -> Nat]
    /\ \A k \in Keys : popped[k] <= Len(times[k])
    /\ visitor \in Keys \cup {Nobody}
    /\ current \in Nat

(* No stretch of time as long as the window holds more than Limit admitted *)
(* requests of a visitor: of any Limit + 1 in a row, the first is at least *)
(* a window older than the last (SlidingWindowRateLimiter).                *)
WindowHolds ==
    \A k \in Keys : \A i \in 1..(Len(times[k]) - Limit) :
        times[k][i + Limit] - times[k][i] >= Window

(* A visitor is turned away only for requests that count: when allow       *)
(* returns False, the last Limit requests admitted are all less than a     *)
(* window old.                                                             *)
RefusalIsDue ==
    [][ Reject => LET k == visitor
                      n == Len(times[k])
                  IN  \A i \in 1..n : i > n - Limit
                          => times[k][i] > current - Window ]_limiter
==============================================================================
