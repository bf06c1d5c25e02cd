----------------------------- MODULE RateLimiter ----------------------------
(***************************************************************************)
(* InMemoryRateLimiter and RateLimitGuard: one fixed window per policy and *)
(* client address, opened by the first request after the last one ended.   *)
(* Time is relative: a bucket knows how long it still lasts, and a Tick    *)
(* ages everything, so that time needs no bound.                           *)
(***************************************************************************)
EXTENDS Naturals

CONSTANTS
  Keys,    \* "<policy>:<address>"
  Limit,   \* requests a window lets pass
  Window,  \* its length in ticks
  Second   \* the ticks of a second: Retry-After is in seconds

\* Whoever instantiates the module assumes this of the constants.
LimitIsNatural == Limit \in Nat
TimesArePositive == Window \in Nat \ {0} /\ Second \in Nat \ {0}

VARIABLES
  bucket,   \* buckets: the requests counted and the time until resetAt
  wait,     \* how long the client refused last still waits, if it does as it was told
  admitted  \* history: how many requests passed at most so many ticks ago, within one window

vars == <<bucket, wait, admitted>>

NoBucket == [count |-> 0, left |-> 0]
Ages     == 0..(Window - 1)

\* Every variable has its type.
TypeOK ==
  /\ bucket \in [Keys -> [count : 0..(Limit + 1), left : 0..Window]]
  /\ wait \in [Keys -> Nat]
  /\ admitted \in [Keys -> [Ages -> Nat]]

Init ==
  /\ bucket = [k \in Keys |-> NoBucket]
  /\ wait = [k \in Keys |-> 0]
  /\ admitted = [k \in Keys |-> [a \in Ages |-> 0]]

\* No bucket, or one whose resetAt has come: a new one begins.
Current(k) ==
  IF bucket[k].left = 0 THEN [count |-> 0, left |-> Window] ELSE bucket[k]

\* The count is compared with the limit and nothing else, so one above it stands for all.
Count(n) == IF n > Limit THEN n ELSE n + 1

Allows_BeforeCounting(count) == count <= Limit + 1

Allows(count) == count <= Limit

Max1(n) == IF n > 1 THEN n ELSE 1

RetryAfter_Down(left) == Max1(left \div Second)

\* retryAfterSeconds: what is left of the window, in whole seconds, rounded up.
RetryAfter(left) == Max1((left + Second - 1) \div Second)

\* consume, and the guard's answer.
Consume(k) ==
  LET now == [Current(k) EXCEPT !.count = Count(@)] IN
  /\ bucket' = [bucket EXCEPT ![k] = now]
  /\ IF Allows(now.count)
     THEN admitted' = [admitted EXCEPT ![k] = [a \in Ages |-> @[a] + 1]] /\ UNCHANGED wait
     ELSE wait' = [wait EXCEPT ![k] = RetryAfter(now.left) * Second] /\ UNCHANGED admitted

\* Time passes.
Tick ==
  /\ bucket' = [k \in Keys |->
                  IF bucket[k].left > 1 THEN [bucket[k] EXCEPT !.left = @ - 1] ELSE NoBucket]
  /\ wait' = [k \in Keys |-> IF wait[k] > 0 THEN wait[k] - 1 ELSE 0]
  /\ admitted' = [k \in Keys |->
                    [a \in Ages |-> IF a = 0 THEN 0 ELSE admitted[k][a - 1]]]

\* The API process restarts with no buckets: the history starts anew, and so does the bound.
Restart ==
  /\ bucket' = [k \in Keys |-> NoBucket]
  /\ wait' = [k \in Keys |-> 0]
  /\ admitted' = [k \in Keys |-> [a \in Ages |-> 0]]

Next == (\E k \in Keys : Consume(k)) \/ Tick \/ Restart

Spec == Init /\ [][Next]_vars

\* How many passed in the last Window ticks.
Recently(k) == admitted[k][Window - 1]

\* However requests are timed against the windows, no stretch of time as long as a window
\* lets more than two windows' worth pass.  Whoever was refused and waits the whole seconds
\* that it was told does not meet the window that refused it again, and waits less than a
\* second longer than it had to.  (Others behind its address may have filled the next one.)
WindowBound ==
  \A k \in Keys :
    /\ Recently(k) <= 2 * Limit
    /\ bucket[k].count > Limit =>
         wait[k] >= bucket[k].left /\ wait[k] < bucket[k].left + Second
=============================================================================
