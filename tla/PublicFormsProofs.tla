-------------------------- MODULE PublicFormsProofs --------------------------
(***************************************************************************)
(* Theorems about PublicForms, for every limit on the attempts to load the *)
(* widget, all addresses, and every rate limit.                            *)
(***************************************************************************)
EXTENDS PublicForms, TLAPS

Unsent == {"fresh", None}
Call   == [at : Stages, token : Unsent, to : Usable \cup {None}]

(* Neither the gate nor a request under way ever has a token that was sent before, and mail *)
(* goes to usable addresses.                                                                *)
CallsInv == page \in Pages /\ token \in Unsent /\ call \in [Buttons -> Call]

(* The contact form's success, on its way and on the screen. *)
SuccessInv ==
  page = "contact" /\ (shown = "success" \/ call["submit"].at = "done") => accepted

IInv == CallsInv /\ SuccessInv

LEMMA InvInit == Init => IInv
BY DEF Init, IInv, CallsInv, SuccessInv, Unsent, Call, NoCall, Stages, Buttons

-----------------------------------------------------------------------------
(* What the widget, other visitors, administrators and time do. *)
LEMMA SurroundingsKeep ==
  ASSUME IInv, token' \in Unsent, UNCHANGED <<page, call, accepted>>,
         shown' \in {shown, "nothing"}
  PROVE  IInv'
BY DEF IInv, CallsInv, SuccessInv

(* The call of one button changes. *)
LEMMA CallShape ==
  ASSUME IInv, NEW b \in Buttons, NEW c \in Call, call' = [call EXCEPT ![b] = c],
         UNCHANGED page, token' \in Unsent
  PROVE  /\ CallsInv' /\ call'[b] = c
         /\ \A x \in Buttons : x # b => call'[x] = call[x]
BY DEF IInv, CallsInv

LEMMA SendKeeps == ASSUME IInv, NEW b \in Buttons, Send(b) PROVE IInv'
<1> DEFINE c == [at |-> "limit", token |-> token, to |-> None]
<1>1. c \in Call /\ c.at = "limit"
  BY DEF IInv, CallsInv, Call, Stages
<1>2. /\ UNCHANGED page /\ token' \in Unsent /\ call' = [call EXCEPT ![b] = c]
      /\ b = "submit" => shown' = "nothing"
      /\ b # "submit" => UNCHANGED <<shown, accepted>>
  BY DEF Send, Spend, Unsent
<1> HIDE DEF c
<1>3. /\ CallsInv' /\ call'[b] = c
      /\ \A x \in Buttons : x # b => call'[x] = call[x]
  BY <1>1, <1>2, CallShape
<1>4. SuccessInv'
  BY <1>1, <1>2, <1>3 DEF IInv, SuccessInv, Buttons
<1>5. QED
  BY <1>3, <1>4 DEF IInv

(* A request goes on in the API; the contact form's is done when its mail was accepted. *)
LEMMA StageKeeps ==
  ASSUME IInv, NEW b \in Buttons, NEW s \in Stages, NEW to \in Usable \cup {None},
         call' = [call EXCEPT ![b] = [at |-> s, token |-> call[b].token, to |-> to]],
         UNCHANGED <<page, token, shown>>,
         accepted => accepted',
         b = "submit" /\ page = "contact" /\ s = "done" => accepted'
  PROVE  IInv'
<1> DEFINE c == [at |-> s, token |-> call[b].token, to |-> to]
<1>1. c \in Call /\ c.at = s
  BY DEF IInv, CallsInv, Call
<1> HIDE DEF c
<1>2. /\ CallsInv' /\ call'[b] = c
      /\ \A x \in Buttons : x # b => call'[x] = call[x]
  BY <1>1, CallShape DEF IInv, CallsInv, c
<1>3. SuccessInv'
  BY <1>1, <1>2 DEF IInv, SuccessInv, Buttons
<1>4. QED
  BY <1>2, <1>3 DEF IInv

LEMMA GotoKeeps ==
  ASSUME IInv, NEW b \in Buttons, NEW s \in Stages, Goto(b, s),
         UNCHANGED <<page, token, shown>>, accepted => accepted',
         b = "submit" /\ page = "contact" /\ s = "done" => accepted'
  PROVE  IInv'
<1>1. call[b] \in Call
  BY DEF IInv, CallsInv
<1>2. [call[b] EXCEPT !.at = s] = [at |-> s, token |-> call[b].token, to |-> call[b].to]
  BY <1>1 DEF Call
<1>3. call' = [call EXCEPT ![b] = [at |-> s, token |-> call[b].token, to |-> call[b].to]]
  BY <1>2 DEF Goto
<1>4. call[b].to \in Usable \cup {None}
  BY <1>1 DEF Call
<1>5. QED
  BY <1>3, <1>4, StageKeeps

LEMMA ApiKeeps ==
  ASSUME IInv, NEW b \in Buttons, RateLimit(b) \/ Verify(b) \/ Handle(b)
  PROVE  IInv'
<1>1. UNCHANGED <<page, token, shown, accepted>>
  BY DEF RateLimit, Verify, Handle
<1>2. CASE RateLimit(b)
  BY <1>1, <1>2, GotoKeeps DEF RateLimit, Stages
<1>3. CASE Verify(b)
  <2>1. PICK outcome \in Outcomes(b) : Goto(b, IF Passes(outcome) THEN "handler" ELSE "refused")
    BY <1>3 DEF Verify
  <2>2. QED
    BY <1>1, <2>1, GotoKeeps DEF Stages
<1>4. CASE Handle(b)
  BY <1>1, <1>4, GotoKeeps DEF Handle, Stages
<1>5. QED
  BY <1>2, <1>3, <1>4

LEMMA ContactKeeps == ASSUME IInv, Resolve \/ Mail PROVE IInv'
<1>1. "submit" \in Buttons /\ call["submit"] \in Call
  BY DEF IInv, CallsInv, Buttons
<1>2. CASE Resolve
  <2>1. CASE Goto("submit", "refused")
    BY <1>1, <1>2, <2>1, GotoKeeps DEF Resolve, Stages
  <2>2. CASE recipient \in Usable
             /\ call' = [call EXCEPT !["submit"] =
                           [at |-> "mail", token |-> @.token, to |-> recipient]]
    <3>1. call' = [call EXCEPT !["submit"] =
                     [at |-> "mail", token |-> call["submit"].token, to |-> recipient]]
      BY <2>2
    <3>2. QED
      BY <1>1, <1>2, <2>2, <3>1, StageKeeps DEF Resolve, Stages
  <2>3. QED
    BY <1>2, <2>1, <2>2 DEF Resolve
<1>3. CASE Mail
  BY <1>1, <1>3, GotoKeeps DEF Mail, Stages
<1>4. QED
  BY <1>2, <1>3

LEMMA ShowKeeps ==
  ASSUME IInv, NEW b \in Buttons, NEW answer \in Answers, Show(b, answer),
         answer = "done" => call[b].at = "done"
  PROVE  IInv'
<1>1. NoCall \in Call /\ NoCall.at = "idle"
  BY DEF NoCall, Call, Stages, Unsent
<1>2. /\ UNCHANGED <<page, accepted>> /\ call' = [call EXCEPT ![b] = NoCall]
      /\ token' \in Unsent
  BY DEF Show, IInv, CallsInv, Unsent
<1>3. shown' = "success" => shown = "success" \/ (b = "submit" /\ answer = "done")
  <2>1. CASE b = "resend"
    BY <2>1 DEF Show
  <2>2. CASE b = "submit" /\ answer = "refused"
    BY <2>2 DEF Show
  <2>3. CASE b = "submit" /\ answer \in {"unverified", "unsent"}
    BY <2>3 DEF Show
  <2>4. QED
    BY <2>1, <2>2, <2>3 DEF Answers, Buttons
<1>4. /\ CallsInv' /\ call'[b] = NoCall
      /\ \A x \in Buttons : x # b => call'[x] = call[x]
  BY <1>1, <1>2, CallShape
<1>5. SuccessInv'
  BY <1>1, <1>2, <1>3, <1>4 DEF IInv, SuccessInv, Buttons
<1>6. QED
  BY <1>4, <1>5 DEF IInv

-----------------------------------------------------------------------------
LEMMA InvNext == IInv /\ [Next]_vars => IInv'
<1> SUFFICES ASSUME IInv, [Next]_vars PROVE IInv'
  OBVIOUS
<1>1. token \in Unsent
  BY DEF IInv, CallsInv
<1>2. CASE UNCHANGED vars
  BY <1>1, <1>2, SurroundingsKeep DEF vars, formVars
<1>3. CASE ScriptLoads \/ ScriptFails \/ RetryLoad
  BY <1>1, <1>3, SurroundingsKeep DEF ScriptLoads, ScriptFails, RetryLoad
<1>4. CASE Solve \/ Expire
  BY <1>4, SurroundingsKeep DEF Solve, Expire, Unsent
<1>5. CASE Elsewhere
  BY <1>1, <1>5, SurroundingsKeep DEF Elsewhere, formVars
<1>6. ASSUME NEW a \in Addresses, EditGroup(a) PROVE IInv'
  BY <1>1, <1>6, SurroundingsKeep DEF EditGroup
<1>7. CASE Resolve \/ Mail
  BY <1>7, ContactKeeps
<1>8. ASSUME NEW b \in Buttons, Send(b) PROVE IInv'
  BY <1>8, SendKeeps
<1>9. ASSUME NEW b \in Buttons, RateLimit(b) \/ Verify(b) \/ Handle(b) PROVE IInv'
  BY <1>9, ApiKeeps
<1>10. ASSUME NEW b \in Buttons, Receive(b) PROVE IInv'
  BY <1>10, ShowKeeps DEF Receive
<1>11. ASSUME NEW b \in Buttons, Lose(b) PROVE IInv'
  BY <1>11, ShowKeeps DEF Lose, Answers
<1>12. QED
  BY <1>2, <1>3, <1>4, <1>5, <1>6, <1>7, <1>8, <1>9, <1>10, <1>11 DEF Next

(* No request carries a token that an earlier one carried, from either button, and the      *)
(* contact form says "success" only after the mail of that submission was accepted, for a   *)
(* usable address.                                                                          *)
THEOREM SpentOnce == Spec => []SpentOnceAndHonest
<1>1. IInv => SpentOnceAndHonest
  BY NoneIsNoToken DEF IInv, CallsInv, SuccessInv, Call, Unsent, SpentOnceAndHonest
<1>2. QED
  BY <1>1, InvInit, InvNext, PTL DEF Spec

-----------------------------------------------------------------------------
(* The rate limiter.                                                         *)

(* The client refused last waits for the end of the bucket, and less than a second more. *)
WaitsFor(k, left) == wait[k] >= left /\ wait[k] < left + Second

(* The whole seconds of Retry-After cover what is left of the window, and waste less than one. *)
LEMMA RoundedUp ==
  ASSUME NEW left \in Nat \ {0}
  PROVE  LET told == Limiter!RetryAfter(left) * Second IN
         told \in Nat /\ told >= left /\ told < left + Second
<1> DEFINE q == (left + Second - 1) \div Second
<1>1. Second \in Nat \ {0} /\ left + Second - 1 \in Nat
  BY WindowsAreNatural DEF Limiter!TimesArePositive
<1>2. q \in Nat /\ q * Second <= left + Second - 1 /\ left + Second - 1 < q * Second + Second
  BY <1>1
<1>3. q > 0
  <2>1. q = 0 => q * Second = 0
    BY <1>1
  <2>2. QED
    BY <1>1, <1>2, <2>1
<1>4. Limiter!RetryAfter(left) = q
  BY <1>2, <1>3 DEF Limiter!RetryAfter, Limiter!Max1
<1> HIDE DEF q
<1>5. q * Second \in Nat
  BY <1>1, <1>2, <1>3
<1>6. QED
  BY <1>1, <1>2, <1>4, <1>5

(* What one window's bucket knows of the requests that passed: those since it was opened are *)
(* in its count, and before that at most one window's worth passed within one window.        *)
KeyInv(k) ==
  LET b == bucket[k] passed == IF b.count > Limit THEN Limit ELSE b.count IN
  /\ b.left = 0 => \A a \in Limiter!Ages : admitted[k][a] <= Limit
  /\ b.left = 0 => admitted[k][0] = 0
  /\ b.left > 0 => \A a \in Limiter!Ages :
       admitted[k][a] <= passed + (IF a + b.left <= Window THEN 0 ELSE Limit)
  /\ b.count > Limit => WaitsFor(k, b.left)

WindowInv == Limiter!TypeOK /\ \A k \in Buttons : KeyInv(k)

LEMMA WindowInit == Limiter!Init => WindowInv
<1> SUFFICES ASSUME Limiter!Init PROVE WindowInv
  OBVIOUS
<1>1. Limit \in Nat /\ Window \in Nat \ {0} /\ Second \in Nat \ {0}
  BY WindowsAreNatural DEF Limiter!LimitIsNatural, Limiter!TimesArePositive
<1>2. Limiter!TypeOK
  BY <1>1 DEF Limiter!Init, Limiter!TypeOK, Limiter!NoBucket
<1>3. ASSUME NEW k \in Buttons PROVE KeyInv(k)
  BY <1>1 DEF Limiter!Init, KeyInv, Limiter!NoBucket, Limiter!Ages
<1>4. QED
  BY <1>2, <1>3 DEF WindowInv

(* A request is counted, in the bucket under way or in a new one. *)
LEMMA ConsumeKeeps == ASSUME WindowInv, NEW k \in Buttons, Limiter!Consume(k) PROVE WindowInv'
<1> DEFINE b    == bucket[k]
           left == IF b.left = 0 THEN Window ELSE b.left
           old  == IF b.left = 0 THEN 0 ELSE b.count
           cnt  == IF old > Limit THEN old ELSE old + 1
           new  == [count |-> cnt, left |-> left]
           told == Limiter!RetryAfter(left) * Second
<1>1. Limit \in Nat /\ Window \in Nat \ {0} /\ Second \in Nat \ {0}
  BY WindowsAreNatural DEF Limiter!LimitIsNatural, Limiter!TimesArePositive
<1>2. /\ b \in [count : 0..(Limit + 1), left : 0..Window]
      /\ bucket \in [Buttons -> [count : 0..(Limit + 1), left : 0..Window]]
      /\ wait \in [Buttons -> Nat]
      /\ admitted \in [Buttons -> [Limiter!Ages -> Nat]]
  BY DEF WindowInv, Limiter!TypeOK
<1>3. [Limiter!Current(k) EXCEPT !.count = Limiter!Count(@)] = new
  BY <1>1, <1>2 DEF Limiter!Current, Limiter!Count
<1>4. /\ bucket' = [bucket EXCEPT ![k] = new]
      /\ IF cnt <= Limit
         THEN /\ admitted' = [admitted EXCEPT ![k] = [a \in Limiter!Ages |-> admitted[k][a] + 1]]
              /\ UNCHANGED wait
         ELSE wait' = [wait EXCEPT ![k] = told] /\ UNCHANGED admitted
  BY <1>2, <1>3 DEF Limiter!Consume, Limiter!Allows
<1>5. /\ told \in Nat /\ told >= left /\ told < left + Second
  BY <1>1, <1>2, RoundedUp
<1>6. /\ left \in 1..Window /\ old \in 0..(Limit + 1) /\ cnt \in 1..(Limit + 1)
      /\ old \in Nat /\ cnt = IF old = Limit + 1 THEN old ELSE old + 1
  <2>1. b.count \in 0..(Limit + 1) /\ b.left \in 0..Window
    BY <1>2
  <2>2. left \in 1..Window /\ old \in 0..(Limit + 1)
    BY <1>1, <2>1
  <2>3. QED
    BY <1>1, <2>2
<1>7. new \in [count : 0..(Limit + 1), left : 0..Window] /\ new.count = cnt /\ new.left = left
  BY <1>6
<1>8. \A a \in Limiter!Ages : admitted[k][a] \in Nat /\ a \in Nat /\ a <= Window - 1
  BY <1>1, <1>2 DEF Limiter!Ages
<1>9. \A a \in Limiter!Ages :
        admitted[k][a] <= (IF old > Limit THEN Limit ELSE old)
                            + (IF a + left <= Window THEN 0 ELSE Limit)
  <2>1. SUFFICES ASSUME NEW a \in Limiter!Ages
                 PROVE  admitted[k][a] <= (IF old > Limit THEN Limit ELSE old)
                                            + (IF a + left <= Window THEN 0 ELSE Limit)
    OBVIOUS
  <2>2. KeyInv(k)
    BY DEF WindowInv
  <2>3. CASE b.left = 0
    <3>1. admitted[k][a] <= Limit /\ admitted[k][0] = 0 /\ old = 0 /\ left = Window
      BY <2>2, <2>3 DEF KeyInv
    <3>2. a = 0 \/ a + left > Window
      BY <1>1, <1>8, <3>1
    <3>3. QED
      BY <1>1, <1>8, <3>1, <3>2
  <2>4. CASE b.left # 0
    <3>1. b.left > 0 /\ old = b.count /\ left = b.left
      BY <1>1, <1>2, <2>4
    <3>2. QED
      BY <2>2, <3>1 DEF KeyInv
  <2>5. QED
    BY <2>3, <2>4
<1> HIDE DEF new, cnt, left, old, told
<1>10. /\ bucket'[k] = new
      /\ \A x \in Buttons : x # k => /\ bucket'[x] = bucket[x]
                                    /\ wait'[x] = wait[x] /\ admitted'[x] = admitted[x]
  BY <1>2, <1>4
<1>11. Limiter!TypeOK'
  <2>1. wait' \in [Buttons -> Nat]
    BY <1>2, <1>4, <1>5
  <2>2. [a \in Limiter!Ages |-> admitted[k][a] + 1] \in [Limiter!Ages -> Nat]
    BY <1>8
  <2>3. admitted' \in [Buttons -> [Limiter!Ages -> Nat]]
    BY <1>2, <1>4, <2>2
  <2>4. bucket' \in [Buttons -> [count : 0..(Limit + 1), left : 0..Window]]
    BY <1>2, <1>4, <1>7
  <2>5. QED
    BY <2>1, <2>3, <2>4 DEF Limiter!TypeOK
<1>12. KeyInv(k)'
  <2>1. /\ bucket'[k].left = left /\ bucket'[k].count = cnt
        /\ bucket'[k].left > 0 /\ ~(bucket'[k].left = 0)
    BY <1>1, <1>6, <1>7, <1>10
  <2>2. bucket'[k].count > Limit => wait'[k] >= left /\ wait'[k] < left + Second
    BY <1>1, <1>2, <1>4, <1>5, <1>6, <2>1
  <2>3. ASSUME NEW a \in Limiter!Ages
        PROVE  admitted'[k][a] <= (IF cnt > Limit THEN Limit ELSE cnt)
                                    + (IF a + left <= Window THEN 0 ELSE Limit)
    <3>1. /\ admitted[k][a] \in Nat
          /\ admitted[k][a] <= (IF old > Limit THEN Limit ELSE old)
                                 + (IF a + left <= Window THEN 0 ELSE Limit)
      BY <1>8, <1>9
    <3>2. CASE cnt <= Limit
      <4>1. admitted'[k][a] = admitted[k][a] + 1
        BY <1>2, <1>4, <3>2
      <4>2. QED
        BY <1>1, <1>6, <1>8, <3>1, <3>2, <4>1
    <3>3. CASE cnt > Limit
      <4>1. admitted'[k][a] = admitted[k][a]
        BY <1>1, <1>4, <1>6, <3>3
      <4>2. QED
        BY <1>1, <1>6, <1>8, <3>1, <3>3, <4>1
    <3>4. QED
      BY <1>1, <1>6, <3>2, <3>3
  <2>4. QED
    BY <2>1, <2>2, <2>3 DEF KeyInv, WaitsFor
<1>13. ASSUME NEW x \in Buttons, x # k PROVE KeyInv(x)'
  <2>1. KeyInv(x)
    BY DEF WindowInv
  <2>2. bucket'[x] = bucket[x] /\ wait'[x] = wait[x] /\ admitted'[x] = admitted[x]
    BY <1>10, <1>13
  <2>3. QED
    BY <2>1, <2>2 DEF KeyInv, WaitsFor
<1>14. QED
  BY <1>11, <1>12, <1>13 DEF WindowInv

(* A tick: what passed gets older, and a bucket may end. *)
LEMMA TickKeeps == ASSUME WindowInv, Limiter!Tick PROVE WindowInv'
<1>1. Limit \in Nat /\ Window \in Nat \ {0} /\ Second \in Nat \ {0}
  BY WindowsAreNatural DEF Limiter!LimitIsNatural, Limiter!TimesArePositive
<1>2. /\ bucket \in [Buttons -> [count : 0..(Limit + 1), left : 0..Window]]
      /\ wait \in [Buttons -> Nat]
      /\ admitted \in [Buttons -> [Limiter!Ages -> Nat]]
  BY DEF WindowInv, Limiter!TypeOK
<1>3. ASSUME NEW k \in Buttons
      PROVE  /\ bucket[k].left > 1 =>
                  bucket'[k] = [count |-> bucket[k].count, left |-> bucket[k].left - 1]
             /\ ~(bucket[k].left > 1) => bucket'[k] = [count |-> 0, left |-> 0]
             /\ bucket'[k] \in [count : 0..(Limit + 1), left : 0..Window]
             /\ wait'[k] = IF wait[k] > 0 THEN wait[k] - 1 ELSE 0
             /\ admitted'[k] = [a \in Limiter!Ages |-> IF a = 0 THEN 0 ELSE admitted[k][a - 1]]
  <2>1. bucket[k] \in [count : 0..(Limit + 1), left : 0..Window]
    BY <1>2
  <2>2. [bucket[k] EXCEPT !.left = @ - 1] =
          [count |-> bucket[k].count, left |-> bucket[k].left - 1]
    BY <2>1
  <2>3. bucket'[k] = IF bucket[k].left > 1
                     THEN [count |-> bucket[k].count, left |-> bucket[k].left - 1]
                     ELSE [count |-> 0, left |-> 0]
    BY <2>2 DEF Limiter!Tick, Limiter!NoBucket
  <2>4. bucket'[k] \in [count : 0..(Limit + 1), left : 0..Window]
    BY <1>1, <2>1, <2>3
  <2>5. QED
    BY <2>3, <2>4 DEF Limiter!Tick
<1>4. \A a \in Limiter!Ages : a # 0 => a - 1 \in Limiter!Ages
  BY <1>1 DEF Limiter!Ages
<1>5. Limiter!TypeOK'
  <2>1. admitted' \in [Buttons -> [Limiter!Ages -> Nat]]
    BY <1>2, <1>4 DEF Limiter!Tick
  <2>2. bucket' \in [Buttons -> [count : 0..(Limit + 1), left : 0..Window]]
    <3>1. bucket' = [k \in Buttons |-> bucket'[k]]
      BY DEF Limiter!Tick
    <3>2. QED
      BY <1>3, <3>1
  <2>3. wait' \in [Buttons -> Nat]
    BY <1>2 DEF Limiter!Tick
  <2>4. QED
    BY <2>1, <2>2, <2>3 DEF Limiter!TypeOK
<1>6. ASSUME NEW k \in Buttons PROVE KeyInv(k)'
  <2>1. KeyInv(k) /\ bucket[k] \in [count : 0..(Limit + 1), left : 0..Window]
    BY <1>2 DEF WindowInv
  <2>2. \A a \in Limiter!Ages : admitted[k][a] \in Nat /\ a \in Nat /\ a <= Window - 1
    BY <1>1, <1>2 DEF Limiter!Ages
  <2>3. wait[k] \in Nat /\ wait'[k] = IF wait[k] > 0 THEN wait[k] - 1 ELSE 0
    BY <1>2, <1>3
  <2>4. bucket[k].left > 1 =>
          bucket'[k] = [count |-> bucket[k].count, left |-> bucket[k].left - 1]
    BY <1>3
  <2>5. ~(bucket[k].left > 1) => bucket'[k] = [count |-> 0, left |-> 0]
    BY <1>3
  <2>6. 0 \in Limiter!Ages /\ admitted'[k][0] = 0
    <3>1. 0 \in Limiter!Ages
      BY <1>1 DEF Limiter!Ages
    <3>2. QED
      BY <1>3, <3>1
  <2>7. admitted'[k] = [a \in Limiter!Ages |-> IF a = 0 THEN 0 ELSE admitted[k][a - 1]]
    BY <1>3
  <2>8. CASE bucket[k].left > 1
    <3>1. /\ bucket'[k].left = bucket[k].left - 1 /\ bucket'[k].count = bucket[k].count
          /\ bucket'[k].left > 0 /\ ~(bucket'[k].left = 0)
      BY <2>1, <2>8, <2>4
    <3>2. ASSUME NEW a \in Limiter!Ages
          PROVE  admitted'[k][a] <= (IF bucket[k].count > Limit THEN Limit ELSE bucket[k].count)
                   + (IF a + (bucket[k].left - 1) <= Window THEN 0 ELSE Limit)
      <4>1. CASE a = 0
        BY <1>1, <2>1, <2>6, <4>1
      <4>2. CASE a # 0
        <5>1. admitted'[k][a] = admitted[k][a - 1] /\ a - 1 \in Limiter!Ages
          BY <1>4, <2>7, <4>2
        <5>2. bucket[k].left > 0
          BY <2>1, <2>8
        <5>3. admitted[k][a - 1] <=
                (IF bucket[k].count > Limit THEN Limit ELSE bucket[k].count)
                  + (IF (a - 1) + bucket[k].left <= Window THEN 0 ELSE Limit)
          BY <2>1, <5>1, <5>2 DEF KeyInv
        <5>4. a + (bucket[k].left - 1) = (a - 1) + bucket[k].left
          BY <1>1, <2>1, <2>2
        <5>5. QED
          BY <5>1, <5>4, <5>3
      <4>3. QED
        BY <4>1, <4>2
    <3>3. bucket'[k].count > Limit =>
            wait'[k] >= bucket[k].left - 1 /\ wait'[k] < bucket[k].left - 1 + Second
      <4>1. SUFFICES ASSUME bucket[k].count > Limit
                     PROVE  wait'[k] >= bucket[k].left - 1 /\ wait'[k] < bucket[k].left - 1 + Second
        BY <3>1
      <4>2. wait[k] >= bucket[k].left /\ wait[k] < bucket[k].left + Second
        BY <2>1, <4>1 DEF KeyInv, WaitsFor
      <4>3. QED
        BY <1>1, <2>1, <2>3, <2>8, <4>2
    <3>4. QED
      BY <3>1, <3>2, <3>3 DEF KeyInv, WaitsFor
  <2>9. CASE bucket[k].left <= 1
    <3>1. bucket'[k].left = 0 /\ ~(bucket[k].left > 1) /\ ~(bucket'[k].left > 0)
      BY <2>1, <2>9, <2>5
    <3>2. ASSUME NEW a \in Limiter!Ages PROVE admitted'[k][a] <= Limit
      <4>1. CASE a = 0
        BY <1>1, <2>6, <4>1
      <4>2. CASE a # 0
        <5>1. admitted'[k][a] = admitted[k][a - 1] /\ a - 1 \in Limiter!Ages
          BY <1>4, <2>7, <4>2
        <5>2. admitted[k][a - 1] <= Limit
          <6>1. CASE bucket[k].left = 0
            BY <2>1, <5>1, <6>1 DEF KeyInv
          <6>2. CASE bucket[k].left = 1
            <7>1. (a - 1) + bucket[k].left <= Window
              BY <1>1, <2>2, <6>2
            <7>2. admitted[k][a - 1] <= IF bucket[k].count > Limit THEN Limit ELSE bucket[k].count
              <8>1. admitted[k][a - 1] <=
                      (IF bucket[k].count > Limit THEN Limit ELSE bucket[k].count) + 0
                BY <2>1, <5>1, <6>2, <7>1 DEF KeyInv
              <8>2. (IF bucket[k].count > Limit THEN Limit ELSE bucket[k].count) \in Nat
                BY <1>1, <2>1
              <8>3. QED
                BY <8>1, <8>2
            <7>3. QED
              BY <1>1, <2>1, <2>2, <5>1, <7>2
          <6>3. QED
            BY <1>1, <2>1, <2>9, <6>1, <6>2
        <5>3. QED
          BY <5>1, <5>2
      <4>3. QED
        BY <4>1, <4>2
    <3>3. ~(bucket'[k].count > Limit)
      BY <1>1, <2>5, <3>1
    <3>4. QED
      BY <2>6, <3>1, <3>2, <3>3 DEF KeyInv
  <2>10. QED
    BY <1>1, <2>1, <2>8, <2>9
<1>7. QED
  BY <1>5, <1>6 DEF WindowInv

LEMMA WindowNext == WindowInv /\ [Next]_vars => WindowInv'
<1> SUFFICES ASSUME WindowInv, [Next]_vars PROVE WindowInv'
  OBVIOUS
<1>1. CASE UNCHANGED limiterVars
  BY <1>1 DEF WindowInv, KeyInv, WaitsFor, limiterVars, Limiter!TypeOK
<1>2. ASSUME NEW k \in Buttons, Limiter!Consume(k) PROVE WindowInv'
  BY <1>2, ConsumeKeeps
<1>3. CASE Limiter!Tick
  BY <1>3, TickKeeps
<1>4. CASE Limiter!Restart
  <2>1. Limiter!Init'
    BY <1>4 DEF Limiter!Restart, Limiter!Init
  <2>2. QED
    BY <2>1, WindowInit, PTL
<1>5. CASE Elsewhere
  BY <1>2, <1>3, <1>4, <1>5 DEF Elsewhere, Limiter!Next
<1>6. ASSUME NEW b \in Buttons, RateLimit(b) PROVE WindowInv'
  BY <1>2, <1>6 DEF RateLimit
<1>7. QED
  BY <1>1, <1>5, <1>6
     DEF Next, vars, ScriptLoads, ScriptFails, RetryLoad, Solve, Expire, Send, Verify, Handle,
         Resolve, Mail, EditGroup, Receive, Lose, Show

(* However requests are timed against the windows, no stretch of time as long as a window   *)
(* lets more than two windows' worth pass, and the whole seconds of a Retry-After reach the  *)
(* end of the bucket that refused and not a second beyond it: for every limit, every length  *)
(* of the window and every number of ticks in a second.                                      *)
THEOREM TwoWindowsWorth == Spec => []WindowBound
<1>1. WindowInv => WindowBound
  <2> SUFFICES ASSUME WindowInv, NEW k \in Buttons
               PROVE  /\ Limiter!Recently(k) <= 2 * Limit
                      /\ bucket[k].count > Limit => WaitsFor(k, bucket[k].left)
    BY DEF WaitsFor, WindowBound, Limiter!WindowBound
  <2>1. Limit \in Nat /\ Window \in Nat \ {0} /\ Second \in Nat \ {0}
    BY WindowsAreNatural DEF Limiter!LimitIsNatural, Limiter!TimesArePositive
  <2>2. /\ bucket[k] \in [count : 0..(Limit + 1), left : 0..Window] /\ KeyInv(k)
        /\ Window - 1 \in Limiter!Ages /\ admitted[k][Window - 1] \in Nat
    BY <2>1 DEF WindowInv, Limiter!TypeOK, Limiter!Ages
  <2>3. bucket[k].count > Limit => WaitsFor(k, bucket[k].left)
    BY <2>2 DEF KeyInv
  <2>4. admitted[k][Window - 1] <= 2 * Limit
    <3>1. CASE bucket[k].left = 0
      <4>1. admitted[k][Window - 1] <= Limit
        BY <2>2, <3>1 DEF KeyInv
      <4>2. QED
        BY <2>1, <2>2, <4>1
    <3>2. CASE bucket[k].left > 0
      <4>1. admitted[k][Window - 1] <=
              (IF bucket[k].count > Limit THEN Limit ELSE bucket[k].count)
                + (IF (Window - 1) + bucket[k].left <= Window THEN 0 ELSE Limit)
        BY <2>2, <3>2 DEF KeyInv
      <4>2. QED
        BY <2>1, <2>2, <4>1
    <3>3. QED
      BY <2>1, <2>2, <3>1, <3>2
  <2>5. QED
    BY <2>3, <2>4 DEF Limiter!Recently
<1>2. Init => WindowInv
  BY WindowInit DEF Init
<1>3. QED
  BY <1>1, <1>2, WindowNext, PTL DEF Spec

-----------------------------------------------------------------------------
(* The types, and that a widget which has not given up has attempts left.    *)

Widgets == [at : {"loading", "waiting", "rendered", "solved", "dead", "unmounted"},
            failed : 0..MaxAttempts]
AnyCall == [at : Stages, token : Tokens \cup {None}, to : Addresses \cup {None}]
Notices == {"nothing", "error", "success", "unverified", "unsent"}

AttemptsLeft == widget.at \in {"loading", "waiting"} => widget.failed < MaxAttempts

FormInv ==
  /\ page \in Pages /\ loaded \in BOOLEAN
  /\ widget \in Widgets /\ AttemptsLeft
  /\ token \in Tokens \cup {None} /\ shown \in Notices
  /\ call \in [Buttons -> AnyCall]
  /\ recipient \in Addresses /\ accepted \in BOOLEAN

LEMMA MountedIsWidget ==
  ASSUME loaded \in BOOLEAN
  PROVE  /\ Mounted \in Widgets
         /\ Mounted.at \in {"loading", "waiting"} => Mounted.failed < MaxAttempts
BY AttemptsArePositive DEF Mounted, Widgets

LEMMA FormInit == Init => FormInv
<1> SUFFICES ASSUME Init PROVE FormInv
  OBVIOUS
<1>1. widget \in Widgets /\ AttemptsLeft
  BY AttemptsArePositive DEF Init, Widgets, AttemptsLeft
<1>2. NoCall \in AnyCall
  BY DEF NoCall, AnyCall, Stages
<1>3. QED
  BY <1>1, <1>2 DEF Init, FormInv, Notices

(* What the widget does. *)
LEMMA WidgetTyped ==
  ASSUME FormInv, ScriptLoads \/ ScriptFails \/ RetryLoad \/ Solve \/ Expire
  PROVE  FormInv'
<1>1. /\ MaxAttempts \in Nat \ {0} /\ widget \in Widgets /\ AttemptsLeft
      /\ widget.failed \in 0..MaxAttempts
  BY AttemptsArePositive DEF FormInv, Widgets
<1>2. \A at \in {"loading", "rendered", "solved", "dead"} :
        [widget EXCEPT !.at = at] = [at |-> at, failed |-> widget.failed]
  BY <1>1 DEF Widgets
<1>3. ASSUME NEW at \in {"loading", "rendered", "solved", "dead"},
             at = "loading" => widget.failed < MaxAttempts,
             widget' = [widget EXCEPT !.at = at]
      PROVE  widget' \in Widgets /\ AttemptsLeft'
  <2>1. widget' = [at |-> at, failed |-> widget.failed]
    BY <1>2, <1>3
  <2>2. QED
    BY <1>1, <1>3, <2>1 DEF Widgets, AttemptsLeft
<1>4. CASE ScriptLoads
  <2>1. PICK at \in {"rendered", "dead"} : widget' = [widget EXCEPT !.at = at]
    BY <1>4 DEF ScriptLoads
  <2>2. widget' \in Widgets /\ AttemptsLeft'
    BY <1>3, <2>1
  <2>3. QED
    BY <1>4, <2>2 DEF ScriptLoads, FormInv
<1>5. CASE ScriptFails
  <2>1. widget.failed < MaxAttempts
    BY <1>1, <1>5 DEF ScriptFails, AttemptsLeft
  <2>2. widget' \in Widgets /\ AttemptsLeft'
    BY <1>1, <1>5, <2>1 DEF ScriptFails, GivesUp, Widgets, AttemptsLeft
  <2>3. QED
    BY <1>5, <2>2 DEF ScriptFails, FormInv
<1>6. CASE RetryLoad
  <2>1. widget.failed < MaxAttempts
    BY <1>1, <1>6 DEF RetryLoad, AttemptsLeft
  <2>2. widget' \in Widgets /\ AttemptsLeft'
    BY <1>3, <1>6, <2>1 DEF RetryLoad
  <2>3. QED
    BY <1>6, <2>2 DEF RetryLoad, FormInv
<1>7. CASE Solve
  <2>1. widget' \in Widgets /\ AttemptsLeft'
    BY <1>3, <1>7 DEF Solve
  <2>2. token' \in Tokens \cup {None} /\ shown' \in Notices
    BY <1>7 DEF Solve, Tokens, FormInv, Notices
  <2>3. QED
    BY <1>7, <2>1, <2>2 DEF Solve, FormInv
<1>8. CASE Expire
  <2>1. widget' \in Widgets /\ AttemptsLeft'
    BY <1>3, <1>8 DEF Expire
  <2>2. QED
    BY <1>8, <2>1 DEF Expire, FormInv
<1>9. QED
  BY <1>4, <1>5, <1>6, <1>7, <1>8

(* A request moves on in the API, or is answered. *)
LEMMA CallTyped ==
  ASSUME FormInv, NEW b \in Buttons, NEW c \in AnyCall, call' = [call EXCEPT ![b] = c],
         UNCHANGED <<page, loaded, widget, token, shown, recipient>>, accepted' \in BOOLEAN
  PROVE  FormInv'
BY DEF FormInv, AttemptsLeft

LEMMA GotoTyped ==
  ASSUME FormInv, NEW b \in Buttons, NEW s \in Stages, Goto(b, s),
         UNCHANGED <<page, loaded, widget, token, shown, recipient>>, accepted' \in BOOLEAN
  PROVE  FormInv'
<1>1. call[b] \in AnyCall
  BY DEF FormInv
<1>2. [call[b] EXCEPT !.at = s] \in AnyCall
  BY <1>1 DEF AnyCall
<1>3. QED
  BY <1>2, CallTyped DEF Goto

LEMMA RequestTyped ==
  ASSUME FormInv, NEW b \in Buttons,
         Send(b) \/ RateLimit(b) \/ Verify(b) \/ Handle(b) \/ Receive(b) \/ Lose(b)
  PROVE  FormInv'
<1>1. accepted \in BOOLEAN /\ loaded \in BOOLEAN
  BY DEF FormInv
<1>2. CASE Send(b)
  <2>1. [at |-> "limit", token |-> token, to |-> None] \in AnyCall
    BY DEF FormInv, AnyCall, Stages
  <2>2. call' \in [Buttons -> AnyCall]
    BY <1>2, <2>1 DEF Send, FormInv
  <2>3. widget' \in Widgets /\ AttemptsLeft' /\ token' = None
    BY <1>1, <1>2, MountedIsWidget DEF Send, Spend, AttemptsLeft
  <2>4. shown' \in Notices /\ accepted' \in BOOLEAN
    BY <1>2 DEF Send, FormInv, Notices
  <2>5. QED
    BY <1>2, <2>2, <2>3, <2>4 DEF Send, FormInv
<1>3. CASE RateLimit(b)
  BY <1>1, <1>3, GotoTyped DEF RateLimit, Stages
<1>4. CASE Verify(b)
  BY <1>1, <1>4, GotoTyped DEF Verify, Stages
<1>5. CASE Handle(b)
  BY <1>1, <1>5, GotoTyped DEF Handle, Stages
<1>6. ASSUME NEW answer \in Answers, Show(b, answer) PROVE FormInv'
  <2>1. NoCall \in AnyCall
    BY DEF NoCall, AnyCall, Stages
  <2>2. call' \in [Buttons -> AnyCall]
    BY <1>6, <2>1 DEF Show, FormInv
  <2>3. shown' \in Notices
    <3>1. CASE b = "resend"
      BY <1>6, <3>1 DEF Show, FormInv
    <3>2. CASE b # "resend" /\ answer = "refused"
      BY <1>6, <3>2 DEF Show, Notices
    <3>3. CASE b # "resend" /\ answer = "done"
      BY <1>6, <3>3 DEF Show, Notices
    <3>4. CASE b # "resend" /\ answer \in {"unverified", "unsent"}
      BY <1>6, <3>4 DEF Show, Notices
    <3>5. QED
      BY <3>1, <3>2, <3>3, <3>4 DEF Answers
  <2>4. widget' \in Widgets /\ AttemptsLeft' /\ token' \in Tokens \cup {None}
    <3>1. CASE b = "submit" /\ answer = "done" /\ page # "contact"
      BY <1>6, <3>1, AttemptsArePositive DEF Show, Widgets, AttemptsLeft
    <3>2. CASE ~(b = "submit" /\ answer = "done" /\ page # "contact") /\ answer = "unsent"
      BY <1>1, <1>6, <3>2, MountedIsWidget DEF Show, AttemptsLeft, FormInv
    <3>3. CASE ~(b = "submit" /\ answer = "done" /\ page # "contact") /\ answer # "unsent"
      BY <1>6, <3>3 DEF Show, AttemptsLeft, FormInv
    <3>4. QED
      BY <3>1, <3>2, <3>3
  <2>5. QED
    BY <1>6, <2>2, <2>3, <2>4 DEF Show, FormInv
<1>7. CASE Receive(b)
  BY <1>6, <1>7 DEF Receive
<1>8. CASE Lose(b)
  BY <1>6, <1>8 DEF Lose, Answers
<1>9. QED
  BY <1>2, <1>3, <1>4, <1>5, <1>7, <1>8

LEMMA MailTyped == ASSUME FormInv, Resolve \/ Mail PROVE FormInv'
<1>1. "submit" \in Buttons /\ call["submit"] \in AnyCall /\ accepted \in BOOLEAN
  BY DEF FormInv, Buttons
<1>2. CASE Resolve
  <2>1. CASE Goto("submit", "refused")
    BY <1>1, <1>2, <2>1, GotoTyped DEF Resolve, Stages
  <2>2. CASE call' = [call EXCEPT !["submit"] =
                        [at |-> "mail", token |-> @.token, to |-> recipient]]
    <3>1. [at |-> "mail", token |-> call["submit"].token, to |-> recipient] \in AnyCall
      BY <1>1 DEF AnyCall, Stages, FormInv
    <3>2. call' = [call EXCEPT !["submit"] =
                     [at |-> "mail", token |-> call["submit"].token, to |-> recipient]]
      BY <2>2
    <3>3. QED
      BY <1>1, <1>2, <3>1, <3>2, CallTyped DEF Resolve
  <2>3. QED
    BY <1>2, <2>1, <2>2 DEF Resolve
<1>3. CASE Mail
  BY <1>1, <1>3, GotoTyped DEF Mail, Stages
<1>4. QED
  BY <1>2, <1>3

LEMMA FormNext == FormInv /\ [Next]_vars => FormInv'
<1> SUFFICES ASSUME FormInv, [Next]_vars PROVE FormInv'
  OBVIOUS
<1>1. CASE UNCHANGED formVars
  BY <1>1 DEF formVars, FormInv, AttemptsLeft
<1>2. CASE ScriptLoads \/ ScriptFails \/ RetryLoad \/ Solve \/ Expire
  BY <1>2, WidgetTyped
<1>3. ASSUME NEW b \in Buttons,
             Send(b) \/ RateLimit(b) \/ Verify(b) \/ Handle(b) \/ Receive(b) \/ Lose(b)
      PROVE  FormInv'
  BY <1>3, RequestTyped
<1>4. CASE Resolve \/ Mail
  BY <1>4, MailTyped
<1>5. ASSUME NEW a \in Addresses, EditGroup(a) PROVE FormInv'
  BY <1>5 DEF EditGroup, FormInv, AttemptsLeft
<1>6. QED
  BY <1>1, <1>2, <1>3, <1>4, <1>5 DEF Next, Elsewhere, vars

(* Every variable keeps its type, whatever the limits; in particular a widget never fails    *)
(* more often than it may.                                                                   *)
THEOREM TypeCorrect == Spec => []TypeOK
<1>1. FormInv /\ WindowInv => TypeOK
  BY DEF FormInv, WindowInv, TypeOK, Widgets, AnyCall, Notices
<1>2. Init => FormInv /\ WindowInv
  BY FormInit, WindowInit DEF Init
<1>3. QED
  BY <1>1, <1>2, FormNext, WindowNext, PTL DEF Spec
=============================================================================
