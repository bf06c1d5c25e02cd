-------------------------- MODULE WebSessionProofs --------------------------
(***************************************************************************)
(* Proofs about WebSession, for any tabs, users and numbers of sessions,   *)
(* tokens, failures and events.  The inductive invariant SessionInv        *)
(* relates the requests on their way to the tabs and to the server:        *)
(*  - Alone: a request that crossed nothing is the only one on its way,    *)
(*    calls aside;                                                         *)
(*  - Truth: what such a request carries, or is answered, is so;           *)
(*  - Attended: whatever a tab waits for is under way.                     *)
(***************************************************************************)
EXTENDS WebSession, TLAPS

(* The requests on their way. *)

\* The shape a request has, by its kind and its answer.
Formed(m) ==
  /\ m \in Request
  /\ m.tab = None => m.crossed /\ m.kind \in {"refresh", "login", "logout"}
  /\ m.kind = "me" => m.answer \in {"none", "error"} /\ (m.answer = "none" => m.user \in Users)
  /\ m.kind = "login" /\ m.answer \in {"none", "ok"} => m.user \in Users
  /\ m.kind = "logout" => m.answer # "denied"
  /\ m.kind = "refresh" /\ m.answer = "ok" => m.user \in Users
  /\ m.kind \in {"refresh", "login"} /\ m.answer = "ok" => m.sets \in Tokens
  /\ m.kind = "call" => m.answer = "none" /\ m.by \in Calls

Alone(msgs) ==
  \A a, b \in msgs : ~a.crossed /\ a.kind # "call" /\ b.kind # "call" => b = a

OneMe(msgs) ==
  \A a, b \in msgs : a.kind = "me" /\ b.kind = "me" /\ a.tab = b.tab => b = a

NetInv(msgs) == (\A m \in msgs : Formed(m)) /\ Alone(msgs) /\ OneMe(msgs)

Has(msgs, t, kind) == \E m \in msgs : m.tab = t /\ m.kind = kind
Calling(msgs, t, c) == \E m \in msgs : m.tab = t /\ m.kind = "call" /\ m.by = c

(* A tab x, shown in t: whatever it waits for is under way, and fetchMe is under way only
   for a bootstrap that awaits it. *)
Attended(msgs, t, x) ==
  /\ x.boot # "no" => Has(msgs, t, x.boot)
  /\ Has(msgs, t, "me") => x.boot = "me"
  /\ \A c \in Calls : x.calls[c] = "wait" => Has(msgs, t, "refresh")
  /\ \A c \in Calls : x.calls[c] \in {"run", "again"} => Calling(msgs, t, c)
  /\ x.status = "unknown" => x.boot # "no"

(* The server. *)

Valid(token) == \E s \in Sessions : current[s] = token

ServerInv ==
  /\ owner \in [Sessions -> Users \cup {None}]
  /\ current \in [Sessions -> Tokens \cup {None}]
  /\ \A s \in Sessions : current[s] # None => owner[s] \in Users \ deleted

\* What holds of a request that crossed nothing.
Truth(m) ==
  ~m.crossed =>
    /\ m.kind = "refresh" /\ m.answer = "none" => m.carries = jar
    /\ m.kind = "refresh" /\ m.answer = "denied" => ~JarLive
    /\ m.kind = "refresh" /\ m.answer = "ok" => m.user \notin deleted
    /\ m.kind \in {"refresh", "login"} /\ m.answer = "ok" => Valid(m.sets)
    /\ m.kind = "me" => JarLive
    /\ m.kind = "me" /\ m.answer = "none" => m.user \notin deleted

SessionInv ==
  /\ TypeOK
  /\ ServerInv
  /\ NetInv(net)
  /\ \A t \in Tabs : Attended(net, t, tab[t])
  /\ \A m \in net : Truth(m)

-----------------------------------------------------------------------------
(* Sending, answering and dropping requests.                                 *)

Crossed(a) == [a EXCEPT !.crossed = TRUE]

(* A request that is marked as crossed changes in nothing else. *)
LEMMA Marked ==
  ASSUME NEW a \in Request
  PROVE  /\ Crossed(a) \in Request
         /\ Crossed(a).crossed
         /\ Crossed(a).tab = a.tab /\ Crossed(a).kind = a.kind /\ Crossed(a).by = a.by
         /\ Crossed(a).carries = a.carries /\ Crossed(a).user = a.user
         /\ Crossed(a).answer = a.answer /\ Crossed(a).sets = a.sets
BY DEF Crossed, Request

LEMMA MarkedFormed ==
  ASSUME NEW a, Formed(a)
  PROVE  Formed(Crossed(a))
<1>1. a \in Request
  BY DEF Formed
<1> DEFINE b == Crossed(a)
<1>2. /\ b \in Request /\ b.crossed /\ b.tab = a.tab /\ b.kind = a.kind /\ b.by = a.by
      /\ b.user = a.user /\ b.answer = a.answer /\ b.sets = a.sets
  BY <1>1, Marked
<1> HIDE DEF b
<1>3. Formed(b)
  BY <1>2 DEF Formed
<1>4. QED
  BY <1>3 DEF b

(* A flag that is raised or left. *)
LEMMA Flag ==
  ASSUME NEW a \in Request, NEW p
  PROVE  /\ (a.crossed \/ p) => [a EXCEPT !.crossed = @ \/ p] = Crossed(a)
         /\ ~(a.crossed \/ p) => [a EXCEPT !.crossed = @ \/ p] = a
<1> DEFINE flag == a.crossed \/ p
<1>1. [a EXCEPT !.crossed = @ \/ p] = [a EXCEPT !.crossed = flag]
  OBVIOUS
<1>2. CASE flag
  <2>1. flag = TRUE
    BY <1>2
  <2>2. [a EXCEPT !.crossed = flag] = Crossed(a)
    BY <2>1 DEF Crossed
  <2>3. QED
    BY <1>1, <1>2, <2>2
<1>3. CASE ~flag
  <2>1. flag = FALSE
    BY <1>3
  <2>2. a.crossed = FALSE
    BY <1>3 DEF Request
  <2>3. [a EXCEPT !.crossed = FALSE] = a
    BY <2>2 DEF Request
  <2>4. QED
    BY <1>1, <1>3, <2>1, <2>3
<1>4. QED
  BY <1>2, <1>3

(* n is a request or the same one, crossed. *)
Like(n, a) == n = a \/ n = Crossed(a)

LEMMA Likes ==
  ASSUME NEW a, Formed(a), NEW n, Like(n, a)
  PROVE  /\ Formed(n)
         /\ n.tab = a.tab /\ n.kind = a.kind /\ n.by = a.by /\ (~n.crossed => n = a)
<1>1. a \in Request
  BY DEF Formed
<1>2. CASE n = a
  BY <1>2
<1>3. CASE n = Crossed(a)
  BY <1>1, <1>3, Marked, MarkedFormed
<1>4. QED
  BY <1>2, <1>3 DEF Like

(* What sending m0 makes of a request that is under way, and of m0. *)
Old(a, m0)    == IF a.crossed \/ Crosses(a, m0) THEN Crossed(a) ELSE a
New(msgs, m0) == IF m0.crossed \/ \E a \in msgs : Crosses(a, m0) THEN Crossed(m0) ELSE m0

LEMMA Sending ==
  ASSUME NEW msgs, msgs \subseteq Request, NEW m0 \in Request
  PROVE  Send(msgs, m0) = {Old(a, m0) : a \in msgs} \cup {New(msgs, m0)}
<1> DEFINE old(a) == [a EXCEPT !.crossed = @ \/ Crosses(a, m0)]
           new == [m0 EXCEPT !.crossed = @ \/ \E a \in msgs : Crosses(a, m0)]
<1>1. Send(msgs, m0) = {old(a) : a \in msgs} \cup {new}
  BY DEF Send
<1>2. ASSUME NEW a \in msgs
      PROVE  old(a) = Old(a, m0)
  <2>1. a \in Request
    OBVIOUS
  <2>2. /\ (a.crossed \/ Crosses(a, m0)) => old(a) = Crossed(a)
        /\ ~(a.crossed \/ Crosses(a, m0)) => old(a) = a
    BY <2>1, Flag
  <2> HIDE DEF old
  <2>3. QED
    BY <2>2 DEF Old
<1>3. new = New(msgs, m0)
  <2>1. /\ (m0.crossed \/ \E a \in msgs : Crosses(a, m0)) => new = Crossed(m0)
        /\ ~(m0.crossed \/ \E a \in msgs : Crosses(a, m0)) => new = m0
    BY Flag
  <2> HIDE DEF new
  <2>2. QED
    BY <2>1 DEF New
<1> HIDE DEF old, new
<1>4. QED
  BY <1>1, <1>2, <1>3

LEMMA OldLike ==
  ASSUME NEW a, Formed(a), NEW m0
  PROVE  Like(Old(a, m0), a) /\ (~Old(a, m0).crossed => ~Crosses(a, m0))
<1>1. Crossed(a).crossed
  BY Marked DEF Formed
<1>2. QED
  BY <1>1 DEF Old, Like

LEMMA NewLike ==
  ASSUME NEW msgs, NEW m0, Formed(m0)
  PROVE  /\ Like(New(msgs, m0), m0)
         /\ ~New(msgs, m0).crossed => \A a \in msgs : ~Crosses(a, m0)
<1>1. Crossed(m0).crossed
  BY Marked DEF Formed
<1>2. QED
  BY <1>1 DEF New, Like

(* Two requests of which one crossed nothing do not cross: they are of one tab and kind. *)
LEMMA LinedUp ==
  ASSUME NEW a, NEW m, Formed(a), Formed(m), ~Crosses(a, m), a.kind # "call", m.kind # "call"
  PROVE  a.tab = m.tab /\ a.kind = m.kind
<1>1. a.tab = m.tab /\ {a.kind, m.kind} \cap {"login", "logout"} = {}
      /\ {a.kind, m.kind} # {"me", "refresh"}
  BY DEF Crosses
<1>2. a.kind \in Kinds /\ m.kind \in Kinds
  BY DEF Formed, Request
<1>3. QED
  BY <1>1, <1>2 DEF Kinds

(* A request may leave when its tab has none of its kind under way. *)
LEMMA SendInv ==
  ASSUME NEW msgs, NetInv(msgs), NEW m0, Formed(m0), m0.kind # "call",
         ~Has(msgs, m0.tab, m0.kind)
  PROVE  /\ NetInv(Send(msgs, m0))
         /\ \A t, kind : Has(Send(msgs, m0), t, kind)
                         <=> Has(msgs, t, kind) \/ (t = m0.tab /\ kind = m0.kind)
         /\ \A t, c : Calling(Send(msgs, m0), t, c) <=> Calling(msgs, t, c)
         /\ \A n \in Send(msgs, m0) : ~n.crossed => n \in msgs \cup {m0}
<1> DEFINE sent == Send(msgs, m0)
           old(a) == Old(a, m0)
           new == New(msgs, m0)
<1>1. msgs \subseteq Request /\ m0 \in Request /\ \A a \in msgs : Formed(a)
  BY DEF NetInv, Formed
<1>2. sent = {old(a) : a \in msgs} \cup {new}
  BY <1>1, Sending
<1>3. \A a \in msgs : /\ Formed(old(a)) /\ Like(old(a), a)
                      /\ ~old(a).crossed => ~Crosses(a, m0) /\ old(a) = a
                      /\ old(a).tab = a.tab /\ old(a).kind = a.kind /\ old(a).by = a.by
  BY <1>1, OldLike, Likes
<1>4. /\ Formed(new) /\ Like(new, m0)
      /\ ~new.crossed => new = m0 /\ \A a \in msgs : ~Crosses(a, m0)
      /\ new.tab = m0.tab /\ new.kind = m0.kind
  BY NewLike, Likes
<1> HIDE DEF sent, old, new
<1>5. \A a \in msgs : ~(a.tab = m0.tab /\ a.kind = m0.kind)
  BY DEF Has
<1>6. \A a \in msgs : a.kind # "call" => Crosses(a, m0)
  BY <1>1, <1>5, LinedUp
<1>7. \A a \in msgs : a.kind # "call" => old(a).crossed
  BY <1>3, <1>6
<1>8. \A n \in sent : Formed(n)
  BY <1>2, <1>3, <1>4
<1>9. Alone(sent)
  <2> SUFFICES ASSUME NEW n1 \in sent, NEW n2 \in sent, ~n1.crossed,
                      n1.kind # "call", n2.kind # "call"
               PROVE  n2 = n1
    BY DEF Alone
  <2>1. n1 = new
    BY <1>2, <1>3, <1>7
  <2>2. \A a \in msgs : a.kind = "call"
    BY <1>4, <1>6, <2>1
  <2>3. n2 = new
    BY <1>2, <1>3, <2>2
  <2>4. QED
    BY <2>1, <2>3
<1>10. OneMe(sent)
  <2> SUFFICES ASSUME NEW n1 \in sent, NEW n2 \in sent,
                      n1.kind = "me", n2.kind = "me", n1.tab = n2.tab
               PROVE  n2 = n1
    BY DEF OneMe
  <2>1. OneMe(msgs)
    BY DEF NetInv
  <2>2. CASE n1 = new
    BY <1>2, <1>3, <1>4, <1>5, <2>2
  <2>3. CASE n2 = new
    BY <1>2, <1>3, <1>4, <1>5, <2>3
  <2>4. CASE n1 # new /\ n2 # new
    BY <1>2, <1>3, <2>1, <2>4 DEF OneMe
  <2>5. QED
    BY <2>2, <2>3, <2>4
<1>11. NetInv(sent)
  BY <1>8, <1>9, <1>10 DEF NetInv
<1>12. \A t, kind : Has(sent, t, kind)
                     <=> Has(msgs, t, kind) \/ (t = m0.tab /\ kind = m0.kind)
  BY <1>2, <1>3, <1>4 DEF Has
<1>13. \A t, c : Calling(sent, t, c) <=> Calling(msgs, t, c)
  BY <1>2, <1>3, <1>4 DEF Calling
<1>14. \A n \in sent : ~n.crossed => n \in msgs \cup {m0}
  BY <1>2, <1>3, <1>4
<1>15. QED
  BY <1>11, <1>12, <1>13, <1>14 DEF sent

(* What happens outside crosses everything, and takes nothing off the way. *)
LEMMA CrossAllInv ==
  ASSUME NEW msgs, NetInv(msgs)
  PROVE  /\ NetInv(CrossAll(msgs))
         /\ \A t, kind : Has(CrossAll(msgs), t, kind) <=> Has(msgs, t, kind)
         /\ \A t, c : Calling(CrossAll(msgs), t, c) <=> Calling(msgs, t, c)
         /\ \A n \in CrossAll(msgs) : n.crossed
<1>1. CrossAll(msgs) = {Crossed(a) : a \in msgs}
  BY DEF CrossAll, Crossed
<1>2. \A a \in msgs : /\ Formed(Crossed(a)) /\ Crossed(a).crossed
                      /\ Crossed(a).tab = a.tab /\ Crossed(a).kind = a.kind
                      /\ Crossed(a).by = a.by
  BY Marked, MarkedFormed DEF NetInv, Formed
<1>3. (\A m \in CrossAll(msgs) : Formed(m)) /\ Alone(CrossAll(msgs))
  BY <1>1, <1>2 DEF Alone
<1>4. OneMe(msgs)
  BY DEF NetInv
<1>5. OneMe(CrossAll(msgs))
  BY <1>1, <1>2, <1>4 DEF OneMe
<1>6. /\ \A t, kind : Has(CrossAll(msgs), t, kind) <=> Has(msgs, t, kind)
      /\ \A t, c : Calling(CrossAll(msgs), t, c) <=> Calling(msgs, t, c)
  BY <1>1, <1>2 DEF Has, Calling
<1>7. QED
  BY <1>1, <1>2, <1>3, <1>5, <1>6 DEF NetInv

(* A page that is gone leaves nothing under way in its tab. *)
LEMMA OrphanedInv ==
  ASSUME NEW msgs, NetInv(msgs), NEW t \in Tabs
  PROVE  /\ NetInv(Orphaned(msgs, t))
         /\ \A x \in Tabs : \A kind : Has(Orphaned(msgs, t), x, kind) <=> x # t /\ Has(msgs, x, kind)
         /\ \A x \in Tabs : \A c : Calling(Orphaned(msgs, t), x, c) <=> x # t /\ Calling(msgs, x, c)
         /\ \A n \in Orphaned(msgs, t) : ~n.crossed => n \in msgs
<1> DEFINE left == {m \in msgs : m.tab # t}
           served == {n \in msgs : n.tab = t /\ n.answer = "none" /\ n.kind \notin {"me", "call"}}
           lone(m) == [m EXCEPT !.tab = None, !.by = "user", !.crossed = TRUE]
<1>1. Orphaned(msgs, t) = left \cup {lone(m) : m \in served}
  BY DEF Orphaned
<1>2. ASSUME NEW m \in served
      PROVE  /\ Formed(lone(m)) /\ lone(m).crossed /\ lone(m).tab = None
             /\ lone(m).kind = m.kind /\ m.kind \notin {"me", "call"}
  <2>1. Formed(m) /\ m \in Request
    BY DEF NetInv, Formed
  <2>2. /\ lone(m) \in Request /\ lone(m).crossed /\ lone(m).tab = None /\ lone(m).by = "user"
        /\ lone(m).kind = m.kind /\ lone(m).answer = m.answer /\ lone(m).user = m.user
        /\ lone(m).sets = m.sets
    BY <2>1 DEF Request
  <2>3. m.kind \in {"refresh", "login", "logout"} /\ m.answer = "none"
    BY <2>1 DEF Request, Kinds
  <2> HIDE DEF lone
  <2>4. Formed(lone(m))
    BY <2>1, <2>2, <2>3 DEF Formed
  <2>5. QED
    BY <2>2, <2>3, <2>4
<1>3. left \subseteq msgs /\ \A m \in left : m.tab # t /\ Formed(m)
  BY DEF NetInv
<1>4. None \notin Tabs
  BY NoneIsAbsent
<1>5. Alone(msgs) /\ OneMe(msgs)
  BY DEF NetInv
<1>6. \A m \in msgs : m.tab # t => m \in left
  OBVIOUS
<1> HIDE DEF lone
<1>7. \A m \in Orphaned(msgs, t) : Formed(m)
  BY <1>1, <1>2, <1>3
<1>8. OneMe(Orphaned(msgs, t))
  BY <1>1, <1>2, <1>3, <1>5 DEF OneMe
<1>9. \A x \in Tabs : \A kind : Has(Orphaned(msgs, t), x, kind) <=> x # t /\ Has(msgs, x, kind)
  BY <1>1, <1>2, <1>3, <1>4, <1>6 DEF Has
<1>10. \A x \in Tabs : \A c : Calling(Orphaned(msgs, t), x, c) <=> x # t /\ Calling(msgs, x, c)
  BY <1>1, <1>2, <1>3, <1>4, <1>6 DEF Calling
<1>11. \A n \in Orphaned(msgs, t) : ~n.crossed => n \in left
  BY <1>1, <1>2
<1>12. Alone(Orphaned(msgs, t))
  <2> SUFFICES ASSUME NEW n1 \in Orphaned(msgs, t), NEW n2 \in Orphaned(msgs, t), ~n1.crossed,
                      n1.kind # "call", n2.kind # "call"
               PROVE  n2 = n1
    BY DEF Alone
  <2>1. n1 \in left
    BY <1>11
  <2>2. CASE n2 \in left
    BY <1>3, <1>5, <2>1, <2>2 DEF Alone
  <2>3. ASSUME NEW m \in served
        PROVE  FALSE
    BY <1>2, <1>3, <1>5, <2>1, <2>3 DEF Alone
  <2>4. QED
    BY <1>1, <2>2, <2>3
<1>13. QED
  BY <1>3, <1>7, <1>8, <1>9, <1>10, <1>11, <1>12 DEF NetInv

(* A request that is over leaves the others. *)
LEMMA RemoveInv ==
  ASSUME NEW msgs, NetInv(msgs), NEW m \in msgs
  PROVE  /\ NetInv(msgs \ {m})
         /\ \A t, kind : kind # m.kind => (Has(msgs \ {m}, t, kind) <=> Has(msgs, t, kind))
         /\ \A t, kind : t # m.tab => (Has(msgs \ {m}, t, kind) <=> Has(msgs, t, kind))
         /\ \A t, c : m.kind # "call" => (Calling(msgs \ {m}, t, c) <=> Calling(msgs, t, c))
         /\ \A t, c : t # m.tab \/ c # m.by
                        => (Calling(msgs \ {m}, t, c) <=> Calling(msgs, t, c))
         /\ m.kind = "me" => ~Has(msgs \ {m}, m.tab, "me")
         /\ m.kind # "call" => \A n \in msgs \ {m} : n.crossed \/ n.kind = "call"
<1>1. NetInv(msgs \ {m})
  BY DEF NetInv, Alone, OneMe
<1>2. /\ \A t, kind : kind # m.kind => (Has(msgs \ {m}, t, kind) <=> Has(msgs, t, kind))
      /\ \A t, kind : t # m.tab => (Has(msgs \ {m}, t, kind) <=> Has(msgs, t, kind))
  BY DEF Has
<1>3. /\ \A t, c : m.kind # "call" => (Calling(msgs \ {m}, t, c) <=> Calling(msgs, t, c))
      /\ \A t, c : t # m.tab \/ c # m.by
                     => (Calling(msgs \ {m}, t, c) <=> Calling(msgs, t, c))
  BY DEF Calling
<1>4. m.kind = "me" => ~Has(msgs \ {m}, m.tab, "me")
  BY DEF NetInv, OneMe, Has
<1>5. m.kind # "call" => \A n \in msgs \ {m} : n.crossed \/ n.kind = "call"
  BY DEF NetInv, Alone
<1>6. QED
  BY <1>1, <1>2, <1>3, <1>4, <1>5

Reply(m, answer, sets, user) == [m EXCEPT !.answer = answer, !.sets = sets, !.user = user]

(* An answer changes nothing of what its tab waits for. *)
LEMMA AnsweredInv ==
  ASSUME NetInv(net), NEW m \in net, m.kind # "call", NEW answer, NEW sets, NEW user,
         NEW b, b = Reply(m, answer, sets, user), Formed(b)
  PROVE  /\ NetInv(Answered(m, answer, sets, user))
         /\ \A t \in Tabs : \A kind :
              Has(Answered(m, answer, sets, user), t, kind) <=> Has(net, t, kind)
         /\ \A t \in Tabs : \A c :
              Calling(Answered(m, answer, sets, user), t, c) <=> Calling(net, t, c)
         /\ \A n \in Answered(m, answer, sets, user) :
              n.crossed \/ n.kind = "call" \/ (n = b /\ ~m.crossed)
<1> DEFINE rest == net \ {m}
<1>1. m \in Request /\ Formed(m) /\ Alone(net) /\ OneMe(net)
  BY DEF NetInv, Formed
<1>2. b.tab = m.tab /\ b.kind = m.kind /\ b.by = m.by /\ b.crossed = m.crossed
  BY <1>1 DEF Request, Reply
<1>3. Answered(m, answer, sets, user) = rest \cup {n \in {b} : n.tab # None}
  BY DEF Answered, Reply
<1>4. /\ \A a \in rest : a.crossed \/ a.kind = "call"
      /\ NetInv(rest)
      /\ \A a \in rest : a.kind = "me" => ~(m.kind = "me" /\ a.tab = m.tab)
  <2>1. NetInv(rest) /\ \A a \in rest : a.crossed \/ a.kind = "call"
    BY RemoveInv
  <2>2. m.kind = "me" => ~Has(rest, m.tab, "me")
    BY RemoveInv
  <2>3. QED
    BY <2>1, <2>2 DEF Has
<1> DEFINE answered == rest \cup {n \in {b} : n.tab # None}
<1>5. \A n \in answered : n \in rest \/ n = b
  OBVIOUS
<1>6. \A n \in answered : Formed(n)
  BY <1>4, <1>5 DEF NetInv
<1>7. Alone(answered)
  BY <1>1, <1>2, <1>4, <1>5 DEF Alone, NetInv
<1>8. OneMe(answered)
  BY <1>2, <1>4, <1>5 DEF OneMe, NetInv
<1>9. None \notin Tabs
  BY NoneIsAbsent
<1>10. \A t \in Tabs : \A kind : Has(answered, t, kind) <=> Has(net, t, kind)
  BY <1>2, <1>9 DEF Has
<1>11. \A t \in Tabs : \A c : Calling(answered, t, c) <=> Calling(net, t, c)
  BY <1>2, <1>9 DEF Calling
<1>12. \A n \in answered : n.crossed \/ n.kind = "call" \/ (n = b /\ ~m.crossed)
  BY <1>2, <1>4, <1>5
<1> HIDE DEF answered
<1>13. QED
  BY <1>2, <1>3, <1>6, <1>7, <1>8, <1>10, <1>11, <1>12 DEF NetInv, answered

(* Calls may leave at any time. *)
LEMMA CallsInv ==
  ASSUME NEW msgs, NetInv(msgs), NEW calls,
         \A m \in calls : Formed(m) /\ m.kind = "call"
  PROVE  /\ NetInv(msgs \cup calls)
         /\ \A t, kind : kind # "call" => (Has(msgs \cup calls, t, kind) <=> Has(msgs, t, kind))
         /\ \A t, c : Calling(msgs \cup calls, t, c) <=> Calling(msgs, t, c) \/ Calling(calls, t, c)
BY DEF NetInv, Alone, OneMe, Has, Calling

-----------------------------------------------------------------------------
(* The requests a tab sends.                                                 *)

LEMMA Cookies ==
  ASSUME TypeOK, NEW t \in Tabs, NEW kind \in {"refresh", "logout"},
         NEW by \in Calls \cup {"boot", "user"}
  PROVE  LET m == Cookie(t, kind, by) IN
         /\ Formed(m) /\ ~m.crossed
         /\ m.tab = t /\ m.kind = kind /\ m.answer = "none" /\ m.carries = jar
<1> DEFINE m == Cookie(t, kind, by)
<1>1. /\ m \in Request /\ ~m.crossed
      /\ m.tab = t /\ m.kind = kind /\ m.answer = "none" /\ m.carries = jar
  BY DEF Cookie, Request, TypeOK, Kinds
<1> HIDE DEF m
<1>2. Formed(m)
  BY <1>1, NoneIsAbsent DEF Formed
<1>3. QED
  BY <1>1, <1>2 DEF m

LEMMA LoginCookies ==
  ASSUME TypeOK, NEW t \in Tabs, NEW u \in Users
  PROVE  LET m == [Cookie(t, "login", "user") EXCEPT !.user = u] IN
         /\ Formed(m) /\ m.tab = t /\ m.kind = "login" /\ m.answer = "none"
<1> DEFINE m == [Cookie(t, "login", "user") EXCEPT !.user = u]
<1>1. m \in Request /\ m.tab = t /\ m.kind = "login" /\ m.answer = "none" /\ m.user = u
  BY DEF Cookie, Request, TypeOK, Kinds
<1> HIDE DEF m
<1>2. Formed(m)
  BY <1>1, NoneIsAbsent DEF Formed
<1>3. QED
  BY <1>1, <1>2 DEF m

LEMMA CallBearers ==
  ASSUME NEW t \in Tabs, NEW c \in Calls, NEW u \in Users \cup {None}
  PROVE  LET m == Bearer(t, "call", c, u) IN
         /\ Formed(m) /\ m.tab = t /\ m.kind = "call" /\ m.by = c
<1> DEFINE m == Bearer(t, "call", c, u)
<1>1. /\ m \in Request
      /\ m.tab = t /\ m.kind = "call" /\ m.answer = "none" /\ m.by = c /\ m.user = u
  BY DEF Bearer, Cookie, Request, Kinds
<1> HIDE DEF m
<1>2. Formed(m)
  BY <1>1, NoneIsAbsent DEF Formed
<1>3. QED
  BY <1>1, <1>2 DEF m

LEMMA MeBearers ==
  ASSUME NEW t \in Tabs, NEW u \in Users, NEW crossed \in BOOLEAN
  PROVE  LET m == [Bearer(t, "me", "boot", u) EXCEPT !.crossed = crossed] IN
         /\ Formed(m) /\ m.tab = t /\ m.kind = "me" /\ m.answer = "none" /\ m.user = u
         /\ m.crossed = crossed
<1> DEFINE m == [Bearer(t, "me", "boot", u) EXCEPT !.crossed = crossed]
<1>1. /\ m \in Request
      /\ m.tab = t /\ m.kind = "me" /\ m.answer = "none" /\ m.user = u /\ m.crossed = crossed
  BY DEF Bearer, Cookie, Request, Kinds
<1> HIDE DEF m
<1>2. Formed(m)
  BY <1>1, NoneIsAbsent DEF Formed
<1>3. QED
  BY <1>1, <1>2 DEF m

LEMMA WithRefreshInv ==
  ASSUME TypeOK, NEW msgs, NetInv(msgs), NEW t \in Tabs, NEW by \in Calls \cup {"boot", "user"}
  PROVE  LET sent == WithRefresh(msgs, t, by) IN
         /\ NetInv(sent)
         /\ \A x, kind : Has(sent, x, kind)
                           <=> Has(msgs, x, kind) \/ (x = t /\ kind = "refresh")
         /\ \A x, c : Calling(sent, x, c) <=> Calling(msgs, x, c)
         /\ \A n \in sent : \/ n.crossed \/ n \in msgs
                            \/ n.kind = "refresh" /\ n.answer = "none" /\ n.carries = jar
<1> DEFINE m0 == Cookie(t, "refresh", by)
<1>1. Formed(m0) /\ m0.tab = t /\ m0.kind = "refresh" /\ m0.answer = "none" /\ m0.carries = jar
  BY Cookies
<1>2. Refreshing(msgs, t, by) <=> Has(msgs, t, "refresh")
  BY DEF Refreshing, Has
<1>3. CASE Has(msgs, t, "refresh")
  BY <1>2, <1>3 DEF WithRefresh
<1>4. CASE ~Has(msgs, t, "refresh")
  <2>1. WithRefresh(msgs, t, by) = Send(msgs, m0)
    BY <1>2, <1>4 DEF WithRefresh
  <2> HIDE DEF m0
  <2>2. /\ NetInv(Send(msgs, m0))
        /\ \A x, kind : Has(Send(msgs, m0), x, kind)
                        <=> Has(msgs, x, kind) \/ (x = m0.tab /\ kind = m0.kind)
        /\ \A x, c : Calling(Send(msgs, m0), x, c) <=> Calling(msgs, x, c)
        /\ \A n \in Send(msgs, m0) : ~n.crossed => n \in msgs \cup {m0}
    BY <1>1, <1>4, SendInv
  <2>3. QED
    BY <1>1, <2>1, <2>2
<1>5. QED
  BY <1>3, <1>4

(* A tab stays attended while it waits for no more, and what it waits for stays. *)
LEMMA AttendedKept ==
  ASSUME NEW msgs, NEW later, NEW t, NEW x, NEW y, Attended(msgs, t, x),
         y.boot = x.boot, y.calls = x.calls, y.status = "unknown" => x.status = "unknown",
         \A kind \in {"refresh", "me"} : Has(msgs, t, kind) => Has(later, t, kind),
         x.boot \in {"no", "refresh", "me"},
         Has(later, t, "me") => Has(msgs, t, "me"),
         \A c \in Calls : Calling(msgs, t, c) => Calling(later, t, c)
  PROVE  Attended(later, t, y)
BY DEF Attended

-----------------------------------------------------------------------------
(* The server.                                                               *)

(* A sign-in: the issued token is valid. *)
LEMMA OpenStep ==
  ASSUME ServerInv, NEW u \in Users \ deleted, Server!Open(u, Server!Live(u)),
         deleted' = deleted
  PROVE  ServerInv' /\ Issued \in Tokens /\ \E x \in Sessions : current'[x] = Issued
<1>1. PICK s \in Sessions :
        /\ owner' = [owner EXCEPT ![s] = u]
        /\ \E t \in Tokens : Server!Fresh(t)
             /\ current' = [Server!Without(Server!Live(u)) EXCEPT ![s] = t]
  BY DEF Server!Open
<1>2. PICK t \in Tokens :
        Server!Fresh(t) /\ current' = [Server!Without(Server!Live(u)) EXCEPT ![s] = t]
  BY <1>1
<1>3. \A x \in Sessions : current'[x] = IF x = s THEN t
                                        ELSE IF x \in Server!Live(u) THEN None ELSE current[x]
  BY <1>2 DEF Server!Without
<1>4. owner' \in [Sessions -> Users \cup {None}] /\ current' \in [Sessions -> Tokens \cup {None}]
  BY <1>1, <1>2 DEF ServerInv, Server!Without
<1>5. \A x \in Sessions : current'[x] # None => owner'[x] \in Users \ deleted'
  BY <1>1, <1>3 DEF ServerInv
<1>6. \E k \in Tokens : (\E x \in Sessions : current'[x] = k) /\ \A x \in Sessions : current[x] # k
  BY <1>2, <1>3 DEF Server!Fresh
<1>7. Issued \in Tokens /\ \E x \in Sessions : current'[x] = Issued
  BY <1>6 DEF Issued
<1>8. QED
  BY <1>4, <1>5, <1>7 DEF ServerInv

(* A refresh: so is this one, and its user is there. *)
LEMMA RedeemStep ==
  ASSUME ServerInv, NEW s \in Sessions, Server!Redeem(s), deleted' = deleted
  PROVE  ServerInv' /\ Issued \in Tokens /\ \E x \in Sessions : current'[x] = Issued /\ owner[s] \in Users \ deleted
<1>1. PICK t \in Tokens : Server!Fresh(t) /\ current' = [current EXCEPT ![s] = t]
  BY DEF Server!Redeem
<1>2. owner' = owner /\ owner[s] \in Users \ deleted
  BY DEF Server!Redeem, ServerInv
<1>3. \A x \in Sessions : current'[x] = IF x = s THEN t ELSE current[x]
  BY <1>1 DEF ServerInv
<1>4. current' \in [Sessions -> Tokens \cup {None}]
  BY <1>1 DEF ServerInv
<1>5. \A x \in Sessions : current'[x] # None => owner'[x] \in Users \ deleted'
  BY <1>2, <1>3 DEF ServerInv
<1>6. \E k \in Tokens : (\E x \in Sessions : current'[x] = k) /\ \A x \in Sessions : current[x] # k
  BY <1>1, <1>3 DEF Server!Fresh
<1>7. Issued \in Tokens /\ \E x \in Sessions : current'[x] = Issued
  BY <1>6 DEF Issued
<1>8. QED
  BY <1>2, <1>4, <1>5, <1>7 DEF ServerInv

(* The sessions left after some have ended were there before. *)
LEMMA CloseStep ==
  ASSUME ServerInv, NEW ended \in SUBSET Sessions, Server!Close(ended)
  PROVE  /\ owner' = owner /\ owner' \in [Sessions -> Users \cup {None}]
         /\ current' \in [Sessions -> Tokens \cup {None}]
         /\ \A s \in Sessions : current'[s] # None => s \notin ended /\ current[s] # None
BY DEF ServerInv, Server!Close, Server!Without

-----------------------------------------------------------------------------
(* The steps a page or a visitor begins.                                     *)

TabOK(x) == x \in Tab /\ (x.status = "authenticated" => x.user # None)

(* Types, after a step that changes one tab. *)
LEMMA TabStep ==
  ASSUME TypeOK, NEW t \in Tabs, NEW x, TabOK(x), tab' = [tab EXCEPT ![t] = x],
         NetInv(net'), jar' \in Tokens \cup {None}, deleted' \subseteq Users
  PROVE  TypeOK' /\ \A y \in Tabs : tab'[y] = IF y = t THEN x ELSE tab[y]
<1>1. \A y \in Tabs : tab'[y] = IF y = t THEN x ELSE tab[y]
  BY DEF TypeOK
<1>2. tab' \in [Tabs -> Tab]
  BY DEF TypeOK, TabOK
<1>3. \A y \in Tabs : tab'[y].status = "authenticated" => tab'[y].user # None
  BY <1>1 DEF TypeOK, TabOK
<1>4. QED
  BY <1>1, <1>2, <1>3 DEF TypeOK, NetInv, Formed

LEMMA TabTypes ==
  ASSUME TypeOK, NEW t \in Tabs
  PROVE  TabOK(tab[t]) /\ tab[t].boot \in {"no", "refresh", "me"}
BY DEF TypeOK, TabOK, Tab

(* What a request says stays true while the cookie, the sessions and the users stay; new
   ones say nothing but which cookie they carry. *)
LEMMA TruthKept ==
  ASSUME jar' = jar, current' = current, deleted' = deleted, \A m \in net : Truth(m), NEW n,
         \/ n.crossed \/ n \in net \/ n.kind = "call"
         \/ n.kind = "refresh" /\ n.answer = "none" /\ n.carries = jar
         \/ n.kind \in {"login", "logout"} /\ n.answer = "none"
  PROVE  Truth(n)'
<1>1. CASE n \in net
  BY <1>1 DEF Truth, JarLive, Valid
<1>2. CASE n \notin net
  BY <1>2 DEF Truth
<1>3. QED
  BY <1>1, <1>2

(* Tab t becomes x, the others keep waiting for what they waited for. *)
LEMMA AttendedStep ==
  ASSUME TypeOK, \A y \in Tabs : Attended(net, y, tab[y]), NEW t \in Tabs, NEW x, NEW later,
         \A y \in Tabs : tab'[y] = IF y = t THEN x ELSE tab[y],
         Attended(later, t, x),
         \A y \in Tabs : y # t =>
           /\ \A kind \in {"refresh", "me"} : Has(later, y, kind) <=> Has(net, y, kind)
           /\ \A c : Calling(later, y, c) <=> Calling(net, y, c)
  PROVE  \A y \in Tabs : Attended(later, y, tab'[y])
<1>1. ASSUME NEW y \in Tabs, y # t
      PROVE  Attended(later, y, tab'[y])
  <2>1. tab'[y] = tab[y] /\ tab[y].boot \in {"no", "refresh", "me"} /\ Attended(net, y, tab[y])
    BY <1>1, TabTypes
  <2>2. QED
    BY <1>1, <2>1, AttendedKept
<1>2. QED
  BY <1>1

(* bootstrap, for the error page's button and for the OAuth effect. *)
LEMMA BootstrapStep ==
  ASSUME SessionInv, NEW t \in Tabs, tab[t].boot = "no", NEW leaves \in BOOLEAN,
         tab' = [tab EXCEPT ![t] = [tab[t] EXCEPT !.status = "unknown", !.boot = "refresh",
                                                  !.leaves = leaves]],
         net' = WithRefresh(net, t, "boot"), UNCHANGED <<jar, deleted, server>>
  PROVE  SessionInv'
<1> DEFINE x == [tab[t] EXCEPT !.status = "unknown", !.boot = "refresh", !.leaves = leaves]
<1>1. /\ TypeOK /\ ServerInv /\ NetInv(net)
      /\ \A y \in Tabs : Attended(net, y, tab[y])
      /\ \A m \in net : Truth(m)
  BY DEF SessionInv
<1>2. TabOK(x) /\ x.status = "unknown" /\ x.boot = "refresh" /\ x.calls = tab[t].calls
  <2>1. tab[t] \in Tab
    BY <1>1, TabTypes DEF TabOK
  <2>2. x \in Tab /\ x.status = "unknown" /\ x.boot = "refresh" /\ x.calls = tab[t].calls
    BY <2>1 DEF Tab, Statuses
  <2>3. QED
    BY <2>2 DEF TabOK
<1>3. tab' = [tab EXCEPT ![t] = x]
  OBVIOUS
<1> HIDE DEF x
<1>4. /\ NetInv(net')
      /\ \A y, kind : Has(net', y, kind) <=> Has(net, y, kind) \/ (y = t /\ kind = "refresh")
      /\ \A y, c : Calling(net', y, c) <=> Calling(net, y, c)
      /\ \A n \in net' : \/ n.crossed \/ n \in net
                         \/ n.kind = "refresh" /\ n.answer = "none" /\ n.carries = jar
  BY <1>1, WithRefreshInv
<1>5. TypeOK' /\ \A y \in Tabs : tab'[y] = IF y = t THEN x ELSE tab[y]
  <2>1. jar' \in Tokens \cup {None} /\ deleted' \subseteq Users
    BY <1>1 DEF TypeOK
  <2>2. QED
    BY <1>1, <1>2, <1>3, <1>4, <2>1, TabStep
<1>6. Attended(net', t, x)
  BY <1>1, <1>2, <1>4 DEF Attended
<1>7. \A y \in Tabs : Attended(net', y, tab'[y])
  BY <1>1, <1>4, <1>5, <1>6, AttendedStep
<1>8. \A n \in net' : Truth(n)'
  BY <1>1, <1>4, TruthKept DEF server
<1>9. ServerInv'
  BY <1>1 DEF ServerInv, server
<1>10. QED
  BY <1>4, <1>5, <1>7, <1>8, <1>9 DEF SessionInv

(* login and logout. *)
LEMMA SendStep ==
  ASSUME SessionInv, NEW m0, Formed(m0), m0.kind \in {"login", "logout"}, m0.answer = "none",
         ~Has(net, m0.tab, m0.kind),
         net' = Send(net, m0), UNCHANGED <<tab, jar, deleted, server>>
  PROVE  SessionInv'
<1>1. /\ TypeOK /\ ServerInv /\ NetInv(net)
      /\ \A y \in Tabs : Attended(net, y, tab[y])
      /\ \A m \in net : Truth(m)
  BY DEF SessionInv
<1>2. m0.kind # "call" /\ m0.kind \notin {"refresh", "me"}
  OBVIOUS
<1>3. /\ NetInv(net')
      /\ \A t, kind : Has(net', t, kind) <=> Has(net, t, kind) \/ (t = m0.tab /\ kind = m0.kind)
      /\ \A t, c : Calling(net', t, c) <=> Calling(net, t, c)
      /\ \A n \in net' : ~n.crossed => n \in net \cup {m0}
  BY <1>1, <1>2, SendInv
<1>4. TypeOK'
  BY <1>1, <1>3 DEF TypeOK, NetInv, Formed
<1>5. \A t \in Tabs : Attended(net', t, tab'[t])
  <2> SUFFICES ASSUME NEW t \in Tabs
               PROVE  Attended(net', t, tab[t])
    OBVIOUS
  <2>1. tab[t].boot \in {"no", "refresh", "me"} /\ Attended(net, t, tab[t])
    BY <1>1, TabTypes
  <2>2. QED
    BY <1>2, <1>3, <2>1, AttendedKept
<1>6. \A n \in net' : Truth(n)'
  BY <1>1, <1>3, TruthKept DEF server
<1>7. ServerInv'
  BY <1>1 DEF ServerInv, server
<1>8. QED
  BY <1>3, <1>4, <1>5, <1>6, <1>7 DEF SessionInv

(* A call crosses nothing. *)
LEMMA SendCall ==
  ASSUME NEW msgs, msgs \subseteq Request, NEW m0 \in Request, m0.kind = "call"
  PROVE  Send(msgs, m0) = msgs \cup {m0}
<1>1. \A a \in Request : a.crossed => Crossed(a) = a
  BY DEF Crossed, Request
<1>2. \A a \in msgs : ~Crosses(a, m0)
  BY DEF Crosses
<1>3. \A a \in msgs : Old(a, m0) = a
  BY <1>1, <1>2 DEF Old
<1>4. New(msgs, m0) = m0
  BY <1>1, <1>2 DEF New
<1>5. QED
  BY <1>3, <1>4, Sending

(* authedRequest. *)
LEMMA CallStep ==
  ASSUME SessionInv, NEW t \in Tabs, NEW c \in Calls, Call(t, c)
  PROVE  SessionInv'
<1> DEFINE x == [tab[t] EXCEPT !.calls[c] = "run"]
           m0 == Bearer(t, "call", c, tab[t].token)
<1>1. /\ TypeOK /\ ServerInv /\ NetInv(net)
      /\ \A y \in Tabs : Attended(net, y, tab[y])
      /\ \A m \in net : Truth(m)
  BY DEF SessionInv
<1>2. tab[t] \in Tab /\ TabOK(tab[t])
  BY <1>1, TabTypes DEF TabOK
<1>3. /\ x \in Tab /\ x.status = tab[t].status /\ x.user = tab[t].user /\ x.boot = tab[t].boot
      /\ \A d \in Calls : x.calls[d] = IF d = c THEN "run" ELSE tab[t].calls[d]
  BY <1>2 DEF Tab
<1>4. Formed(m0) /\ m0.tab = t /\ m0.kind = "call" /\ m0.by = c /\ m0 \in Request
  <2>1. tab[t].token \in Users \cup {None}
    BY <1>2 DEF Tab
  <2>2. QED
    BY <2>1, CallBearers DEF Formed
<1>5. tab' = [tab EXCEPT ![t] = x] /\ net' = Send(net, m0)
      /\ UNCHANGED <<jar, deleted, server>>
  BY DEF Call
<1> HIDE DEF x, m0
<1>6. net' = net \cup {m0}
  BY <1>1, <1>4, <1>5, SendCall DEF NetInv, Formed
<1>7. /\ NetInv(net')
      /\ \A y, kind : kind # "call" => (Has(net', y, kind) <=> Has(net, y, kind))
      /\ \A y, d : Calling(net', y, d) <=> Calling(net, y, d) \/ Calling({m0}, y, d)
  <2>1. \A m \in {m0} : Formed(m) /\ m.kind = "call"
    BY <1>4
  <2>2. /\ NetInv(net \cup {m0})
        /\ \A y, kind : kind # "call" => (Has(net \cup {m0}, y, kind) <=> Has(net, y, kind))
        /\ \A y, d : Calling(net \cup {m0}, y, d) <=> Calling(net, y, d) \/ Calling({m0}, y, d)
    BY <1>1, <2>1, CallsInv
  <2>3. QED
    BY <1>6, <2>2
<1>8. \A y, d : Calling({m0}, y, d) <=> y = t /\ d = c
  BY <1>4 DEF Calling
<1>9. TypeOK' /\ \A y \in Tabs : tab'[y] = IF y = t THEN x ELSE tab[y]
  <2>1. jar' \in Tokens \cup {None} /\ deleted' \subseteq Users
    BY <1>1, <1>5 DEF TypeOK
  <2>2. TabOK(x)
    BY <1>2, <1>3 DEF TabOK
  <2>3. QED
    BY <1>1, <1>5, <1>7, <2>1, <2>2, TabStep
<1>10. Attended(net', t, x)
  <2>1. Attended(net, t, tab[t]) /\ tab[t].boot \in {"no", "refresh", "me"}
    BY <1>1, TabTypes
  <2>2. QED
    BY <1>3, <1>7, <1>8, <2>1 DEF Attended
<1>11. \A y \in Tabs : Attended(net', y, tab'[y])
  BY <1>1, <1>7, <1>8, <1>9, <1>10, AttendedStep
<1>12. \A n \in net' : Truth(n)'
  BY <1>1, <1>4, <1>5, <1>6, TruthKept DEF server
<1>13. ServerInv'
  BY <1>1, <1>5 DEF ServerInv, server
<1>14. QED
  BY <1>7, <1>9, <1>11, <1>12, <1>13 DEF SessionInv

(* The page changes, nothing else. *)
LEMMA PageStep ==
  ASSUME SessionInv, NEW t \in Tabs, NEW page \in Pages,
         tab' = [tab EXCEPT ![t].page = page], UNCHANGED <<net, jar, deleted, server>>
  PROVE  SessionInv'
<1> DEFINE x == [tab[t] EXCEPT !.page = page]
<1>1. /\ TypeOK /\ ServerInv /\ NetInv(net)
      /\ \A y \in Tabs : Attended(net, y, tab[y])
      /\ \A m \in net : Truth(m)
  BY DEF SessionInv
<1>2. tab[t] \in Tab /\ TabOK(tab[t])
  BY <1>1, TabTypes DEF TabOK
<1>3. /\ x \in Tab /\ x.status = tab[t].status /\ x.user = tab[t].user /\ x.boot = tab[t].boot
      /\ x.calls = tab[t].calls
  BY <1>2 DEF Tab
<1>4. tab' = [tab EXCEPT ![t] = x]
  OBVIOUS
<1> HIDE DEF x
<1>5. TypeOK' /\ \A y \in Tabs : tab'[y] = IF y = t THEN x ELSE tab[y]
  <2>1. jar' \in Tokens \cup {None} /\ deleted' \subseteq Users /\ NetInv(net')
    BY <1>1 DEF TypeOK
  <2>2. TabOK(x)
    BY <1>2, <1>3 DEF TabOK
  <2>3. QED
    BY <1>1, <1>4, <2>1, <2>2, TabStep
<1>6. Attended(net', t, x)
  BY <1>1, <1>3 DEF Attended
<1>7. \A y \in Tabs : Attended(net', y, tab'[y])
  BY <1>1, <1>5, <1>6
<1>8. \A n \in net' : Truth(n)'
  BY <1>1, TruthKept DEF server
<1>9. ServerInv' /\ NetInv(net')
  BY <1>1 DEF ServerInv, server
<1>10. QED
  BY <1>5, <1>7, <1>8, <1>9 DEF SessionInv

(* A page is loaded in t: it begins anew, and so does bootstrap. *)
LEMMA LoadStep ==
  ASSUME TypeOK, \A y \in Tabs : Attended(net, y, tab[y]), NEW t \in Tabs, NEW page \in Pages,
         NEW msgs, NetInv(msgs),
         \A y \in Tabs : \A kind : Has(msgs, y, kind) <=> y # t /\ Has(net, y, kind),
         \A y \in Tabs : \A c : Calling(msgs, y, c) <=> y # t /\ Calling(net, y, c),
         NEW back, Formed(back), back.tab = t, back.kind = "refresh",
         tab' = [tab EXCEPT ![t] = Loaded(page)], net' = Send(msgs, back),
         jar' \in Tokens \cup {None}, deleted' \subseteq Users
  PROVE  /\ TypeOK' /\ NetInv(net')
         /\ \A y \in Tabs : Attended(net', y, tab'[y])
         /\ \A n \in net' : ~n.crossed => n \in msgs \cup {back}
<1>1. /\ NetInv(net')
      /\ \A y, kind : Has(net', y, kind) <=> Has(msgs, y, kind) \/ (y = t /\ kind = "refresh")
      /\ \A y, c : Calling(net', y, c) <=> Calling(msgs, y, c)
      /\ \A n \in net' : ~n.crossed => n \in msgs \cup {back}
  <2>1. ~Has(msgs, back.tab, back.kind)
    OBVIOUS
  <2>2. QED
    BY <2>1, SendInv
<1> DEFINE x == Loaded(page)
<1>2. /\ TabOK(x) /\ x.boot = "refresh" /\ \A c \in Calls : x.calls[c] = "no"
  BY DEF Loaded, TabOK, Tab, Statuses
<1> HIDE DEF x
<1>3. TypeOK' /\ \A y \in Tabs : tab'[y] = IF y = t THEN x ELSE tab[y]
  <2>1. tab' = [tab EXCEPT ![t] = x]
    BY DEF x
  <2>2. TypeOK /\ NetInv(net') /\ jar' \in Tokens \cup {None} /\ deleted' \subseteq Users
        /\ TabOK(x) /\ t \in Tabs
    BY <1>1, <1>2
  <2>3. QED
    BY ONLY <2>1, <2>2, TabStep
<1>4. Attended(net', t, x)
  BY <1>1, <1>2 DEF Attended
<1>5. \A y \in Tabs : Attended(net', y, tab'[y])
  <2>1. \A y \in Tabs : y # t =>
           /\ \A kind \in {"refresh", "me"} : Has(net', y, kind) <=> Has(net, y, kind)
           /\ \A c : Calling(net', y, c) <=> Calling(net, y, c)
    BY <1>1
  <2>2. QED
    BY <1>3, <1>4, <2>1, AttendedStep
<1>6. QED
  BY <1>1, <1>3, <1>5

LEMMA ReloadStep ==
  ASSUME SessionInv, NEW t \in Tabs, Reload(t)
  PROVE  SessionInv'
<1> DEFINE msgs == Orphaned(net, t)
           back == Cookie(t, "refresh", "boot")
           page == tab[t].page
<1>1. /\ TypeOK /\ ServerInv /\ NetInv(net)
      /\ \A y \in Tabs : Attended(net, y, tab[y])
      /\ \A m \in net : Truth(m)
  BY DEF SessionInv
<1>2. page \in Pages
  BY <1>1, TabTypes DEF TabOK, Tab
<1>3. /\ NetInv(msgs)
      /\ \A x \in Tabs : \A kind : Has(msgs, x, kind) <=> x # t /\ Has(net, x, kind)
      /\ \A x \in Tabs : \A c : Calling(msgs, x, c) <=> x # t /\ Calling(net, x, c)
      /\ \A n \in msgs : ~n.crossed => n \in net
  BY <1>1, OrphanedInv
<1>4. /\ Formed(back) /\ back.tab = t /\ back.kind = "refresh" /\ back.answer = "none"
      /\ back.carries = jar
  BY <1>1, Cookies
<1>5. /\ tab' = [tab EXCEPT ![t] = Loaded(page)] /\ net' = Send(msgs, back)
      /\ jar' = jar /\ deleted' = deleted /\ UNCHANGED server
  BY DEF Reload
<1>6. jar' \in Tokens \cup {None} /\ deleted' \subseteq Users
  BY <1>1, <1>5 DEF TypeOK
<1> HIDE DEF msgs, back, page
<1>7. /\ TypeOK' /\ NetInv(net')
      /\ \A y \in Tabs : Attended(net', y, tab'[y])
      /\ \A n \in net' : ~n.crossed => n \in msgs \cup {back}
  BY <1>1, <1>2, <1>3, <1>4, <1>5, <1>6, LoadStep
<1>8. \A n \in net' : Truth(n)'
  BY <1>1, <1>3, <1>4, <1>5, <1>7, TruthKept DEF server
<1>9. ServerInv'
  BY <1>1, <1>5 DEF ServerInv, server
<1>10. QED
  BY <1>7, <1>8, <1>9 DEF SessionInv

LEMMA GoogleReturnStep ==
  ASSUME SessionInv, NEW t \in Tabs, NEW u \in Users, GoogleReturn(t, u)
  PROVE  SessionInv'
<1> DEFINE left == Orphaned(net, t)
           msgs == CrossAll(left)
           back == [Cookie(t, "refresh", "boot") EXCEPT !.carries = jar']
<1>1. /\ TypeOK /\ ServerInv /\ NetInv(net)
      /\ \A y \in Tabs : Attended(net, y, tab[y])
  BY DEF SessionInv
<1>2. /\ u \in Users \ deleted /\ Server!Open(u, Server!Live(u)) /\ jar' = Issued
      /\ tab' = [tab EXCEPT ![t] = Loaded("oauth")] /\ net' = Send(msgs, back)
      /\ deleted' = deleted
  BY DEF GoogleReturn
<1>3. ServerInv' /\ jar' \in Tokens \cup {None} /\ deleted' \subseteq Users
  BY <1>1, <1>2, OpenStep DEF TypeOK
<1>4. /\ Formed(back) /\ back.tab = t /\ back.kind = "refresh" /\ back.answer = "none"
      /\ back.carries = jar'
  <2>1. /\ back \in Request /\ back.tab = t /\ back.kind = "refresh" /\ back.answer = "none"
        /\ back.carries = jar'
    BY <1>1, <1>3 DEF Cookie, Request, Kinds, TypeOK
  <2> HIDE DEF back
  <2>2. QED
    BY <2>1, NoneIsAbsent DEF Formed
<1>5. /\ NetInv(left)
      /\ \A x \in Tabs : \A kind : Has(left, x, kind) <=> x # t /\ Has(net, x, kind)
      /\ \A x \in Tabs : \A c : Calling(left, x, c) <=> x # t /\ Calling(net, x, c)
  BY <1>1, OrphanedInv
<1> HIDE DEF left, back
<1>6. /\ NetInv(msgs)
      /\ \A x \in Tabs : \A kind : Has(msgs, x, kind) <=> x # t /\ Has(net, x, kind)
      /\ \A x \in Tabs : \A c : Calling(msgs, x, c) <=> x # t /\ Calling(net, x, c)
      /\ \A n \in msgs : n.crossed
  BY <1>5, CrossAllInv
<1> HIDE DEF msgs
<1>7. /\ TypeOK' /\ NetInv(net')
      /\ \A y \in Tabs : Attended(net', y, tab'[y])
      /\ \A n \in net' : ~n.crossed => n \in msgs \cup {back}
  BY <1>1, <1>2, <1>3, <1>4, <1>6, LoadStep DEF Pages
<1>8. \A n \in net' : Truth(n)'
  BY <1>4, <1>6, <1>7 DEF Truth
<1>9. QED
  BY <1>3, <1>7, <1>8 DEF SessionInv

(* The sessions end from outside. *)
LEMMA OutsideStep ==
  ASSUME SessionInv, NEW u \in Users, Server!Close(Server!Live(u)), net' = CrossAll(net),
         deleted' = deleted \/ deleted' = deleted \cup {u}, UNCHANGED <<tab, jar>>
  PROVE  SessionInv'
<1>1. /\ TypeOK /\ ServerInv /\ NetInv(net)
      /\ \A y \in Tabs : Attended(net, y, tab[y])
  BY DEF SessionInv
<1>2. ServerInv'
  <2>1. /\ owner' = owner /\ owner' \in [Sessions -> Users \cup {None}]
        /\ current' \in [Sessions -> Tokens \cup {None}]
        /\ \A s \in Sessions : current'[s] # None => s \notin Server!Live(u) /\ current[s] # None
    BY <1>1, CloseStep DEF Server!Live
  <2>2. ASSUME NEW s \in Sessions, current'[s] # None
        PROVE  owner'[s] \in Users \ deleted'
    <3>1. owner[s] \in Users \ deleted /\ owner[s] # u
      BY <1>1, <2>1, <2>2 DEF ServerInv, Server!Live
    <3>2. QED
      BY <2>1, <3>1
  <2>3. QED
    BY <2>1, <2>2 DEF ServerInv
<1>3. /\ NetInv(net')
      /\ \A t, kind : Has(net', t, kind) <=> Has(net, t, kind)
      /\ \A t, c : Calling(net', t, c) <=> Calling(net, t, c)
      /\ \A n \in net' : n.crossed
  BY <1>1, CrossAllInv
<1>4. TypeOK'
  BY <1>1, <1>3 DEF TypeOK, NetInv, Formed
<1>5. \A t \in Tabs : Attended(net', t, tab'[t])
  BY <1>1, <1>3 DEF Attended
<1>6. \A n \in net' : Truth(n)'
  BY <1>3 DEF Truth
<1>7. QED
  BY <1>2, <1>3, <1>4, <1>5, <1>6 DEF SessionInv

-----------------------------------------------------------------------------
(* The answers.                                                              *)

LEMMA AnswerStep ==
  ASSUME SessionInv, NEW m \in net, m.kind # "call",
         NEW answer \in {"ok", "denied", "error"}, NEW sets \in Tokens \cup {None},
         NEW user \in Users \cup {None},
         net' = Answered(m, answer, sets, user), UNCHANGED <<tab, jar, deleted>>, ServerInv',
         m.kind = "me" => answer = "error" /\ current' = current,
         m.kind = "logout" => answer # "denied",
         m.kind \in {"login", "refresh"} /\ answer = "ok" =>
           user \in Users \ deleted /\ sets \in Tokens /\ \E s \in Sessions : current'[s] = sets,
         m.kind = "refresh" /\ answer = "denied" /\ ~m.crossed => ~JarLive'
  PROVE  SessionInv'
<1> DEFINE b == Reply(m, answer, sets, user)
<1>1. /\ TypeOK /\ NetInv(net) /\ Formed(m) /\ Truth(m)
      /\ \A y \in Tabs : Attended(net, y, tab[y])
  BY DEF SessionInv, NetInv
<1>2. /\ b \in Request /\ b.tab = m.tab /\ b.kind = m.kind /\ b.by = m.by
      /\ b.crossed = m.crossed /\ b.answer = answer /\ b.sets = sets /\ b.user = user
  <2>1. m \in Request
    BY <1>1 DEF Formed
  <2>2. QED
    BY <2>1 DEF Request, Reply
<1> HIDE DEF b
<1>3. Formed(b)
  BY <1>1, <1>2 DEF Formed
<1>4. /\ NetInv(net')
      /\ \A t \in Tabs : \A kind : Has(net', t, kind) <=> Has(net, t, kind)
      /\ \A t \in Tabs : \A c : Calling(net', t, c) <=> Calling(net, t, c)
      /\ \A n \in net' : n.crossed \/ n.kind = "call" \/ (n = b /\ ~m.crossed)
  <2>1. b = Reply(m, answer, sets, user)
    BY DEF b
  <2>2. NetInv(net) /\ m \in net /\ m.kind # "call" /\ Formed(b)
    BY <1>1, <1>3
  <2>3. net' = Answered(m, answer, sets, user)
    OBVIOUS
  <2>4. QED
    BY ONLY <2>1, <2>2, <2>3, AnsweredInv
<1>5. TypeOK'
  BY <1>1, <1>4 DEF TypeOK, NetInv, Formed
<1>6. \A t \in Tabs : Attended(net', t, tab'[t])
  BY <1>1, <1>4 DEF Attended
<1>7. ~m.crossed => Truth(b)'
  <2> SUFFICES ASSUME ~m.crossed
               PROVE  Truth(b)'
    OBVIOUS
  <2>1. m.kind = "me" => JarLive'
    BY <1>1 DEF Truth, JarLive
  <2>2. b.answer # "none"
    BY <1>2
  <2>3. QED
    BY <1>2, <2>1, <2>2 DEF Truth, Valid
<1>8. \A n \in net' : Truth(n)'
  BY <1>4, <1>7 DEF Truth
<1>9. QED
  BY <1>4, <1>5, <1>6, <1>8 DEF SessionInv

LEMMA ServeStep ==
  ASSUME SessionInv, NEW t \in Tabs \cup {None}, NEW kind \in Kinds, Serve(t, kind)
  PROVE  SessionInv'
<1>1. /\ TypeOK /\ ServerInv /\ NetInv(net) /\ UNCHANGED <<tab, jar, deleted>>
      /\ \A m \in net : Formed(m) /\ Truth(m)
  BY DEF SessionInv, NetInv, Serve
<1>2. PICK m \in net :
        /\ m.kind = kind /\ m.answer = "none"
        /\ \/ kind = "login" /\ ServeLogin(m)
           \/ kind = "refresh" /\ ServeRefresh(m)
           \/ kind = "logout" /\ ServeLogout(m)
  BY DEF Serve
<1>3. UNCHANGED server => ServerInv' /\ JarLive' = JarLive
  BY <1>1 DEF ServerInv, server, JarLive
<1>4. CASE kind = "login"
  <2>1. m.user \in Users
    BY <1>1, <1>2, <1>4 DEF Formed
  <2>2. CASE /\ m.user \notin deleted /\ Server!Open(m.user, Server!Live(m.user))
             /\ net' = Answered(m, "ok", Issued, m.user)
    <3>1. PICK token \in Tokens : token = Issued /\ \E x \in Sessions : current'[x] = token
      BY <1>1, <2>1, <2>2, OpenStep
    <3>2. ServerInv'
      BY <1>1, <2>1, <2>2, OpenStep
    <3>3. QED
      BY <1>1, <1>2, <1>4, <2>1, <2>2, <3>1, <3>2, AnswerStep
  <2>3. CASE net' = Answered(m, "denied", None, None) /\ UNCHANGED server
    BY <1>1, <1>2, <1>3, <1>4, <2>3, AnswerStep
  <2>4. QED
    BY <1>2, <1>4, <2>2, <2>3 DEF ServeLogin
<1>5. CASE kind = "refresh"
  <2>1. ASSUME NEW s \in Sessions, Server!Redeem(s),
               net' = Answered(m, "ok", Issued, owner[s])
        PROVE  SessionInv'
    <3>1. PICK token \in Tokens : token = Issued /\ \E x \in Sessions : current'[x] = token
      BY <1>1, <2>1, RedeemStep
    <3>2. ServerInv' /\ owner[s] \in Users \ deleted
      BY <1>1, <2>1, RedeemStep
    <3>3. QED
      BY <1>1, <1>2, <1>5, <2>1, <3>1, <3>2, AnswerStep
  <2>2. CASE /\ ~\E s \in Sessions : current[s] = m.carries /\ m.carries # None
             /\ net' = Answered(m, "denied", None, None) /\ UNCHANGED server
    <3>1. ~m.crossed => ~JarLive'
      <4>1. ~m.crossed => m.carries = jar
        BY <1>1, <1>2, <1>5 DEF Truth
      <4>2. ~m.crossed => ~JarLive
        BY <2>2, <4>1 DEF JarLive
      <4>3. QED
        BY <1>3, <2>2, <4>2
    <3>2. QED
      BY <1>1, <1>2, <1>3, <1>5, <2>2, <3>1, AnswerStep
  <2>3. QED
    BY <1>2, <1>5, <2>1, <2>2 DEF ServeRefresh
<1>6. CASE kind = "logout"
  <2>1. ServerInv'
    <3>1. PICK ended \in SUBSET Sessions : Server!Close(ended)
      BY <1>2, <1>6 DEF ServeLogout
    <3>2. QED
      BY <1>1, <3>1, CloseStep DEF ServerInv
  <2>2. net' = Answered(m, "ok", None, None)
    BY <1>2, <1>6 DEF ServeLogout
  <2>3. QED
    BY <1>1, <1>2, <1>6, <2>1, <2>2, AnswerStep
<1>7. QED
  BY <1>2, <1>4, <1>5, <1>6

LEMMA FailStep ==
  ASSUME SessionInv, NEW t \in Tabs \cup {None}, NEW kind \in Kinds, Fail(t, kind)
  PROVE  SessionInv'
<1>1. PICK m \in net : m.kind = kind /\ kind # "call" /\ net' = Answered(m, "error", None, None)
  BY DEF Fail
<1>2. ServerInv' /\ UNCHANGED <<tab, jar, deleted, current>>
  BY DEF Fail, SessionInv, ServerInv, server
<1>3. QED
  BY <1>1, <1>2, AnswerStep

-----------------------------------------------------------------------------
(* The tab handles an answer.                                                *)

LEMMA ClearShape ==
  ASSUME NEW x \in Tab
  PROVE  /\ TabOK(Clear(x)) /\ Clear(x).status = "unauthenticated"
         /\ Clear(x).boot = x.boot /\ Clear(x).calls = x.calls
BY DEF Clear, Tab, TabOK, Statuses

LEMMA ReleasedShape ==
  ASSUME NEW x \in Tab, NEW next \in {"no", "again"}
  PROVE  LET y == Released(x, next) IN
         /\ y \in Tab /\ y.status = x.status /\ y.user = x.user /\ y.boot = x.boot
         /\ \A c \in Calls : y.calls[c] = IF x.calls[c] = "wait" THEN next ELSE x.calls[c]
<1> DEFINE calls == [c \in Calls |-> IF x.calls[c] = "wait" THEN next ELSE x.calls[c]]
<1>1. Released(x, next) = [x EXCEPT !.calls = calls]
  BY DEF Released, Tab
<1>2. calls \in [Calls -> {"no", "run", "wait", "again"}]
  BY DEF Tab
<1>3. \A c \in Calls : calls[c] = IF x.calls[c] = "wait" THEN next ELSE x.calls[c]
  OBVIOUS
<1> HIDE DEF calls
<1>4. QED
  BY <1>1, <1>2, <1>3 DEF Tab

LEMMA BootedShape ==
  ASSUME NEW x, TabOK(x)
  PROVE  /\ TabOK(Booted(x)) /\ Booted(x).boot = "no"
         /\ Booted(x).status = x.status /\ Booted(x).calls = x.calls
<1> DEFINE page == IF x.leaves THEN "own" ELSE x.page
<1>1. x \in Tab
  BY DEF TabOK
<1>2. Booted(x) = [x EXCEPT !.boot = "no", !.leaves = FALSE, !.page = page]
  BY <1>1 DEF Booted, Tab
<1>3. page \in Pages
  BY <1>1 DEF Tab, Pages
<1> HIDE DEF page
<1>4. /\ Booted(x) \in Tab /\ Booted(x).boot = "no" /\ Booted(x).user = x.user
      /\ Booted(x).status = x.status /\ Booted(x).calls = x.calls
  BY <1>1, <1>2, <1>3 DEF Tab
<1>5. QED
  BY <1>4 DEF TabOK

(* One request is over, and the tab becomes y. *)
LEMMA HandledStep ==
  ASSUME SessionInv, NEW t \in Tabs, NEW m \in net, m.tab = t, m.kind # "call",
         NEW y, TabOK(y), tab' = [tab EXCEPT ![t] = y], net' = net \ {m},
         Attended(net \ {m}, t, y),
         jar' \in Tokens \cup {None}, UNCHANGED <<deleted, server>>
  PROVE  SessionInv'
<1>1. /\ TypeOK /\ ServerInv /\ NetInv(net)
      /\ \A z \in Tabs : Attended(net, z, tab[z])
  BY DEF SessionInv
<1>2. /\ NetInv(net')
      /\ \A z, kind : z # t => (Has(net', z, kind) <=> Has(net, z, kind))
      /\ \A z, c : m.kind # "call" => (Calling(net', z, c) <=> Calling(net, z, c))
      /\ \A n \in net' : n.crossed \/ n.kind = "call"
  BY <1>1, RemoveInv
<1>3. TypeOK' /\ \A z \in Tabs : tab'[z] = IF z = t THEN y ELSE tab[z]
  <2>1. deleted' \subseteq Users
    BY <1>1 DEF TypeOK
  <2>2. /\ TypeOK /\ t \in Tabs /\ TabOK(y) /\ tab' = [tab EXCEPT ![t] = y]
        /\ NetInv(net') /\ jar' \in Tokens \cup {None}
    BY <1>1, <1>2
  <2>3. QED
    BY ONLY <2>1, <2>2, TabStep
<1>4. \A z \in Tabs : Attended(net', z, tab'[z])
  BY <1>1, <1>2, <1>3, AttendedStep
<1>5. \A n \in net' : Truth(n)'
  BY <1>2 DEF Truth
<1>6. ServerInv'
  BY <1>1 DEF ServerInv, server
<1>7. QED
  BY <1>2, <1>3, <1>4, <1>5, <1>6 DEF SessionInv

LEMMA OnLoginStep ==
  ASSUME SessionInv, NEW t \in Tabs, NEW m \in net, m.tab = t, m.kind = "login", OnLogin(t, m),
         UNCHANGED <<deleted, server>>
  PROVE  SessionInv'
<1> DEFINE y == IF m.answer # "ok" THEN tab[t]
                ELSE [tab[t] EXCEPT !.token = m.user, !.user = m.user,
                                    !.status = "authenticated", !.page = "own"]
<1>1. /\ TypeOK /\ Formed(m) /\ NetInv(net) /\ Attended(net, t, tab[t])
      /\ tab[t] \in Tab /\ TabOK(tab[t]) /\ tab[t].boot \in {"no", "refresh", "me"}
  BY TabTypes DEF SessionInv, NetInv, TabOK
<1>2. m.answer = "ok" => m.user \in Users /\ m.sets \in Tokens
  BY <1>1 DEF Formed
<1>3. /\ TabOK(y) /\ y.boot = tab[t].boot /\ y.calls = tab[t].calls
      /\ y.status = "unknown" => tab[t].status = "unknown"
  <2>1. CASE m.answer = "ok"
    BY <1>1, <1>2, <2>1, NoneIsAbsent DEF TabOK, Tab, Statuses, Pages
  <2>2. CASE m.answer # "ok"
    BY <1>1, <2>2
  <2>3. QED
    BY <2>1, <2>2
<1>4. tab' = [tab EXCEPT ![t] = y] /\ net' = net \ {m}
  BY <1>1 DEF OnLogin, TypeOK
<1>5. jar' \in Tokens \cup {None}
  BY <1>1, <1>2 DEF OnLogin, TypeOK
<1> HIDE DEF y
<1>6. Attended(net \ {m}, t, y)
  <2>1. /\ \A z, kind : kind # m.kind => (Has(net \ {m}, z, kind) <=> Has(net, z, kind))
        /\ \A z, c : m.kind # "call" => (Calling(net \ {m}, z, c) <=> Calling(net, z, c))
    BY <1>1, RemoveInv
  <2>2. \A kind \in {"refresh", "me"} : Has(net \ {m}, t, kind) <=> Has(net, t, kind)
    BY <2>1
  <2>3. QED
    BY <1>1, <1>3, <2>1, <2>2, AttendedKept
<1>7. QED
  BY <1>3, <1>4, <1>5, <1>6, HandledStep

LEMMA OnLogoutStep ==
  ASSUME SessionInv, NEW t \in Tabs, NEW m \in net, m.tab = t, m.kind = "logout", OnLogout(t, m),
         UNCHANGED <<deleted, server>>
  PROVE  SessionInv'
<1>1. /\ TypeOK /\ NetInv(net) /\ Attended(net, t, tab[t])
      /\ tab[t] \in Tab /\ tab[t].boot \in {"no", "refresh", "me"}
  BY TabTypes DEF SessionInv, TabOK
<1>2. PICK page \in Pages : tab' = [tab EXCEPT ![t] = [Clear(tab[t]) EXCEPT !.page = page]]
  BY DEF OnLogout, Pages
<1> DEFINE y == [Clear(tab[t]) EXCEPT !.page = page]
<1>3. /\ TabOK(y) /\ y.boot = tab[t].boot /\ y.calls = tab[t].calls
      /\ y.status = "unauthenticated"
  <2>1. /\ Clear(tab[t]) \in Tab /\ Clear(tab[t]).status = "unauthenticated"
        /\ Clear(tab[t]).boot = tab[t].boot /\ Clear(tab[t]).calls = tab[t].calls
    BY <1>1, ClearShape DEF TabOK
  <2>2. QED
    BY <2>1 DEF Tab, TabOK
<1>4. tab' = [tab EXCEPT ![t] = y] /\ net' = net \ {m}
  BY <1>2 DEF OnLogout
<1>5. jar' \in Tokens \cup {None}
  BY <1>1 DEF OnLogout, TypeOK
<1> HIDE DEF y
<1>6. Attended(net \ {m}, t, y)
  <2>1. /\ \A z, kind : kind # m.kind => (Has(net \ {m}, z, kind) <=> Has(net, z, kind))
        /\ \A z, c : m.kind # "call" => (Calling(net \ {m}, z, c) <=> Calling(net, z, c))
    BY <1>1, RemoveInv
  <2>2. \A kind \in {"refresh", "me"} : Has(net \ {m}, t, kind) <=> Has(net, t, kind)
    BY <2>1
  <2>3. QED
    BY <1>1, <1>3, <2>1, <2>2, AttendedKept
<1>7. QED
  BY <1>3, <1>4, <1>5, <1>6, HandledStep

(* What bootstrap makes of the tab once fetchMe is over. *)
AfterMe(m, x) ==
  CASE MeAnswer(m) = "ok" -> [x EXCEPT !.user = m.user, !.status = "authenticated"]
    [] MeAnswer(m) = "denied" -> Clear(x)
    [] MeAnswer(m) = "error"  -> [x EXCEPT !.status = "error"]

LEMMA AfterMeShape ==
  ASSUME NEW m, Formed(m), m.kind = "me", NEW x \in Tab
  PROVE  /\ TabOK(AfterMe(m, x)) /\ AfterMe(m, x).calls = x.calls
         /\ AfterMe(m, x).status = CASE MeAnswer(m) = "ok" -> "authenticated"
                                     [] MeAnswer(m) = "denied" -> "unauthenticated"
                                     [] MeAnswer(m) = "error"  -> "error"
<1>1. MeAnswer(m) \in {"ok", "denied", "error"}
  BY DEF MeAnswer
<1>2. MeAnswer(m) = "ok" => m.user \in Users
  BY DEF MeAnswer, Formed
<1>3. CASE MeAnswer(m) = "ok"
  <2>1. AfterMe(m, x) = [x EXCEPT !.user = m.user, !.status = "authenticated"]
    BY <1>3 DEF AfterMe
  <2>2. m.user \in Users /\ m.user # None
    BY <1>2, <1>3, NoneIsAbsent
  <2>3. /\ AfterMe(m, x) \in Tab /\ AfterMe(m, x).calls = x.calls
        /\ AfterMe(m, x).status = "authenticated" /\ AfterMe(m, x).user # None
    BY <2>1, <2>2 DEF Tab, Statuses
  <2>4. QED
    BY <1>3, <2>3 DEF TabOK
<1>4. CASE MeAnswer(m) = "denied"
  <2>1. AfterMe(m, x) = Clear(x)
    BY <1>4 DEF AfterMe
  <2>2. QED
    BY <1>4, <2>1, ClearShape
<1>5. CASE MeAnswer(m) = "error"
  <2>1. AfterMe(m, x) = [x EXCEPT !.status = "error"]
    BY <1>5 DEF AfterMe
  <2>2. QED
    BY <1>5, <2>1 DEF TabOK, Tab, Statuses
<1>6. QED
  BY <1>1, <1>3, <1>4, <1>5

LEMMA OnMeStep ==
  ASSUME SessionInv, NEW t \in Tabs, NEW m \in net, m.tab = t, m.kind = "me", OnMe(t, m),
         UNCHANGED <<deleted, server>>
  PROVE  SessionInv'
<1> DEFINE x == tab[t]
           z == AfterMe(m, x)
           y == Booted(z)
<1>1. /\ TypeOK /\ Formed(m) /\ NetInv(net) /\ Attended(net, t, x) /\ x \in Tab
  BY TabTypes DEF SessionInv, NetInv, TabOK
<1>2. MeAnswer(m) \in {"ok", "denied", "error"}
  BY DEF MeAnswer
<1>3. TabOK(z) /\ z.calls = x.calls /\ z.status # "unknown"
  BY <1>1, <1>2, AfterMeShape
<1>4. tab' = [tab EXCEPT ![t] = y] /\ net' = net \ {m} /\ jar' = jar
  BY <1>2 DEF OnMe, AfterMe
<1> HIDE DEF z
<1>5. TabOK(y) /\ y.boot = "no" /\ y.calls = x.calls /\ y.status # "unknown"
  BY <1>3, BootedShape
<1> HIDE DEF y
<1>6. Attended(net \ {m}, t, y)
  <2>1. /\ Has(net \ {m}, t, "refresh") <=> Has(net, t, "refresh")
        /\ ~Has(net \ {m}, t, "me")
        /\ \A c : Calling(net \ {m}, t, c) <=> Calling(net, t, c)
    BY <1>1, RemoveInv
  <2>2. QED
    BY <1>1, <1>5, <2>1 DEF Attended
<1>7. jar' \in Tokens \cup {None}
  BY <1>1, <1>4 DEF TypeOK
<1>8. QED
  BY <1>4, <1>5, <1>6, <1>7, HandledStep

(* A refresh that fails or is denied: nothing waits for it any more. *)
LEMMA RefreshOverStep ==
  ASSUME SessionInv, NEW t \in Tabs, NEW m \in net, m.tab = t, m.kind = "refresh",
         m.answer \in {"denied", "error"}, OnRefresh(t, m), UNCHANGED <<deleted, server>>
  PROVE  SessionInv'
<1> DEFINE x == tab[t]
           r == Released(x, "no")
           y == IF m.answer = "denied" THEN RefreshDenied(x) ELSE RefreshFailed(x)
<1>1. /\ TypeOK /\ NetInv(net) /\ Attended(net, t, x)
      /\ x \in Tab /\ TabOK(x) /\ x.boot \in {"no", "refresh", "me"}
  BY TabTypes DEF SessionInv, TabOK
<1>2. /\ r \in Tab /\ r.status = x.status /\ r.user = x.user /\ r.boot = x.boot
      /\ \A c \in Calls : r.calls[c] = IF x.calls[c] = "wait" THEN "no" ELSE x.calls[c]
  BY <1>1, ReleasedShape
<1> HIDE DEF r
<1>3. /\ TabOK(y) /\ y.calls = r.calls
      /\ y.boot = IF x.boot = "refresh" THEN "no" ELSE x.boot
      /\ y.status = "unknown" => x.status = "unknown" /\ x.boot # "refresh"
  <2>1. CASE m.answer = "denied"
    <3>1. y = IF x.boot = "refresh" THEN Booted(Clear(r)) ELSE Clear(r)
      BY <2>1 DEF RefreshDenied, r
    <3>2. /\ TabOK(Clear(r)) /\ Clear(r).status = "unauthenticated"
          /\ Clear(r).boot = x.boot /\ Clear(r).calls = r.calls
      BY <1>2, ClearShape
    <3>3. /\ TabOK(Booted(Clear(r))) /\ Booted(Clear(r)).boot = "no"
          /\ Booted(Clear(r)).status = "unauthenticated" /\ Booted(Clear(r)).calls = r.calls
      BY <3>2, BootedShape
    <3> HIDE DEF y
    <3>4. QED
      BY <3>1, <3>2, <3>3
  <2>2. CASE m.answer = "error"
    <3> DEFINE e == [r EXCEPT !.status = "error"]
    <3>1. y = IF x.boot = "refresh" THEN Booted(e) ELSE r
      BY <2>2 DEF RefreshFailed, r
    <3>2. TabOK(e) /\ e.status = "error" /\ e.calls = r.calls
      BY <1>2 DEF TabOK, Tab, Statuses
    <3> HIDE DEF e
    <3>3. /\ TabOK(Booted(e)) /\ Booted(e).boot = "no"
          /\ Booted(e).status = "error" /\ Booted(e).calls = r.calls
      BY <3>2, BootedShape
    <3>4. TabOK(r)
      BY <1>1, <1>2 DEF TabOK
    <3> HIDE DEF y
    <3>5. QED
      BY <1>2, <3>1, <3>3, <3>4
  <2>3. QED
    BY <2>1, <2>2
<1>4. /\ tab' = [tab EXCEPT ![t] = y] /\ net' = net \ {m} /\ jar' = jar
  BY DEF OnRefresh
<1> HIDE DEF y
<1>5. Attended(net \ {m}, t, y)
  <2>1. /\ \A z, kind : kind # m.kind => (Has(net \ {m}, z, kind) <=> Has(net, z, kind))
        /\ \A z, c : m.kind # "call" => (Calling(net \ {m}, z, c) <=> Calling(net, z, c))
    BY <1>1, RemoveInv
  <2>2. /\ Has(net \ {m}, t, "me") <=> Has(net, t, "me")
        /\ \A c : Calling(net \ {m}, t, c) <=> Calling(net, t, c)
    BY <2>1
  <2>3. QED
    BY <1>1, <1>2, <1>3, <2>2 DEF Attended
<1>6. jar' \in Tokens \cup {None}
  BY <1>1, <1>4 DEF TypeOK
<1>7. QED
  BY <1>3, <1>4, <1>5, <1>6, HandledStep

(* The requests that go on once a refresh has succeeded. *)
LEMMA ResumedInv ==
  ASSUME NetInv(net), NEW t \in Tabs, NEW m \in net, m.tab = t, m.kind = "refresh",
         NEW x, x.boot = "refresh" => ~Has(net, t, "me"),
         NEW u \in Users,
         NEW resumed, resumed = Resumed(x, t, u, m.crossed, net \ {m})
  PROVE  /\ NetInv(resumed)
         /\ \A y \in Tabs : y # t =>
              /\ \A kind \in {"refresh", "me"} : Has(resumed, y, kind) <=> Has(net, y, kind)
              /\ \A c : Calling(resumed, y, c) <=> Calling(net, y, c)
         /\ Has(resumed, t, "me") <=> Has(net, t, "me") \/ x.boot = "refresh"
         /\ \A c : Calling(resumed, t, c)
                     <=> Calling(net, t, c) \/ (c \in Calls /\ x.calls[c] = "wait")
         /\ \A n \in resumed :
              \/ n.crossed \/ n.kind = "call"
              \/ n.kind = "me" /\ n.user = u /\ n.answer = "none" /\ n.crossed = m.crossed
<1> DEFINE rest == net \ {m}
           me == [Bearer(t, "me", "boot", u) EXCEPT !.crossed = m.crossed]
           sent == IF x.boot = "refresh" THEN Send(rest, me) ELSE rest
           calls == {Bearer(t, "call", c, u) : c \in {d \in Calls : x.calls[d] = "wait"}}
<1>1. /\ NetInv(rest)
      /\ \A y, kind : kind # m.kind => (Has(rest, y, kind) <=> Has(net, y, kind))
      /\ \A y, kind : y # m.tab => (Has(rest, y, kind) <=> Has(net, y, kind))
      /\ \A y, c : m.kind # "call" => (Calling(rest, y, c) <=> Calling(net, y, c))
      /\ m.kind # "call" => \A n \in rest : n.crossed \/ n.kind = "call"
  BY RemoveInv
<1>2. /\ Formed(me) /\ me.tab = t /\ me.kind = "me" /\ me.answer = "none" /\ me.user = u
      /\ me.crossed = m.crossed
  <2>1. m.crossed \in BOOLEAN
    BY DEF NetInv, Formed, Request
  <2>2. QED
    BY <2>1, MeBearers
<1>3. Resumed(x, t, u, m.crossed, rest) = sent \cup calls
  BY DEF Resumed
<1> HIDE DEF me, rest
<1>4. /\ NetInv(sent)
      /\ \A y, kind : Has(sent, y, kind)
                        <=> Has(rest, y, kind) \/ (x.boot = "refresh" /\ y = t /\ kind = "me")
      /\ \A y, c : Calling(sent, y, c) <=> Calling(rest, y, c)
      /\ \A n \in sent : ~n.crossed => n \in rest \cup {me}
  <2>1. CASE x.boot = "refresh"
    <3>1. ~Has(rest, me.tab, me.kind)
      BY <1>1, <1>2, <2>1
    <3>2. /\ NetInv(Send(rest, me))
          /\ \A y, kind : Has(Send(rest, me), y, kind)
                          <=> Has(rest, y, kind) \/ (y = me.tab /\ kind = me.kind)
          /\ \A y, c : Calling(Send(rest, me), y, c) <=> Calling(rest, y, c)
          /\ \A n \in Send(rest, me) : ~n.crossed => n \in rest \cup {me}
      BY <1>1, <1>2, <3>1, SendInv
    <3>3. QED
      BY <1>2, <2>1, <3>2
  <2>2. CASE x.boot # "refresh"
    BY <1>1, <2>2
  <2>3. QED
    BY <2>1, <2>2
<1>5. \A c \in Calls : LET b == Bearer(t, "call", c, u) IN
        Formed(b) /\ b.tab = t /\ b.kind = "call" /\ b.by = c
  BY CallBearers
<1>6. /\ \A n \in calls : Formed(n) /\ n.kind = "call"
      /\ \A y, c : Calling(calls, y, c) <=> y = t /\ c \in Calls /\ x.calls[c] = "wait"
  <2> DEFINE b(c) == Bearer(t, "call", c, u)
  <2>1. calls = {b(c) : c \in {d \in Calls : x.calls[d] = "wait"}}
    OBVIOUS
  <2>2. \A c \in Calls : Formed(b(c)) /\ b(c).tab = t /\ b(c).kind = "call" /\ b(c).by = c
    BY <1>5
  <2> HIDE DEF b, calls
  <2>3. QED
    BY <2>1, <2>2 DEF Calling
<1> HIDE DEF sent, calls
<1>7. /\ NetInv(sent \cup calls)
      /\ \A y, kind : kind # "call" => (Has(sent \cup calls, y, kind) <=> Has(sent, y, kind))
      /\ \A y, c : Calling(sent \cup calls, y, c) <=> Calling(sent, y, c) \/ Calling(calls, y, c)
  BY <1>4, <1>6, CallsInv
<1>8. resumed = sent \cup calls
  BY <1>3 DEF rest
<1>9. \A n \in resumed : \/ n.crossed \/ n.kind = "call"
                         \/ n.kind = "me" /\ n.user = u /\ n.answer = "none" /\ n.crossed = m.crossed
  BY <1>1, <1>2, <1>4, <1>6, <1>8
<1>10. \A y, c : Calling(resumed, y, c)
                   <=> Calling(net, y, c) \/ (y = t /\ c \in Calls /\ x.calls[c] = "wait")
  <2>1. \A y, c : Calling(resumed, y, c) <=> Calling(sent, y, c) \/ Calling(calls, y, c)
    BY <1>7, <1>8
  <2>2. \A y, c : Calling(sent, y, c) <=> Calling(net, y, c)
    BY <1>1, <1>4
  <2>3. QED
    BY ONLY <1>6, <2>1, <2>2
<1>11. \A y, kind : y # t => (Has(resumed, y, kind) <=> Has(net, y, kind)) \/ kind = "call"
  BY <1>1, <1>4, <1>7, <1>8
<1>12. \A y \in Tabs : y # t =>
         /\ \A kind \in {"refresh", "me"} : Has(resumed, y, kind) <=> Has(net, y, kind)
         /\ \A c : Calling(resumed, y, c) <=> Calling(net, y, c)
  BY ONLY <1>10, <1>11
<1>13. Has(resumed, t, "me") <=> Has(net, t, "me") \/ x.boot = "refresh"
  BY <1>1, <1>4, <1>7, <1>8
<1>14. \A c : Calling(resumed, t, c)
                <=> Calling(net, t, c) \/ (c \in Calls /\ x.calls[c] = "wait")
  BY ONLY <1>10
<1>15. QED
  BY <1>7, <1>8, <1>9, <1>12, <1>13, <1>14

LEMMA RefreshGrantedShape ==
  ASSUME NEW x, TabOK(x), NEW u \in Users
  PROVE  LET y == RefreshGranted(x, u) IN
         /\ TabOK(y) /\ y.status = x.status
         /\ y.boot = IF x.boot = "refresh" THEN "me" ELSE x.boot
         /\ \A c \in Calls : y.calls[c] = IF x.calls[c] = "wait" THEN "again" ELSE x.calls[c]
<1> DEFINE r == Released(x, "again")
           boot == IF x.boot = "refresh" THEN "me" ELSE x.boot
<1>1. x \in Tab
  BY DEF TabOK
<1>2. /\ r \in Tab /\ r.status = x.status /\ r.user = x.user /\ r.boot = x.boot
      /\ \A c \in Calls : r.calls[c] = IF x.calls[c] = "wait" THEN "again" ELSE x.calls[c]
  BY <1>1, ReleasedShape
<1> HIDE DEF r
<1>3. RefreshGranted(x, u) = [r EXCEPT !.token = u, !.boot = boot]
  BY <1>2 DEF RefreshGranted, r, Tab
<1>4. boot \in {"no", "refresh", "me"}
  BY <1>1 DEF Tab
<1> HIDE DEF boot
<1> DEFINE y == [r EXCEPT !.token = u, !.boot = boot]
<1>5. y \in Tab /\ y.status = x.status /\ y.user = x.user /\ y.boot = boot /\ y.calls = r.calls
  BY <1>2, <1>4 DEF Tab
<1> HIDE DEF y
<1>6. TabOK(y)
  BY <1>5 DEF TabOK
<1>7. QED
  BY <1>2, <1>3, <1>5, <1>6 DEF y, boot

LEMMA RefreshGrantedStep ==
  ASSUME SessionInv, NEW t \in Tabs, NEW m \in net, m.tab = t, m.kind = "refresh",
         m.answer = "ok", OnRefresh(t, m), UNCHANGED <<deleted, server>>
  PROVE  SessionInv'
<1> DEFINE x == tab[t]
           y == RefreshGranted(x, m.user)
<1>1. /\ TypeOK /\ ServerInv /\ NetInv(net) /\ \A z \in Tabs : Attended(net, z, tab[z])
      /\ Formed(m) /\ Truth(m)
      /\ x \in Tab /\ TabOK(x) /\ x.boot \in {"no", "refresh", "me"}
  BY TabTypes DEF SessionInv, TabOK, NetInv
<1>2. m.user \in Users /\ m.sets \in Tokens /\ m.crossed \in BOOLEAN
  BY <1>1 DEF Formed, Request
<1>3. /\ TabOK(y) /\ y.status = x.status
      /\ y.boot = IF x.boot = "refresh" THEN "me" ELSE x.boot
      /\ \A c \in Calls : y.calls[c] = IF x.calls[c] = "wait" THEN "again" ELSE x.calls[c]
  BY <1>1, <1>2, RefreshGrantedShape
<1>4. /\ tab' = [tab EXCEPT ![t] = y] /\ jar' = m.sets
      /\ net' = Resumed(x, t, m.user, m.crossed, net \ {m})
  BY DEF OnRefresh
<1>5. Attended(net, t, x) /\ (x.boot = "refresh" => ~Has(net, t, "me"))
  BY <1>1 DEF Attended
<1> HIDE DEF x, y
<1>6. /\ NetInv(net')
      /\ \A z \in Tabs : z # t =>
           /\ \A kind \in {"refresh", "me"} : Has(net', z, kind) <=> Has(net, z, kind)
           /\ \A c : Calling(net', z, c) <=> Calling(net, z, c)
      /\ Has(net', t, "me") <=> Has(net, t, "me") \/ x.boot = "refresh"
      /\ \A c : Calling(net', t, c)
                  <=> Calling(net, t, c) \/ (c \in Calls /\ x.calls[c] = "wait")
      /\ \A n \in net' :
           \/ n.crossed \/ n.kind = "call"
           \/ n.kind = "me" /\ n.user = m.user /\ n.answer = "none"
              /\ n.crossed = m.crossed
  <2>1. /\ NetInv(net) /\ t \in Tabs /\ m \in net /\ m.tab = t /\ m.kind = "refresh"
        /\ m.user \in Users
        /\ x.boot = "refresh" => ~Has(net, t, "me")
        /\ net' = Resumed(x, t, m.user, m.crossed, net \ {m})
    BY <1>1, <1>2, <1>4, <1>5
  <2>2. QED
    BY ONLY <2>1, ResumedInv
<1>7. TypeOK' /\ \A z \in Tabs : tab'[z] = IF z = t THEN y ELSE tab[z]
  <2>1. /\ TypeOK /\ t \in Tabs /\ TabOK(y) /\ tab' = [tab EXCEPT ![t] = y]
        /\ NetInv(net') /\ jar' \in Tokens \cup {None} /\ deleted' \subseteq Users
    BY <1>1, <1>2, <1>3, <1>4, <1>6 DEF TypeOK
  <2>2. QED
    BY ONLY <2>1, TabStep
<1>8. Attended(net', t, y)
  <2>1. /\ y.boot # "no" => y.boot = "me" /\ Has(net', t, "me")
        /\ Has(net', t, "me") => y.boot = "me"
        /\ y.status = "unknown" => y.boot # "no"
    BY <1>1, <1>3, <1>5, <1>6 DEF Attended
  <2>2. ASSUME NEW c \in Calls
        PROVE  /\ y.calls[c] # "wait"
               /\ y.calls[c] \in {"run", "again"} => Calling(net', t, c)
    BY <1>3, <1>5, <1>6 DEF Attended
  <2>3. QED
    BY <2>1, <2>2 DEF Attended
<1>9. \A z \in Tabs : Attended(net', z, tab'[z])
  BY <1>1, <1>6, <1>7, <1>8, AttendedStep
<1>10. ~m.crossed => JarLive' /\ m.user \notin deleted'
  <2>1. ~m.crossed => (\E s \in Sessions : current[s] = m.sets) /\ m.user \notin deleted
    BY <1>1 DEF Truth, Valid
  <2>2. m.sets # None
    BY <1>2, NoneIsAbsent
  <2>3. QED
    BY <1>4, <2>1, <2>2 DEF JarLive, server
<1>11. \A n \in net' : Truth(n)'
  BY <1>6, <1>10 DEF Truth
<1>12. ServerInv'
  BY <1>1 DEF ServerInv, server
<1>13. QED
  BY <1>6, <1>7, <1>9, <1>11, <1>12 DEF SessionInv

(* authedRequest goes on: it gives up, or asks for a new access token. *)
LEMMA OnCallStep ==
  ASSUME SessionInv, NEW t \in Tabs, NEW m \in net, m.tab = t, m.kind = "call", OnCall(t, m),
         UNCHANGED <<deleted, server>>
  PROVE  SessionInv' /\ \A z \in Tabs : tab'[z].status = tab[z].status
<1>1. /\ TypeOK /\ ServerInv /\ NetInv(net) /\ \A z \in Tabs : Attended(net, z, tab[z])
      /\ m.by \in Calls /\ tab[t] \in Tab /\ TabOK(tab[t])
      /\ \A n \in net : Truth(n)
  BY TabTypes DEF SessionInv, TabOK, NetInv, Formed
<1>2. PICK asks \in BOOLEAN :
        /\ tab' = [tab EXCEPT ![t].calls[m.by] = IF asks THEN "wait" ELSE "no"]
        /\ net' = IF asks THEN WithRefresh(net \ {m}, t, m.by) ELSE net \ {m}
        /\ jar' = jar
  BY DEF OnCall
<1> DEFINE rest == net \ {m}
           next == IF asks THEN "wait" ELSE "no"
           y == [tab[t] EXCEPT !.calls[m.by] = next]
<1>3. /\ y \in Tab /\ y.status = tab[t].status /\ y.user = tab[t].user /\ y.boot = tab[t].boot
      /\ \A c \in Calls : y.calls[c] = IF c = m.by THEN next ELSE tab[t].calls[c]
  <2>1. next \in {"wait", "no"}
    OBVIOUS
  <2> HIDE DEF next
  <2>2. QED
    BY <1>1, <2>1 DEF Tab
<1>4. TabOK(y) /\ tab' = [tab EXCEPT ![t] = y]
  BY <1>1, <1>2, <1>3 DEF TabOK
<1> HIDE DEF y
<1>5. /\ NetInv(rest)
      /\ \A z, kind : kind # "call" => (Has(rest, z, kind) <=> Has(net, z, kind))
      /\ \A z, c : z # t \/ c # m.by => (Calling(rest, z, c) <=> Calling(net, z, c))
  BY <1>1, RemoveInv
<1> HIDE DEF rest
<1>6. /\ NetInv(net')
      /\ \A z, kind : Has(net', z, kind)
                        <=> Has(rest, z, kind) \/ (asks /\ z = t /\ kind = "refresh")
      /\ \A z, c : Calling(net', z, c) <=> Calling(rest, z, c)
      /\ \A n \in net' : \/ n.crossed \/ n \in rest
                         \/ n.kind = "refresh" /\ n.answer = "none" /\ n.carries = jar
  <2>1. CASE asks
    <3>1. net' = WithRefresh(rest, t, m.by)
      BY <1>2, <2>1 DEF rest
    <3>2. QED
      BY <1>1, <1>5, <2>1, <3>1, WithRefreshInv
  <2>2. CASE ~asks
    <3>1. net' = rest
      BY <1>2, <2>2 DEF rest
    <3>2. QED
      BY <1>5, <2>2, <3>1
  <2>3. QED
    BY <2>1, <2>2
<1>7. TypeOK' /\ \A z \in Tabs : tab'[z] = IF z = t THEN y ELSE tab[z]
  <2>1. /\ TypeOK /\ t \in Tabs /\ TabOK(y) /\ tab' = [tab EXCEPT ![t] = y]
        /\ NetInv(net') /\ jar' \in Tokens \cup {None} /\ deleted' \subseteq Users
    BY <1>1, <1>2, <1>4, <1>6 DEF TypeOK
  <2>2. QED
    BY ONLY <2>1, TabStep
<1>8. Attended(net', t, y)
  <2>1. Attended(net, t, tab[t])
    BY <1>1
  <2>2. tab[t].boot \in {"no", "refresh", "me"}
    BY <1>1 DEF Tab
  <2>3. /\ y.boot # "no" => Has(net', t, y.boot)
        /\ Has(net', t, "me") => y.boot = "me"
        /\ y.status = "unknown" => y.boot # "no"
    BY <1>3, <1>5, <1>6, <2>1, <2>2 DEF Attended
  <2>4. ASSUME NEW c \in Calls
        PROVE  /\ y.calls[c] = "wait" => Has(net', t, "refresh")
               /\ y.calls[c] \in {"run", "again"} => Calling(net', t, c)
    BY <1>3, <1>5, <1>6, <2>1, <2>4 DEF Attended
  <2>5. QED
    BY <2>3, <2>4 DEF Attended
<1>9. \A z \in Tabs : Attended(net', z, tab'[z])
  <2>1. \A z \in Tabs : z # t =>
          /\ \A kind \in {"refresh", "me"} : Has(net', z, kind) <=> Has(net, z, kind)
          /\ \A c : Calling(net', z, c) <=> Calling(net, z, c)
    BY <1>5, <1>6
  <2>2. QED
    BY <1>1, <1>7, <1>8, <2>1, AttendedStep
<1>10. \A n \in net' : Truth(n)'
  BY <1>1, <1>2, <1>6, TruthKept DEF server, rest
<1>11. ServerInv'
  BY <1>1 DEF ServerInv, server
<1>12. \A z \in Tabs : tab'[z].status = tab[z].status
  BY <1>3, <1>7
<1>13. QED
  BY <1>6, <1>7, <1>9, <1>10, <1>11, <1>12 DEF SessionInv

LEMMA ReceiveStep ==
  ASSUME SessionInv, NEW t \in Tabs, NEW kind \in Kinds, Receive(t, kind)
  PROVE  SessionInv'
<1>1. PICK m \in net :
        /\ m.tab = t /\ m.kind = kind /\ (m.answer = "none" => kind \in {"me", "call"})
        /\ \/ kind = "refresh" /\ OnRefresh(t, m)
           \/ kind = "me" /\ OnMe(t, m)
           \/ kind = "login" /\ OnLogin(t, m)
           \/ kind = "logout" /\ OnLogout(t, m)
           \/ kind = "call" /\ OnCall(t, m)
  BY DEF Receive
<1>2. UNCHANGED <<deleted, server>>
  BY DEF Receive
<1>3. CASE kind = "refresh"
  <2>1. m.answer \in {"ok", "denied", "error"}
    <3>1. m \in Request
      BY DEF SessionInv, NetInv, Formed
    <3>2. QED
      BY <1>1, <1>3, <3>1 DEF Request
  <2>2. QED
    BY <1>1, <1>2, <1>3, <2>1, RefreshOverStep, RefreshGrantedStep
<1>4. CASE kind = "me"
  BY <1>1, <1>2, <1>4, OnMeStep
<1>5. CASE kind = "login"
  BY <1>1, <1>2, <1>5, OnLoginStep
<1>6. CASE kind = "logout"
  BY <1>1, <1>2, <1>6, OnLogoutStep
<1>7. CASE kind = "call"
  BY <1>1, <1>2, <1>7, OnCallStep
<1>8. QED
  BY <1>3, <1>4, <1>5, <1>6, <1>7 DEF Kinds

-----------------------------------------------------------------------------
(* The invariant.                                                            *)

LEMMA InitInv == Init => SessionInv
<1> SUFFICES ASSUME Init
             PROVE  SessionInv
  OBVIOUS
<1> DEFINE page(t) == IF t \in Callers THEN "own" ELSE "login"
           first(t) == [Cookie(t, "refresh", "boot") EXCEPT !.crossed = TRUE]
<1>1. /\ tab = [t \in Tabs |-> Loaded(page(t))] /\ jar = None /\ deleted = {}
      /\ Server!Init /\ net = {first(t) : t \in Tabs}
  BY DEF Init
<1>2. \A t \in Tabs : /\ TabOK(Loaded(page(t))) /\ Loaded(page(t)).boot = "refresh"
                      /\ \A c \in Calls : Loaded(page(t)).calls[c] = "no"
  BY DEF Loaded, TabOK, Tab, Statuses, Pages
<1>3. ASSUME NEW t \in Tabs
      PROVE  /\ Formed(first(t)) /\ first(t).crossed /\ first(t).tab = t
             /\ first(t).kind = "refresh"
  <2>1. /\ first(t) \in Request /\ first(t).crossed /\ first(t).tab = t
        /\ first(t).kind = "refresh" /\ first(t).answer = "none"
    BY <1>1 DEF Cookie, Request, Kinds
  <2> HIDE DEF first
  <2>2. QED
    BY <2>1, NoneIsAbsent DEF Formed
<1> HIDE DEF page, first
<1>4. NetInv(net)
  BY <1>1, <1>3 DEF NetInv, Alone, OneMe
<1>5. TypeOK
  <2>1. tab \in [Tabs -> Tab] /\ \A t \in Tabs : TabOK(tab[t])
    BY <1>1, <1>2 DEF TabOK
  <2>2. QED
    BY <1>1, <1>4, <2>1 DEF TypeOK, TabOK, NetInv, Formed
<1>6. ServerInv
  BY <1>1 DEF ServerInv, Server!Init
<1>7. ASSUME NEW t \in Tabs
      PROVE  Attended(net, t, tab[t])
  <2>1. Has(net, t, "refresh") /\ ~Has(net, t, "me")
    BY <1>1, <1>3 DEF Has
  <2>2. QED
    BY <1>1, <1>2, <2>1 DEF Attended
<1>8. \A m \in net : Truth(m)
  BY <1>1, <1>3 DEF Truth
<1>9. QED
  BY <1>4, <1>5, <1>6, <1>7, <1>8 DEF SessionInv

LEMMA StepInv == SessionInv /\ [Next]_vars => SessionInv'
<1> SUFFICES ASSUME SessionInv, [Next]_vars
             PROVE  SessionInv'
  OBVIOUS
<1>1. TypeOK /\ \A t \in Tabs : tab[t] \in Tab
  BY TabTypes DEF SessionInv, TabOK
<1>2. ASSUME NEW t \in Tabs, Retry(t)
      PROVE  SessionInv'
  <2>1. [tab EXCEPT ![t].status = "unknown", ![t].boot = "refresh"]
          = [tab EXCEPT ![t] = [tab[t] EXCEPT !.status = "unknown", !.boot = "refresh",
                                              !.leaves = tab[t].leaves]]
    BY <1>1 DEF TypeOK, Tab
  <2>2. tab[t].leaves \in BOOLEAN
    BY <1>1 DEF Tab
  <2>3. QED
    BY <1>2, <2>1, <2>2, BootstrapStep DEF Retry, Bootstrap
<1>3. ASSUME NEW t \in Tabs, OAuthEffect(t)
      PROVE  SessionInv'
  <2>1. [tab EXCEPT ![t].status = "unknown", ![t].boot = "refresh", ![t].leaves = TRUE]
          = [tab EXCEPT ![t] = [tab[t] EXCEPT !.status = "unknown", !.boot = "refresh",
                                              !.leaves = TRUE]]
    BY <1>1 DEF TypeOK
  <2>2. QED
    BY <1>3, <2>1, BootstrapStep DEF OAuthEffect
<1>4. ASSUME NEW t \in Tabs, Login(t)
      PROVE  SessionInv'
  <2>1. PICK u \in Users : net' = Send(net, [Cookie(t, "login", "user") EXCEPT !.user = u])
    BY <1>4 DEF Login
  <2> DEFINE m0 == [Cookie(t, "login", "user") EXCEPT !.user = u]
  <2>2. Formed(m0) /\ m0.tab = t /\ m0.kind = "login" /\ m0.answer = "none"
    BY <1>1, LoginCookies
  <2>3. net' = Send(net, m0)
    BY <2>1
  <2> HIDE DEF m0
  <2>4. ~Has(net, m0.tab, m0.kind) /\ UNCHANGED <<tab, jar, deleted, server>>
    BY <1>4, <2>2 DEF Login, Has
  <2>5. QED
    BY <2>2, <2>3, <2>4, SendStep
<1>5. ASSUME NEW t \in Tabs, Logout(t)
      PROVE  SessionInv'
  <2> DEFINE m0 == Cookie(t, "logout", "user")
  <2>1. Formed(m0) /\ m0.tab = t /\ m0.kind = "logout" /\ m0.answer = "none"
    BY <1>1, Cookies
  <2>2. net' = Send(net, m0)
    BY <1>5 DEF Logout
  <2> HIDE DEF m0
  <2>3. ~Has(net, m0.tab, m0.kind) /\ UNCHANGED <<tab, jar, deleted, server>>
    BY <1>5, <2>1 DEF Logout, Has
  <2>4. QED
    BY <2>1, <2>2, <2>3, SendStep
<1>6. ASSUME NEW t \in Tabs, NEW c \in Calls, Call(t, c)
      PROVE  SessionInv'
  BY <1>6, CallStep
<1>7. ASSUME NEW t \in Tabs, Redirect(t)
      PROVE  SessionInv'
  <2>1. PICK page \in Pages : tab' = [tab EXCEPT ![t].page = page]
    BY <1>7 DEF Redirect, Pages
  <2>2. QED
    BY <1>7, <2>1, PageStep DEF Redirect
<1>8. ASSUME NEW t \in Tabs, NEW page \in Pages, Navigate(t, page)
      PROVE  SessionInv'
  BY <1>8, PageStep DEF Navigate
<1>9. ASSUME NEW t \in Tabs, Reload(t)
      PROVE  SessionInv'
  BY <1>9, ReloadStep
<1>10. ASSUME NEW t \in Tabs, NEW u \in Users, GoogleReturn(t, u)
      PROVE  SessionInv'
  BY <1>10, GoogleReturnStep
<1>11. ASSUME NEW u \in Users, EndElsewhere(u)
       PROVE  SessionInv'
  BY <1>11, OutsideStep DEF EndElsewhere
<1>12. ASSUME NEW u \in Users, Delete(u)
       PROVE  SessionInv'
  BY <1>12, OutsideStep DEF Delete
<1>13. ASSUME NEW t \in Tabs \cup {None}, NEW kind \in Kinds, Serve(t, kind) \/ Fail(t, kind)
       PROVE  SessionInv'
  BY <1>13, ServeStep, FailStep
<1>14. ASSUME NEW t \in Tabs, NEW kind \in Kinds, Receive(t, kind)
       PROVE  SessionInv'
  BY <1>14, ReceiveStep
<1>15. CASE UNCHANGED vars
  BY <1>15 DEF vars, server, SessionInv, TypeOK, ServerInv, Truth, JarLive, Valid
<1>16. QED
  BY <1>2, <1>3, <1>4, <1>5, <1>6, <1>7, <1>8, <1>9, <1>10, <1>11, <1>12, <1>13, <1>14, <1>15
     DEF Next

LEMMA Invariant == Spec => []SessionInv
BY InitInv, StepInv, PTL DEF Spec

-----------------------------------------------------------------------------
(* Theorems.                                                                 *)

(* Every variable has its type, and a tab that is signed in knows its user. *)
THEOREM TypeCorrect == Spec => []TypeOK
<1>1. SessionInv => TypeOK
  BY DEF SessionInv
<1>2. QED
  BY <1>1, Invariant, PTL

(* AuthProvider and the pages that read it: no tab stays on a placeholder, and nothing in it
   waits for an answer that is not under way. *)
THEOREM NobodyStranded == Spec => []NeverStranded
<1>1. SessionInv => NeverStranded
  <2> SUFFICES ASSUME SessionInv, NEW t \in Tabs
               PROVE  /\ tab[t].boot # "no" => \E m \in net : m.tab = t /\ m.kind = tab[t].boot
                      /\ \A c \in Calls :
                           /\ tab[t].calls[c] = "wait"
                                => \E m \in net : m.tab = t /\ m.kind = "refresh"
                           /\ tab[t].calls[c] \in {"run", "again"}
                                => \E m \in net : m.tab = t /\ m.by = c
                      /\ Shows(t) = "loading" => tab[t].boot # "no" \/ MayRedirect(t)
    BY DEF NeverStranded
  <2>1. Attended(net, t, tab[t]) /\ tab[t] \in Tab
    BY TabTypes DEF SessionInv, TabOK
  <2>2. tab[t].status = "unknown" => tab[t].boot # "no"
    BY <2>1 DEF Attended
  <2>3. Shows(t) = "loading" => tab[t].status = "unknown" \/ MayRedirect(t)
    <3>1. CASE tab[t].page = "home"
      BY <3>1 DEF Shows
    <3>2. CASE tab[t].page = "own"
      BY <2>1, <3>2 DEF Shows, MayRedirect, Tab, Statuses
    <3>3. CASE tab[t].page \in {"login", "oauth"}
      BY <2>1, <3>3 DEF Shows, MayRedirect, Tab, Statuses
    <3>4. QED
      BY <2>1, <3>1, <3>2, <3>3 DEF Tab, Pages
  <2>4. QED
    BY <2>1, <2>2, <2>3 DEF Attended, Has, Calling
<1>2. QED
  BY <1>1, Invariant, PTL

(* An answer that is all a step takes off the way is the one the step handles. *)
LEMMA HandledAlone ==
  ASSUME NetInv(net), NEW t, NEW m \in net, m.tab = t, m.kind # "call", net' = net \ {m}
  PROVE  m \in Handled(t)
<1> SUFFICES ASSUME NEW n \in net \ {m}, [n EXCEPT !.crossed = m.crossed] = m
             PROVE  FALSE
  BY DEF Handled
<1>1. n \in Request /\ m \in Request /\ Alone(net)
  BY DEF NetInv, Formed
<1>2. n.kind = m.kind
  BY <1>1 DEF Request
<1>3. n.crossed
  BY <1>2, RemoveInv
<1>4. n.crossed # m.crossed
  <2>1. [n EXCEPT !.crossed = n.crossed] = n
    BY <1>1 DEF Request
  <2>2. QED
    BY <2>1
<1>5. ~m.crossed
  BY <1>1, <1>3, <1>4 DEF Request
<1>6. QED
  BY <1>1, <1>2, <1>5 DEF Alone

LEMMA OverShape ==
  ASSUME NEW x \in Tab
  PROVE  /\ RefreshDenied(x).status = "unauthenticated"
         /\ RefreshFailed(x).status \in {x.status, "error"}
<1> DEFINE r == Released(x, "no")
           e == [r EXCEPT !.status = "error"]
<1>1. r \in Tab /\ r.status = x.status
  BY ReleasedShape
<1> HIDE DEF r
<1>2. TabOK(Clear(r)) /\ Clear(r).status = "unauthenticated"
  BY <1>1, ClearShape
<1>3. TabOK(e) /\ e.status = "error"
  BY <1>1 DEF TabOK, Tab, Statuses
<1> HIDE DEF e
<1>4. Booted(Clear(r)).status = "unauthenticated" /\ Booted(e).status = "error"
  BY <1>2, <1>3, BootedShape
<1>5. RefreshDenied(x) \in {Booted(Clear(r)), Clear(r)} /\ RefreshFailed(x) \in {Booted(e), r}
  BY DEF RefreshDenied, RefreshFailed, r, e
<1>6. QED
  BY <1>1, <1>2, <1>4, <1>5

(* What a tab makes of an answer that crossed nothing is right. *)
LEMMA AnswersTrue ==
  ASSUME SessionInv, NEW t \in Tabs, NEW kind \in Kinds, Receive(t, kind), NEW z \in Tabs,
         tab'[z].status # tab[z].status,
         \/ tab'[z].status = "unauthenticated" /\ JarLive'
         \/ tab'[z].status = "authenticated" /\ ~JarLive'
  PROVE  \E m \in Handled(z) : m.crossed \/ (m.kind = "logout" /\ m.answer = "error")
<1>1. PICK m \in net :
        /\ m.tab = t /\ m.kind = kind /\ (m.answer = "none" => kind \in {"me", "call"})
        /\ \/ kind = "refresh" /\ OnRefresh(t, m)
           \/ kind = "me" /\ OnMe(t, m)
           \/ kind = "login" /\ OnLogin(t, m)
           \/ kind = "logout" /\ OnLogout(t, m)
           \/ kind = "call" /\ OnCall(t, m)
  BY DEF Receive
<1>2. /\ TypeOK /\ NetInv(net) /\ Formed(m) /\ Truth(m) /\ m \in Request
      /\ tab[t] \in Tab /\ TabOK(tab[t])
  BY TabTypes DEF SessionInv, NetInv, Formed, TabOK
<1>3. UNCHANGED <<deleted, server>> /\ (jar' = jar => (JarLive' <=> JarLive))
  BY DEF Receive, server, JarLive
<1>4. kind # "call"
  BY <1>1, <1>3, OnCallStep
<1>5. z = t
  <2>1. \E y : tab' = [tab EXCEPT ![t] = y] \/ tab' = tab
    BY <1>1, <1>4, <1>2 DEF OnRefresh, OnMe, OnLogin, OnLogout, TypeOK
  <2>2. QED
    BY <1>2, <2>1 DEF TypeOK
<1>6. CASE kind = "refresh"
  <2>1. m.answer \in {"ok", "denied", "error"} /\ OnRefresh(t, m)
    BY <1>1, <1>2, <1>6 DEF Request
  <2>2. m.answer # "ok"
    <3> SUFFICES ASSUME m.answer = "ok"
                 PROVE  FALSE
      OBVIOUS
    <3>1. tab' = [tab EXCEPT ![t] = RefreshGranted(tab[t], m.user)] /\ m.user \in Users
      BY <1>1, <1>2, <1>6, <2>1 DEF OnRefresh, Formed
    <3>2. RefreshGranted(tab[t], m.user).status = tab[t].status
      BY <1>2, <3>1, RefreshGrantedShape
    <3>3. QED
      BY <1>2, <1>5, <3>1, <3>2 DEF TypeOK
  <2>3. m.answer # "error"
    <3> SUFFICES ASSUME m.answer = "error"
                 PROVE  FALSE
      OBVIOUS
    <3>1. tab' = [tab EXCEPT ![t] = RefreshFailed(tab[t])]
      BY <2>1 DEF OnRefresh
    <3>2. RefreshFailed(tab[t]).status \in {tab[t].status, "error"}
      BY <1>2, OverShape
    <3>3. QED
      BY <1>2, <1>5, <3>1, <3>2 DEF TypeOK
  <2>4. m.answer = "denied" /\ tab' = [tab EXCEPT ![t] = RefreshDenied(tab[t])]
        /\ net' = net \ {m} /\ jar' = jar
    BY <2>1, <2>2, <2>3 DEF OnRefresh
  <2>5. tab'[z].status = "unauthenticated"
    BY <1>2, <1>5, <2>4, OverShape DEF TypeOK
  <2>6. m.crossed
    BY <1>1, <1>2, <1>3, <1>6, <2>4, <2>5 DEF Truth
  <2>7. QED
    BY <1>1, <1>2, <1>5, <1>6, <2>4, <2>6, HandledAlone
<1>7. CASE kind = "me"
  <2>1. OnMe(t, m) /\ net' = net \ {m} /\ jar' = jar
    BY <1>1, <1>7 DEF OnMe
  <2> DEFINE y == AfterMe(m, tab[t])
  <2>2. MeAnswer(m) \in {"ok", "denied", "error"}
    BY DEF MeAnswer
  <2>3. tab' = [tab EXCEPT ![t] = Booted(y)]
    BY <2>1, <2>2 DEF OnMe, AfterMe
  <2>4. /\ MeAnswer(m) = "ok" => y.status = "authenticated"
        /\ MeAnswer(m) = "denied" => y.status = "unauthenticated"
        /\ MeAnswer(m) = "error" => y.status = "error"
        /\ TabOK(y)
    BY <1>1, <1>2, <1>7, <2>2, AfterMeShape
  <2> HIDE DEF y
  <2>5. tab'[z].status = y.status
    <3>1. Booted(y).status = y.status
      BY <2>4, BootedShape
    <3>2. QED
      BY <1>2, <1>5, <2>3, <3>1 DEF TypeOK
  <2>6. ~m.crossed => JarLive' /\ MeAnswer(m) # "denied"
    <3>1. m.answer \in {"none", "error"}
      BY <1>1, <1>2, <1>7 DEF Formed
    <3>2. QED
      BY <1>1, <1>2, <1>3, <1>7, <2>1, <3>1 DEF Truth, MeAnswer
  <2>7. m.crossed
    BY <2>2, <2>4, <2>5, <2>6
  <2>8. QED
    BY <1>1, <1>2, <1>5, <1>7, <2>1, <2>7, HandledAlone
<1>8. CASE kind = "login"
  <2>1. OnLogin(t, m) /\ net' = net \ {m}
    BY <1>1, <1>8 DEF OnLogin
  <2>2. m.answer = "ok"
    <3>1. m.answer # "ok" => tab' = tab
      BY <2>1 DEF OnLogin
    <3>2. QED
      BY <3>1
  <2>3. tab'[z].status = "authenticated" /\ jar' = m.sets
    BY <1>2, <1>5, <2>1, <2>2 DEF OnLogin, TypeOK, Tab
  <2>4. ~m.crossed => JarLive'
    <3>1. m.sets # None
      BY <1>1, <1>2, <1>8, <2>2, NoneIsAbsent DEF Formed
    <3>2. ~m.crossed => \E s \in Sessions : current[s] = m.sets
      BY <1>1, <1>2, <1>8, <2>2 DEF Truth, Valid
    <3>3. QED
      BY <1>3, <2>3, <3>1, <3>2 DEF JarLive, server
  <2>5. m.crossed
    BY <2>3, <2>4
  <2>6. QED
    BY <1>1, <1>2, <1>5, <1>8, <2>1, <2>5, HandledAlone
<1>9. CASE kind = "logout"
  <2>1. OnLogout(t, m) /\ net' = net \ {m}
    BY <1>1, <1>9 DEF OnLogout
  <2>2. m.answer \in {"ok", "error"}
    BY <1>1, <1>2, <1>9 DEF Formed, Request
  <2>3. tab'[z].status = "unauthenticated"
    <3>1. PICK page : tab' = [tab EXCEPT ![t] = [Clear(tab[t]) EXCEPT !.page = page]]
      BY <2>1 DEF OnLogout
    <3>2. Clear(tab[t]) \in Tab /\ Clear(tab[t]).status = "unauthenticated"
      BY <1>2, ClearShape DEF TabOK
    <3>3. [Clear(tab[t]) EXCEPT !.page = page].status = "unauthenticated"
      BY <3>2 DEF Tab
    <3>4. QED
      BY <1>2, <1>5, <3>1, <3>3 DEF TypeOK
  <2>4. m.answer = "error"
    <3>1. m.answer = "ok" => ~JarLive'
      BY <2>1 DEF OnLogout, JarLive
    <3>2. QED
      BY <2>2, <2>3, <3>1
  <2>5. QED
    BY <1>1, <1>2, <1>5, <1>9, <2>1, <2>4, HandledAlone
<1>10. QED
  BY <1>4, <1>6, <1>7, <1>8, <1>9 DEF Kinds

(* Any other step leaves a tab its status, or makes it unknown. *)
LEMMA OnlyAnswersTurn ==
  ASSUME TypeOK, [Next]_vars, ~\E t \in Tabs, kind \in Kinds : Receive(t, kind), NEW z \in Tabs
  PROVE  tab'[z].status = tab[z].status \/ tab'[z].status = "unknown"
<1> DEFINE Turned(x, y) == y.status = x.status \/ y.status = "unknown"
<1>1. \A t \in Tabs : tab[t] \in Tab
  BY DEF TypeOK
<1>2. CASE UNCHANGED tab
  BY <1>2
<1>3. ASSUME NEW t \in Tabs, NEW y, tab' = [tab EXCEPT ![t] = y], Turned(tab[t], y)
      PROVE  Turned(tab[z], tab'[z])
  BY <1>3 DEF TypeOK
<1>4. \A page : Loaded(page).status = "unknown"
  BY DEF Loaded
<1>5. ASSUME NEW t \in Tabs, Retry(t) \/ OAuthEffect(t)
      PROVE  Turned(tab[z], tab'[z])
  BY <1>1, <1>5 DEF Retry, Bootstrap, OAuthEffect, TypeOK, Tab
<1>6. ASSUME NEW t \in Tabs, NEW c \in Calls, Call(t, c)
      PROVE  Turned(tab[z], tab'[z])
  BY <1>1, <1>6 DEF Call, TypeOK, Tab
<1>7. /\ \A t \in Tabs : Redirect(t) => Turned(tab[z], tab'[z])
      /\ \A t \in Tabs, page \in Pages : Navigate(t, page) => Turned(tab[z], tab'[z])
  BY <1>1 DEF Redirect, Navigate, TypeOK, Tab
<1>8. /\ \A t \in Tabs : Reload(t) => Turned(tab[z], tab'[z])
      /\ \A t \in Tabs, u \in Users : GoogleReturn(t, u) => Turned(tab[z], tab'[z])
  BY <1>3, <1>4 DEF Reload, GoogleReturn
<1>9. ASSUME NEW t \in Tabs, Login(t) \/ Logout(t)
      PROVE  UNCHANGED tab
  BY <1>9 DEF Login, Logout
<1>10. ASSUME NEW u \in Users, EndElsewhere(u) \/ Delete(u)
       PROVE  UNCHANGED tab
  BY <1>10 DEF EndElsewhere, Delete
<1>11. ASSUME NEW t \in Tabs \cup {None}, NEW kind \in Kinds, Serve(t, kind) \/ Fail(t, kind)
       PROVE  UNCHANGED tab
  BY <1>11 DEF Serve, Fail
<1>12. UNCHANGED vars => UNCHANGED tab
  BY DEF vars
<1> HIDE DEF Turned
<1>13. UNCHANGED tab \/ Turned(tab[z], tab'[z])
  BY <1>5, <1>6, <1>7, <1>8, <1>9, <1>10, <1>11, <1>12 DEF Next
<1>14. QED
  BY <1>2, <1>13 DEF Turned

(* AuthProvider: a tab turns to signed out with a good cookie in the browser, or to signed
   in without one, only on an answer that crossed another request or an end from outside,
   or when its own logout request failed. *)
THEOREM WrongNeedsCrossing == Spec => WrongOnlyIfCrossed
<1> DEFINE Right == \A t \in Tabs :
             LET turnsTo(status) == tab[t].status # status /\ tab'[t].status = status IN
             (turnsTo("unauthenticated") /\ JarLive') \/ (turnsTo("authenticated") /\ ~JarLive')
               => \E m \in Handled(t) : m.crossed \/ (m.kind = "logout" /\ m.answer = "error")
<1>1. SessionInv /\ [Next]_vars => Right
  <2> SUFFICES ASSUME SessionInv, [Next]_vars, NEW z \in Tabs,
                      tab'[z].status # tab[z].status,
                      \/ tab'[z].status = "unauthenticated" /\ JarLive'
                      \/ tab'[z].status = "authenticated" /\ ~JarLive'
               PROVE  \E m \in Handled(z) :
                        m.crossed \/ (m.kind = "logout" /\ m.answer = "error")
    OBVIOUS
  <2>1. \E t \in Tabs, kind \in Kinds : Receive(t, kind)
    BY OnlyAnswersTurn DEF SessionInv
  <2>2. QED
    BY <2>1, AnswersTrue
<1>2. [][Right]_vars => WrongOnlyIfCrossed
  BY PTL DEF WrongOnlyIfCrossed
<1>3. QED
  BY <1>1, <1>2, Invariant, PTL DEF Spec
=============================================================================
