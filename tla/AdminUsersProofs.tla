-------------------------- MODULE AdminUsersProofs --------------------------
(***************************************************************************)
(* Theorems about AdminUsers, for every number of users and requests, and  *)
(* any number of crashes.                                                  *)
(***************************************************************************)
EXTENDS AdminUsers, TLAPS

(* The requests whose actor's rights were seen are in able; so are those at the guard  *)
(* whose actor is administrator now.                                                   *)
AbleInv ==
  \A p \in Requests :
    /\ req[p].at \in {"begin", "commit"} => p \in able
    /\ req[p].at = "guard" /\ role[req[p].actor] = "admin" => p \in able

(* A start promotes only an account that is verified. *)
PromotingInv == api = "promoting" => verified

(* What the dashboard counted so far of a user that has not changed since, and at most *)
(* once per statement of any user.                                                     *)
Counted(at, r) ==
  CASE at = "user"   -> 0
    [] at = "editor" -> IF r = "user" THEN 1 ELSE 0
    [] at = "admin"  -> IF r \in {"user", "editor"} THEN 1 ELSE 0
    [] at = "done"   -> IF r \in Roles THEN 1 ELSE 0

AtMost(at) == CASE at = "user" -> 0 [] at = "editor" -> 1 [] at = "admin" -> 2 [] at = "done" -> 3

BoardInv ==
  board # Closed =>
    /\ board \in Board
    /\ board.times <= AtMost(board.at)
    /\ ~board.changed => board.times = Counted(board.at, role[board.who])

IInv == TypeOK /\ AbleInv /\ PromotingInv /\ BoardInv

(* A request's stage says which of the records it is. *)
LEMMA RequestShape ==
  ASSUME TypeOK, NEW p \in Requests
  PROVE  /\ req[p].at = "guard" => req[p] \in Arrived
         /\ req[p].at = "begin" => req[p] \in Passed
         /\ req[p].at = "commit" => req[p] \in Deciding
         /\ req[p].at = "idle" => req[p] = Idle
         /\ req[p].at \in {"idle", "guard", "begin", "commit"}
BY DEF TypeOK, Arrived, Passed, Deciding, Idle

(* The board is closed or has all its fields. *)
LEMMA BoardShape ==
  ASSUME TypeOK
  PROVE  /\ board.at = "closed" => board = Closed
         /\ board.at # "closed" => board \in Board /\ board # Closed
BY DEF TypeOK, Board, Closed

(* A change of a row keeps the types, the roles of the others, and what the board knows. *)
LEMMA SetRoleKeeps ==
  ASSUME IInv, NEW u \in Users, NEW r \in Roles \cup {"deleted"}, SetRole(u, r)
  PROVE  /\ role' \in [Users -> Roles \cup {"unborn", "deleted"}]
         /\ role'[u] = r
         /\ \A v \in Users : v # u => role'[v] = role[v]
         /\ board' \in {Closed} \cup Board
         /\ BoardInv'
<1>1. /\ role' \in [Users -> Roles \cup {"unborn", "deleted"}]
      /\ role'[u] = r
      /\ \A v \in Users : v # u => role'[v] = role[v]
  BY DEF IInv, TypeOK, SetRole
<1>2. CASE board = Closed
  BY <1>1, <1>2 DEF SetRole, BoardInv
<1>3. CASE board # Closed /\ board.who # u
  <2>1. board \in Board /\ board' = board /\ board.who \in Users
    BY <1>3 DEF IInv, TypeOK, SetRole, Board
  <2>2. role'[board.who] = role[board.who]
    BY <1>1, <1>3, <2>1
  <2>3. QED
    BY <1>1, <1>3, <2>1, <2>2 DEF IInv, BoardInv
<1>4. CASE board # Closed /\ board.who = u
  <2>1. board \in Board /\ board.times <= AtMost(board.at)
    BY <1>4 DEF IInv, BoardInv
  <2>2. CASE board.at = "done"
    BY <1>1, <1>4, <2>2 DEF SetRole, BoardInv
  <2>3. CASE board.at # "done"
    <3>1. board' = [board EXCEPT !.changed = TRUE]
      BY <1>4, <2>3 DEF SetRole
    <3>2. /\ board' \in Board /\ board'.changed
          /\ board'.at = board.at /\ board'.times = board.times
      BY <2>1, <3>1 DEF Board
    <3>3. QED
      BY <1>1, <2>1, <3>2 DEF BoardInv
  <2>4. QED
    BY <2>2, <2>3
<1>5. QED
  BY <1>1, <1>2, <1>3, <1>4

(* A promotion gives its account's requests what they need. *)
LEMMA EnabledKeeps ==
  ASSUME IInv, NEW u \in Users, NEW r \in Roles \cup {"deleted"}, SetRole(u, r),
         able' = Enabled(u, r), req' = req
  PROVE  able' \subseteq Requests /\ AbleInv'
<1>1. able \subseteq able' /\ able' \subseteq Requests
  BY DEF IInv, TypeOK, Enabled
<1>2. ASSUME NEW p \in Requests, req[p].at = "guard", role'[req[p].actor] = "admin"
      PROVE  p \in able'
  <2>1. req[p].actor \in Users
    BY <1>2, RequestShape DEF IInv, Arrived
  <2>2. CASE req[p].actor = u
    <3>1. r = "admin"
      BY <1>2, <2>2, SetRoleKeeps
    <3>2. QED
      BY <1>2, <2>2, <3>1 DEF Enabled
  <2>3. CASE req[p].actor # u
    <3>1. role[req[p].actor] = "admin"
      BY <1>2, <2>1, <2>3, SetRoleKeeps
    <3>2. QED
      BY <1>1, <1>2, <3>1 DEF IInv, AbleInv
  <2>4. QED
    BY <2>2, <2>3
<1>3. ASSUME NEW p \in Requests, req[p].at \in {"begin", "commit"}
      PROVE  p \in able'
  BY <1>1, <1>3 DEF IInv, AbleInv
<1>4. QED
  BY <1>1, <1>2, <1>3 DEF AbleInv

(* A request that ends leaves the others as they are. *)
LEMMA EndKeeps ==
  ASSUME IInv, NEW p \in Requests, End(p), role' = role
  PROVE  /\ req' \in [Requests -> {Idle} \cup Arrived \cup Passed \cup Deciding]
         /\ able' \subseteq Requests
         /\ AbleInv'
<1>1. /\ req' \in [Requests -> {Idle} \cup Arrived \cup Passed \cup Deciding]
      /\ req'[p] = Idle
      /\ \A q \in Requests : q # p => req'[q] = req[q]
  BY DEF IInv, TypeOK, End, Become
<1>2. able' = able \ {p} /\ able' \subseteq Requests
  BY DEF IInv, TypeOK, End
<1>3. ASSUME NEW q \in Requests
      PROVE  /\ req'[q].at \in {"begin", "commit"} => q \in able'
             /\ req'[q].at = "guard" /\ role'[req'[q].actor] = "admin" => q \in able'
  <2>1. CASE q = p
    BY <1>1, <2>1 DEF Idle
  <2>2. CASE q # p
    BY <1>1, <1>2, <2>2 DEF IInv, AbleInv
  <2>3. QED
    BY <2>1, <2>2
<1>4. QED
  BY <1>1, <1>2, <1>3 DEF AbleInv

(* Everything but the request's own stage is kept when it goes on to a later stage. *)
LEMMA BecomeKeeps ==
  ASSUME IInv, NEW p \in Requests, NEW work \in Passed \cup Deciding, p \in able,
         Become(p, work), able' = able, role' = role
  PROVE  /\ req' \in [Requests -> {Idle} \cup Arrived \cup Passed \cup Deciding]
         /\ AbleInv'
<1>1. /\ req' \in [Requests -> {Idle} \cup Arrived \cup Passed \cup Deciding]
      /\ req'[p] = work
      /\ \A q \in Requests : q # p => req'[q] = req[q]
  BY DEF IInv, TypeOK, Become
<1>2. req'[p].at \in {"begin", "commit"}
  BY <1>1 DEF Passed, Deciding
<1>3. ASSUME NEW q \in Requests
      PROVE  /\ req'[q].at \in {"begin", "commit"} => q \in able'
             /\ req'[q].at = "guard" /\ role'[req'[q].actor] = "admin" => q \in able'
  <2>1. CASE q = p
    BY <1>2, <2>1
  <2>2. CASE q # p
    BY <1>1, <2>2 DEF IInv, AbleInv
  <2>3. QED
    BY <2>1, <2>2
<1>4. QED
  BY <1>1, <1>3 DEF AbleInv

LEMMA InvInit == Init => IInv
<1> SUFFICES ASSUME Init PROVE IInv
  OBVIOUS
<1>1. TypeOK
  <2>1. /\ role \in [Users -> Roles \cup {"unborn", "deleted"}]
        /\ req \in [Requests -> {Idle} \cup Arrived \cup Passed \cup Deciding]
    BY DEF Init
  <2>2. crashes \in 0..MaxCrashes
    BY CrashesBounded DEF Init
  <2>3. verified \in BOOLEAN /\ api \in {"starting", "promoting", "up", "exited"}
    BY DEF Init
  <2>4. board \in {Closed} \cup Board /\ able \subseteq Requests
    BY DEF Init
  <2>5. QED
    BY <2>1, <2>2, <2>3, <2>4 DEF TypeOK
<1>2. AbleInv
  BY DEF Init, AbleInv, Idle
<1>3. PromotingInv /\ BoardInv
  BY DEF Init, PromotingInv, BoardInv
<1>4. QED
  BY <1>1, <1>2, <1>3 DEF IInv

LEMMA InvNext == IInv /\ [Next]_vars => IInv'
<1> SUFFICES ASSUME IInv, [Next]_vars PROVE IInv'
  OBVIOUS
<1> DEFINE BoardKept == board' = board /\ role' = role
<1>0. BoardKept => board' \in {Closed} \cup Board /\ BoardInv'
  BY DEF IInv, TypeOK, BoardInv
<1>a. UNCHANGED <<role, req, able>> => AbleInv'
  BY DEF IInv, AbleInv
<1>1. CASE StartUp
  <2>1. TypeOK'
    BY <1>1 DEF StartUp, IInv, TypeOK
  <2>2. PromotingInv'
    BY <1>1 DEF StartUp, Promotable, PromotingInv
  <2>3. QED
    BY <1>0, <1>a, <1>1, <2>1, <2>2 DEF StartUp, IInv
<1>2. CASE Promote
  <2>1. /\ SetRole(Configured, "admin") /\ able' = Enabled(Configured, "admin")
        /\ UNCHANGED <<verified, req, crashes>> /\ api' = "up"
        /\ Configured \in Users /\ "admin" \in Roles \cup {"deleted"}
    BY <1>2, ConfiguredIsUser DEF Promote, Roles
  <2>2. able' \subseteq Requests /\ AbleInv'
    BY <2>1, EnabledKeeps
  <2>3. /\ role' \in [Users -> Roles \cup {"unborn", "deleted"}]
        /\ board' \in {Closed} \cup Board /\ BoardInv'
    BY <2>1, SetRoleKeeps
  <2>4. QED
    BY <2>1, <2>2, <2>3 DEF IInv, TypeOK, PromotingInv
<1>3. CASE FailPromotion
  BY <1>0, <1>a, <1>3 DEF FailPromotion, IInv, TypeOK, PromotingInv
<1>4. CASE Crash
  <2>1. /\ req' \in [Requests -> {Idle} \cup Arrived \cup Passed \cup Deciding]
        /\ \A p \in Requests :
             req'[p] = IF req[p].at = "commit" THEN req[p] ELSE Idle
    BY <1>4 DEF Crash, IInv, TypeOK
  <2>2. able' \subseteq Requests
    BY <1>4 DEF Crash, IInv, TypeOK
  <2>3. AbleInv'
    BY <1>4, <2>1 DEF Crash, IInv, AbleInv, Idle
  <2>4. crashes' \in 0..MaxCrashes
    BY <1>4, CrashesBounded DEF Crash, IInv, TypeOK
  <2>5. QED
    BY <1>4, <2>1, <2>2, <2>3, <2>4 DEF Crash, IInv, TypeOK, PromotingInv, BoardInv
<1>5. CASE Restart
  BY <1>0, <1>a, <1>5 DEF Restart, IInv, TypeOK, PromotingInv
<1>6. ASSUME NEW u \in Users, Register(u) PROVE IInv'
  <2>1. /\ SetRole(u, "user") /\ UNCHANGED <<verified, api, req, crashes, able>>
        /\ "user" \in Roles \cup {"deleted"}
    BY <1>6 DEF Register, Roles
  <2>2. able' = Enabled(u, "user")
    BY <2>1 DEF Enabled
  <2>3. able' \subseteq Requests /\ AbleInv'
    BY <2>1, <2>2, EnabledKeeps
  <2>4. /\ role' \in [Users -> Roles \cup {"unborn", "deleted"}]
        /\ board' \in {Closed} \cup Board /\ BoardInv'
    BY <2>1, SetRoleKeeps
  <2>5. QED
    BY <2>1, <2>3, <2>4 DEF IInv, TypeOK, PromotingInv
<1>7. ASSUME NEW u \in Users, OpenBoard(u) PROVE IInv'
  <2>1. board' \in Board /\ BoardInv'
    BY <1>7 DEF OpenBoard, Board, BoardInv, Counted, AtMost
  <2>2. QED
    BY <1>a, <1>7, <2>1 DEF OpenBoard, IInv, TypeOK, PromotingInv
<1>8. CASE Verify
  BY <1>0, <1>a, <1>8 DEF Verify, IInv, TypeOK, PromotingInv
<1>9. CASE CountRole
  <2>1. board \in Board /\ board # Closed
    BY <1>9, BoardShape DEF CountRole, IInv, Roles
  <2>2. /\ board.times \in 0..3 /\ board.times <= AtMost(board.at)
        /\ ~board.changed => board.times = Counted(board.at, role[board.who])
    BY <2>1 DEF IInv, BoardInv, Board
  <2>3. /\ board'.at = Follows(board.at) /\ board'.who = board.who
        /\ board'.changed = board.changed
        /\ board'.times = IF role[board.who] = board.at THEN board.times + 1 ELSE board.times
        /\ board' = [at |-> board'.at, who |-> board.who, times |-> board'.times,
                     changed |-> board.changed]
    BY <1>9, <2>1 DEF CountRole, Counts, Board
  <2>4. board.at \in {"user", "editor", "admin"}
    BY <1>9 DEF CountRole, Roles
  <2>5. /\ board'.times <= AtMost(board'.at) /\ board'.times \in 0..3
        /\ board'.at \in {"editor", "admin", "done"}
    BY <2>2, <2>3, <2>4 DEF Follows, AtMost
  <2>6. ~board'.changed => board'.times = Counted(board'.at, role[board.who])
    BY <2>2, <2>3, <2>4 DEF Follows, Counted, Roles
  <2>7. board' \in Board
    BY <2>1, <2>3, <2>5 DEF Board
  <2>8. BoardInv'
    BY <1>9, <2>3, <2>5, <2>6, <2>7 DEF BoardInv, CountRole
  <2>9. QED
    BY <1>a, <1>9, <2>7, <2>8 DEF CountRole, IInv, TypeOK, PromotingInv
<1>10. ASSUME NEW p \in Requests, NEW u \in Users, NEW target \in Users, NEW to \in Asked,
              Arrive(p, u, target, to)
       PROVE  IInv'
  <2> DEFINE work == [at |-> "guard", actor |-> u, target |-> target, to |-> to]
  <2>1. work \in Arrived
    BY DEF Arrived
  <2>2. /\ req' \in [Requests -> {Idle} \cup Arrived \cup Passed \cup Deciding]
        /\ req'[p] = work
        /\ \A q \in Requests : q # p => req'[q] = req[q]
    BY <1>10, <2>1 DEF Arrive, Become, IInv, TypeOK
  <2>3. /\ able \subseteq able' /\ able' \subseteq Requests
        /\ role[u] = "admin" => p \in able'
    BY <1>10 DEF Arrive, IInv, TypeOK
  <2>4. AbleInv'
    BY <1>10, <2>2, <2>3 DEF Arrive, IInv, AbleInv
  <2>5. QED
    BY <1>0, <1>10, <2>2, <2>3, <2>4 DEF Arrive, IInv, TypeOK, PromotingInv
<1>11. ASSUME NEW p \in Requests, Guard(p) PROVE IInv'
  <2>1. CASE Allowed(p) /\ req[p].target # req[p].actor
    <3>1. p \in able
      BY <1>11, <2>1 DEF Guard, Allowed, IInv, AbleInv
    <3>2. [at |-> "begin", target |-> req[p].target, to |-> req[p].to] \in Passed
      BY <1>11, RequestShape DEF Guard, IInv, Arrived, Passed
    <3>3. /\ req' \in [Requests -> {Idle} \cup Arrived \cup Passed \cup Deciding]
          /\ AbleInv'
      BY <1>11, <2>1, <3>1, <3>2, BecomeKeeps DEF Guard
    <3>4. QED
      BY <1>0, <1>11, <2>1, <3>3 DEF Guard, IInv, TypeOK, PromotingInv
  <2>2. CASE ~(Allowed(p) /\ req[p].target # req[p].actor)
    <3>1. End(p) /\ role' = role
      BY <1>11, <2>2 DEF Guard
    <3>2. QED
      BY <1>0, <1>11, <3>1, EndKeeps DEF Guard, IInv, TypeOK, PromotingInv
  <2>3. QED
    BY <2>1, <2>2
<1>12. ASSUME NEW p \in Requests, Read(p) PROVE IInv'
  <2>1. CASE End(p)
    BY <1>0, <1>12, <2>1, EndKeeps DEF Read, IInv, TypeOK, PromotingInv
  <2>2. CASE ~End(p)
    <3> DEFINE work == [at |-> "commit", target |-> req[p].target, to |-> req[p].to,
                        role |-> role[req[p].target]]
    <3>1. Become(p, work) /\ able' = able /\ Exists(req[p].target)
      BY <1>12, <2>2 DEF Read, Missing
    <3>2. p \in able /\ req[p] \in Passed
      BY <1>12, RequestShape DEF Read, IInv, AbleInv
    <3>3. work \in Deciding
      BY <3>1, <3>2 DEF Exists, Passed, Deciding
    <3> HIDE DEF work
    <3>4. /\ req' \in [Requests -> {Idle} \cup Arrived \cup Passed \cup Deciding]
          /\ AbleInv'
      BY <1>12, <3>1, <3>2, <3>3, BecomeKeeps DEF Read
    <3>5. QED
      BY <1>0, <1>12, <3>1, <3>4 DEF Read, IInv, TypeOK, PromotingInv
  <2>3. QED
    BY <2>1, <2>2
<1>13. ASSUME NEW p \in Requests, Commit(p) PROVE IInv'
  <2> DEFINE u == req[p].target
             r == req[p].to
  <2>1. u \in Users /\ r \in Roles \cup {"deleted"} /\ SetRole(u, r)
    BY <1>13, RequestShape, AskedIsChange DEF Commit, IInv, Deciding, Roles
  <2>2. /\ role' \in [Users -> Roles \cup {"unborn", "deleted"}]
        /\ board' \in {Closed} \cup Board /\ BoardInv'
        /\ \A v \in Users : v # u => role'[v] = role[v]
        /\ role'[u] = r
    BY <2>1, SetRoleKeeps
  <2>3. /\ req' \in [Requests -> {Idle} \cup Arrived \cup Passed \cup Deciding]
        /\ req'[p] = Idle
        /\ \A q \in Requests : q # p => req'[q] = req[q]
    BY <1>13 DEF Commit, Become, IInv, TypeOK
  <2>4. able' = Enabled(u, r) \ {p} /\ able' \subseteq Requests
    BY <1>13 DEF Commit, Enabled, IInv, TypeOK
  <2> HIDE DEF u, r
  <2>5. ASSUME NEW q \in Requests, q # p
        PROVE  /\ req'[q].at \in {"begin", "commit"} => q \in able'
               /\ req'[q].at = "guard" /\ role'[req'[q].actor] = "admin" => q \in able'
    <3>1. req'[q] = req[q]
      BY <2>3, <2>5
    <3>2. able \ {p} \subseteq able'
      BY <2>4 DEF Enabled
    <3>3. req[q].at \in {"begin", "commit"} => q \in able'
      BY <2>5, <3>2 DEF IInv, AbleInv
    <3>4. ASSUME req[q].at = "guard", role'[req[q].actor] = "admin" PROVE q \in able'
      <4>1. req[q].actor \in Users
        BY <3>4, RequestShape DEF IInv, Arrived
      <4>2. CASE req[q].actor = u
        BY <2>2, <2>4, <2>5, <3>4, <4>2 DEF Enabled
      <4>3. CASE req[q].actor # u
        BY <2>2, <2>5, <3>2, <3>4, <4>1, <4>3 DEF IInv, AbleInv
      <4>4. QED
        BY <4>2, <4>3
    <3>5. QED
      BY <3>1, <3>3, <3>4
  <2>6. AbleInv'
    BY <2>3, <2>5 DEF AbleInv, Idle
  <2>7. QED
    BY <1>13, <2>2, <2>3, <2>4, <2>6 DEF Commit, IInv, TypeOK, PromotingInv
<1>14. ASSUME NEW p \in Requests, Fail(p) PROVE IInv'
  BY <1>0, <1>14, EndKeeps DEF Fail, IInv, TypeOK, PromotingInv
<1>15. CASE UNCHANGED vars
  BY <1>0, <1>a, <1>15 DEF vars, IInv, TypeOK, PromotingInv
<1>16. QED
  BY <1>1, <1>2, <1>3, <1>4, <1>5, <1>6, <1>7, <1>8, <1>9, <1>10, <1>11, <1>12, <1>13,
     <1>14, <1>15 DEF Next

LEMMA Invariance == Spec => []IInv
BY InvInit, InvNext, PTL DEF Spec

(* Every reachable state is well typed. *)
THEOREM TypeCorrect == Spec => []TypeOK
<1>1. IInv => TypeOK
  BY DEF IInv
<1>2. QED
  BY <1>1, Invariance, PTL

(* A dashboard that nobody disturbed counts its user once, and not at all if it is gone. *)
THEOREM DashboardCounts == Spec => []OthersCountedOnce
<1>1. IInv => OthersCountedOnce
  <2> SUFFICES ASSUME IInv, board.at = "done", ~board.changed
               PROVE  board.times = IF Exists(board.who) THEN 1 ELSE 0
    BY DEF OthersCountedOnce
  <2>1. board # Closed
    BY DEF Closed
  <2>2. QED
    BY <2>1 DEF IInv, BoardInv, Counted, Exists
<1>2. QED
  BY <1>1, Invariance, PTL

(* The three ways a row comes to a role. *)
LEMMA RoleStep ==
  ASSUME IInv, [Next]_vars, role' # role
  PROVE  \/ Promote
         \/ \E u \in Users : Register(u)
         \/ \E p \in Requests : Commit(p)
BY DEF Next, vars, StartUp, FailPromotion, Crash, Restart, OpenBoard, Verify, CountRole, Arrive,
       Guard, Read, Fail

(* The transaction that ends an administrator saw another one, and the commit is as if it *)
(* had run alone.                                                                         *)
THEOREM LastAdministratorStays == Spec => AdminRemains
<1>1. IInv /\ [Next]_vars => (Admins # {} => Admins' # {})
  <2> SUFFICES ASSUME IInv, [Next]_vars, NEW a \in Admins PROVE Admins' # {}
    OBVIOUS
  <2>0. a \in Users /\ role[a] = "admin"
    BY DEF Admins
  <2>1. CASE role' = role
    BY <2>0, <2>1 DEF Admins
  <2>2. CASE Promote
    <3>1. Configured \in Users /\ role'[Configured] = "admin"
      BY <2>2, ConfiguredIsUser, SetRoleKeeps DEF Promote, Roles
    <3>2. QED
      BY <3>1 DEF Admins
  <2>3. ASSUME NEW u \in Users, Register(u) PROVE Admins' # {}
    <3>1. u # a /\ SetRole(u, "user") /\ "user" \in Roles \cup {"deleted"}
      BY <2>0, <2>3 DEF Register, Roles
    <3>2. role'[a] = "admin"
      BY <2>0, <3>1, SetRoleKeeps
    <3>3. QED
      BY <2>0, <3>2 DEF Admins
  <2>4. ASSUME NEW p \in Requests, Commit(p) PROVE Admins' # {}
    <3> DEFINE u == req[p].target
    <3>1. /\ u \in Users /\ req[p].to \in Roles \cup {"deleted"} /\ SetRole(u, req[p].to)
          /\ req[p].role = role[u]
      BY <2>4, RequestShape, AskedIsChange DEF Commit, Serializable, IInv, Deciding, Roles
    <3>2. \A v \in Users : v # u => role'[v] = role[v]
      BY <3>1, SetRoleKeeps
    <3>3. PICK b \in Admins : b # u
      <4>1. CASE a # u
        BY <4>1
      <4>2. CASE a = u
        BY <2>0, <2>4, <3>1, <4>2 DEF Commit, Serializable, Spare
      <4>3. QED
        BY <4>1, <4>2
    <3>4. QED
      BY <3>2, <3>3 DEF Admins
  <2>5. QED
    BY <2>1, <2>2, <2>3, <2>4, RoleStep
<1>2. QED
  BY <1>1, Invariance, PTL DEF Spec, AdminRemains

(* A request reaches its commit only through a guard that saw an administrator. *)
THEOREM OnlyAdministratorsChange == Spec => ChangesAreAuthorised
<1> DEFINE Authorised(u) ==
      \/ \E p \in able : req[p].at = "commit" /\ req'[p] = Idle /\ req[p].target = u
      \/ api = "promoting" /\ u = Configured /\ verified /\ role'[u] = "admin"
<1>1. ASSUME IInv, [Next]_vars, NEW u \in Users, Exists(u), role'[u] # role[u]
      PROVE  Authorised(u)
  <2>1. CASE Promote
    <3>1. /\ Configured \in Users /\ SetRole(Configured, "admin")
          /\ "admin" \in Roles \cup {"deleted"}
      BY <2>1, ConfiguredIsUser DEF Promote, Roles
    <3>2. u = Configured /\ role'[u] = "admin"
      BY <1>1, <3>1, SetRoleKeeps
    <3>3. api = "promoting" /\ verified
      BY <1>1, <2>1 DEF Promote, IInv, PromotingInv
    <3>4. QED
      BY <3>2, <3>3
  <2>2. ASSUME NEW v \in Users, Register(v) PROVE Authorised(u)
    <3>1. SetRole(v, "user") /\ "user" \in Roles \cup {"deleted"} /\ role[v] = "unborn"
      BY <2>2 DEF Register, Roles
    <3>2. u # v
      BY <1>1, <3>1 DEF Exists, Roles
    <3>3. QED
      BY <1>1, <3>1, <3>2, SetRoleKeeps
  <2>3. ASSUME NEW p \in Requests, Commit(p) PROVE Authorised(u)
    <3>1. /\ req[p].target \in Users /\ req[p].to \in Roles \cup {"deleted"}
          /\ SetRole(req[p].target, req[p].to)
      BY <1>1, <2>3, RequestShape, AskedIsChange DEF Commit, IInv, Deciding, Roles
    <3>2. req[p].target = u
      BY <1>1, <3>1, SetRoleKeeps
    <3>3. p \in able /\ req[p].at = "commit" /\ req'[p] = Idle
      BY <1>1, <2>3 DEF Commit, Become, IInv, TypeOK, AbleInv
    <3>4. QED
      BY <3>2, <3>3
  <2>4. QED
    BY <1>1, <2>1, <2>2, <2>3, RoleStep
<1>2. IInv /\ [Next]_vars =>
        \A u \in Users : Exists(u) /\ role'[u] # role[u] =>
          \/ \E p \in able : req[p].at = "commit" /\ req'[p] = Idle /\ req[p].target = u
          \/ api = "promoting" /\ u = Configured /\ verified /\ role'[u] = "admin"
  BY <1>1
<1>3. QED
  BY <1>2, Invariance, PTL DEF Spec, ChangesAreAuthorised
=============================================================================
