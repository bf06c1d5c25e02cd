----------------------------- MODULE AdminUsers -----------------------------
(***************************************************************************)
(* User administration: AdminUsersService behind AccessTokenGuard and      *)
(* RolesGuard, and InitialAdminBootstrapService, which promotes one        *)
(* configured account on every start of the API.                           *)
(*                                                                         *)
(* The guard reads the actor's role in a statement of its own; the handler *)
(* then runs one SERIALIZABLE transaction.  The dashboard runs at READ     *)
(* COMMITTED: each of its statements has a snapshot of its own.  One API   *)
(* process runs at a time; a COMMIT it sent before it died may still       *)
(* succeed in the database.                                                *)
(***************************************************************************)
EXTENDS Naturals, FiniteSets

CONSTANTS
  Users,       \* users.id
  Requests,    \* requests the API serves at the same time
  Configured,  \* the account with the address AUTH_INITIAL_ADMIN_EMAIL
  Asked,       \* the changes that requests ask for, "deleted" among them: a bound
  MaxCrashes   \* how often the process dies: a bound

ASSUME ConfiguredIsUser == Configured \in Users
ASSUME AskedIsChange == Asked \subseteq {"user", "editor", "admin", "deleted"}
ASSUME CrashesBounded == MaxCrashes \in Nat

VARIABLES
  role,      \* users.role, or why there is no row
  verified,  \* whether Configured's emailVerifiedAt is set
  api,       \* the process: starting, promoting (bootstrap found its account), up, exited
  req,       \* the local state of each request between two awaits
  board,     \* the dashboard: its next statement, how often it counted one of the users
  crashes,
  (* history, read by no guard *)
  able       \* the requests whose actor was administrator at some time since their arrival

vars == <<role, verified, api, req, board, crashes, able>>

Roles    == {"user", "editor", "admin"}
Idle     == [at |-> "idle"]
Arrived  == [at : {"guard"}, actor : Users, target : Users, to : Asked]
Passed   == [at : {"begin"}, target : Users, to : Asked]
Deciding == [at : {"commit"}, target : Users, to : Asked, role : Roles]
Closed   == [at |-> "closed"]
Board    == [at : {"user", "editor", "admin", "done"}, who : Users, times : 0..3,
             changed : BOOLEAN]

\* Every variable has its type.
TypeOK ==
  /\ role \in [Users -> Roles \cup {"unborn", "deleted"}]
  /\ verified \in BOOLEAN
  /\ api \in {"starting", "promoting", "up", "exited"}
  /\ req \in [Requests -> {Idle} \cup Arrived \cup Passed \cup Deciding]
  /\ board \in {Closed} \cup Board
  /\ crashes \in 0..MaxCrashes
  /\ able \subseteq Requests

Admins    == {u \in Users : role[u] = "admin"}
Exists(u) == role[u] \in Roles

Init ==
  /\ role = [u \in Users |-> "unborn"]
  /\ verified = FALSE
  /\ api = "starting"
  /\ req = [p \in Requests |-> Idle]
  /\ board = Closed
  /\ crashes = 0
  /\ able = {}

\* What every change of u's row to r does to the history.
SetRole(u, r) ==
  /\ role' = [role EXCEPT ![u] = r]
  /\ board' = IF board = Closed \/ board.who # u THEN board
              ELSE IF board.at = "done" THEN Closed ELSE [board EXCEPT !.changed = TRUE]

\* The requests of u in flight gain what its promotion to r allows.
Enabled(u, r) ==
  IF r = "admin" THEN able \cup {p \in Requests : req[p].at = "guard" /\ req[p].actor = u}
               ELSE able

Become(p, work) == req' = [req EXCEPT ![p] = work]
End(p)          == Become(p, Idle) /\ able' = able \ {p}

-----------------------------------------------------------------------------
(* Starting and stopping.  onModuleInit ends before the API listens.         *)

\* run: the account exists, its address is verified, and it is not administrator yet.
Promotable == role[Configured] \in Roles \ {"admin"} /\ verified

StartUp_Strict ==
  /\ api = "starting"
  /\ api' = IF Promotable THEN "promoting"
            ELSE IF Exists(Configured) /\ ~verified THEN "exited" ELSE "up"
  /\ UNCHANGED <<role, verified, req, board, crashes, able>>

\* run: the account is looked up; if there is none to promote the start goes on.
StartUp ==
  /\ api = "starting"
  /\ api' = IF Promotable THEN "promoting" ELSE "up"
  /\ UNCHANGED <<role, verified, req, board, crashes, able>>

\* run: the update by id.
Promote ==
  /\ api = "promoting"
  /\ Exists(Configured)
  /\ SetRole(Configured, "admin") /\ able' = Enabled(Configured, "admin")
  /\ api' = "up"
  /\ UNCHANGED <<verified, req, crashes>>

\* run: the row is gone, update throws and the start fails.
FailPromotion ==
  /\ api = "promoting"
  /\ ~Exists(Configured)
  /\ api' = "exited"
  /\ UNCHANGED <<role, verified, req, board, crashes, able>>

\* The process dies.  A COMMIT that was sent is the database's business.
Crash ==
  /\ crashes < MaxCrashes /\ api # "exited"
  /\ api' = "exited" /\ crashes' = crashes + 1
  /\ req' = [p \in Requests |-> IF req[p].at = "commit" THEN req[p] ELSE Idle]
  /\ able' = {p \in able : req[p].at = "commit"}
  /\ board' = Closed
  /\ UNCHANGED <<role, verified>>

\* Docker's restart policy.
Restart ==
  /\ api = "exited"
  /\ api' = "starting"
  /\ UNCHANGED <<role, verified, req, board, crashes, able>>

-----------------------------------------------------------------------------
(* The rest of the system, as far as this part feels it.                     *)

\* register, resolveIdentity: a new row has the default role.
Register(u) ==
  /\ api = "up" /\ role[u] = "unborn"
  /\ SetRole(u, "user")
  /\ UNCHANGED <<verified, api, req, crashes, able>>

\* verify.
Verify ==
  /\ api = "up" /\ Exists(Configured) /\ ~verified
  /\ verified' = TRUE
  /\ UNCHANGED <<role, api, req, board, crashes, able>>

-----------------------------------------------------------------------------
(* A request to change a role or to delete a user (to = "deleted").          *)

\* AccessTokenGuard trusts the token alone: its bearer may have been demoted or deleted.
Arrive(p, u, target, to) ==
  /\ api = "up" /\ req[p] = Idle /\ role[u] # "unborn"
  /\ role[target] # "unborn"
  /\ Become(p, [at |-> "guard", actor |-> u, target |-> target, to |-> to])
  /\ able' = IF role[u] = "admin" THEN able \cup {p} ELSE able
  /\ UNCHANGED <<role, verified, api, board, crashes>>

Allowed_AnyRole(p) == Exists(req[p].actor)

\* RolesGuard: the actor's row is read again for every request.
Allowed(p) == role[req[p].actor] = "admin"

\* The guards let the request pass, and the actor is not its own target; any refusal
\* (401, 403) changes nothing.
Guard(p) ==
  /\ req[p].at = "guard"
  /\ IF Allowed(p) /\ req[p].target # req[p].actor
     THEN Become(p, [at |-> "begin", target |-> req[p].target, to |-> req[p].to])
          /\ UNCHANGED able ELSE End(p)
  /\ UNCHANGED <<role, verified, api, board, crashes>>

\* assertAnotherAdminExists: a count without the target.
Spare(target) == Admins \ {target} # {}

Missing_Unchecked(target) == FALSE

Missing(target) == ~Exists(target)

\* The transaction's reads: the target's row (none: 404), and whether another
\* administrator exists.  409 when the target is the last one.
Read(p) ==
  LET target == req[p].target  to == req[p].to IN
  /\ req[p].at = "begin"
  /\ IF \/ Missing(target)
        \/ role[target] = "admin" /\ to # "admin" /\ ~Spare(target)
        \/ role[target] = to
     THEN End(p)
     ELSE /\ Become(p, [at |-> "commit", target |-> target, to |-> to, role |-> role[target]])
          /\ UNCHANGED able
  /\ UNCHANGED <<role, verified, api, board, crashes>>

Serializable_ReadCommitted(p) == Exists(req[p].target)

\* What SERIALIZABLE promises: a transaction commits only if run alone, at that moment,
\* it would have read what decided it.
Serializable(p) ==
  /\ role[req[p].target] = req[p].role
  /\ req[p].role = "admin" => Spare(req[p].target)

\* changeRole, deleteUser: the write and the commit.
Commit(p) ==
  /\ req[p].at = "commit"
  /\ Serializable(p)
  /\ SetRole(req[p].target, req[p].to)
  /\ able' = Enabled(req[p].target, req[p].to) \ {p}
  /\ Become(p, Idle)
  /\ UNCHANGED <<verified, api, crashes>>

\* A serialization failure, a lost connection, any other error: 500 and no change.
Fail(p) ==
  /\ req[p] # Idle
  /\ End(p)
  /\ UNCHANGED <<role, verified, api, board, crashes>>

-----------------------------------------------------------------------------
(* getDashboardSummary: the counts it adds up to totalUsers, as far as one   *)
(* user, board.who, is in them.                                              *)

Follows(r) == CASE r = "user" -> "editor" [] r = "editor" -> "admin" [] r = "admin" -> "done"

Counts_NotUser(r, u) == IF r = "user" THEN role[u] = "user" ELSE Exists(u) /\ role[u] # "user"

\* count({ where: { role } })
Counts(r, u) == role[u] = r

OpenBoard(u) ==
  /\ api = "up" /\ board.at \in {"closed", "done"}
  /\ board' = [at |-> "user", who |-> u, times |-> 0, changed |-> FALSE]
  /\ UNCHANGED <<role, verified, api, req, crashes, able>>

CountRole ==
  /\ board.at \in Roles
  /\ board' = [board EXCEPT !.at = Follows(board.at),
               !.times = IF Counts(board.at, board.who) THEN board.times + 1 ELSE board.times]
  /\ UNCHANGED <<role, verified, api, req, crashes, able>>

Next ==
  \/ StartUp \/ Promote \/ FailPromotion \/ Crash \/ Restart
  \/ \E u \in Users : Register(u) \/ OpenBoard(u)
  \/ Verify \/ CountRole
  \/ \E p \in Requests, u, target \in Users, to \in Asked :
       Arrive(p, u, target, to)
  \/ \E p \in Requests : Guard(p) \/ Read(p) \/ Commit(p) \/ Fail(p)

\* The restart policy starts a process that exited, and a start goes on.
Fairness == WF_vars(Restart) /\ WF_vars(StartUp) /\ WF_vars(Promote) /\ WF_vars(FailPromotion)

Spec == Init /\ [][Next]_vars /\ Fairness

-----------------------------------------------------------------------------
(* Properties                                                                *)

\* "The check and the update run in one serializable transaction so a concurrent demotion
\* cannot slip past the last-admin safeguard": once there is an administrator there always
\* is one, whatever demotions, deletions and restarts overlap.
AdminRemains == [][Admins # {} => Admins' # {}]_vars

\* "A stale token cannot retain admin access": a role changes or a user disappears only
\* on behalf of someone who was administrator at some time since the request arrived; the
\* only other promotion is that of the configured, verified account by a start.
ChangesAreAuthorised ==
  [][\A u \in Users : Exists(u) /\ role'[u] # role[u] =>
       \/ \E p \in able : req[p].at = "commit" /\ req'[p] = Idle /\ req[p].target = u
       \/ api = "promoting" /\ u = Configured /\ verified /\ role'[u] = "admin"]_vars

\* The dashboard's total comes from three counts with a snapshot each: a user who changes
\* meanwhile may be missed or counted twice, every other user is counted exactly once.
OthersCountedOnce ==
  board.at = "done" /\ ~board.changed => board.times = IF Exists(board.who) THEN 1 ELSE 0

\* A missing, unverified or just deleted account never keeps the API from starting.
ApiComesUp == []<>(api = "up")
=============================================================================
