--------------------------- MODULE SessionLedger ---------------------------
(***************************************************************************)
(* What a session store promises its clients, without requests, database   *)
(* statements or snapshots.  Every live session has exactly one current    *)
(* refresh token.  A token is accepted only while it is current; it stops  *)
(* being current when it is redeemed for a fresh one or when its session   *)
(* is closed, and a token that stopped being current never comes back.     *)
(* A sign-in or a close only ever ends sessions of one and the same user.  *)
(* AuthSession is shown to implement this.                                 *)
(***************************************************************************)
CONSTANTS Users, Sessions, Tokens, None

VARIABLES
  owner,    \* the user each session was opened for
  current,  \* the current token of each live session, None for the others
  spent     \* the tokens that were current once and are no more

ledger == <<owner, current, spent>>

Live(u)  == {s \in Sessions : current[s] # None /\ owner[s] = u}
Fresh(t) == t \notin spent /\ \A s \in Sessions : current[s] # t

Init ==
  /\ owner   = [s \in Sessions |-> None]
  /\ current = [s \in Sessions |-> None]
  /\ spent   = {}

\* The sessions in ended stop being live.
Without(ended) == [s \in Sessions |-> IF s \in ended THEN None ELSE current[s]]

\* A sign-in of u opens one session and ends some of the user's live ones.
Open(u, ended) ==
  \E s \in Sessions :
    /\ owner[s] = None
    /\ owner' = [owner EXCEPT ![s] = u]
    /\ spent' = spent \cup {current[x] : x \in ended}
    /\ \E t \in Tokens : Fresh(t) /\ current' = [Without(ended) EXCEPT ![s] = t]

\* The current token of a live session is exchanged for a fresh one.
Redeem(s) ==
  /\ current[s] # None
  /\ spent' = spent \cup {current[s]}
  /\ \E t \in Tokens : Fresh(t) /\ current' = [current EXCEPT ![s] = t]
  /\ UNCHANGED owner

\* Some live sessions of u end.
Close(ended) ==
  /\ current' = Without(ended)
  /\ spent' = spent \cup {current[s] : s \in ended}
  /\ UNCHANGED owner

Next ==
  \/ \E u \in Users : \E ended \in SUBSET Live(u) : Open(u, ended) \/ Close(ended)
  \/ \E s \in Sessions : Redeem(s)

Spec == Init /\ [][Next]_ledger
=============================================================================
