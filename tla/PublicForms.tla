----------------------------- MODULE PublicForms ----------------------------
(***************************************************************************)
(* A visitor's browser tab on one of the forms that Turnstile protects     *)
(* (contact, sign-in, registration, forgotten password), from the loading  *)
(* of Cloudflare's script to the answer: the widget, the gate that spends  *)
(* a token before each request, the API's guards, the contact form's       *)
(* service and the mail transport, and an administrator who edits the      *)
(* address that the contact form writes to.                                *)
(*                                                                         *)
(* Cloudflare, the network and the mail server are external: each of their *)
(* steps may go either way.  The rate limiter is the module RateLimiter,   *)
(* shared with other visitors behind the same address.  What a handler     *)
(* does to accounts is in the modules of accounts and sessions: here it is *)
(* one of its answers.                                                     *)
(***************************************************************************)
EXTENDS Naturals

CONSTANTS
  MaxAttempts,  \* TURNSTILE_MAX_ATTEMPTS
  Addresses,    \* what a contact group's e-mail may be
  Usable,       \* those that are e-mail addresses
  Limit,        \* requests that the rate limiter lets pass in a window
  Window,       \* the length of a window
  Second,       \* the length of a second, in the same ticks
  None          \* absent

ASSUME AttemptsArePositive == MaxAttempts \in Nat \ {0}
ASSUME UsableAreAddresses == Usable \subseteq Addresses /\ None \notin Addresses
ASSUME NoneIsNoToken == None \notin {"fresh", "sent"}

VARIABLES
  page,      \* which form the tab shows
  loaded,    \* window.turnstile is there
  widget,    \* the mounted widget: its stage, and the failed loads since it mounted
  token,     \* the gate's token: None, or one that was never sent, or one that was
  shown,     \* what the form says of the last answer
  call,      \* the request behind each of the two buttons, in the tab and in the API
  recipient, \* contact_groups.email of the topic
  accepted,  \* history: the mail of the last contact request was accepted by the transport
  bucket, wait, admitted  \* the rate limiter's, a key for each button's endpoint

Buttons == {"submit", "resend"}
Limiter == INSTANCE RateLimiter WITH Keys <- Buttons

ASSUME WindowsAreNatural == Limiter!LimitIsNatural /\ Limiter!TimesArePositive

formVars    == <<page, loaded, widget, token, shown, call, recipient, accepted>>
limiterVars == <<bucket, wait, admitted>>
vars        == <<formVars, limiterVars>>

Pages   == {"contact", "login", "register", "forgot"}
Tokens  == {"fresh", "sent"}
NoCall  == [at |-> "idle", token |-> None, to |-> None]
Stages  == {"idle", "limit", "turnstile", "handler", "mail", "refused", "done", "unverified", "unsent"}
Answers == {"refused", "done", "unverified", "unsent"}

\* Every variable has its type.
TypeOK ==
  /\ page \in Pages /\ loaded \in BOOLEAN
  /\ widget \in [at : {"loading", "waiting", "rendered", "solved", "dead", "unmounted"}, failed : 0..MaxAttempts]
  /\ token \in Tokens \cup {None}
  /\ shown \in {"nothing", "error", "success", "unverified", "unsent"}
  /\ call \in [Buttons -> [at : Stages, token : Tokens \cup {None}, to : Addresses \cup {None}]]
  /\ recipient \in Addresses /\ accepted \in BOOLEAN
  /\ Limiter!TypeOK

Init ==
  /\ page \in Pages /\ loaded = FALSE
  /\ widget = [at |-> "loading", failed |-> 0]
  /\ token = None /\ shown = "nothing"
  /\ call = [b \in Buttons |-> NoCall]
  /\ recipient \in Addresses /\ accepted = FALSE
  /\ Limiter!Init

-----------------------------------------------------------------------------
(* The widget (TurnstileWidget, loadTurnstileScript).                        *)

\* A mounted widget renders at once if the script is there; else it loads it.
Mounted == [at |-> IF loaded THEN "rendered" ELSE "loading", failed |-> 0]

\* The script loads.  Rendering may throw, and nothing tries again.
ScriptLoads ==
  /\ widget.at = "loading"
  /\ loaded' = TRUE
  /\ \E at \in {"rendered", "dead"} : widget' = [widget EXCEPT !.at = at]
  /\ UNCHANGED <<page, token, shown, call, recipient, accepted, limiterVars>>

GivesUp_OneMore(failed) == failed > MaxAttempts

GivesUp(failed) == failed >= MaxAttempts

\* The script fails to load: its tag is removed, and a timer tries again, so many times.
ScriptFails ==
  /\ widget.at = "loading"
  /\ widget' = [at |-> IF GivesUp(widget.failed + 1) THEN "dead" ELSE "waiting",
                failed |-> widget.failed + 1]
  /\ UNCHANGED <<page, loaded, token, shown, call, recipient, accepted, limiterVars>>

RetryLoad ==
  /\ widget.at = "waiting"
  /\ widget' = [widget EXCEPT !.at = IF loaded THEN "rendered" ELSE "loading"]
  /\ UNCHANGED <<page, loaded, token, shown, call, recipient, accepted, limiterVars>>

\* Cloudflare solves the challenge (setToken); a stale Turnstile error disappears.
Solve ==
  /\ widget.at = "rendered"
  /\ token' = "fresh" /\ widget' = [widget EXCEPT !.at = "solved"]
  /\ shown' \in {shown} \cup (IF shown = "error" THEN {"nothing"} ELSE {})
  /\ UNCHANGED <<page, loaded, call, recipient, accepted, limiterVars>>

\* The token expires, or the widget reports an error; Cloudflare starts another challenge.
Expire ==
  /\ widget.at = "solved"
  /\ token' = None /\ widget' = [widget EXCEPT !.at = "rendered"]
  /\ UNCHANGED <<page, loaded, shown, call, recipient, accepted, limiterVars>>

-----------------------------------------------------------------------------
(* The buttons.                                                              *)

\* Which buttons the page shows.
Offered(b) ==
  IF b = "submit" THEN shown \notin {"success", "unsent"} \/ page = "contact"
  ELSE (page = "login" /\ shown = "unverified") \/ (page = "register" /\ shown = "unsent")

\* canSubmit, and the button not disabled by its own request.
Enabled(b) == Offered(b) /\ call[b].at = "idle" /\ token # None

Spend_NoRemount   == token' = None /\ UNCHANGED widget
Spend_AfterAnswer == token' = "sent" /\ UNCHANGED widget

\* "Consume the token before the request is sent": reset clears it and remounts the widget.
Spend == token' = None /\ widget' = Mounted

\* onSubmit or onResend.
Send(b) ==
  /\ Enabled(b)
  /\ call' = [call EXCEPT ![b] = [at |-> "limit", token |-> token, to |-> None]]
  /\ Spend
  /\ shown' = IF b = "submit" THEN "nothing" ELSE shown
  /\ accepted' = IF b = "submit" THEN FALSE ELSE accepted
  /\ UNCHANGED <<page, loaded, recipient, limiterVars>>

Goto(b, stage) == call' = [call EXCEPT ![b].at = stage]

-----------------------------------------------------------------------------
(* The API: RateLimitGuard, then TurnstileGuard, then the handler.           *)

InApi == {"limit", "turnstile", "handler", "mail"}

RateLimit(b) ==
  /\ call[b].at = "limit"
  /\ Limiter!Consume(b)
  /\ Goto(b, IF Limiter!Allows(bucket'[b].count) THEN "turnstile" ELSE "refused")
  /\ UNCHANGED <<page, loaded, widget, token, shown, recipient, accepted>>

\* Another visitor behind the same address uses an endpoint; time passes; the API restarts.
Elsewhere == Limiter!Next /\ UNCHANGED formVars

\* Siteverify: a token counts once; no answer counts as a failure.
Outcomes(b) == IF call[b].token = "fresh" THEN {"ok", "failed", "unavailable"} ELSE {"failed"}

\* Fail closed.
Passes(outcome) == outcome = "ok"

Verify(b) ==
  /\ call[b].at = "turnstile"
  /\ \E outcome \in Outcomes(b) : Goto(b, IF Passes(outcome) THEN "handler" ELSE "refused")
  /\ UNCHANGED <<page, loaded, widget, token, shown, recipient, accepted, limiterVars>>

\* The body is validated and the service of any form but the contact form answers.
Handle(b) ==
  /\ call[b].at = "handler" /\ (page = "contact" => b # "submit")
  /\ \E answer \in {"done", "refused"}
         \cup (IF b = "submit" /\ page = "login" THEN {"unverified"} ELSE {})
         \cup (IF b = "submit" /\ page = "register" THEN {"unsent"} ELSE {}) : Goto(b, answer)
  /\ UNCHANGED <<page, loaded, widget, token, shown, recipient, accepted, limiterVars>>

\* ContactFormService.submit: the body is invalid, or no group has a usable address (503), or
\* the mail goes out.
Resolve ==
  /\ call["submit"].at = "handler" /\ page = "contact"
  /\ \/ Goto("submit", "refused")
     \/ /\ recipient \in Usable
        /\ call' = [call EXCEPT !["submit"] = [at |-> "mail", token |-> @.token, to |-> recipient]]
  /\ UNCHANGED <<page, loaded, widget, token, shown, recipient, accepted, limiterVars>>

\* The transport accepts the mail, or does not (502).
Mail ==
  /\ call["submit"].at = "mail"
  /\ \/ Goto("submit", "done") /\ accepted' = TRUE
     \/ Goto("submit", "refused") /\ UNCHANGED accepted
  /\ UNCHANGED <<page, loaded, widget, token, shown, recipient, limiterVars>>

\* ContactGroupsService.update.
EditGroup(address) ==
  /\ recipient' = address
  /\ UNCHANGED <<page, loaded, widget, token, shown, call, accepted, limiterVars>>

-----------------------------------------------------------------------------
(* The answer, or none: the browser reports a network error whatever the API *)
(* has done.                                                                 *)

\* What the form shows of an answer, and whether the widget stays mounted, moves, or goes.
Show(b, answer) ==
  /\ shown' = IF b = "resend" THEN shown
              ELSE CASE answer = "refused" -> "error"
                     [] answer = "done"    -> "success"
                     [] OTHER              -> answer
  /\ IF b = "submit" /\ answer = "done" /\ page # "contact"
     THEN widget' = [at |-> "unmounted", failed |-> 0] /\ token' = None
     ELSE IF answer = "unsent" THEN widget' = Mounted /\ UNCHANGED token
     ELSE UNCHANGED <<widget, token>>
  /\ call' = [call EXCEPT ![b] = NoCall]
  /\ UNCHANGED <<page, loaded, recipient, accepted, limiterVars>>

Receive(b) == call[b].at \in Answers /\ Show(b, call[b].at)

\* The request or its answer is lost.  (What the API still does of it changes no form.)
Lose(b) == call[b].at \in InApi \cup Answers /\ Show(b, "refused")

Next ==
  \/ ScriptLoads \/ ScriptFails \/ RetryLoad \/ Solve \/ Expire
  \/ \E b \in Buttons : Send(b) \/ RateLimit(b) \/ Verify(b) \/ Handle(b) \/ Receive(b) \/ Lose(b)
  \/ Resolve \/ Mail \/ Elsewhere
  \/ \E a \in Addresses : EditGroup(a)

\* The browser's timers and events, Cloudflare's widget and the API run; fetch ends.
Fairness ==
  /\ WF_vars(ScriptLoads \/ ScriptFails) /\ WF_vars(RetryLoad) /\ WF_vars(Solve)
  /\ \A b \in Buttons :
       /\ WF_vars(RateLimit(b)) /\ WF_vars(Verify(b)) /\ WF_vars(Handle(b))
       /\ WF_vars(Receive(b) \/ Lose(b))
  /\ WF_vars(Resolve) /\ WF_vars(Mail)

Spec == Init /\ [][Next]_vars /\ Fairness

-----------------------------------------------------------------------------
(* Properties                                                                *)

\* "A token the server may have consumed can never be resubmitted", by either button, and
\* success is reported "only after the transport accepts" the mail: no request carries a token
\* that an earlier one carried, and the contact form's success means that this submission's
\* mail was accepted, for a usable address.
SpentOnceAndHonest ==
  /\ \A b \in Buttons : call[b].token # "sent"
  /\ page = "contact" /\ shown = "success" => accepted
  /\ \A b \in Buttons : call[b].to # None => call[b].to \in Usable

\* RateLimiter: two windows' worth in any window, and a Retry-After, rounded to seconds, that
\* outlasts the window that refused by less than a second.
WindowBound == Limiter!WindowBound

\* After any answer, a form that still offers a button can be submitted again, unless the
\* widget has given up: the script failed MaxAttempts times in a row or could not render.
SubmittableAgain ==
  \A b \in Buttons :
    Offered(b) ~> (Enabled(b) \/ ~Offered(b) \/ widget.at = "dead")
=============================================================================
