---------------------------- MODULE PixivSession ----------------------------
(***************************************************************************)
(* The session with Pixiv: the token in memory, in the client and in the   *)
(* state file, and what changes it: logins, logouts, the refresh loop,     *)
(* calls that were denied, a rebuilt client and restarts (service.go,      *)
(* call.go, state.go).  refreshMu serializes the changes; what a change    *)
(* has done so far is kept in op.                                          *)
(***************************************************************************)
EXTENDS Integers

CONSTANTS
  Accounts, Nobody,
  Callers,      \* requests that call Pixiv
  MaxIssued,    \* bound: tokens Pixiv issues
  MaxReloads,   \* bound: changes of the proxy setting
  MaxBoots      \* bound: restarts of the core

ASSUME AccountsAssumption == Nobody \notin Accounts
ASSUME CallersAssumption  == Callers \cap {"login", "logout", "loop", "none"} = {}

VARIABLES
  token,     \* Service.token
  expired,   \* Service.sessionExpired
  client,    \* the token of the current client
  file,      \* the state file
  kept,      \* the file was written when the session last changed
  op,        \* what the holder of refreshMu is doing
  due,       \* the loop has seen a token that is about to expire
  calls,     \* the requests
  issued, reloads, boots

session == <<token, expired, client, file, kept, op>>
zvars   == <<session, due, calls, issued, reloads, boots>>

NoToken == [user |-> Nobody, n |-> 0]
Free    == [by |-> "none", step |-> "none", rt |-> NoToken, got |-> NoToken, on |-> "current"]
NoCall  == [pc |-> "idle", before |-> NoToken, as |-> NoToken]

\* NewService(); the first refresh of Start() is the loop's.
ZInit ==
  /\ token \in {NoToken} \cup {[user |-> u, n |-> 1] : u \in Accounts}
  /\ client = token /\ file = token /\ expired = FALSE /\ kept = TRUE
  /\ op = Free /\ due \in BOOLEAN
  /\ calls = [c \in Callers |-> NoCall]
  /\ issued = 1 /\ reloads = 0 /\ boots = 0

-----------------------------------------------------------------------------
(* Who takes refreshMu, and for what                                       *)

Locks(by, rt) ==
  /\ op = Free
  /\ op' = [by |-> by, step |-> "auth", rt |-> rt, got |-> NoToken, on |-> "current"]

\* Login(), LoginWithAuthCode(): a token of any account that the user supplies.
Login(u) ==
  /\ Locks("login", [user |-> u, n |-> 0])
  /\ UNCHANGED <<token, expired, client, file, kept, due, calls, issued, reloads, boots>>

\* clearSessionLocked(), up to the unlocking of mu.
Clears(by, hint) ==
  /\ token' = NoToken /\ expired' = hint
  /\ op' = [Free EXCEPT !.by = by, !.step = "unauth"]

Logout ==
  /\ op = Free /\ Clears("logout", FALSE)
  /\ UNCHANGED <<client, file, kept, due, calls, issued, reloads, boots>>

LoopSees ==
  /\ ~due /\ token # NoToken
  /\ due' = TRUE
  /\ UNCHANGED <<session, calls, issued, reloads, boots>>

\* refreshCurrent(): the token may have changed since the loop looked.
LoopRefreshes ==
  /\ due /\ op = Free /\ due' = FALSE
  /\ IF token = NoToken THEN UNCHANGED op ELSE Locks("loop", token)
  /\ UNCHANGED <<token, expired, client, file, kept, calls, issued, reloads, boots>>

\* Slip: a call is retried with whatever token there is.
AnySession(before, cur) == TRUE
SameSession(before, cur) == before.user = cur.user

\* refreshForRetry()
RetryDecides(c) ==
  LET before == calls[c].before IN
  /\ op = Free /\ calls[c].pc = "denied"
  /\ IF ~SameSession(before, token) THEN calls' = [calls EXCEPT ![c] = NoCall] /\ UNCHANGED op
     ELSE IF token.n # before.n
     THEN calls' = [calls EXCEPT ![c].pc = "retried", ![c].as = token] /\ UNCHANGED op
     ELSE IF token = NoToken THEN calls' = [calls EXCEPT ![c] = NoCall] /\ UNCHANGED op
     ELSE calls' = [calls EXCEPT ![c].pc = "waits"] /\ Locks(c, token)
  /\ UNCHANGED <<token, expired, client, file, kept, due, issued, reloads, boots>>

-----------------------------------------------------------------------------
(* The refresh itself                                                      *)

\* The call that waits for the refresh that ends.
Waiter(ok) ==
  calls' = [c \in Callers |->
              IF op.by # c THEN calls[c]
              ELSE IF ok THEN [calls[c] EXCEPT !.pc = "retried", !.as = op.got] ELSE NoCall]

\* client.Auth() succeeds: the client it was called on has the new token, be it the current
\* one or one that was replaced meanwhile.
Authenticates ==
  /\ op.step = "auth" /\ issued < MaxIssued
  /\ issued' = issued + 1
  /\ LET got == [user |-> op.rt.user, n |-> issued'] IN
     /\ op' = [op EXCEPT !.step = "publish", !.got = got]
     /\ client' = IF op.on = "current" THEN got ELSE client
  /\ UNCHANGED <<token, expired, file, kept, due, calls, reloads, boots>>

\* Slip: the new token is given to the client it was got with.
GivesCaptured == IF op.on = "current" THEN op.got ELSE client
GivesCurrent == op.got

Publishes ==
  /\ op.step = "publish"
  /\ token' = op.got /\ expired' = FALSE /\ client' = GivesCurrent
  /\ op' = [op EXCEPT !.step = "save"]
  /\ UNCHANGED <<file, kept, due, calls, issued, reloads, boots>>

\* store.Save(): when it fails the caller gets an error, and a call is not retried, although
\* the session has changed.
Saves(ok) ==
  /\ op.step = "save"
  /\ file' = IF ok THEN op.got ELSE file
  /\ kept' = ok /\ op' = Free /\ Waiter(ok)
  /\ UNCHANGED <<token, expired, client, due, issued, reloads, boots>>

\* The network fails, or Pixiv does.
AuthFails ==
  /\ op.step = "auth" /\ op' = Free /\ Waiter(FALSE)
  /\ UNCHANGED <<token, expired, client, file, kept, due, issued, reloads, boots>>

\* Slip: a rejected token ends the session, whoever supplied it.
AlwaysEnds == TRUE
EndsSession == op.by # "login"

\* invalid_grant: the session of an automatic refresh is over; a token that the user supplied
\* is only refused (refreshSessionLocked).
Rejected ==
  /\ op.step = "auth"
  /\ IF EndsSession
     THEN Clears(op.by, TRUE) /\ UNCHANGED calls
     ELSE op' = Free /\ UNCHANGED <<token, expired, calls>>
  /\ UNCHANGED <<client, file, kept, due, issued, reloads, boots>>

Unauthenticates ==
  /\ op.step = "unauth"
  /\ client' = IF op.on = "current" THEN NoToken ELSE client
  /\ op' = [op EXCEPT !.step = "clear"]
  /\ UNCHANGED <<token, expired, file, kept, due, calls, issued, reloads, boots>>

\* store.Clear()
RemovesFile(ok) ==
  /\ op.step = "clear"
  /\ file' = IF ok THEN NoToken ELSE file
  /\ kept' = ok /\ op' = Free /\ Waiter(FALSE)
  /\ UNCHANGED <<token, expired, client, due, issued, reloads, boots>>

\* Reload(): a new client takes over, with the token of memory.
Reload ==
  /\ reloads < MaxReloads /\ reloads' = reloads + 1
  /\ client' = token
  /\ op' = IF op = Free THEN op ELSE [op EXCEPT !.on = "replaced"]
  /\ UNCHANGED <<token, expired, file, kept, due, calls, issued, boots>>

\* The core ends, at any time, and comes back with what the file has.
Reboot ==
  /\ boots < MaxBoots /\ boots' = boots + 1
  /\ token' = file /\ client' = file /\ expired' = FALSE /\ kept' = TRUE
  /\ op' = Free /\ due' \in {FALSE, file # NoToken}
  /\ calls' = [c \in Callers |-> NoCall]
  /\ UNCHANGED <<file, issued, reloads>>

-----------------------------------------------------------------------------
(* A request that calls Pixiv (Call)                                       *)

CallStarts(c) ==
  /\ calls[c] = NoCall
  /\ calls' = [calls EXCEPT ![c].pc = "starts", ![c].before = token]
  /\ UNCHANGED <<session, due, issued, reloads, boots>>

\* With the current client, whose token may be another one by now.
CallSends(c) ==
  /\ calls[c].pc = "starts"
  /\ calls' = [calls EXCEPT ![c].pc = "sent", ![c].as = client]
  /\ UNCHANGED <<session, due, issued, reloads, boots>>

CallDenied(c) ==
  /\ calls[c].pc = "sent"
  /\ calls' = [calls EXCEPT ![c].pc = "denied"]
  /\ UNCHANGED <<session, due, issued, reloads, boots>>

CallEnds(c) ==
  /\ calls[c].pc \in {"sent", "retried"}
  /\ calls' = [calls EXCEPT ![c] = NoCall]
  /\ UNCHANGED <<session, due, issued, reloads, boots>>

ZNext ==
  \/ \E u \in Accounts : Login(u)
  \/ \E c \in Callers : CallStarts(c) \/ CallSends(c) \/ CallDenied(c) \/ CallEnds(c) \/ RetryDecides(c)
  \/ \E ok \in BOOLEAN : Saves(ok) \/ RemovesFile(ok)
  \/ Logout \/ LoopSees \/ LoopRefreshes
  \/ Authenticates \/ Publishes \/ AuthFails \/ Rejected \/ Unauthenticates
  \/ Reload \/ Reboot

ZSpec == ZInit /\ [][ZNext]_zvars

-----------------------------------------------------------------------------
\* Only the user changes the account: it changes by a login that Pixiv accepted, by a logout,
\* by the end of a session whose own token Pixiv rejected, or by a restart.  A refresh that
\* was begun for another session never puts it back (service.go: "so a stale refresh can't
\* clobber a fresh login", "a token the user just supplied being rejected must not wipe an
\* already-good session").
AccountHeld ==
  [][token'.user # token.user =>
       \/ op.by = "login" /\ op.step = "publish" /\ token'.user = op.rt.user
       \/ op = Free /\ op'.by = "logout"
       \/ op.by # "login" /\ op.step = "auth" /\ op.rt = token /\ token' = NoToken /\ expired'
       \/ boots' # boots]_zvars

\* A retried call runs for the account it was made for, with another token than the one it was
\* denied with (call.go: "so a concurrent login/logout can't make the replay run as the wrong
\* account").
RetriesAsSelf ==
  \A c \in Callers : calls[c].pc = "retried" =>
    calls[c].as.user = calls[c].before.user /\ calls[c].as.n # calls[c].before.n

\* When nothing changes the session its token is everywhere: in memory, in the client, however
\* often that was replaced meanwhile, and, unless the last write failed, in the file that a
\* restart reads.  Only a session that has ended can have expired.
SessionInStep ==
  op = Free => client = token /\ (kept => file = token) /\ (expired => token = NoToken)
=============================================================================
