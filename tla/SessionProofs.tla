---------------------------- MODULE SessionProofs ----------------------------
(***************************************************************************)
(* The session for any accounts, requests and numbers of refreshes,        *)
(* rebuilt clients and restarts.  What holds while refreshMu is free has   *)
(* to be said of every step its holder takes: hence OpInv, and CallInv for *)
(* the requests that wait for it.                                          *)
(***************************************************************************)
EXTENDS PixivSession, TLAPS

Users  == Accounts \cup {Nobody}
Tokens == [user : Users, n : Nat]
Ops    == [by : Callers \cup {"login", "logout", "loop", "none"},
           step : {"none", "auth", "publish", "save", "unauth", "clear"},
           rt : Tokens, got : Tokens, on : {"current", "replaced"}]
Calls  == [pc : {"idle", "starts", "sent", "denied", "waits", "retried"},
           before : Tokens, as : Tokens]

ZTypeOK ==
  /\ token \in Tokens /\ client \in Tokens /\ file \in Tokens
  /\ expired \in BOOLEAN /\ kept \in BOOLEAN /\ due \in BOOLEAN
  /\ op \in Ops /\ calls \in [Callers -> Calls]
  /\ issued \in Nat /\ reloads \in Nat /\ boots \in Nat

\* Tokens are numbered as Pixiv issues them.
Issued ==
  /\ token.n <= issued /\ file.n <= issued
  /\ \A c \in Callers : calls[c].before.n <= issued

\* What is settled before the token is published.
Settled == client = token /\ (kept => file = token)

OpInv ==
  /\ (op.step = "none") <=> (op = Free)
  /\ expired => token = NoToken
  /\ op.step \in {"none", "auth"} => Settled
  /\ op.step \in {"auth", "publish"} /\ op.by # "login" => op.rt = token
  /\ op.step \in {"auth", "publish"} => op.by \notin {"none", "logout"}
  /\ op.step \in {"publish", "save"} => op.got.user = op.rt.user /\ op.got.n = issued
  /\ op.step = "save" => token = op.got /\ client = op.got
  /\ op.step \in {"unauth", "clear"} => token = NoToken
  /\ op.step = "unauth" => op.on = "current" \/ client = NoToken
  /\ op.step = "clear" => client = NoToken

\* A call that waits, waits for a refresh of its own account that gets it another token.
CallInv ==
  /\ \A c \in Callers : op.by = c => calls[c].pc = "waits"
  /\ \A c \in Callers :
       op.by = c /\ op.step \in {"auth", "publish", "save"} =>
         /\ op.rt.user = calls[c].before.user
         /\ op.step \in {"publish", "save"} => calls[c].before.n < issued
  /\ RetriesAsSelf

ZInv == ZTypeOK /\ Issued /\ OpInv /\ CallInv

-----------------------------------------------------------------------------
LEMMA FreeType == NoToken \in Tokens /\ Free \in Ops /\ NoCall \in Calls
  BY DEF NoToken, Tokens, Users, Free, Ops, NoCall, Calls

LEMMA SessionInit == ZInit => ZInv
  <1> SUFFICES ASSUME ZInit PROVE ZInv
    OBVIOUS
  <1>1. token \in Tokens /\ token.n <= 1
    BY DEF ZInit, Tokens, Users, NoToken
  <1>2. ZTypeOK
    BY <1>1, FreeType DEF ZInit, ZTypeOK
  <1>3. Issued /\ OpInv /\ CallInv
    BY <1>1, CallersAssumption DEF ZInit, Issued, OpInv, CallInv, RetriesAsSelf, Settled, Free, NoCall, NoToken
  <1> QED
    BY <1>2, <1>3 DEF ZInv

LEMMA WaiterType ==
  ASSUME ZTypeOK, NEW ok, Waiter(ok)
  PROVE  calls' \in [Callers -> Calls]
  <1>1. op.got \in Tokens
    BY DEF ZTypeOK, Ops
  <1>2. ASSUME NEW c \in Callers PROVE calls'[c] \in Calls
    <2>1. calls[c] \in Calls
      BY DEF ZTypeOK
    <2>2. [calls[c] EXCEPT !.pc = "retried", !.as = op.got] \in Calls
      BY <1>1, <2>1 DEF Calls
    <2>3. calls'[c] \in {calls[c], NoCall, [calls[c] EXCEPT !.pc = "retried", !.as = op.got]}
      BY DEF Waiter
    <2> QED
      BY <2>1, <2>2, <2>3, FreeType
  <1> QED
    BY <1>2 DEF Waiter

LEMMA TypeStep == ZTypeOK /\ [ZNext]_zvars => ZTypeOK'
  <1> SUFFICES ASSUME ZTypeOK, [ZNext]_zvars PROVE ZTypeOK'
    OBVIOUS
  <1> USE FreeType DEF ZTypeOK
  <1>1. ASSUME NEW u \in Accounts, Login(u) PROVE ZTypeOK'
    BY <1>1 DEF Login, Locks, Ops, Tokens, Users
  <1>2. ASSUME NEW c \in Callers, RetryDecides(c) PROVE ZTypeOK'
    <2>1. calls' \in [Callers -> Calls]
      BY <1>2 DEF RetryDecides, Calls
    <2>2. op' \in Ops
      BY <1>2 DEF RetryDecides, Locks, Ops
    <2> QED
      BY <1>2, <2>1, <2>2 DEF RetryDecides
  <1>3. ASSUME NEW ok \in BOOLEAN, Saves(ok) \/ RemovesFile(ok) PROVE ZTypeOK'
    <2>1. calls' \in [Callers -> Calls]
      BY <1>3, WaiterType DEF Saves, RemovesFile
    <2>2. op' \in Ops /\ file' \in Tokens
      BY <1>3 DEF Saves, RemovesFile, Ops
    <2> QED
      BY <1>3, <2>1, <2>2 DEF Saves, RemovesFile
  <1>4. CASE Logout
    BY <1>4 DEF Logout, Clears, Ops
  <1>5. CASE LoopSees
    <2>1. UNCHANGED <<token, expired, client, file, kept, op, calls, issued, reloads, boots>> /\ due' \in BOOLEAN
      BY <1>5 DEF LoopSees, session
    <2> QED
      BY <2>1
  <1>15. CASE LoopRefreshes
    <2>1. op' \in Ops
      BY <1>15 DEF LoopRefreshes, Locks, Ops
    <2>2. UNCHANGED <<token, expired, client, file, kept, calls, issued, reloads, boots>> /\ due' \in BOOLEAN
      BY <1>15 DEF LoopRefreshes
    <2> QED
      BY <2>1, <2>2
  <1>6. CASE Authenticates
    <2>1. [user |-> op.rt.user, n |-> issued'] \in Tokens
      BY <1>6 DEF Authenticates, Ops, Tokens
    <2>2. op' \in Ops
      BY <1>6, <2>1 DEF Authenticates, Ops
    <2>3. client' \in Tokens
      BY <1>6, <2>1 DEF Authenticates
    <2> QED
      BY <1>6, <2>2, <2>3 DEF Authenticates
  <1>7. CASE Publishes
    BY <1>7 DEF Publishes, GivesCurrent, Ops
  <1>8. CASE AuthFails
    BY <1>8, WaiterType DEF AuthFails
  <1>9. CASE Rejected
    BY <1>9 DEF Rejected, Clears, Ops
  <1>10. CASE Unauthenticates
    BY <1>10 DEF Unauthenticates, Ops
  <1>11. CASE Reload
    <2>1. op' \in Ops
      BY <1>11 DEF Reload, Ops
    <2> QED
      BY <1>11, <2>1 DEF Reload
  <1>12. CASE Reboot
    <2>1. calls' \in [Callers -> Calls]
      BY <1>12 DEF Reboot
    <2>2. due' \in BOOLEAN
      BY <1>12 DEF Reboot
    <2>3. expired' \in BOOLEAN /\ kept' \in BOOLEAN
      BY <1>12 DEF Reboot
    <2> QED
      BY <1>12, <2>1, <2>2, <2>3 DEF Reboot
  <1>13. ASSUME NEW c \in Callers, CallStarts(c) \/ CallSends(c) \/ CallDenied(c) \/ CallEnds(c) PROVE ZTypeOK'
    <2>1. calls' \in [Callers -> Calls]
      BY <1>13 DEF CallStarts, CallSends, CallDenied, CallEnds, Calls
    <2> QED
      BY <1>13, <2>1 DEF CallStarts, CallSends, CallDenied, CallEnds, session
  <1>14. CASE UNCHANGED zvars
    BY <1>14 DEF zvars, session
  <1> QED
    BY <1>1, <1>2, <1>3, <1>4, <1>5, <1>6, <1>7, <1>8, <1>9, <1>10, <1>11, <1>12, <1>13, <1>14, <1>15 DEF ZNext

-----------------------------------------------------------------------------
\* Whoever locks refreshMu finds the session settled.
LEMMA LocksStep ==
  ASSUME ZInv, NEW by \in Callers \cup {"login", "loop"}, NEW rt \in Tokens, Locks(by, rt),
         by # "login" => rt = token,
         by \in Callers => calls[by].before.user = rt.user /\ calls'[by].pc = "waits",
         UNCHANGED <<token, expired, client, file, kept, issued>>,
         \A c \in Callers : calls'[c].before = calls[c].before,
         RetriesAsSelf'
  PROVE  Issued' /\ OpInv' /\ CallInv'
  <1>1. /\ op' = [by |-> by, step |-> "auth", rt |-> rt, got |-> NoToken, on |-> "current"]
        /\ op = Free /\ op' # Free /\ op.step = "none"
    BY DEF Locks, Free
  <1>2. Issued'
    BY DEF ZInv, Issued
  <1>3. by \notin {"none", "logout"}
    BY CallersAssumption
  <1>4. OpInv'
    BY <1>1, <1>3 DEF ZInv, OpInv, Settled
  <1>5. CallInv'
    BY <1>1 DEF ZInv, CallInv
  <1> QED
    BY <1>2, <1>4, <1>5

\* The token of memory is now one that Pixiv issued.
LEMMA WaiterStep ==
  ASSUME ZInv, NEW ok \in BOOLEAN, Waiter(ok), ok => op.step = "save", op # Free, op' = Free,
         issued' = issued
  PROVE  CallInv'
  <1>1. ASSUME NEW c \in Callers, calls'[c].pc = "retried"
        PROVE  calls'[c].as.user = calls'[c].before.user /\ calls'[c].as.n # calls'[c].before.n
    <2>1. CASE op.by # c
      <3>1. calls'[c] = calls[c]
        BY <2>1 DEF Waiter
      <3> QED
        BY <1>1, <3>1 DEF ZInv, CallInv, RetriesAsSelf
    <2>2. CASE op.by = c /\ ok
      <3>1. calls'[c] = [calls[c] EXCEPT !.pc = "retried", !.as = op.got] /\ calls[c] \in Calls
        BY <2>2 DEF Waiter, ZInv, ZTypeOK
      <3>2. calls'[c].as = op.got /\ calls'[c].before = calls[c].before
        BY <3>1 DEF Calls
      <3>3. op.got.user = op.rt.user /\ op.got.n = issued
        BY <2>2 DEF ZInv, OpInv
      <3>4. op.rt.user = calls[c].before.user /\ calls[c].before.n < issued
        BY <2>2 DEF ZInv, CallInv
      <3>5. calls[c].before.n \in Nat /\ issued \in Nat
        BY <3>1 DEF Calls, Tokens, ZInv, ZTypeOK
      <3> QED
        BY <3>2, <3>3, <3>4, <3>5
    <2>3. CASE op.by = c /\ ~ok
      <3>1. calls'[c] = NoCall
        BY <2>3 DEF Waiter
      <3> QED
        BY <1>1, <3>1 DEF NoCall
    <2> QED
      BY <2>1, <2>2, <2>3
  <1>2. \A c \in Callers : op'.by # c
    BY CallersAssumption DEF Free
  <1> QED
    BY <1>1, <1>2 DEF CallInv, RetriesAsSelf

LEMMA SessionStep == ZInv /\ [ZNext]_zvars => ZInv'
  <1> SUFFICES ASSUME ZInv, [ZNext]_zvars PROVE ZInv'
    OBVIOUS
  <1>t. ZTypeOK'
    BY TypeStep DEF ZInv
  <1>n. issued \in Nat /\ token \in Tokens /\ op \in Ops /\ calls \in [Callers -> Calls]
    BY DEF ZInv, ZTypeOK
  <1> SUFFICES Issued' /\ OpInv' /\ CallInv'
    BY <1>t DEF ZInv
  <1>1. ASSUME NEW u \in Accounts, Login(u) PROVE Issued' /\ OpInv' /\ CallInv'
    <2>1. [user |-> u, n |-> 0] \in Tokens
      BY DEF Tokens, Users
    <2>2. RetriesAsSelf'
      BY <1>1 DEF Login, ZInv, CallInv, RetriesAsSelf
    <2>3. "login" \notin Callers
      BY CallersAssumption
    <2> QED
      BY <1>1, <2>1, <2>2, <2>3, LocksStep DEF Login
  <1>2. ASSUME NEW c \in Callers, RetryDecides(c) PROVE Issued' /\ OpInv' /\ CallInv'
    <2>0. calls[c] \in Calls /\ op = Free /\ op.by = "none" /\ \A d \in Callers : op.by # d
      BY <1>2, CallersAssumption DEF RetryDecides, Free, ZInv, ZTypeOK
    <2>1. CASE Locks(c, token)
      <3>1. /\ calls' = [calls EXCEPT ![c].pc = "waits"] /\ SameSession(calls[c].before, token)
            /\ UNCHANGED <<token, expired, client, file, kept, issued>>
        BY <1>2, <2>1, CallersAssumption DEF RetryDecides, Locks, Free
      <3>2. /\ calls'[c].pc = "waits" /\ \A d \in Callers : calls'[d].before = calls[d].before
            /\ \A d \in Callers : d # c => calls'[d] = calls[d]
        BY <3>1, <1>n DEF Calls
      <3>3. RetriesAsSelf'
        BY <3>2 DEF RetriesAsSelf, ZInv, CallInv
      <3>4. c # "login" /\ calls[c].before.user = token.user
        BY <3>1, CallersAssumption DEF SameSession
      <3> QED
        BY <2>1, <3>1, <3>2, <3>3, <3>4, <1>n, LocksStep
    <2>2. CASE UNCHANGED op
      <3>1. UNCHANGED <<session, issued>>
        BY <1>2, <2>2 DEF RetryDecides, session
      <3>2. \/ calls' = [calls EXCEPT ![c] = NoCall]
            \/ /\ calls' = [calls EXCEPT ![c].pc = "retried", ![c].as = token]
               /\ SameSession(calls[c].before, token) /\ token.n # calls[c].before.n
        BY <1>2, <2>0, <2>2 DEF RetryDecides, Locks, Free
      <3>3. \A d \in Callers : d # c => calls'[d] = calls[d]
        BY <3>2, <1>n
      <3>4. \/ calls'[c] = NoCall
            \/ /\ calls'[c].as = token /\ calls'[c].before = calls[c].before
               /\ calls[c].before.user = token.user /\ token.n # calls[c].before.n
        <4>1. CASE calls' = [calls EXCEPT ![c] = NoCall]
          BY <4>1, <1>n
        <4>2. CASE calls' = [calls EXCEPT ![c].pc = "retried", ![c].as = token]
          <5>1. calls'[c] = [calls[c] EXCEPT !.pc = "retried", !.as = token]
            BY <4>2, <1>n
          <5>2. calls'[c].as = token /\ calls'[c].before = calls[c].before
            BY <5>1, <2>0 DEF Calls
          <5> QED
            BY <5>2, <3>2, <4>1 DEF SameSession
        <4> QED
          BY <3>2, <4>1, <4>2
      <3>5. RetriesAsSelf'
        BY <3>3, <3>4 DEF RetriesAsSelf, NoCall, ZInv, CallInv
      <3>6. Issued'
        BY <3>1, <3>3, <3>4, <1>n DEF session, Issued, NoCall, NoToken, ZInv
      <3>7. OpInv'
        BY <3>1 DEF session, OpInv, Settled, ZInv
      <3>8. CallInv'
        BY <2>0, <2>2, <3>5 DEF CallInv
      <3> QED
        BY <3>6, <3>7, <3>8
    <2> QED
      BY <1>2, <2>1, <2>2 DEF RetryDecides
  <1>3. ASSUME NEW ok \in BOOLEAN, Saves(ok) PROVE Issued' /\ OpInv' /\ CallInv'
    <2>1. /\ op.step = "save" /\ op' = Free /\ kept' = ok /\ file' = IF ok THEN op.got ELSE file
          /\ UNCHANGED <<token, expired, client, issued>>
      BY <1>3 DEF Saves
    <2>2. op # Free
      BY <2>1 DEF Free
    <2>3. CallInv'
      BY <1>3, <2>1, <2>2, WaiterStep DEF Saves
    <2>4. \A c \in Callers : calls'[c].before = calls[c].before \/ calls'[c] = NoCall
      BY <1>3, <1>n DEF Saves, Waiter, Calls
    <2>5. Issued'
      BY <2>1, <2>4, <1>n DEF ZInv, Issued, OpInv, NoCall, NoToken
    <2>6. OpInv'
      BY <2>1 DEF ZInv, OpInv, Settled, Free
    <2> QED
      BY <2>3, <2>5, <2>6
  <1>4. ASSUME NEW ok \in BOOLEAN, RemovesFile(ok) PROVE Issued' /\ OpInv' /\ CallInv'
    <2>1. /\ op.step = "clear" /\ op' = Free /\ kept' = ok /\ file' = IF ok THEN NoToken ELSE file
          /\ UNCHANGED <<token, expired, client, issued>>
      BY <1>4 DEF RemovesFile
    <2>2. op # Free
      BY <2>1 DEF Free
    <2>3. CallInv'
      BY <1>4, <2>1, <2>2, WaiterStep DEF RemovesFile
    <2>4. \A c \in Callers : calls'[c] = calls[c] \/ calls'[c] = NoCall
      BY <1>4, <1>n DEF RemovesFile, Waiter
    <2>5. Issued'
      BY <2>1, <2>4, <1>n DEF ZInv, Issued, NoCall, NoToken
    <2>6. OpInv'
      BY <2>1 DEF ZInv, OpInv, Settled, Free
    <2> QED
      BY <2>3, <2>5, <2>6
  <1>5. CASE Logout
    <2>1. /\ token' = NoToken /\ op' = [Free EXCEPT !.by = "logout", !.step = "unauth"] /\ ~expired'
          /\ op = Free /\ UNCHANGED <<client, file, kept, calls, issued>>
      BY <1>5 DEF Logout, Clears
    <2>2. op'.by = "logout" /\ op'.step = "unauth" /\ op'.on = "current" /\ op' # Free
      BY <2>1 DEF Free
    <2>3. Issued' /\ OpInv'
      BY <2>1, <2>2, <1>n DEF ZInv, Issued, OpInv, NoToken
    <2>4. CallInv'
      BY <2>1, <2>2, CallersAssumption DEF ZInv, CallInv, RetriesAsSelf
    <2> QED
      BY <2>3, <2>4
  <1>6. CASE LoopRefreshes
    <2>1. UNCHANGED <<token, expired, client, file, kept, calls, issued>> /\ op = Free
      BY <1>6 DEF LoopRefreshes
    <2>2. RetriesAsSelf' /\ "loop" \notin Callers
      BY <2>1, CallersAssumption DEF ZInv, CallInv, RetriesAsSelf
    <2>3. CASE Locks("loop", token)
      BY <2>1, <2>2, <2>3, <1>n, LocksStep
    <2>4. CASE UNCHANGED op
      BY <2>1, <2>2, <2>4 DEF ZInv, Issued, OpInv, Settled, CallInv
    <2> QED
      BY <1>6, <2>3, <2>4 DEF LoopRefreshes
  <1>7. CASE Authenticates
    <2> DEFINE got == [user |-> op.rt.user, n |-> issued']
    <2>1. /\ op.step = "auth" /\ issued' = issued + 1 /\ op' = [op EXCEPT !.step = "publish", !.got = got]
          /\ UNCHANGED <<token, expired, file, kept, calls>>
      BY <1>7 DEF Authenticates
    <2>2. /\ op'.step = "publish" /\ op'.got = got /\ op'.by = op.by /\ op'.rt = op.rt
          /\ got.user = op.rt.user /\ got.n = issued'
      BY <2>1, <1>n DEF Ops
    <2> HIDE DEF got
    <2>3. op # Free /\ op' # Free
      <3>1. Free.step = "none"
        BY DEF Free
      <3>2. op.step # Free.step /\ op'.step # Free.step
        BY <2>1, <2>2, <3>1
      <3> QED
        BY <3>2
    <2>4. /\ token.n \in Nat /\ file.n \in Nat /\ \A c \in Callers : calls[c].before.n \in Nat
      BY <1>n DEF Tokens, Calls, ZInv, ZTypeOK
    <2>5. Issued' /\ \A c \in Callers : calls[c].before.n < issued'
      BY <2>1, <2>4, <1>n DEF ZInv, Issued
    <2>6. OpInv'
      BY <2>1, <2>2, <2>3 DEF ZInv, OpInv
    <2>7. CallInv'
      BY <2>1, <2>2, <2>5 DEF ZInv, CallInv, RetriesAsSelf
    <2> QED
      BY <2>5, <2>6, <2>7
  <1>8. CASE Publishes
    <2>1. /\ op.step = "publish" /\ token' = op.got /\ client' = op.got /\ expired' = FALSE
          /\ op' = [op EXCEPT !.step = "save"] /\ UNCHANGED <<file, kept, calls, issued>>
      BY <1>8 DEF Publishes, GivesCurrent
    <2>2. /\ op'.step = "save" /\ op'.got = op.got /\ op'.by = op.by /\ op'.rt = op.rt /\ op' # Free
      BY <2>1, <1>n DEF Ops, Free
    <2>3. Issued'
      BY <2>1, <1>n DEF ZInv, Issued, OpInv
    <2>4. OpInv'
      BY <2>1, <2>2 DEF ZInv, OpInv
    <2>5. CallInv'
      BY <2>1, <2>2 DEF ZInv, CallInv, RetriesAsSelf
    <2> QED
      BY <2>3, <2>4, <2>5
  <1>9. CASE AuthFails
    <2>1. op.step = "auth" /\ op' = Free /\ UNCHANGED <<token, expired, client, file, kept, issued>>
      BY <1>9 DEF AuthFails
    <2>2. op # Free
      BY <2>1 DEF Free
    <2>3. CallInv'
      BY <1>9, <2>1, <2>2, WaiterStep DEF AuthFails
    <2>4. \A c \in Callers : calls'[c] = calls[c] \/ calls'[c] = NoCall
      BY <1>9, <1>n DEF AuthFails, Waiter
    <2>5. Issued'
      BY <2>1, <2>4, <1>n DEF ZInv, Issued, NoCall, NoToken
    <2>6. OpInv'
      BY <2>1 DEF ZInv, OpInv, Settled, Free
    <2> QED
      BY <2>3, <2>5, <2>6
  <1>10. CASE Rejected
    <2>0. op.step = "auth" /\ UNCHANGED <<client, file, kept, calls, issued>>
      BY <1>10 DEF Rejected
    <2>1. CASE op.by # "login"
      <3>1. token' = NoToken /\ op' = [Free EXCEPT !.by = op.by, !.step = "unauth"]
        BY <1>10, <2>1 DEF Rejected, EndsSession, Clears
      <3>2. op'.by = op.by /\ op'.step = "unauth" /\ op'.on = "current" /\ op' # Free
        BY <3>1 DEF Free
      <3>3. Issued' /\ OpInv'
        BY <2>0, <3>1, <3>2, <1>n DEF ZInv, Issued, OpInv, NoToken
      <3>4. CallInv'
        BY <2>0, <3>2 DEF ZInv, CallInv, RetriesAsSelf
      <3> QED
        BY <3>3, <3>4
    <2>2. CASE op.by = "login"
      <3>1. op' = Free /\ UNCHANGED <<token, expired>>
        BY <1>10, <2>2 DEF Rejected, EndsSession
      <3>2. Issued' /\ OpInv'
        BY <2>0, <3>1 DEF ZInv, Issued, OpInv, Settled, Free
      <3>3. CallInv'
        BY <2>0, <3>1, CallersAssumption DEF ZInv, CallInv, RetriesAsSelf, Free
      <3> QED
        BY <3>2, <3>3
    <2> QED
      BY <2>1, <2>2
  <1>11. CASE Unauthenticates
    <2>1. /\ op.step = "unauth" /\ op' = [op EXCEPT !.step = "clear"]
          /\ client' = (IF op.on = "current" THEN NoToken ELSE client)
          /\ UNCHANGED <<token, expired, file, kept, calls, issued>>
      BY <1>11 DEF Unauthenticates
    <2>2. op'.by = op.by /\ op'.step = "clear" /\ op' # Free
      BY <2>1, <1>n DEF Ops, Free
    <2>3. Issued' /\ OpInv'
      BY <2>1, <2>2 DEF ZInv, Issued, OpInv
    <2>4. CallInv'
      BY <2>1, <2>2 DEF ZInv, CallInv, RetriesAsSelf
    <2> QED
      BY <2>3, <2>4
  <1>12. CASE Reload
    <2>1. client' = token /\ UNCHANGED <<token, expired, file, kept, calls, issued>>
      BY <1>12 DEF Reload
    <2>2. CASE op = Free
      <3>1. op' = op
        BY <1>12, <2>2 DEF Reload
      <3> QED
        BY <2>1, <2>2, <3>1 DEF ZInv, Issued, OpInv, Settled, CallInv, RetriesAsSelf
    <2>3. CASE op # Free
      <3>1. op' = [op EXCEPT !.on = "replaced"]
        BY <1>12, <2>3 DEF Reload
      <3>2. /\ op'.by = op.by /\ op'.step = op.step /\ op'.rt = op.rt /\ op'.got = op.got
            /\ op.step # "none" /\ op' # Free
        BY <2>3, <3>1, <1>n DEF Ops, ZInv, OpInv, Free
      <3>3. Issued' /\ OpInv'
        BY <2>1, <3>2 DEF ZInv, Issued, OpInv, Settled
      <3>4. CallInv'
        BY <2>1, <3>2 DEF ZInv, CallInv, RetriesAsSelf
      <3> QED
        BY <3>3, <3>4
    <2> QED
      BY <2>2, <2>3
  <1>13. CASE Reboot
    <2>1. /\ token' = file /\ client' = file /\ expired' = FALSE /\ kept' = TRUE /\ op' = Free
          /\ file' = file /\ issued' = issued /\ calls' = [c \in Callers |-> NoCall]
      BY <1>13 DEF Reboot
    <2>2. \A c \in Callers : calls'[c] = NoCall /\ op'.by # c
      BY <2>1, CallersAssumption DEF Free
    <2>3. Issued' /\ OpInv'
      BY <2>1, <2>2, <1>n DEF ZInv, Issued, OpInv, Settled, Free, NoCall, NoToken
    <2>4. CallInv'
      BY <2>2 DEF CallInv, RetriesAsSelf, NoCall
    <2> QED
      BY <2>3, <2>4
  <1>14. ASSUME NEW c \in Callers, CallStarts(c) \/ CallSends(c) \/ CallDenied(c) \/ CallEnds(c)
         PROVE  Issued' /\ OpInv' /\ CallInv'
    <2>1. UNCHANGED <<session, issued>> /\ calls[c].pc # "waits"
      BY <1>14 DEF CallStarts, CallSends, CallDenied, CallEnds, NoCall
    <2>2. /\ \A d \in Callers : d # c => calls'[d] = calls[d]
          /\ calls'[c].pc # "retried" /\ calls'[c].before \in {token, calls[c].before, NoToken}
      BY <1>14, <1>n DEF CallStarts, CallSends, CallDenied, CallEnds, NoCall, Calls
    <2>3. Issued'
      BY <2>1, <2>2, <1>n DEF session, ZInv, Issued, NoToken
    <2>4. OpInv'
      BY <2>1 DEF session, ZInv, OpInv, Settled
    <2>5. CallInv'
      BY <2>1, <2>2 DEF session, ZInv, CallInv, RetriesAsSelf
    <2> QED
      BY <2>3, <2>4, <2>5
  <1>15. CASE LoopSees \/ UNCHANGED zvars
    BY <1>15 DEF LoopSees, zvars, session, ZInv, Issued, OpInv, Settled, CallInv, RetriesAsSelf
  <1> QED
    BY <1>1, <1>2, <1>3, <1>4, <1>5, <1>6, <1>7, <1>8, <1>9, <1>10, <1>11, <1>12, <1>13, <1>14, <1>15
    DEF ZNext

-----------------------------------------------------------------------------
\* What a step may do to the account, given what holds before it.
LEMMA AccountStep ==
  ASSUME ZInv, ZNext, token'.user # token.user
  PROVE  \/ op.by = "login" /\ op.step = "publish" /\ token'.user = op.rt.user
         \/ op = Free /\ op'.by = "logout"
         \/ op.by # "login" /\ op.step = "auth" /\ op.rt = token /\ token' = NoToken /\ expired'
         \/ boots' # boots
  <1>1. token' # token
    OBVIOUS
  <1>2. CASE Logout
    BY <1>2 DEF Logout, Clears, Free
  <1>3. CASE Publishes
    <2>1. op.step = "publish" /\ token' = op.got /\ op.got.user = op.rt.user
      BY <1>3 DEF Publishes, ZInv, OpInv
    <2>2. op.by = "login"
      BY <2>1 DEF ZInv, OpInv
    <2> QED
      BY <2>1, <2>2
  <1>4. CASE Rejected
    <2>1. op.step = "auth" /\ EndsSession /\ token' = NoToken /\ expired'
      BY <1>1, <1>4 DEF Rejected, Clears
    <2> QED
      BY <2>1 DEF EndsSession, ZInv, OpInv
  <1>5. CASE Reboot
    BY <1>5 DEF Reboot, ZInv, ZTypeOK
  <1>6. ASSUME NEW u \in Accounts, Login(u) PROVE FALSE
    BY <1>1, <1>6 DEF Login
  <1>7. ASSUME NEW c \in Callers,
               CallStarts(c) \/ CallSends(c) \/ CallDenied(c) \/ CallEnds(c) \/ RetryDecides(c)
        PROVE  FALSE
    BY <1>1, <1>7 DEF CallStarts, CallSends, CallDenied, CallEnds, RetryDecides, session
  <1>8. ASSUME NEW ok \in BOOLEAN, Saves(ok) \/ RemovesFile(ok) PROVE FALSE
    BY <1>1, <1>8 DEF Saves, RemovesFile
  <1>9. ASSUME LoopSees \/ LoopRefreshes \/ Authenticates \/ AuthFails \/ Unauthenticates \/ Reload
        PROVE  FALSE
    BY <1>1, <1>9 DEF LoopSees, LoopRefreshes, Authenticates, AuthFails, Unauthenticates, Reload, session
  <1> QED
    BY <1>2, <1>3, <1>4, <1>5, <1>6, <1>7, <1>8, <1>9 DEF ZNext

LEMMA SessionInvAlways == ZSpec => []ZInv
  BY SessionInit, SessionStep, PTL DEF ZSpec

\* The account in memory changes only by a login that Pixiv accepted, a logout, the end of a
\* session whose own token Pixiv rejected, or a restart: a refresh begun for another session
\* never puts that session back (service.go).
THEOREM AccountHeldAlways == ZSpec => AccountHeld
  <1>1. ZInv /\ [ZNext]_zvars =>
          [token'.user # token.user =>
             \/ op.by = "login" /\ op.step = "publish" /\ token'.user = op.rt.user
             \/ op = Free /\ op'.by = "logout"
             \/ op.by # "login" /\ op.step = "auth" /\ op.rt = token /\ token' = NoToken /\ expired'
             \/ boots' # boots]_zvars
    BY AccountStep
  <1> QED
    BY <1>1, SessionInvAlways, PTL DEF ZSpec, AccountHeld

\* However logins, logouts, refreshes and restarts fall between the parts of a call, its retry
\* runs for the account it was made for and with another token (call.go).
THEOREM RetriesAsSelfAlways == ZSpec => []RetriesAsSelf
  <1>1. ZInv => RetriesAsSelf
    BY DEF ZInv, CallInv
  <1> QED
    BY <1>1, SessionInvAlways, PTL

\* Between the changes of the session memory, client and file agree, unless the last write
\* failed, though the client may be replaced at any moment of a change (service.go).
THEOREM SessionInStepAlways == ZSpec => []SessionInStep
  <1>1. ZInv => SessionInStep
    BY DEF ZInv, OpInv, Settled, SessionInStep, Free
  <1> QED
    BY <1>1, SessionInvAlways, PTL
=============================================================================
