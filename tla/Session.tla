------------------------------- MODULE Session -------------------------------
(***************************************************************************)
(* Signing in: the tabs of one browser (AuthProvider, apiFetch), which     *)
(* share the cookie jar and the local storage, and api-service             *)
(* (auth_service, token_store), which accepts of a user only the refresh   *)
(* token it issued last, and replaces it at every refresh.                 *)
(*                                                                         *)
(* Refresh tokens are numbered as they are issued, and the access token    *)
(* that is issued with one has its number.  One user; passwords are right. *)
(* A "Fault" definition is a plausible bug in the definition after it.     *)
(***************************************************************************)
EXTENDS Integers, FiniteSets

CONSTANTS
  Tabs,
  MaxRequests,  \* bound: logins, logouts and timed refreshes
  MaxCalls,     \* bound: api calls, with the refreshes they need
  MaxFaults     \* bound

ASSUME BoundsAssumption == MaxRequests \in Nat /\ MaxCalls \in Nat /\ MaxFaults \in Nat

None == 0
Slots == {"refresh", "user"}    \* a tab has one refresh, and one login or logout, under way
Stores == {"redis", "mem"}      \* TokenStore falls back to the memory of the process

VARIABLES
  \* the service
  current,   \* [Stores -> token or None]: user_refresh_jti
  revoked,   \* [Stores -> set of tokens]: revoked_refresh
  issued,    \* tokens so far
  expired,   \* the access tokens up to this one have expired
  \* the browser
  jar,       \* the refresh token of the cookie, or None
  disk,      \* localStorage: the access token, or None
  token,     \* [Tabs -> access token or None]: the state of the provider
  req,       \* [Tabs \X Slots -> request]
  call,      \* [Tabs -> [phase, token]]: an api call
  \* bounds and history
  begun,     \* bound: requests and calls so far
  faults,    \* bound: faults so far
  signed,    \* the tabs that are signed in and have not seen a logout
  disturbed, \* a fault, a login elsewhere, or two requests under way at once
  out        \* a logout was handled, with no refresh half done, and no login since

vars == <<current, revoked, issued, expired, jar, disk, token, req, call, begun, faults, signed, disturbed, out>>
server == <<current, revoked, issued>>
browser == <<jar, disk, token>>
history == <<signed, disturbed, out>>

\* op: what is asked; jti: the cookie that was sent, then the token of the answer;
\* gone: the tab does not listen any more.
Idle == [op |-> "none", phase |-> "idle", store |-> "redis", jti |-> None, ok |-> FALSE, gone |-> FALSE]
NoCall == [phase |-> "idle", token |-> None]

Flying == {k \in Tabs \X Slots : req[k].phase # "idle"}

SessionTypeOK ==
  /\ current \in [Stores -> 0 .. issued] /\ revoked \in [Stores -> SUBSET (1 .. issued)]
  /\ expired \in 0 .. issued /\ jar \in 0 .. issued /\ disk \in 0 .. issued
  /\ token \in [Tabs -> 0 .. issued]
  /\ \A k \in Flying : req[k].phase \in {"sent", "checked", "answered"} /\ req[k].jti \in 0 .. issued
  /\ \A t \in Tabs :
       /\ call[t].phase \in {"idle", "sent", "waits", "again"}
       /\ call[t].phase = "waits" => <<t, "refresh">> \in Flying /\ ~req[<<t, "refresh">>].gone

SessionInit ==
  /\ current = [s \in Stores |-> None] /\ revoked = [s \in Stores |-> {}]
  /\ issued = 0 /\ expired = 0
  /\ jar = None /\ disk = None /\ token = [t \in Tabs |-> None]
  /\ req = [k \in Tabs \X Slots |-> Idle]
  /\ call = [t \in Tabs |-> NoCall]
  /\ begun = [request |-> 0, call |-> 0] /\ faults = 0
  /\ signed = {} /\ disturbed = FALSE /\ out = FALSE

-----------------------------------------------------------------------------
(* The tabs send *)

Sent(op) == [Idle EXCEPT !.op = op, !.phase = "sent", !.jti = jar]
Begin == begun.request < MaxRequests /\ begun' = [begun EXCEPT !.request = @ + 1]

\* login and register.
Login(t) ==
  /\ Begin /\ req[<<t, "user">>] = Idle
  /\ req' = [req EXCEPT ![<<t, "user">>] = Sent("login")]
  /\ disturbed' = (disturbed \/ Flying # {})
  /\ UNCHANGED <<server, browser, expired, call, faults, signed, out>>

Logout(t) ==
  /\ Begin /\ req[<<t, "user">>] = Idle
  /\ req' = [req EXCEPT ![<<t, "user">>] = Sent("logout")]
  /\ signed' = {}
  /\ disturbed' = (disturbed \/ Flying # {})
  /\ UNCHANGED <<server, browser, expired, call, faults, out>>

\* The timer of the proactive refresh: it runs while there is a user token, and
\* joins the refresh that is in flight.
Timer(t) ==
  /\ Begin /\ token[t] # None /\ req[<<t, "refresh">>] = Idle
  /\ req' = [req EXCEPT ![<<t, "refresh">>] = Sent("refresh")]
  /\ disturbed' = (disturbed \/ Flying # {})
  /\ UNCHANGED <<server, browser, expired, call, faults, signed, out>>

\* apiFetch with the token of the tab.
Call(t) ==
  /\ begun.call < MaxCalls /\ begun' = [begun EXCEPT !.call = @ + 1]
  /\ call[t] = NoCall
  /\ call' = [call EXCEPT ![t] = [phase |-> "sent", token |-> token[t]]]
  /\ UNCHANGED <<server, browser, expired, req, faults, history>>

\* get_current_user: the token is there and has not expired.
Accepted(tk) == tk # None /\ tk > expired

\* The call is over: it was accepted, or it was the second try.
EndCall(t) ==
  /\ \/ call[t].phase = "sent" /\ Accepted(call[t].token)
     \/ call[t].phase = "again"
  /\ call' = [call EXCEPT ![t] = NoCall]
  /\ UNCHANGED <<server, browser, expired, req, begun, faults, history>>

\* Fault: the refresh that was given up is taken for one in flight.
WaitForGone(t) ==
  /\ call[t].phase = "sent" /\ ~Accepted(call[t].token)
  /\ call' = [call EXCEPT ![t].phase = "waits"]
  /\ IF <<t, "refresh">> \in Flying THEN UNCHANGED <<req, disturbed>>
     ELSE /\ req' = [req EXCEPT ![<<t, "refresh">>] = Sent("refresh")]
          /\ disturbed' = (disturbed \/ Flying # {})
  /\ UNCHANGED <<server, browser, expired, begun, faults, signed, out>>

\* 401: the call waits for the refresh in flight, or for a new one.  (Bound: a
\* reloaded tab waits until the server is done with the refresh it forgot.)
Wait(t) ==
  /\ call[t].phase = "sent" /\ ~Accepted(call[t].token)
  /\ ~req[<<t, "refresh">>].gone
  /\ call' = [call EXCEPT ![t].phase = "waits"]
  /\ IF <<t, "refresh">> \in Flying THEN UNCHANGED <<req, disturbed>>
     ELSE /\ req' = [req EXCEPT ![<<t, "refresh">>] = Sent("refresh")]
          /\ disturbed' = (disturbed \/ Flying # {})
  /\ UNCHANGED <<server, browser, expired, begun, faults, signed, out>>

-----------------------------------------------------------------------------
(* The service *)

Faulty == faults < MaxFaults /\ faults' = faults + 1

\* Redis does not answer the ping: this request uses the memory of the process.
StoreOf(s) == IF s = "redis" THEN UNCHANGED <<faults, disturbed>> ELSE Faulty /\ disturbed' = TRUE

Answer(k, ok, jti) == req' = [req EXCEPT ![k].phase = "answered", ![k].store = "redis", ![k].ok = ok, ![k].jti = jti]

\* password_login
ServeLogin(k) ==
  /\ req[k].phase = "sent" /\ req[k].op = "login"
  /\ \E s \in Stores :
       /\ StoreOf(s)
       /\ issued' = issued + 1
       /\ current' = [current EXCEPT ![s] = issued']
       /\ Answer(k, TRUE, issued')
  /\ out' = FALSE
  /\ UNCHANGED <<revoked, expired, browser, call, begun, signed>>

HalfDone == \E k \in Flying : req[k].phase = "checked"

\* Fault: a logout revokes the token that it got and no other.
ServeLogoutRevokesOnly(k) ==
  /\ req[k].phase = "sent" /\ req[k].op = "logout"
  /\ \E s \in Stores :
       /\ StoreOf(s)
       /\ IF req[k].jti = None THEN UNCHANGED <<revoked, out>>
          ELSE /\ revoked' = [revoked EXCEPT ![s] = @ \cup {req[k].jti}]
               /\ out' = (out \/ (s = "redis" /\ ~HalfDone))
       /\ Answer(k, TRUE, None)
  /\ UNCHANGED <<current, issued, expired, browser, call, begun, signed>>

\* logout: with no cookie there is nothing to do but to clear it.
ServeLogout(k) ==
  /\ req[k].phase = "sent" /\ req[k].op = "logout"
  /\ \E s \in Stores :
       /\ StoreOf(s)
       /\ IF req[k].jti = None THEN UNCHANGED <<current, revoked, out>>
          ELSE /\ current' = [current EXCEPT ![s] = None]
               /\ revoked' = [revoked EXCEPT ![s] = @ \cup {req[k].jti}]
               /\ out' = (out \/ (s = "redis" /\ ~HalfDone))
       /\ Answer(k, TRUE, None)
  /\ UNCHANGED <<issued, expired, browser, call, begun, signed>>

\* refresh up to its checks; one that was replaced before is revoked (again).
CheckRefresh(k) ==
  /\ req[k].phase = "sent" /\ req[k].op = "refresh"
  /\ \E s \in Stores :
       /\ StoreOf(s)
       /\ IF req[k].jti # None /\ req[k].jti \notin revoked[s] /\ req[k].jti = current[s]
          THEN req' = [req EXCEPT ![k].phase = "checked", ![k].store = s] /\ UNCHANGED revoked
          ELSE /\ Answer(k, FALSE, None)
               /\ revoked' = IF req[k].jti \notin {None} \cup revoked[s] /\ current[s] # None
                             THEN [revoked EXCEPT ![s] = @ \cup {req[k].jti}] ELSE revoked
  /\ UNCHANGED <<current, issued, expired, browser, call, begun, signed, out>>

\* Fault: the replaced token is revoked, and stays the current one.
RotateKeepsCurrent(k) ==
  /\ req[k].phase = "checked"
  /\ issued' = issued + 1
  /\ revoked' = [revoked EXCEPT ![req[k].store] = @ \cup {req[k].jti}]
  /\ Answer(k, TRUE, issued')
  /\ UNCHANGED <<current, expired, browser, call, begun, faults, history>>

\* The rest of refresh, once the user was read.
Rotate(k) ==
  /\ req[k].phase = "checked"
  /\ issued' = issued + 1
  /\ revoked' = [revoked EXCEPT ![req[k].store] = @ \cup {req[k].jti}]
  /\ current' = [current EXCEPT ![req[k].store] = issued']
  /\ Answer(k, TRUE, issued')
  /\ UNCHANGED <<expired, browser, call, begun, faults, history>>

\* The process starts anew: its memory is lost, and what it was about to answer.
Restart ==
  /\ Faulty
  /\ current["mem"] # None \/ revoked["mem"] # {} \/ \E k \in Flying : req[k].phase = "checked"
  /\ current' = [current EXCEPT !["mem"] = None]
  /\ revoked' = [revoked EXCEPT !["mem"] = {}]
  /\ req' = [k \in Tabs \X Slots |->
       IF req[k].phase = "checked" THEN [req[k] EXCEPT !.phase = "answered", !.ok = FALSE] ELSE req[k]]
  /\ disturbed' = TRUE
  /\ UNCHANGED <<issued, expired, browser, call, begun, signed, out>>

LoginElsewhere ==
  /\ Begin
  /\ issued' = issued + 1
  /\ current' = [current EXCEPT !["redis"] = issued']
  /\ disturbed' = TRUE
  /\ out' = FALSE
  /\ UNCHANGED <<revoked, expired, browser, req, call, faults, signed>>

Expire ==
  /\ expired < issued
  /\ expired' = expired + 1
  /\ UNCHANGED <<server, browser, req, call, begun, faults, history>>

-----------------------------------------------------------------------------
(* The tabs receive *)

\* updateStored: the state of the tab and the storage.
Store(t, tk) == token' = [token EXCEPT ![t] = tk] /\ disk' = tk

\* The call that waited for the refresh of its tab is tried again with its token,
\* or fails with it.
Resume(t, tk) ==
  call' = IF call[t].phase # "waits" THEN call
          ELSE [call EXCEPT ![t] = IF tk = None THEN NoCall ELSE [phase |-> "again", token |-> tk]]

\* Fault: a refresh that fails does not settle its promise.
FailWithoutResume(t) == Store(t, None) /\ UNCHANGED call

\* refresh that fails: the user is signed out.
Fail(t) == Store(t, None) /\ Resume(t, None)

\* Answers of a request; a tab that does not listen leaves them to the browser,
\* which dropped the request.
Receive(k) ==
  /\ req[k].phase = "answered"
  /\ LET t == k[1]
         r == req[k]
     IN \/ r.gone /\ UNCHANGED <<browser, call, signed>>
        \/ ~r.gone /\ r.op = "logout" /\ jar' = None /\ Store(t, None) /\ UNCHANGED <<call, signed>>
        \/ ~r.gone /\ r.op = "login" /\ jar' = r.jti /\ Store(t, r.jti)
           /\ signed' = signed \cup {t} /\ UNCHANGED call
        \/ ~r.gone /\ r.op = "refresh" /\ r.ok /\ jar' = r.jti /\ Store(t, r.jti)
           /\ Resume(t, r.jti) /\ UNCHANGED signed
        \/ ~r.gone /\ r.op = "refresh" /\ ~r.ok /\ Fail(t) /\ UNCHANGED <<jar, signed>>
  /\ req' = [req EXCEPT ![k] = Idle]
  /\ UNCHANGED <<server, expired, begun, faults, disturbed, out>>

\* The connection breaks, before the request was handled or after.  A logout
\* clears the state of the tab all the same; the cookie stays.
Lose(k) ==
  /\ Faulty
  /\ req[k].phase \in {"sent", "answered"} /\ ~req[k].gone
  /\ CASE req[k].op = "refresh" -> Fail(k[1])
       [] req[k].op = "logout" -> Store(k[1], None) /\ UNCHANGED call
       [] req[k].op = "login" -> UNCHANGED <<token, disk, call>>
  /\ req' = [req EXCEPT ![k] = Idle]
  /\ disturbed' = TRUE
  /\ UNCHANGED <<server, expired, jar, begun, signed, out>>

\* The page is loaded again, and nothing of before is waited for.
Reload(t) ==
  /\ Faulty
  /\ token[t] # disk \/ call[t] # NoCall \/ \E s \in Slots : <<t, s>> \in Flying
  /\ token' = [token EXCEPT ![t] = disk]
  /\ call' = [call EXCEPT ![t] = NoCall]
  /\ req' = [k \in Tabs \X Slots |-> IF k[1] = t /\ k \in Flying THEN [req[k] EXCEPT !.gone = TRUE] ELSE req[k]]
  /\ signed' = IF disk # None /\ signed # {} THEN signed \cup {t} ELSE signed \ {t}
  /\ disturbed' = (disturbed \/ \E s \in Slots : <<t, s>> \in Flying)
  /\ UNCHANGED <<server, expired, jar, disk, begun, out>>

Serve(k) == ServeLogin(k) \/ ServeLogout(k) \/ CheckRefresh(k) \/ Rotate(k)

Next ==
  \/ \E t \in Tabs : Login(t) \/ Logout(t) \/ Timer(t) \/ Call(t) \/ EndCall(t) \/ Wait(t) \/ Reload(t)
  \/ \E k \in Tabs \X Slots : Serve(k) \/ Receive(k) \/ Lose(k)
  \/ Restart \/ LoginElsewhere \/ Expire

\* The service handles what reaches it, and the browser hears of it.  As there are
\* only so many requests, it is enough that some request or call moves on.
Fairness ==
  /\ WF_vars(\E k \in Tabs \X Slots : Serve(k) \/ Receive(k))
  /\ WF_vars(\E t \in Tabs : EndCall(t) \/ Wait(t))

SessionSpec == SessionInit /\ [][Next]_vars /\ Fairness

-----------------------------------------------------------------------------
(* Properties *)

\* Whoever signed in stays so until a logout, however often the tabs refresh, as
\* long as their requests do not overlap and none is lost: each tab has its
\* token, and the cookie that they share is the one the service takes.
KeepsSession ==
  ~disturbed =>
    /\ \A t \in signed : token[t] # None
    /\ signed # {} /\ Flying = {} => jar = current["redis"] /\ jar \notin revoked["redis"]

\* After the service handled a logout, no refresh succeeds until the next login,
\* whichever cookie the logout came with, unless a refresh was being handled.
LogoutStays ==
  out => /\ current["redis"] \in {None} \cup revoked["redis"]
         /\ \A k \in Flying : req[k].phase = "checked" => req[k].store = "mem"

\* The api calls end, with an answer or an error: each waits at most for one
\* refresh and is repeated at most once.  (As there are only so many calls, this is
\* said of all of them together.)
CallsEnd == (\E t \in Tabs : call[t] # NoCall) ~> (\A t \in Tabs : call[t] = NoCall)

=============================================================================
