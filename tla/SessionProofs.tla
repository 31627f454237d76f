---------------------------- MODULE SessionProofs ----------------------------
(***************************************************************************)
(* Proofs about Session, for any number of tabs, requests, calls and       *)
(* faults: its types, that a logout stays (which is inductive once the     *)
(* types are known), and that a session is kept, for which KeepsInv says   *)
(* of the one request that is under way what it carries and what it may    *)
(* be answered.                                                            *)
(***************************************************************************)
EXTENDS Session, TLAPS

-----------------------------------------------------------------------------
(* Types *)

\* A request: the refresh slot has refreshes, the other one logins and logouts, and
\* a refresh that passed its checks has a token.
Requests(n) ==
  [op : {"none", "login", "logout", "refresh"}, phase : {"idle", "sent", "checked", "answered"},
   store : Stores, jti : 0 .. n, ok : BOOLEAN, gone : BOOLEAN]
Calls(n) == [phase : {"idle", "sent", "waits", "again"}, token : 0 .. n]

\* All tokens are among the first n.
TypesUpTo(n) ==
  /\ current \in [Stores -> 0 .. n] /\ revoked \in [Stores -> SUBSET (1 .. n)]
  /\ expired \in 0 .. n /\ jar \in 0 .. n /\ disk \in 0 .. n
  /\ token \in [Tabs -> 0 .. n]
  /\ req \in [Tabs \X Slots -> Requests(n)]
  /\ call \in [Tabs -> Calls(n)]

SlotsInv ==
  \A t \in Tabs :
    /\ req[<<t, "refresh">>].phase # "idle" => req[<<t, "refresh">>].op = "refresh"
    /\ req[<<t, "user">>].phase # "idle" => req[<<t, "user">>].op \in {"login", "logout"}
    /\ req[<<t, "refresh">>].phase = "checked" => req[<<t, "refresh">>].jti # None
    /\ req[<<t, "user">>].phase # "checked"

WaitsInv ==
  \A t \in Tabs : call[t].phase = "waits" =>
    req[<<t, "refresh">>].phase # "idle" /\ ~req[<<t, "refresh">>].gone

TypeInv == issued \in Nat /\ TypesUpTo(issued) /\ SlotsInv /\ WaitsInv

\* What is a token stays one when another is issued.
LEMMA Widen ==
  ASSUME NEW n \in Nat, TypesUpTo(n)
  PROVE  TypesUpTo(n + 1)
<1>1. 0 .. n \subseteq 0 .. n + 1 /\ 1 .. n \subseteq 1 .. n + 1
  OBVIOUS
<1>2. Requests(n) \subseteq Requests(n + 1) /\ Calls(n) \subseteq Calls(n + 1)
  BY <1>1 DEF Requests, Calls
<1> QED BY <1>1, <1>2 DEF TypesUpTo

LEMMA TypeStart == SessionInit => TypeInv
BY DEF SessionInit, TypeInv, TypesUpTo, SlotsInv, WaitsInv, Requests, Calls, Idle, NoCall, None, Stores, Slots

\* The fields of a request that is answered.
LEMMA AnswerIs ==
  ASSUME NEW n, NEW k \in Tabs \X Slots, req \in [Tabs \X Slots -> Requests(n)],
         NEW ok \in BOOLEAN, NEW jti \in 0 .. n, Answer(k, ok, jti)
  PROVE  /\ req' \in [Tabs \X Slots -> Requests(n)]
         /\ req'[k] = [op |-> req[k].op, phase |-> "answered", store |-> "redis", jti |-> jti, ok |-> ok, gone |-> req[k].gone]
         /\ \A l \in Tabs \X Slots : l # k => req'[l] = req[l]
<1> DEFINE a == [op |-> req[k].op, phase |-> "answered", store |-> "redis", jti |-> jti, ok |-> ok, gone |-> req[k].gone]
<1>1. req[k] \in Requests(n)
  OBVIOUS
<1>2. a \in Requests(n)
  BY <1>1 DEF Requests, Stores
<1>3. [[[[req[k] EXCEPT !.phase = "answered"] EXCEPT !.store = "redis"] EXCEPT !.ok = ok] EXCEPT !.jti = jti] = a
  <2> DEFINE r == req[k]
             R == [op : {"none", "login", "logout", "refresh"}, phase : {"idle", "sent", "checked", "answered"},
                   store : Stores, jti : 0 .. n, ok : BOOLEAN, gone : BOOLEAN]
  <2>1. r \in R
    BY <1>1 DEF Requests
  <2> HIDE DEF r
  <2> DEFINE r1 == [r EXCEPT !.phase = "answered"]
             r2 == [r1 EXCEPT !.store = "redis"]
             r3 == [r2 EXCEPT !.ok = ok]
             r4 == [r3 EXCEPT !.jti = jti]
  <2>2. r1 = [op |-> r.op, phase |-> "answered", store |-> r.store, jti |-> r.jti, ok |-> r.ok, gone |-> r.gone]
    BY <2>1
  <2> HIDE DEF r1
  <2>3. r2 = [op |-> r.op, phase |-> "answered", store |-> "redis", jti |-> r.jti, ok |-> r.ok, gone |-> r.gone]
    BY <2>2
  <2> HIDE DEF r2
  <2>4. r3 = [op |-> r.op, phase |-> "answered", store |-> "redis", jti |-> r.jti, ok |-> ok, gone |-> r.gone]
    BY <2>3
  <2> HIDE DEF r3
  <2>5. r4 = [op |-> r.op, phase |-> "answered", store |-> "redis", jti |-> jti, ok |-> ok, gone |-> r.gone]
    BY <2>4
  <2> HIDE DEF r4
  <2>6. r4 = a
    BY <2>5 DEF r
  <2> QED BY <2>6 DEF r1, r2, r3, r4, r
<1>4. req' = [req EXCEPT ![k] = a]
  BY <1>3 DEF Answer
<1> QED BY <1>2, <1>4

Keys == Tabs \X Slots

LEMMA KeysAre == \A k \in Keys : \E t \in Tabs : k = <<t, "refresh">> \/ k = <<t, "user">>
BY DEF Keys, Slots

LEMMA TypeOfRequest ==
  ASSUME NEW n \in Nat, NEW k \in Keys, TypesUpTo(n)
  PROVE  /\ req[k] \in Requests(n) /\ req[k].jti \in 0 .. n /\ req[k].store \in Stores
         /\ req[k].op \in {"none", "login", "logout", "refresh"}
         /\ req[k].phase \in {"idle", "sent", "checked", "answered"}
         /\ req[k].ok \in BOOLEAN /\ req[k].gone \in BOOLEAN
BY DEF TypesUpTo, Requests, Keys

\* A request as it is sent.
LEMMA SentIs ==
  ASSUME NEW n \in Nat, jar \in 0 .. n, NEW op \in {"login", "logout", "refresh"}
  PROVE  /\ Sent(op) = [op |-> op, phase |-> "sent", store |-> "redis", jti |-> jar, ok |-> FALSE, gone |-> FALSE]
         /\ Sent(op) \in Requests(n)
<1> DEFINE R == [op : {"none", "login", "logout", "refresh"}, phase : {"idle", "sent", "checked", "answered"},
                 store : Stores, jti : 0 .. n, ok : BOOLEAN, gone : BOOLEAN]
           r0 == [op |-> "none", phase |-> "idle", store |-> "redis", jti |-> None, ok |-> FALSE, gone |-> FALSE]
<1>1. r0 \in R
  BY DEF Stores, None
<1> HIDE DEF r0
<1> DEFINE r1 == [r0 EXCEPT !.op = op]
           r2 == [r1 EXCEPT !.phase = "sent"]
           r3 == [r2 EXCEPT !.jti = jar]
<1>2. r1 = [op |-> op, phase |-> r0.phase, store |-> r0.store, jti |-> r0.jti, ok |-> r0.ok, gone |-> r0.gone]
  BY <1>1
<1> HIDE DEF r1
<1>3. r2 = [op |-> op, phase |-> "sent", store |-> r0.store, jti |-> r0.jti, ok |-> r0.ok, gone |-> r0.gone]
  BY <1>1, <1>2
<1> HIDE DEF r2
<1>4. r3 = [op |-> op, phase |-> "sent", store |-> r0.store, jti |-> jar, ok |-> r0.ok, gone |-> r0.gone]
  BY <1>1, <1>3
<1> HIDE DEF r3
<1>5. r3 = [op |-> op, phase |-> "sent", store |-> "redis", jti |-> jar, ok |-> FALSE, gone |-> FALSE]
  BY <1>4 DEF r0
<1>6. Sent(op) = r3
  BY DEF Sent, Idle, r0, r1, r2, r3
<1> QED BY <1>5, <1>6 DEF Requests, Stores

LEMMA IdleIs == \A n \in Nat : Idle \in Requests(n) /\ Idle.phase = "idle"
BY DEF Idle, Requests, Stores, None

\* Where a step replaces one request by one that fits its slot, the others stay.
LEMMA TypeOfOne ==
  ASSUME NEW n \in Nat, TypesUpTo(n), SlotsInv, WaitsInv, NEW k \in Keys, NEW r \in Requests(n),
         req' = [req EXCEPT ![k] = r],
         k[2] = "refresh" => /\ r.phase # "idle" => r.op = "refresh"
                             /\ r.phase = "checked" => r.jti # None,
         k[2] = "user" => /\ r.phase # "idle" => r.op \in {"login", "logout"}
                          /\ r.phase # "checked",
         \A t \in Tabs : call'[t].phase = "waits" =>
           IF k = <<t, "refresh">> THEN r.phase # "idle" /\ ~r.gone ELSE call[t].phase = "waits"
  PROVE  req' \in [Tabs \X Slots -> Requests(n)] /\ SlotsInv' /\ WaitsInv'
<1>1. req' \in [Tabs \X Slots -> Requests(n)]
  BY DEF TypesUpTo
<1>2. \A l \in Keys : req'[l] = IF l = k THEN r ELSE req[l]
  BY DEF TypesUpTo, Keys
<1>3. \A t \in Tabs : <<t, "refresh">> \in Keys /\ <<t, "user">> \in Keys
  BY DEF Keys, Slots
<1>4. SlotsInv'
  <2> SUFFICES ASSUME NEW t \in Tabs
               PROVE  /\ req'[<<t, "refresh">>].phase # "idle" => req'[<<t, "refresh">>].op = "refresh"
                      /\ req'[<<t, "user">>].phase # "idle" => req'[<<t, "user">>].op \in {"login", "logout"}
                      /\ req'[<<t, "refresh">>].phase = "checked" => req'[<<t, "refresh">>].jti # None
                      /\ req'[<<t, "user">>].phase # "checked"
    BY DEF SlotsInv
  <2>1. CASE k = <<t, "refresh">>
    <3>1. req'[<<t, "refresh">>] = r /\ req'[<<t, "user">>] = req[<<t, "user">>] /\ k[2] = "refresh"
      BY <2>1, <1>2, <1>3
    <3> QED BY <3>1 DEF SlotsInv
  <2>2. CASE k = <<t, "user">>
    <3>1. req'[<<t, "user">>] = r /\ req'[<<t, "refresh">>] = req[<<t, "refresh">>] /\ k[2] = "user"
      BY <2>2, <1>2, <1>3
    <3> QED BY <3>1 DEF SlotsInv
  <2>3. CASE k # <<t, "refresh">> /\ k # <<t, "user">>
    <3>1. req'[<<t, "user">>] = req[<<t, "user">>] /\ req'[<<t, "refresh">>] = req[<<t, "refresh">>]
      BY <2>3, <1>2, <1>3
    <3> QED BY <3>1 DEF SlotsInv
  <2> QED BY <2>1, <2>2, <2>3
<1>5. WaitsInv'
  <2> SUFFICES ASSUME NEW t \in Tabs, call'[t].phase = "waits"
               PROVE  req'[<<t, "refresh">>].phase # "idle" /\ ~req'[<<t, "refresh">>].gone
    BY DEF WaitsInv
  <2>1. req'[<<t, "refresh">>] = IF <<t, "refresh">> = k THEN r ELSE req[<<t, "refresh">>]
    BY <1>2, <1>3
  <2> QED BY <2>1 DEF WaitsInv
<1> QED BY <1>1, <1>4, <1>5

LEMMA TypeKept == TypeInv /\ UNCHANGED vars => TypeInv'
BY DEF vars, TypeInv, TypesUpTo, SlotsInv, WaitsInv

\* The tabs send.
LEMMA TypeSends ==
  ASSUME TypeInv, NEW t \in Tabs, Login(t) \/ Logout(t) \/ Timer(t) \/ Wait(t)
  PROVE  TypeInv'
<1> DEFINE n == issued
<1>0. n \in Nat /\ TypesUpTo(n) /\ SlotsInv /\ WaitsInv
  BY DEF TypeInv
<1>1. jar \in 0 .. n
  BY <1>0 DEF TypesUpTo
<1>2. <<t, "user">> \in Keys /\ <<t, "refresh">> \in Keys
  BY DEF Keys, Slots
<1>3. req' = req \/ \E s \in Slots, op \in {"login", "logout", "refresh"} :
        /\ req' = [req EXCEPT ![<<t, s>>] = Sent(op)]
        /\ IF op = "refresh" THEN s = "refresh" ELSE s = "user"
        /\ req[<<t, s>>].phase = "idle"
  <2>1. CASE Login(t)
    BY <2>1, <1>0, IdleIs DEF Login, Slots
  <2>2. CASE Logout(t)
    BY <2>2, <1>0, IdleIs DEF Logout, Slots
  <2>3. CASE Timer(t)
    BY <2>3, <1>0, IdleIs DEF Timer, Slots
  <2>4. CASE Wait(t)
    BY <2>4, <1>2 DEF Wait, Slots, Flying, Keys
  <2> QED BY <2>1, <2>2, <2>3, <2>4
<1>4. /\ issued' = n /\ UNCHANGED <<current, revoked, expired, jar, disk, token>>
      /\ \A u \in Tabs : call'[u].phase = "waits" => call[u].phase = "waits" \/ (u = t /\ Wait(t))
      /\ call' \in [Tabs -> Calls(n)]
  <2>1. call \in [Tabs -> Calls(n)]
    BY <1>0 DEF TypesUpTo
  <2>2. CASE ~Wait(t)
    BY <2>1, <2>2 DEF Login, Logout, Timer, server, browser
  <2>3. CASE Wait(t)
    <3> DEFINE c == [call[t] EXCEPT !.phase = "waits"]
    <3>1. c \in Calls(n)
      BY <2>1 DEF Calls
    <3>2. call' = [call EXCEPT ![t] = c]
      BY <2>3 DEF Wait
    <3>3. \A u \in Tabs : u # t => call'[u] = call[u]
      BY <3>2, <2>1
    <3>4. call' \in [Tabs -> Calls(n)]
      BY <3>1, <3>2, <2>1
    <3> QED BY <3>3, <3>4, <2>3 DEF Wait, server, browser
  <2> QED BY <2>2, <2>3
<1>5. req' \in [Tabs \X Slots -> Requests(n)] /\ SlotsInv' /\ WaitsInv'
  <2>1. CASE req' = req
    <3>1. Wait(t) => req[<<t, "refresh">>].phase # "idle" /\ ~req[<<t, "refresh">>].gone
      <4> SUFFICES ASSUME Wait(t) PROVE req[<<t, "refresh">>].phase # "idle" /\ ~req[<<t, "refresh">>].gone
        OBVIOUS
      <4>1. CASE <<t, "refresh">> \in Flying
        BY <4>1 DEF Wait, Flying
      <4>2. CASE <<t, "refresh">> \notin Flying
        <5>1. req' = [req EXCEPT ![<<t, "refresh">>] = Sent("refresh")]
          BY <4>2 DEF Wait
        <5>2. req[<<t, "refresh">>] = Sent("refresh")
          BY <5>1, <2>1, <1>0, <1>2 DEF TypesUpTo, Keys
        <5> QED BY <5>2, SentIs, <1>0, <1>1
      <4> QED BY <4>1, <4>2
    <3> QED BY <2>1, <3>1, <1>0, <1>4 DEF TypesUpTo, SlotsInv, WaitsInv
  <2>2. ASSUME NEW s \in Slots, NEW op \in {"login", "logout", "refresh"},
               req' = [req EXCEPT ![<<t, s>>] = Sent(op)],
               IF op = "refresh" THEN s = "refresh" ELSE s = "user",
               req[<<t, s>>].phase = "idle"
        PROVE  req' \in [Tabs \X Slots -> Requests(n)] /\ SlotsInv' /\ WaitsInv'
    <3> DEFINE k == <<t, s>>
               r == Sent(op)
    <3>1. r \in Requests(n) /\ r.phase = "sent" /\ r.op = op /\ ~r.gone
      BY SentIs, <1>0, <1>1
    <3>2. k \in Keys /\ k[2] = s
      BY DEF Keys
    <3>3. \A u \in Tabs : call'[u].phase = "waits" =>
            IF k = <<u, "refresh">> THEN r.phase # "idle" /\ ~r.gone ELSE call[u].phase = "waits"
      <4> SUFFICES ASSUME NEW u \in Tabs, call'[u].phase = "waits", k # <<u, "refresh">>
                   PROVE  call[u].phase = "waits"
        BY <3>1
      <4> SUFFICES ASSUME u = t, Wait(t) PROVE FALSE
        BY <1>4
      <4>2. s = "user"
        BY DEF Slots
      <4>3. <<t, "user">> # <<t, "refresh">>
        OBVIOUS
      <4>4. req'[<<t, "user">>] = req[<<t, "user">>]
        <5>1. req' = req \/ req' = [req EXCEPT ![<<t, "refresh">>] = Sent("refresh")]
          BY DEF Wait
        <5> QED BY <5>1, <4>3, <1>0, <1>2 DEF TypesUpTo, Keys
      <4>5. req'[<<t, "user">>] = Sent(op)
        BY <4>2, <2>2, <1>0, <1>2 DEF TypesUpTo, Keys
      <4> QED BY <4>4, <4>5, <4>2, <2>2, <3>1
    <3> HIDE DEF r, k
    <3>4. req' = [req EXCEPT ![k] = r]
      BY <2>2 DEF k, r
    <3>5. s = "refresh" <=> op = "refresh"
      BY <2>2
    <3> HIDE DEF n
    <3> QED BY <3>1, <3>2, <3>3, <3>4, <3>5, <1>0, TypeOfOne
  <2> QED BY <1>3, <2>1, <2>2
<1> QED BY <1>0, <1>4, <1>5 DEF TypeInv, TypesUpTo

\* A request in its slot.
LEMMA SlotOf ==
  ASSUME SlotsInv, NEW k \in Keys, req[k].phase # "idle"
  PROVE  /\ k[2] = "refresh" <=> req[k].op = "refresh"
         /\ k[2] = "user" <=> req[k].op \in {"login", "logout"}
         /\ req[k].phase = "checked" => req[k].op = "refresh" /\ req[k].jti # None
<1>1. PICK t \in Tabs : k = <<t, "refresh">> \/ k = <<t, "user">>
  BY KeysAre
<1>2. CASE k = <<t, "refresh">>
  <2>1. k[2] = "refresh" /\ req[k].op = "refresh"
    BY <1>2 DEF SlotsInv
  <2> QED BY <1>2, <2>1 DEF SlotsInv
<1>3. CASE k = <<t, "user">>
  <2>1. k[2] = "user" /\ req[k].op \in {"login", "logout"} /\ req[k].phase # "checked"
    BY <1>3 DEF SlotsInv
  <2> QED BY <2>1
<1> QED BY <1>1, <1>2, <1>3

LEMMA TypeCalls ==
  ASSUME TypeInv, NEW t \in Tabs, Call(t) \/ EndCall(t)
  PROVE  TypeInv'
<1>1. \E c \in Calls(issued) : c.phase # "waits" /\ call' = [call EXCEPT ![t] = c]
  <2>1. CASE Call(t)
    <3> DEFINE c == [phase |-> "sent", token |-> token[t]]
    <3>1. c \in Calls(issued)
      BY DEF TypeInv, TypesUpTo, Calls
    <3> QED BY <2>1, <3>1 DEF Call
  <2>2. CASE EndCall(t)
    <3>1. NoCall \in Calls(issued) /\ NoCall.phase # "waits"
      BY DEF NoCall, Calls, TypeInv, None
    <3>2. call' = [call EXCEPT ![t] = NoCall]
      BY <2>2 DEF EndCall
    <3> QED BY <3>1, <3>2
  <2> QED BY <2>1, <2>2
<1>2. PICK c \in Calls(issued) : c.phase # "waits" /\ call' = [call EXCEPT ![t] = c]
  BY <1>1
<1>3. UNCHANGED <<current, revoked, issued, expired, jar, disk, token, req>>
  BY DEF Call, EndCall, server, browser
<1>4. call' \in [Tabs -> Calls(issued)]
  BY <1>2 DEF TypeInv, TypesUpTo
<1>5. \A u \in Tabs : call'[u].phase = "waits" => call[u].phase = "waits"
  BY <1>2 DEF TypeInv, TypesUpTo
<1> QED BY <1>3, <1>4, <1>5 DEF TypeInv, TypesUpTo, SlotsInv, WaitsInv

\* The service answers: what an answer leaves, by the token it gives.
LEMMA TypeAnswer ==
  ASSUME NEW n \in Nat, TypesUpTo(n), SlotsInv, WaitsInv, NEW k \in Keys, req[k].phase # "idle",
         NEW ok \in BOOLEAN, NEW jti \in 0 .. n, Answer(k, ok, jti), call' = call
  PROVE  req' \in [Tabs \X Slots -> Requests(n)] /\ SlotsInv' /\ WaitsInv'
<1>1. req \in [Tabs \X Slots -> Requests(n)]
  BY DEF TypesUpTo
<1> DEFINE r == [op |-> req[k].op, phase |-> "answered", store |-> "redis", jti |-> jti, ok |-> ok, gone |-> req[k].gone]
<1>2. /\ req' \in [Tabs \X Slots -> Requests(n)] /\ req'[k] = r
      /\ \A l \in Tabs \X Slots : l # k => req'[l] = req[l]
  BY <1>1, AnswerIs DEF Keys
<1>3. req' = [req EXCEPT ![k] = r]
  BY <1>1, <1>2
<1>4. r \in Requests(n)
  BY <1>2 DEF Keys
<1>5. /\ k[2] = "refresh" => r.op = "refresh"
      /\ k[2] = "user" => r.op \in {"login", "logout"}
      /\ r.phase = "answered" /\ r.gone = req[k].gone
  BY SlotOf
<1> HIDE DEF r
<1>6. \A t \in Tabs : call'[t].phase = "waits" =>
        IF k = <<t, "refresh">> THEN r.phase # "idle" /\ ~r.gone ELSE call[t].phase = "waits"
  BY <1>5 DEF WaitsInv
<1> QED BY <1>3, <1>4, <1>5, <1>6, TypeOfOne

LEMMA TypeServes ==
  ASSUME TypeInv, NEW k \in Keys, Serve(k)
  PROVE  TypeInv'
<1> DEFINE n == issued
<1>0. n \in Nat /\ TypesUpTo(n) /\ SlotsInv /\ WaitsInv
  BY DEF TypeInv
<1>1. TypesUpTo(n + 1)
  BY <1>0, Widen
<1>2. req[k].jti \in 0 .. n /\ req[k].store \in Stores /\ (req[k].jti # None => req[k].jti \in 1 .. n)
  BY <1>0, TypeOfRequest DEF None
<1>3. UNCHANGED <<expired, jar, disk, token, call>>
  BY DEF Serve, ServeLogin, ServeLogout, CheckRefresh, Rotate, browser
<1> HIDE DEF n
<1>4. CASE ServeLogin(k) \/ Rotate(k)
  <2>1. /\ issued' = n + 1 /\ Answer(k, TRUE, n + 1) /\ req[k].phase # "idle"
        /\ \E s \in Stores : current' = [current EXCEPT ![s] = n + 1]
        /\ revoked' = revoked \/ \E s \in Stores : revoked' = [revoked EXCEPT ![s] = @ \cup {req[k].jti}] /\ req[k].jti # None
    <3>1. CASE ServeLogin(k)
      BY <3>1 DEF ServeLogin, n
    <3>2. CASE Rotate(k)
      BY <3>2, <1>0, <1>2, SlotOf DEF Rotate, n
    <3> QED BY <3>1, <3>2, <1>4
  <2>2. n + 1 \in Nat /\ n + 1 \in 0 .. n + 1
    BY <1>0
  <2>3. req' \in [Tabs \X Slots -> Requests(n + 1)] /\ SlotsInv' /\ WaitsInv'
    BY <1>0, <1>1, <1>3, <2>1, <2>2, TypeAnswer
  <2>4. current' \in [Stores -> 0 .. n + 1]
    BY <1>1, <2>1, <2>2 DEF TypesUpTo
  <2>5. revoked' \in [Stores -> SUBSET (1 .. n + 1)]
    <3>1. revoked \in [Stores -> SUBSET (1 .. n + 1)]
      BY <1>1 DEF TypesUpTo
    <3>2. req[k].jti # None => req[k].jti \in 1 .. n + 1
      BY <1>2, <1>0
    <3> QED BY <2>1, <3>1, <3>2
  <2> QED BY <1>1, <1>3, <2>1, <2>2, <2>3, <2>4, <2>5 DEF TypeInv, TypesUpTo
<1>5. CASE ServeLogout(k) \/ CheckRefresh(k)
  <2>1. issued' = n /\ req[k].phase = "sent"
    BY <1>5 DEF ServeLogout, CheckRefresh, n
  <2>2. current' \in [Stores -> 0 .. n]
    <3>1. current \in [Stores -> 0 .. n] /\ None \in 0 .. n
      BY <1>0 DEF TypesUpTo, None
    <3>2. current' = current \/ \E s \in Stores : current' = [current EXCEPT ![s] = None]
      BY <1>5 DEF ServeLogout, CheckRefresh
    <3> QED BY <3>1, <3>2
  <2>3. revoked' \in [Stores -> SUBSET (1 .. n)]
    <3>1. revoked \in [Stores -> SUBSET (1 .. n)]
      BY <1>0 DEF TypesUpTo
    <3>2. revoked' = revoked \/ \E s \in Stores : revoked' = [revoked EXCEPT ![s] = @ \cup {req[k].jti}] /\ req[k].jti # None
      BY <1>5 DEF ServeLogout, CheckRefresh
    <3> QED BY <1>2, <3>1, <3>2
  <2>4. req' \in [Tabs \X Slots -> Requests(n)] /\ SlotsInv' /\ WaitsInv'
    <3>1. CASE \E ok \in BOOLEAN : Answer(k, ok, None)
      <4>1. None \in 0 .. n
        BY <1>0 DEF None
      <4> QED BY <1>0, <1>3, <2>1, <3>1, <4>1, TypeAnswer
    <3>2. ASSUME NEW s \in Stores, req' = [req EXCEPT ![k].phase = "checked", ![k].store = s],
                 req[k].op = "refresh", req[k].jti # None
          PROVE  req' \in [Tabs \X Slots -> Requests(n)] /\ SlotsInv' /\ WaitsInv'
      <4> DEFINE q == req[k]
                 q1 == [q EXCEPT !.phase = "checked"]
                 r == [q1 EXCEPT !.store = s]
      <4>1. q \in [op : {"none", "login", "logout", "refresh"}, phase : {"idle", "sent", "checked", "answered"},
                   store : Stores, jti : 0 .. n, ok : BOOLEAN, gone : BOOLEAN]
        BY <1>0, TypeOfRequest DEF Requests
      <4>2. q.op = "refresh" /\ q.jti # None /\ q.phase # "idle"
        BY <3>2, <2>1
      <4>3. req' = [req EXCEPT ![k] = r]
        BY <3>2
      <4> HIDE DEF q
      <4>4. q1 = [op |-> q.op, phase |-> "checked", store |-> q.store, jti |-> q.jti, ok |-> q.ok, gone |-> q.gone]
        BY <4>1
      <4> HIDE DEF q1
      <4>5. r = [op |-> q.op, phase |-> "checked", store |-> s, jti |-> q.jti, ok |-> q.ok, gone |-> q.gone]
        BY <4>4
      <4> HIDE DEF r
      <4>6. r \in Requests(n) /\ r.phase = "checked" /\ r.op = "refresh" /\ r.jti # None /\ r.gone = q.gone
        BY <4>1, <4>2, <4>5 DEF Requests
      <4>7. k[2] = "refresh" /\ k[2] # "user"
        BY <4>2, <1>0, SlotOf DEF q
      <4>8. \A t \in Tabs : call'[t].phase = "waits" =>
              IF k = <<t, "refresh">> THEN r.phase # "idle" /\ ~r.gone ELSE call[t].phase = "waits"
        BY <1>0, <1>3, <4>6 DEF WaitsInv, q
      <4> QED BY <1>0, <4>3, <4>6, <4>7, <4>8, TypeOfOne
    <3>3. \/ \E ok \in BOOLEAN : Answer(k, ok, None)
          \/ \E s \in Stores : /\ req' = [req EXCEPT ![k].phase = "checked", ![k].store = s]
                               /\ req[k].op = "refresh" /\ req[k].jti # None
      <4>1. CASE ServeLogout(k)
        BY <4>1 DEF ServeLogout
      <4>2. CASE CheckRefresh(k)
        BY <4>2 DEF CheckRefresh
      <4> QED BY <4>1, <4>2, <1>5
    <3> QED BY <3>1, <3>2, <3>3
  <2> QED BY <1>0, <1>3, <2>1, <2>2, <2>3, <2>4 DEF TypeInv, TypesUpTo, n
<1> QED BY <1>4, <1>5 DEF Serve

\* What the tabs take from an answer.
LEMMA TypeReceives ==
  ASSUME TypeInv, NEW k \in Keys, Receive(k) \/ Lose(k)
  PROVE  TypeInv'
<1> DEFINE n == issued
           t == k[1]
<1>0. n \in Nat /\ TypesUpTo(n) /\ SlotsInv /\ WaitsInv /\ t \in Tabs
  BY DEF TypeInv, Keys
<1>1. req[k].jti \in 0 .. n /\ None \in 0 .. n /\ req[k].phase # "idle" /\ jar \in 0 .. n
  <2>1. req[k].phase # "idle"
    BY DEF Receive, Lose
  <2>2. req[k].jti \in 0 .. n /\ None \in 0 .. n
    BY <1>0, TypeOfRequest DEF None
  <2> QED BY <1>0, <2>1, <2>2 DEF TypesUpTo
<1>2. UNCHANGED <<current, revoked, issued, expired>> /\ req' = [req EXCEPT ![k] = Idle]
  BY DEF Receive, Lose, server
<1>3. jar' \in 0 .. n
  BY <1>1 DEF Receive, Lose, browser
<1>4. UNCHANGED <<token, disk>> \/ \E tk \in 0 .. n : Store(t, tk)
  <2>1. CASE Receive(k)
    BY <2>1, <1>1 DEF Receive, browser, Fail
  <2>2. CASE Lose(k)
    <3>1. req[k].op \in {"login", "logout", "refresh"}
      BY <1>0, <1>1, TypeOfRequest, SlotOf, KeysAre
    <3> QED BY <2>2, <3>1, <1>1 DEF Lose, Fail
  <2> QED BY <2>1, <2>2
<1>5. token' \in [Tabs -> 0 .. n] /\ disk' \in 0 .. n
  BY <1>0, <1>4 DEF TypesUpTo, Store
<1>6. \/ call' = call /\ k[2] # "refresh"
      \/ call' = call /\ req[k].gone
      \/ \E tk \in 0 .. n : Resume(t, tk) /\ k = <<t, "refresh">>
  <2>1. PICK u \in Tabs : k = <<u, "refresh">> \/ k = <<u, "user">>
    BY KeysAre
  <2>2. t = u
    BY <2>1
  <2>3. CASE Receive(k)
    <3>1. CASE req[k].op = "refresh"
      BY <3>1, <2>1, <2>2, <2>3, <1>0, <1>1, SlotOf DEF Receive, Fail
    <3>2. CASE req[k].op # "refresh"
      BY <3>2, <2>3, <1>0, <1>1, SlotOf DEF Receive, Fail
    <3> QED BY <3>1, <3>2
  <2>4. CASE Lose(k)
    <3>1. CASE req[k].op = "refresh"
      BY <3>1, <2>1, <2>2, <2>4, <1>0, <1>1, SlotOf DEF Lose, Fail
    <3>2. CASE req[k].op # "refresh"
      <4>1. req[k].op \in {"login", "logout"}
        BY <3>2, <1>0, <1>1, SlotOf, KeysAre
      <4> QED BY <3>2, <4>1, <2>4, <1>0, <1>1, SlotOf DEF Lose
    <3> QED BY <3>1, <3>2
  <2> QED BY <2>3, <2>4
<1>7. call' \in [Tabs -> Calls(n)] /\ \A u \in Tabs : call'[u].phase = "waits" => call[u].phase = "waits" /\ <<u, "refresh">> # k
  <2>0. call \in [Tabs -> Calls(n)]
    BY <1>0 DEF TypesUpTo
  <2>1. CASE call' = call
    <3> SUFFICES ASSUME NEW u \in Tabs, call[u].phase = "waits", <<u, "refresh">> = k PROVE FALSE
      BY <2>0, <2>1
    <3>1. k[2] = "refresh" /\ u = t
      OBVIOUS
    <3>2. ~req[k].gone
      BY <1>0 DEF WaitsInv
    <3>3. PICK tk \in 0 .. n : Resume(t, tk)
      BY <1>6, <3>1, <3>2
    <3>4. call' = [call EXCEPT ![t] = IF tk = None THEN NoCall ELSE [phase |-> "again", token |-> tk]]
      BY <3>1, <3>3 DEF Resume
    <3>5. call'[t].phase = "again" \/ call'[t].phase = "idle"
      BY <3>4, <2>0, <1>0 DEF NoCall
    <3> QED BY <3>5, <2>1, <3>1
  <2>2. ASSUME NEW tk \in 0 .. n, Resume(t, tk), k = <<t, "refresh">>
        PROVE  call' \in [Tabs -> Calls(n)] /\ \A u \in Tabs : call'[u].phase = "waits" => call[u].phase = "waits" /\ <<u, "refresh">> # k
    <3> DEFINE c == IF tk = None THEN NoCall ELSE [phase |-> "again", token |-> tk]
    <3>1. c \in Calls(n) /\ c.phase # "waits"
      <4>1. CASE tk = None
        BY <4>1, <1>1 DEF NoCall, Calls
      <4>2. CASE tk # None
        BY <4>2 DEF Calls
      <4> QED BY <4>1, <4>2
    <3>2. call' = IF call[t].phase # "waits" THEN call ELSE [call EXCEPT ![t] = c]
      BY <2>2 DEF Resume
    <3> HIDE DEF c
    <3>3. call' \in [Tabs -> Calls(n)]
      BY <3>1, <3>2, <2>0
    <3>4. call'[t].phase # "waits" /\ \A u \in Tabs : u # t => call'[u] = call[u]
      BY <3>1, <3>2, <2>0, <1>0
    <3> QED BY <3>3, <3>4, <2>2
  <2> QED BY <2>1, <2>2, <1>6
<1>8. req' \in [Tabs \X Slots -> Requests(n)] /\ SlotsInv' /\ WaitsInv'
  <2>1. Idle \in Requests(n) /\ Idle.phase = "idle"
    BY <1>0, IdleIs
  <2> HIDE DEF n
  <2> QED BY <2>1, <1>0, <1>2, <1>7, TypeOfOne
<1> QED BY <1>0, <1>2, <1>3, <1>5, <1>7, <1>8 DEF TypeInv, TypesUpTo

\* Fields change in several requests at once, the phase of none to or from idle.
LEMMA TypeOfSome ==
  ASSUME NEW n \in Nat, TypesUpTo(n), SlotsInv,
         req' \in [Tabs \X Slots -> Requests(n)],
         \A k \in Keys : /\ req'[k].op = req[k].op
                         /\ req'[k].phase = "idle" <=> req[k].phase = "idle"
                         /\ req'[k].phase = "checked" => req[k].phase = "checked" /\ req'[k].jti = req[k].jti
  PROVE  SlotsInv'
<1> SUFFICES ASSUME NEW t \in Tabs
             PROVE  /\ req'[<<t, "refresh">>].phase # "idle" => req'[<<t, "refresh">>].op = "refresh"
                    /\ req'[<<t, "user">>].phase # "idle" => req'[<<t, "user">>].op \in {"login", "logout"}
                    /\ req'[<<t, "refresh">>].phase = "checked" => req'[<<t, "refresh">>].jti # None
                    /\ req'[<<t, "user">>].phase # "checked"
  BY DEF SlotsInv
<1>1. <<t, "refresh">> \in Keys /\ <<t, "user">> \in Keys
  BY DEF Keys, Slots
<1> QED BY <1>1 DEF SlotsInv

LEMMA TypeReload ==
  ASSUME TypeInv, NEW t \in Tabs, Reload(t)
  PROVE  TypeInv'
<1> DEFINE n == issued
           gone(k) == [req[k] EXCEPT !.gone = TRUE]
<1>0. n \in Nat /\ TypesUpTo(n) /\ SlotsInv /\ WaitsInv
  BY DEF TypeInv
<1>1. UNCHANGED <<current, revoked, issued, expired, jar, disk>> /\ token' = [token EXCEPT ![t] = disk]
  BY DEF Reload, server
<1>2. req' = [k \in Tabs \X Slots |-> IF k[1] = t /\ k \in Flying THEN gone(k) ELSE req[k]]
  BY DEF Reload
<1>3. \A k \in Keys : gone(k) = [op |-> req[k].op, phase |-> req[k].phase, store |-> req[k].store, jti |-> req[k].jti,
                                 ok |-> req[k].ok, gone |-> TRUE]
  <2> SUFFICES ASSUME NEW k \in Keys
               PROVE  gone(k) = [op |-> req[k].op, phase |-> req[k].phase, store |-> req[k].store, jti |-> req[k].jti,
                                 ok |-> req[k].ok, gone |-> TRUE]
    OBVIOUS
  <2> DEFINE q == req[k]
  <2>1. q \in [op : {"none", "login", "logout", "refresh"}, phase : {"idle", "sent", "checked", "answered"},
               store : Stores, jti : 0 .. n, ok : BOOLEAN, gone : BOOLEAN]
    BY <1>0, TypeOfRequest DEF Requests
  <2> HIDE DEF q
  <2>2. ASSUME NEW b \in BOOLEAN
        PROVE  [q EXCEPT !.gone = b] = [op |-> q.op, phase |-> q.phase, store |-> q.store, jti |-> q.jti, ok |-> q.ok, gone |-> b]
    BY <2>1
  <2> QED BY <2>2 DEF q
<1>4. \A k \in Keys : gone(k) \in Requests(n)
  BY <1>0, <1>3, TypeOfRequest DEF Requests
<1>5. \A k \in Keys : gone(k).op = req[k].op /\ gone(k).phase = req[k].phase /\ gone(k).jti = req[k].jti
  BY <1>3
<1> HIDE DEF gone, n
<1>6. req' \in [Tabs \X Slots -> Requests(n)]
  BY <1>0, <1>2, <1>4 DEF Keys, TypesUpTo
<1>7. \A k \in Keys : /\ req'[k].op = req[k].op /\ req'[k].phase = req[k].phase /\ req'[k].jti = req[k].jti
                      /\ k[1] # t => req'[k] = req[k]
  BY <1>2, <1>5 DEF Keys
<1>8. SlotsInv'
  BY <1>0, <1>6, <1>7, TypeOfSome
<1>9. call' = [call EXCEPT ![t] = NoCall] /\ NoCall.phase # "waits" /\ NoCall \in Calls(n)
  BY <1>0 DEF Reload, NoCall, Calls, None
<1>10. call' \in [Tabs -> Calls(n)] /\ \A u \in Tabs : call'[u].phase = "waits" => u # t /\ call[u].phase = "waits"
  BY <1>0, <1>9 DEF TypesUpTo
<1>11. WaitsInv'
  <2> SUFFICES ASSUME NEW u \in Tabs, call'[u].phase = "waits"
               PROVE  req'[<<u, "refresh">>].phase # "idle" /\ ~req'[<<u, "refresh">>].gone
    BY DEF WaitsInv
  <2>1. u # t /\ call[u].phase = "waits"
    BY <1>10
  <2>2. <<u, "refresh">> \in Keys /\ <<u, "refresh">>[1] # t
    BY <2>1 DEF Keys, Slots
  <2> QED BY <2>1, <2>2, <1>7, <1>0 DEF WaitsInv
<1>12. token' \in [Tabs -> 0 .. n]
  BY <1>0, <1>1 DEF TypesUpTo
<1> QED BY <1>0, <1>1, <1>6, <1>8, <1>10, <1>11, <1>12 DEF TypeInv, TypesUpTo, n

LEMMA TypeRestart ==
  ASSUME TypeInv, Restart
  PROVE  TypeInv'
<1> DEFINE n == issued
           cut(k) == [req[k] EXCEPT !.phase = "answered", !.ok = FALSE]
<1>0. n \in Nat /\ TypesUpTo(n) /\ SlotsInv /\ WaitsInv
  BY DEF TypeInv
<1>1. UNCHANGED <<issued, expired, jar, disk, token, call>>
  BY DEF Restart, browser
<1>2. req' = [k \in Tabs \X Slots |-> IF req[k].phase = "checked" THEN cut(k) ELSE req[k]]
  BY DEF Restart
<1>3. \A k \in Keys : cut(k) = [op |-> req[k].op, phase |-> "answered", store |-> req[k].store, jti |-> req[k].jti,
                                 ok |-> FALSE, gone |-> req[k].gone]
  <2> SUFFICES ASSUME NEW k \in Keys
               PROVE  cut(k) = [op |-> req[k].op, phase |-> "answered", store |-> req[k].store, jti |-> req[k].jti,
                                ok |-> FALSE, gone |-> req[k].gone]
    OBVIOUS
  <2> DEFINE q == req[k]
             q1 == [q EXCEPT !.phase = "answered"]
             q2 == [q1 EXCEPT !.ok = FALSE]
  <2>0. cut(k) = q2
    OBVIOUS
  <2>1. q \in [op : {"none", "login", "logout", "refresh"}, phase : {"idle", "sent", "checked", "answered"},
               store : Stores, jti : 0 .. n, ok : BOOLEAN, gone : BOOLEAN]
    BY <1>0, TypeOfRequest DEF Requests
  <2> HIDE DEF q
  <2>2. q1 = [op |-> q.op, phase |-> "answered", store |-> q.store, jti |-> q.jti, ok |-> q.ok, gone |-> q.gone]
    BY <2>1
  <2> HIDE DEF q1
  <2>3. ASSUME NEW b \in BOOLEAN
        PROVE  [q1 EXCEPT !.ok = b] = [op |-> q.op, phase |-> "answered", store |-> q.store, jti |-> q.jti, ok |-> b, gone |-> q.gone]
    BY <2>2
  <2>4. q2 = [op |-> q.op, phase |-> "answered", store |-> q.store, jti |-> q.jti, ok |-> FALSE, gone |-> q.gone]
    BY <2>3
  <2> HIDE DEF q2, cut
  <2> QED BY <2>0, <2>4 DEF q
<1>4. \A k \in Keys : cut(k) \in Requests(n)
  BY <1>0, <1>3, TypeOfRequest DEF Requests
<1>5. \A k \in Keys : cut(k).op = req[k].op /\ cut(k).phase = "answered" /\ cut(k).gone = req[k].gone
  BY <1>3
<1> HIDE DEF cut, n
<1>6. req' \in [Tabs \X Slots -> Requests(n)]
  BY <1>0, <1>2, <1>4 DEF Keys, TypesUpTo
<1>7. \A k \in Keys : /\ req'[k].op = req[k].op /\ req'[k].gone = req[k].gone
                      /\ req'[k].phase = "idle" <=> req[k].phase = "idle"
                      /\ req'[k].phase # "checked"
  BY <1>2, <1>5 DEF Keys
<1>8. SlotsInv'
  BY <1>0, <1>6, <1>7, TypeOfSome
<1>9. WaitsInv'
  <2>1. \A t \in Tabs : <<t, "refresh">> \in Keys
    BY DEF Keys, Slots
  <2> QED BY <1>0, <1>1, <1>7, <2>1 DEF WaitsInv
<1>10. current' \in [Stores -> 0 .. n] /\ revoked' \in [Stores -> SUBSET (1 .. n)]
  <2>1. current \in [Stores -> 0 .. n] /\ revoked \in [Stores -> SUBSET (1 .. n)] /\ None \in 0 .. n
    BY <1>0 DEF TypesUpTo, None
  <2>2. current' = [current EXCEPT !["mem"] = None] /\ revoked' = [revoked EXCEPT !["mem"] = {}]
    BY DEF Restart
  <2> QED BY <2>1, <2>2
<1> QED BY <1>0, <1>1, <1>6, <1>8, <1>9, <1>10 DEF TypeInv, TypesUpTo, n

LEMMA TypeElsewhere ==
  ASSUME TypeInv, LoginElsewhere \/ Expire
  PROVE  TypeInv'
<1>1. CASE LoginElsewhere
  <2>1. TypesUpTo(issued + 1) /\ issued + 1 \in Nat /\ issued + 1 \in 0 .. issued + 1
    BY Widen DEF TypeInv
  <2>2. current' = [current EXCEPT !["redis"] = issued + 1] /\ UNCHANGED <<revoked, expired, jar, disk, token, req, call>> /\ issued' = issued + 1
    BY <1>1 DEF LoginElsewhere, browser
  <2>3. current' \in [Stores -> 0 .. issued + 1]
    BY <2>1, <2>2 DEF TypesUpTo
  <2> QED BY <2>1, <2>2, <2>3 DEF TypeInv, TypesUpTo, SlotsInv, WaitsInv
<1>2. CASE Expire
  <2>1. expired \in 0 .. issued /\ issued \in Nat
    BY DEF TypeInv, TypesUpTo
  <2>2. expired' \in 0 .. issued
    BY <1>2, <2>1 DEF Expire
  <2> QED BY <1>2, <2>2 DEF Expire, server, browser, TypeInv, TypesUpTo, SlotsInv, WaitsInv
<1> QED BY <1>1, <1>2

LEMMA TypeStep == TypeInv /\ [Next]_vars => TypeInv'
<1> SUFFICES ASSUME TypeInv, [Next]_vars PROVE TypeInv'
  OBVIOUS
<1>1. ASSUME NEW t \in Tabs, Login(t) \/ Logout(t) \/ Timer(t) \/ Call(t) \/ EndCall(t) \/ Wait(t) \/ Reload(t)
      PROVE  TypeInv'
  BY <1>1, TypeSends, TypeCalls, TypeReload
<1>2. ASSUME NEW k \in Keys, Serve(k) \/ Receive(k) \/ Lose(k)
      PROVE  TypeInv'
  BY <1>2, TypeServes, TypeReceives
<1>3. ASSUME Restart \/ LoginElsewhere \/ Expire
      PROVE  TypeInv'
  BY <1>3, TypeRestart, TypeElsewhere
<1>4. CASE UNCHANGED vars
  BY <1>4, TypeKept
<1> QED BY <1>1, <1>2, <1>3, <1>4 DEF Next, Keys

LEMMA TypesHold == SessionSpec => []TypeInv
BY TypeStart, TypeStep, PTL DEF SessionSpec

LEMMA TypesSuffice == TypeInv => SessionTypeOK
<1> SUFFICES ASSUME TypeInv PROVE SessionTypeOK
  OBVIOUS
<1>0. issued \in Nat /\ TypesUpTo(issued)
  BY DEF TypeInv
<1>1. \A k \in Flying : req[k].phase \in {"sent", "checked", "answered"} /\ req[k].jti \in 0 .. issued
  BY <1>0, TypeOfRequest DEF Flying, Keys
<1>2. \A t \in Tabs : call[t].phase \in {"idle", "sent", "waits", "again"}
  BY <1>0 DEF TypesUpTo, Calls
<1>3. \A t \in Tabs : call[t].phase = "waits" => <<t, "refresh">> \in Flying /\ ~req[<<t, "refresh">>].gone
  BY DEF TypeInv, WaitsInv, Flying, Slots
<1> QED BY <1>0, <1>1, <1>2, <1>3 DEF SessionTypeOK, TypesUpTo

\* Tokens, requests and calls are what they seem, and a call that waits for a
\* refresh always has one to wait for, which its tab will hear of: a refresh whose
\* promise was given up is never waited for (auth.tsx, refreshOnce).
THEOREM SessionsAreTyped == SessionSpec => []SessionTypeOK
BY TypesHold, TypesSuffice, PTL

-----------------------------------------------------------------------------
(* A logout stays *)

\* An answer leaves the other requests alone.
LEMMA AnswerLeaves ==
  ASSUME NEW n, NEW k \in Keys, req \in [Tabs \X Slots -> Requests(n)],
         NEW ok \in BOOLEAN, NEW jti \in 0 .. n, Answer(k, ok, jti)
  PROVE  req'[k].phase = "answered" /\ \A l \in Keys : l # k => req'[l] = req[l]
<1>1. /\ req'[k] = [op |-> req[k].op, phase |-> "answered", store |-> "redis", jti |-> jti, ok |-> ok, gone |-> req[k].gone]
      /\ \A l \in Tabs \X Slots : l # k => req'[l] = req[l]
  BY AnswerIs DEF Keys
<1> QED BY <1>1 DEF Keys

LEMMA LogoutStep == TypeInv /\ LogoutStays /\ [Next]_vars => LogoutStays'
<1> SUFFICES ASSUME TypeInv, LogoutStays, [Next]_vars, out'
             PROVE  /\ current'["redis"] \in {None} \cup revoked'["redis"]
                    /\ \A k \in Keys : req'[k].phase = "checked" => req'[k].store = "mem"
  BY DEF LogoutStays, Flying, Keys
<1> DEFINE n == issued
           Ended == current["redis"] \in {None} \cup revoked["redis"]
           Mem == \A k \in Keys : req[k].phase = "checked" => req[k].store = "mem"
<1>0. /\ n \in Nat /\ TypesUpTo(n) /\ SlotsInv
      /\ current \in [Stores -> 0 .. n] /\ revoked \in [Stores -> SUBSET (1 .. n)]
      /\ req \in [Tabs \X Slots -> Requests(n)]
  BY DEF TypeInv, TypesUpTo
<1>1. out => Ended /\ Mem
  BY DEF LogoutStays, Flying, Keys
<1>2. "redis" \in Stores /\ "mem" \in Stores
  BY DEF Stores
\* A step that checks no request anew and leaves the first store alone.
<1>3. ASSUME out, current'["redis"] = current["redis"], revoked["redis"] \subseteq revoked'["redis"],
             \A k \in Keys : req'[k].phase = "checked" => req'[k] = req[k]
      PROVE  /\ current'["redis"] \in {None} \cup revoked'["redis"]
             /\ \A k \in Keys : req'[k].phase = "checked" => req'[k].store = "mem"
  BY <1>1, <1>3
<1> DEFINE Goal == /\ current'["redis"] \in {None} \cup revoked'["redis"]
                   /\ \A k \in Keys : req'[k].phase = "checked" => req'[k].store = "mem"
<1> HIDE DEF n
<1>4. ASSUME NEW t \in Tabs, Login(t) \/ Logout(t) \/ Timer(t) \/ Call(t) \/ EndCall(t) \/ Wait(t) \/ Reload(t)
      PROVE  Goal
  <2>1. out /\ UNCHANGED <<current, revoked>>
    BY <1>4 DEF Login, Logout, Timer, Call, EndCall, Wait, Reload, server, history
  <2>2. \A k \in Keys : req'[k].phase = "checked" => req[k].phase = "checked" /\ req'[k].store = req[k].store
    <3> SUFFICES ASSUME NEW k \in Keys PROVE req'[k].phase = "checked" => req[k].phase = "checked" /\ req'[k].store = req[k].store
      OBVIOUS
    <3>1. jar \in 0 .. n /\ <<t, "user">> \in Keys /\ <<t, "refresh">> \in Keys
      BY <1>0 DEF TypesUpTo, Keys, Slots
    <3>2. CASE Login(t) \/ Logout(t) \/ Timer(t) \/ Wait(t)
      <4>1. req' = req \/ \E l \in Keys, op \in {"login", "logout", "refresh"} : req' = [req EXCEPT ![l] = Sent(op)]
        BY <3>1, <3>2 DEF Login, Logout, Timer, Wait
      <4>2. \A op \in {"login", "logout", "refresh"} : Sent(op).phase = "sent"
        BY <1>0, <3>1, SentIs
      <4> QED BY <1>0, <4>1, <4>2 DEF Keys
    <3>3. CASE Call(t) \/ EndCall(t)
      BY <3>3 DEF Call, EndCall
    <3>4. CASE Reload(t)
      <4>1. req' = [l \in Tabs \X Slots |-> IF l[1] = t /\ l \in Flying THEN [req[l] EXCEPT !.gone = TRUE] ELSE req[l]]
        BY <3>4 DEF Reload
      <4>2. req[k] \in [op : {"none", "login", "logout", "refresh"}, phase : {"idle", "sent", "checked", "answered"},
                   store : Stores, jti : 0 .. n, ok : BOOLEAN, gone : BOOLEAN]
        BY <1>0 DEF Keys, Requests
      <4>3. req'[k] = req[k] \/ req'[k] = [req[k] EXCEPT !.gone = TRUE]
        BY <4>1 DEF Keys
      <4> QED BY <4>2, <4>3
    <3> QED BY <1>4, <3>2, <3>3, <3>4
  <2> QED BY <1>1, <2>1, <2>2
<1>5. ASSUME NEW k \in Keys, Serve(k)
      PROVE  Goal
  <2>0. req[k].store \in Stores /\ \A s \in Stores : s # "mem" => s = "redis"
    BY <1>0, TypeOfRequest DEF Stores
  <2>1. CASE ServeLogin(k)
    BY <2>1 DEF ServeLogin
  <2>2. CASE ServeLogout(k)
    <3>1. PICK s \in Stores :
            /\ IF req[k].jti = None THEN UNCHANGED <<current, revoked, out>>
               ELSE /\ current' = [current EXCEPT ![s] = None]
                    /\ revoked' = [revoked EXCEPT ![s] = @ \cup {req[k].jti}]
                    /\ out' = (out \/ (s = "redis" /\ ~HalfDone))
            /\ Answer(k, TRUE, None)
      BY <2>2 DEF ServeLogout
    <3>2. None \in 0 .. n
      BY <1>0 DEF None
    <3>3. req'[k].phase = "answered" /\ \A l \in Keys : l # k => req'[l] = req[l]
      BY <1>0, <3>1, <3>2, AnswerLeaves
    <3>4. Mem
      BY <1>1, <3>1 DEF HalfDone, Flying, Keys
    <3>5. current'["redis"] \in {None} \cup revoked'["redis"]
      <4>1. CASE s = "redis" /\ req[k].jti # None
        BY <3>1, <4>1, <1>0, <1>2
      <4>2. CASE s # "redis" \/ req[k].jti = None
        BY <1>0, <1>1, <1>2, <3>1, <4>2
      <4> QED BY <4>1, <4>2
    <3> QED BY <3>3, <3>4, <3>5
  <2>3. CASE CheckRefresh(k)
    <3>1. PICK s \in Stores :
            IF req[k].jti # None /\ req[k].jti \notin revoked[s] /\ req[k].jti = current[s]
            THEN req' = [req EXCEPT ![k].phase = "checked", ![k].store = s] /\ UNCHANGED revoked
            ELSE /\ Answer(k, FALSE, None)
                 /\ revoked' = IF req[k].jti \notin {None} \cup revoked[s] /\ current[s] # None
                               THEN [revoked EXCEPT ![s] = @ \cup {req[k].jti}] ELSE revoked
      BY <2>3 DEF CheckRefresh
    <3>2. out /\ current' = current
      BY <2>3 DEF CheckRefresh
    <3>3. CASE req[k].jti # None /\ req[k].jti \notin revoked[s] /\ req[k].jti = current[s]
      <4>1. s = "mem"
        BY <1>1, <2>0, <3>2, <3>3
      <4>2. req' = [req EXCEPT ![k] = [[@ EXCEPT !.phase = "checked"] EXCEPT !.store = s]] /\ revoked' = revoked
        BY <3>1, <3>3
      <4>3. \A l \in Keys : l # k => req'[l] = req[l]
        BY <1>0, <4>2 DEF Keys
      <4>4. req'[k].store = "mem"
        <5> DEFINE q == req[k]
                   q1 == [q EXCEPT !.phase = "checked"]
                   q2 == [q1 EXCEPT !.store = s]
        <5>1. q \in [op : {"none", "login", "logout", "refresh"}, phase : {"idle", "sent", "checked", "answered"},
                     store : Stores, jti : 0 .. n, ok : BOOLEAN, gone : BOOLEAN]
          BY <1>0 DEF Keys, Requests
        <5>2. req'[k] = q2
          BY <1>0, <4>2 DEF Keys
        <5> HIDE DEF q
        <5>3. q1 \in [op : {"none", "login", "logout", "refresh"}, phase : {"idle", "sent", "checked", "answered"},
                     store : Stores, jti : 0 .. n, ok : BOOLEAN, gone : BOOLEAN]
          BY <5>1
        <5> HIDE DEF q1
        <5>4. q2.store = s
          BY <5>3
        <5> QED BY <5>2, <5>4, <4>1
      <4> QED BY <1>1, <3>2, <4>2, <4>3, <4>4
    <3>4. CASE ~(req[k].jti # None /\ req[k].jti \notin revoked[s] /\ req[k].jti = current[s])
      <4>0. None \in 0 .. n
        BY <1>0 DEF None
      <4>1. Answer(k, FALSE, None)
        BY <3>1, <3>4
      <4>2. req'[k].phase = "answered" /\ \A l \in Keys : l # k => req'[l] = req[l]
        BY <1>0, <4>0, <4>1, AnswerLeaves
      <4>3. revoked["redis"] \subseteq revoked'["redis"]
        <5>1. revoked' = revoked \/ revoked' = [revoked EXCEPT ![s] = @ \cup {req[k].jti}]
          BY <3>1, <3>4
        <5> QED BY <5>1, <1>0, <1>2
      <4> QED BY <1>3, <3>2, <4>2, <4>3
    <3> QED BY <3>3, <3>4
  <2>4. CASE Rotate(k)
    <3>1. /\ out /\ req[k].phase = "checked" /\ Answer(k, TRUE, n + 1) /\ issued' = n + 1
          /\ revoked' = [revoked EXCEPT ![req[k].store] = @ \cup {req[k].jti}]
          /\ current' = [current EXCEPT ![req[k].store] = n + 1]
      BY <2>4 DEF Rotate, history, n
    <3>2. req[k].store = "mem"
      BY <1>1, <3>1
    <3>3. TypesUpTo(n + 1) /\ n + 1 \in 0 .. n + 1
      BY <1>0, Widen
    <3>4. req'[k].phase = "answered" /\ \A l \in Keys : l # k => req'[l] = req[l]
      <4>1. req \in [Tabs \X Slots -> Requests(n + 1)]
        BY <3>3 DEF TypesUpTo
      <4> QED BY <4>1, <3>1, <3>3, AnswerLeaves
    <3>5. current'["redis"] = current["redis"] /\ revoked'["redis"] = revoked["redis"]
      BY <1>0, <1>2, <3>1, <3>2
    <3> QED BY <1>3, <3>1, <3>4, <3>5
  <2> QED BY <1>5, <2>1, <2>2, <2>3, <2>4 DEF Serve
<1>6. ASSUME NEW k \in Keys, Receive(k) \/ Lose(k)
      PROVE  Goal
  <2>1. out /\ UNCHANGED <<current, revoked>> /\ req' = [req EXCEPT ![k] = Idle]
    BY <1>6 DEF Receive, Lose, server
  <2>2. Idle.phase = "idle"
    BY IdleIs, <1>0
  <2>3. \A l \in Keys : req'[l].phase = "checked" => req'[l] = req[l]
    BY <1>0, <2>1, <2>2 DEF Keys
  <2> QED BY <1>3, <2>1, <2>3
<1>7. CASE Restart
  <2>1. out /\ current' = [current EXCEPT !["mem"] = None] /\ revoked' = [revoked EXCEPT !["mem"] = {}]
    BY <1>7 DEF Restart
  <2>2. req' = [k \in Tabs \X Slots |-> IF req[k].phase = "checked" THEN [[req[k] EXCEPT !.phase = "answered"] EXCEPT !.ok = FALSE] ELSE req[k]]
    BY <1>7 DEF Restart
  <2>3. \A l \in Keys : req'[l].phase # "checked"
    <3> SUFFICES ASSUME NEW l \in Keys PROVE req'[l].phase # "checked"
      OBVIOUS
    <3> DEFINE q == req[l]
               q1 == [q EXCEPT !.phase = "answered"]
               q2 == [q1 EXCEPT !.ok = FALSE]
    <3>1. q \in [op : {"none", "login", "logout", "refresh"}, phase : {"idle", "sent", "checked", "answered"},
                 store : Stores, jti : 0 .. n, ok : BOOLEAN, gone : BOOLEAN]
      BY <1>0 DEF Keys, Requests
    <3>2. req'[l] = IF q.phase = "checked" THEN q2 ELSE q
      BY <2>2 DEF Keys
    <3> HIDE DEF q
    <3>3. q1 = [op |-> q.op, phase |-> "answered", store |-> q.store, jti |-> q.jti, ok |-> q.ok, gone |-> q.gone]
      BY <3>1
    <3> HIDE DEF q1
    <3>4. q2.phase = "answered"
      BY <3>3
    <3> HIDE DEF q2
    <3> QED BY <3>2, <3>4
  <2>4. current'["redis"] = current["redis"] /\ revoked'["redis"] = revoked["redis"]
    BY <1>0, <1>2, <2>1
  <2> QED BY <1>3, <2>1, <2>3, <2>4
<1>8. CASE LoginElsewhere
  BY <1>8 DEF LoginElsewhere
<1>9. CASE Expire \/ UNCHANGED vars
  <2>1. out /\ UNCHANGED <<current, revoked, req>>
    BY <1>9 DEF Expire, vars, server, history
  <2> QED BY <1>3, <2>1
<1> QED BY <1>4, <1>5, <1>6, <1>7, <1>8, <1>9 DEF Next, Keys

\* After a logout was handled with no refresh half done, none succeeds until the
\* next login, whichever token the logout came with (auth_service.py, logout, which
\* drops the current token of the user and not only the one of the cookie).
THEOREM LogoutsStay == SessionSpec => []LogoutStays
<1>1. SessionInit => LogoutStays
  BY DEF SessionInit, LogoutStays
<1> QED BY <1>1, TypesHold, LogoutStep, PTL DEF SessionSpec

-----------------------------------------------------------------------------
(* A session is kept *)

\* The token that the service takes.
Valid(jti) == jti # None /\ jti = current["redis"] /\ jti \notin revoked["redis"]

\* While nothing disturbed it there is one request at a time, none is given up, and
\* none is at the memory of the process.
OneAtATime ==
  /\ \A k, l \in Flying : k = l
  /\ \A k \in Flying : ~req[k].gone /\ (req[k].phase = "checked" => req[k].store = "redis")

\* An answer that gives a token gives the one that the service takes.
GivesToken(k) == req[k].op = "login" \/ (req[k].op = "refresh" /\ req[k].ok)
AnswersAreValid ==
  \A k \in Flying : req[k].phase = "answered" /\ GivesToken(k) =>
    req[k].jti # None /\ (req[k].op = "login" \/ signed # {} => Valid(req[k].jti))

\* While somebody is signed in, the cookie has the token that the service takes,
\* unless an answer that replaces it is under way; refreshes carry it and succeed.
HasSession ==
  /\ \A k \in Flying : /\ req[k].op # "logout"
                       /\ req[k].op = "refresh" /\ req[k].phase # "answered" => req[k].jti = jar
                       /\ req[k].op = "refresh" /\ req[k].phase = "answered" => req[k].ok
  /\ (\A k \in Flying : req[k].phase # "answered") => Valid(jar)

KeepsInv ==
  ~disturbed =>
    /\ OneAtATime
    /\ \A t \in signed : t \in Tabs /\ token[t] # None
    /\ AnswersAreValid
    /\ signed # {} => HasSession

\* A disturbance is not forgotten.
LEMMA Undisturbed == [Next]_vars /\ ~disturbed' => ~disturbed
<1> SUFFICES ASSUME [Next]_vars, ~disturbed' PROVE ~disturbed
  OBVIOUS
<1>1. ASSUME NEW t \in Tabs, Login(t) \/ Logout(t) \/ Timer(t) \/ Call(t) \/ EndCall(t) \/ Wait(t) \/ Reload(t)
      PROVE  ~disturbed
  BY <1>1 DEF Login, Logout, Timer, Call, EndCall, Wait, Reload, history
<1>2. ASSUME NEW k \in Tabs \X Slots, Serve(k) \/ Receive(k) \/ Lose(k)
      PROVE  ~disturbed
  BY <1>2 DEF Serve, ServeLogin, ServeLogout, CheckRefresh, Rotate, Receive, Lose, StoreOf, history
<1>3. ASSUME Restart \/ LoginElsewhere \/ Expire \/ UNCHANGED vars
      PROVE  ~disturbed
  BY <1>3 DEF Restart, LoginElsewhere, Expire, vars, history
<1> QED BY <1>1, <1>2, <1>3 DEF Next

\* Requests, tokens of the tabs and of the service that stay as they are.
LEMMA KeepsSame ==
  ASSUME KeepsInv, ~disturbed, req' = req, jar' = jar, current' = current, revoked' = revoked,
         \A t \in signed' : t \in Tabs /\ token'[t] # None, signed' # {} => signed # {}
  PROVE  KeepsInv'
BY DEF KeepsInv, OneAtATime, AnswersAreValid, GivesToken, HasSession, Valid, Flying

\* The first request after a while.
LEMMA KeepsSent ==
  ASSUME TypeInv, KeepsInv, ~disturbed, Flying = {}, NEW k \in Keys, NEW op \in {"login", "logout", "refresh"},
         req' = [req EXCEPT ![k] = Sent(op)], UNCHANGED <<jar, token, current, revoked>>,
         IF op = "logout" THEN signed' = {} ELSE signed' = signed
  PROVE  KeepsInv'
<1>1. issued \in Nat /\ jar \in 0 .. issued
  BY DEF TypeInv, TypesUpTo
<1>2. req'[k] = [op |-> op, phase |-> "sent", store |-> "redis", jti |-> jar, ok |-> FALSE, gone |-> FALSE]
  <2>1. req'[k] = Sent(op)
    BY DEF TypeInv, TypesUpTo, Keys
  <2> QED BY <1>1, <2>1, SentIs
<1>3. req'[k].op = op /\ req'[k].phase = "sent" /\ req'[k].jti = jar /\ req'[k].gone = FALSE
  BY <1>2
<1>4. Flying' = {k}
  BY <1>3 DEF Flying, TypeInv, TypesUpTo, Keys
<1>5. signed # {} => Valid(jar)
  BY DEF KeepsInv, HasSession
<1>6. OneAtATime' /\ AnswersAreValid'
  BY <1>3, <1>4 DEF OneAtATime, AnswersAreValid
<1>7. signed' # {} => HasSession'
  <2> SUFFICES ASSUME signed' # {} PROVE HasSession'
    OBVIOUS
  <2>1. op # "logout" /\ Valid(jar)
    BY <1>5
  <2>2. Valid(jar)'
    BY <2>1 DEF Valid
  <2> QED BY <1>3, <1>4, <2>1, <2>2 DEF HasSession
<1>8. \A t \in signed' : t \in Tabs /\ token'[t] # None
  BY DEF KeepsInv
<1> QED BY <1>6, <1>7, <1>8 DEF KeepsInv

LEMMA KeepsSends ==
  ASSUME TypeInv, KeepsInv, ~disturbed, ~disturbed', NEW t \in Tabs,
         Login(t) \/ Logout(t) \/ Timer(t) \/ Call(t) \/ EndCall(t) \/ Wait(t)
  PROVE  KeepsInv'
<1>0. <<t, "user">> \in Keys /\ <<t, "refresh">> \in Keys
  BY DEF Keys, Slots
<1>1. CASE Login(t)
  <2>1. /\ Flying = {} /\ req' = [req EXCEPT ![<<t, "user">>] = Sent("login")]
        /\ UNCHANGED <<jar, token, current, revoked, signed>>
    BY <1>1 DEF Login, server, browser
  <2> QED BY <1>0, <2>1, KeepsSent
<1>2. CASE Logout(t)
  <2>1. /\ Flying = {} /\ req' = [req EXCEPT ![<<t, "user">>] = Sent("logout")]
        /\ UNCHANGED <<jar, token, current, revoked>> /\ signed' = {}
    BY <1>2 DEF Logout, server, browser
  <2> QED BY <1>0, <2>1, KeepsSent
<1>3. CASE Timer(t)
  <2>1. /\ Flying = {} /\ req' = [req EXCEPT ![<<t, "refresh">>] = Sent("refresh")]
        /\ UNCHANGED <<jar, token, current, revoked, signed>>
    BY <1>3 DEF Timer, server, browser
  <2> QED BY <1>0, <2>1, KeepsSent
<1>4. CASE Call(t) \/ EndCall(t)
  <2>1. UNCHANGED <<req, jar, token, current, revoked, signed>>
    BY <1>4 DEF Call, EndCall, server, browser, history
  <2> QED BY <2>1, KeepsSame DEF KeepsInv
<1>5. CASE Wait(t)
  <2>1. UNCHANGED <<jar, token, current, revoked, signed>>
    BY <1>5 DEF Wait, server, browser
  <2>2. CASE <<t, "refresh">> \in Flying
    <3>1. req' = req
      BY <1>5, <2>2 DEF Wait
    <3> QED BY <2>1, <3>1, KeepsSame DEF KeepsInv
  <2>3. CASE <<t, "refresh">> \notin Flying
    <3>1. Flying = {} /\ req' = [req EXCEPT ![<<t, "refresh">>] = Sent("refresh")]
      BY <1>5, <2>3 DEF Wait
    <3> QED BY <1>0, <2>1, <3>1, KeepsSent
  <2> QED BY <2>2, <2>3
<1> QED BY <1>1, <1>2, <1>3, <1>4, <1>5

LEMMA KeepsReload ==
  ASSUME TypeInv, KeepsInv, ~disturbed, ~disturbed', NEW t \in Tabs, Reload(t)
  PROVE  KeepsInv'
<1>1. /\ \A s \in Slots : <<t, s>> \notin Flying
      /\ token' = [token EXCEPT ![t] = disk] /\ UNCHANGED <<jar, current, revoked>>
      /\ req' = [k \in Tabs \X Slots |-> IF k[1] = t /\ k \in Flying THEN [req[k] EXCEPT !.gone = TRUE] ELSE req[k]]
      /\ signed' = IF disk # None /\ signed # {} THEN signed \cup {t} ELSE signed \ {t}
  BY DEF Reload, server
<1>2. req' = req
  <2>1. \A k \in Tabs \X Slots : k[1] = t => k \notin Flying
    BY <1>1
  <2>2. req' = [k \in Tabs \X Slots |-> req[k]]
    BY <1>1, <2>1
  <2>3. req = [k \in Tabs \X Slots |-> req[k]]
    BY DEF TypeInv, TypesUpTo
  <2> QED BY <2>2, <2>3
<1>3. \A u \in signed' : u \in Tabs /\ token'[u] # None
  <2>1. \A u \in signed : u \in Tabs /\ token[u] # None
    BY DEF KeepsInv
  <2>2. token'[t] = disk /\ \A u : u # t /\ u \in Tabs => token'[u] = token[u]
    BY <1>1 DEF TypeInv, TypesUpTo
  <2> QED BY <1>1, <2>1, <2>2
<1> QED BY <1>1, <1>2, <1>3, KeepsSame

\* The service handles the one request that is under way.
LEMMA KeepsServes ==
  ASSUME TypeInv, KeepsInv, ~disturbed, ~disturbed', NEW k \in Keys, Serve(k)
  PROVE  KeepsInv'
<1> DEFINE n == issued
<1>0. /\ n \in Nat /\ TypesUpTo(n) /\ SlotsInv
      /\ current \in [Stores -> 0 .. n] /\ revoked \in [Stores -> SUBSET (1 .. n)]
      /\ req \in [Tabs \X Slots -> Requests(n)]
  BY DEF TypeInv, TypesUpTo
<1> HIDE DEF n
<1>1. Flying = {k} /\ req[k].phase # "idle" /\ ~req[k].gone
  <2>1. req[k].phase # "idle"
    BY DEF Serve, ServeLogin, ServeLogout, CheckRefresh, Rotate
  <2>2. k \in Flying
    BY <2>1 DEF Flying, Keys
  <2> QED BY <2>1, <2>2 DEF KeepsInv, OneAtATime
<1>2. UNCHANGED <<jar, token, signed>>
  BY DEF Serve, ServeLogin, ServeLogout, CheckRefresh, Rotate, browser, history
<1>3. "redis" \in Stores
  BY DEF Stores
<1>4. \A s : StoreOf(s) => s = "redis"
  BY DEF StoreOf
<1>5. \A t \in signed' : t \in Tabs /\ token'[t] # None
  BY <1>2 DEF KeepsInv
\* A token that is issued is the one that the service takes.
<1>6. ASSUME Answer(k, TRUE, n + 1), n + 1 = current'["redis"], n + 1 \notin revoked'["redis"],
             req[k].op \in {"login", "refresh"}
      PROVE  KeepsInv'
  <2>1. TypesUpTo(n + 1) /\ n + 1 \in 0 .. n + 1 /\ n + 1 # None
    BY <1>0, Widen DEF None
  <2>2. req \in [Tabs \X Slots -> Requests(n + 1)] /\ k \in Tabs \X Slots
    BY <2>1 DEF TypesUpTo, Keys
  <2>3. /\ req'[k] = [op |-> req[k].op, phase |-> "answered", store |-> "redis", jti |-> n + 1, ok |-> TRUE, gone |-> req[k].gone]
        /\ \A l \in Tabs \X Slots : l # k => req'[l] = req[l]
    <3> DEFINE m == n + 1
    <3>1. /\ req \in [Tabs \X Slots -> Requests(m)] /\ m \in 0 .. m /\ Answer(k, TRUE, m)
      BY <1>6, <2>1, <2>2
    <3> HIDE DEF m
    <3>2. \A ok \in BOOLEAN : Answer(k, ok, m) =>
            /\ req'[k] = [op |-> req[k].op, phase |-> "answered", store |-> "redis", jti |-> m, ok |-> ok, gone |-> req[k].gone]
            /\ \A l \in Tabs \X Slots : l # k => req'[l] = req[l]
      BY <2>2, <3>1, AnswerIs
    <3> QED BY <3>1, <3>2 DEF m
  <2>4. req'[k].op = req[k].op /\ req'[k].phase = "answered" /\ req'[k].jti = n + 1 /\ req'[k].gone = req[k].gone
    BY <2>3
  <2>5. req'[k].ok
    BY <2>3
  <2>6. Flying' = {k}
    BY <1>1, <2>3, <2>4 DEF Flying, Keys
  <2>7. OneAtATime'
    BY <1>1, <2>4, <2>6 DEF OneAtATime
  <2>8. AnswersAreValid'
    BY <1>6, <2>1, <2>4, <2>6 DEF AnswersAreValid, Valid
  <2>9. HasSession'
    BY <1>6, <2>4, <2>5, <2>6 DEF HasSession
  <2> QED BY <1>5, <2>7, <2>8, <2>9 DEF KeepsInv
\* An answer that gives none.
<1>7. ASSUME NEW ok \in BOOLEAN, Answer(k, ok, None), req[k].op = "logout" \/ (req[k].op = "refresh" /\ ~ok), signed = {}
      PROVE  KeepsInv'
  <2>1. None \in 0 .. n
    BY <1>0 DEF None
  <2>2. /\ req'[k] = [op |-> req[k].op, phase |-> "answered", store |-> "redis", jti |-> None, ok |-> ok, gone |-> req[k].gone]
        /\ \A l \in Tabs \X Slots : l # k => req'[l] = req[l]
    BY <1>0, <1>7, <2>1, AnswerIs DEF Keys
  <2>3. req'[k].op = req[k].op /\ req'[k].phase = "answered" /\ req'[k].ok = ok /\ req'[k].gone = req[k].gone
    BY <2>2
  <2>4. Flying' = {k}
    BY <1>1, <2>2, <2>3 DEF Flying, Keys
  <2>5. OneAtATime'
    BY <1>1, <2>3, <2>4 DEF OneAtATime
  <2>6. AnswersAreValid'
    BY <1>7, <2>3, <2>4 DEF AnswersAreValid, GivesToken
  <2> QED BY <1>2, <1>5, <1>7, <2>5, <2>6 DEF KeepsInv
<1>8. CASE ServeLogin(k)
  <2>1. /\ req[k].op = "login" /\ current' = [current EXCEPT !["redis"] = n + 1] /\ revoked' = revoked
        /\ Answer(k, TRUE, n + 1)
    BY <1>4, <1>8 DEF ServeLogin, n
  <2>2. current'["redis"] = n + 1 /\ n + 1 \notin revoked'["redis"]
    BY <1>0, <1>3, <2>1
  <2> QED BY <1>6, <2>1, <2>2
<1>9. CASE Rotate(k)
  <2>1. req[k].store = "redis" /\ req[k].op = "refresh"
    BY <1>0, <1>1, <1>9, SlotOf DEF KeepsInv, OneAtATime, Rotate
  <2>2. /\ revoked' = [revoked EXCEPT !["redis"] = @ \cup {req[k].jti}]
        /\ current' = [current EXCEPT !["redis"] = n + 1]
        /\ Answer(k, TRUE, n + 1)
    BY <1>9, <2>1 DEF Rotate, n
  <2>3. req[k].jti \in 0 .. n
    BY <1>0, TypeOfRequest
  <2>4. current'["redis"] = n + 1 /\ n + 1 \notin revoked'["redis"]
    BY <1>0, <1>3, <2>2, <2>3
  <2> QED BY <1>6, <2>1, <2>2, <2>4
<1>10. CASE ServeLogout(k)
  <2>1. req[k].op = "logout" /\ Answer(k, TRUE, None)
    BY <1>10 DEF ServeLogout
  <2>2. signed = {}
    BY <1>1, <2>1 DEF KeepsInv, HasSession
  <2> QED BY <1>7, <2>1, <2>2
<1>11. CASE CheckRefresh(k)
  <2> DEFINE passes == req[k].jti # None /\ req[k].jti \notin revoked["redis"] /\ req[k].jti = current["redis"]
  <2>1. /\ req[k].op = "refresh" /\ req[k].phase = "sent" /\ current' = current
        /\ IF passes
           THEN req' = [req EXCEPT ![k] = [[@ EXCEPT !.phase = "checked"] EXCEPT !.store = "redis"]] /\ revoked' = revoked
           ELSE Answer(k, FALSE, None)
    BY <1>4, <1>11 DEF CheckRefresh
  <2>2. signed # {} => passes
    <3>1. signed # {} => req[k].jti = jar /\ Valid(jar)
      BY <1>1, <2>1 DEF KeepsInv, HasSession
    <3> QED BY <3>1 DEF Valid
  <2>3. CASE ~passes
    <3>1. Answer(k, FALSE, None) /\ signed = {}
      BY <2>1, <2>2, <2>3
    <3> QED BY <1>7, <2>1, <3>1
  <2>4. CASE passes
    <3> DEFINE q == req[k]
               q1 == [q EXCEPT !.phase = "checked"]
               q2 == [q1 EXCEPT !.store = "redis"]
    <3>1. q \in [op : {"none", "login", "logout", "refresh"}, phase : {"idle", "sent", "checked", "answered"},
                 store : Stores, jti : 0 .. n, ok : BOOLEAN, gone : BOOLEAN]
      BY <1>0 DEF Keys, Requests
    <3>2. req' = [req EXCEPT ![k] = q2]
      BY <2>1, <2>4
    <3>3. q.op = "refresh" /\ ~q.gone
      BY <1>1, <2>1
    <3> HIDE DEF q
    <3>4. q1 = [op |-> q.op, phase |-> "checked", store |-> q.store, jti |-> q.jti, ok |-> q.ok, gone |-> q.gone]
      BY <3>1
    <3> HIDE DEF q1
    <3>5. q2 = [op |-> q.op, phase |-> "checked", store |-> "redis", jti |-> q.jti, ok |-> q.ok, gone |-> q.gone]
      BY <3>4
    <3> HIDE DEF q2
    <3>6. q2.op = "refresh" /\ q2.phase = "checked" /\ q2.store = "redis" /\ q2.jti = q.jti /\ q2.gone = q.gone
      BY <3>3, <3>5
    <3>7. req'[k] = q2 /\ \A l \in Tabs \X Slots : l # k => req'[l] = req[l]
      BY <1>0, <3>2 DEF Keys
    <3>8. Flying' = {k}
      BY <1>1, <3>6, <3>7 DEF Flying, Keys
    <3>9. OneAtATime' /\ AnswersAreValid'
      BY <3>3, <3>6, <3>7, <3>8 DEF OneAtATime, AnswersAreValid
    <3>10. signed # {} => HasSession'
      <4> SUFFICES ASSUME signed # {} PROVE HasSession'
        OBVIOUS
      <4>1. q.jti = jar /\ Valid(jar)
        BY <1>1, <2>1 DEF KeepsInv, HasSession, q
      <4>2. revoked' = revoked
        BY <2>1, <2>4
      <4>3. Valid(jar)'
        BY <1>2, <2>1, <4>1, <4>2 DEF Valid
      <4> QED BY <1>2, <3>6, <3>7, <3>8, <4>1, <4>3 DEF HasSession
    <3> QED BY <1>2, <1>5, <3>9, <3>10 DEF KeepsInv
  <2> QED BY <2>3, <2>4
<1> QED BY <1>8, <1>9, <1>10, <1>11 DEF Serve

\* A tab receives the one answer that is under way.
LEMMA KeepsReceives ==
  ASSUME TypeInv, KeepsInv, ~disturbed, ~disturbed', NEW k \in Keys, Receive(k)
  PROVE  KeepsInv'
<1> DEFINE t == k[1]
           r == req[k]
<1>1. /\ r.phase = "answered" /\ UNCHANGED <<current, revoked>> /\ req' = [req EXCEPT ![k] = Idle]
      /\ \/ r.gone
         \/ r.op = "logout" /\ Store(t, None) /\ UNCHANGED signed
         \/ r.op = "login" /\ jar' = r.jti /\ Store(t, r.jti) /\ signed' = signed \cup {t}
         \/ r.op = "refresh" /\ r.ok /\ jar' = r.jti /\ Store(t, r.jti) /\ UNCHANGED signed
         \/ r.op = "refresh" /\ ~r.ok /\ Store(t, None) /\ UNCHANGED signed
  BY DEF Receive, server, Fail
<1>2. k \in Flying /\ t \in Tabs
  BY <1>1 DEF Flying, Keys
<1>3. Flying = {k} /\ ~r.gone
  BY <1>2 DEF KeepsInv, OneAtATime
<1>4. Flying' = {}
  <2>1. Idle.phase = "idle"
    BY DEF Idle
  <2>2. req'[k] = Idle /\ \A l \in Tabs \X Slots : l # k => req'[l] = req[l]
    BY <1>1 DEF TypeInv, TypesUpTo, Keys
  <2> QED BY <1>3, <2>1, <2>2 DEF Flying, Keys
<1>5. OneAtATime' /\ AnswersAreValid'
  BY <1>4 DEF OneAtATime, AnswersAreValid
<1>6. \A u \in signed : u \in Tabs /\ token[u] # None
  BY DEF KeepsInv
<1>7. token \in [Tabs -> 0 .. issued]
  BY DEF TypeInv, TypesUpTo
<1>8. CASE signed' = {}
  BY <1>5, <1>8 DEF KeepsInv
<1>9. CASE signed' # {}
  <2>1. /\ r.op = "login" \/ (r.op = "refresh" /\ r.ok /\ signed # {})
        /\ jar' = r.jti /\ Store(t, r.jti) /\ (signed' = signed \/ signed' = signed \cup {t})
    BY <1>1, <1>2, <1>3, <1>9 DEF KeepsInv, HasSession
  <2>2. r.jti # None /\ Valid(r.jti)
    BY <1>1, <1>2, <2>1 DEF KeepsInv, AnswersAreValid, GivesToken
  <2>3. \A u \in signed' : u \in Tabs /\ token'[u] # None
    BY <1>2, <1>6, <1>7, <2>1, <2>2 DEF Store
  <2>4. Valid(jar)'
    BY <1>1, <2>1, <2>2 DEF Valid
  <2>5. HasSession'
    BY <1>4, <2>4 DEF HasSession
  <2> QED BY <1>5, <2>3, <2>5 DEF KeepsInv
<1> QED BY <1>8, <1>9

LEMMA KeepsStep == TypeInv /\ KeepsInv /\ [Next]_vars => KeepsInv'
<1> SUFFICES ASSUME TypeInv, KeepsInv, [Next]_vars, ~disturbed'
             PROVE  KeepsInv'
  BY DEF KeepsInv
<1>0. ~disturbed
  BY Undisturbed
<1>1. ASSUME NEW t \in Tabs, Login(t) \/ Logout(t) \/ Timer(t) \/ Call(t) \/ EndCall(t) \/ Wait(t) \/ Reload(t)
      PROVE  KeepsInv'
  BY <1>0, <1>1, KeepsSends, KeepsReload
<1>2. ASSUME NEW k \in Keys, Serve(k) \/ Receive(k) \/ Lose(k)
      PROVE  KeepsInv'
  <2>1. ~Lose(k)
    BY DEF Lose
  <2> QED BY <1>0, <1>2, <2>1, KeepsServes, KeepsReceives
<1>3. ASSUME Restart \/ LoginElsewhere
      PROVE  FALSE
  BY <1>3 DEF Restart, LoginElsewhere
<1>4. ASSUME Expire \/ UNCHANGED vars
      PROVE  KeepsInv'
  <2>1. UNCHANGED <<req, jar, token, current, revoked, signed>>
    BY <1>4 DEF Expire, server, browser, history, vars
  <2> QED BY <1>0, <2>1, KeepsSame DEF KeepsInv
<1> QED BY <1>1, <1>2, <1>3, <1>4 DEF Next, Keys

\* Whoever signed in keeps the token of the tab and a cookie that the service takes,
\* through every refresh, until a logout, as long as requests neither overlap nor
\* get lost (auth_service.py, refresh, which takes only the token issued last).
THEOREM SessionsAreKept == SessionSpec => []KeepsSession
<1>1. SessionInit => KeepsInv
  BY DEF SessionInit, KeepsInv, OneAtATime, AnswersAreValid, Flying, Idle
<1>2. KeepsInv => KeepsSession
  BY DEF KeepsInv, KeepsSession, HasSession, Valid
<1> QED BY <1>1, <1>2, TypesHold, KeepsStep, PTL DEF SessionSpec

=============================================================================
