--------------------------- MODULE RequestsProofs ----------------------------
(***************************************************************************)
(* Theorems about Timetable and Requests: the timetable is the earliest    *)
(* that keeps the interval, the number of attempts is bounded, results are *)
(* tried after the odds of their race and refunds after the results, and   *)
(* every item is tried in time, for every day and every setting.           *)
(***************************************************************************)
EXTENDS Requests, TLAPS

-----------------------------------------------------------------------------
(* The timetable *)

LEMMA PlacesAreTyped ==
  ASSUME TypeOK
  PROVE  /\ Len(queue) \in Nat /\ DOMAIN queue = 1 .. Len(queue)
         /\ \A k \in 1 .. Len(queue) : queue[k] \in [task : AllTasks, at : Nat]
<1> DEFINE S == [task : AllTasks, at : Nat]
<1>1. queue \in Seq(S)
  BY DEF TypeOK
<1> HIDE DEF S
<1>2. /\ Len(queue) \in Nat /\ DOMAIN queue = 1 .. Len(queue)
      /\ \A k \in 1 .. Len(queue) : queue[k] \in S
  BY <1>1
<1> QED BY <1>2 DEF S

\* A task of a day has a target that is no negative time.
LEMMA TargetsAreTimes == \A t \in AllTasks : t.target \in Nat
<1> SUFFICES ASSUME NEW day \in Days, NEW t \in Tasks(day) PROVE t.target \in Nat
  BY DEF AllTasks
<1> DEFINE races == Started(day.races)
<1>1. races \subseteq [venue : Nat, no : Nat \ {0}, start : Nat]
  BY DayAssumption DEF Started, Races
<1>2. \A r \in races : r.start - DebaLead \in Nat /\ r.start \in Nat
  <2> TAKE r \in races
  <2>1. r \in day.races /\ r.start # Unknown /\ r.start \in Nat
    BY <1>1 DEF Started
  <2>2. r.start >= DebaLead
    BY <2>1, DayAssumption
  <2> QED BY <2>1, <2>2, LeadAssumption
<1>3. \A r \in races, k \in NormalKinds(day.posted) : r.start - Offset[k] \in Nat
  <2> TAKE r \in races, k \in NormalKinds(day.posted)
  <2>1. r \in day.races /\ r.start # Unknown /\ r.start \in Nat
    BY <1>1 DEF Started
  <2>2. k \in AllowedKinds
    BY DEF NormalKinds
  <2>3. r.start >= Offset[k] /\ Offset[k] \in Nat
    BY <2>1, <2>2, DayAssumption, OffsetAssumption
  <2> QED BY <2>1, <2>3
<1>4. CASE t \in {NewTask("deba_table", "early", NoPage, r.venue, r.no, r.start - DebaLead) : r \in races}
  BY <1>2, <1>4 DEF NewTask
<1>5. CASE t \in {NewTask("odds", k, p, r.venue, r.no, r.start - Offset[k]) :
                    r \in races, k \in NormalKinds(day.posted), p \in OddsPages}
  BY <1>3, <1>5 DEF NewTask
<1>6. CASE t \in {NewTask("race_mark", "final", NoPage, r.venue, r.no, r.start) : r \in races}
  BY <1>2, <1>6 DEF NewTask
<1>7. CASE t \in {NewTask("refund", "final", NoPage, r.venue, 0, r.start) : r \in Last(races)}
  BY <1>2, <1>7 DEF NewTask, Last
<1> QED BY <1>4, <1>5, <1>6, <1>7 DEF Tasks

\* The next task gets a time, not before its target.
LEMMA PlaceIsTime ==
  ASSUME TypeOK, NEW t \in AllTasks
  PROVE  Place(t) \in Nat
<1>1. t.target \in Nat
  BY TargetsAreTimes
<1>2. Len(queue) \in Nat /\ (Len(queue) # 0 => queue[Len(queue)].at \in Nat)
  BY PlacesAreTyped
<1> QED BY <1>1, <1>2, IntervalAssumption DEF Place

LEMMA PlacingKeepsTypes == TypeOK /\ PlaceNext => TypeOK'
<1> SUFFICES ASSUME TypeOK, PlaceNext PROVE TypeOK'
  OBVIOUS
<1>1. PICK t \in left : /\ queue' = Append(queue, [task |-> t, at |-> Place(t)])
                        /\ left' = left \ {t}
  BY DEF PlaceNext
<1>2. t \in AllTasks /\ Place(t) \in Nat
  BY <1>1, PlaceIsTime DEF TypeOK
<1> QED BY <1>1, <1>2 DEF TypeOK

LEMMA PlacingKeepsEarliest == TypeOK /\ EarliestSpaced /\ PlaceNext => EarliestSpaced'
<1> SUFFICES ASSUME TypeOK, EarliestSpaced, PlaceNext PROVE EarliestSpaced'
  OBVIOUS
<1> DEFINE n == Len(queue)
<1>1. PICK t \in left : /\ queue' = Append(queue, [task |-> t, at |-> Place(t)])
                        /\ left' = left \ {t}
  BY DEF PlaceNext
<1>2. t \in AllTasks /\ t.target \in Nat /\ Place(t) \in Nat
  BY <1>1, PlaceIsTime, TargetsAreTimes DEF TypeOK
<1>3. /\ n \in Nat /\ Len(queue') = n + 1
      /\ \A k \in 1 .. n : queue'[k] = queue[k]
      /\ queue'[n + 1].task.target = t.target /\ queue'[n + 1].at = Place(t)
  BY <1>1 DEF TypeOK
<1>4. \A k \in 1 .. n : queue[k].at \in Nat /\ queue[k].task.target \in Nat
  BY TargetsAreTimes, PlacesAreTyped
<1>5. SUFFICES ASSUME NEW k \in 1 .. n + 1
               PROVE  /\ \A u \in 1 .. k : queue'[k].at >= queue'[u].task.target + (k - u) * Interval
                      /\ \E u \in 1 .. k : queue'[k].at = queue'[u].task.target + (k - u) * Interval
  BY <1>3 DEF EarliestSpaced
<1>6. CASE k \in 1 .. n
  <2>1. \A u \in 1 .. k : u \in 1 .. n /\ queue'[u] = queue[u]
    BY <1>3, <1>6
  <2> QED BY <1>3, <1>6, <2>1 DEF EarliestSpaced
<1>7. CASE k = n + 1
  <2>1. Place(t) >= t.target /\ (n # 0 => Place(t) >= queue[n].at + Interval)
    BY <1>2, <1>3, <1>4, IntervalAssumption DEF Place
  <2>2. ASSUME NEW u \in 1 .. n
        PROVE  Place(t) >= queue[u].task.target + (n + 1 - u) * Interval
    <3>1. queue[n].at >= queue[u].task.target + (n - u) * Interval
      BY <1>3, <2>2 DEF EarliestSpaced
    <3>2. (n + 1 - u) * Interval = (n - u) * Interval + Interval /\ (n - u) * Interval \in Int
      BY <1>3, IntervalAssumption
    <3>3. n # 0 /\ n \in 1 .. n
      BY <1>3
    <3> DEFINE a == Place(t)
               b == queue[n].at
               c == queue[u].task.target
               d == (n - u) * Interval
    <3>4. a >= b + Interval /\ b >= c + d
      BY <2>1, <3>1, <3>3
    <3>5. a \in Nat /\ b \in Nat /\ c \in Nat /\ d \in Int
      BY <1>2, <1>4, <3>2, <3>3
    <3>6. (n + 1 - u) * Interval = d + Interval
      BY <3>2
    <3> HIDE DEF a, b, c, d
    <3>7. a >= c + (d + Interval)
      BY <3>4, <3>5, IntervalAssumption
    <3> QED BY <3>6, <3>7 DEF a, c
  <2>3. \A u \in 1 .. n + 1 : Place(t) >= queue'[u].task.target + (n + 1 - u) * Interval
    <3> TAKE u \in 1 .. n + 1
    <3>1. CASE u = n + 1
      <4>1. (n + 1 - u) * Interval = 0
        BY <1>3, <3>1, IntervalAssumption
      <4> QED BY <1>2, <1>3, <2>1, <3>1, <4>1
    <3>2. CASE u \in 1 .. n
      BY <1>3, <2>2, <3>2
    <3> QED BY <1>3, <3>1, <3>2
  <2>4. \E u \in 1 .. n + 1 : Place(t) = queue'[u].task.target + (n + 1 - u) * Interval
    <3>1. CASE n = 0 \/ queue[n].at + Interval <= t.target
      <4>1. Place(t) = t.target /\ (n + 1 - (n + 1)) * Interval = 0 /\ n + 1 \in 1 .. n + 1
        BY <1>3, <3>1, IntervalAssumption DEF Place
      <4> QED BY <1>2, <1>3, <4>1
    <3>2. CASE ~(n = 0 \/ queue[n].at + Interval <= t.target)
      <4>1. Place(t) = queue[n].at + Interval
        BY <3>2 DEF Place
      <4>2. PICK u \in 1 .. n : queue[n].at = queue[u].task.target + (n - u) * Interval
        BY <1>3, <3>2 DEF EarliestSpaced
      <4>3. (n + 1 - u) * Interval = (n - u) * Interval + Interval /\ (n - u) * Interval \in Int
        BY <1>3, IntervalAssumption
      <4>4. Place(t) = queue'[u].task.target + (n + 1 - u) * Interval /\ u \in 1 .. n + 1
        BY <1>3, <1>4, <4>1, <4>2, <4>3, IntervalAssumption
      <4> QED BY <4>4
    <3> QED BY <3>1, <3>2
  <2> QED BY <1>3, <1>7, <2>3, <2>4
<1> QED BY <1>3, <1>5, <1>6, <1>7

-----------------------------------------------------------------------------
(* The requests *)

\* The attempts go with the steps, and nothing is executed before the plan is made.
StepsInv ==
  /\ step \in {"sleep", "next"} => attempt = 0
  /\ step = "wait" => attempt \in 0 .. MaxRetries
  /\ step \in {"sent", "parse"} => attempt \in 1 .. MaxRetries + 1
  /\ step \in {"wait", "sent", "parse"} => item \in Items
  /\ left # {} => step = "sleep"

RequestsInv == RequestsTypeOK /\ StepsInv

LEMMA LaterIsTime == \A a, b \in Nat : Later(a, b) \in Nat /\ Later(a, b) >= a /\ Later(a, b) >= b
BY DEF Later

LEMMA BackoffIsTime == \A n \in 1 .. MaxRetries + 1 : Backoff(n) \in Nat
BY BackoffAssumption, ClientAssumption DEF Backoff

LEMMA ItemsAreNumbered == TypeOK => Items = 1 .. Len(queue) /\ Len(queue) \in Nat
BY PlacesAreTyped DEF Items

LEMMA RequestsStart == RequestsInit => RequestsInv
<1> SUFFICES ASSUME RequestsInit PROVE RequestsInv
  OBVIOUS
<1>1. TypeOK
  <2>1. PICK day \in Days : left = Tasks(day)
    BY DEF RequestsInit, Init
  <2> QED BY <2>1 DEF RequestsInit, Init, TypeOK, AllTasks
<1>2. clock \in Nat /\ opened \in Nat /\ lastTs \in Nat \cup {Never}
  BY ClientAssumption DEF RequestsInit
<1>3. DOMAIN recent = {}
  BY DEF RequestsInit
<1>4. attempt = 0 /\ 0 \in 0 .. MaxRetries + 1
  BY ClientAssumption DEF RequestsInit
<1> QED BY <1>1, <1>2, <1>3, <1>4 DEF RequestsInit, RequestsInv, RequestsTypeOK, StepsInv

LEMMA RequestsStep == RequestsInv /\ [Next]_vars => RequestsInv'
<1> SUFFICES ASSUME RequestsInv, [Next]_vars PROVE RequestsInv'
  OBVIOUS
<1> USE DEF RequestsInv
<1>0. /\ MaxRetries \in Nat /\ TickLen \in Nat /\ Cooldown \in Nat
      /\ MinInterval \in Nat /\ Jitter \in Nat /\ Latency \in Nat
      /\ Items = 1 .. Len(queue) /\ Len(queue) \in Nat
      /\ clock \in Nat
  BY ClientAssumption, ItemsAreNumbered DEF RequestsTypeOK
<1>1. CASE Plan
  <2>1. PICK t \in left : queue' = Append(queue, [task |-> t, at |-> Place(t)])
    BY <1>1 DEF Plan, PlaceNext
  <2>2. TypeOK' /\ Items \subseteq Items'
    <3>1. TypeOK'
      BY <1>1, PlacingKeepsTypes DEF Plan, RequestsTypeOK
    <3>2. Len(queue') = Len(queue) + 1 /\ Items' = 1 .. Len(queue')
      BY <2>1 DEF RequestsTypeOK, TypeOK, Items
    <3> QED BY <1>0, <3>1, <3>2
  <2>3. step = "sleep" /\ step' = "sleep" /\ attempt' = attempt
    BY <1>1 DEF Plan, PlaceNext, client, StepsInv
  <2> QED BY <1>1, <2>2, <2>3 DEF Plan, client, RequestsTypeOK, StepsInv
<1>2. ASSUME left' = left, queue' = queue
      PROVE  TypeOK' /\ Items' = Items
  BY <1>2 DEF RequestsTypeOK, TypeOK, Items
<1>3. CASE StartPass /\ UNCHANGED <<left, queue>>
  <2>1. clock' \in Nat
    BY <1>0, <1>3 DEF StartPass
  <2> QED BY <1>2, <1>3, <2>1 DEF StartPass, Planned, RequestsTypeOK, StepsInv
<1>4. CASE NextItem /\ UNCHANGED <<left, queue>>
  <2>1. PICK i \in due : /\ item' = i
                         /\ due' = due \ {i}
                         /\ clock' = IF i \in DOMAIN recent THEN Later(clock, recent[i] + Cooldown) ELSE clock
                         /\ tried' = tried \cup {i}
    BY <1>4 DEF NextItem
  <2>2. i \in Items
    BY DEF RequestsTypeOK
  <2>3. clock' \in Nat
    <3>1. CASE i \in DOMAIN recent
      <4>1. recent[i] + Cooldown \in Nat
        BY <1>0, <3>1 DEF RequestsTypeOK
      <4> QED BY <1>0, <2>1, <3>1, <4>1, LaterIsTime
    <3>2. CASE i \notin DOMAIN recent
      BY <1>0, <2>1, <3>2
    <3> QED BY <3>1, <3>2
  <2>4. attempt = 0 /\ 0 \in 0 .. MaxRetries /\ left = {}
    BY <1>0, <1>4 DEF NextItem, StepsInv
  <2> QED BY <1>2, <1>4, <2>1, <2>2, <2>3, <2>4 DEF NextItem, RequestsTypeOK, StepsInv
<1>5. CASE EndPass /\ UNCHANGED <<left, queue>>
  BY <1>2, <1>5 DEF EndPass, RequestsTypeOK, StepsInv
<1>6. CASE Send /\ UNCHANGED <<left, queue>>
  <2>1. PICK j \in {0, Jitter} :
          clock' = IF lastTs = Never THEN clock ELSE Later(clock, lastTs + MinInterval + j)
    BY <1>6 DEF Send
  <2>2. clock' \in Nat
    <3>1. CASE lastTs = Never
      BY <1>0, <2>1, <3>1
    <3>2. CASE lastTs # Never
      <4>1. lastTs + MinInterval + j \in Nat
        BY <1>0, <3>2 DEF RequestsTypeOK
      <4> QED BY <1>0, <2>1, <3>2, <4>1, LaterIsTime
    <3> QED BY <3>1, <3>2
  <2>3. attempt' \in 1 .. MaxRetries + 1 /\ item \in Items /\ left = {}
    BY <1>0, <1>6 DEF Send, StepsInv
  <2>4. lastTs' \in Nat
    BY <1>6, <2>2 DEF Send
  <2> QED BY <1>0, <1>2, <1>6, <2>2, <2>3, <2>4 DEF Send, RequestsTypeOK, StepsInv
<1>7. CASE TryAgain /\ UNCHANGED <<left, queue>>
  <2>1. attempt \in 1 .. MaxRetries /\ item \in Items /\ left = {}
    BY <1>0, <1>7 DEF TryAgain, StepsInv
  <2>2. clock' \in Nat
    BY <1>0, <1>7, <2>1, BackoffIsTime DEF TryAgain
  <2> QED BY <1>0, <1>2, <1>7, <2>1, <2>2 DEF TryAgain, RequestsTypeOK, StepsInv
<1>8. CASE GiveUp /\ UNCHANGED <<left, queue>>
  <2>1. attempt \in 1 .. MaxRetries + 1 /\ left = {}
    BY <1>0, <1>8 DEF GiveUp, StepsInv
  <2>2. clock' \in Nat
    BY <1>0, <1>8, <2>1, BackoffIsTime DEF GiveUp
  <2> QED BY <1>0, <1>2, <1>8, <2>1, <2>2 DEF GiveUp, Leave, RequestsTypeOK, StepsInv
<1>9. CASE Answer /\ UNCHANGED <<left, queue>>
  <2>1. clock' \in Nat
    BY <1>0, <1>9 DEF Answer
  <2>2. item \in Items /\ left = {}
    BY <1>9 DEF Answer, StepsInv
  <2>3. DOMAIN recent' \subseteq Items /\ \A i \in DOMAIN recent' : recent'[i] \in Nat
    BY <1>9, <2>1, <2>2 DEF Answer, RequestsTypeOK
  <2>4. attempt \in 1 .. MaxRetries + 1
    BY <1>9 DEF Answer, StepsInv
  <2> QED BY <1>0, <1>2, <1>9, <2>1, <2>2, <2>3, <2>4 DEF Answer, RequestsTypeOK, StepsInv
<1>10. CASE Parse /\ UNCHANGED <<left, queue>>
  <2>1. item \in Items /\ left = {}
    BY <1>10 DEF Parse, StepsInv
  <2>2. completed' \subseteq Items
    BY <1>10, <2>1 DEF Parse, Leave, RequestsTypeOK
  <2> QED BY <1>0, <1>2, <1>10, <2>1, <2>2 DEF Parse, Leave, RequestsTypeOK, StepsInv
<1>11. CASE UNCHANGED vars
  BY <1>2, <1>11 DEF vars, client, RequestsTypeOK, StepsInv
<1> QED BY <1>1, <1>3, <1>4, <1>5, <1>6, <1>7, <1>8, <1>9, <1>10, <1>11 DEF Next

LEMMA RequestsInvHolds == RequestsSpec => []RequestsInv
BY RequestsStart, RequestsStep, PTL DEF RequestsSpec

\* For every day, client and scheduler the variables keep their types; an item is
\* never asked for more than MaxRetries + 1 times.
THEOREM RequestsTypeCorrect == RequestsSpec => []RequestsTypeOK
BY RequestsInvHolds, PTL DEF RequestsInv

LEMMA EarliestStart == RequestsInit => EarliestSpaced
<1> SUFFICES ASSUME RequestsInit PROVE EarliestSpaced
  OBVIOUS
<1>1. Len(queue) = 0
  BY DEF RequestsInit, Init
<1> QED BY <1>1 DEF EarliestSpaced

LEMMA EarliestStep == RequestsInv /\ EarliestSpaced /\ [Next]_vars => EarliestSpaced'
<1> SUFFICES ASSUME RequestsInv, EarliestSpaced, [Next]_vars PROVE EarliestSpaced'
  OBVIOUS
<1>1. CASE PlaceNext
  BY <1>1, PlacingKeepsEarliest DEF RequestsInv, RequestsTypeOK
<1>2. CASE queue' = queue
  BY <1>2 DEF EarliestSpaced
<1> QED BY <1>1, <1>2 DEF Next, Plan, vars

\* Whatever races a day has, each item gets the earliest time that its target and
\* those before it allow.
THEOREM TimetableIsEarliest == RequestsSpec => []EarliestSpaced
BY RequestsInvHolds, EarliestStart, EarliestStep, PTL DEF RequestsSpec

-----------------------------------------------------------------------------
(* The order in which the items are tried *)

\* All tasks are of one day; those without a time sort after those with one, and
\* the plan is sorted, by the key and by its times.
OrderInv ==
  /\ \E day \in Days : left \subseteq Tasks(day) /\ \A k \in Items : queue[k].task \in Tasks(day)
  /\ \A k \in Items : \A s \in left : Before(queue[k].task, s)
  /\ \A k, l \in Items : k < l => Before(queue[k].task, queue[l].task) /\ queue[k].at <= queue[l].at

\* Nothing is passed over: what precedes an item that was tried was tried, and what
\* precedes an item of this pass was tried or belongs to the pass as well.
PassInv ==
  /\ left # {} => tried = {} /\ clock = opened
  /\ step = "sleep" => due = {}
  /\ completed \subseteq tried
  /\ \A i \in tried : 1 .. i \subseteq tried
  /\ \A i \in due : 1 .. i \subseteq due \cup tried
  /\ step \in {"wait", "sent", "parse"} => item \in tried /\ \A d \in due : item < d

InOrderInv == RequestsInv /\ OrderInv /\ PassInv

LEMMA TasksAreTyped ==
  \A t \in AllTasks :
    /\ t.kind \in {"deba_table", "odds", "race_mark", "refund"}
    /\ t.page.name \in Nat /\ t.page.flag \in Nat
    /\ t.venue \in Nat /\ t.no \in Nat /\ t.target \in Nat
<1> SUFFICES ASSUME NEW day \in Days, NEW t \in Tasks(day)
             PROVE  /\ t.kind \in {"deba_table", "odds", "race_mark", "refund"}
                    /\ t.page.name \in Nat /\ t.page.flag \in Nat
                    /\ t.venue \in Nat /\ t.no \in Nat
  BY TargetsAreTimes DEF AllTasks
<1> DEFINE races == Started(day.races)
<1>1. races \subseteq [venue : Nat, no : Nat \ {0}, start : Nat]
  BY DayAssumption DEF Started, Races
<1>2. NoPage.name \in Nat /\ NoPage.flag \in Nat
  BY DEF NoPage
<1> HIDE DEF races
<1>3. CASE t \in {NewTask("deba_table", "early", NoPage, r.venue, r.no, r.start - DebaLead) : r \in races}
  BY <1>1, <1>2, <1>3 DEF NewTask
<1>4. CASE t \in {NewTask("odds", k, p, r.venue, r.no, r.start - Offset[k]) :
                    r \in races, k \in NormalKinds(day.posted), p \in OddsPages}
  BY <1>1, <1>4, PageAssumption DEF NewTask
<1>5. CASE t \in {NewTask("race_mark", "final", NoPage, r.venue, r.no, r.start) : r \in races}
  BY <1>1, <1>2, <1>5 DEF NewTask
<1>6. CASE t \in {NewTask("refund", "final", NoPage, r.venue, 0, r.start) : r \in Last(races)}
  BY <1>1, <1>2, <1>6 DEF NewTask, Last
<1> QED BY <1>3, <1>4, <1>5, <1>6 DEF Tasks, races

LEMMA KeysAreNumbers ==
  ASSUME NEW t \in AllTasks
  PROVE  \A i \in 1 .. 6 : SortKey(t)[i] \in Int
<1>1. Rank(t.kind, t.snap) \in Int
  BY DEF Rank
<1>2. Name(t.kind, t.page) \in Int
  BY TasksAreTyped DEF Name, LastName
<1> QED BY <1>1, <1>2, TasksAreTyped DEF SortKey

\* No two tasks come before each other.
LEMMA BeforeIsAsymmetric ==
  ASSUME NEW s \in AllTasks, NEW t \in AllTasks, Before(s, t)
  PROVE  ~Before(t, s)
<1> SUFFICES ASSUME Before(t, s) PROVE FALSE
  OBVIOUS
<1> DEFINE a == SortKey(s)
           b == SortKey(t)
<1>1. \A i \in 1 .. 6 : a[i] \in Int /\ b[i] \in Int
  BY KeysAreNumbers
<1>2. PICK i \in 1 .. 6 : a[i] < b[i] /\ \A j \in 1 .. i - 1 : a[j] = b[j]
  BY DEF Before
<1>3. PICK k \in 1 .. 6 : b[k] < a[k] /\ \A j \in 1 .. k - 1 : b[j] = a[j]
  BY DEF Before
<1> HIDE DEF a, b
<1>4. CASE i = k
  BY <1>1, <1>2, <1>3, <1>4
<1>5. CASE i < k
  <2>1. i \in 1 .. k - 1
    BY <1>5
  <2> QED BY <1>1, <1>2, <1>3, <2>1
<1>6. CASE k < i
  <2>1. k \in 1 .. i - 1
    BY <1>6
  <2> QED BY <1>1, <1>2, <1>3, <2>1
<1> QED BY <1>4, <1>5, <1>6

\* Of what a day has of each kind.
LEMMA KindsOfTasks ==
  ASSUME NEW day \in Days, NEW t \in Tasks(day)
  PROVE  /\ t.kind = "odds" /\ t.snap = "final" =>
              \E r \in Started(day.races) : t.venue = r.venue /\ t.no = r.no /\ t.target = r.start
         /\ t.kind = "race_mark" =>
              \E r \in Started(day.races) : t.venue = r.venue /\ t.no = r.no /\ t.target = r.start
         /\ t.kind = "refund" =>
              \E r \in Last(Started(day.races)) : t.venue = r.venue /\ t.target = r.start
<1> DEFINE races == Started(day.races)
<1>0. \A r \in races : r.start \in Nat
  BY DayAssumption DEF Started, Races
<1> HIDE DEF races
<1>1. CASE t \in {NewTask("deba_table", "early", NoPage, r.venue, r.no, r.start - DebaLead) : r \in races}
  BY <1>1 DEF NewTask
<1>2. CASE t \in {NewTask("odds", k, p, r.venue, r.no, r.start - Offset[k]) :
                    r \in races, k \in NormalKinds(day.posted), p \in OddsPages}
  <2>1. PICK r \in races, k \in NormalKinds(day.posted), p \in OddsPages :
          t = NewTask("odds", k, p, r.venue, r.no, r.start - Offset[k])
    BY <1>2
  <2>2. t.kind = "odds" /\ t.snap = k /\ t.venue = r.venue /\ t.no = r.no /\ t.target = r.start - Offset[k]
    BY <2>1 DEF NewTask
  <2>3. k = "final" => t.target = r.start
    BY <1>0, <2>2, OffsetAssumption
  <2> QED BY <2>2, <2>3 DEF races
<1>3. CASE t \in {NewTask("race_mark", "final", NoPage, r.venue, r.no, r.start) : r \in races}
  BY <1>3 DEF NewTask, races
<1>4. CASE t \in {NewTask("refund", "final", NoPage, r.venue, 0, r.start) : r \in Last(races)}
  BY <1>4 DEF NewTask, races
<1> QED BY <1>1, <1>2, <1>3, <1>4 DEF Tasks, races

\* The sort puts the final odds of a race before its result, and the results of a
\* venue before its refunds, whatever their names.
LEMMA SortPutsResultsLast ==
  ASSUME NEW day \in Days, NEW s \in Tasks(day), NEW t \in Tasks(day),
         FinalOddsOf(s, t) \/ ResultOf(s, t)
  PROVE  Before(s, t)
<1> DEFINE a == SortKey(s)
           b == SortKey(t)
<1>0. a[1] = s.target /\ b[1] = t.target /\ a[1] \in Nat /\ b[1] \in Nat
  BY TasksAreTyped DEF SortKey, AllTasks
<1>1. CASE FinalOddsOf(s, t)
  <2>1. a[1] = b[1]
    <3>1. PICK q \in Started(day.races) : s.venue = q.venue /\ s.no = q.no /\ s.target = q.start
      BY <1>1, KindsOfTasks DEF FinalOddsOf
    <3>2. PICK r \in Started(day.races) : t.venue = r.venue /\ t.no = r.no /\ t.target = r.start
      BY <1>1, KindsOfTasks DEF FinalOddsOf
    <3>3. q = r
      BY <1>1, <3>1, <3>2, DayAssumption DEF FinalOddsOf, Started
    <3> QED BY <1>0, <3>1, <3>2, <3>3
  <2>2. a[2] = 1 /\ b[2] = 2
    BY <1>1 DEF FinalOddsOf, SortKey, Rank
  <2>3. 2 \in 1 .. 6 /\ a[2] < b[2] /\ \A j \in 1 .. 2 - 1 : a[j] = b[j]
    BY <2>1, <2>2
  <2> QED BY <2>3 DEF Before
<1>2. CASE ResultOf(s, t)
  <2>1. a[1] <= b[1]
    <3>1. PICK q \in Started(day.races) : s.venue = q.venue /\ s.no = q.no /\ s.target = q.start
      BY <1>2, KindsOfTasks DEF ResultOf
    <3>2. PICK r \in Last(Started(day.races)) : t.venue = r.venue /\ t.target = r.start
      BY <1>2, KindsOfTasks DEF ResultOf
    <3>3. q.start <= r.start
      BY <1>2, <3>1, <3>2 DEF ResultOf, Last
    <3> QED BY <1>0, <3>1, <3>2, <3>3
  <2>2. a[2] = 2 /\ b[2] = 2 /\ a[3] = LastName /\ b[3] = LastName + 1
    BY <1>2 DEF ResultOf, SortKey, Rank, Name
  <2>3. CASE a[1] < b[1]
    <3>1. 1 \in 1 .. 6 /\ \A j \in 1 .. 1 - 1 : a[j] = b[j]
      OBVIOUS
    <3> QED BY <2>3, <3>1 DEF Before
  <2>4. CASE a[1] = b[1]
    <3>1. 3 \in 1 .. 6 /\ a[3] < b[3] /\ \A j \in 1 .. 3 - 1 : a[j] = b[j]
      BY <2>2, <2>4 DEF LastName
    <3> QED BY <3>1 DEF Before
  <2> QED BY <1>0, <2>1, <2>3, <2>4
<1> QED BY <1>1, <1>2

LEMMA InOrderStart == RequestsInit => InOrderInv
<1> SUFFICES ASSUME RequestsInit PROVE OrderInv /\ PassInv
  BY RequestsStart DEF InOrderInv
<1>1. Items = {}
  BY DEF RequestsInit, Init, Items
<1>2. PICK day \in Days : left = Tasks(day)
  BY DEF RequestsInit, Init
<1>3. OrderInv
  BY <1>1, <1>2 DEF OrderInv
<1>4. PassInv
  BY DEF RequestsInit, PassInv
<1> QED BY <1>3, <1>4

\* Placing a task: it sorts after those placed before it and before those left.
LEMMA PlacingKeepsOrder == RequestsInv /\ OrderInv /\ PlaceNext => OrderInv'
<1> SUFFICES ASSUME RequestsInv, OrderInv, PlaceNext PROVE OrderInv'
  OBVIOUS
<1> DEFINE n == Len(queue)
<1>1. PICK t \in left : /\ \A s \in left \ {t} : Before(t, s)
                        /\ queue' = Append(queue, [task |-> t, at |-> Place(t)])
                        /\ left' = left \ {t}
  BY DEF PlaceNext
<1>2. TypeOK /\ n \in Nat /\ Items = 1 .. n /\ Items' = 1 .. n + 1
  BY <1>1, PlacesAreTyped DEF RequestsInv, RequestsTypeOK, TypeOK, Items
<1>3. /\ \A k \in 1 .. n : queue'[k] = queue[k] /\ queue[k].at \in Nat
      /\ queue'[n + 1].task = t /\ queue'[n + 1].at = Place(t)
  BY <1>1, <1>2, PlacesAreTyped DEF TypeOK
<1>4. PICK day \in Days : left \subseteq Tasks(day) /\ \A k \in Items : queue[k].task \in Tasks(day)
  BY DEF OrderInv
<1>5. left' \subseteq Tasks(day) /\ \A k \in Items' : queue'[k].task \in Tasks(day)
  BY <1>1, <1>2, <1>3, <1>4
<1>6. \A k \in Items' : \A s \in left' : Before(queue'[k].task, s)
  BY <1>1, <1>2, <1>3 DEF OrderInv
<1>7. ASSUME NEW k \in Items', NEW l \in Items', k < l
      PROVE  Before(queue'[k].task, queue'[l].task) /\ queue'[k].at <= queue'[l].at
  <2>1. k \in 1 .. n
    BY <1>2, <1>7
  <2>2. CASE l \in 1 .. n
    BY <1>2, <1>3, <1>7, <2>1, <2>2 DEF OrderInv
  <2>3. CASE l = n + 1
    <3>1. Before(queue[k].task, t)
      BY <1>1, <1>2, <2>1 DEF OrderInv
    <3>2. queue[k].at <= queue[n].at
      BY <1>2, <1>3, <2>1 DEF OrderInv
    <3>3. t \in AllTasks /\ Place(t) \in Nat /\ t.target \in Nat
      BY <1>1, <1>2, PlaceIsTime, TargetsAreTimes DEF TypeOK
    <3>4. Place(t) >= queue[n].at
      <4>1. n # 0 /\ queue[n].at \in Nat
        BY <1>2, <1>3, <2>1
      <4> QED BY <3>3, <4>1, IntervalAssumption DEF Place
    <3> QED BY <1>2, <1>3, <2>1, <2>3, <3>1, <3>2, <3>3, <3>4
  <2> QED BY <1>2, <1>7, <2>2, <2>3
<1> QED BY <1>5, <1>6, <1>7 DEF OrderInv, Before, SortKey

LEMMA PassStep == InOrderInv /\ [Next]_vars => PassInv'
<1> SUFFICES ASSUME InOrderInv, [Next]_vars PROVE PassInv'
  OBVIOUS
<1> USE DEF InOrderInv
<1>0. /\ Items = 1 .. Len(queue) /\ Len(queue) \in Nat
      /\ due \subseteq Items /\ tried \subseteq Items /\ completed \subseteq Items
  BY ItemsAreNumbered DEF RequestsInv, RequestsTypeOK
<1>1. CASE Plan
  BY <1>1 DEF Plan, PlaceNext, client, PassInv
<1>2. CASE StartPass /\ UNCHANGED <<left, queue>>
  <2>1. left' = {} /\ step' = "next" /\ completed' = completed /\ tried' = tried
    BY <1>2 DEF StartPass, Planned
  <2>2. clock \in Nat /\ clock' = clock + TickLen /\ TickLen \in Nat
    BY <1>2, ClientAssumption DEF StartPass, RequestsInv, RequestsTypeOK
  <2>3. ASSUME NEW i \in due', NEW j \in 1 .. i
        PROVE  j \in due' \cup tried'
    <3>1. due' = {k \in Items : queue[k].at <= clock' /\ k \notin completed}
      BY <1>2 DEF StartPass, Items
    <3>2. i \in Items /\ j \in Items /\ queue[i].at <= clock'
      BY <1>0, <2>3, <3>1
    <3>3. queue[j].at \in Nat /\ queue[i].at \in Nat
      BY <1>0, <3>2, PlacesAreTyped DEF RequestsInv, RequestsTypeOK
    <3>4. queue[j].at <= queue[i].at
      BY <1>0, <2>3, <3>2, <3>3 DEF OrderInv
    <3>5. queue[j].at <= clock'
      BY <2>2, <3>2, <3>3, <3>4
    <3> QED BY <2>1, <3>1, <3>2, <3>5 DEF PassInv
  <2> QED BY <2>1, <2>3 DEF PassInv
<1>3. CASE NextItem /\ UNCHANGED <<left, queue>>
  <2>1. PICK i \in due : /\ \A j \in due : i <= j
                         /\ item' = i
                         /\ due' = due \ {i}
                         /\ tried' = tried \cup {i}
    BY <1>3 DEF NextItem
  <2>2. step = "next" /\ step' = "wait" /\ completed' = completed /\ left' = left /\ left = {}
    BY <1>3 DEF NextItem, RequestsInv, StepsInv
  <2>3. 1 .. i \subseteq tried \cup {i}
    <3> SUFFICES ASSUME NEW j \in 1 .. i, j # i PROVE j \in tried
      OBVIOUS
    <3>1. j \notin due
      BY <1>0, <2>1
    <3> QED BY <3>1 DEF PassInv
  <2>4. \A d \in due' : item' < d
    BY <1>0, <2>1
  <2> QED BY <2>1, <2>2, <2>3, <2>4 DEF PassInv
<1>4. CASE EndPass /\ UNCHANGED <<left, queue>>
  BY <1>4 DEF EndPass, PassInv, RequestsInv, StepsInv
<1>5. CASE Send /\ UNCHANGED <<left, queue>>
  BY <1>5 DEF Send, PassInv, RequestsInv, StepsInv
<1>6. CASE TryAgain /\ UNCHANGED <<left, queue>>
  BY <1>6 DEF TryAgain, PassInv, RequestsInv, StepsInv
<1>7. CASE GiveUp /\ UNCHANGED <<left, queue>>
  BY <1>7 DEF GiveUp, Leave, PassInv, RequestsInv, StepsInv
<1>8. CASE Answer /\ UNCHANGED <<left, queue>>
  BY <1>8 DEF Answer, PassInv, RequestsInv, StepsInv
<1>9. CASE Parse /\ UNCHANGED <<left, queue>>
  <2>1. item \in tried /\ completed' \subseteq completed \cup {item}
    BY <1>9 DEF Parse, Leave, PassInv
  <2> QED BY <1>9, <2>1 DEF Parse, Leave, PassInv, RequestsInv, StepsInv
<1>10. CASE UNCHANGED vars
  BY <1>10 DEF vars, client, PassInv
<1> QED BY <1>1, <1>2, <1>3, <1>4, <1>5, <1>6, <1>7, <1>8, <1>9, <1>10 DEF Next

LEMMA InOrderStep == InOrderInv /\ [Next]_vars => InOrderInv'
<1> SUFFICES ASSUME InOrderInv, [Next]_vars PROVE OrderInv'
  BY RequestsStep, PassStep DEF InOrderInv
<1>1. CASE PlaceNext
  BY <1>1, PlacingKeepsOrder DEF InOrderInv
<1>2. CASE UNCHANGED <<left, queue>>
  BY <1>2 DEF InOrderInv, OrderInv, Items
<1> QED BY <1>1, <1>2 DEF Next, Plan, vars

LEMMA InOrderInvHolds == RequestsSpec => []InOrderInv
BY InOrderStart, InOrderStep, PTL DEF RequestsSpec

\* For every day and every client, whatever fails, is slow or is tried again.
THEOREM ResultsComeLast == RequestsSpec => []ResultsAreTriedLast
<1>1. InOrderInv => ResultsAreTriedLast
  <2> SUFFICES ASSUME InOrderInv, NEW i \in tried, NEW j \in Items,
                      FinalOddsOf(queue[j].task, queue[i].task) \/ ResultOf(queue[j].task, queue[i].task)
               PROVE  j \in tried
    BY DEF ResultsAreTriedLast
  <2>1. i \in Items /\ Items = 1 .. Len(queue) /\ Len(queue) \in Nat
    BY ItemsAreNumbered DEF InOrderInv, RequestsInv, RequestsTypeOK
  <2>2. PICK day \in Days : \A k \in Items : queue[k].task \in Tasks(day)
    BY DEF InOrderInv, OrderInv
  <2>3. Before(queue[j].task, queue[i].task)
    BY <2>1, <2>2, SortPutsResultsLast
  <2>4. ~Before(queue[i].task, queue[j].task)
    BY <2>1, <2>2, <2>3, BeforeIsAsymmetric DEF AllTasks
  <2>5. j \in 1 .. i
    BY <2>1, <2>4 DEF InOrderInv, OrderInv
  <2> QED BY <2>5 DEF InOrderInv, PassInv
<1> QED BY <1>1, InOrderInvHolds, PTL

-----------------------------------------------------------------------------
(* The time by which each item is tried *)

\* The client has the past behind it.
ClockInv ==
  /\ lastTs # Never => lastTs <= clock
  /\ \A r \in DOMAIN recent : recent[r] <= clock

Gap == Later(MinInterval + Jitter, Latency + BackoffMax)

\* The latest time at which a pass begins that still passes over the item, or the
\* one that will try it.
PassStart(i) ==
  IF i \in due THEN Later(queue[i].at, opened) + TickLen + (i - 1) * PageTime
  ELSE Later(queue[i].at, opened)

\* The latest time at which the page of item c is taken up, as far as item i is
\* concerned.
TakenUp(i, c) == PassStart(i) + (c - 1) * PageTime

\* An item that was not tried yet has seen at most the pages before it.
Timely(i) ==
  /\ step \in {"sleep", "next"} => \A d \in due \cup {i} : clock <= TakenUp(i, d)
  /\ step = "wait" /\ attempt = 0 =>
       clock <= TakenUp(i, item) + Cooldown /\ (lastTs # Never => lastTs <= TakenUp(i, item))
  /\ step = "wait" /\ attempt # 0 => lastTs # Never /\ clock <= lastTs + Latency + BackoffMax
  /\ step \in {"wait", "sent"} /\ attempt # 0 =>
       lastTs <= TakenUp(i, item) + Cooldown + attempt * Gap
  /\ step = "sent" => clock = lastTs
  /\ step = "parse" => clock <= TakenUp(i, item) + PageTime

TimelyInv == \A i \in Items \ tried : Timely(i)

LEMMA MultiplesGrow ==
  ASSUME NEW a \in Nat, NEW b \in Nat, NEW p \in Nat, a <= b
  PROVE  a * p \in Nat /\ b * p \in Nat /\ a * p <= b * p /\ (a + 1) * p = a * p + p
<1>1. PICK c \in Nat : b = a + c
  <2>1. b - a \in Nat /\ b = a + (b - a)
    OBVIOUS
  <2> QED BY <2>1
<1>2. b * p = a * p + c * p /\ c * p \in Nat /\ a * p \in Nat /\ (a + 1) * p = a * p + p
  BY <1>1
<1> DEFINE x == a * p
           y == c * p
           z == b * p
<1>3. z = x + y /\ y \in Nat /\ x \in Nat
  BY <1>2
<1> HIDE DEF x, y, z
<1>4. x <= z /\ z \in Nat
  BY <1>3
<1> QED BY <1>2, <1>4 DEF x, z

\* What one page costs: the cooldown, a gap for each attempt, and the last answer.
LEMMA PageTimeIsEnough ==
  /\ Gap \in Nat /\ Gap >= MinInterval + Jitter /\ Gap >= Latency + BackoffMax
  /\ PageTime \in Nat
  /\ \A a \in 1 .. MaxRetries + 1 :
       a * Gap \in Nat /\ PageTime >= Cooldown + a * Gap + Latency + BackoffMax
<1>0. /\ MinInterval + Jitter \in Nat /\ Latency + BackoffMax \in Nat
      /\ MaxRetries + 1 \in Nat /\ Latency \in Nat /\ BackoffMax \in Nat /\ Cooldown \in Nat /\ TickLen \in Nat
  BY ClientAssumption
<1>1. Gap \in Nat /\ Gap >= MinInterval + Jitter /\ Gap >= Latency + BackoffMax
  BY <1>0, LaterIsTime DEF Gap
<1> DEFINE m == (MaxRetries + 1) * Gap
<1>2. PageTime = m + Latency + BackoffMax + Cooldown + TickLen
  BY DEF PageTime, Gap
<1>3. m \in Nat
  BY <1>0, <1>1, MultiplesGrow
<1>4. ASSUME NEW a \in 1 .. MaxRetries + 1
      PROVE  a * Gap \in Nat /\ a * Gap <= m
  <2>1. a \in Nat /\ a <= MaxRetries + 1
    BY <1>0
  <2> QED BY <1>0, <1>1, <2>1, MultiplesGrow
<1> HIDE DEF m
<1>5. PageTime \in Nat
  BY <1>0, <1>2, <1>3
<1>6. ASSUME NEW a \in 1 .. MaxRetries + 1
      PROVE  a * Gap \in Nat /\ PageTime >= Cooldown + a * Gap + Latency + BackoffMax
  <2> DEFINE g == a * Gap
  <2>1. g \in Nat /\ g <= m
    BY <1>4
  <2> HIDE DEF g
  <2>2. PageTime >= Cooldown + g + Latency + BackoffMax
    BY <1>0, <1>2, <1>3, <2>1
  <2> QED BY <2>1, <2>2 DEF g
<1> QED BY <1>1, <1>5, <1>6

\* The next page is taken up one page later.
BoundsGrow ==
  \A i \in Items :
    /\ queue[i].at \in Nat /\ PassStart(i) \in Nat
    /\ \A c \in Items : TakenUp(i, c) \in Nat /\ TakenUp(i, c) >= PassStart(i)
    /\ \A c, d \in Items : c < d => TakenUp(i, c) + PageTime <= TakenUp(i, d)

LEMMA TakenUpGrows == RequestsInv => BoundsGrow
<1> SUFFICES ASSUME RequestsInv, NEW i \in Items
             PROVE  /\ queue[i].at \in Nat /\ PassStart(i) \in Nat
                    /\ \A c \in Items : TakenUp(i, c) \in Nat /\ TakenUp(i, c) >= PassStart(i)
                    /\ \A c, d \in Items : c < d => TakenUp(i, c) + PageTime <= TakenUp(i, d)
  BY DEF BoundsGrow
<1>0. Items = 1 .. Len(queue) /\ Len(queue) \in Nat /\ TickLen \in Nat /\ PageTime \in Nat
  BY ItemsAreNumbered, ClientAssumption, PageTimeIsEnough DEF RequestsInv, RequestsTypeOK
<1>1. \A c \in Items : c - 1 \in Nat /\ (c - 1) * PageTime \in Nat
  <2> TAKE c \in Items
  <2>1. c - 1 \in Nat
    BY <1>0
  <2> QED BY <1>0, <2>1, MultiplesGrow
<1>2. queue[i].at \in Nat /\ PassStart(i) \in Nat
  <2>1. queue[i].at \in Nat /\ opened \in Nat
    BY <1>0, PlacesAreTyped DEF RequestsInv, RequestsTypeOK
  <2>2. Later(queue[i].at, opened) \in Nat
    BY <2>1, LaterIsTime
  <2> DEFINE x == (i - 1) * PageTime
             y == Later(queue[i].at, opened)
  <2>3. x \in Nat /\ y \in Nat
    BY <1>1, <2>2
  <2>4. PassStart(i) = IF i \in due THEN y + TickLen + x ELSE y
    BY DEF PassStart
  <2> HIDE DEF x, y
  <2> QED BY <1>0, <2>1, <2>3, <2>4
<1>3. ASSUME NEW c \in Items
      PROVE  TakenUp(i, c) \in Nat /\ TakenUp(i, c) >= PassStart(i)
  <2> DEFINE x == (c - 1) * PageTime
  <2>1. x \in Nat /\ TakenUp(i, c) = PassStart(i) + x
    BY <1>1 DEF TakenUp
  <2> HIDE DEF x
  <2> QED BY <1>2, <2>1
<1>4. ASSUME NEW c \in Items, NEW d \in Items, c < d
      PROVE  TakenUp(i, c) + PageTime <= TakenUp(i, d)
  <2> DEFINE x == (c - 1) * PageTime
             y == (d - 1) * PageTime
             z == c * PageTime
  <2>1. c - 1 \in Nat /\ c \in Nat /\ d - 1 \in Nat /\ c <= d - 1 /\ c - 1 <= c /\ (c - 1) + 1 = c
    BY <1>0, <1>4
  <2>2. z = x + PageTime
    BY <1>0, <2>1, MultiplesGrow
  <2>3. z <= y /\ x \in Nat /\ y \in Nat /\ z \in Nat
    BY <1>0, <2>1, MultiplesGrow
  <2>4. TakenUp(i, c) = PassStart(i) + x /\ TakenUp(i, d) = PassStart(i) + y
    BY DEF TakenUp
  <2> HIDE DEF x, y, z
  <2> QED BY <1>0, <1>2, <2>2, <2>3, <2>4
<1> QED BY <1>2, <1>3, <1>4

LEMMA ClockStep == RequestsInv /\ ClockInv /\ [Next]_vars => ClockInv' /\ clock' >= clock
<1> SUFFICES ASSUME RequestsInv, ClockInv, [Next]_vars PROVE ClockInv' /\ clock' >= clock
  OBVIOUS
<1> USE DEF RequestsInv
<1>0. /\ clock \in Nat /\ lastTs \in Nat \cup {Never} /\ \A i \in DOMAIN recent : recent[i] \in Nat
      /\ MinInterval \in Nat /\ Jitter \in Nat /\ Latency \in Nat /\ TickLen \in Nat /\ Cooldown \in Nat
  BY ClientAssumption DEF RequestsTypeOK
<1>1. ASSUME clock' \in Nat, clock' >= clock, lastTs' = lastTs, recent' = recent
      PROVE  ClockInv'
  BY <1>0, <1>1 DEF ClockInv
<1>2. CASE StartPass
  BY <1>0, <1>1, <1>2 DEF StartPass
<1>3. CASE NextItem
  <2>1. PICK i \in due : clock' = IF i \in DOMAIN recent THEN Later(clock, recent[i] + Cooldown) ELSE clock
    BY <1>3 DEF NextItem
  <2>2. i \in DOMAIN recent => recent[i] + Cooldown \in Nat
    BY <1>0
  <2>3. clock' \in Nat /\ clock' >= clock
    <3>1. CASE i \in DOMAIN recent
      BY <1>0, <2>1, <2>2, <3>1, LaterIsTime
    <3>2. CASE i \notin DOMAIN recent
      BY <1>0, <2>1, <3>2
    <3> QED BY <3>1, <3>2
  <2> QED BY <1>1, <1>3, <2>3 DEF NextItem
<1>4. CASE Send
  <2>1. PICK j \in {0, Jitter} :
          clock' = IF lastTs = Never THEN clock ELSE Later(clock, lastTs + MinInterval + j)
    BY <1>4 DEF Send
  <2>2. clock' \in Nat /\ clock' >= clock
    <3>1. CASE lastTs = Never
      BY <1>0, <2>1, <3>1
    <3>2. CASE lastTs # Never
      <4>1. lastTs + MinInterval + j \in Nat
        BY <1>0, <3>2
      <4> QED BY <1>0, <2>1, <3>2, <4>1, LaterIsTime
    <3> QED BY <3>1, <3>2
  <2> QED BY <1>0, <1>4, <2>2 DEF Send, ClockInv
<1>5. CASE TryAgain \/ GiveUp
  <2>1. attempt \in 1 .. MaxRetries + 1
    BY <1>5 DEF TryAgain, GiveUp, StepsInv
  <2>2. PICK l \in 1 .. Latency : clock' = clock + l + Backoff(attempt)
    BY <1>5 DEF TryAgain, GiveUp
  <2>3. clock' \in Nat /\ clock' >= clock
    BY <1>0, <2>1, <2>2, BackoffIsTime
  <2> QED BY <1>1, <1>5, <2>3 DEF TryAgain, GiveUp
<1>6. CASE Answer
  <2>1. clock' \in Nat /\ clock' >= clock
    BY <1>0, <1>6 DEF Answer
  <2>2. \A r \in DOMAIN recent' : recent'[r] <= clock'
    BY <1>0, <1>6, <2>1 DEF Answer, ClockInv
  <2> QED BY <1>0, <1>6, <2>1, <2>2 DEF Answer, ClockInv
<1>7. CASE Plan \/ EndPass \/ Parse \/ UNCHANGED vars
  BY <1>0, <1>1, <1>7 DEF Plan, client, EndPass, Parse, vars
<1> QED BY <1>2, <1>3, <1>4, <1>5, <1>6, <1>7 DEF Next

TimeInv == InOrderInv /\ ClockInv /\ TimelyInv

LEMMA TimeStart == RequestsInit => TimeInv
<1> SUFFICES ASSUME RequestsInit PROVE ClockInv /\ TimelyInv
  BY InOrderStart DEF TimeInv
<1>1. ClockInv
  BY ClientAssumption DEF RequestsInit, ClockInv
<1>2. Items = {}
  BY DEF RequestsInit, Init, Items
<1> QED BY <1>1, <1>2 DEF TimelyInv

\* The item in hand comes before every item that is due and every one untried.
LEMMA InHandComesFirst ==
  ASSUME InOrderInv, step \in {"wait", "sent", "parse"}, NEW i \in Items \ tried, NEW d \in due \cup {i}
  PROVE  item \in Items /\ d \in Items /\ item < d
<1>1. /\ item \in Items /\ due \subseteq Items /\ Items = 1 .. Len(queue) /\ Len(queue) \in Nat
      /\ item \in tried /\ 1 .. item \subseteq tried /\ \A e \in due : item < e
  BY ItemsAreNumbered DEF InOrderInv, RequestsInv, RequestsTypeOK, StepsInv, PassInv
<1>2. item < i
  BY <1>1
<1> QED BY <1>1, <1>2

LEMMA TimelyStep == TimeInv /\ [Next]_vars => TimelyInv'
<1> SUFFICES ASSUME TimeInv, [Next]_vars, NEW i \in Items' \ tried' PROVE Timely(i)'
  BY DEF TimelyInv
<1> USE DEF TimeInv, InOrderInv
<1>0. /\ clock \in Nat /\ lastTs \in Nat \cup {Never} /\ opened \in Nat /\ PageTime \in Nat
      /\ MinInterval \in Nat /\ Jitter \in Nat /\ Latency \in Nat /\ TickLen \in Nat /\ Cooldown \in Nat
      /\ Items = 1 .. Len(queue) /\ Len(queue) \in Nat /\ due \subseteq Items /\ Never \notin Nat
      /\ BackoffMax \in Nat /\ Gap \in Nat
  BY ClientAssumption, ItemsAreNumbered, PageTimeIsEnough DEF RequestsInv, RequestsTypeOK
<1>1. RequestsInv' /\ BoundsGrow'
  <2>1. RequestsInv'
    BY RequestsStep
  <2> QED BY <2>1, TakenUpGrows, PTL
<1>2. CASE Plan
  <2>1. step' = "sleep" /\ clock' = clock /\ clock = opened /\ opened' = opened /\ due' = {}
    BY <1>2 DEF Plan, PlaceNext, client, RequestsInv, StepsInv, PassInv
  <2>2. i - 1 \in Nat /\ queue'[i].at \in Nat
    <3>1. Items' = 1 .. Len(queue') /\ Len(queue') \in Nat
      BY <1>1 DEF RequestsInv, RequestsTypeOK, TypeOK, Items
    <3> QED BY <1>1, <3>1 DEF BoundsGrow
  <2>3. TakenUp(i, i)' = Later(queue'[i].at, opened) + (i - 1) * PageTime
    BY <2>1 DEF TakenUp, PassStart, Later, PageTime
  <2>4. Later(queue'[i].at, opened) \in Nat /\ Later(queue'[i].at, opened) >= opened
    BY <1>0, <2>2, LaterIsTime
  <2>5. (i - 1) * PageTime \in Nat
    BY <1>0, <2>2, MultiplesGrow
  <2> DEFINE x == (i - 1) * PageTime
             y == Later(queue'[i].at, opened)
  <2>6. x \in Nat /\ y \in Nat /\ y >= opened /\ TakenUp(i, i)' = y + x
    BY <2>3, <2>4, <2>5
  <2> HIDE DEF x, y
  <2>7. clock' <= TakenUp(i, i)'
    BY <1>0, <2>1, <2>6
  <2> QED BY <2>1, <2>7 DEF Timely
<1>3. CASE StartPass /\ UNCHANGED <<left, queue>>
  <2>1. step = "sleep" /\ step' = "next" /\ clock' = clock + TickLen /\ opened' = opened /\ Items' = Items
        /\ tried' = tried /\ queue' = queue
    BY <1>3 DEF StartPass, Items
  <2>2. due = {} /\ i \in Items \ tried /\ i \notin completed
    BY <1>3, <2>1 DEF PassInv
  <2>3. due' = {k \in Items : queue[k].at <= clock' /\ k \notin completed}
    BY <1>3 DEF StartPass, Items
  <2> DEFINE x == (i - 1) * PageTime
             y == Later(queue[i].at, opened)
  <2>4. clock <= y + x
    BY <2>1, <2>2 DEF TimelyInv, Timely, TakenUp, PassStart
  <2>5. x \in Nat
    <3>1. i - 1 \in Nat
      BY <1>0, <2>2
    <3> QED BY <1>0, <3>1, MultiplesGrow
  <2>6. queue[i].at \in Nat /\ y \in Nat /\ y >= queue[i].at
    <3>1. queue[i].at \in Nat
      BY <1>0, <2>2, PlacesAreTyped DEF RequestsInv, RequestsTypeOK
    <3> QED BY <1>0, <3>1, LaterIsTime
  <2>7. PassStart(i)' = IF i \in due' THEN y + TickLen + x ELSE y
    BY <2>1 DEF PassStart, Later, PageTime
  <2>8. clock' <= PassStart(i)'
    <3>1. CASE i \in due'
      <4> HIDE DEF x, y
      <4> QED BY <1>0, <2>1, <2>4, <2>5, <2>6, <2>7, <3>1
    <3>2. CASE i \notin due'
      <4>1. ~(queue[i].at <= clock')
        BY <2>2, <2>3, <3>2
      <4> HIDE DEF x, y
      <4> QED BY <1>0, <2>1, <2>6, <2>7, <3>2, <4>1
    <3> QED BY <3>1, <3>2
  <2>9. \A d \in Items' : TakenUp(i, d)' \in Nat /\ TakenUp(i, d)' >= PassStart(i)' /\ PassStart(i)' \in Nat
    BY <1>1 DEF BoundsGrow
  <2>10. \A d \in due' \cup {i} : clock' <= TakenUp(i, d)'
    BY <1>0, <2>1, <2>2, <2>3, <2>8, <2>9
  <2> QED BY <2>1, <2>10 DEF Timely
\* In the other steps the bounds of an item do not move.
<1>4. ASSUME queue' = queue, opened' = opened, i \in Items \ tried, (i \in due') = (i \in due)
      PROVE  /\ Items' = Items
             /\ \A c \in Items : TakenUp(i, c)' = TakenUp(i, c) /\ TakenUp(i, c) \in Nat
             /\ \A c, d \in Items : c < d => TakenUp(i, c) + PageTime <= TakenUp(i, d)
  <2>1. Items' = Items /\ PassStart(i)' = PassStart(i)
    BY <1>4 DEF Items, PassStart, Later, PageTime
  <2>2. BoundsGrow
    BY TakenUpGrows
  <2> QED BY <1>4, <2>1, <2>2 DEF BoundsGrow, TakenUp, PageTime, Later
<1>5. CASE NextItem /\ UNCHANGED <<left, queue>>
  <2>1. PICK c \in due : /\ \A j \in due : c <= j
                         /\ item' = c
                         /\ due' = due \ {c}
                         /\ clock' = IF c \in DOMAIN recent THEN Later(clock, recent[c] + Cooldown) ELSE clock
                         /\ tried' = tried \cup {c}
    BY <1>5 DEF NextItem
  <2>2. step = "next" /\ step' = "wait" /\ attempt' = 0 /\ lastTs' = lastTs /\ opened' = opened /\ queue' = queue
    BY <1>5 DEF NextItem, RequestsInv, StepsInv
  <2>3. i \in Items \ tried /\ i # c /\ (i \in due') = (i \in due) /\ c \in Items
    BY <1>0, <2>1, <2>2 DEF Items
  <2>4. clock <= TakenUp(i, c)
    BY <2>1, <2>2, <2>3 DEF TimelyInv, Timely
  <2>5. clock' <= clock + Cooldown
    <3>1. CASE c \in DOMAIN recent
      <4>1. recent[c] \in Nat /\ recent[c] <= clock
        BY <3>1 DEF RequestsInv, RequestsTypeOK, ClockInv
      <4> QED BY <1>0, <2>1, <3>1, <4>1 DEF Later
    <3>2. CASE c \notin DOMAIN recent
      BY <1>0, <2>1, <3>2
    <3> QED BY <3>1, <3>2
  <2>6. TakenUp(i, c)' = TakenUp(i, c) /\ TakenUp(i, c) \in Nat
    BY <1>4, <2>2, <2>3
  <2>7. clock' \in Nat
    BY <1>1 DEF RequestsInv, RequestsTypeOK
  <2>8. lastTs # Never => lastTs <= TakenUp(i, c)
    BY <1>0, <2>4, <2>6 DEF ClockInv
  <2>9. clock' <= TakenUp(i, c) + Cooldown
    BY <1>0, <2>4, <2>5, <2>6, <2>7
  <2>10. TakenUp(i, item)' = TakenUp(i, c)
    BY <2>1, <2>6 DEF TakenUp
  <2> QED BY <2>2, <2>8, <2>9, <2>10 DEF Timely
<1>6. CASE EndPass /\ UNCHANGED <<left, queue>>
  <2>1. /\ step = "next" /\ step' = "sleep" /\ clock' = clock /\ due' = due /\ tried' = tried
        /\ queue' = queue /\ opened' = opened /\ i \in Items \ tried
    BY <1>6 DEF EndPass, Items
  <2>2. \A d \in due' \cup {i} : clock' <= TakenUp(i, d)'
    BY <1>0, <1>4, <2>1 DEF TimelyInv, Timely
  <2> QED BY <2>1, <2>2 DEF Timely
\* While a page is in hand.
<1>7. ASSUME step \in {"wait", "sent", "parse"},
             queue' = queue, opened' = opened, due' = due, tried' = tried
      PROVE  /\ i \in Items \ tried /\ item \in Items
             /\ TakenUp(i, item) \in Nat
             /\ Timely(i)
             /\ \A d \in due \cup {i} : item < d /\ TakenUp(i, d)' \in Nat /\ TakenUp(i, item) + PageTime <= TakenUp(i, d)'
             /\ item' = item => TakenUp(i, item)' = TakenUp(i, item)
  <2>1. i \in Items \ tried
    BY <1>7 DEF Items
  <2>2. \A d \in due \cup {i} : item \in Items /\ d \in Items /\ item < d
    BY <1>7, <2>1, InHandComesFirst
  <2>3. /\ \A c \in Items : TakenUp(i, c)' = TakenUp(i, c) /\ TakenUp(i, c) \in Nat
        /\ \A c, d \in Items : c < d => TakenUp(i, c) + PageTime <= TakenUp(i, d)
    BY <1>4, <1>7, <2>1
  <2>4. item' = item => TakenUp(i, item)' = TakenUp(i, item)
    BY <2>2, <2>3 DEF TakenUp
  <2> QED BY <2>1, <2>2, <2>3, <2>4 DEF TimelyInv
\* Back in the pass, one page later.
<1>8. ASSUME step \in {"wait", "sent", "parse"}, queue' = queue, opened' = opened, due' = due, tried' = tried,
             step' = "next", clock' <= TakenUp(i, item) + PageTime
      PROVE  Timely(i)'
  <2>1. clock' \in Nat
    BY <1>1 DEF RequestsInv, RequestsTypeOK
  <2>2. \A d \in due' \cup {i} : clock' <= TakenUp(i, d)'
    BY <1>0, <1>7, <1>8, <2>1
  <2> QED BY <1>8, <2>2 DEF Timely
<1>9. \A a \in 1 .. MaxRetries + 1 : a * Gap \in Nat /\ PageTime >= Cooldown + a * Gap + Latency + BackoffMax
  BY PageTimeIsEnough
<1>10. CASE Send /\ UNCHANGED <<left, queue>>
  <2>1. PICK j \in {0, Jitter} :
          clock' = IF lastTs = Never THEN clock ELSE Later(clock, lastTs + MinInterval + j)
    BY <1>10 DEF Send
  <2>2. /\ step = "wait" /\ step' = "sent" /\ attempt \in 0 .. MaxRetries /\ attempt' = attempt + 1
        /\ lastTs' = clock' /\ item' = item
        /\ queue' = queue /\ opened' = opened /\ due' = due /\ tried' = tried
    BY <1>10 DEF Send, RequestsInv, StepsInv
  <2> DEFINE T == TakenUp(i, item)
             g == attempt * Gap
             h == (attempt + 1) * Gap
  <2>3. T \in Nat /\ Timely(i) /\ TakenUp(i, item)' = T
    BY <1>7, <2>2
  <2>4. g \in Nat /\ h = g + Gap
    BY <1>0, <2>2, ClientAssumption, MultiplesGrow
  <2>5. Gap >= MinInterval + j /\ Gap >= Latency + BackoffMax /\ MinInterval + j \in Nat
    BY <1>0, PageTimeIsEnough
  <2>6. /\ attempt = 0 => clock <= T + Cooldown /\ (lastTs # Never => lastTs <= T) /\ g = 0
        /\ attempt # 0 => lastTs # Never /\ clock <= lastTs + Latency + BackoffMax /\ lastTs <= T + Cooldown + g
    BY <1>0, <2>2, <2>3 DEF Timely
  <2> HIDE DEF T, g, h
  <2>7. clock' <= T + Cooldown + h
    <3>1. CASE lastTs = Never
      BY <1>0, <2>1, <2>3, <2>4, <2>6, <3>1
    <3>2. CASE lastTs # Never
      <4>1. clock <= T + Cooldown + h /\ lastTs + MinInterval + j <= T + Cooldown + h
        BY <1>0, <2>3, <2>4, <2>5, <2>6, <3>2
      <4> QED BY <2>1, <3>2, <4>1 DEF Later
    <3> QED BY <3>1, <3>2
  <2>8. clock' <= TakenUp(i, item)' + Cooldown + attempt' * Gap
    BY <2>2, <2>3, <2>7 DEF T, h
  <2>9. attempt' # 0
    BY <2>2
  <2> QED BY <2>2, <2>8, <2>9 DEF Timely, Gap
<1>11. CASE TryAgain /\ UNCHANGED <<left, queue>>
  <2>1. /\ step = "sent" /\ step' = "wait" /\ attempt \in 1 .. MaxRetries + 1 /\ attempt' = attempt
        /\ lastTs' = lastTs /\ item' = item
        /\ queue' = queue /\ opened' = opened /\ due' = due /\ tried' = tried
    BY <1>11 DEF TryAgain, RequestsInv, StepsInv
  <2>2. PICK l \in 1 .. Latency : clock' = clock + l + Backoff(attempt)
    BY <1>11 DEF TryAgain
  <2>3. Backoff(attempt) \in Nat /\ Backoff(attempt) <= BackoffMax
    BY <2>1, BackoffIsTime, BackoffAssumption, ClientAssumption DEF Backoff
  <2>4. TakenUp(i, item) \in Nat /\ Timely(i) /\ TakenUp(i, item)' = TakenUp(i, item)
    BY <1>7, <2>1
  <2>5. clock = lastTs /\ lastTs # Never /\ lastTs <= TakenUp(i, item) + Cooldown + attempt * Gap
    BY <1>0, <2>1, <2>4 DEF Timely
  <2>6. clock' <= lastTs + Latency + BackoffMax
    BY <1>0, <2>2, <2>3, <2>5
  <2>7. lastTs' <= TakenUp(i, item)' + Cooldown + attempt' * Gap
    BY <2>1, <2>4, <2>5
  <2> QED BY <2>1, <2>5, <2>6, <2>7 DEF Timely, Gap
<1>12. CASE GiveUp /\ UNCHANGED <<left, queue>>
  <2>1. /\ step = "sent" /\ step' = "next" /\ attempt \in 1 .. MaxRetries + 1
        /\ queue' = queue /\ opened' = opened /\ due' = due /\ tried' = tried
    BY <1>12 DEF GiveUp, Leave, RequestsInv, StepsInv
  <2>2. PICK l \in 1 .. Latency : clock' = clock + l + Backoff(attempt)
    BY <1>12 DEF GiveUp
  <2>3. Backoff(attempt) \in Nat /\ Backoff(attempt) <= BackoffMax
    BY <2>1, BackoffIsTime, BackoffAssumption, ClientAssumption DEF Backoff
  <2>4. TakenUp(i, item) \in Nat /\ Timely(i)
    BY <1>7, <2>1
  <2> DEFINE g == attempt * Gap
  <2>5. clock <= TakenUp(i, item) + Cooldown + g /\ g \in Nat /\ PageTime >= Cooldown + g + Latency + BackoffMax
    BY <1>0, <1>9, <2>1, <2>4 DEF Timely
  <2> HIDE DEF g
  <2>6. clock' <= TakenUp(i, item) + PageTime
    BY <1>0, <2>2, <2>3, <2>4, <2>5
  <2> QED BY <1>8, <2>1, <2>6
<1>13. CASE Answer /\ UNCHANGED <<left, queue>>
  <2>1. /\ step = "sent" /\ step' = "parse" /\ attempt \in 1 .. MaxRetries + 1 /\ item' = item
        /\ queue' = queue /\ opened' = opened /\ due' = due /\ tried' = tried
    BY <1>13 DEF Answer, RequestsInv, StepsInv
  <2>2. PICK l \in 1 .. Latency : clock' = clock + l
    BY <1>13 DEF Answer
  <2>3. TakenUp(i, item) \in Nat /\ Timely(i) /\ TakenUp(i, item)' = TakenUp(i, item)
    BY <1>7, <2>1
  <2> DEFINE g == attempt * Gap
  <2>4. clock <= TakenUp(i, item) + Cooldown + g /\ g \in Nat /\ PageTime >= Cooldown + g + Latency + BackoffMax
    BY <1>0, <1>9, <2>1, <2>3 DEF Timely
  <2> HIDE DEF g
  <2>5. clock' <= TakenUp(i, item) + PageTime
    BY <1>0, <2>2, <2>3, <2>4
  <2>6. clock' <= TakenUp(i, item)' + PageTime
    BY <2>3, <2>5
  <2> QED BY <2>1, <2>6 DEF Timely, PageTime, Later
<1>14. CASE Parse /\ UNCHANGED <<left, queue>>
  <2>1. /\ step = "parse" /\ step' = "next" /\ clock' = clock
        /\ queue' = queue /\ opened' = opened /\ due' = due /\ tried' = tried
    BY <1>14 DEF Parse, Leave
  <2>2. clock' <= TakenUp(i, item) + PageTime
    BY <1>7, <2>1 DEF Timely
  <2> QED BY <1>8, <2>1, <2>2
<1>15. CASE UNCHANGED vars
  <2>1. i \in Items \ tried
    BY <1>15 DEF vars, client, Items
  <2> QED BY <1>15, <2>1 DEF vars, client, TimelyInv, Timely, TakenUp, PassStart, Later, PageTime, Gap
<1> QED BY <1>2, <1>3, <1>5, <1>6, <1>10, <1>11, <1>12, <1>13, <1>14, <1>15 DEF Next

LEMMA TimeStep == TimeInv /\ [Next]_vars => TimeInv'
BY InOrderStep, ClockStep, TimelyStep DEF TimeInv, InOrderInv

LEMMA TimeInvHolds == RequestsSpec => []TimeInv
BY TimeStart, TimeStep, PTL DEF RequestsSpec

\* Whatever the intervals, the retries and the latency: an item is tried within
\* the time that the pages before it cost at most, twice.
THEOREM EveryItemIsTriedInTime == RequestsSpec => []TriedInTime
<1>1. TimeInv => TriedInTime
  <2> SUFFICES ASSUME TimeInv, NEW i \in Items \ tried PROVE clock <= Deadline(i)
    BY DEF TriedInTime
  <2> USE DEF TimeInv, InOrderInv
  <2>0. /\ Items = 1 .. Len(queue) /\ Len(queue) \in Nat /\ TickLen \in Nat /\ PageTime \in Nat
        /\ Latency \in Nat /\ BackoffMax \in Nat /\ Cooldown \in Nat /\ clock \in Nat
        /\ step \in {"sleep", "next", "wait", "sent", "parse"}
        /\ lastTs \in Nat \cup {Never} /\ Never \notin Nat /\ Gap \in Nat
    BY ItemsAreNumbered, ClientAssumption, PageTimeIsEnough DEF RequestsInv, RequestsTypeOK
  <2>1. BoundsGrow
    BY TakenUpGrows
  <2>2. clock <= TakenUp(i, i)
    <3>1. Timely(i) /\ TakenUp(i, i) \in Nat
      BY <2>0, <2>1 DEF TimelyInv, BoundsGrow
    <3>2. CASE step \in {"sleep", "next"}
      BY <3>1, <3>2 DEF Timely
    <3>3. CASE step \in {"wait", "sent", "parse"}
      <4>1. item \in Items /\ item < i
        BY <3>3, InHandComesFirst
      <4>2. TakenUp(i, item) \in Nat /\ TakenUp(i, item) + PageTime <= TakenUp(i, i)
        BY <2>0, <2>1, <4>1 DEF BoundsGrow
      <4>3. clock <= TakenUp(i, item) + PageTime
        <5>1. /\ step = "wait" => attempt \in 0 .. MaxRetries
              /\ step \in {"sent", "parse"} => attempt \in 1 .. MaxRetries + 1
              /\ MaxRetries \in Nat
          BY ClientAssumption DEF RequestsInv, StepsInv
        <5>2. CASE attempt = 0
          <6>1. step = "wait" /\ clock <= TakenUp(i, item) + Cooldown
            BY <3>1, <3>3, <5>1, <5>2 DEF Timely
          <6>2. PageTime >= Cooldown
            <7>1. 1 \in 1 .. MaxRetries + 1
              BY <5>1
            <7>2. 1 * Gap \in Nat /\ PageTime >= Cooldown + 1 * Gap + Latency + BackoffMax
              BY <7>1, PageTimeIsEnough
            <7> QED BY <2>0, <7>2
          <6> QED BY <2>0, <4>2, <6>1, <6>2
        <5>3. CASE attempt # 0 /\ step \in {"wait", "sent"}
          <6> DEFINE g == attempt * Gap
          <6>1. attempt \in 1 .. MaxRetries + 1
            BY <5>1, <5>3
          <6>2. g \in Nat /\ PageTime >= Cooldown + g + Latency + BackoffMax
            BY <6>1, PageTimeIsEnough
          <6>3. lastTs # Never /\ lastTs <= TakenUp(i, item) + Cooldown + g /\ clock <= lastTs + Latency + BackoffMax
            BY <2>0, <3>1, <5>3 DEF Timely
          <6> HIDE DEF g
          <6> QED BY <2>0, <4>2, <6>2, <6>3
        <5>4. CASE step = "parse"
          BY <3>1, <5>4 DEF Timely
        <5> QED BY <3>3, <5>1, <5>2, <5>3, <5>4
      <4> QED BY <2>0, <3>1, <4>2, <4>3
    <3> QED BY <2>0, <3>2, <3>3
  <2>3. TakenUp(i, i) <= Deadline(i)
    <3> DEFINE x == (i - 1) * PageTime
               y == Later(queue[i].at, opened)
               z == (2 * i - 1) * PageTime
               t == 2 * TickLen
    <3>1. i - 1 \in Nat /\ 2 * i - 1 = (i - 1) + (i - 1) + 1
      BY <2>0
    <3>2. x \in Nat /\ z = x + x + PageTime
      <4>1. x \in Nat
        BY <2>0, <3>1, MultiplesGrow
      <4> DEFINE k == i - 1
      <4>2. k \in Nat /\ 2 * i - 1 = k + k + 1
        BY <3>1
      <4> HIDE DEF k
      <4>3. (k + k + 1) * PageTime = k * PageTime + k * PageTime + PageTime
        BY <2>0, <4>2
      <4> QED BY <4>1, <4>2, <4>3 DEF k
    <3>3. y \in Nat
      <4>1. queue[i].at \in Nat /\ opened \in Nat
        BY <2>1 DEF BoundsGrow, RequestsInv, RequestsTypeOK
      <4> QED BY <4>1, LaterIsTime
    <3>4. t = TickLen + TickLen
      BY <2>0
    <3>5. TakenUp(i, i) = (IF i \in due THEN y + TickLen + x ELSE y) + x
      BY DEF TakenUp, PassStart
    <3>6. Deadline(i) = y + t + z
      BY DEF Deadline
    <3> HIDE DEF x, y, z, t
    <3>7. CASE i \in due
      BY <2>0, <3>2, <3>3, <3>4, <3>5, <3>6, <3>7
    <3>8. CASE i \notin due
      BY <2>0, <3>2, <3>3, <3>4, <3>5, <3>6, <3>8
    <3> QED BY <3>7, <3>8
  <2>4. TakenUp(i, i) \in Nat /\ Deadline(i) \in Int
    <3>1. TakenUp(i, i) \in Nat
      BY <2>0, <2>1 DEF BoundsGrow
    <3>2. Later(queue[i].at, opened) \in Nat
      <4>1. queue[i].at \in Nat /\ opened \in Nat
        BY <2>1 DEF BoundsGrow, RequestsInv, RequestsTypeOK
      <4> QED BY <4>1, LaterIsTime
    <3> QED BY <2>0, <3>1, <3>2 DEF Deadline
  <2> QED BY <2>0, <2>2, <2>3, <2>4
<1> QED BY <1>1, TimeInvHolds, PTL

=============================================================================
