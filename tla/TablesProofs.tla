----------------------------- MODULE TablesProofs -----------------------------
(***************************************************************************)
(* Proofs about Tables, for any pages, any number of transactions and any  *)
(* order of them.  However they overlap, the tables are what they seem and *)
(* what is known of a race, an entry or a horse stays known: TypeInv says  *)
(* with SessionOK that what a transaction read is still there, with no     *)
(* less in it.  And one after the other (AloneInv: each sees the rows that *)
(* it commits to) none is stopped by a unique constraint, no line of a     *)
(* page of results is missing but for its horse elsewhere, cards make a    *)
(* second row of a name only for a birthday that is new, and a card's      *)
(* start numbers lead to its horses and its figures.                       *)
(***************************************************************************)
EXTENDS Tables, FiniteSetTheorems, WellFoundedInduction, TLAPS

-----------------------------------------------------------------------------
(* The tables *)

\* A record of the eleven tables.
IsDb(d) ==
  d \in [race : {d.race}, entries : {d.entries}, odds : {d.odds}, items : {d.items}, results : {d.results},
         payouts : {d.payouts}, card : {d.card}, horses : {d.horses}, starters : {d.starters}, perf : {d.perf}, persons : {d.persons}]

\* Two records of the tables agree on what cards write, or on what the others write.
SameCards(e, d) == e.card = d.card /\ e.horses = d.horses /\ e.starters = d.starters /\ e.perf = d.perf
SameRaces(e, d) ==
  /\ e.race = d.race /\ e.entries = d.entries /\ e.odds = d.odds /\ e.items = d.items
  /\ e.results = d.results /\ e.payouts = d.payouts

LEMMA SetRace ==
  ASSUME NEW d, IsDb(d), NEW x
  PROVE  LET e == [d EXCEPT !.race = x]
         IN /\ IsDb(e) /\ e.race = x /\ SameCards(e, d)
            /\ e.entries = d.entries /\ e.odds = d.odds /\ e.items = d.items /\ e.results = d.results /\ e.payouts = d.payouts
BY DEF IsDb, SameCards

LEMMA SetEntries ==
  ASSUME NEW d, IsDb(d), NEW x
  PROVE  LET e == [d EXCEPT !.entries = x]
         IN /\ IsDb(e) /\ e.entries = x /\ SameCards(e, d)
            /\ e.race = d.race /\ e.odds = d.odds /\ e.items = d.items /\ e.results = d.results /\ e.payouts = d.payouts
BY DEF IsDb, SameCards

LEMMA SetPayouts ==
  ASSUME NEW d, IsDb(d), NEW x
  PROVE  LET e == [d EXCEPT !.payouts = x]
         IN /\ IsDb(e) /\ e.payouts = x /\ SameCards(e, d)
            /\ e.race = d.race /\ e.entries = d.entries /\ e.odds = d.odds /\ e.items = d.items /\ e.results = d.results
BY DEF IsDb, SameCards

LEMMA SetResults ==
  ASSUME NEW d, IsDb(d), NEW x
  PROVE  LET e == [d EXCEPT !.results = x]
         IN /\ IsDb(e) /\ e.results = x /\ SameCards(e, d)
            /\ e.race = d.race /\ e.entries = d.entries /\ e.odds = d.odds /\ e.items = d.items /\ e.payouts = d.payouts
BY DEF IsDb, SameCards

\* The race that all but cards create.
BaseRace(now, v) == IF v.race = Null THEN [c \in {"start", "distance"} |-> Null] ELSE now.race

LEMMA BaseIs ==
  ASSUME NEW d, IsDb(d), NEW v
  PROVE  /\ IsDb(WithRace(d, v)) /\ WithRace(d, v).race = BaseRace(d, v) /\ SameCards(WithRace(d, v), d)
         /\ WithRace(d, v).entries = d.entries /\ WithRace(d, v).odds = d.odds /\ WithRace(d, v).items = d.items
         /\ WithRace(d, v).results = d.results /\ WithRace(d, v).payouts = d.payouts
<1>1. WithRace(d, v) = [d EXCEPT !.race = BaseRace(d, v)]
  BY DEF WithRace, BaseRace
<1> HIDE DEF WithRace
<1> QED BY <1>1, SetRace

\* The tables after a card.
CardHorses(now, v, b, ids) ==
  CoalesceRows(now.horses, v.horses,
    [i \in Range(ids) |-> [name |-> (CHOOSE h \in b.horses : ids[h] = i).name,
                           birth |-> (CHOOSE h \in b.horses : ids[h] = i).birth,
                           age |-> (CHOOSE h \in b.horses : ids[h] = i).age]])

\* The rows of the starts of a card, by their numbers.
ByNo(b, ids) == [no \in {h.no : h \in b.horses} |-> Starter(CHOOSE h \in b.horses : h.no = no, ids)]

LEMMA CardIs ==
  ASSUME NEW now, NEW v, NEW b, NEW ids, IsDb(now)
  PROVE  LET new == Card(now, v, b, ids)
         IN /\ IsDb(new) /\ SameRaces(new, now)
            /\ new.horses = CardHorses(now, v, b, ids)
            /\ new.perf = Figures(now.perf, Shown(b, ids), b.at)
            /\ new.starters = Starters(now.starters, ByNo(b, ids))
<1> DEFINE x == Overwrite(now.card, v.card, [weather |-> b.weather])
           p == now.persons \cup b.persons
           y == CardHorses(now, v, b, ids)
           z == Figures(now.perf, Shown(b, ids), b.at)
           w == Starters(now.starters, ByNo(b, ids))
<1>1. Card(now, v, b, ids) = [now EXCEPT !.card = x, !.persons = p, !.horses = y, !.perf = z, !.starters = w]
  BY DEF Card, CardHorses, ByNo
<1> HIDE DEF x, p, y, z, w
<1>3. Card(now, v, b, ids).horses = y /\ Card(now, v, b, ids).perf = z /\ Card(now, v, b, ids).starters = w
  BY <1>1 DEF IsDb
<1>4. IsDb(Card(now, v, b, ids)) /\ SameRaces(Card(now, v, b, ids), now)
  BY <1>1 DEF IsDb, SameRaces
<1> QED BY <1>3, <1>4 DEF y, z, w

\* What an upsert of a kind makes of each table.
Wrote(now, s, seen, new) ==
  /\ IsDb(new)
  /\ s.kind = "race_cards" =>
       /\ SameRaces(new, now)
       /\ \E ids \in Identities(now, s.view, s.batch.horses) : new = Card(now, s.view, s.batch, ids)
  /\ s.kind # "race_cards" => SameCards(new, now)
  /\ s.kind = "races" =>
       new.race = Coalesce(BaseRace(now, s.view), IF s.view.race = Null THEN BaseRace(now, s.view) ELSE s.view.race, s.batch)
  /\ s.kind \notin {"races", "race_cards"} => new.race = BaseRace(now, s.view)
  /\ s.kind = "race_entries" => new.entries = CoalesceRows(now.entries, s.view.entries, s.batch)
  /\ s.kind # "race_entries" => new.entries = now.entries
  /\ s.kind = "race_results" => new.results = Over(ResultRows(s.batch), Undeleted(now.results, seen.results))
  /\ s.kind # "race_results" => new.results = now.results

LEMMA WrittenIs ==
  ASSUME NEW now, NEW s, NEW seen, NEW ids \in Ids(now, s), NEW new, s.kind \in Kinds, IsDb(now), IsDb(s.view),
         new = Written(now, s, seen, ids)
  PROVE  Wrote(now, s, seen, new)
<1> DEFINE v == s.view
           b == s.batch
           base == WithRace(now, v)
<1>0. /\ IsDb(base) /\ base.race = BaseRace(now, v) /\ SameCards(base, now)
      /\ base.entries = now.entries /\ base.odds = now.odds /\ base.items = now.items
      /\ base.results = now.results /\ base.payouts = now.payouts
  BY BaseIs
<1> HIDE DEF base
<1>1. CASE s.kind = "races"
  <2> DEFINE r == IF v.race = Null THEN base.race ELSE v.race
             w == [v EXCEPT !.race = r]
  <2>1. new = UpsertRaces(base, w, b)
    BY <1>1 DEF Written, base
  <2>2. w.race = r
    BY SetRace
  <2> HIDE DEF w
  <2>3. new = [base EXCEPT !.race = Coalesce(base.race, r, b)]
    BY <2>1, <2>2 DEF UpsertRaces
  <2>4. /\ IsDb(new) /\ new.race = Coalesce(base.race, r, b) /\ SameCards(new, base)
        /\ new.entries = base.entries /\ new.results = base.results
    BY <1>0, <2>3, SetRace
  <2>5. SameCards(new, now)
    BY <1>0, <2>4 DEF SameCards
  <2> QED BY <1>0, <1>1, <2>4, <2>5 DEF Wrote
<1>2. CASE s.kind = "race_entries"
  <2>1. new = [base EXCEPT !.entries = CoalesceRows(base.entries, v.entries, b)]
    BY <1>2 DEF Written, UpsertEntries, base
  <2>2. /\ IsDb(new) /\ new.entries = CoalesceRows(base.entries, v.entries, b) /\ SameCards(new, base)
        /\ new.race = base.race /\ new.results = base.results
    BY <1>0, <2>1, SetEntries
  <2>3. SameCards(new, now)
    BY <1>0, <2>2 DEF SameCards
  <2> QED BY <1>0, <1>2, <2>2, <2>3 DEF Wrote
<1>3. CASE s.kind = "payouts"
  <2>1. new = [base EXCEPT !.payouts = CoalesceRows(base.payouts, v.payouts, b)]
    BY <1>3 DEF Written, UpsertPayouts, base
  <2>2. /\ IsDb(new) /\ SameCards(new, base)
        /\ new.race = base.race /\ new.entries = base.entries /\ new.results = base.results
    BY <1>0, <2>1, SetPayouts
  <2>3. SameCards(new, now)
    BY <1>0, <2>2 DEF SameCards
  <2> QED BY <1>0, <1>3, <2>2, <2>3 DEF Wrote
<1>4. CASE s.kind = "odds_snapshots"
  <2> DEFINE x == Overwrite(base.odds, v.odds, [at |-> b.at])
             y == Over([l \in b.legs |-> [at |-> b.at, gen |-> commits]], Undeleted(base.items, seen.items))
  <2>1. new = [base EXCEPT !.odds = x, !.items = y]
    BY <1>4 DEF Written, UpsertOdds, base
  <2> HIDE DEF x, y
  <2>2. /\ IsDb(new) /\ SameCards(new, base)
        /\ new.race = base.race /\ new.entries = base.entries /\ new.results = base.results
    BY <1>0, <2>1 DEF IsDb, SameCards
  <2>3. SameCards(new, now)
    BY <1>0, <2>2 DEF SameCards
  <2> QED BY <1>0, <1>4, <2>2, <2>3 DEF Wrote
<1>5. CASE s.kind = "race_results"
  <2> DEFINE x == Over(ResultRows(b), Undeleted(base.results, seen.results))
  <2>1. new = [base EXCEPT !.results = x]
    BY <1>5 DEF Written, UpsertResults, base
  <2> HIDE DEF x
  <2>2. /\ IsDb(new) /\ SameCards(new, base) /\ new.results = x
        /\ new.race = base.race /\ new.entries = base.entries
    BY <1>0, <2>1, SetResults
  <2>3. SameCards(new, now)
    BY <1>0, <2>2 DEF SameCards
  <2> QED BY <1>0, <1>5, <2>2, <2>3 DEF Wrote, x
<1>6. CASE s.kind = "race_cards"
  <2>1. ids \in Identities(now, v, b.horses) /\ new = Card(now, v, b, ids)
    BY <1>6 DEF Written, Ids
  <2>4. IsDb(new) /\ SameRaces(new, now)
    BY <2>1, CardIs
  <2> QED BY <1>6, <2>1, <2>4 DEF Wrote, SameRaces
<1> QED BY <1>1, <1>2, <1>3, <1>4, <1>5, <1>6 DEF Kinds

-----------------------------------------------------------------------------
(* The horses of a card *)

\* The identities of horses are the first so many numbers.
Count(hs) == Cardinality(DOMAIN hs)
HorsesOK(hs) == Count(hs) \in Nat /\ hs \in [1 .. Count(hs) -> HorseRows]

Cols(h) == [name |-> h.name, birth |-> h.birth, age |-> h.age]

\* The numbers that a sequence gives to the elements of a finite set.
Fresh(S, n) == CHOOSE g \in [S -> n + 1 .. n + Cardinality(S)] : IsInjective(g)

LEMMA FreshIs ==
  ASSUME NEW S, IsFiniteSet(S), NEW n \in Nat, NEW f, f = Fresh(S, n)
  PROVE  /\ Cardinality(S) \in Nat /\ f \in [S -> n + 1 .. n + Cardinality(S)] /\ IsInjective(f)
         /\ \A i \in n + 1 .. n + Cardinality(S) : \E x \in S : f[x] = i
<1> DEFINE c == Cardinality(S)
           T == n + 1 .. n + c
<1>1. c \in Nat
  BY FS_CardinalityType
<1> HIDE DEF c
<1>2. n + 1 \in Int /\ n + c \in Int
  BY <1>1
<1>3. IsFiniteSet(T) /\ Cardinality(T) = IF n + 1 > n + c THEN 0 ELSE (n + c) - (n + 1) + 1
  BY <1>2, FS_Interval
<1>4. Cardinality(T) = c
  BY <1>1, <1>3
<1> HIDE DEF T
<1>5. ExistsBijection(S, T)
  BY <1>3, <1>4, FS_SameCardinalityBij DEF c
<1>6. \E g \in [S -> T] : IsInjective(g)
  BY <1>5 DEF ExistsBijection, Bijection, Injection
<1>7. f \in [S -> T] /\ IsInjective(f)
  BY <1>6 DEF T, c, Fresh
<1>8. f \in Injection(S, T)
  BY <1>7 DEF Injection
<1>9. f \in Surjection(S, T)
  BY <1>3, <1>4, <1>8, FS_Injection DEF c
<1>10. \A i \in T : \E x \in S : f[x] = i
  BY <1>9 DEF Surjection
<1> QED BY <1>1, <1>7, <1>10 DEF c, T

\* Each horse of a card has a row that was seen and matches it, or is new and takes
\* the next number; no two have the same row.
Identified(now, v, hs, ids, m) ==
  /\ m \in Nat /\ ids \in [hs -> 1 .. Count(now.horses) + m]
  /\ \A h \in hs :
       \/ ids[h] \in DOMAIN v.horses /\ Matches(v.horses[ids[h]], h)
       \/ ids[h] > Count(now.horses) /\ \A i \in DOMAIN v.horses : ~Matches(v.horses[i], h)
  /\ \A i \in Count(now.horses) + 1 .. Count(now.horses) + m : \E h \in hs : ids[h] = i
  /\ \A g, h \in hs : ids[g] = ids[h] => g = h

LEMMA IdentitiesAre ==
  ASSUME NEW now, NEW v, HorsesOK(now.horses), HorsesOK(v.horses), DOMAIN v.horses \subseteq DOMAIN now.horses,
         NEW b \in Pages["race_cards"], NEW ids \in Identities(now, v, b.horses)
  PROVE  \E m : Identified(now, v, b.horses, ids, m)
<1> DEFINE hs == b.horses
           n == Count(now.horses)
           Known(h) == {i \in DOMAIN v.horses : Matches(v.horses[i], h)}
           new == {h \in hs : Known(h) = {}}
           m == Cardinality(new)
           fresh == CHOOSE f \in [new -> n + 1 .. n + m] : IsInjective(f)
<1>0. IsFiniteSet(hs) /\ \A g, h \in hs : g.no = h.no \/ g.name = h.name => g = h
  BY CardsAssumption
<1>1. n \in Nat /\ DOMAIN now.horses = 1 .. n /\ DOMAIN v.horses \subseteq 1 .. n
  BY DEF HorsesOK
<1>2. ids \in {f \in [hs -> DOMAIN v.horses \cup Range(fresh)] :
                 \A h \in hs : IF h \in new THEN f[h] = fresh[h] ELSE f[h] \in Known(h)}
  BY DEF Identities, Count
<1> HIDE DEF n
<1>3. IsFiniteSet(new)
  BY <1>0, FS_Subset
<1> HIDE DEF new
<1>fresh. fresh = Fresh(new, n)
  BY DEF Fresh
<1> HIDE DEF fresh
<1>4. /\ m \in Nat /\ fresh \in [new -> n + 1 .. n + m] /\ IsInjective(fresh)
      /\ \A i \in n + 1 .. n + m : \E x \in new : fresh[x] = i
  BY <1>1, <1>3, <1>fresh, FreshIs
<1> HIDE DEF m
<1>5. Range(fresh) \subseteq n + 1 .. n + m
  BY <1>4 DEF Range
<1>6. \A h \in hs : h \in new => ids[h] = fresh[h] /\ ids[h] \in n + 1 .. n + m
  BY <1>2, <1>4
<1>7. \A h \in hs : h \notin new => ids[h] \in DOMAIN v.horses /\ Matches(v.horses[ids[h]], h)
  BY <1>2
<1>8. \A h \in hs : h \in new => \A i \in DOMAIN v.horses : ~Matches(v.horses[i], h)
  BY DEF new
<1>9. ids \in [hs -> 1 .. n + m]
  <2>1. DOMAIN v.horses \cup Range(fresh) \subseteq 1 .. n + m
    <3>1. \A i \in 1 .. n : i \in 1 .. n + m
      BY <1>1, <1>4
    <3>2. \A i \in n + 1 .. n + m : i \in 1 .. n + m
      BY <1>1, <1>4
    <3> QED BY <1>1, <1>5, <3>1, <3>2
  <2> QED BY <1>2, <2>1
<1>10. \A i \in n + 1 .. n + m : \E h \in hs : ids[h] = i
  <2>1. new \subseteq hs
    BY DEF new
  <2> QED BY <1>4, <1>6, <2>1
<1>11. ASSUME NEW g \in hs, NEW h \in hs, ids[g] = ids[h] PROVE g = h
  <2>1. CASE g \in new /\ h \in new
    <3>1. fresh[g] = fresh[h] /\ g \in DOMAIN fresh /\ h \in DOMAIN fresh
      BY <1>4, <1>6, <1>11, <2>1
    <3> QED BY <1>4, <3>1 DEF IsInjective
  <2>2. CASE g \notin new /\ h \notin new
    BY <1>0, <1>7, <1>11, <2>2 DEF Matches
  <2>3. CASE g \in new <=> h \notin new
    <3>1. ids[g] \in n + 1 .. n + m /\ ids[g] \in 1 .. n
      BY <1>1, <1>6, <1>7, <1>11, <2>3
    <3> QED BY <1>1, <1>4, <3>1
  <2> QED BY <2>1, <2>2, <2>3
<1>12. \A h \in hs : h \in new => ids[h] > n
  <2>1. \A i \in n + 1 .. n + m : i > n
    BY <1>1, <1>4
  <2> QED BY <1>6, <2>1
<1>13. Identified(now, v, hs, ids, m)
  BY <1>4, <1>7, <1>8, <1>9, <1>10, <1>11, <1>12 DEF Identified, n
<1> QED BY <1>13

\* The rows of horses after a card: the rows of before, and those that it gave its
\* horses, each coalesced with what the card says.
CardRows(now, v, card, ids, m, hs) ==
  /\ DOMAIN hs = 1 .. Count(now.horses) + m
  /\ \A i \in DOMAIN now.horses : (\A h \in card : ids[h] # i) => hs[i] = now.horses[i]
  /\ \A h \in card : hs[ids[h]] = Coalesce(Row(now.horses, ids[h]), Row(v.horses, ids[h]), Cols(h))

LEMMA CardHorsesAre ==
  ASSUME NEW now, NEW v, HorsesOK(now.horses), HorsesOK(v.horses), DOMAIN v.horses \subseteq DOMAIN now.horses,
         NEW b \in Pages["race_cards"], NEW ids, NEW m, Identified(now, v, b.horses, ids, m)
  PROVE  CardRows(now, v, b.horses, ids, m, CardHorses(now, v, b, ids))
<1> DEFINE hs == CardHorses(now, v, b, ids)
           n == Count(now.horses)
           new == [i \in Range(ids) |-> [name |-> (CHOOSE h \in b.horses : ids[h] = i).name,
                                         birth |-> (CHOOSE h \in b.horses : ids[h] = i).birth,
                                         age |-> (CHOOSE h \in b.horses : ids[h] = i).age]]
<1>1. /\ n \in Nat /\ m \in Nat /\ DOMAIN now.horses = 1 .. n
      /\ ids \in [b.horses -> 1 .. n + m] /\ \A g, h \in b.horses : ids[g] = ids[h] => g = h
      /\ \A i \in n + 1 .. n + m : \E h \in b.horses : ids[h] = i
  BY DEF Identified, HorsesOK
<1>2. hs = [i \in DOMAIN now.horses \cup DOMAIN new |->
             IF i \in DOMAIN new THEN Coalesce(Row(now.horses, i), Row(v.horses, i), new[i]) ELSE now.horses[i]]
  BY DEF CardHorses, CoalesceRows
<1>3. \A h \in b.horses : ids[h] \in DOMAIN new /\ new[ids[h]] = Cols(h)
  <2> SUFFICES ASSUME NEW h \in b.horses PROVE ids[h] \in DOMAIN new /\ new[ids[h]] = Cols(h)
    OBVIOUS
  <2>1. ids[h] \in Range(ids)
    BY <1>1 DEF Range
  <2>2. (CHOOSE g \in b.horses : ids[g] = ids[h]) = h
    BY <1>1
  <2> QED BY <2>1, <2>2 DEF Cols
<1>4. DOMAIN new = Range(ids) /\ \A i \in Range(ids) : \E h \in b.horses : ids[h] = i
  BY <1>1 DEF Range
<1> HIDE DEF new, n, hs
<1>5. Range(ids) \subseteq 1 .. n + m /\ n + 1 .. n + m \subseteq Range(ids)
  BY <1>1 DEF Range
<1>6. (1 .. n) \cup Range(ids) = 1 .. n + m
  <2>1. \A i : i \in 1 .. n + m <=> i \in 1 .. n \/ i \in n + 1 .. n + m
    BY <1>1
  <2> QED BY <1>5, <2>1
<1>7. DOMAIN hs = 1 .. n + m
  BY <1>1, <1>2, <1>4, <1>6
<1>8. \A i \in DOMAIN now.horses : (\A h \in b.horses : ids[h] # i) => hs[i] = now.horses[i]
  BY <1>2, <1>4
<1>9. \A h \in b.horses : hs[ids[h]] = Coalesce(Row(now.horses, ids[h]), Row(v.horses, ids[h]), Cols(h))
  BY <1>2, <1>3
<1> QED BY <1>7, <1>8, <1>9 DEF n, hs, CardRows

-----------------------------------------------------------------------------
(* Columns *)

\* Null is no row.
LEMMA RowsAreRows == Null \notin RaceRows /\ Null \notin EntryRows /\ Null \notin HorseRows
BY RowsAssumption

LEMMA CoalesceHorse ==
  ASSUME NEW now, NEW view, NEW new \in HorseRows, view = Null \/ now \in HorseRows,
         NEW r, r = Coalesce(now, view, new)
  PROVE  /\ r \in HorseRows
         /\ view = Null => r.name = new.name /\ r.birth = new.birth
         /\ view # Null => /\ r.name = IF new.name # Null /\ new.name # view.name THEN new.name ELSE now.name
                           /\ r.birth = IF new.birth # Null /\ new.birth # view.birth THEN new.birth ELSE now.birth
                           /\ r.age = IF new.age # Null /\ new.age # view.age THEN new.age ELSE now.age
<1>1. DOMAIN new = {"name", "birth", "age"}
  BY DEF HorseRows
<1>2. r = [c \in {"name", "birth", "age"} |->
             IF view = Null \/ (new[c] # Null /\ new[c] # view[c]) THEN new[c] ELSE now[c]]
  BY <1>1 DEF Coalesce
<1>3. /\ r.name = IF view = Null \/ (new.name # Null /\ new.name # view.name) THEN new.name ELSE now.name
      /\ r.birth = IF view = Null \/ (new.birth # Null /\ new.birth # view.birth) THEN new.birth ELSE now.birth
      /\ r.age = IF view = Null \/ (new.age # Null /\ new.age # view.age) THEN new.age ELSE now.age
  BY <1>2
<1>4. new.name \in STRING /\ new.birth \in Values /\ new.age \in Values
  BY DEF HorseRows
<1>5. view # Null => now.name \in STRING /\ now.birth \in Values /\ now.age \in Values
  BY DEF HorseRows
<1>6. r = [name |-> r.name, birth |-> r.birth, age |-> r.age]
  BY <1>2
<1>7. r.name \in STRING /\ r.birth \in Values /\ r.age \in Values
  BY <1>3, <1>4, <1>5
<1>8. r \in HorseRows
  BY <1>6, <1>7 DEF HorseRows
<1> QED BY <1>3, <1>8

\* Rows of columns C: coalesced, a row keeps what was known.
LEMMA CoalesceRow ==
  ASSUME NEW C, NEW now, NEW view, NEW new \in [C -> Values], view = Null \/ now \in [C -> Values],
         NEW r, r = Coalesce(now, view, new)
  PROVE  /\ r \in [C -> Values]
         /\ view # Null => \A c \in C : now[c] # Null => r[c] # Null
BY DEF Coalesce

-----------------------------------------------------------------------------
(* Types *)

LinesOK(b) == DOMAIN b \subseteq Nat /\ \A i \in DOMAIN b : b[i].rich \in BOOLEAN
EntriesOK(rows) == \A n \in DOMAIN rows : rows[n] \in EntryRows
BatchOK(k, b) ==
  /\ k = "race_results" => LinesOK(b)
  /\ k = "race_entries" => EntriesOK(b)
  /\ k \notin Merged => b \in Pages[k]

DbOK(d) ==
  /\ IsDb(d)
  /\ d.race \in RaceRows \cup {Null}
  /\ EntriesOK(d.entries)
  /\ HorsesOK(d.horses)

\* A start number has a horse and may have figures, and figures belong to a horse.
LinksOK(d) ==
  /\ \A n \in DOMAIN d.starters : d.starters[n].horse \in DOMAIN d.horses /\ d.starters[n].perf \in DOMAIN d.perf \cup {Null}
  /\ DOMAIN d.perf \subseteq DOMAIN d.horses

GensOK(rows, n) == \A i \in DOMAIN rows : rows[i].gen \in Nat /\ rows[i].gen <= n

\* A transaction has a batch, and saw the race, entries and horses that are there
\* still.
SessionOK(s, d) ==
  /\ s.kind \in Kinds /\ s.batch # Null /\ BatchOK(s.kind, s.batch)
  /\ DbOK(s.view) /\ DOMAIN s.view.horses \subseteq DOMAIN d.horses
  /\ s.view.race # Null => d.race # Null
  /\ DOMAIN s.view.entries \subseteq DOMAIN d.entries

\* What the exports answer is the last page, and of the kinds that are merged what is
\* left of earlier ones besides.
PagesInv ==
  /\ DOMAIN store = Kinds /\ store = [k \in Kinds |-> store[k]]
  /\ DOMAIN sheet = Kinds /\ sheet = [k \in Kinds |-> sheet[k]]
  /\ \A k \in Kinds : sheet[k] = Null \/ sheet[k] \in Pages[k]
  /\ \A k \in Kinds : store[k] # Null =>
       /\ BatchOK(k, store[k]) /\ sheet[k] # Null
       /\ DOMAIN sheet[k] \subseteq DOMAIN store[k]
       /\ \A i \in DOMAIN sheet[k] : store[k][i] = sheet[k][i]
       /\ k \notin Merged => store[k] = sheet[k]

SessionsInv ==
  /\ DOMAIN sess = Sessions /\ sess = [s \in Sessions |-> sess[s]]
  /\ \A s \in Sessions : sess[s] # NoSession => SessionOK(sess[s], db)

TypeInv == commits \in Nat /\ PagesInv /\ SessionsInv /\ DbOK(db) /\ LinksOK(db) /\ GensOK(db.results, commits)

LEMMA TypeStart == TablesInit => TypeInv
<1> SUFFICES ASSUME TablesInit PROVE TypeInv
  OBVIOUS
<1>1. IsDb(EmptyDb) /\ EmptyDb.race = Null /\ EmptyDb.entries = NoRows /\ EmptyDb.horses = NoRows
      /\ EmptyDb.starters = NoRows /\ EmptyDb.perf = NoRows /\ EmptyDb.results = NoRows
  BY DEF EmptyDb, IsDb
<1>2. DOMAIN NoRows = {}
  BY DEF NoRows
<1>3. HorsesOK(NoRows)
  <2>1. Count(NoRows) = 0
    BY <1>2, FS_EmptySet DEF Count
  <2>2. NoRows \in [1 .. 0 -> HorseRows]
    BY DEF NoRows
  <2> QED BY <2>1, <2>2 DEF HorsesOK
<1>4. DbOK(EmptyDb) /\ LinksOK(EmptyDb) /\ GensOK(EmptyDb.results, 0)
  BY <1>1, <1>2, <1>3 DEF DbOK, LinksOK, GensOK, EntriesOK
<1> QED BY <1>4 DEF TablesInit, TypeInv, PagesInv, SessionsInv

\* A page is a batch, also with what is left of earlier ones.
LEMMA PageIsBatch ==
  ASSUME NEW k \in Kinds, NEW p \in Pages[k]
  PROVE  BatchOK(k, p)
BY ResultsAssumption, RowsAssumption DEF BatchOK, LinesOK, EntriesOK

LEMMA MergedIsBatch ==
  ASSUME NEW k \in Merged, NEW p, NEW old, BatchOK(k, p), BatchOK(k, old), NEW q, q = Over(p, old)
  PROVE  /\ BatchOK(k, q) /\ DOMAIN p \subseteq DOMAIN q
         /\ \A i \in DOMAIN p : q[i] = p[i]
<1>1. /\ DOMAIN q = DOMAIN p \cup DOMAIN old
      /\ \A i \in DOMAIN q : q[i] = IF i \in DOMAIN p THEN p[i] ELSE old[i]
  BY DEF Over
<1>2. k = "race_results" => LinesOK(q)
  BY <1>1 DEF BatchOK, LinesOK
<1>3. k = "race_entries" => EntriesOK(q)
  BY <1>1 DEF BatchOK, EntriesOK
<1> QED BY <1>1, <1>2, <1>3 DEF BatchOK

LEMMA TypeCapture ==
  ASSUME TypeInv, Capture
  PROVE  TypeInv'
<1>0. PICK k \in Kinds : \E p \in Pages[k] :
        /\ store' = [store EXCEPT ![k] = IF k \in Merged /\ @ # Null THEN Over(p, @) ELSE p]
        /\ sheet' = [sheet EXCEPT ![k] = p]
  BY DEF Capture
<1>1. PICK p \in Pages[k] :
        /\ store' = [store EXCEPT ![k] = IF k \in Merged /\ @ # Null THEN Over(p, @) ELSE p]
        /\ sheet' = [sheet EXCEPT ![k] = p]
  BY <1>0
<1> DEFINE q == IF k \in Merged /\ store[k] # Null THEN Over(p, store[k]) ELSE p
<1>2. store' = [store EXCEPT ![k] = q]
  BY <1>1
<1>3. PagesInv
  BY DEF TypeInv
<1>4. p # Null /\ BatchOK(k, p)
  BY PagesAssumption, PageIsBatch
<1>5. /\ BatchOK(k, q) /\ DOMAIN p \subseteq DOMAIN q
      /\ \A i \in DOMAIN p : q[i] = p[i]
      /\ k \notin Merged => q = p
  <2>1. CASE k \in Merged /\ store[k] # Null
    <3>1. BatchOK(k, store[k]) /\ q = Over(p, store[k])
      BY <1>3, <2>1 DEF PagesInv
    <3> HIDE DEF q
    <3> QED BY <1>4, <2>1, <3>1, MergedIsBatch
  <2>2. CASE ~(k \in Merged /\ store[k] # Null)
    <3>1. q = p
      BY <2>2
    <3> HIDE DEF q
    <3> QED BY <1>4, <3>1
  <2> QED BY <2>1, <2>2
<1> HIDE DEF q
<1>10. PagesInv'
  <2>1. /\ DOMAIN store' = Kinds /\ store' = [l \in Kinds |-> store'[l]]
        /\ DOMAIN sheet' = Kinds /\ sheet' = [l \in Kinds |-> sheet'[l]]
    BY <1>1, <1>2, <1>3 DEF PagesInv
  <2>2. \A l \in Kinds : store'[l] = (IF l = k THEN q ELSE store[l]) /\ sheet'[l] = (IF l = k THEN p ELSE sheet[l])
    BY <1>1, <1>2, <1>3 DEF PagesInv
  <2>3. \A l \in Kinds : sheet'[l] = Null \/ sheet'[l] \in Pages[l]
    BY <1>3, <2>2 DEF PagesInv
  <2>4. ASSUME NEW l \in Kinds, store'[l] # Null
        PROVE  /\ BatchOK(l, store'[l]) /\ sheet'[l] # Null
               /\ DOMAIN sheet'[l] \subseteq DOMAIN store'[l]
               /\ \A i \in DOMAIN sheet'[l] : store'[l][i] = sheet'[l][i]
               /\ l \notin Merged => store'[l] = sheet'[l]
    <3>1. CASE l = k
      BY <1>4, <1>5, <2>2, <3>1
    <3>2. CASE l # k
      BY <1>3, <2>2, <2>4, <3>2 DEF PagesInv
    <3> QED BY <3>1, <3>2
  <2> QED BY <2>1, <2>3, <2>4 DEF PagesInv
<1>11. UNCHANGED <<db, sess, commits>>
  BY DEF Capture
<1> QED BY <1>10, <1>11 DEF TypeInv, SessionsInv

LEMMA TypeStage ==
  ASSUME TypeInv, NEW s \in Sessions, NEW k \in Kinds, Stage(s, k)
  PROVE  TypeInv'
<1> DEFINE x == [kind |-> k, batch |-> store[k], view |-> db]
<1>1. /\ store[k] # Null /\ sess' = [sess EXCEPT ![s] = x]
      /\ UNCHANGED <<store, db, commits, sheet>>
  BY DEF Stage
<1>2. BatchOK(k, store[k])
  BY <1>1 DEF TypeInv, PagesInv
<1>3. x.kind = k /\ x.batch = store[k] /\ x.view = db
  OBVIOUS
<1> HIDE DEF x
<1>4. SessionOK(x, db)
  BY <1>1, <1>2, <1>3 DEF SessionOK, TypeInv
<1>5. SessionsInv'
  BY <1>1, <1>4 DEF SessionsInv, TypeInv
<1> QED BY <1>1, <1>5 DEF TypeInv, PagesInv

-----------------------------------------------------------------------------
(* What a commit keeps *)

\* What is known of a race, of entries or of horses.
KnownKept(d, e) ==
  /\ Kept(d.race, e.race)
  /\ \A n \in DOMAIN d.entries : n \in DOMAIN e.entries /\ Kept(d.entries[n], e.entries[n])
  /\ \A i \in DOMAIN d.horses : i \in DOMAIN e.horses /\ Kept(d.horses[i], e.horses[i])

LEMMA KeptSame == \A x : Kept(x, x)
BY DEF Kept

LEMMA WroteRace ==
  ASSUME NEW now, NEW s, NEW seen, NEW ids, NEW new, DbOK(now), SessionOK(s, now), ~Conflict(now, s, seen, ids),
         Wrote(now, s, seen, new)
  PROVE  /\ new.race \in RaceRows \cup {Null} /\ Kept(now.race, new.race)
         /\ now.race # Null => new.race # Null
<1> DEFINE v == s.view
           C == {"start", "distance"}
           nulls == [c \in C |-> Null]
<1>0. /\ now.race \in RaceRows \cup {Null} /\ v.race \in RaceRows \cup {Null} /\ Null \notin RaceRows
      /\ v.race # Null => now.race # Null
  BY RowsAreRows DEF DbOK, SessionOK
<1>1. nulls \in RaceRows
  BY DEF RaceRows, Values
<1>2. CASE s.kind = "race_cards"
  BY <1>0, <1>2, KeptSame DEF Wrote, SameRaces
<1>3. CASE s.kind # "race_cards"
  <2>1. v.race # Null \/ now.race = Null
    BY <1>3 DEF Conflict
  <2>2. BaseRace(now, v) \in RaceRows /\ (v.race = Null => now.race = Null) /\ (v.race # Null => BaseRace(now, v) = now.race)
    BY <1>0, <1>1, <2>1 DEF BaseRace
  <2>3. CASE s.kind # "races"
    <3>1. new.race = BaseRace(now, v)
      BY <1>3, <2>3 DEF Wrote
    <3>2. Kept(now.race, new.race)
      <4>1. CASE v.race = Null
        BY <2>2, <4>1 DEF Kept
      <4>2. CASE v.race # Null
        BY <2>2, <3>1, <4>2, KeptSame
      <4> QED BY <4>1, <4>2
    <3> QED BY <1>0, <2>2, <3>1, <3>2
  <2>4. CASE s.kind = "races"
    <3> DEFINE base == BaseRace(now, v)
               w == IF v.race = Null THEN base ELSE v.race
    <3>1. new.race = Coalesce(base, w, s.batch)
      BY <2>4 DEF Wrote
    <3>2. s.batch \in RaceRows
      BY <2>4, RowsAssumption DEF SessionOK, BatchOK, Merged
    <3>3. base \in RaceRows /\ w # Null
      BY <1>0, <2>2
    <3> HIDE DEF base, w
    <3>4. new.race \in [C -> Values] /\ \A c \in C : base[c] # Null => new.race[c] # Null
      BY <3>1, <3>2, <3>3, CoalesceRow DEF RaceRows
    <3>5. DOMAIN base = C
      BY <3>3 DEF RaceRows
    <3>6. Kept(base, new.race)
      BY <3>4, <3>5 DEF Kept
    <3>7. Kept(now.race, new.race)
      <4>1. CASE v.race = Null
        BY <2>2, <4>1 DEF Kept
      <4>2. CASE v.race # Null
        BY <2>2, <3>6, <4>2 DEF base
      <4> QED BY <4>1, <4>2
    <3>8. new.race \in RaceRows
      BY <3>4 DEF RaceRows
    <3> QED BY <1>0, <3>7, <3>8
  <2> QED BY <2>3, <2>4
<1> QED BY <1>2, <1>3

LEMMA WroteEntries ==
  ASSUME NEW now, NEW s, NEW seen, NEW ids, NEW new, DbOK(now), SessionOK(s, now), ~Conflict(now, s, seen, ids),
         Wrote(now, s, seen, new)
  PROVE  /\ EntriesOK(new.entries)
         /\ \A n \in DOMAIN now.entries : n \in DOMAIN new.entries /\ Kept(now.entries[n], new.entries[n])
<1> DEFINE v == s.view.entries
           b == s.batch
           old == now.entries
<1>1. CASE s.kind # "race_entries"
  BY <1>1, KeptSame DEF Wrote, DbOK
<1>2. CASE s.kind = "race_entries"
  <2>1. new.entries = [n \in DOMAIN old \cup DOMAIN b |->
                         IF n \in DOMAIN b THEN Coalesce(Row(old, n), Row(v, n), b[n]) ELSE old[n]]
    BY <1>2 DEF Wrote, CoalesceRows
  <2>2. \A n \in DOMAIN b : b[n] \in EntryRows
    BY <1>2 DEF SessionOK, BatchOK, EntriesOK
  <2>3. \A n \in DOMAIN b : n \in DOMAIN old => n \in DOMAIN v
    BY <1>2 DEF Conflict, Taken
  <2>4. (\A n \in DOMAIN old : old[n] \in EntryRows) /\ (\A n \in DOMAIN v : v[n] \in EntryRows) /\ Null \notin EntryRows
    BY RowsAreRows DEF DbOK, SessionOK, EntriesOK
  <2>5. DOMAIN v \subseteq DOMAIN old
    BY DEF SessionOK
  <2> HIDE DEF v, b, old
  <2>6. ASSUME NEW n \in DOMAIN b, n \in DOMAIN old
        PROVE  new.entries[n] \in EntryRows /\ Kept(old[n], new.entries[n])
    <3>1. new.entries[n] = Coalesce(old[n], v[n], b[n]) /\ v[n] # Null /\ old[n] \in EntryRows /\ b[n] \in EntryRows
      BY <2>1, <2>2, <2>3, <2>4, <2>6 DEF Row
    <3>2. new.entries[n] \in EntryRows /\ \A c \in EntryColumns : old[n][c] # Null => new.entries[n][c] # Null
      BY <3>1, CoalesceRow DEF EntryRows
    <3>3. DOMAIN old[n] = EntryColumns
      BY <3>1 DEF EntryRows
    <3> QED BY <3>2, <3>3 DEF Kept
  <2>7. ASSUME NEW n \in DOMAIN b, n \notin DOMAIN old
        PROVE  new.entries[n] \in EntryRows
    <3>1. new.entries[n] = Coalesce(Null, Null, b[n]) /\ b[n] \in EntryRows
      BY <2>1, <2>2, <2>5, <2>7 DEF Row
    <3> QED BY <3>1, CoalesceRow DEF EntryRows
  <2>8. \A n \in DOMAIN old : n \notin DOMAIN b => new.entries[n] = old[n]
    BY <2>1
  <2>9. DOMAIN new.entries = DOMAIN old \cup DOMAIN b
    BY <2>1
  <2>10. \A n \in DOMAIN new.entries : new.entries[n] \in EntryRows
    BY <2>4, <2>6, <2>7, <2>8, <2>9
  <2>11. \A n \in DOMAIN old : Kept(old[n], new.entries[n])
    BY <2>6, <2>8, KeptSame
  <2> QED BY <2>9, <2>10, <2>11 DEF EntriesOK, old
<1> QED BY <1>1, <1>2

LEMMA WroteHorses ==
  ASSUME NEW now, NEW s, NEW seen, NEW new, DbOK(now), SessionOK(s, now), LinksOK(now), Wrote(now, s, seen, new)
  PROVE  /\ HorsesOK(new.horses) /\ LinksOK(new)
         /\ \A i \in DOMAIN now.horses : i \in DOMAIN new.horses /\ Kept(now.horses[i], new.horses[i])
<1> DEFINE v == s.view
           b == s.batch
           hs == new.horses
           old == now.horses
           n == Count(now.horses)
<1>1. CASE s.kind # "race_cards"
  BY <1>1, KeptSame DEF Wrote, SameCards, DbOK, LinksOK
<1>2. CASE s.kind = "race_cards"
  <2>0. b \in Pages["race_cards"]
    BY <1>2 DEF SessionOK, BatchOK, Merged
  <2>1. PICK ids \in Identities(now, v, b.horses) : new = Card(now, v, b, ids)
    BY <1>2 DEF Wrote
  <2>2. /\ HorsesOK(old) /\ HorsesOK(v.horses) /\ DOMAIN v.horses \subseteq DOMAIN old /\ IsDb(now)
    BY DEF DbOK, SessionOK
  <2>3. PICK m : Identified(now, v, b.horses, ids, m)
    BY <2>0, <2>2, IdentitiesAre
  <2>4. /\ hs = CardHorses(now, v, b, ids)
        /\ new.perf = Figures(now.perf, Shown(b, ids), b.at)
        /\ new.starters = Starters(now.starters, ByNo(b, ids))
    BY <2>1, <2>2, CardIs
  <2>5. /\ DOMAIN hs = 1 .. n + m
        /\ \A i \in DOMAIN old : (\A h \in b.horses : ids[h] # i) => hs[i] = old[i]
        /\ \A h \in b.horses : hs[ids[h]] = Coalesce(Row(old, ids[h]), Row(v.horses, ids[h]), Cols(h))
    <3>1. CardRows(now, v, b.horses, ids, m, CardHorses(now, v, b, ids))
      BY <2>0, <2>2, <2>3, CardHorsesAre
    <3> QED BY <2>4, <3>1 DEF CardRows
  <2>6. /\ n \in Nat /\ m \in Nat /\ DOMAIN old = 1 .. n /\ old \in [1 .. n -> HorseRows] /\ ids \in [b.horses -> 1 .. n + m]
        /\ \A i \in n + 1 .. n + m : \E h \in b.horses : ids[h] = i
    BY <2>2, <2>3 DEF HorsesOK, Identified
  <2>7. \A h \in b.horses : Cols(h) \in HorseRows
    BY <2>0, CardsAssumption DEF Cols
  <2>8. ASSUME NEW h \in b.horses
        PROVE  /\ hs[ids[h]] \in HorseRows
               /\ ids[h] \in DOMAIN old => Kept(old[ids[h]], hs[ids[h]])
    <3> DEFINE o == Row(old, ids[h])
               w == Row(v.horses, ids[h])
               r == hs[ids[h]]
               c == Cols(h)
    <3>1. r = Coalesce(o, w, c) /\ c \in HorseRows
      BY <2>5, <2>7
    <3>2. CASE ids[h] \in DOMAIN v.horses
      <4>1. w \in HorseRows /\ o \in HorseRows /\ ids[h] \in DOMAIN old /\ o = old[ids[h]] /\ Null \notin HorseRows
        BY <2>2, <2>6, <3>2, RowsAreRows DEF Row, HorsesOK
      <4> HIDE DEF o, w, r, c
      <4>2. /\ r \in HorseRows
            /\ r.name = IF c.name # Null /\ c.name # w.name THEN c.name ELSE o.name
            /\ r.birth = IF c.birth # Null /\ c.birth # w.birth THEN c.birth ELSE o.birth
            /\ r.age = IF c.age # Null /\ c.age # w.age THEN c.age ELSE o.age
        BY <3>1, <4>1, CoalesceHorse
      <4>3. Kept(o, r)
        <5>1. DOMAIN o = {"name", "birth", "age"}
          BY <4>1 DEF HorseRows
        <5>2. (o.name # Null => r.name # Null) /\ (o.birth # Null => r.birth # Null) /\ (o.age # Null => r.age # Null)
          BY <4>2
        <5> QED BY <5>1, <5>2 DEF Kept
      <4> QED BY <4>1, <4>2, <4>3 DEF r
    <3>3. CASE ids[h] \notin DOMAIN v.horses
      <4>1. w = Null
        BY <3>3 DEF Row
      <4>2. ids[h] \notin DOMAIN old
        BY <2>3, <2>6, <3>3 DEF Identified
      <4> HIDE DEF w, r, c
      <4>3. r \in HorseRows
        BY <3>1, <4>1, CoalesceHorse
      <4> QED BY <4>2, <4>3 DEF r
    <3> QED BY <3>2, <3>3
  <2>9. \A i \in 1 .. n + m : i \in 1 .. n \/ i \in n + 1 .. n + m
    BY <2>6
  <2>10. \A i \in 1 .. n : i \in 1 .. n + m
    BY <2>6
  <2>11. n + m \in Nat
    BY <2>6
  <2> HIDE DEF n, hs, old
  <2>12. \A i \in 1 .. n + m : hs[i] \in HorseRows
    <3> SUFFICES ASSUME NEW i \in 1 .. n + m PROVE hs[i] \in HorseRows
      OBVIOUS
    <3>1. CASE \E h \in b.horses : ids[h] = i
      BY <2>8, <3>1
    <3>2. CASE \A h \in b.horses : ids[h] # i
      BY <2>5, <2>6, <2>9, <3>2
    <3> QED BY <3>1, <3>2
  <2>13. hs = [i \in DOMAIN hs |-> hs[i]]
    BY <2>4 DEF CardHorses, CoalesceRows
  <2>14. HorsesOK(hs)
    <3>1. Count(hs) = n + m
      <4>1. IsFiniteSet(1 .. n + m) /\ Cardinality(1 .. n + m) = IF 1 > n + m THEN 0 ELSE (n + m) - 1 + 1
        BY <2>11, FS_Interval
      <4> QED BY <2>5, <2>11, <4>1 DEF Count
    <3>2. hs \in [1 .. n + m -> HorseRows]
      BY <2>5, <2>12, <2>13
    <3> QED BY <2>11, <3>1, <3>2 DEF HorsesOK
  <2>15. \A i \in DOMAIN old : i \in DOMAIN hs /\ Kept(old[i], hs[i])
    <3> SUFFICES ASSUME NEW i \in DOMAIN old PROVE i \in DOMAIN hs /\ Kept(old[i], hs[i])
      OBVIOUS
    <3>1. i \in DOMAIN hs
      BY <2>5, <2>6, <2>10
    <3>2. CASE \E h \in b.horses : ids[h] = i
      BY <2>8, <3>1, <3>2
    <3>3. CASE \A h \in b.horses : ids[h] # i
      BY <2>5, <3>1, <3>3, KeptSame
    <3> QED BY <3>1, <3>2, <3>3
  <2>16. LinksOK(new)
    <3>1. \A h \in b.horses : ids[h] \in DOMAIN hs
      BY <2>5, <2>6
    <3>2. DOMAIN old \subseteq DOMAIN hs
      BY <2>15
    <3>0. /\ \A no \in DOMAIN now.starters : /\ now.starters[no].horse \in DOMAIN old
                                            /\ now.starters[no].perf \in DOMAIN now.perf \cup {Null}
          /\ DOMAIN now.perf \subseteq DOMAIN old
      BY DEF LinksOK, old
    <3>3. DOMAIN new.perf = DOMAIN now.perf \cup Shown(b, ids)
      BY <2>4 DEF Figures
    <3>4. Shown(b, ids) \subseteq DOMAIN hs
      BY <3>1 DEF Shown
    <3> DEFINE byNo == ByNo(b, ids)
    <3>5. \A no \in DOMAIN byNo : /\ byNo[no].horse \in DOMAIN hs
                                  /\ byNo[no].perf \in Shown(b, ids) \cup {Null}
      <4> SUFFICES ASSUME NEW g \in b.horses
                   PROVE  byNo[g.no].horse \in DOMAIN hs /\ byNo[g.no].perf \in Shown(b, ids) \cup {Null}
        BY DEF ByNo
      <4> DEFINE h == CHOOSE h \in b.horses : h.no = g.no
      <4>1. h \in b.horses
        OBVIOUS
      <4>2. byNo[g.no] = Starter(h, ids)
        BY DEF ByNo
      <4> HIDE DEF h, byNo
      <4>3. h.shown => ids[h] \in Shown(b, ids)
        BY <4>1 DEF Shown
      <4> QED BY <3>1, <4>1, <4>2, <4>3 DEF Starter
    <3>6. new.starters = Over(byNo, now.starters)
      BY <2>4 DEF Starters
    <3> HIDE DEF byNo
    <3>7. \A no \in DOMAIN new.starters : new.starters[no] = IF no \in DOMAIN byNo THEN byNo[no] ELSE now.starters[no]
      BY <3>6 DEF Over
    <3>8. \A no \in DOMAIN new.starters : no \in DOMAIN byNo \/ no \in DOMAIN now.starters
      BY <3>6 DEF Over
    <3> QED BY <3>0, <3>2, <3>3, <3>4, <3>5, <3>7, <3>8 DEF LinksOK, hs
  <2> QED BY <2>14, <2>15, <2>16 DEF hs, old
<1> QED BY <1>1, <1>2

LEMMA WroteResults ==
  ASSUME NEW now, NEW s, NEW seen, NEW new, commits \in Nat, GensOK(now.results, commits), s.kind \in Kinds, Wrote(now, s, seen, new)
  PROVE  GensOK(new.results, commits + 1)
<1>1. CASE s.kind # "race_results"
  BY <1>1 DEF Wrote, GensOK
<1>2. CASE s.kind = "race_results"
  <2> DEFINE f == ResultRows(s.batch)
             g == Undeleted(now.results, seen.results)
  <2>1. new.results = Over(f, g)
    BY <1>2 DEF Wrote
  <2>2. \A i \in DOMAIN f : f[i].gen = commits
    BY DEF ResultRows
  <2>3. \A i \in DOMAIN g : i \in DOMAIN now.results /\ g[i] = now.results[i]
    BY DEF Undeleted, Restrict
  <2> HIDE DEF f, g
  <2> QED BY <2>1, <2>2, <2>3 DEF Over, GensOK
<1> QED BY <1>1, <1>2

\* A transaction that commits keeps what is known, and the types.
LEMMA WroteKeeps ==
  ASSUME NEW now, NEW s, NEW seen, NEW ids, NEW new, commits \in Nat, DbOK(now), LinksOK(now), GensOK(now.results, commits),
         SessionOK(s, now), ~Conflict(now, s, seen, ids), Wrote(now, s, seen, new)
  PROVE  /\ DbOK(new) /\ LinksOK(new) /\ GensOK(new.results, commits + 1) /\ KnownKept(now, new)
         /\ now.race # Null => new.race # Null
<1>1. IsDb(new) /\ s.kind \in Kinds
  BY DEF Wrote, SessionOK
<1> QED BY <1>1, WroteRace, WroteEntries, WroteHorses, WroteResults DEF DbOK, KnownKept

\* What a transaction saw may be older than what is kept.
LEMMA SessionsKept ==
  ASSUME NEW s, NEW d, NEW e, SessionOK(s, d), KnownKept(d, e), d.race # Null => e.race # Null
  PROVE  SessionOK(s, e)
BY DEF SessionOK, KnownKept

LEMMA CommitIs ==
  ASSUME TypeInv, NEW s \in Sessions, Commit(s)
  PROVE  /\ SessionOK(sess[s], db) /\ commits' = commits + 1
         /\ \E seen \in {sess[s].view, db} : \E ids : ~Conflict(db, sess[s], seen, ids) /\ Wrote(db, sess[s], seen, db')
<1>1. PICK seen \in {sess[s].view, db}, ids \in Ids(db, sess[s]) :
        ~Conflict(db, sess[s], seen, ids) /\ db' = Written(db, sess[s], seen, ids)
  BY DEF Commit
<1>2. SessionOK(sess[s], db)
  BY DEF Commit, TypeInv, SessionsInv
<1>3. sess[s].kind \in Kinds /\ IsDb(db) /\ IsDb(sess[s].view)
  BY <1>2 DEF SessionOK, TypeInv, DbOK
<1>4. Wrote(db, sess[s], seen, db')
  BY <1>1, <1>3, WrittenIs
<1> QED BY <1>1, <1>2, <1>4 DEF Commit

LEMMA CommitKeeps ==
  ASSUME TypeInv, NEW s \in Sessions, Commit(s)
  PROVE  /\ DbOK(db') /\ LinksOK(db') /\ GensOK(db'.results, commits + 1) /\ KnownKept(db, db')
         /\ db.race # Null => db'.race # Null
<1>1. PICK seen \in {sess[s].view, db} : \E ids : ~Conflict(db, sess[s], seen, ids) /\ Wrote(db, sess[s], seen, db')
  BY CommitIs
<1> QED BY <1>1, CommitIs, WroteKeeps DEF TypeInv

LEMMA TypeCommit ==
  ASSUME TypeInv, NEW s \in Sessions, Commit(s)
  PROVE  TypeInv'
<1>1. /\ sess' = [sess EXCEPT ![s] = NoSession] /\ commits' = commits + 1
      /\ UNCHANGED <<store, sheet>>
  BY DEF Commit
<1>2. SessionsInv'
  <2>1. \A o \in Sessions : sess'[o] # NoSession => SessionOK(sess[o], db) /\ sess'[o] = sess[o]
    BY <1>1 DEF TypeInv, SessionsInv
  <2>2. \A o \in Sessions : sess'[o] # NoSession => SessionOK(sess'[o], db')
    BY <2>1, CommitKeeps, SessionsKept
  <2>3. DOMAIN sess' = Sessions /\ sess' = [o \in Sessions |-> sess'[o]]
    BY <1>1 DEF TypeInv, SessionsInv
  <2> QED BY <2>2, <2>3 DEF SessionsInv
<1> QED BY <1>1, <1>2, CommitKeeps DEF TypeInv, PagesInv

LEMMA TypeRollback ==
  ASSUME TypeInv, NEW s \in Sessions, Rollback(s)
  PROVE  TypeInv'
<1>1. /\ sess' = [sess EXCEPT ![s] = NoSession] /\ commits' = commits + 1
      /\ UNCHANGED <<store, db, sheet>>
  BY DEF Rollback
<1>2. SessionsInv'
  BY <1>1 DEF TypeInv, SessionsInv
<1>3. GensOK(db.results, commits + 1)
  BY DEF TypeInv, GensOK
<1> QED BY <1>1, <1>2, <1>3 DEF TypeInv, PagesInv

LEMMA TypeStep == TypeInv /\ [Next]_vars => TypeInv'
<1> SUFFICES ASSUME TypeInv, [Next]_vars PROVE TypeInv'
  OBVIOUS
<1>1. CASE UNCHANGED vars
  BY <1>1 DEF vars, TypeInv, PagesInv, SessionsInv
<1> QED BY <1>1, TypeCapture, TypeStage, TypeCommit, TypeRollback DEF Next

LEMMA TypesHold == TablesSpec => []TypeInv
BY TypeStart, TypeStep, PTL DEF TablesSpec

\* The tables are what they seem: start numbers and figures lead to horses, whose
\* identities are those of a sequence, and no export that answered nothing is stored
\* (scrape_sync_service.py, run_sync).
THEOREM TablesAreTyped == TablesSpec => []TablesTypeOK
<1>1. TypeInv => TablesTypeOK
  <2> SUFFICES ASSUME TypeInv PROVE TablesTypeOK
    OBVIOUS
  <2>1. DOMAIN db = DOMAIN EmptyDb
    BY DEF TypeInv, DbOK, IsDb, EmptyDb
  <2>2. \A k \in Kinds : store[k] # Null => sheet[k] # Null /\ DOMAIN sheet[k] \subseteq DOMAIN store[k]
    BY DEF TypeInv, PagesInv
  <2>3. \A s \in Sessions : sess[s] # NoSession => sess[s].kind \in Kinds /\ sess[s].batch # Null
    BY DEF TypeInv, SessionsInv, SessionOK
  <2>4. \A i \in DOMAIN db.results : db.results[i].gen <= commits
    BY DEF TypeInv, GensOK
  <2>5. /\ \A n \in DOMAIN db.starters : /\ db.starters[n].horse \in DOMAIN db.horses
                                        /\ db.starters[n].perf \in DOMAIN db.perf \cup {Null}
        /\ DOMAIN db.perf \subseteq DOMAIN db.horses
    BY DEF TypeInv, LinksOK
  <2>6. DOMAIN db.horses = 1 .. Cardinality(DOMAIN db.horses)
    BY DEF TypeInv, DbOK, HorsesOK, Count
  <2> QED BY <2>1, <2>2, <2>3, <2>4, <2>5, <2>6 DEF TablesTypeOK
<1> QED BY <1>1, TypesHold, PTL

\* What is known of a race, an entry (of the tables races and race_entries) or a horse
\* is not forgotten, also where two transactions store different pages at once: each
\* leaves alone the columns that its page leaves out (scrape_service.py, upsert_races).
THEOREM KnownIsKept == TablesSpec => KnownStays
<1>1. TypeInv /\ [Next]_vars =>
        [/\ Kept(db.race, db'.race)
         /\ \A n \in DOMAIN db.entries : n \in DOMAIN db'.entries /\ Kept(db.entries[n], db'.entries[n])
         /\ \A i \in DOMAIN db.horses : i \in DOMAIN db'.horses /\ Kept(db.horses[i], db'.horses[i])]_vars
  <2> SUFFICES ASSUME TypeInv, Next PROVE KnownKept(db, db')
    BY DEF KnownKept
  <2>1. CASE db' = db
    BY <2>1, KeptSame DEF KnownKept
  <2>2. ASSUME NEW s \in Sessions, Commit(s) PROVE KnownKept(db, db')
    BY <2>2, CommitKeeps
  <2>3. db' = db \/ \E s \in Sessions : Commit(s)
    BY DEF Next, Capture, Stage, Rollback
  <2> QED BY <2>1, <2>2, <2>3
<1> QED BY <1>1, TypesHold, PTL DEF TablesSpec, KnownStays

-----------------------------------------------------------------------------
(* Transactions one after the other *)

\* One at a time, each sees the rows that it commits to; and a batch that is under way
\* is what the export answers still, if that was stored before.
AloneInv ==
  ~shared =>
    /\ \A s, o \in Sessions : sess[s] # NoSession /\ sess[o] # NoSession => s = o
    /\ \A s \in Sessions : sess[s] # NoSession => sess[s].view = db
    /\ \A s \in Sessions : sess[s] # NoSession /\ sess[s].kind \in settled => sess[s].batch = store[sess[s].kind]
    /\ \A k \in settled : k \in Kinds /\ store[k] # Null

LEMMA SharedStays == [Next]_vars /\ ~shared' => ~shared
BY DEF Next, Capture, Stage, Commit, Rollback, vars

LEMMA AloneStep == TypeInv /\ AloneInv /\ [Next]_vars => AloneInv'
<1> SUFFICES ASSUME TypeInv, AloneInv, [Next]_vars, ~shared' PROVE AloneInv'
  BY DEF AloneInv
<1>0. ~shared
  BY SharedStays
<1>1. /\ \A s, o \in Sessions : sess[s] # NoSession /\ sess[o] # NoSession => s = o
      /\ \A s \in Sessions : sess[s] # NoSession => sess[s].view = db
      /\ \A s \in Sessions : sess[s] # NoSession /\ sess[s].kind \in settled => sess[s].batch = store[sess[s].kind]
      /\ \A k \in settled : k \in Kinds /\ store[k] # Null
  BY <1>0 DEF AloneInv
<1>2. DOMAIN sess = Sessions /\ sess = [s \in Sessions |-> sess[s]] /\ DOMAIN store = Kinds /\ store = [k \in Kinds |-> store[k]]
  BY DEF TypeInv, SessionsInv, PagesInv
<1>3. CASE Capture
  <2>1. PICK k \in Kinds : settled' = settled \ {k} /\ \E q : store' = [store EXCEPT ![k] = q]
    BY <1>3 DEF Capture
  <2>2. \A l \in Kinds : l # k => store'[l] = store[l]
    BY <1>2, <2>1
  <2>3. UNCHANGED <<sess, db>>
    BY <1>3 DEF Capture
  <2>4. \A s \in Sessions : sess[s] # NoSession => sess[s].kind \in Kinds
    BY DEF TypeInv, SessionsInv, SessionOK
  <2> QED BY <1>1, <2>1, <2>2, <2>3, <2>4 DEF AloneInv
<1>4. ASSUME NEW s \in Sessions, NEW k \in Kinds, Stage(s, k) PROVE AloneInv'
  <2> DEFINE x == [kind |-> k, batch |-> store[k], view |-> db]
  <2>1. /\ sess' = [sess EXCEPT ![s] = x] /\ UNCHANGED <<store, db, settled>>
        /\ \A o \in Sessions \ {s} : sess[o] = NoSession
    BY <1>4 DEF Stage
  <2>2. x.kind = k /\ x.batch = store[k] /\ x.view = db
    OBVIOUS
  <2> HIDE DEF x
  <2>3. \A o \in Sessions : sess'[o] = IF o = s THEN x ELSE NoSession
    BY <1>2, <2>1
  <2> QED BY <1>1, <2>1, <2>2, <2>3 DEF AloneInv
<1>5. ASSUME NEW s \in Sessions, Commit(s) \/ Rollback(s) PROVE AloneInv'
  <2>1. /\ sess[s] # NoSession /\ sess' = [sess EXCEPT ![s] = NoSession] /\ UNCHANGED store
        /\ settled' = settled \/ (sess[s].batch = store[sess[s].kind] /\ settled' = settled \cup {sess[s].kind})
    BY <1>5 DEF Commit, Rollback
  <2>2. \A o \in Sessions : sess'[o] = NoSession
    BY <1>1, <1>2, <2>1
  <2>3. sess[s].kind \in Kinds /\ sess[s].batch # Null
    BY <2>1 DEF TypeInv, SessionsInv, SessionOK
  <2> QED BY <1>1, <2>1, <2>2, <2>3 DEF AloneInv
<1>6. CASE UNCHANGED vars
  BY <1>1, <1>6 DEF vars, AloneInv
<1> QED BY <1>3, <1>4, <1>5, <1>6 DEF Next

LEMMA AloneHolds == TablesSpec => []AloneInv
<1>1. TablesInit => AloneInv
  BY DEF TablesInit, AloneInv
<1> QED BY <1>1, TypesHold, AloneStep, PTL DEF TablesSpec

\* Of the lines of a horse no two are best.
LEMMA BestIsOne ==
  ASSUME NEW b, LinesOK(b), NEW i \in DOMAIN b, NEW j \in DOMAIN b, b[i].horse = b[j].horse, b[i].horse # Null,
         Best(b, i), Best(b, j)
  PROVE  i = j
BY DEF LinesOK, Best, Outranks

LEMMA NoneLeft == \A rows : DOMAIN Undeleted(rows, rows) = {}
BY DEF Undeleted, Restrict, Row

LEMMA NoClash ==
  ASSUME NEW rows, NEW b, LinesOK(b)
  PROVE  ~ResultsClash(Undeleted(rows, rows), b)
<1> DEFINE stay == Undeleted(rows, rows)
           new == ResultRows(b)
<1>1. DOMAIN stay = {}
  BY NoneLeft
<1>2. \A i \in DOMAIN new : i \in DOMAIN b /\ Best(b, i) /\ new[i].horse = b[i].horse
  BY DEF ResultRows
<1> HIDE DEF stay, new
<1>3. \A i, j \in DOMAIN new : new[i].horse = new[j].horse /\ new[j].horse # Null => i = j
  BY <1>2, BestIsOne
<1> QED BY <1>1, <1>3 DEF ResultsClash, stay, new

\* A transaction that has the database to itself meets no unique constraint, whatever
\* its batch and the rows are (scrape_service.py, upsert_results, the note on
\* duplicates).
THEOREM AloneIsServed == TablesSpec => []AloneSucceeds
<1>1. TypeInv /\ AloneInv => AloneSucceeds
  <2> SUFFICES ASSUME TypeInv, AloneInv, ~shared, NEW s \in Sessions, sess[s] # NoSession, NEW ids
               PROVE  ~Conflict(db, sess[s], db, ids)
    BY DEF AloneSucceeds
  <2>1. sess[s].view = db
    BY DEF AloneInv
  <2>2. sess[s].kind = "race_results" => ~ResultsClash(Undeleted(db.results, db.results), sess[s].batch)
    BY NoClash DEF TypeInv, SessionsInv, SessionOK, BatchOK
  <2>3. DOMAIN Undeleted(db.items, db.items) = {}
    BY NoneLeft
  <2> QED BY <2>1, <2>2, <2>3 DEF Conflict, Taken
<1> QED BY <1>1, TypesHold, AloneHolds, PTL

-----------------------------------------------------------------------------
(* Results *)

\* What is stored of the results are the best lines of what the export answers.
ResultsInv ==
  ~shared /\ "race_results" \in settled =>
    LET lines == store["race_results"]
    IN /\ DOMAIN db.results = {i \in DOMAIN lines : Best(lines, i)}
       /\ \A i \in DOMAIN db.results : db.results[i].horse = lines[i].horse

LEMMA ResultsStep == TypeInv /\ AloneInv /\ ResultsInv /\ [Next]_vars => ResultsInv'
<1> DEFINE r == "race_results"
<1> SUFFICES ASSUME TypeInv, AloneInv, ResultsInv, [Next]_vars, ~shared', r \in settled'
             PROVE  /\ DOMAIN db'.results = {i \in DOMAIN store'[r] : Best(store'[r], i)}
                    /\ \A i \in DOMAIN db'.results : db'.results[i].horse = store'[r][i].horse
  BY DEF ResultsInv
<1>0. ~shared
  BY SharedStays
<1>1. r \in settled => /\ DOMAIN db.results = {i \in DOMAIN store[r] : Best(store[r], i)}
                       /\ \A i \in DOMAIN db.results : db.results[i].horse = store[r][i].horse
  BY <1>0 DEF ResultsInv
<1>2. CASE r \in settled /\ db' = db /\ store'[r] = store[r]
  BY <1>1, <1>2
<1>3. CASE Capture
  <2>1. PICK k \in Kinds : settled' = settled \ {k} /\ \E q : store' = [store EXCEPT ![k] = q]
    BY <1>3 DEF Capture
  <2>2. r \in Kinds /\ k # r /\ store'[r] = store[r]
    BY <2>1 DEF TypeInv, PagesInv, Kinds
  <2> QED BY <1>2, <1>3, <2>1, <2>2 DEF Capture
<1>4. ASSUME NEW s \in Sessions, Commit(s)
      PROVE  /\ DOMAIN db'.results = {i \in DOMAIN store'[r] : Best(store'[r], i)}
             /\ \A i \in DOMAIN db'.results : db'.results[i].horse = store'[r][i].horse
  <2> DEFINE x == sess[s]
  <2>1. /\ x # NoSession /\ UNCHANGED store
        /\ settled' = IF x.batch = store[x.kind] THEN settled \cup {x.kind} ELSE settled
    BY <1>4 DEF Commit
  <2>2. PICK seen \in {x.view, db} : Wrote(db, x, seen, db')
    BY <1>4, CommitIs
  <2>3. seen = db /\ (x.kind \in settled => x.batch = store[x.kind])
    BY <1>0, <2>1 DEF AloneInv
  <2>4. CASE x.kind # r
    <3>1. db'.results = db.results
      BY <2>2, <2>4 DEF Wrote
    <3>2. r \in settled
      BY <2>1, <2>4
    <3> QED BY <1>1, <2>1, <3>1, <3>2
  <2>5. CASE x.kind = r
    <3>1. x.batch = store[r]
      BY <2>1, <2>3, <2>5
    <3>2. db'.results = Over(ResultRows(store[r]), Undeleted(db.results, db.results))
      BY <2>2, <2>3, <2>5, <3>1 DEF Wrote
    <3>3. DOMAIN Undeleted(db.results, db.results) = {}
      BY NoneLeft
    <3>4. /\ DOMAIN ResultRows(store[r]) = {i \in DOMAIN store[r] : Best(store[r], i)}
          /\ \A i \in DOMAIN ResultRows(store[r]) : ResultRows(store[r])[i].horse = store[r][i].horse
      BY DEF ResultRows
    <3> QED BY <2>1, <3>2, <3>3, <3>4 DEF Over
  <2> QED BY <2>4, <2>5
<1>5. CASE UNCHANGED <<db, store, settled>>
  BY <1>2, <1>5
<1>6. Capture \/ (\E s \in Sessions : Commit(s)) \/ UNCHANGED <<db, store, settled>>
  BY DEF Next, Stage, Rollback, vars
<1> QED BY <1>3, <1>4, <1>5, <1>6

\* A set of numbers has a smallest one: the finite sets of numbers up to one of them
\* have a least one by inclusion.
LEMMA SmallestOf ==
  ASSUME NEW S \in SUBSET Nat, S # {}
  PROVE  \E i \in S : \A j \in S : i <= j
<1> DEFINE UpTo(n) == S \cap (0 .. n)
           T == {UpTo(n) : n \in S}
<1>1. \A n \in Nat : IsFiniteSet(UpTo(n))
  <2> SUFFICES ASSUME NEW n \in Nat PROVE IsFiniteSet(UpTo(n))
    OBVIOUS
  <2>1. IsFiniteSet(0 .. n)
    BY FS_Interval
  <2> QED BY <2>1, FS_Subset
<1>2. T \subseteq FiniteSubsetsOf(S) /\ T # {}
  BY <1>1 DEF FiniteSubsetsOf
<1>3. IsWellFoundedOn(StrictSubsetOrdering(S), FiniteSubsetsOf(S))
  BY FS_StrictSubsetOrderingWellFounded
<1> HIDE DEF T
<1>4. PICK x \in T : \A y \in T : ~(<<y, x>> \in StrictSubsetOrdering(S))
  BY <1>2, <1>3, WFMin
<1>5. PICK i \in S : x = UpTo(i)
  BY DEF T
<1>6. ASSUME NEW j \in S, ~(i <= j) PROVE FALSE
  <2>1. UpTo(j) \in T
    BY DEF T
  <2>2. UpTo(j) \subseteq UpTo(i) /\ i \in UpTo(i) /\ i \notin UpTo(j)
    BY <1>6
  <2>3. UpTo(j) \in SUBSET S /\ UpTo(i) \in SUBSET S
    OBVIOUS
  <2> HIDE DEF UpTo
  <2>4. <<UpTo(j), UpTo(i)>> \in StrictSubsetOrdering(S)
    BY <2>2, <2>3 DEF StrictSubsetOrdering
  <2> QED BY <1>4, <1>5, <2>1, <2>4
<1> QED BY <1>6

\* Each horse of some lines has a best one.
LEMMA BestIsThere ==
  ASSUME NEW b, LinesOK(b), NEW i \in DOMAIN b
  PROVE  \E j \in DOMAIN b : b[j].horse = b[i].horse /\ Best(b, j)
<1> DEFINE S(rich) == {j \in DOMAIN b : b[j].horse = b[i].horse /\ (rich => b[j].rich)}
<1>1. \A rich \in BOOLEAN : S(rich) \in SUBSET Nat
  BY DEF LinesOK
<1>2. \A j \in DOMAIN b : j \in Nat /\ b[j].rich \in BOOLEAN
  BY DEF LinesOK
<1>3. CASE S(TRUE) # {}
  <2>1. PICK j \in S(TRUE) : \A l \in S(TRUE) : j <= l
    BY <1>1, <1>3, SmallestOf
  <2>2. j \in DOMAIN b /\ b[j].horse = b[i].horse /\ b[j].rich
    OBVIOUS
  <2>3. ASSUME NEW l \in DOMAIN b \ {j}, b[l].horse = b[j].horse PROVE Outranks(b, j, l)
    <3>1. CASE b[l].rich
      BY <1>2, <2>1, <2>2, <2>3, <3>1 DEF Outranks
    <3>2. CASE ~b[l].rich
      BY <2>2, <3>2 DEF Outranks
    <3> QED BY <3>1, <3>2
  <2> QED BY <2>2, <2>3 DEF Best
<1>4. CASE S(TRUE) = {}
  <2>0. i \in S(FALSE)
    OBVIOUS
  <2>1. PICK j \in S(FALSE) : \A l \in S(FALSE) : j <= l
    BY <1>1, <2>0, SmallestOf
  <2>2. j \in DOMAIN b /\ b[j].horse = b[i].horse
    OBVIOUS
  <2>3. ASSUME NEW l \in DOMAIN b \ {j}, b[l].horse = b[j].horse PROVE Outranks(b, j, l)
    <3>1. ~b[l].rich /\ ~b[j].rich
      BY <1>4, <2>2, <2>3
    <3>2. j <= l /\ j # l /\ j \in Nat /\ l \in Nat
      BY <1>2, <2>1, <2>2, <2>3
    <3> QED BY <1>2, <3>1, <3>2 DEF Outranks
  <2> QED BY <2>2, <2>3 DEF Best
<1> QED BY <1>3, <1>4

\* After a page of results was stored, its positions have its horses and no line of
\* it is missing but those whose horse stands elsewhere (scrape_service.py,
\* upsert_results), although the export shows lines of earlier pages too.
THEOREM ResultsAreThePage == TablesSpec => []ResultsFollowThePage
<1>1. TablesInit => ResultsInv
  BY DEF TablesInit, ResultsInv
<1>2. TypeInv /\ AloneInv /\ ResultsInv => ResultsFollowThePage
  <2> DEFINE r == "race_results"
             page == sheet[r]
             lines == store[r]
             rows == db.results
  <2> SUFFICES ASSUME TypeInv, AloneInv, ResultsInv, r \in settled, ~shared, NEW i \in DOMAIN page
               PROVE  IF i \in DOMAIN rows THEN rows[i].horse = page[i].horse
                      ELSE page[i].horse # Null /\ \E j \in DOMAIN rows : rows[j].horse = page[i].horse
    BY DEF ResultsFollowThePage
  <2>1. r \in Kinds /\ lines # Null
    BY DEF AloneInv, Kinds
  <2>2. LinesOK(lines) /\ i \in DOMAIN lines /\ lines[i] = page[i]
    BY <2>1 DEF TypeInv, PagesInv, BatchOK
  <2>3. /\ DOMAIN rows = {j \in DOMAIN lines : Best(lines, j)}
        /\ \A j \in DOMAIN rows : rows[j].horse = lines[j].horse
    BY DEF ResultsInv
  <2> HIDE DEF lines, rows, page
  <2>4. CASE i \in DOMAIN rows
    BY <2>2, <2>3, <2>4
  <2>5. CASE i \notin DOMAIN rows
    <3>1. ~Best(lines, i)
      BY <2>2, <2>3, <2>5
    <3>2. page[i].horse # Null
      BY <2>2, <3>1 DEF Best
    <3>3. PICK j \in DOMAIN lines : lines[j].horse = lines[i].horse /\ Best(lines, j)
      BY <2>2, BestIsThere
    <3>4. j \in DOMAIN rows /\ rows[j].horse = page[i].horse
      BY <2>2, <2>3, <3>3
    <3> QED BY <2>5, <3>2, <3>4
  <2> QED BY <2>4, <2>5
<1> QED BY <1>1, <1>2, TypesHold, AloneHolds, ResultsStep, PTL DEF TablesSpec

-----------------------------------------------------------------------------
(* Cards *)

\* What a card leaves where it sees the rows that it commits to: its horses have
\* their names, and no name or birthday of another changes.
CardLeft(now, b, new, ids, m) ==
  /\ Identified(now, now, b.horses, ids, m) /\ new = Card(now, now, b, ids)
  /\ DOMAIN new.horses = 1 .. Count(now.horses) + m
  /\ \A i \in DOMAIN now.horses : /\ i \in DOMAIN new.horses
                                  /\ new.horses[i].name = now.horses[i].name
                                  /\ new.horses[i].birth = now.horses[i].birth
  /\ \A h \in b.horses :
       /\ ids[h] \in DOMAIN new.horses /\ new.horses[ids[h]].name = h.name
       /\ ids[h] > Count(now.horses) => new.horses[ids[h]].birth = h.birth

LEMMA CardLeaves ==
  ASSUME NEW now, NEW s, NEW seen, NEW new, DbOK(now), SessionOK(s, now), s.view = now, s.kind = "race_cards",
         Wrote(now, s, seen, new)
  PROVE  \E ids, m : CardLeft(now, s.batch, new, ids, m)
<1> DEFINE b == s.batch
           hs == new.horses
           old == now.horses
           n == Count(now.horses)
<1>1. b \in Pages["race_cards"] /\ HorsesOK(old) /\ IsDb(now)
  BY DEF SessionOK, BatchOK, Merged, DbOK
<1>2. PICK ids \in Identities(now, now, b.horses) : new = Card(now, now, b, ids)
  BY DEF Wrote
<1>3. PICK m : Identified(now, now, b.horses, ids, m)
  BY <1>1, IdentitiesAre
<1>4. CardRows(now, now, b.horses, ids, m, CardHorses(now, now, b, ids))
  BY <1>1, <1>3, CardHorsesAre
<1>5. hs = CardHorses(now, now, b, ids)
  <2> DEFINE v == s.view
  <2>1. new = Card(now, v, b, ids)
    BY <1>2
  <2>2. /\ hs = CardHorses(now, v, b, ids)
        /\ new.perf = Figures(now.perf, Shown(b, ids), b.at)
        /\ new.starters = Starters(now.starters, ByNo(b, ids))
    BY <1>1, <2>1, CardIs
  <2> QED BY <2>2
<1>6. /\ DOMAIN hs = 1 .. n + m
      /\ \A i \in DOMAIN old : (\A h \in b.horses : ids[h] # i) => hs[i] = old[i]
      /\ \A h \in b.horses : hs[ids[h]] = Coalesce(Row(old, ids[h]), Row(old, ids[h]), Cols(h))
  BY <1>4, <1>5 DEF CardRows
<1>7. /\ n \in Nat /\ m \in Nat /\ DOMAIN old = 1 .. n /\ old \in [1 .. n -> HorseRows] /\ ids \in [b.horses -> 1 .. n + m]
      /\ \A h \in b.horses : \/ ids[h] \in DOMAIN old /\ Matches(old[ids[h]], h)
                             \/ ids[h] > n
  BY <1>1, <1>3 DEF HorsesOK, Identified
<1> HIDE DEF n, hs, old
<1>8. \A h \in b.horses : Cols(h) \in HorseRows /\ Cols(h).name = h.name /\ Cols(h).birth = h.birth
  BY <1>1, CardsAssumption DEF Cols
<1>9. \A i \in 1 .. n : i \in 1 .. n + m /\ ~(i > n)
  BY <1>7
<1>10. ASSUME NEW h \in b.horses, ids[h] \in DOMAIN old
       PROVE  /\ hs[ids[h]].name = h.name /\ hs[ids[h]].name = old[ids[h]].name
              /\ hs[ids[h]].birth = old[ids[h]].birth
  <2> DEFINE o == old[ids[h]]
             c == Cols(h)
             r == hs[ids[h]]
  <2>1. o \in HorseRows /\ o # Null /\ Row(old, ids[h]) = o
    BY <1>7, <1>10, RowsAreRows DEF Row
  <2>2. r = Coalesce(o, o, c) /\ c \in HorseRows
    BY <1>6, <1>8, <2>1
  <2>3. Matches(o, h)
    BY <1>7, <1>9, <1>10
  <2> HIDE DEF o, r
  <2>4. /\ r.name = IF c.name # Null /\ c.name # o.name THEN c.name ELSE o.name
        /\ r.birth = IF c.birth # Null /\ c.birth # o.birth THEN c.birth ELSE o.birth
    <3> HIDE DEF c
    <3> QED BY <2>1, <2>2, CoalesceHorse
  <2> QED BY <1>8, <2>3, <2>4 DEF Matches, o, r
<1>11. ASSUME NEW h \in b.horses, ids[h] \notin DOMAIN old
       PROVE  hs[ids[h]].name = h.name /\ hs[ids[h]].birth = h.birth
  <2> DEFINE c == Cols(h)
             r == hs[ids[h]]
  <2>1. r = Coalesce(Null, Null, c) /\ c \in HorseRows /\ c.name = h.name /\ c.birth = h.birth
    BY <1>6, <1>8, <1>11 DEF Row
  <2> HIDE DEF c, r
  <2>2. r.name = c.name /\ r.birth = c.birth
    BY <2>1, CoalesceHorse
  <2> QED BY <2>1, <2>2 DEF r
<1>12. \A i \in DOMAIN old : i \in DOMAIN hs /\ hs[i].name = old[i].name /\ hs[i].birth = old[i].birth
  <2> SUFFICES ASSUME NEW i \in DOMAIN old PROVE i \in DOMAIN hs /\ hs[i].name = old[i].name /\ hs[i].birth = old[i].birth
    OBVIOUS
  <2>1. i \in DOMAIN hs
    BY <1>6, <1>7, <1>9
  <2>2. CASE \E h \in b.horses : ids[h] = i
    BY <1>10, <2>1, <2>2
  <2>3. CASE \A h \in b.horses : ids[h] # i
    BY <1>6, <2>1, <2>3
  <2> QED BY <2>2, <2>3
<1>13. \A h \in b.horses :
         /\ ids[h] \in DOMAIN hs /\ hs[ids[h]].name = h.name
         /\ ids[h] > n => hs[ids[h]].birth = h.birth
  <2> SUFFICES ASSUME NEW h \in b.horses
               PROVE  /\ ids[h] \in DOMAIN hs /\ hs[ids[h]].name = h.name
                      /\ ids[h] > n => hs[ids[h]].birth = h.birth
    OBVIOUS
  <2>1. ids[h] \in DOMAIN hs
    BY <1>6, <1>7
  <2>2. CASE ids[h] \in DOMAIN old
    BY <1>7, <1>9, <1>10, <2>1, <2>2
  <2>3. CASE ids[h] \notin DOMAIN old
    BY <1>11, <2>1, <2>3
  <2> QED BY <2>2, <2>3
<1>14. CardLeft(now, b, new, ids, m)
  BY <1>2, <1>3, <1>6, <1>12, <1>13 DEF hs, old, n, CardLeft
<1> QED BY <1>14

\* What one transaction wrote while no other was under way.
LEMMA AloneCommit ==
  ASSUME TypeInv, AloneInv, ~shared, NEW s \in Sessions, Commit(s)
  PROVE  /\ SessionOK(sess[s], db) /\ sess[s].view = db /\ Wrote(db, sess[s], db, db')
         /\ sess[s].kind \in settled => sess[s].batch = store[sess[s].kind]
         /\ UNCHANGED <<store, sheet>>
         /\ settled' = IF sess[s].batch = store[sess[s].kind] THEN settled \cup {sess[s].kind} ELSE settled
<1>1. sess[s] # NoSession
  BY DEF Commit
<1>2. sess[s].view = db /\ (sess[s].kind \in settled => sess[s].batch = store[sess[s].kind])
  BY <1>1 DEF AloneInv
<1>3. SessionOK(sess[s], db) /\ \E seen \in {sess[s].view, db} : Wrote(db, sess[s], seen, db')
  BY CommitIs
<1> QED BY <1>2, <1>3 DEF Commit

UniqueRows(hs) ==
  \A i, j \in DOMAIN hs : i < j /\ hs[i].name = hs[j].name => hs[j].birth # Null /\ hs[i].birth # hs[j].birth

LEMMA UniqueStep == TypeInv /\ AloneInv /\ HorsesUnique /\ [Next]_vars => HorsesUnique'
<1> SUFFICES ASSUME TypeInv, AloneInv, HorsesUnique, [Next]_vars, ~shared'
             PROVE  UniqueRows(db'.horses)
  BY DEF HorsesUnique, UniqueRows
<1>0. ~shared /\ UniqueRows(db.horses)
  BY SharedStays DEF HorsesUnique, UniqueRows
<1>1. ASSUME NEW s \in Sessions, Commit(s) PROVE UniqueRows(db'.horses)
  <2> DEFINE x == sess[s]
             hs == db'.horses
             old == db.horses
             n == Count(db.horses)
  <2>1. SessionOK(x, db) /\ x.view = db /\ Wrote(db, x, db, db')
    BY <1>0, <1>1, AloneCommit
  <2>2. CASE x.kind # "race_cards"
    BY <1>0, <2>1, <2>2 DEF Wrote, SameCards
  <2>3. CASE x.kind = "race_cards"
    <3> DEFINE b == x.batch
    <3>0. PICK ids, m : CardLeft(db, b, db', ids, m)
      BY <2>1, <2>3, CardLeaves DEF TypeInv
    <3>1. /\ Identified(db, db, b.horses, ids, m)
          /\ DOMAIN hs = 1 .. n + m
          /\ \A i \in DOMAIN old : i \in DOMAIN hs /\ hs[i].name = old[i].name /\ hs[i].birth = old[i].birth
          /\ \A h \in b.horses :
               /\ ids[h] \in DOMAIN hs /\ hs[ids[h]].name = h.name
               /\ ids[h] > n => hs[ids[h]].birth = h.birth
      BY <3>0 DEF CardLeft
    <3>2. b \in Pages["race_cards"] /\ HorsesOK(old)
      BY <2>1, <2>3 DEF SessionOK, BatchOK, Merged, TypeInv, DbOK
    <3>3. /\ n \in Nat /\ m \in Nat /\ DOMAIN old = 1 .. n
          /\ \A h \in b.horses : ids[h] > n => \A i \in DOMAIN old : ~Matches(old[i], h)
          /\ \A i \in n + 1 .. n + m : \E h \in b.horses : ids[h] = i
      <4>1. /\ m \in Nat
            /\ \A h \in b.horses : \/ ids[h] \in DOMAIN old
                                   \/ ids[h] > n /\ \A i \in DOMAIN old : ~Matches(old[i], h)
            /\ \A i \in n + 1 .. n + m : \E h \in b.horses : ids[h] = i
        BY <3>1 DEF Identified
      <4>2. n \in Nat /\ DOMAIN old = 1 .. n
        BY <3>2 DEF HorsesOK
      <4>3. \A i \in 1 .. n : ~(i > n)
        BY <4>2
      <4> QED BY <4>1, <4>2, <4>3
    <3>4. \A g, h \in b.horses : g.name = h.name => g = h
      BY <3>2, CardsAssumption
    <3> HIDE DEF n, hs, old, b
    <3>5. \A i \in DOMAIN hs : i \in DOMAIN old \/ (i > n /\ \E h \in b.horses : ids[h] = i)
      <4>1. \A i \in 1 .. n + m : i \in 1 .. n \/ (i > n /\ i \in n + 1 .. n + m)
        BY <3>3
      <4> QED BY <3>1, <3>3, <4>1
    \* A new row of a name that is there has a birthday that none of them has.
    <3>6. ASSUME NEW i \in DOMAIN old, NEW h \in b.horses, ids[h] > n, hs[i].name = hs[ids[h]].name
          PROVE  hs[ids[h]].birth # Null /\ hs[i].birth # hs[ids[h]].birth
      <4>1. old[i].name = h.name /\ hs[i].birth = old[i].birth /\ hs[ids[h]].birth = h.birth
        BY <3>1, <3>6
      <4>2. ~Matches(old[i], h)
        BY <3>3, <3>6
      <4> QED BY <4>1, <4>2 DEF Matches
    <3>7. ASSUME NEW i \in DOMAIN hs, NEW j \in DOMAIN hs, i < j, hs[i].name = hs[j].name
          PROVE  hs[j].birth # Null /\ hs[i].birth # hs[j].birth
      <4>1. CASE i \in DOMAIN old /\ j \in DOMAIN old
        <5>1. old[i].name = old[j].name
          BY <3>1, <3>7, <4>1
        <5>2. old[j].birth # Null /\ old[i].birth # old[j].birth
          BY <1>0, <3>7, <4>1, <5>1 DEF UniqueRows, old
        <5> QED BY <3>1, <4>1, <5>2
      <4>2. CASE i \notin DOMAIN old /\ j \notin DOMAIN old
        <5>1. PICK g, h \in b.horses : ids[g] = i /\ ids[h] = j
          BY <3>5, <4>2
        <5>2. g.name = h.name
          BY <3>1, <3>7, <5>1
        <5>3. i = j
          BY <3>4, <5>1, <5>2
        <5>4. i \in Nat
          BY <3>1, <3>3
        <5> QED BY <3>7, <5>3, <5>4
      <4>3. CASE i \in DOMAIN old /\ j \notin DOMAIN old
        <5>1. PICK h \in b.horses : ids[h] = j /\ j > n
          BY <3>5, <4>3
        <5> QED BY <3>6, <3>7, <4>3, <5>1
      <4>4. CASE i \notin DOMAIN old /\ j \in DOMAIN old
        <5>1. i > n /\ j \in 1 .. n
          BY <3>3, <3>5, <4>4
        <5>2. i \in Nat
          BY <3>1, <3>3
        <5> QED BY <3>3, <3>7, <5>1, <5>2
      <4> QED BY <4>1, <4>2, <4>3, <4>4
    <3> QED BY <3>7 DEF UniqueRows, hs
  <2> QED BY <2>2, <2>3
<1>2. db' = db \/ \E s \in Sessions : Commit(s)
  BY DEF Next, Capture, Stage, Rollback, vars
<1> QED BY <1>0, <1>1, <1>2

\* One after the other, cards make a second row of a name only for a birthday that no
\* row of the name has (spec_race_card_ingest_service.py, _get_or_create_horse, which
\* has no constraint to rely on).
THEOREM HorsesAreUnique == TablesSpec => []HorsesUnique
<1>1. TablesInit => HorsesUnique
  BY DEF TablesInit, HorsesUnique, EmptyDb, NoRows
<1> QED BY <1>1, TypesHold, AloneHolds, UniqueStep, PTL DEF TablesSpec

\* The start numbers of a card lead to its horses and to the figures that it shows.
Linked(d, card) ==
  \A h \in card.horses :
    LET s == d.starters[h.no]
    IN /\ d.horses[s.horse].name = h.name
       /\ IF h.shown THEN s.perf = s.horse /\ d.perf[s.perf] = card.at ELSE s.perf = Null

LEMMA StarterIs ==
  ASSUME NEW h, NEW ids
  PROVE  Starter(h, ids).horse = ids[h] /\ Starter(h, ids).perf = IF h.shown THEN ids[h] ELSE Null
BY DEF Starter

LEMMA LinkedStep == TypeInv /\ AloneInv /\ CardIsLinked /\ [Next]_vars => CardIsLinked'
<1> DEFINE k == "race_cards"
<1> SUFFICES ASSUME TypeInv, AloneInv, CardIsLinked, [Next]_vars, ~shared', k \in settled'
             PROVE  Linked(db', sheet'[k])
  BY DEF CardIsLinked, Linked
<1>0. ~shared /\ k \in Kinds
  BY SharedStays DEF Kinds
<1>1. k \in settled => Linked(db, sheet[k])
  BY <1>0 DEF CardIsLinked, Linked
<1>2. CASE Capture
  <2>1. PICK l \in Kinds : settled' = settled \ {l} /\ \E p : sheet' = [sheet EXCEPT ![l] = p]
    BY <1>2 DEF Capture
  <2>2. k # l /\ sheet'[k] = sheet[k] /\ k \in settled
    BY <1>0, <2>1 DEF TypeInv, PagesInv
  <2> QED BY <1>1, <1>2, <2>2 DEF Capture
<1>3. ASSUME NEW s \in Sessions, Commit(s) PROVE Linked(db', sheet'[k])
  <2> DEFINE x == sess[s]
  <2>1. /\ SessionOK(x, db) /\ x.view = db /\ Wrote(db, x, db, db')
        /\ x.kind \in settled => x.batch = store[x.kind]
        /\ UNCHANGED <<store, sheet>>
        /\ settled' = IF x.batch = store[x.kind] THEN settled \cup {x.kind} ELSE settled
    BY <1>0, <1>3, AloneCommit
  <2>2. CASE x.kind # k
    <3>1. k \in settled /\ SameCards(db', db)
      BY <2>1, <2>2 DEF Wrote
    <3> QED BY <1>1, <2>1, <3>1 DEF SameCards, Linked
  <2>3. CASE x.kind = k
    <3> DEFINE b == x.batch
    <3>1. b = store[k] /\ b # Null /\ b \in Pages[k]
      BY <2>1, <2>3 DEF SessionOK, BatchOK, Merged
    <3>2. b = sheet[k]
      BY <1>0, <3>1 DEF TypeInv, PagesInv, Merged
    <3>0. PICK ids, m : CardLeft(db, b, db', ids, m)
      BY <2>1, <2>3, CardLeaves DEF TypeInv
    <3>3. /\ Identified(db, db, b.horses, ids, m) /\ db' = Card(db, db, b, ids)
          /\ \A h \in b.horses : ids[h] \in DOMAIN db'.horses /\ db'.horses[ids[h]].name = h.name
      BY <3>0 DEF CardLeft
    <3> DEFINE byNo == ByNo(b, ids)
    <3>4. IsDb(db)
      BY DEF TypeInv, DbOK
    <3>5. db'.perf = Figures(db.perf, Shown(b, ids), b.at) /\ db'.starters = Starters(db.starters, byNo)
      BY <3>3, <3>4, CardIs
    <3>6. ASSUME NEW h \in b.horses PROVE db'.starters[h.no] = Starter(h, ids)
      <4>1. h.no \in DOMAIN byNo
        BY DEF ByNo
      <4>2. (CHOOSE g \in b.horses : g.no = h.no) = h
        BY <3>1, CardsAssumption
      <4>3. byNo[h.no] = Starter(h, ids)
        BY <4>2 DEF ByNo
      <4> HIDE DEF byNo
      <4> QED BY <3>5, <4>1, <4>3 DEF Starters, Over
    <3>7. ASSUME NEW h \in b.horses, h.shown PROVE db'.perf[ids[h]] = b.at
      <4>1. ids[h] \in Shown(b, ids)
        BY <3>7 DEF Shown
      <4> QED BY <3>5, <4>1 DEF Figures
    <3>8. Linked(db', b)
      <4> SUFFICES ASSUME NEW h \in b.horses, NEW st, st = db'.starters[h.no]
                   PROVE  /\ db'.horses[st.horse].name = h.name
                          /\ IF h.shown THEN st.perf = st.horse /\ db'.perf[st.perf] = b.at ELSE st.perf = Null
        BY DEF Linked
      <4>1. st.horse = ids[h] /\ st.perf = IF h.shown THEN ids[h] ELSE Null
        BY <3>6, StarterIs
      <4> QED BY <3>3, <3>7, <4>1
    <3> QED BY <2>1, <3>2, <3>8
  <2> QED BY <2>2, <2>3
<1>4. UNCHANGED <<db, sheet, settled>> \/ Capture \/ \E s \in Sessions : Commit(s)
  BY DEF Next, Stage, Rollback, vars
<1> QED BY <1>1, <1>2, <1>3, <1>4

\* After a card was stored its start numbers lead to its horses and to the figures
\* that it shows, also if a number had another horse before
\* (spec_race_card_ingest_service.py, _upsert_race_entry).
THEOREM CardsAreLinked == TablesSpec => []CardIsLinked
<1>1. TablesInit => CardIsLinked
  BY DEF TablesInit, CardIsLinked
<1> QED BY <1>1, TypesHold, AloneHolds, LinkedStep, PTL DEF TablesSpec

=============================================================================
