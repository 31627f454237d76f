---------------------------- MODULE ScrapeProofs ----------------------------
(***************************************************************************)
(* Proofs about Scrape and the ingest store below it.  However many        *)
(* processes append, in one write or two, and wherever one of them dies:   *)
(* the exports implement the abstract store of LatestRecords, and a torn   *)
(* line costs two records.  And three promises about the pages of a job:   *)
(* odds that are exported as final were taken late, no manual job for the  *)
(* venue asks for the refunds early, and one that ends after the races has *)
(* left out no page and no record of them.                                 *)
(*                                                                         *)
(* The model takes the pages of a job from FlattenSeq and SetToSeq.  What  *)
(* is needed of such a recursive function is shown with a smallest         *)
(* counterexample, as the induction theorems of the library cannot be      *)
(* instantiated.                                                           *)
(***************************************************************************)
EXTENDS Scrape, FiniteSetTheorems, TLAPS

-----------------------------------------------------------------------------
(* Sequences and numbers *)

\* What is appended comes as sequences, of whatever.
IsSequence(s) == s \in Seq(Range(s))

\* A sequence has a length and places from 1 to it.
LEMMA SequencesAreNumbered ==
  ASSUME NEW s, IsSequence(s)
  PROVE  /\ Len(s) \in Nat /\ DOMAIN s = 1 .. Len(s)
         /\ Len(s) = 0 <=> s = <<>>
BY DEF IsSequence

\* Elements of any set make a sequence in this sense.
LEMMA TypedIsSequence ==
  ASSUME NEW X, NEW s \in Seq(X)
  PROVE  IsSequence(s)
BY DEF IsSequence, Range

\* The places of two sequences in a row.
LEMMA ConcatIsSequence ==
  ASSUME NEW s, NEW t, IsSequence(s), IsSequence(t)
  PROVE  /\ IsSequence(s \o t)
         /\ Len(s \o t) = Len(s) + Len(t)
         /\ \A i \in 1 .. Len(s) : (s \o t)[i] = s[i]
         /\ \A i \in 1 .. Len(t) : (s \o t)[Len(s) + i] = t[i]
<1> DEFINE X == Range(s) \cup Range(t)
<1>1. s \in Seq(X) /\ t \in Seq(X)
  BY DEF IsSequence
<1> HIDE DEF X
<1>2. s \o t \in Seq(X)
  BY <1>1
<1>3. IsSequence(s \o t)
  BY <1>2, TypedIsSequence
<1> QED BY <1>1, <1>3

\* A function on 1 .. n is a sequence, empty when n is not positive.
LEMMA ListIsSequence ==
  ASSUME NEW n \in Int, NEW s, DOMAIN s = 1 .. n, s = [i \in DOMAIN s |-> s[i]]
  PROVE  IsSequence(s)
<1>1. s \in [1 .. n -> Range(s)]
  BY DEF Range
<1>2. CASE n \in Nat
  BY <1>1, <1>2 DEF IsSequence
<1>3. CASE n \notin Nat
  <2>1. 1 .. n = 1 .. 0
    BY <1>3
  <2>2. s \in [1 .. 0 -> Range(s)]
    BY <1>1, <2>1
  <2> QED BY <2>2 DEF IsSequence
<1> QED BY <1>2, <1>3

LessThan == {p \in Nat \X Nat : p[1] < p[2]}

\* Every nonempty set of numbers has a smallest one.
LEMMA LessIsWellFounded == IsWellFoundedOn(LessThan, Nat)
<1>1. OpToRel(<, Nat) = LessThan
  BY DEF OpToRel, LessThan
<1> QED BY <1>1, NatLessThanWellFounded

\* A nonempty set of places has a last one.
LEMMA LargestExists ==
  ASSUME NEW n \in Nat, NEW T \in SUBSET (1 .. n), T # {}
  PROVE  \E m \in T : \A i \in T : i <= m
<1> DEFINE D == {n - i : i \in T}
<1>1. D \subseteq Nat
  <2>1. \A i \in T : n - i \in Nat
    OBVIOUS
  <2> QED BY <2>1
<1>5. D # {}
  OBVIOUS
<1> HIDE DEF D
<1>2. PICK d \in D : \A e \in D : <<e, d>> \notin LessThan
  BY <1>1, <1>5, LessIsWellFounded, WFMin
<1>3. PICK m \in T : d = n - m
  BY DEF D
<1>4. ASSUME NEW i \in T PROVE i <= m
  <2>1. n - i \in D /\ <<n - i, d>> \notin LessThan
    BY <1>2 DEF D
  <2> QED BY <1>1, <1>3, <2>1 DEF LessThan
<1> QED BY <1>4

-----------------------------------------------------------------------------
(* The files *)

\* What is in hand can be appended.
FilesInv ==
  /\ DOMAIN files = Kinds /\ \A k \in Kinds : IsSequence(files[k])
  /\ DOMAIN out = Procs /\ DOMAIN cut = Procs
  /\ \A p \in Procs :
       /\ IsSequence(out[p]) /\ cut[p] \in Nat
       /\ \A i \in DOMAIN out[p] : out[p][i].kind \in Kinds /\ IsSequence(out[p][i].recs)

\* The lists of batches that the pages give.
LEMMA BatchListIsSequence ==
  /\ IsSequence(<<>>)
  /\ \A a : IsSequence(<<a>>)
  /\ \A a, b, c : IsSequence(<<a, b, c>>)
BY DEF IsSequence, Range

\* Nothing is in the files or in hand at first.
LEMMA FilesStart == ScrapeInit => FilesInv
<1> SUFFICES ASSUME ScrapeInit PROVE FilesInv
  OBVIOUS
<1>1. IsSequence(<<>>) /\ DOMAIN <<>> = {}
  BY BatchListIsSequence
<1> QED BY <1>1 DEF ScrapeInit, StoreInit, FilesInv

\* Every page gives batches of sequences.
IsBatches(b) == IsSequence(b) /\ \A i \in DOMAIN b : b[i].kind \in Kinds /\ IsSequence(b[i].recs)

\* A batch of a sequence of records can be appended.
LEMMA OneBatch ==
  ASSUME NEW kind \in Kinds, NEW recs, IsSequence(recs)
  PROVE  IsBatches(<<Batch(kind, recs)>>)
BY BatchListIsSequence DEF IsBatches, Batch

\* What is numbered as the elements of a finite set is a sequence.
LEMMA NumberedIsSequence ==
  ASSUME NEW S, IsFiniteSet(S), NEW f, DOMAIN f = 1 .. Cardinality(S), f = [i \in DOMAIN f |-> f[i]]
  PROVE  IsSequence(f)
<1>1. Cardinality(S) \in Int
  BY FS_CardinalityType
<1> QED BY <1>1, ListIsSequence

\* So the records of a page are.
LEMMA RecordsAreSequences ==
  /\ IsSequence(PoorRaces)
  /\ \A r : IsSequence(Entries(r))
  /\ \A r : IsSequence([i \in 1 .. Cardinality(Horses) |-> Rec(r, i, "result")])
  /\ IsSequence([i \in 1 .. Cardinality(Races) |-> Rec(Nth(Races, i), 0, "payout")])
BY NumberedIsSequence, RacesAssumption DEF PoorRaces, Entries

\* A page gives batches or changes nothing in hand.
LEMMA PageGivesBatches ==
  ASSUME NEW q \in Procs,
         FetchList(q) \/ FetchDebaPage(q) \/ FetchOdds(q) \/ FetchResults(q) \/ FetchRefunds(q)
  PROVE  /\ files' = files /\ cut' = cut
         /\ out' = out \/ \E b : IsBatches(b) /\ out' = [out EXCEPT ![q] = b]
<1>0. IsBatches(<<>>)
  BY BatchListIsSequence DEF IsBatches
<1>1. CASE FetchList(q)
  <2>1. IsBatches(<<Batch("races", PoorRaces)>>)
    BY OneBatch, RecordsAreSequences DEF Kinds
  <2> QED BY <1>0, <1>1, <2>1 DEF FetchList, Full, Empty, Found
<1>2. CASE FetchDebaPage(q)
  <2> DEFINE r == Head(todo[q]).race
             e == Batch("race_entries", Entries(r))
             c == Batch("race_cards", <<Rec(r, 0, "card")>>)
             d == Batch("races", <<Rec(r, 0, "rich")>>)
  <2>1. IsBatches(<<e>>)
    BY OneBatch, RecordsAreSequences DEF Kinds
  <2>2. IsBatches(<<e, c, d>>)
    <3>1. IsSequence(e.recs) /\ IsSequence(c.recs) /\ IsSequence(d.recs)
      BY RecordsAreSequences, BatchListIsSequence DEF Batch
    <3>2. e.kind \in Kinds /\ c.kind \in Kinds /\ d.kind \in Kinds
      BY DEF Batch, Kinds
    <3> HIDE DEF e, c, d
    <3>3. \A i \in DOMAIN <<e, c, d>> : <<e, c, d>>[i] \in {e, c, d}
      OBVIOUS
    <3> QED BY <3>1, <3>2, <3>3, BatchListIsSequence DEF IsBatches
  <2>3. out' = [out EXCEPT ![q] = <<e, c, d>>] \/ out' = [out EXCEPT ![q] = <<e>>]
    BY <1>2 DEF FetchDebaPage, Full, Found
  <2>4. files' = files /\ cut' = cut
    BY <1>2 DEF FetchDebaPage
  <2> HIDE DEF e, c, d
  <2> QED BY <2>1, <2>2, <2>3, <2>4
<1>3. CASE FetchOdds(q)
  <2>1. PICK odds : \/ Full(q, <<Batch("odds_snapshots", <<odds>>)>>, <<>>)
                    \/ Empty(q)
    BY <1>3 DEF FetchOdds
  <2>2. IsBatches(<<Batch("odds_snapshots", <<odds>>)>>)
    BY OneBatch, BatchListIsSequence DEF Kinds
  <2> QED BY <1>0, <1>3, <2>1, <2>2 DEF FetchOdds, Full, Empty, Found
<1>4. CASE FetchResults(q)
  <2> DEFINE rows == [i \in 1 .. Cardinality(Horses) |-> Rec(Head(todo[q]).race, i, "result")]
  <2>1. IsBatches(<<Batch("race_results", rows)>>)
    BY OneBatch, RecordsAreSequences DEF Kinds
  <2>2. Full(q, <<Batch("race_results", rows)>>, <<>>) \/ Empty(q)
    BY <1>4 DEF FetchResults
  <2> HIDE DEF rows
  <2> QED BY <1>0, <1>4, <2>1, <2>2 DEF FetchResults, Full, Empty, Found
<1>5. CASE FetchRefunds(q)
  <2> DEFINE rows == [i \in 1 .. Cardinality(Races) |-> Rec(Nth(Races, i), 0, "payout")]
  <2>1. IsBatches(<<Batch("payouts", rows)>>)
    BY OneBatch, RecordsAreSequences DEF Kinds
  <2>2. Full(q, <<Batch("payouts", rows)>>, <<>>) \/ Empty(q) \/ out' = out
    BY <1>5 DEF FetchRefunds
  <2> HIDE DEF rows
  <2> QED BY <1>0, <1>5, <2>1, <2>2 DEF FetchRefunds, Full, Empty, Found
<1> QED BY <1>1, <1>2, <1>3, <1>4, <1>5

\* What an append adds to a file.
LEMMA AppendsAdd ==
  ASSUME FilesInv, NEW q \in Procs, Append1(q) \/ Append2(q)
  PROVE  /\ \E kind \in Kinds : \E s : IsSequence(s) /\ files' = [files EXCEPT ![kind] = @ \o s]
         /\ out' = out \/ (out[q] # <<>> /\ out' = [out EXCEPT ![q] = Tail(@)])
         /\ cut' = cut \/ \E i \in Nat : cut' = [cut EXCEPT ![q] = i]
<1> DEFINE b == Head(out[q])
           n == Len(b.recs)
<1>1. out[q] # <<>>
  BY DEF Append1, Append2
<1>2. 1 \in DOMAIN out[q] /\ b = out[q][1]
  BY <1>1, SequencesAreNumbered DEF FilesInv
<1>3. b.kind \in Kinds /\ IsSequence(b.recs)
  BY <1>2 DEF FilesInv
<1>4. n \in Nat /\ DOMAIN b.recs = 1 .. n
  BY <1>3, SequencesAreNumbered
<1> HIDE DEF b, n
<1>5. CASE AppendWhole(b.kind, b.recs, By(q)) /\ out' = [out EXCEPT ![q] = Tail(@)] /\ cut' = cut
  <2> DEFINE s == [i \in DOMAIN b.recs |-> Piece("line", b.recs[i], By(q))]
  <2>1. IsSequence(s)
    BY <1>4, ListIsSequence
  <2>2. files' = [files EXCEPT ![b.kind] = @ \o s]
    BY <1>5 DEF AppendWhole
  <2> HIDE DEF s
  <2> QED BY <1>1, <1>3, <1>5, <2>1, <2>2
<1>6. ASSUME NEW i \in DOMAIN b.recs, AppendHead(b.kind, b.recs, i, By(q)), cut' = [cut EXCEPT ![q] = i], out' = out
      PROVE  /\ \E kind \in Kinds : \E s : IsSequence(s) /\ files' = [files EXCEPT ![kind] = @ \o s]
             /\ \E j \in Nat : cut' = [cut EXCEPT ![q] = j]
  <2> DEFINE s == [j \in 1 .. i |-> Piece(IF j < i THEN "line" ELSE "head", b.recs[j], By(q))]
  <2>1. i \in Nat
    BY <1>4
  <2>2. IsSequence(s)
    BY <2>1, ListIsSequence
  <2>3. files' = [files EXCEPT ![b.kind] = @ \o s]
    BY <1>6 DEF AppendHead
  <2> HIDE DEF s
  <2> QED BY <1>3, <1>6, <2>1, <2>2, <2>3
<1>7. CASE AppendTail(b.kind, b.recs, cut[q], By(q)) /\ out' = [out EXCEPT ![q] = Tail(@)] /\ cut' = [cut EXCEPT ![q] = 0]
  <2> DEFINE m == Len(b.recs) - cut[q] + 1
             s == [j \in 1 .. m |-> Piece(IF j = 1 THEN "tail" ELSE "line", b.recs[cut[q] + j - 1], By(q))]
  <2>1. m \in Int
    BY <1>4 DEF FilesInv, n
  <2>2. IsSequence(s)
    BY <2>1, ListIsSequence
  <2>3. files' = [files EXCEPT ![b.kind] = @ \o s]
    BY <1>7 DEF AppendTail
  <2> HIDE DEF s
  <2> QED BY <1>1, <1>3, <1>7, <2>2, <2>3
<1>8. CASE Append1(q)
  BY <1>5, <1>6, <1>8 DEF Append1, b
<1>9. CASE Append2(q)
  BY <1>7, <1>9 DEF Append2, b
<1> QED BY <1>8, <1>9

\* All that the steps do to the files and to what is in hand.
LEMMA HandStep ==
  ASSUME FilesInv, [Next]_vars
  PROVE  /\ \/ files' = files
            \/ \E kind \in Kinds : \E s : IsSequence(s) /\ files' = [files EXCEPT ![kind] = @ \o s]
         /\ \/ out' = out
            \/ \E q \in Procs : \E b : IsBatches(b) /\ out' = [out EXCEPT ![q] = b]
            \/ \E q \in Procs : out[q] # <<>> /\ out' = [out EXCEPT ![q] = Tail(@)]
         /\ \/ cut' = cut
            \/ \E q \in Procs, i \in Nat : cut' = [cut EXCEPT ![q] = i]
<1>1. CASE Tick \/ SubmitScrape \/ RunScrape \/ RunCron \/ ExecuteItem \/ UNCHANGED vars
  BY <1>1 DEF Tick, SubmitScrape, RunScrape, RunCron, ExecuteItem, vars, jvars
<1>2. CASE \E q \in Procs : Step(q)
  <2> PICK q \in Procs : Step(q)
    BY <1>2
  <2>1. CASE FetchList(q) \/ FetchDebaPage(q) \/ FetchOdds(q) \/ FetchResults(q) \/ FetchRefunds(q)
    BY <2>1, PageGivesBatches
  <2>2. CASE Stamp(q) \/ FetchFails(q) \/ EndJob(q)
    BY <2>2 DEF Stamp, FetchFails, EndJob
  <2>3. CASE Append1(q) \/ Append2(q)
    BY <2>3, AppendsAdd
  <2> QED BY <2>1, <2>2, <2>3 DEF Step
<1>3. CASE \E q \in Procs : Kill(q)
  <2>1. IsBatches(<<>>) /\ 0 \in Nat
    BY BatchListIsSequence DEF IsBatches
  <2> QED BY <1>3, <2>1 DEF Kill
<1> QED BY <1>1, <1>2, <1>3 DEF Next

\* What is left in hand after a batch is appended.
LEMMA TailOfBatches ==
  ASSUME NEW s, IsBatches(s), s # <<>>
  PROVE  IsBatches(Tail(s))
<1>1. s \in Seq(Range(s)) /\ Tail(s) \in Seq(Range(s)) /\ Len(s) \in Nat /\ Len(s) # 0
      /\ DOMAIN s = 1 .. Len(s) /\ Len(Tail(s)) = Len(s) - 1
      /\ DOMAIN Tail(s) = 1 .. Len(s) - 1
      /\ \A i \in DOMAIN Tail(s) : Tail(s)[i] = s[i + 1]
  BY DEF IsBatches, IsSequence
<1>2. IsSequence(Tail(s))
  BY <1>1, TypedIsSequence
<1>3. \A i \in DOMAIN Tail(s) : i + 1 \in DOMAIN s
  BY <1>1
<1> QED BY <1>1, <1>2, <1>3 DEF IsBatches

\* Every step keeps what is in hand appendable.
LEMMA FilesStep == FilesInv /\ [Next]_vars => FilesInv'
<1> SUFFICES ASSUME FilesInv, [Next]_vars PROVE FilesInv'
  OBVIOUS
<1>1. DOMAIN files' = Kinds /\ \A k \in Kinds : IsSequence(files'[k])
  <2>1. CASE files' = files
    BY <2>1 DEF FilesInv
  <2>2. ASSUME NEW kind \in Kinds, NEW s, IsSequence(s), files' = [files EXCEPT ![kind] = @ \o s]
        PROVE  DOMAIN files' = Kinds /\ \A k \in Kinds : IsSequence(files'[k])
    BY <2>2, ConcatIsSequence DEF FilesInv
  <2> QED BY <2>1, <2>2, HandStep
<1>2. DOMAIN out' = Procs /\ \A p \in Procs : IsBatches(out'[p])
  <2>1. \A p \in Procs : IsBatches(out[p])
    BY DEF FilesInv, IsBatches
  <2>2. CASE out' = out
    BY <2>1, <2>2 DEF FilesInv
  <2>3. CASE \E q \in Procs : \E b : IsBatches(b) /\ out' = [out EXCEPT ![q] = b]
    BY <2>1, <2>3 DEF FilesInv
  <2>4. CASE \E q \in Procs : out[q] # <<>> /\ out' = [out EXCEPT ![q] = Tail(@)]
    BY <2>1, <2>4, TailOfBatches DEF FilesInv
  <2> QED BY <2>2, <2>3, <2>4, HandStep
<1>3. DOMAIN cut' = Procs /\ \A p \in Procs : cut'[p] \in Nat
  BY HandStep DEF FilesInv
<1> QED BY <1>1, <1>2, <1>3 DEF FilesInv, IsBatches

\* What is in hand can always be appended.
LEMMA FilesInvHolds == ScrapeSpec => []FilesInv
BY FilesStart, FilesStep, PTL DEF ScrapeSpec

-----------------------------------------------------------------------------
(* What an export shows *)

\* Whether a record can be read does not depend on what comes after it.
LEMMA ReadableStays ==
  ASSUME FilesInv, NEW kind \in Kinds, NEW s, IsSequence(s),
         files' = [files EXCEPT ![kind] = @ \o s]
  PROVE  \A i \in DOMAIN files[kind] :
           /\ i \in DOMAIN files'[kind] /\ files'[kind][i] = files[kind][i]
           /\ i \in Readable(kind)' <=> i \in Readable(kind)
<1> DEFINE f == files[kind]
           g == files'[kind]
<1>1. IsSequence(f) /\ g = f \o s /\ IsSequence(g)
  BY ConcatIsSequence DEF FilesInv
<1>2. Len(f) \in Nat /\ Len(g) \in Nat /\ DOMAIN f = 1 .. Len(f) /\ DOMAIN g = 1 .. Len(g) /\ Len(s) \in Nat
      /\ Len(g) = Len(f) + Len(s) /\ \A i \in 1 .. Len(f) : g[i] = f[i]
  BY <1>1, SequencesAreNumbered, ConcatIsSequence
<1> SUFFICES ASSUME NEW i \in DOMAIN f
             PROVE  i \in DOMAIN g /\ g[i] = f[i] /\ (i \in Readable(kind)' <=> i \in Readable(kind))
  OBVIOUS
<1>3. i \in DOMAIN g /\ g[i] = f[i] /\ (i > 1 => i - 1 \in DOMAIN f /\ g[i - 1] = f[i - 1])
  BY <1>2
<1>4. (i > 2 => g[i - 2] = f[i - 2]) /\ i \in Nat /\ i >= 1
  BY <1>2
<1>5. i = 1 \/ i > 1
  BY <1>4
<1>6. StartsLine(g, i) <=> StartsLine(f, i)
  BY <1>3, <1>5 DEF StartsLine
<1>7. i > 1 => (StartsLine(g, i - 1) <=> StartsLine(f, i - 1))
  <2> HAVE i > 1
  <2>1. i = 2 \/ i > 2
    BY <1>4
  <2>2. CASE i = 2
    BY <2>2 DEF StartsLine
  <2>3. CASE i > 2
    <3>1. (i - 1) - 1 = i - 2 /\ i - 1 # 1
      BY <1>4, <2>3
    <3> QED BY <1>4, <2>3, <3>1 DEF StartsLine
  <2> QED BY <2>1, <2>2, <2>3
<1>8. i \in Readable(kind) <=>
        /\ f[i].part # "head"
        /\ \/ f[i].part = "line" /\ StartsLine(f, i)
           \/ f[i].part = "tail" /\ i > 1 /\ f[i - 1] = Piece("head", f[i].rec, f[i].by) /\ StartsLine(f, i - 1)
  BY DEF Readable, Complete
<1>9. i \in Readable(kind)' <=>
        /\ g[i].part # "head"
        /\ \/ g[i].part = "line" /\ StartsLine(g, i)
           \/ g[i].part = "tail" /\ i > 1 /\ g[i - 1] = Piece("head", g[i].rec, g[i].by) /\ StartsLine(g, i - 1)
  BY <1>3 DEF Readable, Complete
<1> HIDE DEF f, g
<1> QED BY <1>3, <1>6, <1>7, <1>8, <1>9

\* Every record that can be read has a latest one of its key.
KeysHaveLatest ==
  \A k \in Kinds : \A i \in Readable(k) :
    \E m \in LatestAt(k) : m >= i /\ Key(k, files[k][m].rec) = Key(k, files[k][i].rec)

LEMMA LatestOfKey == FilesInv => KeysHaveLatest
<1> SUFFICES ASSUME FilesInv, NEW k \in Kinds, NEW i \in Readable(k)
             PROVE  \E m \in LatestAt(k) : m >= i /\ Key(k, files[k][m].rec) = Key(k, files[k][i].rec)
  BY DEF KeysHaveLatest
<1> DEFINE n == Len(files[k])
           T == {j \in Readable(k) : Key(k, files[k][j].rec) = Key(k, files[k][i].rec)}
<1>1. n \in Nat /\ DOMAIN files[k] = 1 .. n
  BY SequencesAreNumbered DEF FilesInv
<1>2. T \in SUBSET (1 .. n) /\ T # {}
  BY <1>1 DEF Readable, Complete
<1> HIDE DEF n
<1>3. PICK m \in T : \A j \in T : j <= m
  <2> HIDE DEF T
  <2> QED BY <1>1, <1>2, LargestExists
<1>4. m \in LatestAt(k)
  BY <1>3 DEF LatestAt
<1>5. i \in Int /\ m \in Int /\ i <= m
  BY <1>1, <1>2, <1>3
<1> QED BY <1>3, <1>4, <1>5

\* There is one of each key.
LEMMA LatestIsUnique ==
  FilesInv => \A k \in Kinds : \A i, j \in LatestAt(k) :
    Key(k, files[k][i].rec) = Key(k, files[k][j].rec) => i = j
<1> SUFFICES ASSUME FilesInv, NEW k \in Kinds, NEW i \in LatestAt(k), NEW j \in LatestAt(k),
                    Key(k, files[k][i].rec) = Key(k, files[k][j].rec)
             PROVE  i = j
  OBVIOUS
<1>1. i \in 1 .. Len(files[k]) /\ j \in 1 .. Len(files[k]) /\ Len(files[k]) \in Nat
  BY SequencesAreNumbered DEF FilesInv, LatestAt, Readable, Complete
<1>2. i <= j /\ j <= i
  BY DEF LatestAt
<1> QED BY <1>1, <1>2

\* So an export shows the place of the latest record of each key.
ShowsLatest ==
  \A k \in Kinds :
    /\ DOMAIN Shown(k) = {Key(k, files[k][i].rec) : i \in LatestAt(k)}
    /\ \A i \in LatestAt(k) : Shown(k)[Key(k, files[k][i].rec)] = i

LEMMA ShownIsLatest == FilesInv => ShowsLatest
<1> SUFFICES ASSUME FilesInv, NEW k \in Kinds
             PROVE  /\ DOMAIN Shown(k) = {Key(k, files[k][i].rec) : i \in LatestAt(k)}
                    /\ \A i \in LatestAt(k) : Shown(k)[Key(k, files[k][i].rec)] = i
  BY DEF ShowsLatest
<1>1. ASSUME NEW i \in LatestAt(k)
      PROVE  (CHOOSE j \in LatestAt(k) : Key(k, files[k][j].rec) = Key(k, files[k][i].rec)) = i
  BY LatestIsUnique
<1> QED BY <1>1 DEF Shown

\* A file that grows shows every key that it showed, with the same record or a later one.
LEMMA GrowthTakes ==
  ASSUME FilesInv, FilesInv', NEW kind \in Kinds, NEW s, IsSequence(s),
         files' = [files EXCEPT ![kind] = @ \o s]
  PROVE  /\ DOMAIN Shown(kind) \subseteq DOMAIN Shown(kind)'
         /\ \A key \in DOMAIN Shown(kind) : Shown(kind)'[key] >= Shown(kind)[key]
<1> SUFFICES ASSUME NEW key \in DOMAIN Shown(kind)
             PROVE  key \in DOMAIN Shown(kind)' /\ Shown(kind)'[key] >= Shown(kind)[key]
  OBVIOUS
<1>1. PICK old \in LatestAt(kind) : key = Key(kind, files[kind][old].rec)
  BY ShownIsLatest DEF ShowsLatest
<1>2. Shown(kind)[key] = old
  BY <1>1, ShownIsLatest DEF ShowsLatest
<1>3. old \in Readable(kind) /\ old \in DOMAIN files[kind]
  BY DEF LatestAt, Readable, Complete
<1>4. old \in Readable(kind)' /\ files'[kind][old] = files[kind][old]
  BY <1>3, ReadableStays
<1>5. KeysHaveLatest'
  BY LatestOfKey, PTL
<1>6. PICK m \in LatestAt(kind)' : m >= old /\ Key(kind, files'[kind][m].rec) = Key(kind, files'[kind][old].rec)
  BY <1>4, <1>5 DEF KeysHaveLatest, Key
<1>7. Key(kind, files'[kind][m].rec) = key
  BY <1>1, <1>4, <1>6
<1>8. ShowsLatest'
  BY ShownIsLatest, PTL
<1>9. key \in DOMAIN Shown(kind)' /\ Shown(kind)'[key] = m
  BY <1>7, <1>8 DEF ShowsLatest, Key
<1> QED BY <1>2, <1>6, <1>9

\* A kind whose file does not change shows the same.
LEMMA SameFileShowsSame ==
  ASSUME NEW k, files'[k] = files[k]
  PROVE  Shown(k)' = Shown(k)
<1>1. Complete(k)' = Complete(k)
  BY DEF Complete
<1>2. Readable(k)' = Readable(k)
  BY <1>1 DEF Readable
<1>3. LatestAt(k)' = LatestAt(k)
  BY <1>2 DEF LatestAt
<1> QED BY <1>3 DEF Shown

\* At first no export shows anything.
LEMMA StoreStart == ScrapeInit => Store!Init
<1> SUFFICES ASSUME ScrapeInit PROVE Store!Init
  OBVIOUS
<1>1. FilesInv
  BY FilesStart
<1>2. ASSUME NEW k \in LargeKinds PROVE Shown(k) = [key \in {} |-> 0]
  <2>1. k \in Kinds /\ files[k] = <<>> /\ DOMAIN <<>> = {}
    BY BatchListIsSequence DEF ScrapeInit, StoreInit, LargeKinds, Kinds
  <2>2. LatestAt(k) = {}
    BY <2>1 DEF LatestAt, Readable, Complete
  <2>3. Shown(k) = [key \in {} |-> CHOOSE i \in LatestAt(k) : Key(k, files[k][i].rec) = key]
    BY <2>2 DEF Shown
  <2> QED BY <2>3
<1> QED BY <1>2 DEF Store!Init

\* Every step takes records of one kind, or changes no export.
LEMMA StoreStep == FilesInv /\ FilesInv' /\ [Next]_vars => [Store!Next]_([k \in LargeKinds |-> Shown(k)])
<1> SUFFICES ASSUME FilesInv, FilesInv', [Next]_vars
             PROVE  [Store!Next]_([k \in LargeKinds |-> Shown(k)])
  OBVIOUS
<1>1. CASE files' = files
  BY <1>1, SameFileShowsSame
<1>2. ASSUME NEW kind \in Kinds, NEW s, IsSequence(s), files' = [files EXCEPT ![kind] = @ \o s]
      PROVE  [Store!Next]_([k \in LargeKinds |-> Shown(k)])
  <2>1. \A k \in Kinds \ {kind} : files'[k] = files[k]
    BY <1>2 DEF FilesInv
  <2>2. \A k \in Kinds \ {kind} : Shown(k)' = Shown(k)
    BY <2>1, SameFileShowsSame
  <2>3. LargeKinds \subseteq Kinds
    BY DEF LargeKinds, Kinds
  <2>4. CASE kind \in LargeKinds
    <3>1. /\ DOMAIN Shown(kind) \subseteq DOMAIN Shown(kind)'
          /\ \A key \in DOMAIN Shown(kind) : Shown(kind)'[key] >= Shown(kind)[key]
      BY <1>2, GrowthTakes
    <3> QED BY <2>2, <2>3, <2>4, <3>1 DEF Store!Next, Store!Take
  <2>5. CASE kind \notin LargeKinds
    BY <2>2, <2>3, <2>5
  <2> QED BY <2>4, <2>5
<1> QED BY <1>1, <1>2, HandStep

\* The files implement the abstract store, for any number of processes that
\* append to them in one write or two and die between the two.
THEOREM FilesImplementLatest == ScrapeSpec => ImplementsLatest
BY FilesInvHolds, StoreStart, StoreStep, PTL DEF ScrapeSpec, ImplementsLatest, Store!Spec

-----------------------------------------------------------------------------
(* What a torn line costs *)

\* Who has something in hand is active, and who has nothing has cut nothing.
HandInv ==
  /\ DOMAIN job = Procs /\ DOMAIN left = Procs
  /\ \A p \in Procs : (out[p] # <<>> => job[p] \in Active) /\ (out[p] = <<>> => cut[p] = 0)

\* A step that appends nothing: of one process, which has cut nothing then.
Keeps(r) == out'[r] = out[r] /\ cut'[r] = cut[r] /\ job'[r] = job[r] /\ left'[r] = left[r]
Quiet(q) ==
  /\ UNCHANGED <<files, torn>>
  /\ cut'[q] = 0 /\ (out'[q] = <<>> \/ job'[q] \in Active)
  /\ \A r \in Procs \ {q} : Keeps(r)
Rests == UNCHANGED <<files, torn, out, cut, job, left>>

\* A step rests, is quiet, or appends.
LEMMA StepIsQuietOrAppends ==
  ASSUME FilesInv, HandInv, [Next]_vars
  PROVE  /\ DOMAIN job' = Procs /\ DOMAIN left' = Procs
         /\ Rests \/ (\E q \in Procs : Quiet(q)) \/ (\E q \in Procs : Append1(q) \/ Append2(q))
<1>1. CASE Tick \/ UNCHANGED vars
  BY <1>1 DEF Tick, vars, jvars, Rests, HandInv
<1>2. CASE SubmitScrape
  <2>1. "manual" \in Procs /\ out["manual"] = <<>> /\ cut["manual"] = 0
    BY <1>2 DEF SubmitScrape, HandInv, Active, Procs
  <2>2. Quiet("manual")
    BY <1>2, <2>1 DEF SubmitScrape, Quiet, Keeps, HandInv
  <2> QED BY <1>2, <2>1, <2>2 DEF SubmitScrape, HandInv
<1>3. CASE RunScrape
  <2>1. "manual" \in Procs /\ out["manual"] = <<>> /\ cut["manual"] = 0
    BY <1>3 DEF RunScrape, HandInv, Active, Procs
  <2>2. Quiet("manual")
    BY <1>3, <2>1 DEF RunScrape, Begin, Quiet, Keeps, HandInv
  <2> QED BY <1>3, <2>1, <2>2 DEF RunScrape, Begin, HandInv
<1>4. CASE RunCron
  <2>1. "cron" \in Procs /\ out["cron"] = <<>> /\ cut["cron"] = 0
    BY <1>4 DEF RunCron, HandInv, Procs
  <2>2. Quiet("cron")
    BY <1>4, <2>1 DEF RunCron, Begin, Quiet, Keeps, HandInv
  <2> QED BY <1>4, <2>1, <2>2 DEF RunCron, Begin, HandInv
<1>5. CASE ExecuteItem
  <2>1. "scheduler" \in Procs /\ out["scheduler"] = <<>> /\ cut["scheduler"] = 0
    BY <1>5 DEF ExecuteItem, HandInv, Procs
  <2>2. /\ UNCHANGED <<files, torn, out, cut>>
        /\ job' = [job EXCEPT !["scheduler"] = "runs"] /\ left' = [left EXCEPT !["scheduler"] = @ - 1]
    BY <1>5 DEF ExecuteItem, Begin
  <2>3. Quiet("scheduler")
    BY <2>1, <2>2 DEF Quiet, Keeps, HandInv
  <2> QED BY <2>1, <2>2, <2>3 DEF HandInv
<1>6. ASSUME NEW q \in Procs, FetchList(q) \/ FetchDebaPage(q) \/ FetchOdds(q) \/ FetchResults(q) \/ FetchRefunds(q)
      PROVE  /\ DOMAIN job' = Procs /\ DOMAIN left' = Procs
             /\ Quiet(q)
  <2>1. out[q] = <<>> /\ cut[q] = 0 /\ job[q] = "runs"
    BY <1>6 DEF FetchList, FetchDebaPage, FetchOdds, FetchResults, FetchRefunds, Ready, HandInv
  <2>2. cut' = cut /\ files' = files /\ (out' = out \/ \E b : out' = [out EXCEPT ![q] = b])
    BY <1>6, PageGivesBatches
  <2>3. torn' = torn /\ left' = left /\ (job' = job \/ job' = [job EXCEPT ![q] = "raises"])
    BY <1>6 DEF FetchList, FetchDebaPage, FetchOdds, FetchResults, FetchRefunds
  <2> QED BY <2>1, <2>2, <2>3 DEF Quiet, Keeps, HandInv, FilesInv, Active
<1>7. ASSUME NEW q \in Procs, FetchFails(q) \/ EndJob(q)
      PROVE  DOMAIN job' = Procs /\ DOMAIN left' = Procs /\ Quiet(q)
  BY <1>7 DEF FetchFails, EndJob, Quiet, Keeps, HandInv
<1>8. ASSUME NEW q \in Procs, Stamp(q)
      PROVE  DOMAIN job' = Procs /\ DOMAIN left' = Procs /\ Rests
  BY <1>8 DEF Stamp, Rests, HandInv
<1>9. ASSUME NEW q \in Procs, Kill(q)
      PROVE  DOMAIN job' = Procs /\ DOMAIN left' = Procs /\ Quiet(q)
  BY <1>9 DEF Kill, Quiet, Keeps, HandInv, FilesInv
<1>10. ASSUME NEW q \in Procs, Append1(q) \/ Append2(q)
       PROVE  DOMAIN job' = Procs /\ DOMAIN left' = Procs
  BY <1>10 DEF Append1, Append2, HandInv
<1> QED BY <1>1, <1>2, <1>3, <1>4, <1>5, <1>6, <1>7, <1>8, <1>9, <1>10 DEF Next, Step

\* At first nobody has anything in hand.
LEMMA HandStart == ScrapeInit => HandInv
BY BoundsAssumption DEF ScrapeInit, HandInv

\* Every step keeps that.
LEMMA HandInvStep == FilesInv /\ HandInv /\ [Next]_vars => HandInv'
<1> SUFFICES ASSUME FilesInv, HandInv, [Next]_vars, NEW p \in Procs
             PROVE  (out'[p] # <<>> => job'[p] \in Active) /\ (out'[p] = <<>> => cut'[p] = 0)
  BY StepIsQuietOrAppends DEF HandInv
<1>1. CASE Rests
  BY <1>1 DEF Rests, HandInv
<1>2. CASE \E q \in Procs : Quiet(q)
  BY <1>2 DEF Quiet, Keeps, HandInv
<1>3. ASSUME NEW q \in Procs, Append1(q)
      PROVE  (out'[p] # <<>> => job'[p] \in Active) /\ (out'[p] = <<>> => cut'[p] = 0)
  <2>1. job' = job /\ out[q] # <<>> /\ cut[q] = 0
    BY <1>3 DEF Append1
  <2>2. (out' = [out EXCEPT ![q] = Tail(@)] /\ cut' = cut) \/ (out' = out /\ \E i : cut' = [cut EXCEPT ![q] = i])
    BY <1>3 DEF Append1
  <2> QED BY <2>1, <2>2 DEF HandInv, FilesInv
<1>4. ASSUME NEW q \in Procs, Append2(q)
      PROVE  (out'[p] # <<>> => job'[p] \in Active) /\ (out'[p] = <<>> => cut'[p] = 0)
  BY <1>4 DEF Append2, HandInv, FilesInv
<1> QED BY <1>1, <1>2, <1>3, <1>4, StepIsQuietOrAppends

\* The complete records that cannot be read, and the writers between their two
\* writes, of which the second will not fit the first any more.
Lost(k) == Complete(k) \ Readable(k)
Pending(k) == {p \in Procs : cut[p] # 0 /\ Head(out[p]).kind = k}
Fits(p, k) ==
  /\ Glued(k) /\ StartsLine(files[k], Len(files[k]))
  /\ Last(files[k]) = Piece("head", Head(out[p]).recs[cut[p]], By(p))
Doomed(k) == {p \in Pending(k) : ~Fits(p, k)}

\* A tear costs two records: those that are lost, or that will be.
LossInv ==
  torn \in Nat /\ \A k \in Kinds : Cardinality(Lost(k)) + Cardinality(Doomed(k)) <= 2 * torn

\* The sets that are counted are finite.
LEMMA FiniteLosses ==
  FilesInv => \A k \in Kinds :
    /\ IsFiniteSet(Lost(k)) /\ Cardinality(Lost(k)) \in Nat
    /\ IsFiniteSet(Doomed(k)) /\ Cardinality(Doomed(k)) \in Nat
    /\ IsFiniteSet(Pending(k))
<1> SUFFICES ASSUME FilesInv, NEW k \in Kinds
             PROVE  IsFiniteSet(Lost(k)) /\ IsFiniteSet(Doomed(k)) /\ IsFiniteSet(Pending(k))
  BY FS_CardinalityType
<1>1. Lost(k) \subseteq 1 .. Len(files[k]) /\ Len(files[k]) \in Nat
  BY SequencesAreNumbered DEF FilesInv, Lost, Complete
<1>2. IsFiniteSet(1 .. Len(files[k]))
  BY <1>1, FS_Interval
<1>3. IsFiniteSet(Procs)
  <2>1. Procs = {"manual", "cron", "scheduler"}
    BY DEF Procs
  <2>2. IsFiniteSet({}) /\ {"manual"} = {} \cup {"manual"}
    BY FS_EmptySet
  <2>3. IsFiniteSet({"manual"})
    BY <2>2, FS_AddElement
  <2>4. IsFiniteSet({"manual"} \cup {"cron"})
    BY <2>3, FS_AddElement
  <2>5. IsFiniteSet(({"manual"} \cup {"cron"}) \cup {"scheduler"})
    BY <2>4, FS_AddElement
  <2>6. ({"manual"} \cup {"cron"}) \cup {"scheduler"} = Procs
    BY <2>1
  <2> QED BY <2>5, <2>6
<1>4. Pending(k) \subseteq Procs /\ Doomed(k) \subseteq Procs
  BY DEF Pending, Doomed
<1> QED BY <1>1, <1>2, <1>3, <1>4, FS_Subset

\* One more element is one more at most, one less is one less.
LEMMA OneMore ==
  ASSUME NEW S, NEW T, NEW x, IsFiniteSet(S), T \subseteq S \cup {x}
  PROVE  IsFiniteSet(T) /\ Cardinality(T) \in Nat /\ Cardinality(S) \in Nat /\ Cardinality(T) <= Cardinality(S) + 1
<1>1. IsFiniteSet(S \cup {x}) /\ Cardinality(S \cup {x}) <= Cardinality(S) + 1 /\ Cardinality(S) \in Nat
  BY FS_AddElement, FS_CardinalityType
<1>2. IsFiniteSet(T) /\ Cardinality(T) <= Cardinality(S \cup {x})
  BY <1>1, FS_Subset
<1>3. Cardinality(T) \in Nat /\ Cardinality(S \cup {x}) \in Nat
  BY <1>1, <1>2, FS_CardinalityType
<1> QED BY <1>1, <1>2, <1>3

\* A part of a finite set has no more elements.
LEMMA NoMore ==
  ASSUME NEW S, NEW T, IsFiniteSet(S), T \subseteq S
  PROVE  IsFiniteSet(T) /\ Cardinality(T) \in Nat /\ Cardinality(S) \in Nat /\ Cardinality(T) <= Cardinality(S)
BY FS_Subset, FS_CardinalityType

\* Without one of its elements it has one less at least.
LEMMA OneLess ==
  ASSUME NEW S, NEW T, NEW x \in S, IsFiniteSet(S), T \subseteq S \ {x}
  PROVE  Cardinality(T) \in Nat /\ Cardinality(S) \in Nat /\ Cardinality(T) + 1 <= Cardinality(S)
<1>1. IsFiniteSet(S \ {x}) /\ Cardinality(S \ {x}) = Cardinality(S) - 1 /\ Cardinality(S) \in Nat
  BY FS_RemoveElement, FS_CardinalityType
<1>2. Cardinality(T) \in Nat /\ Cardinality(T) <= Cardinality(S \ {x})
  BY <1>1, NoMore
<1> QED BY <1>1, <1>2

\* Where no head ends the file, no pending tail fits; where one does, its writer's.
LEMMA WhoFits ==
  ASSUME FilesInv, NEW k \in Kinds
  PROVE  /\ ~Glued(k) => Pending(k) = Doomed(k)
         /\ Pending(k) \subseteq Doomed(k) \cup {Last(files[k]).by[1]}
         /\ \A q \in Procs : Glued(k) /\ Last(files[k]).by = By(q) => Pending(k) \ {q} \subseteq Doomed(k)
<1>1. \A q \in Procs : Fits(q, k) => Glued(k) /\ Last(files[k]).by = <<q, left[q]>>
  BY DEF Fits, By, Piece
<1> QED BY <1>1 DEF Pending, Doomed, By

\* Of what is appended only the first piece may be lost, and a line only if it is
\* glued to a head.
LEMMA FirstIsLost ==
  ASSUME FilesInv, NEW kind \in Kinds, NEW s, IsSequence(s),
         files' = [files EXCEPT ![kind] = @ \o s],
         \A i \in DOMAIN s : i > 1 => s[i - 1].part # "head" /\ s[i].part \in {"line", "head"}
  PROVE  /\ Lost(kind)' \subseteq Lost(kind) \cup {Len(files[kind]) + 1}
         /\ (s = <<>> \/ s[1].part = "head" \/ (s[1].part = "line" /\ ~Glued(kind))) =>
              Lost(kind)' \subseteq Lost(kind)
<1> DEFINE f == files[kind]
           n == Len(f)
           g == files'[kind]
<1>1. IsSequence(f) /\ g = f \o s /\ IsSequence(g)
  BY ConcatIsSequence DEF FilesInv
<1>2. n \in Nat /\ Len(g) \in Nat /\ DOMAIN f = 1 .. n /\ DOMAIN g = 1 .. Len(g) /\ Len(s) \in Nat
      /\ Len(g) = n + Len(s) /\ DOMAIN s = 1 .. Len(s)
      /\ (\A i \in 1 .. n : g[i] = f[i]) /\ \A i \in 1 .. Len(s) : g[n + i] = s[i]
  BY <1>1, SequencesAreNumbered, ConcatIsSequence
<1>3. ASSUME NEW i \in Lost(kind)', i \notin Lost(kind)
      PROVE  i \in n + 1 .. n + Len(s)
  <2>1. i \in 1 .. n + Len(s) /\ g[i].part # "head" /\ i \notin Readable(kind)'
    BY <1>2, <1>3 DEF Lost, Complete
  <2>2. i \notin 1 .. n
    BY <1>2, <1>3, <2>1, ReadableStays DEF Lost, Complete
  <2> QED BY <1>2, <2>1, <2>2
<1>4. ASSUME NEW i \in Lost(kind)'
      PROVE  /\ g[i].part # "head"
             /\ g[i].part = "line" => ~StartsLine(g, i)
  BY <1>4 DEF Lost, Complete, Readable
<1>5. ASSUME NEW i \in Lost(kind)', i \notin Lost(kind), i # n + 1
      PROVE  FALSE
  <2>1. i \in n + 1 .. n + Len(s)
    BY <1>3, <1>5
  <2>2. i - n \in DOMAIN s /\ i - n > 1 /\ g[i] = s[i - n] /\ g[i - 1] = s[i - n - 1]
    <3> HIDE DEF n, g
    <3>1. i - n \in 1 .. Len(s) /\ i - n > 1 /\ i - n - 1 \in 1 .. Len(s)
      BY <1>2, <1>5, <2>1
    <3>2. n + (i - n) = i /\ n + (i - n - 1) = i - 1
      BY <1>2, <2>1
    <3> QED BY <1>2, <3>1, <3>2
  <2>3. g[i - 1].part # "head" /\ g[i].part \in {"line", "head"}
    BY <2>2
  <2> QED BY <1>4, <2>3 DEF StartsLine
<1>6. ASSUME s = <<>> \/ s[1].part = "head" \/ (s[1].part = "line" /\ ~Glued(kind)),
             n + 1 \in Lost(kind)', n + 1 \notin Lost(kind)
      PROVE  FALSE
  <2>1. Len(s) # 0 /\ s # <<>>
    BY <1>2, <1>3, <1>6, SequencesAreNumbered
  <2>2. g[n + 1] = s[1]
    BY <1>2, <2>1
  <2>3. s[1].part = "line" /\ ~StartsLine(g, n + 1) /\ ~Glued(kind)
    BY <1>4, <1>6, <2>1, <2>2
  <2>4. n + 1 # 1 /\ g[(n + 1) - 1].part = "head"
    BY <2>3 DEF StartsLine
  <2>5. n \in 1 .. n /\ (n + 1) - 1 = n
    BY <1>2, <2>4
  <2>6. f[n].part = "head" /\ f # <<>>
    BY <1>2, <2>4, <2>5
  <2> QED BY <2>3, <2>6 DEF Glued, Last
<1> QED BY <1>5, <1>6

\* The tail of a process that keeps what it has in hand fits as long as its file does not change.
LEMMA DoomedStays ==
  ASSUME NEW k, NEW r \in Procs, files'[k] = files[k], out'[r] = out[r], cut'[r] = cut[r], left'[r] = left[r]
  PROVE  r \in Doomed(k)' <=> r \in Doomed(k)
BY DEF Doomed, Pending, Fits, Glued, By

\* A file that does not change loses nothing.
LEMMA SameFileLosesSame ==
  ASSUME NEW k, files'[k] = files[k]
  PROVE  Lost(k)' = Lost(k)
BY DEF Lost, Readable, Complete

\* The kinds of which no process appends lose nothing.
LEMMA OtherKindsLoseNothing ==
  ASSUME FilesInv, NEW q \in Procs, NEW k \in Kinds, k # Head(out[q]).kind,
         files'[k] = files[k], left' = left, \A r \in Procs \ {q} : out'[r] = out[r] /\ cut'[r] = cut[r],
         out'[q] = out[q] \/ cut'[q] = 0
  PROVE  Lost(k)' = Lost(k) /\ Doomed(k)' \subseteq Doomed(k)
<1>1. q \notin Pending(k)'
  BY DEF Pending
<1>2. ASSUME NEW r \in Doomed(k)' PROVE r \in Doomed(k)
  <2>1. r \in Procs /\ r # q
    BY <1>1, <1>2 DEF Doomed, Pending
  <2> QED BY <1>2, <2>1, DoomedStays
<1> QED BY <1>2, SameFileLosesSame

\* The process that appends has nothing pending after a write that is not cut.
LEMMA PendingAfter ==
  ASSUME NEW q \in Procs, NEW k \in Kinds,
         \A r \in Procs \ {q} : out'[r] = out[r] /\ cut'[r] = cut[r]
  PROVE  /\ Pending(k)' \subseteq Pending(k) \cup {q}
         /\ cut'[q] = 0 => Pending(k)' \subseteq Pending(k) \ {q}
         /\ Doomed(k)' \subseteq Pending(k)'
BY DEF Pending, Doomed

Bound(k) == Cardinality(Lost(k)) + Cardinality(Doomed(k)) <= 2 * torn

\* A batch in one write.
LEMMA WholeLoses ==
  ASSUME FilesInv, HandInv, LossInv, NEW q \in Procs, NEW kind \in Kinds, kind = Head(out[q]).kind,
         NEW recs, IsSequence(recs), AppendWhole(kind, recs, By(q)), cut[q] = 0, cut' = cut,
         out' = [out EXCEPT ![q] = Tail(@)],
         torn' = IF Glued(kind) THEN torn + 1 ELSE torn
  PROVE  Bound(kind)'
<1> DEFINE s == [i \in DOMAIN recs |-> Piece("line", recs[i], By(q))]
<1>1. IsSequence(s) /\ (s = <<>> \/ s[1].part = "line")
  <2>1. Len(recs) \in Nat /\ DOMAIN recs = 1 .. Len(recs)
    BY SequencesAreNumbered
  <2>2. IsSequence(s)
    BY <2>1, ListIsSequence
  <2>3. s # <<>> => 1 \in DOMAIN s
    BY <2>2, SequencesAreNumbered
  <2> QED BY <2>2, <2>3 DEF Piece
<1>2. \A i \in DOMAIN s : i > 1 => s[i - 1].part # "head" /\ s[i].part \in {"line", "head"}
  <2>1. \A i \in DOMAIN s : s[i].part = "line"
    BY DEF Piece
  <2>2. \A i \in DOMAIN s : i > 1 => i - 1 \in DOMAIN s
    BY <1>1, SequencesAreNumbered
  <2> QED BY <2>1, <2>2
<1>3. files' = [files EXCEPT ![kind] = @ \o s]
  BY DEF AppendWhole
<1> HIDE DEF s
<1>4. /\ Lost(kind)' \subseteq Lost(kind) \cup {Len(files[kind]) + 1}
      /\ ~Glued(kind) => Lost(kind)' \subseteq Lost(kind)
  BY <1>1, <1>2, <1>3, FirstIsLost
<1>5. Doomed(kind)' \subseteq Pending(kind)
  BY PendingAfter DEF FilesInv
<1>6. IsFiniteSet(Lost(kind)) /\ IsFiniteSet(Doomed(kind)) /\ torn \in Nat /\ Bound(kind)
  BY FiniteLosses DEF LossInv, Bound
<1>7. CASE ~Glued(kind)
  <2>1. Doomed(kind)' \subseteq Doomed(kind) /\ Lost(kind)' \subseteq Lost(kind) /\ torn' = torn
    BY <1>4, <1>5, <1>7, WhoFits
  <2>2. /\ Cardinality(Lost(kind)') <= Cardinality(Lost(kind))
        /\ Cardinality(Doomed(kind)') <= Cardinality(Doomed(kind))
        /\ Cardinality(Lost(kind)) \in Nat /\ Cardinality(Doomed(kind)) \in Nat
        /\ Cardinality(Lost(kind)') \in Nat /\ Cardinality(Doomed(kind)') \in Nat
    BY <1>6, <2>1, NoMore
  <2> QED BY <1>6, <2>1, <2>2 DEF Bound
<1>8. CASE Glued(kind)
  <2>1. Doomed(kind)' \subseteq Doomed(kind) \cup {Last(files[kind]).by[1]} /\ torn' = torn + 1
    BY <1>5, <1>8, WhoFits
  <2>2. /\ Cardinality(Lost(kind)') <= Cardinality(Lost(kind)) + 1
        /\ Cardinality(Doomed(kind)') <= Cardinality(Doomed(kind)) + 1
        /\ Cardinality(Lost(kind)) \in Nat /\ Cardinality(Doomed(kind)) \in Nat
        /\ Cardinality(Lost(kind)') \in Nat /\ Cardinality(Doomed(kind)') \in Nat
    BY <1>4, <1>6, <2>1, OneMore
  <2> QED BY <1>6, <2>1, <2>2 DEF Bound
<1> QED BY <1>7, <1>8

\* The first write of a large batch.
LEMMA HeadLoses ==
  ASSUME FilesInv, HandInv, LossInv, NEW q \in Procs, NEW kind \in Kinds, kind = Head(out[q]).kind,
         NEW recs, IsSequence(recs), recs = Head(out[q]).recs,
         NEW i \in DOMAIN recs, AppendHead(kind, recs, i, By(q)), cut[q] = 0, cut' = [cut EXCEPT ![q] = i],
         out' = out, left' = left,
         torn' = IF Glued(kind) THEN torn + 1 ELSE torn
  PROVE  Bound(kind)'
<1> DEFINE s == [j \in 1 .. i |-> Piece(IF j < i THEN "line" ELSE "head", recs[j], By(q))]
           f == files[kind]
           n == Len(f)
           g == files'[kind]
<1>1. i \in Nat /\ i >= 1
  BY SequencesAreNumbered
<1>2. IsSequence(s) /\ DOMAIN s = 1 .. i /\ Len(s) = i
  <2>1. IsSequence(s)
    BY <1>1, ListIsSequence
  <2>2. DOMAIN s = 1 .. i
    OBVIOUS
  <2> HIDE DEF s
  <2> QED BY <1>1, <2>1, <2>2 DEF IsSequence
<1>3. /\ \A j \in 1 .. i : j < i => s[j].part = "line"
      /\ s[i] = Piece("head", recs[i], By(q)) /\ s[i].part = "head"
  BY <1>1 DEF Piece
<1>4. files' = [files EXCEPT ![kind] = @ \o s]
  BY DEF AppendHead
<1> HIDE DEF s
<1>5. \A j \in DOMAIN s : j > 1 => s[j - 1].part # "head" /\ s[j].part \in {"line", "head"}
  <2>1. ASSUME NEW j \in DOMAIN s, j > 1 PROVE s[j - 1].part = "line" /\ s[j].part \in {"line", "head"}
    <3>1. j \in 1 .. i /\ j - 1 \in 1 .. i /\ j - 1 < i
      BY <1>1, <1>2, <2>1
    <3>2. j = i \/ j < i
      BY <1>1, <3>1
    <3> QED BY <1>3, <3>1, <3>2
  <2> QED BY <2>1
<1>6. /\ Lost(kind)' \subseteq Lost(kind) \cup {n + 1}
      /\ s[1].part = "head" \/ ~Glued(kind) => Lost(kind)' \subseteq Lost(kind)
  <2>1. s[1].part = "head" \/ s[1].part = "line"
    BY <1>1, <1>3
  <2> QED BY <1>2, <1>4, <1>5, <2>1, FirstIsLost
<1>7. Doomed(kind)' \subseteq Pending(kind) \cup {q}
  BY PendingAfter DEF FilesInv
<1>8. IsFiniteSet(Lost(kind)) /\ IsFiniteSet(Doomed(kind)) /\ torn \in Nat /\ Bound(kind)
  BY FiniteLosses DEF LossInv, Bound
\* Its tail is doomed only if the head is itself glued to a head.
<1>9. ASSUME i > 1 \/ ~Glued(kind) PROVE q \notin Doomed(kind)'
  <2>1. /\ IsSequence(f) /\ IsSequence(g) /\ g = f \o s
        /\ n \in Nat /\ DOMAIN f = 1 .. n
        /\ Len(g) = n + i /\ (\A j \in 1 .. n : g[j] = f[j])
        /\ \A j \in 1 .. i : g[n + j] = s[j]
    <3>1. IsSequence(f) /\ g = f \o s
      BY <1>4 DEF FilesInv
    <3> HIDE DEF f, g
    <3>2. n \in Nat /\ DOMAIN f = 1 .. n
      BY <3>1, SequencesAreNumbered
    <3>3. IsSequence(g) /\ Len(g) = n + Len(s) /\ (\A j \in 1 .. n : g[j] = f[j])
          /\ \A j \in 1 .. Len(s) : g[n + j] = s[j]
      <4>1. IsSequence(f) /\ IsSequence(s)
        BY <1>2, <3>1
      <4>2. /\ IsSequence(f \o s) /\ Len(f \o s) = Len(f) + Len(s)
            /\ \A j \in 1 .. Len(f) : (f \o s)[j] = f[j]
            /\ \A j \in 1 .. Len(s) : (f \o s)[Len(f) + j] = s[j]
        BY <4>1, ConcatIsSequence
      <4> QED BY <3>1, <4>2
    <3> QED BY <1>2, <3>1, <3>2, <3>3
  <2> HIDE DEF f, n, g
  <2>2. i \in 1 .. i /\ g[n + i] = Piece("head", recs[i], By(q))
    BY <1>1, <1>3, <2>1
  <2>3. g # <<>> /\ Last(g) = Piece("head", recs[i], By(q)) /\ Last(g).part = "head"
    <3>1. Len(g) # 0
      BY <1>1, <2>1
    <3> QED BY <2>1, <2>2, <3>1, SequencesAreNumbered DEF Last, Piece
  <2>4. StartsLine(g, Len(g))
    <3>1. CASE i > 1
      <4>1. i - 1 \in 1 .. i /\ n + (i - 1) = (n + i) - 1 /\ i - 1 < i
        BY <1>1, <2>1, <3>1
      <4>2. g[Len(g) - 1] = s[i - 1] /\ s[i - 1].part = "line"
        BY <1>3, <2>1, <4>1
      <4> QED BY <4>2 DEF StartsLine
    <3>2. CASE i = 1
      <4>1. Len(g) = n + 1 /\ (n + 1) - 1 = n
        BY <2>1, <3>2
      <4>2. CASE n = 0
        BY <4>1, <4>2 DEF StartsLine
      <4>3. CASE n # 0
        <5>1. n \in 1 .. n /\ g[n] = f[n] /\ f # <<>>
          BY <2>1, <4>3, SequencesAreNumbered
        <5>2. f[n].part # "head"
          BY <1>9, <3>2, <5>1 DEF Glued, Last, f, n
        <5> QED BY <4>1, <5>1, <5>2 DEF StartsLine
      <4> QED BY <4>2, <4>3
    <3> QED BY <1>1, <3>1, <3>2
  <2>5. Fits(q, kind)'
    BY <2>3, <2>4 DEF Fits, Glued, By, FilesInv, g
  <2> QED BY <2>5 DEF Doomed
<1> HIDE DEF f, n, g
<1>10. CASE ~Glued(kind)
  <2>1. Doomed(kind)' \subseteq Doomed(kind) /\ Lost(kind)' \subseteq Lost(kind) /\ torn' = torn
    BY <1>6, <1>7, <1>9, <1>10, WhoFits
  <2>2. /\ Cardinality(Lost(kind)') <= Cardinality(Lost(kind))
        /\ Cardinality(Doomed(kind)') <= Cardinality(Doomed(kind))
        /\ Cardinality(Lost(kind)) \in Nat /\ Cardinality(Doomed(kind)) \in Nat
        /\ Cardinality(Lost(kind)') \in Nat /\ Cardinality(Doomed(kind)') \in Nat
    BY <1>8, <2>1, NoMore
  <2> QED BY <1>8, <2>1, <2>2 DEF Bound
<1>11. CASE Glued(kind) /\ i > 1
  <2>1. Doomed(kind)' \subseteq Doomed(kind) \cup {Last(files[kind]).by[1]} /\ torn' = torn + 1
    BY <1>7, <1>9, <1>11, WhoFits
  <2>2. Cardinality(Lost(kind)') <= Cardinality(Lost(kind)) + 1
        /\ Cardinality(Lost(kind)) \in Nat /\ Cardinality(Lost(kind)') \in Nat
    BY <1>6, <1>8, OneMore
  <2>3. Cardinality(Doomed(kind)') <= Cardinality(Doomed(kind)) + 1
        /\ Cardinality(Doomed(kind)) \in Nat /\ Cardinality(Doomed(kind)') \in Nat
    BY <1>8, <2>1, OneMore
  <2> QED BY <1>8, <2>1, <2>2, <2>3 DEF Bound
<1>12. CASE Glued(kind) /\ i = 1
  <2> DEFINE D == Doomed(kind) \cup {Last(files[kind]).by[1]}
  <2>1. Doomed(kind)' \subseteq D \cup {q} /\ Lost(kind)' \subseteq Lost(kind) /\ torn' = torn + 1
    BY <1>3, <1>6, <1>7, <1>12, WhoFits
  <2>2. IsFiniteSet(D) /\ Cardinality(D) <= Cardinality(Doomed(kind)) + 1
        /\ Cardinality(D) \in Nat /\ Cardinality(Doomed(kind)) \in Nat
    BY <1>8, OneMore
  <2> HIDE DEF D
  <2>3. Cardinality(Doomed(kind)') <= Cardinality(D) + 1 /\ Cardinality(Doomed(kind)') \in Nat
    BY <2>1, <2>2, OneMore
  <2>4. /\ Cardinality(Lost(kind)') <= Cardinality(Lost(kind))
        /\ Cardinality(Lost(kind)) \in Nat /\ Cardinality(Lost(kind)') \in Nat
    BY <1>8, <2>1, NoMore
  <2> QED BY <1>8, <2>1, <2>2, <2>3, <2>4 DEF Bound
<1> QED BY <1>1, <1>10, <1>11, <1>12

\* The second write.
LEMMA TailLoses ==
  ASSUME FilesInv, HandInv, LossInv, NEW q \in Procs, NEW kind \in Kinds, kind = Head(out[q]).kind,
         NEW recs, IsSequence(recs), recs = Head(out[q]).recs,
         AppendTail(kind, recs, cut[q], By(q)), cut[q] # 0, cut' = [cut EXCEPT ![q] = 0],
         out' = [out EXCEPT ![q] = Tail(@)],
         torn' = IF Glued(kind) /\ Last(files[kind]).by # By(q) THEN torn + 1 ELSE torn
  PROVE  Bound(kind)'
<1> DEFINE c == cut[q]
           m == Len(recs) - c + 1
           s == [j \in 1 .. m |-> Piece(IF j = 1 THEN "tail" ELSE "line", recs[c + j - 1], By(q))]
           f == files[kind]
           n == Len(f)
           g == files'[kind]
<1>1. c \in Nat /\ m \in Int
  BY SequencesAreNumbered DEF FilesInv
<1> HIDE DEF m
<1>2. IsSequence(s) /\ DOMAIN s = 1 .. m
  BY <1>1, ListIsSequence
<1>3. \A j \in DOMAIN s : s[j] = Piece(IF j = 1 THEN "tail" ELSE "line", recs[c + j - 1], By(q))
  OBVIOUS
<1>4. files' = [files EXCEPT ![kind] = @ \o s]
  BY DEF AppendTail, m
<1> HIDE DEF s, c
<1>5. \A j \in DOMAIN s : j > 1 => s[j - 1].part # "head" /\ s[j].part \in {"line", "head"}
  <2>1. \A j \in DOMAIN s : s[j].part = (IF j = 1 THEN "tail" ELSE "line")
    BY <1>3 DEF Piece
  <2>2. \A j \in DOMAIN s : j > 1 => j - 1 \in DOMAIN s
    BY <1>1, <1>2
  <2> QED BY <2>1, <2>2
<1>6. Lost(kind)' \subseteq Lost(kind) \cup {n + 1}
  BY <1>2, <1>4, <1>5, FirstIsLost
<1>7. Doomed(kind)' \subseteq Pending(kind) \ {q}
  BY PendingAfter DEF FilesInv
<1>8. q \in Pending(kind)
  BY DEF Pending
<1>9. IsFiniteSet(Lost(kind)) /\ IsFiniteSet(Doomed(kind)) /\ torn \in Nat /\ Bound(kind)
  BY FiniteLosses DEF LossInv, Bound
\* The tail completes the head that ends the file, if that is its own.
<1>10. ASSUME Fits(q, kind) PROVE n + 1 \notin Lost(kind)'
  <2> SUFFICES ASSUME n + 1 \in DOMAIN g PROVE n + 1 \in Readable(kind)'
    BY DEF Lost, Complete
  <2>1. IsSequence(f) /\ g = f \o s
    BY <1>4 DEF FilesInv
  <2>2. f # <<>> /\ StartsLine(f, n) /\ f[n] = Piece("head", recs[c], By(q))
    BY <1>10 DEF Fits, Glued, Last, c
  <2> HIDE DEF f, g
  <2>3. n \in Nat /\ n >= 1 /\ Len(s) \in Nat /\ DOMAIN s = 1 .. Len(s)
    BY <1>2, <2>1, <2>2, SequencesAreNumbered
  <2>4. /\ IsSequence(f \o s) /\ Len(f \o s) = Len(f) + Len(s)
        /\ \A j \in 1 .. Len(f) : (f \o s)[j] = f[j]
        /\ \A j \in 1 .. Len(s) : (f \o s)[Len(f) + j] = s[j]
    BY <1>2, <2>1, ConcatIsSequence
  <2>5. DOMAIN g = 1 .. n + Len(s)
    BY <2>1, <2>4, SequencesAreNumbered
  <2>6. 1 \in DOMAIN s
    BY <2>3, <2>5
  <2>7. g[n + 1] = Piece("tail", recs[c], By(q))
    <3>1. g[n + 1] = s[1]
      BY <2>1, <2>3, <2>4, <2>6
    <3>2. c + 1 - 1 = c
      BY <1>1
    <3> QED BY <1>3, <2>6, <3>1, <3>2
  <2>8. (n + 1) - 1 = n /\ g[n] = f[n]
    BY <2>1, <2>3, <2>4
  <2>9. StartsLine(g, n)
    <3>1. n # 1 => n - 1 \in 1 .. n
      <4> HIDE DEF n
      <4> QED BY <2>3
    <3>2. n # 1 => g[n - 1] = f[n - 1]
      BY <2>1, <2>4, <3>1
    <3> HIDE DEF n
    <3> QED BY <2>2, <3>2 DEF StartsLine
  <2>10. n + 1 > 1
    BY <2>3
  <2>11. g[n + 1].part = "tail" /\ g[(n + 1) - 1] = Piece("head", g[n + 1].rec, g[n + 1].by)
    BY <2>2, <2>7, <2>8 DEF Piece
  <2> HIDE DEF n
  <2> QED BY <2>8, <2>9, <2>10, <2>11 DEF Readable, Complete, g
<1> HIDE DEF f, n, g
<1>11. CASE Glued(kind) /\ Last(files[kind]).by # By(q)
  <2>1. Doomed(kind)' \subseteq Doomed(kind) \cup {Last(files[kind]).by[1]} /\ torn' = torn + 1
    BY <1>7, <1>11, WhoFits
  <2>2. Cardinality(Lost(kind)') <= Cardinality(Lost(kind)) + 1
        /\ Cardinality(Lost(kind)) \in Nat /\ Cardinality(Lost(kind)') \in Nat
    BY <1>6, <1>9, OneMore
  <2>3. Cardinality(Doomed(kind)') <= Cardinality(Doomed(kind)) + 1
        /\ Cardinality(Doomed(kind)) \in Nat /\ Cardinality(Doomed(kind)') \in Nat
    BY <1>9, <2>1, OneMore
  <2> QED BY <1>9, <2>1, <2>2, <2>3 DEF Bound
<1>12. CASE ~(Glued(kind) /\ Last(files[kind]).by # By(q))
  <2>1. Doomed(kind)' \subseteq Doomed(kind) \ {q} /\ torn' = torn
    BY <1>7, <1>12, WhoFits
  <2>2. CASE Fits(q, kind)
    <3>1. Lost(kind)' \subseteq Lost(kind) /\ Doomed(kind)' \subseteq Doomed(kind)
      BY <1>6, <1>10, <2>1, <2>2
    <3>2. /\ Cardinality(Lost(kind)') <= Cardinality(Lost(kind))
          /\ Cardinality(Doomed(kind)') <= Cardinality(Doomed(kind))
          /\ Cardinality(Lost(kind)) \in Nat /\ Cardinality(Doomed(kind)) \in Nat
          /\ Cardinality(Lost(kind)') \in Nat /\ Cardinality(Doomed(kind)') \in Nat
      BY <1>9, <3>1, NoMore
    <3> QED BY <1>9, <2>1, <3>2 DEF Bound
  <2>3. CASE ~Fits(q, kind)
    <3>1. q \in Doomed(kind)
      BY <1>8, <2>3 DEF Doomed
    <3>2. Cardinality(Doomed(kind)') + 1 <= Cardinality(Doomed(kind))
          /\ Cardinality(Doomed(kind)) \in Nat /\ Cardinality(Doomed(kind)') \in Nat
      <4> DEFINE S == Doomed(kind)
                 T == Doomed(kind)'
      <4>1. q \in S /\ IsFiniteSet(S) /\ T \subseteq S \ {q}
        BY <1>9, <2>1, <3>1
      <4> HIDE DEF S, T
      <4>2. Cardinality(T) \in Nat /\ Cardinality(S) \in Nat /\ Cardinality(T) + 1 <= Cardinality(S)
        BY <4>1, OneLess
      <4> QED BY <4>2 DEF S, T
    <3>3. Cardinality(Lost(kind)') <= Cardinality(Lost(kind)) + 1
          /\ Cardinality(Lost(kind)) \in Nat /\ Cardinality(Lost(kind)') \in Nat
      BY <1>6, <1>9, OneMore
    <3> QED BY <1>9, <2>1, <3>2, <3>3 DEF Bound
  <2> QED BY <2>2, <2>3
<1> QED BY <1>11, <1>12

\* A tear is counted by the append that is glued to a head.
LEMMA AppendLoses ==
  ASSUME FilesInv, HandInv, LossInv, NEW q \in Procs, Append1(q) \/ Append2(q)
  PROVE  torn' \in Nat /\ torn' >= torn /\ \A k \in Kinds : Bound(k)'
<1> DEFINE b == Head(out[q])
<1>1. out[q] # <<>> /\ left' = left
  BY DEF Append1, Append2
<1>2. 1 \in DOMAIN out[q] /\ b = out[q][1]
  BY <1>1, SequencesAreNumbered DEF FilesInv
<1>3. b.kind \in Kinds /\ IsSequence(b.recs)
  BY <1>2 DEF FilesInv
<1> PICK kind \in Kinds : kind = b.kind
  BY <1>3
<1>4. torn' \in Nat /\ torn' >= torn /\ torn \in Nat
  <2>1. torn' = torn \/ torn' = torn + 1
    BY DEF Append1, Append2
  <2> QED BY <2>1 DEF LossInv
<1>5. (out' = out \/ cut'[q] = 0) /\ \A r \in Procs \ {q} : out'[r] = out[r] /\ cut'[r] = cut[r]
  BY DEF Append1, Append2, FilesInv
<1>6. \A k \in Kinds \ {kind} : files'[k] = files[k]
  BY <1>3 DEF Append1, Append2, AppendWhole, AppendHead, AppendTail, FilesInv
<1>7. ASSUME NEW k \in Kinds, k # kind PROVE Bound(k)'
  <2>1. Lost(k)' = Lost(k) /\ Doomed(k)' \subseteq Doomed(k)
    BY <1>1, <1>5, <1>6, <1>7, OtherKindsLoseNothing
  <2>2. IsFiniteSet(Doomed(k)) /\ Bound(k) /\ Cardinality(Lost(k)) \in Nat
    BY FiniteLosses DEF LossInv, Bound
  <2>3. Cardinality(Doomed(k)') <= Cardinality(Doomed(k))
        /\ Cardinality(Doomed(k)) \in Nat /\ Cardinality(Doomed(k)') \in Nat
    BY <2>1, <2>2, NoMore
  <2> QED BY <1>4, <2>1, <2>2, <2>3 DEF Bound
<1>8. Bound(kind)'
  <2>1. CASE Append1(q)
    <3>1. cut[q] = 0 /\ torn' = IF Glued(kind) THEN torn + 1 ELSE torn
      BY <2>1 DEF Append1
    <3>2. \/ AppendWhole(kind, b.recs, By(q)) /\ out' = [out EXCEPT ![q] = Tail(@)] /\ cut' = cut
          \/ \E i \in DOMAIN b.recs : /\ AppendHead(kind, b.recs, i, By(q)) /\ out' = out
                                      /\ cut' = [cut EXCEPT ![q] = i]
      BY <2>1 DEF Append1
    <3> QED BY <1>1, <1>3, <3>1, <3>2, WholeLoses, HeadLoses
  <2>2. CASE Append2(q)
    <3>1. /\ AppendTail(kind, b.recs, cut[q], By(q)) /\ cut[q] # 0
          /\ cut' = [cut EXCEPT ![q] = 0] /\ out' = [out EXCEPT ![q] = Tail(@)]
          /\ torn' = IF Glued(kind) /\ Last(files[kind]).by # By(q) THEN torn + 1 ELSE torn
      BY <2>2 DEF Append2
    <3> QED BY <1>3, <3>1, TailLoses
  <2> QED BY <2>1, <2>2
<1> QED BY <1>4, <1>7, <1>8

\* Nothing is lost at first.
LEMMA LossStart == ScrapeInit => LossInv
<1> SUFFICES ASSUME ScrapeInit PROVE LossInv
  OBVIOUS
<1>1. ASSUME NEW k \in Kinds PROVE Lost(k) = {} /\ Doomed(k) = {}
  <2>1. files[k] = <<>> /\ \A p \in Procs : cut[p] = 0
    BY DEF ScrapeInit, StoreInit
  <2>2. DOMAIN <<>> = {}
    BY BatchListIsSequence
  <2> QED BY <2>1, <2>2 DEF Lost, Complete, Doomed, Pending
<1>2. Cardinality({}) = 0
  BY FS_EmptySet
<1>3. torn = 0
  BY DEF ScrapeInit
<1>4. ASSUME NEW k \in Kinds PROVE Cardinality(Lost(k)) + Cardinality(Doomed(k)) <= 2 * torn
  <2>1. Cardinality(Lost(k)) = 0 /\ Cardinality(Doomed(k)) = 0
    BY <1>1, <1>2
  <2> QED BY <1>3, <2>1
<1> QED BY <1>3, <1>4 DEF LossInv

\* Every step pays for what it loses with tears.
LEMMA LossStep == FilesInv /\ HandInv /\ LossInv /\ [Next]_vars => LossInv'
<1> SUFFICES ASSUME FilesInv, HandInv, LossInv, [Next]_vars
             PROVE  torn' \in Nat /\ \A k \in Kinds : Bound(k)'
  BY DEF LossInv, Bound
<1>1. ASSUME UNCHANGED <<files, torn>>, \A k \in Kinds : Doomed(k)' \subseteq Doomed(k)
      PROVE  torn' \in Nat /\ \A k \in Kinds : Bound(k)'
  <2>1. ASSUME NEW k \in Kinds PROVE Bound(k)'
    <3>1. Lost(k)' = Lost(k)
      BY <1>1, SameFileLosesSame
    <3>2. IsFiniteSet(Doomed(k)) /\ Bound(k) /\ Cardinality(Lost(k)) \in Nat
      BY FiniteLosses DEF LossInv, Bound
    <3>3. Cardinality(Doomed(k)') <= Cardinality(Doomed(k))
          /\ Cardinality(Doomed(k)) \in Nat /\ Cardinality(Doomed(k)') \in Nat
      BY <1>1, <3>2, NoMore
    <3> QED BY <1>1, <3>1, <3>2, <3>3 DEF Bound, LossInv
  <2> QED BY <1>1, <2>1 DEF LossInv
<1>2. CASE Rests
  <2>1. \A k \in Kinds : Doomed(k)' \subseteq Doomed(k)
    BY <1>2, DoomedStays DEF Rests, Doomed, Pending
  <2> QED BY <1>1, <1>2, <2>1 DEF Rests
<1>3. ASSUME NEW q \in Procs, Quiet(q)
      PROVE  torn' \in Nat /\ \A k \in Kinds : Bound(k)'
  <2>1. ASSUME NEW k \in Kinds, NEW r \in Doomed(k)' PROVE r \in Doomed(k)
    <3>1. r \in Procs /\ r # q
      BY <1>3, <2>1 DEF Quiet, Doomed, Pending
    <3> QED BY <1>3, <2>1, <3>1, DoomedStays DEF Quiet, Keeps
  <2> QED BY <1>1, <1>3, <2>1 DEF Quiet
<1>4. CASE \E q \in Procs : Append1(q) \/ Append2(q)
  BY <1>4, AppendLoses
<1> QED BY <1>2, <1>3, <1>4, StepIsQuietOrAppends

\* A tear costs two records, whoever is interrupted or dies, and however often.
THEOREM TearsCostTwo == ScrapeSpec => []LossPerTear
<1>1. FilesInv /\ LossInv => LossPerTear
  <2> SUFFICES ASSUME FilesInv, LossInv, NEW k \in Kinds
               PROVE  Cardinality(Complete(k) \ Readable(k)) <= 2 * torn
    BY DEF LossPerTear
  <2>1. Cardinality(Lost(k)) + Cardinality(Doomed(k)) <= 2 * torn /\ torn \in Nat
    BY DEF LossInv
  <2>2. Cardinality(Lost(k)) \in Nat /\ Cardinality(Doomed(k)) \in Nat
    BY FiniteLosses
  <2> QED BY <2>1, <2>2 DEF Lost
<1> QED BY <1>1, FilesInvHolds, HandStart, HandInvStep, LossStart, LossStep, PTL DEF ScrapeSpec

-----------------------------------------------------------------------------
(* The pages of a job *)

\* A finite set can be put in some order.
LEMMA SomeOrderOfASet ==
  ASSUME NEW S, IsFiniteSet(S)
  PROVE  SetToSeq(S) \in Seq(S)
<1>1. Cardinality(S) \in Nat /\ ExistsBijection(1 .. Cardinality(S), S)
  BY FS_CardinalityType
<1>2. \E f \in [1 .. Cardinality(S) -> S] : IsInjective(f)
  BY <1>1 DEF ExistsBijection, Bijection, Injection
<1>3. SetToSeq(S) \in [1 .. Cardinality(S) -> S]
  BY <1>2 DEF SetToSeq
<1> QED BY <1>1, <1>3

\* A minimal counterexample, for what is shown by induction.
LEMMA SmallestExists ==
  ASSUME NEW T \in SUBSET Nat, T # {}
  PROVE  \E m \in T : \A i \in T : m <= i
<1>1. PICK m \in T : \A i \in T : <<i, m>> \notin LessThan
  BY LessIsWellFounded, WFMin
<1>2. ASSUME NEW i \in T PROVE m <= i
  <2>1. i \in Nat /\ m \in Nat /\ <<i, m>> \in Nat \X Nat
    OBVIOUS
  <2>2. ~(i < m)
    BY <1>1, <2>1 DEF LessThan
  <2> QED BY <2>1, <2>2
<1> QED BY <1>2

\* The function within FlattenSeq exists for sequences of every length.
FlattensTo(s, n, f) == f = [i \in 1 .. n |-> IF i = 1 THEN s[i] ELSE f[i - 1] \o s[i]]

\* By a smallest length without one.
LEMMA FlattenExists ==
  ASSUME NEW s, NEW n \in Nat
  PROVE  \E f : FlattensTo(s, n, f)
<1> DEFINE T == {m \in Nat : ~\E f : FlattensTo(s, m, f)}
<1> SUFFICES ASSUME T # {} PROVE FALSE
  OBVIOUS
<1>1. PICK m \in T : \A i \in T : m <= i
  BY SmallestExists
<1>2. m # 0
  <2>1. FlattensTo(s, 0, [i \in 1 .. 0 |-> s[i]])
    BY DEF FlattensTo
  <2> QED BY <2>1
<1>3. m - 1 \in Nat /\ m - 1 \notin T
  BY <1>1, <1>2
<1>4. PICK f : FlattensTo(s, m - 1, f)
  BY <1>3
<1> DEFINE g == [i \in 1 .. m |-> IF i = 1 THEN s[i] ELSE f[i - 1] \o s[i]]
<1>5. ASSUME NEW i \in 1 .. m, i # 1 PROVE g[i - 1] = f[i - 1]
  <2>1. i - 1 \in 1 .. m /\ i - 1 \in 1 .. m - 1 /\ i \in Nat /\ m \in Nat
    BY <1>5
  <2>2. f[i - 1] = (IF i - 1 = 1 THEN s[i - 1] ELSE f[(i - 1) - 1] \o s[i - 1])
    BY <1>4, <2>1 DEF FlattensTo
  <2> QED BY <2>1, <2>2
<1>6. g = [i \in 1 .. m |-> IF i = 1 THEN s[i] ELSE g[i - 1] \o s[i]]
  <2> DEFINE h == [i \in 1 .. m |-> IF i = 1 THEN s[i] ELSE g[i - 1] \o s[i]]
  <2>1. ASSUME NEW i \in 1 .. m PROVE h[i] = g[i]
    <3>1. g[i] = (IF i = 1 THEN s[i] ELSE f[i - 1] \o s[i])
      OBVIOUS
    <3>2. h[i] = (IF i = 1 THEN s[i] ELSE g[i - 1] \o s[i])
      OBVIOUS
    <3> HIDE DEF g, h
    <3> QED BY <1>5, <3>1, <3>2
  <2>2. DOMAIN g = 1 .. m /\ DOMAIN h = 1 .. m /\ g = [i \in 1 .. m |-> g[i]] /\ h = [i \in 1 .. m |-> h[i]]
    OBVIOUS
  <2>3. g = h
    <3> HIDE DEF g, h
    <3> QED BY <2>1, <2>2
  <2> QED BY <2>3
<1>7. FlattensTo(s, m, g)
  BY <1>6 DEF FlattensTo
<1> QED BY <1>7

\* It gives a sequence of what the parts are made of.
LEMMA FlattenedFromParts ==
  ASSUME NEW X, NEW s, IsSequence(s), \A i \in DOMAIN s : s[i] \in Seq(X)
  PROVE  FlattenSeq(s) \in Seq(X)
<1> DEFINE n == Len(s)
<1>1. n \in Nat /\ DOMAIN s = 1 .. n /\ (n = 0 => s = <<>>)
  BY SequencesAreNumbered
<1>2. CASE n = 0
  BY <1>1, <1>2 DEF FlattenSeq
<1>3. CASE n # 0
  <2> DEFINE f == CHOOSE f : FlattensTo(s, n, f)
  <2>1. FlattensTo(s, n, f)
    BY <1>1, FlattenExists
  <2>2. FlattenSeq(s) = f[n]
    BY <1>3 DEF FlattenSeq, FlattensTo
  <2> HIDE DEF f, n
  <2> DEFINE T == {m \in 1 .. n : f[m] \notin Seq(X)}
  <2>3. ASSUME T # {} PROVE FALSE
    <3>1. PICK m \in T : \A i \in T : m <= i
      <4>1. T \in SUBSET Nat
        BY <1>1
      <4> HIDE DEF T
      <4> QED BY <2>3, <4>1, SmallestExists
    <3>2. m \in 1 .. n /\ s[m] \in Seq(X) /\ f[m] = (IF m = 1 THEN s[m] ELSE f[m - 1] \o s[m])
      BY <1>1, <2>1 DEF FlattensTo
    <3>3. m = 1 \/ f[m - 1] \in Seq(X)
      <4>1. m = 1 \/ (m - 1 \in 1 .. n /\ ~(m <= m - 1))
        BY <1>1, <3>2
      <4> QED BY <3>1, <4>1
    <3>4. f[m] \in Seq(X)
      BY <3>2, <3>3
    <3> QED BY <3>1, <3>4
  <2>4. n \in 1 .. n
    BY <1>1, <1>3
  <2> QED BY <2>2, <2>3, <2>4
<1> QED BY <1>2, <1>3

\* The odds that are asked for as final, no earlier than a minute before the start.
Late(page, t) ==
  page.page = "odds" /\ page.label = "final" => page.race \in InList /\ t >= Start[page.race] - 1

\* A nearest target is there, so a label that is "final" means that the race has begun.
LEMMA FinalLabelIsLate ==
  ASSUME NEW r, NEW t \in Nat
  PROVE  /\ ManualLabel(r, t) \in Labels
         /\ ManualLabel(r, t) = "final" => r \in InList /\ t >= Start[r]
<1> DEFINE d == Start[r] - t
           Far(k) == IF d >= Target[k] THEN d - Target[k] ELSE Target[k] - d
           Timed == DOMAIN Target \ {"final"}
           Nearest(k) == \A l \in Timed \ {k} :
                           Far(k) < Far(l) \/ (Far(k) = Far(l) /\ Target[k] > Target[l])
<1>1. CASE r \notin InList
  BY <1>1 DEF ManualLabel, Labels
<1>2. CASE r \in InList /\ d <= 0
  BY <1>2, StartAssumption DEF ManualLabel, Labels, Target
<1>3. CASE r \in InList /\ d > 0
  <2>0. Start[r] \in Nat /\ d \in Int
    BY <1>3, StartAssumption
  <2>1. ManualLabel(r, t) = CHOOSE k \in Timed : Nearest(k)
    BY <1>3, <2>0 DEF ManualLabel
  <2>2. Timed = {"t_minus_60m", "t_minus_30m", "t_minus_20m", "t_minus_10m", "t_minus_5m", "t_minus_1m"}
    BY DEF Target
  <2>3. /\ Target["t_minus_60m"] = 60 /\ Target["t_minus_30m"] = 30 /\ Target["t_minus_20m"] = 20
        /\ Target["t_minus_10m"] = 10 /\ Target["t_minus_5m"] = 5 /\ Target["t_minus_1m"] = 1
    BY DEF Target
  <2> HIDE DEF d, Timed
  <2>4. \E k \in Timed : Nearest(k)
    <3>1. CASE d >= 45
      BY <1>3, <2>0, <2>2, <2>3, <3>1
    <3>2. CASE d >= 25 /\ d < 45
      BY <1>3, <2>0, <2>2, <2>3, <3>2
    <3>3. CASE d >= 15 /\ d < 25
      BY <1>3, <2>0, <2>2, <2>3, <3>3
    <3>4. CASE d >= 8 /\ d < 15
      BY <1>3, <2>0, <2>2, <2>3, <3>4
    <3>5. CASE d >= 3 /\ d < 8
      BY <1>3, <2>0, <2>2, <2>3, <3>5
    <3>6. CASE d < 3
      BY <1>3, <2>0, <2>2, <2>3, <3>6
    <3> QED BY <2>0, <3>1, <3>2, <3>3, <3>4, <3>5, <3>6
  <2> HIDE DEF Nearest
  <2>5. ManualLabel(r, t) \in Timed
    BY <2>1, <2>4
  <2> QED BY <2>5 DEF Timed, Labels
<1> QED BY <1>1, <1>2, <1>3, StartAssumption

\* The pages of a race: of the race only, and the final odds late.
RacePage(r, t) ==
  {page \in [page : {"deba", "odds", "mark"}, race : {r}, label : Labels \cup {"none"}] : Late(page, t)}

\* A manual job asks for pages of the race.
LEMMA ManualPagesOfRace ==
  ASSUME NEW r, NEW t \in Nat
  PROVE  ManualPages(r, t) \in Seq(RacePage(r, t))
<1> DEFINE a == Page("deba", r, "none")
           o == Ask(r, ManualLabel(r, t))
           m == Page("mark", r, "none")
           X == RacePage(r, t)
<1>1. a \in X /\ m \in X
  BY DEF Page, RacePage, Late
<1>2. ManualLabel(r, t) \in Labels
  BY FinalLabelIsLate
<1>3. o \in X
  <2>1. ManualLabel(r, t) = "final" => r \in InList /\ t >= Start[r] - 1
    BY FinalLabelIsLate, StartAssumption
  <2> QED BY <1>2, <2>1 DEF Ask, Page, RacePage, Late
<1> HIDE DEF a, o, m, X
<1>4. <<a, o>> \in Seq(X) /\ <<m>> \in Seq(X) /\ <<>> \in Seq(X)
  BY <1>1, <1>3
<1>5. ManualPages(r, t) = <<a, o>> \o (IF ManualMark(r, t) THEN <<m>> ELSE <<>>)
  BY DEF ManualPages, a, o, m
<1>6. ManualPages(r, t) \in Seq(X)
  BY <1>4, <1>5
<1> QED BY <1>6 DEF X

\* So does the cron.
LEMMA CronPagesOfRace ==
  ASSUME NEW r, NEW t \in Nat
  PROVE  CronPages(r, t) \in Seq(RacePage(r, t))
<1> DEFINE a == Page("deba", r, "none")
           O == {Ask(r, k) : k \in DueKinds(Start[r] - t)}
           m == Page("mark", r, "none")
           X == RacePage(r, t)
<1>1. a \in X /\ m \in X
  BY DEF Page, RacePage, Late
<1>2. CASE r \notin InList
  BY <1>2 DEF CronPages
<1>3. CASE r \in InList
  <2>1. O \subseteq {Ask(r, "t_minus_60m"), Ask(r, "t_minus_30m"), Ask(r, "final")}
    BY DEF DueKinds, NormalKinds
  <2>2. IsFiniteSet(O)
    <3> DEFINE x == Ask(r, "t_minus_60m")
               y == Ask(r, "t_minus_30m")
               z == Ask(r, "final")
    <3> HIDE DEF x, y, z, O
    <3>1. IsFiniteSet({x})
      BY FS_Singleton
    <3>2. IsFiniteSet({x} \cup {y})
      BY <3>1, FS_AddElement
    <3>3. IsFiniteSet(({x} \cup {y}) \cup {z})
      BY <3>2, FS_AddElement
    <3>4. O \subseteq ({x} \cup {y}) \cup {z}
      BY <2>1 DEF x, y, z
    <3> QED BY <3>3, <3>4, FS_Subset
  <2>3. O \subseteq X
    <3>1. ASSUME NEW k \in DueKinds(Start[r] - t) PROVE Ask(r, k) \in X
      <4>1. k \in {"t_minus_60m", "t_minus_30m", "final"} /\ Start[r] - t \in Window(k)
        BY <3>1 DEF DueKinds, NormalKinds
      <4>2. k \in Labels
        BY <4>1 DEF Labels, Target
      <4>3. k = "final" => t >= Start[r] - 1
        BY <1>3, <4>1, StartAssumption DEF Window
      <4> QED BY <1>3, <4>2, <4>3 DEF Ask, Page, RacePage, Late
    <3> QED BY <3>1
  <2>4. SetToSeq(O) \in Seq(X)
    <3>1. SetToSeq(O) \in Seq(O)
      BY <2>2, SomeOrderOfASet
    <3> HIDE DEF O, X
    <3> QED BY <2>3, <3>1
  <2>5. CronPages(r, t) = (IF FetchDeba(Start[r] - t) THEN <<a>> ELSE <<>>) \o SetToSeq(O)
                          \o (IF FetchMark(Start[r] - t) THEN <<m>> ELSE <<>>)
    BY <1>3 DEF CronPages
  <2> HIDE DEF a, O, m, X
  <2>6. <<a>> \in Seq(X) /\ <<m>> \in Seq(X) /\ <<>> \in Seq(X)
    BY <1>1
  <2>7. CronPages(r, t) \in Seq(X)
    BY <2>4, <2>5, <2>6
  <2> QED BY <2>7 DEF X
<1> QED BY <1>2, <1>3

\* A job asks for the refunds last, and for pages of races before.
RefundPage == Page("refund", All, "none")

\* All pages of a job, in the order of the race list.
LEMMA JobPagesAreOrdered ==
  ASSUME NEW p \in Procs, now[p] \in Nat
  PROVE  /\ IsSequence(JobPages(p)) /\ JobPages(p) # <<>>
         /\ \A i \in DOMAIN JobPages(p) :
              /\ Late(JobPages(p)[i], now[p])
              /\ IF i = Len(JobPages(p)) THEN JobPages(p)[i] = RefundPage
                 ELSE JobPages(p)[i].page \in {"deba", "odds", "mark"}
<1> DEFINE n == Cardinality(Wanted(p))
           r(i) == Nth(Wanted(p), i)
           S == [i \in 1 .. n |-> IF p = "manual" THEN ManualPages(r(i), now[p]) ELSE CronPages(r(i), now[p])]
           X == UNION {RacePage(r(i), now[p]) : i \in 1 .. n}
           F == FlattenSeq(S)
           J == JobPages(p)
<1>1. n \in Nat
  <2>1. IsFiniteSet(Wanted(p))
    BY RacesAssumption, FS_Singleton DEF Wanted
  <2> QED BY <2>1, FS_CardinalityType
<1>2. IsSequence(S) /\ DOMAIN S = 1 .. n
  <2>1. DOMAIN S = 1 .. n /\ S = [i \in DOMAIN S |-> S[i]]
    OBVIOUS
  <2> HIDE DEF n, S
  <2> QED BY <1>1, <2>1, ListIsSequence
<1>3. \A i \in DOMAIN S : S[i] \in Seq(X)
  <2>1. ASSUME NEW i \in 1 .. n PROVE S[i] \in Seq(X)
    <3> DEFINE Y == RacePage(r(i), now[p])
    <3>1. S[i] \in Seq(Y)
      BY ManualPagesOfRace, CronPagesOfRace
    <3>2. Y \subseteq X
      OBVIOUS
    <3> HIDE DEF X, Y, S
    <3> QED BY <3>1, <3>2
  <2> QED BY <1>2, <2>1
<1>4. \A x \in X : Late(x, now[p]) /\ x.page \in {"deba", "odds", "mark"}
  <2>1. \A q : \A x \in RacePage(q, now[p]) : Late(x, now[p]) /\ x.page \in {"deba", "odds", "mark"}
    BY DEF RacePage
  <2>2. ASSUME NEW x \in X PROVE \E q : x \in RacePage(q, now[p])
    OBVIOUS
  <2> HIDE DEF X
  <2> QED BY <2>1, <2>2
<1>5. J = F \o <<RefundPage>>
  BY DEF JobPages, RefundPage
<1> HIDE DEF S, X
<1>6. F \in Seq(X)
  BY <1>2, <1>3, FlattenedFromParts
<1> HIDE DEF F, J, n
<1>7. /\ IsSequence(J) /\ Len(J) = Len(F) + 1 /\ Len(F) \in Nat /\ DOMAIN J = 1 .. Len(J)
      /\ J[Len(F) + 1] = RefundPage
      /\ \A i \in 1 .. Len(F) : J[i] = F[i] /\ F[i] \in X
  <2>1. F \in Seq(X \cup {RefundPage}) /\ <<RefundPage>> \in Seq(X \cup {RefundPage})
    BY <1>6
  <2>2. J \in Seq(X \cup {RefundPage})
    BY <1>5, <2>1
  <2>3. IsSequence(J)
    BY <2>2, TypedIsSequence
  <2> QED BY <1>5, <1>6, <2>2, <2>3
<1>8. ASSUME NEW i \in DOMAIN J
      PROVE  /\ Late(J[i], now[p])
             /\ IF i = Len(J) THEN J[i] = RefundPage ELSE J[i].page \in {"deba", "odds", "mark"}
  <2>1. CASE i = Len(J)
    BY <1>7, <2>1 DEF RefundPage, Page, Late
  <2>2. CASE i # Len(J)
    <3>1. i \in 1 .. Len(F)
      BY <1>7, <2>2
    <3> QED BY <1>4, <1>7, <2>2, <3>1
  <2> QED BY <2>1, <2>2
<1>9. J # <<>>
  BY <1>7, SequencesAreNumbered
<1> QED BY <1>7, <1>8, <1>9 DEF J

\* What is still to be fetched: final odds that may be asked for by now, the race
\* list alone, the refunds last.
GoodTodo(s, t) ==
  /\ IsSequence(s)
  /\ \A i \in DOMAIN s :
       /\ Late(s[i], t)
       /\ s[i].page = "list" => Len(s) = 1
       /\ s[i].page = "refund" => i = Len(s)

\* A time that was taken is that of the odds at hand.
GoodStamp(s, t) == t = NoTime \/ s = <<>> \/ (t \in Nat /\ Head(s).page = "odds" /\ Late(Head(s), t))

PagesInv ==
  /\ clock \in Nat
  /\ DOMAIN now = Procs /\ DOMAIN todo = Procs /\ DOMAIN stamp = Procs
  /\ \A p \in Procs : now[p] \in Nat /\ now[p] <= clock
  /\ \A p \in Procs : GoodTodo(todo[p], clock) /\ GoodStamp(todo[p], stamp[p])

\* What is late stays late.
LEMMA LaterIsLate ==
  ASSUME NEW page, NEW t \in Nat, NEW u \in Nat, t <= u, Late(page, t)
  PROVE  Late(page, u)
BY StartAssumption DEF Late

\* A job that has nothing to fetch.
LEMMA NothingIsGood ==
  ASSUME NEW t
  PROVE  GoodTodo(<<>>, t) /\ \A stp : GoodStamp(<<>>, stp)
BY BatchListIsSequence DEF GoodTodo, GoodStamp

\* A job of one page.
LEMMA OnePageIsGood ==
  ASSUME NEW t, NEW page, Late(page, t)
  PROVE  GoodTodo(<<page>>, t)
BY BatchListIsSequence DEF GoodTodo

\* What may be fetched now may be fetched later.
LEMMA LaterIsGood ==
  ASSUME NEW s, NEW t \in Nat, NEW u \in Nat, t <= u, GoodTodo(s, t)
  PROVE  GoodTodo(s, u)
BY LaterIsLate DEF GoodTodo

\* After a page the others may be fetched, and the race list is not among them.
LEMMA TailIsGood ==
  ASSUME NEW s, NEW t, GoodTodo(s, t), s # <<>>
  PROVE  /\ GoodTodo(Tail(s), t)
         /\ Head(s).page = "list" \/ Head(s).page = "refund" => Tail(s) = <<>>
         /\ Tail(s) # <<>> => Head(Tail(s)).page # "list"
<1>1. /\ IsSequence(Tail(s)) /\ Len(s) \in Nat /\ Len(s) >= 1 /\ Len(Tail(s)) = Len(s) - 1
      /\ DOMAIN s = 1 .. Len(s) /\ DOMAIN Tail(s) = 1 .. Len(s) - 1
      /\ \A i \in DOMAIN Tail(s) : Tail(s)[i] = s[i + 1]
      /\ Head(s) = s[1] /\ (Len(s) = 1 => Tail(s) = <<>>)
  <2>1. s \in Seq(Range(s))
    BY DEF GoodTodo, IsSequence
  <2>2. Tail(s) \in Seq(Range(s))
    BY <2>1
  <2>3. IsSequence(Tail(s))
    BY <2>2, TypedIsSequence
  <2> QED BY <2>1, <2>2, <2>3
<1>2. ASSUME NEW i \in DOMAIN Tail(s)
      PROVE  /\ Late(Tail(s)[i], t)
             /\ Tail(s)[i].page = "list" => Len(Tail(s)) = 1
             /\ Tail(s)[i].page = "refund" => i = Len(Tail(s))
  <2>1. i + 1 \in DOMAIN s /\ Tail(s)[i] = s[i + 1]
    BY <1>1
  <2>2. i \in 1 .. Len(s) - 1
    BY <1>1
  <2>3. Late(s[i + 1], t) /\ (s[i + 1].page = "list" => Len(s) = 1) /\ (s[i + 1].page = "refund" => i + 1 = Len(s))
    BY <2>1 DEF GoodTodo
  <2>4. Len(s) \in Nat /\ Len(Tail(s)) = Len(s) - 1
    BY <1>1
  <2>5. Len(s) # 1 /\ (i + 1 = Len(s) => i = Len(s) - 1)
    BY <2>2, <2>4
  <2> QED BY <2>1, <2>3, <2>4, <2>5
<1>3. 1 \in DOMAIN s
  BY <1>1
<1>4. ASSUME Tail(s) # <<>> PROVE Head(Tail(s)).page # "list"
  <2>1. 1 \in DOMAIN Tail(s) /\ Head(Tail(s)) = Tail(s)[1]
    BY <1>1, <1>4, SequencesAreNumbered
  <2>2. Tail(s)[1] = s[2] /\ 2 \in DOMAIN s /\ Len(s) # 1
    BY <1>1, <2>1
  <2> QED BY <2>1, <2>2 DEF GoodTodo
<1> QED BY <1>1, <1>2, <1>3, <1>4 DEF GoodTodo

\* The pages that the race list leads to.
LEMMA JobPagesAreGood ==
  ASSUME PagesInv, NEW p \in Procs
  PROVE  GoodTodo(JobPages(p), clock)
<1>1. now[p] \in Nat /\ now[p] <= clock /\ clock \in Nat
  BY DEF PagesInv
<1>2. IsSequence(JobPages(p))
  BY <1>1, JobPagesAreOrdered
<1>3. ASSUME NEW i \in DOMAIN JobPages(p)
      PROVE  /\ Late(JobPages(p)[i], clock) /\ JobPages(p)[i].page # "list"
             /\ JobPages(p)[i].page = "refund" => i = Len(JobPages(p))
  <2>1. RefundPage.page = "refund"
    BY DEF RefundPage, Page
  <2>2. Late(JobPages(p)[i], now[p])
    BY <1>1, JobPagesAreOrdered
  <2>3. IF i = Len(JobPages(p)) THEN JobPages(p)[i] = RefundPage
        ELSE JobPages(p)[i].page \in {"deba", "odds", "mark"}
    BY <1>1, JobPagesAreOrdered
  <2> QED BY <1>1, <2>1, <2>2, <2>3, LaterIsLate
<1> QED BY <1>2, <1>3 DEF GoodTodo

\* What a page does to the pages of its job.
LEMMA PageLeavesGood ==
  ASSUME PagesInv, NEW q \in Procs,
         FetchList(q) \/ FetchDebaPage(q) \/ FetchOdds(q) \/ FetchResults(q) \/ FetchRefunds(q)
  PROVE  /\ clock' = clock /\ now' = now
         /\ \E s : GoodTodo(s, clock) /\ todo' = [todo EXCEPT ![q] = s]
         /\ stamp' = [stamp EXCEPT ![q] = NoTime] \/ (stamp' = stamp /\ stamp[q] = NoTime)
<1> DEFINE head == Head(todo[q])
           rest == Tail(todo[q])
<1>1. todo[q] # <<>> /\ GoodTodo(todo[q], clock) /\ GoodStamp(todo[q], stamp[q])
  BY DEF FetchList, FetchDebaPage, FetchOdds, FetchResults, FetchRefunds, Ready, PagesInv
<1>2. GoodTodo(rest, clock) /\ (head.page = "list" => rest = <<>>)
  BY <1>1, TailIsGood
<1>3. GoodTodo(<<>>, clock)
  BY NothingIsGood
<1>4. <<>> \o rest = rest
  BY <1>2 DEF GoodTodo, IsSequence
<1>5. clock' = clock /\ now' = now
  BY DEF FetchList, FetchDebaPage, FetchOdds, FetchResults, FetchRefunds
<1>6. stamp' = [stamp EXCEPT ![q] = NoTime] \/ (stamp' = stamp /\ stamp[q] = NoTime)
  <2>1. CASE FetchOdds(q)
    BY <2>1 DEF FetchOdds
  <2>2. CASE FetchList(q) \/ FetchDebaPage(q) \/ FetchResults(q) \/ FetchRefunds(q)
    <3>1. stamp' = stamp /\ head.page # "odds"
      BY <2>2 DEF FetchList, FetchDebaPage, FetchResults, FetchRefunds, Ready
    <3>2. stamp[q] = NoTime
      BY <1>1, <3>1 DEF GoodStamp
    <3> QED BY <3>1, <3>2
  <2> QED BY <2>1, <2>2
<1>7. todo' = [todo EXCEPT ![q] = rest] \/ todo' = [todo EXCEPT ![q] = <<>>] \/ todo' = [todo EXCEPT ![q] = JobPages(q)]
  <2>1. CASE FetchList(q)
    <3>1. \/ todo' = [todo EXCEPT ![q] = JobPages(q) \o Tail(@)]
          \/ todo' = [todo EXCEPT ![q] = <<>> \o Tail(@)]
      BY <2>1 DEF FetchList, Full, Empty, Found
    <3>2. head.page = "list"
      BY <2>1 DEF FetchList, Ready
    <3>3. JobPages(q) \o <<>> = JobPages(q)
      BY JobPagesAreGood DEF GoodTodo, IsSequence
    <3> QED BY <1>2, <1>4, <3>1, <3>2, <3>3 DEF PagesInv
  <2>2. CASE FetchDebaPage(q)
    <3>1. \/ todo' = [todo EXCEPT ![q] = <<>> \o Tail(@)]
          \/ todo' = [todo EXCEPT ![q] = <<>>]
      BY <2>2 DEF FetchDebaPage, Full, Found
    <3> QED BY <1>4, <3>1 DEF PagesInv
  <2>3. CASE FetchOdds(q)
    <3>1. todo' = [todo EXCEPT ![q] = <<>> \o Tail(@)]
      BY <2>3 DEF FetchOdds, Full, Empty, Found
    <3> QED BY <1>4, <3>1 DEF PagesInv
  <2>4. CASE FetchResults(q)
    <3>1. todo' = [todo EXCEPT ![q] = <<>> \o Tail(@)]
      BY <2>4 DEF FetchResults, Full, Empty, Found
    <3> QED BY <1>4, <3>1 DEF PagesInv
  <2>5. CASE FetchRefunds(q)
    <3>1. \/ todo' = [todo EXCEPT ![q] = <<>> \o Tail(@)]
          \/ todo' = [todo EXCEPT ![q] = Tail(@)]
      BY <2>5 DEF FetchRefunds, Full, Empty, Found
    <3> QED BY <1>4, <3>1 DEF PagesInv
  <2> QED BY <2>1, <2>2, <2>3, <2>4, <2>5
<1>8. GoodTodo(JobPages(q), clock)
  BY JobPagesAreGood
<1> HIDE DEF head, rest
<1> QED BY <1>2, <1>3, <1>5, <1>6, <1>7, <1>8

\* No job has pages at first.
LEMMA PagesStart == ScrapeInit => PagesInv
<1> SUFFICES ASSUME ScrapeInit PROVE PagesInv
  OBVIOUS
<1>1. clock \in Nat
  BY BoundsAssumption DEF ScrapeInit
<1>2. \A p \in Procs : now[p] = clock /\ todo[p] = <<>> /\ stamp[p] = NoTime
  BY DEF ScrapeInit
<1>3. DOMAIN now = Procs /\ DOMAIN todo = Procs /\ DOMAIN stamp = Procs
  BY DEF ScrapeInit
<1> QED BY <1>1, <1>2, <1>3, NothingIsGood DEF PagesInv

\* A job begins with one page, which may be asked for.
LEMMA BeginIsGood ==
  ASSUME PagesInv, NEW q \in Procs, NEW page, Late(page, clock), Begin(q, <<page>>), clock' = clock
  PROVE  PagesInv'
<1>1. GoodTodo(<<page>>, clock) /\ GoodStamp(<<page>>, NoTime)
  BY OnePageIsGood DEF GoodStamp
<1>2. todo' = [todo EXCEPT ![q] = <<page>>] /\ stamp' = [stamp EXCEPT ![q] = NoTime]
      /\ now' = (IF q = "scheduler" THEN now ELSE [now EXCEPT ![q] = clock])
  BY DEF Begin
<1>3. \A p \in Procs : now'[p] \in Nat /\ now'[p] <= clock
  BY <1>2 DEF PagesInv
<1> QED BY <1>1, <1>2, <1>3 DEF PagesInv

\* Every step leaves the pages of every job in order.
LEMMA PagesStep == PagesInv /\ [Next]_vars => PagesInv'
<1> SUFFICES ASSUME PagesInv, [Next]_vars PROVE PagesInv'
  OBVIOUS
<1>1. CASE UNCHANGED <<clock, now, todo, stamp>>
  BY <1>1 DEF PagesInv
<1>2. CASE Tick
  <2>1. UNCHANGED <<now, todo, stamp>> /\ clock' \in Nat /\ clock' >= clock
    BY <1>2, BoundsAssumption DEF Tick, PagesInv
  <2>2. \A p \in Procs : GoodTodo(todo[p], clock') /\ now[p] <= clock'
    BY <2>1, LaterIsGood DEF PagesInv
  <2> QED BY <2>1, <2>2 DEF PagesInv
<1>3. CASE RunScrape \/ RunCron
  <2>1. PICK q \in Procs : Begin(q, <<Page("list", All, "none")>>)
    BY <1>3 DEF RunScrape, RunCron, Procs
  <2>2. Late(Page("list", All, "none"), clock)
    BY DEF Late, Page
  <2>3. clock' = clock
    BY <1>3 DEF RunScrape, RunCron
  <2> QED BY <2>1, <2>2, <2>3, BeginIsGood
<1>4. CASE ExecuteItem
  <2>1. PICK page \in [page : {"deba", "mark"}, race : InList, label : {"none"}]
                        \cup [page : {"odds"}, race : InList, label : NormalKinds]
                        \cup {Page("refund", All, "none") : r \in InList} :
               clock >= PlanTime(page) /\ Begin("scheduler", <<page>>)
    BY <1>4 DEF ExecuteItem
  <2>2. Late(page, clock)
    <3> SUFFICES ASSUME page.page = "odds", page.label = "final"
                 PROVE  page.race \in InList /\ clock >= Start[page.race] - 1
      BY DEF Late
    <3>1. page.race \in InList
      BY DEF Page
    <3>2. PlanTime(page) = Start[page.race] - 0
      BY DEF PlanTime, Target
    <3>3. Start[page.race] \in Nat /\ clock \in Nat
      BY <3>1, StartAssumption DEF PagesInv
    <3> QED BY <2>1, <3>1, <3>2, <3>3
  <2>3. clock' = clock /\ "scheduler" \in Procs
    BY <1>4 DEF ExecuteItem, Procs
  <2> QED BY <2>1, <2>2, <2>3, BeginIsGood
<1>5. ASSUME NEW q \in Procs,
             FetchList(q) \/ FetchDebaPage(q) \/ FetchOdds(q) \/ FetchResults(q) \/ FetchRefunds(q)
      PROVE  PagesInv'
  <2>1. PICK s : GoodTodo(s, clock) /\ todo' = [todo EXCEPT ![q] = s]
    BY <1>5, PageLeavesGood
  <2>2. clock' = clock /\ now' = now
    BY <1>5, PageLeavesGood
  <2>3. DOMAIN stamp' = Procs /\ stamp'[q] = NoTime /\ \A p \in Procs \ {q} : stamp'[p] = stamp[p]
    BY <1>5, PageLeavesGood DEF PagesInv
  <2>4. \A p \in Procs : GoodStamp(todo'[p], stamp'[p])
    BY <2>1, <2>3 DEF PagesInv, GoodStamp
  <2> QED BY <2>1, <2>2, <2>3, <2>4 DEF PagesInv
<1>6. ASSUME NEW q \in Procs, Stamp(q) PROVE PagesInv'
  <2>1. todo[q] # <<>> /\ Head(todo[q]).page = "odds" /\ GoodTodo(todo[q], clock)
    BY <1>6 DEF Stamp, Ready, PagesInv
  <2>2. Late(Head(todo[q]), clock)
    <3>1. 1 \in DOMAIN todo[q] /\ Head(todo[q]) = todo[q][1]
      BY <2>1, SequencesAreNumbered DEF GoodTodo
    <3> QED BY <2>1, <3>1 DEF GoodTodo
  <2>3. stamp' = [stamp EXCEPT ![q] = clock] /\ UNCHANGED <<clock, now, todo>>
    BY <1>6 DEF Stamp
  <2> QED BY <2>1, <2>2, <2>3 DEF PagesInv, GoodStamp
<1>7. ASSUME NEW q \in Procs, FetchFails(q) \/ Kill(q) PROVE PagesInv'
  <2>1. todo' = [todo EXCEPT ![q] = <<>>] /\ UNCHANGED <<clock, now, stamp>>
    BY <1>7 DEF FetchFails, Kill
  <2> QED BY <2>1, NothingIsGood DEF PagesInv
<1>8. CASE SubmitScrape \/ UNCHANGED vars
  BY <1>1, <1>8 DEF SubmitScrape, vars, jvars
<1>9. ASSUME NEW q \in Procs, Append1(q) \/ Append2(q) \/ EndJob(q) PROVE PagesInv'
  BY <1>1, <1>9 DEF Append1, Append2, EndJob
<1> QED BY <1>2, <1>3, <1>4, <1>5, <1>6, <1>7, <1>8, <1>9 DEF Next, Step

-----------------------------------------------------------------------------
(* Final odds *)

\* A record of odds that are final was taken late.
Fresh(rec) == rec.val.isFinal => rec.val.at >= Start[rec.race] - 1
FreshRecs(recs) == \A j \in DOMAIN recs : Fresh(recs[j])
FreshBatches(b) == \A i \in DOMAIN b : b[i].kind = "odds_snapshots" => FreshRecs(b[i].recs)

OddsInv ==
  /\ \A p \in Procs : FreshBatches(out[p])
  /\ \A i \in DOMAIN files["odds_snapshots"] : Fresh(files["odds_snapshots"][i].rec)

\* Only the odds page gives odds, and those of a time that is late enough.
LEMMA PageIsFresh ==
  ASSUME FilesInv, PagesInv, NEW q \in Procs,
         FetchList(q) \/ FetchDebaPage(q) \/ FetchOdds(q) \/ FetchResults(q) \/ FetchRefunds(q)
  PROVE  files' = files /\ (out' = out \/ \E b : FreshBatches(b) /\ out' = [out EXCEPT ![q] = b])
<1>0. FreshBatches(<<>>) /\ files' = files
  BY PageGivesBatches, BatchListIsSequence DEF FreshBatches
<1>1. \A kind, recs : kind # "odds_snapshots" \/ FreshRecs(recs) => FreshBatches(<<Batch(kind, recs)>>)
  BY DEF FreshBatches, Batch
<1>2. CASE FetchList(q)
  BY <1>0, <1>1, <1>2 DEF FetchList, Full, Empty, Found
<1>3. CASE FetchDebaPage(q)
  <2> DEFINE r == Head(todo[q]).race
             e == Batch("race_entries", Entries(r))
             c == Batch("race_cards", <<Rec(r, 0, "card")>>)
             d == Batch("races", <<Rec(r, 0, "rich")>>)
  <2>1. e.kind # "odds_snapshots" /\ c.kind # "odds_snapshots" /\ d.kind # "odds_snapshots"
    BY DEF Batch
  <2>2. out' = [out EXCEPT ![q] = <<e, c, d>>] \/ out' = [out EXCEPT ![q] = <<e>>]
    BY <1>3 DEF FetchDebaPage, Full, Found
  <2> HIDE DEF e, c, d
  <2>3. FreshBatches(<<e, c, d>>) /\ FreshBatches(<<e>>)
    BY <2>1 DEF FreshBatches
  <2> QED BY <1>0, <2>2, <2>3
<1>4. CASE FetchOdds(q)
  <2> DEFINE page == Head(todo[q])
             odds == Rec(page.race, page.label, [at |-> stamp[q], isFinal |-> page.label = "final"])
  <2>1. Full(q, <<Batch("odds_snapshots", <<odds>>)>>, <<>>) \/ Empty(q)
    BY <1>4 DEF FetchOdds
  <2>2. page.page = "odds" /\ todo[q] # <<>> /\ stamp[q] # NoTime
    BY <1>4 DEF FetchOdds, Ready
  <2>3. Late(page, stamp[q])
    BY <2>2 DEF PagesInv, GoodStamp
  <2>4. Fresh(odds)
    BY <2>2, <2>3 DEF Late, Fresh, Rec
  <2> HIDE DEF page, odds
  <2>5. FreshRecs(<<odds>>)
    BY <2>4 DEF FreshRecs
  <2>6. FreshBatches(<<Batch("odds_snapshots", <<odds>>)>>)
    BY <1>1, <2>5
  <2> QED BY <1>0, <2>1, <2>6 DEF Full, Empty, Found
<1>5. CASE FetchResults(q)
  BY <1>0, <1>1, <1>5 DEF FetchResults, Full, Empty, Found
<1>6. CASE FetchRefunds(q)
  BY <1>0, <1>1, <1>6 DEF FetchRefunds, Full, Empty, Found
<1> QED BY <1>2, <1>3, <1>4, <1>5, <1>6

\* What is appended are records of the batch in hand.
AddsRecords(q, kind, s) ==
  /\ IsSequence(s) /\ files' = [files EXCEPT ![kind] = @ \o s]
  /\ 1 \in DOMAIN out[q] /\ out[q][1].kind = kind
  /\ \A i \in DOMAIN s : s[i].by = By(q) /\ \E j \in DOMAIN out[q][1].recs : s[i].rec = out[q][1].recs[j]

LEMMA AppendsRecords ==
  ASSUME FilesInv, HandInv, NEW q \in Procs, Append1(q) \/ Append2(q)
  PROVE  \E kind \in Kinds : \E s : AddsRecords(q, kind, s)
<1> DEFINE b == Head(out[q])
           n == Len(b.recs)
<1>1. out[q] # <<>>
  BY DEF Append1, Append2
<1>2. 1 \in DOMAIN out[q] /\ b = out[q][1]
  BY <1>1, SequencesAreNumbered DEF FilesInv
<1>3. b.kind \in Kinds /\ IsSequence(b.recs)
  BY <1>2 DEF FilesInv
<1>4. n \in Nat /\ DOMAIN b.recs = 1 .. n
  BY <1>3, SequencesAreNumbered
<1> DEFINE Adds(s) == /\ IsSequence(s) /\ files' = [files EXCEPT ![b.kind] = @ \o s]
                      /\ \A l \in DOMAIN s : s[l].by = By(q) /\ \E j \in DOMAIN b.recs : s[l].rec = b.recs[j]
<1> HIDE DEF b, n
<1>5. ASSUME AppendWhole(b.kind, b.recs, By(q)) PROVE \E s : Adds(s)
  <2> DEFINE s == [i \in DOMAIN b.recs |-> Piece("line", b.recs[i], By(q))]
  <2>1. IsSequence(s)
    BY <1>4, ListIsSequence
  <2>2. \A i \in DOMAIN s : s[i].by = By(q) /\ \E j \in DOMAIN b.recs : s[i].rec = b.recs[j]
    BY DEF Piece
  <2>3. files' = [files EXCEPT ![b.kind] = @ \o s]
    BY <1>5 DEF AppendWhole
  <2> HIDE DEF s
  <2> QED BY <2>1, <2>2, <2>3
<1>6. ASSUME NEW i \in DOMAIN b.recs, AppendHead(b.kind, b.recs, i, By(q))
      PROVE  \E s : Adds(s)
  <2> DEFINE s == [j \in 1 .. i |-> Piece(IF j < i THEN "line" ELSE "head", b.recs[j], By(q))]
  <2>1. i \in Nat
    BY <1>4
  <2>2. IsSequence(s)
    BY <2>1, ListIsSequence
  <2>3. \A j \in 1 .. i : j \in DOMAIN b.recs /\ s[j].rec = b.recs[j] /\ s[j].by = By(q)
    BY <1>4 DEF Piece
  <2>4. DOMAIN s = 1 .. i /\ files' = [files EXCEPT ![b.kind] = @ \o s]
    BY <1>6 DEF AppendHead
  <2> HIDE DEF s
  <2> QED BY <2>2, <2>3, <2>4
<1>7. ASSUME AppendTail(b.kind, b.recs, cut[q], By(q)), cut[q] # 0 PROVE \E s : Adds(s)
  <2> DEFINE m == Len(b.recs) - cut[q] + 1
             s == [j \in 1 .. m |-> Piece(IF j = 1 THEN "tail" ELSE "line", b.recs[cut[q] + j - 1], By(q))]
  <2>1. cut[q] \in Nat /\ m = n - cut[q] + 1 /\ m \in Int
    BY <1>4 DEF FilesInv, n
  <2>2. IsSequence(s)
    BY <2>1, ListIsSequence
  <2>3. files' = [files EXCEPT ![b.kind] = @ \o s] /\ DOMAIN s = 1 .. m
    BY <1>7 DEF AppendTail
  <2>4. \A j \in 1 .. m : s[j].rec = b.recs[cut[q] + j - 1] /\ s[j].by = By(q)
    BY DEF Piece
  <2> HIDE DEF m, s
  <2>5. \A j \in 1 .. m : cut[q] + j - 1 \in DOMAIN b.recs
    BY <1>4, <1>7, <2>1
  <2> QED BY <2>2, <2>3, <2>4, <2>5
<1>8. PICK s : Adds(s)
  <2> HIDE DEF Adds
  <2>1. CASE Append1(q)
    BY <1>5, <1>6, <2>1 DEF Append1, b
  <2>2. CASE Append2(q)
    BY <1>7, <2>2 DEF Append2, b
  <2> QED BY <2>1, <2>2
<1>9. PICK kind \in Kinds : kind = b.kind
  BY <1>3
<1>10. AddsRecords(q, kind, s)
  BY <1>2, <1>8, <1>9 DEF AddsRecords
<1> QED BY <1>10

\* Every step keeps final odds late, in hand and in the file.
LEMMA OddsStep == FilesInv /\ HandInv /\ PagesInv /\ OddsInv /\ [Next]_vars => OddsInv'
<1> SUFFICES ASSUME FilesInv, HandInv, PagesInv, OddsInv, [Next]_vars PROVE OddsInv'
  OBVIOUS
<1>1. CASE UNCHANGED <<files, out>>
  BY <1>1 DEF OddsInv
<1>2. ASSUME NEW q \in Procs,
             FetchList(q) \/ FetchDebaPage(q) \/ FetchOdds(q) \/ FetchResults(q) \/ FetchRefunds(q)
      PROVE  OddsInv'
  <2>1. files' = files /\ (out' = out \/ \E b : FreshBatches(b) /\ out' = [out EXCEPT ![q] = b])
    BY <1>2, PageIsFresh
  <2> QED BY <2>1 DEF OddsInv, FilesInv
<1>3. ASSUME NEW q \in Procs, Kill(q) PROVE OddsInv'
  <2>1. FreshBatches(<<>>)
    BY BatchListIsSequence DEF FreshBatches
  <2> QED BY <1>3, <2>1 DEF Kill, OddsInv, FilesInv
<1>4. ASSUME NEW q \in Procs, Append1(q) \/ Append2(q) PROVE OddsInv'
  <2>1. \A p \in Procs : FreshBatches(out'[p])
    <3>1. out' = out \/ (out[q] # <<>> /\ out' = [out EXCEPT ![q] = Tail(@)])
      BY <1>4, AppendsAdd
    <3>2. ASSUME out[q] # <<>> PROVE FreshBatches(Tail(out[q]))
      <4>1. IsBatches(out[q])
        BY DEF FilesInv, IsBatches
      <4>2. out[q] \in Seq(Range(out[q])) /\ Len(out[q]) \in Nat /\ Len(out[q]) # 0
        BY <3>2, <4>1 DEF IsBatches, IsSequence
      <4>3. \A i \in DOMAIN Tail(out[q]) : i + 1 \in DOMAIN out[q] /\ Tail(out[q])[i] = out[q][i + 1]
        BY <4>2
      <4>4. FreshBatches(out[q])
        BY DEF OddsInv
      <4> QED BY <4>3, <4>4 DEF FreshBatches
    <3> QED BY <3>1, <3>2 DEF OddsInv, FilesInv
  <2>2. \A i \in DOMAIN files'["odds_snapshots"] : Fresh(files'["odds_snapshots"][i].rec)
    <3>0. PICK kind \in Kinds : \E s : AddsRecords(q, kind, s)
      BY <1>4, AppendsRecords
    <3>1. PICK s : AddsRecords(q, kind, s)
      BY <3>0
    <3>2. files' = [files EXCEPT ![kind] = @ \o s] /\ IsSequence(s)
      BY <3>1 DEF AddsRecords
    <3>3. CASE kind # "odds_snapshots"
      BY <3>2, <3>3 DEF OddsInv, FilesInv
    <3>4. CASE kind = "odds_snapshots"
      <4> DEFINE f == files[kind]
                 g == f \o s
      <4>1. files'["odds_snapshots"] = g /\ IsSequence(f)
        BY <3>2, <3>4 DEF FilesInv
      <4>2. \A i \in DOMAIN s : Fresh(s[i].rec)
        <5>1. FreshRecs(out[q][1].recs)
          BY <3>1, <3>4 DEF AddsRecords, OddsInv, FreshBatches
        <5> QED BY <3>1, <5>1 DEF AddsRecords, FreshRecs
      <4>3. \A i \in DOMAIN f : Fresh(f[i].rec)
        BY <3>4 DEF OddsInv
      <4> HIDE DEF f
      <4>4. /\ Len(g) = Len(f) + Len(s) /\ DOMAIN g = 1 .. Len(g)
            /\ Len(f) \in Nat /\ Len(s) \in Nat /\ DOMAIN f = 1 .. Len(f) /\ DOMAIN s = 1 .. Len(s)
            /\ \A i \in 1 .. Len(f) : g[i] = f[i]
            /\ \A i \in 1 .. Len(s) : g[Len(f) + i] = s[i]
        <5>1. IsSequence(g) /\ Len(g) = Len(f) + Len(s)
              /\ (\A i \in 1 .. Len(f) : g[i] = f[i]) /\ \A i \in 1 .. Len(s) : g[Len(f) + i] = s[i]
          BY <3>2, <4>1, ConcatIsSequence
        <5> HIDE DEF g
        <5> QED BY <3>2, <4>1, <5>1, SequencesAreNumbered
      <4>5. ASSUME NEW i \in DOMAIN g PROVE Fresh(g[i].rec)
        <5> DEFINE n == Len(f)
        <5>1. n \in Nat /\ Len(s) \in Nat /\ i \in 1 .. n + Len(s)
          BY <4>4
        <5>2. CASE i <= n
          BY <4>3, <4>4, <5>1, <5>2
        <5>3. CASE i > n
          <6> HIDE DEF g, n
          <6>1. i - n \in 1 .. Len(s) /\ n + (i - n) = i
            BY <5>1, <5>3
          <6>2. g[n + (i - n)] = s[i - n]
            BY <4>4, <6>1 DEF n
          <6> QED BY <4>2, <4>4, <6>1, <6>2
        <5> QED BY <5>1, <5>2, <5>3
      <4> QED BY <4>1, <4>5
    <3> QED BY <3>3, <3>4
  <2> QED BY <2>1, <2>2 DEF OddsInv
<1>5. ASSUME NEW q \in Procs, Stamp(q) \/ FetchFails(q) \/ EndJob(q) PROVE OddsInv'
  BY <1>1, <1>5 DEF Stamp, FetchFails, EndJob
<1>6. CASE Tick \/ SubmitScrape \/ RunScrape \/ RunCron \/ ExecuteItem \/ UNCHANGED vars
  BY <1>1, <1>6 DEF Tick, SubmitScrape, RunScrape, RunCron, ExecuteItem, vars, jvars
<1> QED BY <1>2, <1>3, <1>4, <1>5, <1>6 DEF Next, Step

\* There are no odds at first.
LEMMA OddsStart == ScrapeInit => OddsInv
<1> SUFFICES ASSUME ScrapeInit PROVE OddsInv
  OBVIOUS
<1>1. FreshBatches(<<>>) /\ DOMAIN <<>> = {}
  BY BatchListIsSequence DEF FreshBatches
<1>2. files["odds_snapshots"] = <<>>
  BY DEF ScrapeInit, StoreInit, Kinds
<1>3. \A p \in Procs : out[p] = <<>>
  BY DEF ScrapeInit
<1> QED BY <1>1, <1>2, <1>3 DEF OddsInv

\* Whoever takes the final odds, takes them late.
THEOREM FinalOddsAreLate == ScrapeSpec => []FinalsAreLate
<1>1. FilesInv /\ OddsInv => FinalsAreLate
  BY DEF OddsInv, FinalsAreLate, Latest, LatestAt, Readable, Complete, Fresh
<1> QED BY <1>1, FilesInvHolds, HandStart, HandInvStep, PagesStart, PagesStep, OddsStart, OddsStep, PTL DEF ScrapeSpec

-----------------------------------------------------------------------------
(* Refunds *)

\* While the manual job fetches it knows the starts that are in the list and on
\* the cards it fetched; the refunds it asks for last, if they are due.
RefundInv ==
  LET p == "manual"
      RefundsOut == only = All => \A r \in Races :
        r \in InList \/ (r \in InCard /\ Page("deba", r, "none") \in asked) => now[p] - Start[r] >= 90
  IN /\ DOMAIN known = Procs
     /\ todo[p] # <<>> => job[p] \in Active
     /\ job[p] = "queued" => asked = {}
     /\ todo[p] # <<>> =>
          IF Head(todo[p]).page = "list" THEN asked = {}
          ELSE only = All => \A r \in Races :
                 r \in InList \/ (r \in InCard /\ Page("deba", r, "none") \in asked) => r \in known[p]
     /\ RefundPage \in asked => todo[p] = <<>> /\ RefundsOut

\* A step of another process, or one that fetches nothing, leaves it as it is.
LEMMA RefundsKept ==
  ASSUME RefundInv, DOMAIN known' = Procs, UNCHANGED <<only, asked>>,
         now'["manual"] = now["manual"], known'["manual"] = known["manual"],
         todo'["manual"] = todo["manual"] \/ todo'["manual"] = <<>>,
         job'["manual"] # "queued" \/ job'["manual"] = job["manual"],
         todo'["manual"] # <<>> => job'["manual"] = job["manual"]
  PROVE  RefundInv'
BY DEF RefundInv

\* A page that is not the last one, nor the race list.
LEMMA RefundsNext ==
  ASSUME RefundInv, PagesInv, todo["manual"] # <<>>, Head(todo["manual"]).page \notin {"list", "refund"},
         UNCHANGED <<only, now>>, DOMAIN known' = Procs, job' = job,
         todo'["manual"] = Tail(todo["manual"]), asked' = asked \cup {Head(todo["manual"])},
         known["manual"] \subseteq known'["manual"],
         \A r \in InCard : Head(todo["manual"]) = Page("deba", r, "none") => r \in known'["manual"]
  PROVE  RefundInv'
<1>1. GoodTodo(todo["manual"], clock) /\ "manual" \in Procs
  BY DEF PagesInv, Procs
<1>2. todo'["manual"] # <<>> => Head(todo'["manual"]).page # "list"
  BY <1>1, TailIsGood
<1>3. RefundPage \notin asked'
  BY DEF RefundInv, RefundPage, Page
<1>4. only = All => \A r \in Races :
        r \in InList \/ (r \in InCard /\ Page("deba", r, "none") \in asked') => r \in known'["manual"]
  BY DEF RefundInv
<1> QED BY <1>2, <1>3, <1>4 DEF RefundInv, Active

\* The race list, which a job asks for when it has asked for nothing.
LEMMA RefundList ==
  ASSUME RefundInv, PagesInv, FetchList("manual")
  PROVE  RefundInv'
<1> DEFINE head == Head(todo["manual"])
           J == JobPages("manual")
<1>1. /\ todo["manual"] # <<>> /\ head.page = "list" /\ GoodTodo(todo["manual"], clock)
      /\ "manual" \in Procs /\ job["manual"] = "runs" /\ now["manual"] \in Nat
  BY DEF FetchList, Ready, PagesInv, Procs
<1>2. Tail(todo["manual"]) = <<>>
  BY <1>1, TailIsGood
<1>3. <<>> \o <<>> = <<>>
  OBVIOUS
<1>4. IsSequence(J) /\ J # <<>> /\ Head(J).page # "list" /\ J \o <<>> = J
  <2>1. IsSequence(J) /\ J # <<>>
    BY <1>1, JobPagesAreOrdered
  <2>2. 1 \in DOMAIN J
    BY <2>1, SequencesAreNumbered
  <2>3. IF 1 = Len(J) THEN J[1] = RefundPage ELSE J[1].page \in {"deba", "odds", "mark"}
    BY <1>1, <2>2, JobPagesAreOrdered
  <2> HIDE DEF J
  <2>4. J \o <<>> = J /\ Head(J) = J[1]
    BY <2>1 DEF IsSequence
  <2> QED BY <2>1, <2>3, <2>4 DEF RefundPage, Page
<1>5. asked = {}
  BY <1>1 DEF RefundInv
<1> HIDE DEF J
<1>6. UNCHANGED <<only, now>>
  BY DEF FetchList
<1>7. CASE Full("manual", <<Batch("races", PoorRaces)>>, J)
           /\ known' = [known EXCEPT !["manual"] = Wanted("manual") \cap InList] /\ UNCHANGED job
  <2>1. todo'["manual"] = J /\ asked' = {head}
    BY <1>1, <1>2, <1>4, <1>5, <1>7 DEF Full, Found, PagesInv
  <2>2. only = All => Wanted("manual") = Races
    BY DEF Wanted
  <2>3. DOMAIN known' = Procs /\ known'["manual"] = Wanted("manual") \cap InList
    BY <1>1, <1>7 DEF RefundInv
  <2>4. RefundPage \notin asked' /\ \A r : Page("deba", r, "none") \notin asked'
    BY <1>1, <2>1 DEF RefundPage, Page
  <2> HIDE DEF head
  <2> QED BY <1>1, <1>4, <1>6, <1>7, <2>1, <2>2, <2>3, <2>4 DEF RefundInv, Active
<1>8. CASE Empty("manual") /\ UNCHANGED known
           /\ job' = IF "manual" = "manual" /\ only # All THEN [job EXCEPT !["manual"] = "raises"] ELSE job
  <2>1. todo'["manual"] = <<>> /\ asked' = {head}
    BY <1>1, <1>2, <1>3, <1>5, <1>8 DEF Empty, Found, PagesInv
  <2>2. RefundPage \notin asked'
    BY <1>1, <2>1 DEF RefundPage, Page
  <2>3. job'["manual"] # "queued"
    BY <1>1, <1>8
  <2> HIDE DEF head
  <2> QED BY <1>8, <2>1, <2>2, <2>3 DEF RefundInv
<1> QED BY <1>7, <1>8 DEF FetchList, J

\* The refunds, which come last.
LEMMA RefundRefunds ==
  ASSUME RefundInv, PagesInv, FetchRefunds("manual")
  PROVE  RefundInv'
<1> DEFINE head == Head(todo["manual"])
<1>1. /\ todo["manual"] # <<>> /\ head.page = "refund" /\ GoodTodo(todo["manual"], clock)
      /\ "manual" \in Procs /\ job["manual"] = "runs"
  BY DEF FetchRefunds, Ready, PagesInv, Procs
<1>2. Tail(todo["manual"]) = <<>>
  BY <1>1, TailIsGood
<1>3. UNCHANGED <<only, now, known, job>>
  BY DEF FetchRefunds
<1>4. todo'["manual"] = <<>>
  <2>1. \/ todo' = [todo EXCEPT !["manual"] = <<>> \o Tail(@)]
        \/ todo' = [todo EXCEPT !["manual"] = Tail(@)]
    BY DEF FetchRefunds, Full, Empty, Found
  <2>2. <<>> \o <<>> = <<>>
    OBVIOUS
  <2> QED BY <1>1, <1>2, <2>1, <2>2 DEF PagesInv
<1>5. CASE asked' = asked
  BY <1>3, <1>4, <1>5 DEF RefundInv
<1>6. CASE asked' # asked
  <2>1. asked' = asked \cup {head} /\ (only # All \/ RefundDue("manual", known["manual"]))
    BY <1>6 DEF FetchRefunds, Full, Empty, Found
  <2>2. only = All => \A r \in Races :
          r \in InList \/ (r \in InCard /\ Page("deba", r, "none") \in asked') => now["manual"] - Start[r] >= 90
    BY <1>1, <2>1 DEF RefundInv, RefundDue, Page
  <2> QED BY <1>1, <1>3, <1>4, <2>2 DEF RefundInv
<1> QED BY <1>5, <1>6

\* Every step keeps what the manual job knows of the starts.
LEMMA RefundStep == FilesInv /\ HandInv /\ PagesInv /\ RefundInv /\ [Next]_vars => RefundInv'
<1> SUFFICES ASSUME FilesInv, HandInv, PagesInv, RefundInv, [Next]_vars PROVE RefundInv'
  OBVIOUS
<1> DEFINE m == "manual"
<1>0. /\ m \in Procs /\ DOMAIN known = Procs /\ DOMAIN todo = Procs /\ DOMAIN now = Procs
      /\ DOMAIN job = Procs /\ GoodTodo(todo[m], clock)
  BY DEF PagesInv, RefundInv, HandInv, Procs
<1>1. CASE Tick \/ UNCHANGED vars
  BY <1>1, RefundsKept DEF Tick, vars, jvars, RefundInv
<1>2. CASE SubmitScrape
  BY <1>0, <1>2 DEF SubmitScrape, RefundInv, Active
<1>3. CASE RunScrape
  <2>1. todo'[m] = <<Page("list", All, "none")>> /\ job'[m] = "runs" /\ asked' = {} /\ DOMAIN known' = Procs
    BY <1>0, <1>3 DEF RunScrape, Begin, RefundInv
  <2>2. Head(todo'[m]).page = "list"
    BY <2>1 DEF Page
  <2> QED BY <2>1, <2>2 DEF RefundInv, Active
<1>4. CASE RunCron
  <2>1. /\ todo'[m] = todo[m] /\ now'[m] = now[m] /\ known'[m] = known[m] /\ job'[m] = job[m]
        /\ DOMAIN known' = Procs /\ UNCHANGED <<only, asked>>
    BY <1>0, <1>4 DEF RunCron, Begin
  <2> QED BY <2>1, RefundsKept
<1>5. CASE ExecuteItem
  <2>1. /\ todo'[m] = todo[m] /\ now'[m] = now[m] /\ known'[m] = known[m] /\ job'[m] = job[m]
        /\ DOMAIN known' = Procs /\ UNCHANGED <<only, asked>>
    <3>1. PICK page : Begin("scheduler", <<page>>)
      BY <1>5 DEF ExecuteItem
    <3>2. UNCHANGED <<only, asked>>
      BY <1>5 DEF ExecuteItem
    <3> QED BY <1>0, <3>1, <3>2 DEF Begin
  <2> QED BY <2>1, RefundsKept
<1>6. ASSUME NEW q \in Procs, q # m, Step(q) \/ Kill(q) PROVE RefundInv'
  <2>1. /\ todo'[m] = todo[m] /\ now'[m] = now[m] /\ known'[m] = known[m] /\ job'[m] = job[m]
        /\ DOMAIN known' = Procs /\ UNCHANGED <<only, asked>>
    <3>1. CASE FetchList(q)
      BY <1>0, <1>6, <3>1 DEF FetchList, Full, Empty, Found
    <3>2. CASE FetchDebaPage(q)
      BY <1>0, <1>6, <3>2 DEF FetchDebaPage, Full, Found
    <3>3. CASE FetchOdds(q) \/ FetchResults(q) \/ FetchRefunds(q)
      BY <1>0, <1>6, <3>3 DEF FetchOdds, FetchResults, FetchRefunds, Full, Empty, Found
    <3>4. CASE Stamp(q) \/ FetchFails(q) \/ Append1(q) \/ Append2(q) \/ EndJob(q) \/ Kill(q)
      BY <1>0, <1>6, <3>4 DEF Stamp, FetchFails, Append1, Append2, EndJob, Kill
    <3> QED BY <1>6, <3>1, <3>2, <3>3, <3>4 DEF Step
  <2> QED BY <2>1, RefundsKept
<1>7. CASE FetchList(m)
  BY <1>7, RefundList
<1>8. CASE FetchDebaPage(m)
  <2> DEFINE r == Head(todo[m]).race
  <2>1. todo[m] # <<>> /\ Head(todo[m]).page = "deba" /\ job[m] = "runs" /\ UNCHANGED <<only, now>>
    BY <1>8 DEF FetchDebaPage, Ready
  <2>2. CASE /\ Full(m, <<Batch("race_entries", Entries(r)), Batch("race_cards", <<Rec(r, 0, "card")>>),
                          Batch("races", <<Rec(r, 0, "rich")>>)>>, <<>>)
             /\ known' = [known EXCEPT ![m] = KnownFromCard(m, r)]
             /\ UNCHANGED job
    <3>1. <<>> \o Tail(todo[m]) = Tail(todo[m])
      BY <1>0, <2>1, TailIsGood DEF GoodTodo, IsSequence
    <3>2. todo'[m] = Tail(todo[m]) /\ asked' = asked \cup {Head(todo[m])}
      BY <1>0, <2>2, <3>1 DEF Full, Found
    <3>3. DOMAIN known' = Procs /\ known'[m] = known[m] \cup ({r} \cap InCard)
      BY <1>0, <2>2 DEF KnownFromCard
    <3>4. \A x \in InCard : Head(todo[m]) = Page("deba", x, "none") => x \in known'[m]
      BY <3>3 DEF Page
    <3> QED BY <2>1, <2>2, <3>2, <3>3, <3>4, RefundsNext
  <2>3. CASE todo' = [todo EXCEPT ![m] = <<>>] /\ job' = [job EXCEPT ![m] = "raises"] /\ UNCHANGED <<known, asked>>
    BY <1>0, <2>1, <2>3, RefundsKept
  <2> QED BY <1>8, <2>2, <2>3 DEF FetchDebaPage
<1>9. CASE FetchOdds(m) \/ FetchResults(m)
  <2>1. todo[m] # <<>> /\ Head(todo[m]).page \in {"odds", "mark"} /\ UNCHANGED <<only, now, known, job>>
    BY <1>9 DEF FetchOdds, FetchResults, Ready
  <2>2. <<>> \o Tail(todo[m]) = Tail(todo[m])
    BY <1>0, <2>1, TailIsGood DEF GoodTodo, IsSequence
  <2>3. todo'[m] = Tail(todo[m]) /\ asked' = asked \cup {Head(todo[m])}
    BY <1>0, <1>9, <2>2 DEF FetchOdds, FetchResults, Full, Empty, Found
  <2>4. \A x \in InCard : Head(todo[m]) # Page("deba", x, "none")
    BY <2>1 DEF Page
  <2> QED BY <1>0, <2>1, <2>3, <2>4, RefundsNext
<1>10. CASE FetchRefunds(m)
  BY <1>10, RefundRefunds
<1>11. CASE Stamp(m) \/ Append1(m) \/ Append2(m)
  <2>1. UNCHANGED <<todo, now, known, job, only, asked>>
    BY <1>11 DEF Stamp, Append1, Append2
  <2> QED BY <1>0, <2>1, RefundsKept
<1>12. CASE FetchFails(m) \/ Kill(m) \/ EndJob(m)
  <2>1. todo'[m] = <<>> /\ job'[m] # "queued" /\ UNCHANGED <<now, known, only, asked>>
    BY <1>0, <1>12 DEF FetchFails, Kill, EndJob
  <2> QED BY <1>0, <2>1, RefundsKept
<1> QED BY <1>1, <1>2, <1>3, <1>4, <1>5, <1>6, <1>7, <1>8, <1>9, <1>10, <1>11, <1>12 DEF Next, Step

\* The manual job has asked for nothing at first.
LEMMA RefundStart == ScrapeInit => RefundInv
BY DEF ScrapeInit, RefundInv, Procs

\* No manual job for the venue asks for the refunds too early.
THEOREM RefundsWait == ScrapeSpec => []RefundsNotEarly
<1>1. RefundInv => RefundsNotEarly
  BY DEF RefundInv, RefundsNotEarly, RefundPage
<1> QED BY <1>1, FilesInvHolds, HandStart, HandInvStep, PagesStart, PagesStep, RefundStart, RefundStep, PTL DEF ScrapeSpec

\* The numbers before one of a set tell which it is.
LEMMA NthCounts ==
  ASSUME NEW S \in SUBSET Nat, IsFiniteSet(S), NEW r \in S
  PROVE  \E i \in 1 .. Cardinality(S) : Nth(S, i) = r
<1> DEFINE Below(n) == {m \in S : m < n}
           i == Cardinality(Below(r)) + 1
<1>1. ASSUME NEW n \in S PROVE IsFiniteSet(Below(n)) /\ Cardinality(Below(n)) \in Nat
  BY FS_Subset, FS_CardinalityType
<1>2. ASSUME NEW q \in S, NEW n \in S, q < n PROVE Cardinality(Below(q)) # Cardinality(Below(n))
  <2> DEFINE a == Below(q)
             b == Below(n)
  <2>1. a \in SUBSET b /\ q \in b /\ q \notin a
    <3>1. \A m \in S : m \in Nat /\ (m < q => m < n)
      BY <1>2
    <3>2. q \in Nat
      OBVIOUS
    <3>3. ~(q < q)
      BY <3>2
    <3> QED BY <1>2, <3>1, <3>3
  <2>2. IsFiniteSet(b)
    BY <1>1
  <2> HIDE DEF a, b
  <2>3. Cardinality(a) # Cardinality(b)
    BY <2>1, <2>2, FS_Subset
  <2> QED BY <2>3 DEF a, b
<1>3. Cardinality(Below(r)) < Cardinality(S) /\ Cardinality(S) \in Nat
  <2>1. Below(r) \in SUBSET S /\ r \notin Below(r)
    OBVIOUS
  <2> HIDE DEF Below
  <2>2. Cardinality(Below(r)) <= Cardinality(S) /\ Cardinality(Below(r)) # Cardinality(S) /\ Cardinality(S) \in Nat
    BY <2>1, FS_Subset, FS_CardinalityType
  <2> QED BY <1>1, <2>2
<1>4. i \in 1 .. Cardinality(S)
  BY <1>1, <1>3
<1>5. \A n \in S : Cardinality(Below(n)) = i - 1 <=> n = r
  <2> SUFFICES ASSUME NEW n \in S, n # r PROVE Cardinality(Below(n)) # Cardinality(Below(r))
    BY <1>1
  <2>1. n < r \/ r < n
    OBVIOUS
  <2> QED BY <1>2, <2>1
<1>6. Nth(S, i) = CHOOSE n \in S : Cardinality(Below(n)) = i - 1
  BY DEF Nth
<1> HIDE DEF Below, i
<1>7. Nth(S, i) = r
  BY <1>5, <1>6
<1> QED BY <1>4, <1>7

\* Two sequences in a row have the elements of both.
LEMMA ConcatRange ==
  ASSUME NEW s, NEW t, IsSequence(s), IsSequence(t)
  PROVE  Range(s \o t) = Range(s) \cup Range(t)
<1> DEFINE c == s \o t
<1>1. /\ Len(c) = Len(s) + Len(t) /\ Len(s) \in Nat /\ Len(t) \in Nat
      /\ DOMAIN s = 1 .. Len(s) /\ DOMAIN t = 1 .. Len(t)
      /\ \A k \in 1 .. Len(s) : c[k] = s[k]
      /\ \A k \in 1 .. Len(t) : c[Len(s) + k] = t[k]
  BY ConcatIsSequence, SequencesAreNumbered
<1>2. DOMAIN c = 1 .. Len(s) + Len(t)
  <2>1. IsSequence(c)
    BY ConcatIsSequence
  <2> HIDE DEF c
  <2> QED BY <1>1, <2>1, SequencesAreNumbered
<1> HIDE DEF c
<1>3. ASSUME NEW k \in DOMAIN c PROVE c[k] \in Range(s) \cup Range(t)
  <2>1. k \in 1 .. Len(s) \/ (k - Len(s) \in 1 .. Len(t) /\ k = Len(s) + (k - Len(s)))
    BY <1>1, <1>2
  <2>2. CASE k \in 1 .. Len(s)
    BY <1>1, <2>2 DEF Range
  <2>3. CASE k - Len(s) \in 1 .. Len(t) /\ k = Len(s) + (k - Len(s))
    <3>1. c[k] = t[k - Len(s)]
      BY <1>1, <2>3
    <3> QED BY <1>1, <2>3, <3>1 DEF Range
  <2> QED BY <2>1, <2>2, <2>3
<1>4. \A k \in DOMAIN s : s[k] \in Range(c)
  <2>1. \A k \in 1 .. Len(s) : k \in DOMAIN c
    BY <1>1, <1>2
  <2> QED BY <1>1, <2>1 DEF Range
<1>5. \A k \in DOMAIN t : t[k] \in Range(c)
  <2>1. \A k \in 1 .. Len(t) : Len(s) + k \in DOMAIN c
    BY <1>1, <1>2
  <2> QED BY <1>1, <2>1 DEF Range
<1> QED BY <1>3, <1>4, <1>5 DEF Range, c

\* What is flattened has every element of every part.
LEMMA FlattenedHasParts ==
  ASSUME NEW X, NEW s, IsSequence(s), \A i \in DOMAIN s : s[i] \in Seq(X),
         NEW i \in DOMAIN s, NEW x \in Range(s[i])
  PROVE  x \in Range(FlattenSeq(s))
<1> DEFINE n == Len(s)
           f == CHOOSE f : FlattensTo(s, n, f)
<1>1. n \in Nat /\ DOMAIN s = 1 .. n /\ i \in 1 .. n /\ n # 0
  BY SequencesAreNumbered
<1>2. FlattensTo(s, n, f)
  BY <1>1, FlattenExists
<1>3. FlattenSeq(s) = f[n]
  BY <1>1 DEF FlattenSeq, FlattensTo
<1> HIDE DEF f, n
<1>4. \A m \in 1 .. n : s[m] \in Seq(X) /\ f[m] = (IF m = 1 THEN s[m] ELSE f[m - 1] \o s[m])
  BY <1>1, <1>2 DEF FlattensTo
<1> DEFINE T == {m \in 1 .. n : f[m] \notin Seq(X) \/ (i <= m /\ x \notin Range(f[m]))}
<1>5. ASSUME T # {} PROVE FALSE
  <2>1. PICK m \in T : \A k \in T : m <= k
    <3>1. T \in SUBSET Nat
      BY <1>1
    <3> HIDE DEF T
    <3> QED BY <1>5, <3>1, SmallestExists
  <2>2. m \in 1 .. n /\ (m = 1 \/ (m - 1 \in 1 .. n /\ m - 1 \notin T))
    <3>1. m = 1 \/ (m - 1 \in 1 .. n /\ ~(m <= m - 1))
      BY <1>1
    <3> QED BY <2>1, <3>1
  <2>3. CASE m = 1
    <3>1. f[m] = s[m] /\ s[m] \in Seq(X)
      BY <1>4, <2>2, <2>3
    <3>2. i <= m => i = m
      BY <1>1, <2>3
    <3> QED BY <3>1, <3>2
  <2>4. CASE m # 1
    <3> DEFINE a == f[m - 1]
               b == s[m]
    <3>1. a \in Seq(X) /\ b \in Seq(X) /\ f[m] = a \o b /\ (i <= m - 1 => x \in Range(a))
      BY <1>4, <2>2, <2>4
    <3>2. i <= m => (i <= m - 1 \/ i = m)
      BY <1>1, <2>2
    <3>3. f[m] \in Seq(X) /\ Range(f[m]) = Range(a) \cup Range(b)
      <4> HIDE DEF a, b
      <4>1. IsSequence(a) /\ IsSequence(b) /\ a \o b \in Seq(X)
        BY <3>1, TypedIsSequence
      <4> QED BY <3>1, <4>1, ConcatRange
    <3>4. i <= m => x \in Range(f[m])
      BY <3>1, <3>2, <3>3
    <3> QED BY <3>3, <3>4
  <2> QED BY <2>3, <2>4
<1>6. n \in 1 .. n /\ i <= n
  BY <1>1
<1> QED BY <1>3, <1>5, <1>6

-----------------------------------------------------------------------------
(* What a finished job has left out *)

Poor(r) == Rec(r, 0, "poor")
Rich(r) == Rec(r, 0, "rich")
Deba(r) == Page("deba", r, "none")
Mark(r) == Page("mark", r, "none")

\* All pages of a race, once it is over.
HasRace(pages, r) == {Deba(r), Mark(r)} \subseteq pages /\ \E a \in pages : a.page = "odds" /\ a.race = r
LateJob == only = All /\ \A r \in Races : now["manual"] - Start[r] >= 10

\* A late job for the venue has the pages of every race on its list.
LEMMA JobPagesHaveRaces ==
  ASSUME LateJob, now["manual"] \in Nat, NEW r \in Races
  PROVE  HasRace(Range(JobPages("manual")), r)
<1> DEFINE t == now["manual"]
           n == Cardinality(Races)
           S == [i \in 1 .. n |-> ManualPages(Nth(Races, i), t)]
           X == UNION {RacePage(Nth(Races, i), t) : i \in 1 .. n}
           F == FlattenSeq(S)
           J == JobPages("manual")
<1>1. n \in Nat /\ IsFiniteSet(Races) /\ Races \in SUBSET Nat
  BY RacesAssumption, FS_CardinalityType
<1>2. IsSequence(S) /\ DOMAIN S = 1 .. n
  <2>1. DOMAIN S = 1 .. n /\ S = [i \in DOMAIN S |-> S[i]]
    OBVIOUS
  <2> HIDE DEF n, S
  <2> QED BY <1>1, <2>1, ListIsSequence
<1>3. \A i \in DOMAIN S : S[i] \in Seq(X)
  <2>1. ASSUME NEW i \in 1 .. n PROVE S[i] \in Seq(X)
    <3> DEFINE Y == RacePage(Nth(Races, i), t)
    <3>1. S[i] \in Seq(Y)
      BY ManualPagesOfRace
    <3>2. Y \subseteq X
      OBVIOUS
    <3> HIDE DEF X, Y, S
    <3> QED BY <3>1, <3>2
  <2> QED BY <1>2, <2>1
<1>4. J = F \o <<RefundPage>>
  BY DEF JobPages, RefundPage, Wanted, LateJob
<1>5. PICK i \in 1 .. n : Nth(Races, i) = r
  BY <1>1, NthCounts
<1>6. S[i] = <<Deba(r), Ask(r, ManualLabel(r, t))>> \o <<Mark(r)>>
  <2>1. ManualMark(r, t)
    BY DEF ManualMark, LateJob
  <2> QED BY <1>5, <2>1 DEF ManualPages, Deba, Mark
<1>7. {Deba(r), Mark(r), Ask(r, ManualLabel(r, t))} \subseteq Range(S[i])
  <2> DEFINE a == Deba(r)
             o == Ask(r, ManualLabel(r, t))
             m == Mark(r)
  <2>1. S[i] = <<a, o>> \o <<m>>
    BY <1>6
  <2> HIDE DEF a, o, m, S
  <2>2. IsSequence(<<a, o>>) /\ IsSequence(<<m>>)
    BY DEF IsSequence, Range
  <2>3. {a, o} \subseteq Range(<<a, o>>) /\ m \in Range(<<m>>)
    BY DEF Range
  <2>4. {a, o, m} \subseteq Range(S[i])
    BY <2>1, <2>2, <2>3, ConcatRange
  <2> QED BY <2>4 DEF a, o, m
<1> HIDE DEF S, X
<1>8. {Deba(r), Mark(r), Ask(r, ManualLabel(r, t))} \subseteq Range(F)
  BY <1>2, <1>3, <1>5, <1>7, FlattenedHasParts
<1>9. Range(F) \subseteq Range(J)
  <2>1. F \in Seq(X)
    BY <1>2, <1>3, FlattenedFromParts
  <2>2. IsSequence(F) /\ IsSequence(<<RefundPage>>)
    BY <2>1, TypedIsSequence, BatchListIsSequence
  <2> HIDE DEF F, J
  <2> QED BY <1>4, <2>2, ConcatRange
<1>10. Ask(r, ManualLabel(r, t)).page = "odds" /\ Ask(r, ManualLabel(r, t)).race = r
  BY DEF Ask, Page
<1> HIDE DEF F, J
<1>11. HasRace(Range(J), r)
  BY <1>8, <1>9, <1>10 DEF HasRace
<1> QED BY <1>11 DEF J

\* What the manual job has in hand to write, and where it wrote it.
ToWrite(k, rec) ==
  \E j \in DOMAIN out["manual"] :
    /\ out["manual"][j].kind = k
    /\ \E n \in DOMAIN out["manual"][j].recs : out["manual"][j].recs[n] = rec
At(k, rec) == {i \in DOMAIN files[k] : files[k][i].rec = rec /\ files[k][i].by = By("manual")}

\* The pages that the job asked for, or still will.
Ahead == asked \cup Range(todo["manual"])

Seen(r) == At("races", Poor(r)) # {} \/ ToWrite("races", Poor(r))
RichLast(r) == \E i \in At("races", Rich(r)) : \A j \in At("races", Poor(r)) : j < i
CardWritten(r) ==
  /\ \A h \in Horses : Wrote("race_entries", Rec(r, h, "entry")) \/ ToWrite("race_entries", Rec(r, h, "entry"))
  /\ RichLast(r) \/ ToWrite("races", Rich(r))

\* Every piece is by a job that began; one that is to begin has written nothing.
IssuedInv ==
  /\ left \in [Procs -> Nat]
  /\ \A k \in Kinds : \A i \in DOMAIN files[k] :
       /\ files[k][i].by \in Procs \X Nat
       /\ files[k][i].by[1] = "manual" => files[k][i].by[2] >= left["manual"]
BeginsInv ==
  job["manual"] = "queued" \/ (todo["manual"] # <<>> /\ Head(todo["manual"]).page = "list") =>
    out["manual"] = <<>> /\ \A k \in Kinds : \A i \in DOMAIN files[k] : files[k][i].by # By("manual")

\* The list is written before a card is asked for, and what is cut is no race or entry.
ListFirstInv ==
  /\ cut["manual"] # 0 => Head(out["manual"]).kind \in LargeKinds
  /\ \A r \in Races : ToWrite("races", Poor(r)) => \A q \in Races : Deba(q) \notin asked

\* A race that the list showed will have all its pages; its card, when that was asked
\* for, is written or in hand.
RacesInv ==
  LateJob /\ job["manual"] \in {"runs", "done"} =>
    \A r \in Races : Seen(r) => HasRace(Ahead, r) /\ (Deba(r) \in asked => CardWritten(r))

CompleteInv == IssuedInv /\ BeginsInv /\ ListFirstInv /\ RacesInv

\* What an append adds, and what it leaves.
GrowsBy(kind, s) ==
  /\ \A k \in Kinds : \A i \in DOMAIN files[k] : i \in DOMAIN files'[k] /\ files'[k][i] = files[k][i]
  /\ \A k \in Kinds \ {kind} : files'[k] = files[k]
  /\ \A i \in DOMAIN files'[kind] : i \notin DOMAIN files[kind] =>
       /\ \E j \in DOMAIN s : files'[kind][i] = s[j]
       /\ \A l \in DOMAIN files[kind] : l < i
  /\ \A j \in DOMAIN s : \E i \in DOMAIN files'[kind] :
       i \notin DOMAIN files[kind] /\ files'[kind][i] = s[j]

LEMMA Appended ==
  ASSUME FilesInv, NEW kind \in Kinds, NEW s, IsSequence(s), files' = [files EXCEPT ![kind] = @ \o s]
  PROVE  GrowsBy(kind, s)
<1> DEFINE f == files[kind]
           g == files'[kind]
<1>1. IsSequence(f) /\ g = f \o s /\ IsSequence(g)
  BY ConcatIsSequence DEF FilesInv
<1>2. Len(f) \in Nat /\ Len(g) \in Nat /\ DOMAIN f = 1 .. Len(f) /\ DOMAIN g = 1 .. Len(g) /\ Len(s) \in Nat
      /\ DOMAIN s = 1 .. Len(s)
      /\ Len(g) = Len(f) + Len(s) /\ (\A i \in 1 .. Len(f) : g[i] = f[i]) /\ \A i \in 1 .. Len(s) : g[Len(f) + i] = s[i]
  BY <1>1, SequencesAreNumbered, ConcatIsSequence
<1>3. \A k \in Kinds \ {kind} : files'[k] = files[k]
  BY DEF FilesInv
<1> HIDE DEF f, g
<1>4. ASSUME NEW i \in DOMAIN f PROVE i \in DOMAIN g /\ g[i] = f[i]
  BY <1>2
<1>5. ASSUME NEW i \in DOMAIN g, i \notin DOMAIN f
      PROVE  (\E j \in DOMAIN s : g[i] = s[j]) /\ \A l \in DOMAIN f : l < i
  <2> DEFINE n == Len(f)
             m == Len(s)
  <2>0. n \in Nat /\ m \in Nat /\ i \in 1 .. n + m /\ i \notin 1 .. n
    BY <1>2, <1>5
  <2> HIDE DEF n, m
  <2>3. i - n \in 1 .. m /\ i = n + (i - n) /\ \A l \in 1 .. n : l < i
    BY <2>0
  <2>1. i - Len(f) \in 1 .. Len(s) /\ i = Len(f) + (i - Len(f)) /\ \A l \in 1 .. Len(f) : l < i
    BY <2>3 DEF n, m
  <2>2. g[i] = s[i - Len(f)]
    BY <1>2, <2>1
  <2> QED BY <1>2, <2>1, <2>2
<1>6. ASSUME NEW j \in DOMAIN s PROVE \E i \in DOMAIN g : i \notin DOMAIN f /\ g[i] = s[j]
  <2>1. Len(f) + j \in DOMAIN g /\ Len(f) + j \notin DOMAIN f
    BY <1>2
  <2> QED BY <1>2, <2>1
<1> QED BY <1>3, <1>4, <1>5, <1>6 DEF f, g, GrowsBy

\* What the job wrote completely stays, as long as it is the same job.
LEMMA WrittenStays ==
  ASSUME FilesInv, NEW kind \in Kinds, NEW s, IsSequence(s), files' = [files EXCEPT ![kind] = @ \o s],
         left'["manual"] = left["manual"]
  PROVE  \A k \in Kinds : \A rec : Wrote(k, rec) => Wrote(k, rec)'
<1> SUFFICES ASSUME NEW k \in Kinds, NEW rec, Wrote(k, rec) PROVE Wrote(k, rec)'
  OBVIOUS
<1>1. PICK i \in DOMAIN files[k] : files[k][i].part # "head" /\ files[k][i].rec = rec /\ files[k][i].by = By("manual")
  BY DEF Wrote, Complete
<1>2. i \in DOMAIN files'[k] /\ files'[k][i] = files[k][i]
  BY Appended DEF GrowsBy
<1>3. By("manual")' = By("manual")
  BY DEF By
<1> QED BY <1>1, <1>2, <1>3 DEF Wrote, Complete

\* What another process appends concerns the manual job in nothing.
LEMMA OthersWrite ==
  ASSUME FilesInv, NEW q \in Procs, q # "manual", NEW kind \in Kinds, NEW s, AddsRecords(q, kind, s), left' = left
  PROVE  /\ \A k \in Kinds : \A rec : Wrote(k, rec) => Wrote(k, rec)'
         /\ \A k \in Kinds : \A rec : At(k, rec)' = At(k, rec)
<1>1. IsSequence(s) /\ files' = [files EXCEPT ![kind] = @ \o s] /\ \A j \in DOMAIN s : s[j].by = By(q)
  BY DEF AddsRecords
<1>2. By("manual")' = By("manual") /\ By(q) # By("manual")
  BY DEF By
<1>5. GrowsBy(kind, s)
  BY <1>1, Appended
<1>3. ASSUME NEW k \in Kinds, NEW rec, NEW i PROVE i \in At(k, rec)' <=> i \in At(k, rec)
  <2>1. CASE k # kind
    BY <1>2, <1>5, <2>1 DEF At, GrowsBy
  <2>2. CASE k = kind
    <3>1. i \in DOMAIN files'[kind] /\ i \notin DOMAIN files[kind] => files'[kind][i].by = By(q)
      BY <1>1, <1>5 DEF GrowsBy
    <3> QED BY <1>2, <1>5, <2>2, <3>1 DEF At, GrowsBy
  <2> QED BY <2>1, <2>2
<1>4. \A k \in Kinds : \A rec : At(k, rec)' = At(k, rec)
  BY <1>3
<1> QED BY <1>1, <1>4, WrittenStays

\* What the first batch leaves in hand when it is written.
LEMMA LeftToWrite ==
  ASSUME FilesInv, out["manual"] # <<>>, out' = [out EXCEPT !["manual"] = Tail(@)]
  PROVE  \A k, rec :
           /\ ToWrite(k, rec)' => ToWrite(k, rec)
           /\ ToWrite(k, rec) =>
                \/ ToWrite(k, rec)'
                \/ out["manual"][1].kind = k /\ \E n \in DOMAIN out["manual"][1].recs : out["manual"][1].recs[n] = rec
<1> DEFINE o == out["manual"]
           t == Tail(o)
<1>1. "manual" \in Procs /\ DOMAIN out = Procs /\ IsSequence(o)
  BY DEF FilesInv, Procs
<1>2. out'["manual"] = t
  BY <1>1
<1>3. Len(o) \in Nat /\ Len(o) # 0 /\ DOMAIN o = 1 .. Len(o) /\ DOMAIN t = 1 .. Len(o) - 1
      /\ \A i \in DOMAIN t : t[i] = o[i + 1]
  BY <1>1 DEF IsSequence
<1> HIDE DEF o, t
<1>4. \A i \in DOMAIN t : i + 1 \in DOMAIN o /\ t[i] = o[i + 1]
  BY <1>3
<1>5. ASSUME NEW i \in DOMAIN o, i # 1 PROVE i - 1 \in DOMAIN t /\ t[i - 1] = o[i]
  <2> DEFINE n == Len(o)
  <2>1. n \in Nat /\ i \in 1 .. n
    BY <1>3
  <2>2. i - 1 \in 1 .. n - 1 /\ (i - 1) + 1 = i
    BY <1>5, <2>1
  <2> QED BY <1>3, <2>2
<1>6. ASSUME NEW k, NEW rec, ToWrite(k, rec)' PROVE ToWrite(k, rec)
  <2>1. PICK j \in DOMAIN t : t[j].kind = k /\ \E n \in DOMAIN t[j].recs : t[j].recs[n] = rec
    BY <1>2, <1>6 DEF ToWrite
  <2>2. j + 1 \in DOMAIN o /\ t[j] = o[j + 1]
    BY <1>4
  <2> QED BY <2>1, <2>2 DEF ToWrite, o
<1>7. ASSUME NEW k, NEW rec, ToWrite(k, rec),
             ~(o[1].kind = k /\ \E n \in DOMAIN o[1].recs : o[1].recs[n] = rec)
      PROVE  ToWrite(k, rec)'
  <2>1. PICK j \in DOMAIN o : o[j].kind = k /\ \E n \in DOMAIN o[j].recs : o[j].recs[n] = rec
    BY <1>7 DEF ToWrite, o
  <2>2. j # 1
    BY <1>7, <2>1
  <2>3. j - 1 \in DOMAIN t /\ t[j - 1] = o[j]
    BY <1>5, <2>2
  <2> QED BY <1>2, <2>1, <2>3 DEF ToWrite
<1> QED BY <1>6, <1>7 DEF o

\* A race or an entry that the job had in hand is in hand still, or on a line.
OnALine(k, rec) ==
  \E i \in DOMAIN files'[k] : i \notin DOMAIN files[k] /\ files'[k][i] = Piece("line", rec, By("manual"))

LEMMA OwnAppends ==
  ASSUME FilesInv, HandInv, ListFirstInv, Append1("manual") \/ Append2("manual")
  PROVE  /\ \A k, rec : ToWrite(k, rec)' => ToWrite(k, rec)
         /\ \A k \in Kinds \ LargeKinds : \A rec : ToWrite(k, rec) => ToWrite(k, rec)' \/ OnALine(k, rec)
<1> DEFINE b == out["manual"][1]
<1>1. out["manual"] # <<>> /\ "manual" \in Procs
  BY DEF Append1, Append2, Procs
<1>2. 1 \in DOMAIN out["manual"] /\ Head(out["manual"]) = b
  BY <1>1, SequencesAreNumbered DEF FilesInv
<1>3. b.kind \in Kinds /\ IsSequence(b.recs)
  BY <1>1, <1>2 DEF FilesInv
<1>4. DOMAIN b.recs = 1 .. Len(b.recs) /\ Len(b.recs) \in Nat
  BY <1>3, SequencesAreNumbered
<1> DEFINE Goal ==
      /\ \A k, rec : ToWrite(k, rec)' => ToWrite(k, rec)
      /\ \A k \in Kinds \ LargeKinds : \A rec : ToWrite(k, rec) => ToWrite(k, rec)' \/ OnALine(k, rec)
<1>5. CASE AppendWhole(b.kind, b.recs, By("manual")) /\ out' = [out EXCEPT !["manual"] = Tail(@)]
  <2> DEFINE s == [i \in DOMAIN b.recs |-> Piece("line", b.recs[i], By("manual"))]
  <2>1. IsSequence(s)
    BY <1>4, ListIsSequence
  <2>2. files' = [files EXCEPT ![b.kind] = @ \o s]
    BY <1>5 DEF AppendWhole
  <2>3. DOMAIN s = DOMAIN b.recs /\ \A n \in DOMAIN b.recs : s[n] = Piece("line", b.recs[n], By("manual"))
    OBVIOUS
  <2> HIDE DEF s, b
  <2>4. GrowsBy(b.kind, s)
    BY <1>3, <2>1, <2>2, Appended
  <2>5. ASSUME NEW n \in DOMAIN b.recs PROVE OnALine(b.kind, b.recs[n])
    BY <2>3, <2>4 DEF GrowsBy, OnALine
  <2>6. \A k, rec : /\ ToWrite(k, rec)' => ToWrite(k, rec)
                    /\ ToWrite(k, rec) => \/ ToWrite(k, rec)'
                                          \/ b.kind = k /\ \E n \in DOMAIN b.recs : b.recs[n] = rec
    BY <1>1, <1>5, LeftToWrite DEF b
  <2> QED BY <2>5, <2>6
<1>6. CASE out' = out
  <2>1. \A k, rec : ToWrite(k, rec)' <=> ToWrite(k, rec)
    BY <1>6 DEF ToWrite
  <2> QED BY <2>1
<1>7. CASE b.kind \in LargeKinds /\ out' = [out EXCEPT !["manual"] = Tail(@)]
  <2> HIDE DEF b
  <2>1. \A k, rec : /\ ToWrite(k, rec)' => ToWrite(k, rec)
                    /\ ToWrite(k, rec) => \/ ToWrite(k, rec)'
                                          \/ b.kind = k /\ \E n \in DOMAIN b.recs : b.recs[n] = rec
    BY <1>1, <1>7, LeftToWrite DEF b
  <2> QED BY <1>7, <2>1
<1> HIDE DEF Goal
<1>8. CASE Append1("manual")
  <2> HIDE DEF b
  <2>1. \/ AppendWhole(b.kind, b.recs, By("manual")) /\ out' = [out EXCEPT !["manual"] = Tail(@)]
        \/ out' = out
    BY <1>2, <1>8 DEF Append1
  <2> QED BY <1>5, <1>6, <2>1 DEF Goal
<1>9. CASE Append2("manual")
  <2>1. b.kind \in LargeKinds
    BY <1>2, <1>9 DEF Append2, ListFirstInv
  <2>2. out' = [out EXCEPT !["manual"] = Tail(@)]
    BY <1>9 DEF Append2
  <2> QED BY <1>7, <2>1, <2>2 DEF Goal
<1> QED BY <1>8, <1>9 DEF Goal

\* A step appends records of a process, or nothing.
LEMMA StepWrites ==
  ASSUME FilesInv, HandInv, [Next]_vars
  PROVE  files' = files \/ (left' = left /\ \E q \in Procs, kind \in Kinds : \E s : AddsRecords(q, kind, s))
<1>1. ASSUME NEW q \in Procs, Append1(q) \/ Append2(q)
      PROVE  left' = left /\ \E kind \in Kinds : \E s : AddsRecords(q, kind, s)
  BY <1>1, AppendsRecords DEF Append1, Append2
<1>2. CASE Rests
  BY <1>2 DEF Rests
<1>3. CASE \E q \in Procs : Quiet(q)
  BY <1>3 DEF Quiet
<1> QED BY <1>1, <1>2, <1>3, StepIsQuietOrAppends

\* Nobody has written anything at first.
LEMMA IssuedStart == ScrapeInit => IssuedInv
<1> SUFFICES ASSUME ScrapeInit PROVE IssuedInv
  OBVIOUS
<1>1. left \in [Procs -> Nat]
  BY BoundsAssumption DEF ScrapeInit
<1>2. \A k \in Kinds : DOMAIN files[k] = {}
  BY DEF ScrapeInit, StoreInit
<1> QED BY <1>1, <1>2 DEF IssuedInv

\* Each step counts down, and writes as itself.
LEMMA IssuedStep == FilesInv /\ HandInv /\ IssuedInv /\ [Next]_vars => IssuedInv'
<1> SUFFICES ASSUME FilesInv, HandInv, IssuedInv, [Next]_vars PROVE IssuedInv'
  OBVIOUS
<1>1. left' \in [Procs -> Nat] /\ left'["manual"] <= left["manual"]
  <2>1. ASSUME NEW q \in Procs, left[q] > 0, left' = [left EXCEPT ![q] = @ - 1]
        PROVE  left' \in [Procs -> Nat] /\ left'["manual"] <= left["manual"]
    BY <2>1 DEF IssuedInv, Procs
  <2>2. CASE left' = left
    BY <2>2 DEF IssuedInv, Procs
  <2>3. CASE SubmitScrape
    BY <2>1, <2>3 DEF SubmitScrape, Procs
  <2>4. CASE RunCron
    BY <2>1, <2>4 DEF RunCron, Procs
  <2>5. CASE ExecuteItem
    BY <2>1, <2>5 DEF ExecuteItem, Procs
  <2>6. CASE Tick \/ RunScrape \/ (\E q \in Procs : Step(q) \/ Kill(q)) \/ UNCHANGED vars
    BY <2>2, <2>6 DEF Tick, RunScrape, Step, FetchList, FetchDebaPage, Stamp, FetchOdds, FetchResults,
                      FetchRefunds, FetchFails, Append1, Append2, EndJob, Kill, vars, jvars
  <2> QED BY <2>3, <2>4, <2>5, <2>6 DEF Next
<1>2. ASSUME NEW k \in Kinds, NEW i \in DOMAIN files'[k]
      PROVE  files'[k][i].by \in Procs \X Nat /\ (files'[k][i].by[1] = "manual" => files'[k][i].by[2] >= left'["manual"])
  <2> DEFINE Issued(by) == by \in Procs \X Nat /\ (by[1] = "manual" => by[2] >= left'["manual"])
  <2>1. ASSUME NEW by, by \in Procs \X Nat, by[1] = "manual" => by[2] >= left["manual"] PROVE Issued(by)
    <3>1. left["manual"] \in Nat /\ left'["manual"] \in Nat /\ by[2] \in Nat
      BY <1>1, <2>1 DEF IssuedInv, Procs
    <3> QED BY <1>1, <2>1, <3>1
  <2>2. i \in DOMAIN files[k] => Issued(files[k][i].by)
    BY <2>1 DEF IssuedInv
  <2> HIDE DEF Issued
  <2>3. CASE files' = files
    BY <2>2, <2>3 DEF Issued
  <2>4. ASSUME NEW q \in Procs, NEW kind \in Kinds, NEW s, AddsRecords(q, kind, s), left' = left
        PROVE  Issued(files'[k][i].by)
    <3>1. GrowsBy(kind, s)
      BY <2>4, Appended DEF AddsRecords
    <3>2. \A j \in DOMAIN s : s[j].by = By(q)
      BY <2>4 DEF AddsRecords
    <3>3. Issued(By(q))
      <4>1. By(q) \in Procs \X Nat /\ (By(q)[1] = "manual" => By(q)[2] >= left["manual"])
        BY DEF By, IssuedInv
      <4> QED BY <2>1, <4>1
    <3> QED BY <2>2, <3>1, <3>2, <3>3 DEF GrowsBy
  <2> QED BY <2>3, <2>4, StepWrites DEF Issued
<1> QED BY <1>1, <1>2 DEF IssuedInv

-----------------------------------------------------------------------------
(* The steps of the others *)

\* A step that leaves the manual job as it is.
ManualRests ==
  LET p == "manual"
  IN /\ UNCHANGED <<only, asked>>
     /\ left'[p] = left[p] /\ out'[p] = out[p] /\ cut'[p] = cut[p] /\ todo'[p] = todo[p]
     /\ now'[p] = now[p] /\ job'[p] = job[p]

\* What the manual job wrote is as it was.
SameWritten ==
  /\ \A k \in Kinds : \A rec : Wrote(k, rec) => Wrote(k, rec)'
  /\ \A k \in Kinds : \A rec : At(k, rec)' = At(k, rec)

LEMMA SameFileSameWritten ==
  ASSUME files' = files, left'["manual"] = left["manual"]
  PROVE  SameWritten
<1>1. By("manual")' = By("manual")
  BY DEF By
<1> QED BY <1>1 DEF SameWritten, Wrote, Complete, At

LEMMA RestedIsComplete ==
  ASSUME BeginsInv, ListFirstInv, RacesInv, ManualRests, SameWritten,
         \A k \in Kinds : \A i \in DOMAIN files'[k] :
           (i \in DOMAIN files[k] /\ files'[k][i] = files[k][i]) \/ files'[k][i].by # By("manual")
  PROVE  BeginsInv' /\ ListFirstInv' /\ RacesInv'
<1>1. \A k, rec : ToWrite(k, rec)' <=> ToWrite(k, rec)
  BY DEF ManualRests, ToWrite
<1>2. By("manual")' = By("manual")
  BY DEF By, ManualRests
<1>3. BeginsInv'
  BY <1>2 DEF BeginsInv, ManualRests
<1>4. ListFirstInv'
  BY <1>1 DEF ListFirstInv, ManualRests
<1>5. RacesInv'
  <2>1. Ahead' = Ahead /\ (LateJob' <=> LateJob)
    BY DEF Ahead, LateJob, ManualRests
  <2>2. "races" \in Kinds /\ "race_entries" \in Kinds
    BY DEF Kinds
  <2>3. \A r \in Races : (Seen(r)' => Seen(r)) /\ (CardWritten(r) => CardWritten(r)')
    BY <1>1, <2>2 DEF Seen, CardWritten, RichLast, SameWritten
  <2> QED BY <2>1, <2>3 DEF RacesInv, ManualRests
<1> QED BY <1>3, <1>4, <1>5

\* The steps of the other processes.
LEMMA OthersAreComplete ==
  ASSUME FilesInv, HandInv, PagesInv, IssuedInv, BeginsInv, ListFirstInv, RacesInv,
         \/ RunCron \/ ExecuteItem \/ Tick \/ Stamp("manual") \/ UNCHANGED vars
         \/ \E q \in Procs \ {"manual"} : Step(q) \/ Kill(q)
  PROVE  BeginsInv' /\ ListFirstInv' /\ RacesInv'
<1> DEFINE m == "manual"
<1>0. /\ m \in Procs /\ DOMAIN todo = Procs /\ DOMAIN now = Procs /\ DOMAIN job = Procs
      /\ DOMAIN left = Procs /\ DOMAIN out = Procs /\ DOMAIN cut = Procs
  BY DEF PagesInv, HandInv, FilesInv, Procs
<1>1. CASE Tick \/ Stamp(m) \/ UNCHANGED vars
  <2>1. files' = files /\ ManualRests
    BY <1>1 DEF Tick, Stamp, vars, jvars, ManualRests
  <2> QED BY <2>1, SameFileSameWritten, RestedIsComplete DEF ManualRests
<1>2. CASE RunCron
  <2>1. files' = files /\ ManualRests
    BY <1>0, <1>2 DEF RunCron, Begin, ManualRests
  <2> QED BY <2>1, SameFileSameWritten, RestedIsComplete DEF ManualRests
<1>3. CASE ExecuteItem
  <2>1. files' = files /\ ManualRests
    <3>1. PICK page : Begin("scheduler", <<page>>)
      BY <1>3 DEF ExecuteItem
    <3>2. UNCHANGED <<files, out, cut, only, asked>> /\ left' = [left EXCEPT !["scheduler"] = @ - 1]
      BY <1>3 DEF ExecuteItem
    <3> QED BY <1>0, <3>1, <3>2 DEF Begin, ManualRests
  <2> QED BY <2>1, SameFileSameWritten, RestedIsComplete DEF ManualRests
<1>4. ASSUME NEW q \in Procs, q # m, Step(q) \/ Kill(q)
      PROVE  BeginsInv' /\ ListFirstInv' /\ RacesInv'
  <2>1. ManualRests /\ left' = left
    <3>1. CASE FetchList(q)
      BY <1>0, <1>4, <3>1 DEF FetchList, Full, Empty, Found, ManualRests
    <3>2. CASE FetchDebaPage(q)
      BY <1>0, <1>4, <3>2 DEF FetchDebaPage, Full, Found, ManualRests
    <3>3. CASE FetchOdds(q) \/ FetchResults(q) \/ FetchRefunds(q)
      BY <1>0, <1>4, <3>3 DEF FetchOdds, FetchResults, FetchRefunds, Full, Empty, Found, ManualRests
    <3>4. CASE Append1(q) \/ Append2(q)
      BY <1>0, <1>4, <3>4 DEF Append1, Append2, ManualRests
    <3>5. CASE Stamp(q) \/ FetchFails(q) \/ EndJob(q) \/ Kill(q)
      BY <1>0, <1>4, <3>5 DEF Stamp, FetchFails, EndJob, Kill, ManualRests
    <3> QED BY <1>4, <3>1, <3>2, <3>3, <3>4, <3>5 DEF Step
  <2>2. CASE files' = files
    BY <2>1, <2>2, SameFileSameWritten, RestedIsComplete
  <2>3. CASE Append1(q) \/ Append2(q)
    <3>0. PICK kind \in Kinds : \E s : AddsRecords(q, kind, s)
      BY <2>3, AppendsRecords
    <3>1. PICK s : AddsRecords(q, kind, s)
      BY <3>0
    <3>2. SameWritten
      BY <1>4, <2>1, <3>1, OthersWrite DEF SameWritten
    <3>3. GrowsBy(kind, s)
      BY <3>1, Appended DEF AddsRecords
    <3>4. \A j \in DOMAIN s : s[j].by = By(q)
      BY <3>1 DEF AddsRecords
    <3>5. By(q) # By(m)
      BY <1>4 DEF By
    <3>6. ASSUME NEW k \in Kinds, NEW i \in DOMAIN files'[k]
          PROVE  (i \in DOMAIN files[k] /\ files'[k][i] = files[k][i]) \/ files'[k][i].by # By(m)
      BY <3>3, <3>4, <3>5 DEF GrowsBy
    <3> QED BY <2>1, <3>2, <3>6, RestedIsComplete
  <2>4. files' = files \/ Append1(q) \/ Append2(q)
    BY <1>4 DEF Step, FetchList, FetchDebaPage, Stamp, FetchOdds, FetchResults, FetchRefunds, FetchFails, EndJob, Kill
  <2> QED BY <2>2, <2>3, <2>4
<1> QED BY <1>1, <1>2, <1>3, <1>4

\* The pages ahead after one was asked for.
LEMMA RangeOfTail ==
  ASSUME NEW s, IsSequence(s), s # <<>>
  PROVE  Range(s) = {Head(s)} \cup Range(Tail(s))
<1>1. /\ Tail(s) \in Seq(Range(s)) /\ Len(s) \in Nat /\ Len(s) >= 1 /\ Head(s) = s[1]
      /\ DOMAIN s = 1 .. Len(s) /\ DOMAIN Tail(s) = 1 .. Len(s) - 1
      /\ \A i \in DOMAIN Tail(s) : Tail(s)[i] = s[i + 1]
  BY DEF IsSequence
<1>2. ASSUME NEW i \in DOMAIN s, i # 1 PROVE i - 1 \in DOMAIN Tail(s) /\ Tail(s)[i - 1] = s[i]
  <2> DEFINE n == Len(s)
  <2>1. i - 1 \in 1 .. n - 1 /\ (i - 1) + 1 = i
    BY <1>1, <1>2
  <2> QED BY <1>1, <2>1
<1>3. 1 \in DOMAIN s /\ \A i \in DOMAIN Tail(s) : i + 1 \in DOMAIN s
  BY <1>1
<1> QED BY <1>1, <1>2, <1>3 DEF Range

\* A page other than the list: what it gives is in hand, and the job goes on.
LEMMA NextPageIsComplete ==
  ASSUME FilesInv, HandInv, PagesInv, RacesInv,
         job["manual"] = "runs", out["manual"] = <<>>, todo["manual"] # <<>>,
         UNCHANGED <<files, left, now, only, job, cut>>,
         todo'["manual"] = Tail(todo["manual"]),
         asked \subseteq asked', asked' \subseteq asked \cup {Head(todo["manual"])},
         Head(todo["manual"]) \in asked' \/ Head(todo["manual"]).page = "refund",
         \A r \in Races : ~ToWrite("races", Poor(r))',
         \A r \in Races : Head(todo["manual"]) = Deba(r) =>
           ToWrite("races", Rich(r))' /\ \A h \in Horses : ToWrite("race_entries", Rec(r, h, "entry"))'
  PROVE  BeginsInv' /\ ListFirstInv' /\ RacesInv'
<1> DEFINE head == Head(todo["manual"])
<1>1. "manual" \in Procs /\ GoodTodo(todo["manual"], clock) /\ IsSequence(todo["manual"])
  BY DEF PagesInv, Procs, GoodTodo
<1>2. BeginsInv'
  BY <1>1, TailIsGood DEF BeginsInv
<1>3. ListFirstInv'
  BY <1>1 DEF ListFirstInv, HandInv
<1>4. Range(todo["manual"]) = {head} \cup Range(todo'["manual"])
  BY <1>1, RangeOfTail
<1>5. ASSUME NEW r \in Races, HasRace(Ahead, r) PROVE HasRace(Ahead, r)'
  <2>1. \A page \in Ahead : page.page # "refund" => page \in Ahead'
    BY <1>4 DEF Ahead
  <2>2. Deba(r).page # "refund" /\ Mark(r).page # "refund"
    BY DEF Deba, Mark, Page
  <2> QED BY <1>5, <2>1, <2>2 DEF HasRace
<1>6. SameWritten
  BY SameFileSameWritten
<1>7. ASSUME NEW r \in Races, CardWritten(r) PROVE CardWritten(r)'
  <2>1. \A k, rec : ~ToWrite(k, rec)
    <3>1. DOMAIN out["manual"] = {}
      BY BatchListIsSequence
    <3> QED BY <3>1 DEF ToWrite
  <2>2. "races" \in Kinds /\ "race_entries" \in Kinds
    BY DEF Kinds
  <2> QED BY <1>6, <1>7, <2>1, <2>2 DEF CardWritten, RichLast, SameWritten
<1>8. ASSUME NEW r \in Races, Seen(r)' PROVE Seen(r)
  BY <1>6, <1>8 DEF Seen, SameWritten, Kinds
<1>9. ASSUME NEW r \in Races, head = Deba(r) PROVE CardWritten(r)'
  BY <1>9 DEF CardWritten
<1>10. LateJob' <=> LateJob
  BY DEF LateJob
<1>11. RacesInv'
  <2> SUFFICES ASSUME LateJob, NEW r \in Races, Seen(r)'
               PROVE  HasRace(Ahead, r)' /\ (Deba(r) \in asked' => CardWritten(r)')
    BY <1>10 DEF RacesInv
  <2>1. HasRace(Ahead, r) /\ (Deba(r) \in asked => CardWritten(r))
    BY <1>8 DEF RacesInv
  <2>2. Deba(r) \in asked' => Deba(r) \in asked \/ head = Deba(r)
    OBVIOUS
  <2> QED BY <1>5, <1>7, <1>9, <2>1, <2>2
<1> QED BY <1>2, <1>3, <1>11

\* The race list.
LEMMA ListIsComplete ==
  ASSUME FilesInv, HandInv, PagesInv, RefundInv, BeginsInv, FetchList("manual")
  PROVE  BeginsInv' /\ ListFirstInv' /\ RacesInv'
<1> DEFINE m == "manual"
           head == Head(todo[m])
           J == JobPages(m)
<1>1. /\ todo[m] # <<>> /\ head.page = "list" /\ GoodTodo(todo[m], clock) /\ out[m] = <<>> /\ cut[m] = 0
      /\ m \in Procs /\ job[m] = "runs" /\ now[m] \in Nat /\ asked = {}
      /\ DOMAIN todo = Procs /\ DOMAIN job = Procs /\ DOMAIN out = Procs
  BY DEF FetchList, Ready, PagesInv, Procs, RefundInv, HandInv, FilesInv
<1>2. Tail(todo[m]) = <<>>
  BY <1>1, TailIsGood
<1>3. <<>> \o <<>> = <<>>
  OBVIOUS
<1>4. J \o <<>> = J /\ (J # <<>> => Head(J).page # "list")
  <2>1. IsSequence(J) /\ J # <<>>
    BY <1>1, JobPagesAreOrdered
  <2>2. 1 \in DOMAIN J
    BY <2>1, SequencesAreNumbered
  <2>3. IF 1 = Len(J) THEN J[1] = RefundPage ELSE J[1].page \in {"deba", "odds", "mark"}
    BY <1>1, <2>2, JobPagesAreOrdered
  <2> HIDE DEF J
  <2>4. J \o <<>> = J /\ Head(J) = J[1]
    BY <2>1 DEF IsSequence
  <2> QED BY <2>1, <2>3, <2>4 DEF RefundPage, Page
<1>5. LateJob => \A r \in Races : HasRace(Range(J), r)
  BY <1>1, JobPagesHaveRaces
<1> HIDE DEF J
<1>6. UNCHANGED <<files, left, only, now, cut>>
  BY DEF FetchList
<1>7. SameWritten /\ \A rec : At("races", rec) = {}
  <2>1. SameWritten
    BY <1>6, SameFileSameWritten
  <2>2. \A i \in DOMAIN files["races"] : files["races"][i].by # By(m)
    BY <1>1 DEF BeginsInv, Kinds
  <2> QED BY <2>1, <2>2 DEF At
<1>8. CASE Full(m, <<Batch("races", PoorRaces)>>, J) /\ UNCHANGED job
  <2>1. todo'[m] = J /\ asked' = {head}
    BY <1>1, <1>2, <1>4, <1>8 DEF Full, Found
  <2>2. \A r : Deba(r) \notin asked'
    BY <1>1, <2>1 DEF Deba, Page
  <2>3. BeginsInv'
    BY <1>1, <1>4, <1>8, <2>1 DEF BeginsInv
  <2>4. ListFirstInv'
    BY <1>1, <1>6, <2>2 DEF ListFirstInv
  <2>5. RacesInv'
    <3>1. LateJob' <=> LateJob
      BY <1>6 DEF LateJob
    <3>2. \A r \in Races : HasRace(Range(J), r) => HasRace(Ahead, r)'
      BY <2>1 DEF HasRace, Ahead
    <3> QED BY <1>5, <2>2, <3>1, <3>2 DEF RacesInv
  <2> QED BY <2>3, <2>4, <2>5
<1>9. CASE Empty(m) /\ job' = IF "manual" = "manual" /\ only # All THEN [job EXCEPT ![m] = "raises"] ELSE job
  <2>1. todo'[m] = <<>> /\ out'[m] = <<>> /\ asked' = {head}
    BY <1>1, <1>2, <1>3, <1>9 DEF Empty, Found
  <2>2. DOMAIN out'[m] = {}
    BY <2>1, BatchListIsSequence
  <2>3. \A k, rec : ~ToWrite(k, rec)'
    BY <2>2 DEF ToWrite
  <2>4. BeginsInv'
    BY <1>1, <1>9, <2>1 DEF BeginsInv
  <2>5. ListFirstInv'
    BY <1>1, <1>6, <2>3 DEF ListFirstInv
  <2>6. RacesInv'
    BY <1>7, <2>3 DEF RacesInv, Seen, SameWritten, Kinds
  <2> QED BY <2>4, <2>5, <2>6
<1> QED BY <1>8, <1>9 DEF FetchList, J

\* The records of a card have every horse.
LEMMA EntriesHaveHorses ==
  ASSUME NEW r, NEW h \in Horses
  PROVE  \E n \in DOMAIN Entries(r) : Entries(r)[n] = Rec(r, h, "entry")
<1>1. PICK i \in 1 .. Cardinality(Horses) : Nth(Horses, i) = h
  BY RacesAssumption, NthCounts
<1> QED BY <1>1 DEF Entries

\* What one batch in hand has to write.
LEMMA OneToWrite ==
  ASSUME NEW kind, NEW recs, out'["manual"] = <<Batch(kind, recs)>>, NEW k, NEW rec, ToWrite(k, rec)'
  PROVE  k = kind
<1> DEFINE b == Batch(kind, recs)
<1>1. b.kind = kind
  BY DEF Batch
<1> HIDE DEF b
<1>2. out'["manual"] = <<b>>
  BY DEF b
<1>3. \A j \in DOMAIN out'["manual"] : out'["manual"][j] = b
  BY <1>2
<1> QED BY <1>1, <1>3 DEF ToWrite

\* The card.
LEMMA DebaIsComplete ==
  ASSUME FilesInv, HandInv, PagesInv, RacesInv, FetchDebaPage("manual")
  PROVE  BeginsInv' /\ ListFirstInv' /\ RacesInv'
<1> DEFINE m == "manual"
           head == Head(todo[m])
           r == head.race
           e == Batch("race_entries", Entries(r))
           c == Batch("race_cards", <<Rec(r, 0, "card")>>)
           d == Batch("races", <<Rec(r, 0, "rich")>>)
<1>1. /\ todo[m] # <<>> /\ head.page = "deba" /\ GoodTodo(todo[m], clock) /\ out[m] = <<>> /\ cut[m] = 0
      /\ m \in Procs /\ job[m] = "runs"
      /\ DOMAIN todo = Procs /\ DOMAIN job = Procs /\ DOMAIN out = Procs
  BY DEF FetchDebaPage, Ready, PagesInv, Procs, HandInv, FilesInv
<1>2. UNCHANGED <<files, left, only, now, cut>>
  BY DEF FetchDebaPage
<1>3. CASE Full(m, <<e, c, d>>, <<>>) /\ UNCHANGED job
  <2>1. <<>> \o Tail(todo[m]) = Tail(todo[m])
    BY <1>1, TailIsGood DEF GoodTodo, IsSequence
  <2>2. todo'[m] = Tail(todo[m]) /\ asked' = asked \cup {head} /\ out'[m] = <<e, c, d>>
    BY <1>1, <1>3, <2>1 DEF Full, Found
  <2>3. /\ e.kind = "race_entries" /\ c.kind = "race_cards" /\ d.kind = "races"
        /\ e.recs = Entries(r) /\ d.recs = <<Rich(r)>>
    BY DEF Batch, Rich
  <2> HIDE DEF e, c, d
  <2>4. \A q \in Races : ~ToWrite("races", Poor(q))'
    <3>1. \A j \in DOMAIN out'[m] : out'[m][j].kind = "races" => out'[m][j] = d
      BY <2>2, <2>3
    <3>2. \A n \in DOMAIN d.recs : d.recs[n].val = "rich"
      BY <2>3 DEF Rich, Rec
    <3>3. \A q : Poor(q).val = "poor"
      BY DEF Poor, Rec
    <3> QED BY <3>1, <3>2, <3>3 DEF ToWrite
  <2>5. ASSUME NEW q \in Races, head = Deba(q)
        PROVE  ToWrite("races", Rich(q))' /\ \A h \in Horses : ToWrite("race_entries", Rec(q, h, "entry"))'
    <3>1. q = r
      BY <2>5 DEF Deba, Page
    <3>2. 1 \in DOMAIN out'[m] /\ 3 \in DOMAIN out'[m] /\ out'[m][1] = e /\ out'[m][3] = d
      BY <2>2
    <3>3. 1 \in DOMAIN d.recs /\ d.recs[1] = Rich(q)
      BY <2>3, <3>1
    <3>4. \A h \in Horses : \E n \in DOMAIN e.recs : e.recs[n] = Rec(q, h, "entry")
      BY <2>3, <3>1, EntriesHaveHorses
    <3> HIDE DEF r
    <3>5. ToWrite("races", Rich(q))'
      BY <2>3, <3>2, <3>3 DEF ToWrite
    <3>6. \A h \in Horses : ToWrite("race_entries", Rec(q, h, "entry"))'
      BY <2>3, <3>2, <3>4 DEF ToWrite
    <3> QED BY <3>5, <3>6
  <2> HIDE DEF r
  <2> QED BY <1>1, <1>2, <1>3, <2>2, <2>4, <2>5, NextPageIsComplete
<1>4. CASE /\ out' = [out EXCEPT ![m] = <<e>>]
           /\ todo' = [todo EXCEPT ![m] = <<>>]
           /\ job' = [job EXCEPT ![m] = "raises"]
           /\ UNCHANGED <<known, asked>>
  <2>1. out'[m] = <<e>> /\ todo'[m] = <<>> /\ job'[m] = "raises"
    BY <1>1, <1>4
  <2>2. \A q : ~ToWrite("races", Poor(q))'
    BY <2>1, OneToWrite
  <2>3. BeginsInv' /\ RacesInv'
    BY <2>1 DEF BeginsInv, RacesInv
  <2>4. ListFirstInv'
    BY <1>1, <1>2, <2>2 DEF ListFirstInv
  <2> QED BY <2>3, <2>4
<1> QED BY <1>3, <1>4 DEF FetchDebaPage

\* Odds, results and refunds.
LEMMA OtherPagesAreComplete ==
  ASSUME FilesInv, HandInv, PagesInv, RacesInv,
         FetchOdds("manual") \/ FetchResults("manual") \/ FetchRefunds("manual")
  PROVE  BeginsInv' /\ ListFirstInv' /\ RacesInv'
<1> DEFINE m == "manual"
           head == Head(todo[m])
<1>1. /\ todo[m] # <<>> /\ head.page \in {"odds", "mark", "refund"}
      /\ GoodTodo(todo[m], clock) /\ out[m] = <<>> /\ cut[m] = 0
      /\ m \in Procs /\ job[m] = "runs"
      /\ DOMAIN todo = Procs /\ DOMAIN out = Procs
  BY DEF FetchOdds, FetchResults, FetchRefunds, Ready, PagesInv, Procs, HandInv, FilesInv
<1>2. UNCHANGED <<files, left, only, now, cut, job>>
  BY DEF FetchOdds, FetchResults, FetchRefunds
<1>3. <<>> \o Tail(todo[m]) = Tail(todo[m])
  BY <1>1, TailIsGood DEF GoodTodo, IsSequence
<1>4. \A q : head # Deba(q)
  BY <1>1 DEF Deba, Page
<1>5. DOMAIN <<>> = {}
  BY BatchListIsSequence
<1>6. /\ todo'[m] = Tail(todo[m])
      /\ asked' = asked \cup {head} \/ (asked' = asked /\ head.page = "refund")
      /\ out'[m] = <<>> \/ \E kind, recs : kind # "races" /\ out'[m] = <<Batch(kind, recs)>>
  <2>1. CASE FetchOdds(m)
    <3>1. PICK recs : Full(m, <<Batch("odds_snapshots", recs)>>, <<>>) \/ Empty(m)
      BY <2>1 DEF FetchOdds
    <3> QED BY <1>1, <1>3, <3>1 DEF Full, Empty, Found
  <2>2. CASE FetchResults(m)
    <3>1. PICK recs : Full(m, <<Batch("race_results", recs)>>, <<>>) \/ Empty(m)
      BY <2>2 DEF FetchResults
    <3> QED BY <1>1, <1>3, <3>1 DEF Full, Empty, Found
  <2>3. CASE FetchRefunds(m)
    <3>0. head.page = "refund"
      BY <2>3 DEF FetchRefunds, Ready
    <3>1. \/ \E recs : Full(m, <<Batch("payouts", recs)>>, <<>>)
          \/ Empty(m)
          \/ todo' = [todo EXCEPT ![m] = Tail(@)] /\ UNCHANGED <<out, faults, asked>>
      BY <2>3 DEF FetchRefunds
    <3>2. CASE \E recs : Full(m, <<Batch("payouts", recs)>>, <<>>)
      <4> PICK recs : Full(m, <<Batch("payouts", recs)>>, <<>>)
        BY <3>2
      <4> QED BY <1>1, <1>3 DEF Full, Found
    <3>3. CASE Empty(m)
      BY <1>1, <1>3, <3>3 DEF Empty, Found
    <3>4. CASE todo' = [todo EXCEPT ![m] = Tail(@)] /\ UNCHANGED <<out, faults, asked>>
      BY <1>1, <3>0, <3>4
    <3> QED BY <3>1, <3>2, <3>3, <3>4
  <2> QED BY <2>1, <2>2, <2>3
<1>7. \A q : ~ToWrite("races", Poor(q))'
  <2>1. CASE out'[m] = <<>>
    BY <1>5, <2>1 DEF ToWrite
  <2>2. ASSUME NEW kind, NEW recs, kind # "races", out'[m] = <<Batch(kind, recs)>>
        PROVE  \A q : ~ToWrite("races", Poor(q))'
    BY <2>2, OneToWrite
  <2> QED BY <1>6, <2>1, <2>2
<1> HIDE DEF head
<1>8. asked \subseteq asked' /\ asked' \subseteq asked \cup {head} /\ (head \in asked' \/ head.page = "refund")
  BY <1>6
<1> QED BY <1>1, <1>2, <1>4, <1>6, <1>7, <1>8, NextPageIsComplete DEF head

\* A job that is submitted has written nothing, nor has one that begins.
LEMMA NewJobIsComplete ==
  ASSUME FilesInv, HandInv, PagesInv, RefundInv, IssuedInv, BeginsInv, ListFirstInv,
         SubmitScrape \/ RunScrape
  PROVE  BeginsInv' /\ ListFirstInv' /\ RacesInv'
<1> DEFINE m == "manual"
<1>0. m \in Procs /\ DOMAIN todo = Procs /\ DOMAIN job = Procs /\ DOMAIN left = Procs
  BY DEF PagesInv, HandInv, Procs
<1>1. UNCHANGED <<files, out, cut>>
  BY DEF SubmitScrape, RunScrape
<1>2. out[m] = <<>> /\ cut[m] = 0
  BY <1>0 DEF SubmitScrape, RunScrape, HandInv, Active
<1>3. \A k, rec : ~ToWrite(k, rec)'
  <2>1. DOMAIN out'[m] = {}
    BY <1>1, <1>2, BatchListIsSequence
  <2> QED BY <2>1 DEF ToWrite
<1>4. ListFirstInv'
  BY <1>1, <1>2, <1>3 DEF ListFirstInv
<1>5. CASE SubmitScrape
  <2>1. left'[m] = left[m] - 1 /\ left[m] \in Nat /\ job'[m] = "queued"
    BY <1>0, <1>5 DEF SubmitScrape, IssuedInv
  <2>2. ASSUME NEW k \in Kinds, NEW i \in DOMAIN files[k] PROVE files[k][i].by # By(m)'
    <3> DEFINE by == files[k][i].by
    <3>1. by \in Procs \X Nat /\ (by[1] = m => by[2] >= left[m])
      BY DEF IssuedInv
    <3> HIDE DEF by
    <3>2. by # <<m, left'[m]>>
      BY <2>1, <3>1
    <3> QED BY <3>2 DEF By, by
  <2>3. BeginsInv'
    BY <1>1, <1>2, <2>2 DEF BeginsInv
  <2>4. RacesInv'
    BY <2>1 DEF RacesInv
  <2> QED BY <1>4, <2>3, <2>4
<1>6. CASE RunScrape
  <2>1. left' = left /\ job[m] = "queued" /\ By(m)' = By(m)
    BY <1>6 DEF RunScrape, By
  <2>2. \A k \in Kinds : \A i \in DOMAIN files[k] : files[k][i].by # By(m)
    BY <2>1 DEF BeginsInv
  <2>3. BeginsInv'
    BY <1>1, <1>2, <2>1, <2>2 DEF BeginsInv
  <2>4. RacesInv'
    BY <1>1, <1>3, <2>1, <2>2 DEF RacesInv, Seen, At, Kinds
  <2> QED BY <1>4, <2>3, <2>4
<1> QED BY <1>5, <1>6

\* A job that ends is done with nothing left, or has failed.
LEMMA EndIsComplete ==
  ASSUME FilesInv, HandInv, PagesInv, BeginsInv, ListFirstInv, RacesInv,
         EndJob("manual") \/ FetchFails("manual") \/ Kill("manual")
  PROVE  BeginsInv' /\ ListFirstInv' /\ RacesInv'
<1> DEFINE m == "manual"
<1>0. m \in Procs /\ DOMAIN todo = Procs /\ DOMAIN job = Procs /\ DOMAIN out = Procs /\ DOMAIN cut = Procs
  BY DEF PagesInv, HandInv, FilesInv, Procs
<1>1. UNCHANGED <<files, left, now, only, asked>>
  BY DEF EndJob, FetchFails, Kill
<1>2. out'[m] = <<>> /\ cut'[m] = 0 /\ todo'[m] = <<>>
  BY <1>0 DEF EndJob, FetchFails, Kill, HandInv
<1>3. \A k, rec : ~ToWrite(k, rec)'
  <2>1. DOMAIN out'[m] = {}
    BY <1>2, BatchListIsSequence
  <2> QED BY <2>1 DEF ToWrite
<1>4. ListFirstInv'
  BY <1>2, <1>3 DEF ListFirstInv
<1>5. job'[m] # "queued"
  BY <1>0 DEF EndJob, FetchFails, Kill
<1>6. BeginsInv'
  BY <1>2, <1>5 DEF BeginsInv
<1>7. RacesInv'
  <2>1. CASE EndJob(m) /\ job[m] = "runs"
    <3>1. UNCHANGED <<out, todo>>
      BY <2>1 DEF EndJob
    <3>2. \A k, rec : ToWrite(k, rec)' <=> ToWrite(k, rec)
      BY <3>1 DEF ToWrite
    <3>3. SameWritten
      BY <1>1, SameFileSameWritten
    <3>4. Ahead' = Ahead /\ (LateJob' <=> LateJob)
      BY <1>1, <3>1 DEF Ahead, LateJob
    <3>5. \A r \in Races : (Seen(r)' => Seen(r)) /\ (CardWritten(r) => CardWritten(r)')
      BY <3>2, <3>3 DEF Seen, CardWritten, RichLast, SameWritten, Kinds
    <3> QED BY <1>1, <2>1, <3>4, <3>5 DEF RacesInv
  <2>2. CASE ~(EndJob(m) /\ job[m] = "runs")
    <3>1. job'[m] \in {"failed", "none"}
      BY <1>0, <2>2 DEF EndJob, FetchFails, Kill, Active
    <3> QED BY <3>1 DEF RacesInv
  <2> QED BY <2>1, <2>2
<1> QED BY <1>4, <1>6, <1>7

\* What is appended was in hand, and no poorer race comes after the card was asked for.
LEMMA AppendIsComplete ==
  ASSUME FilesInv, HandInv, PagesInv, BeginsInv, ListFirstInv, RacesInv,
         Append1("manual") \/ Append2("manual")
  PROVE  BeginsInv' /\ ListFirstInv' /\ RacesInv'
<1> DEFINE m == "manual"
<1>0. m \in Procs /\ DOMAIN cut = Procs
  BY DEF FilesInv, Procs
<1>1. UNCHANGED <<left, todo, now, job, only, asked>> /\ out[m] # <<>>
  BY DEF Append1, Append2
<1>2. /\ \A k, rec : ToWrite(k, rec)' => ToWrite(k, rec)
      /\ \A k \in Kinds \ LargeKinds : \A rec : ToWrite(k, rec) => ToWrite(k, rec)' \/ OnALine(k, rec)
  BY OwnAppends
<1>3. BeginsInv'
  BY <1>1 DEF BeginsInv
<1>4. ListFirstInv'
  <2>1. cut'[m] = 0 \/ (out' = out /\ Head(out[m]).kind \in LargeKinds)
    BY <1>0 DEF Append1, Append2
  <2> QED BY <1>1, <1>2, <2>1 DEF ListFirstInv
<1>5. PICK kind \in Kinds : \E s : AddsRecords(m, kind, s)
  BY <1>0, AppendsRecords
<1>6. PICK s : AddsRecords(m, kind, s)
  BY <1>5
<1>7. IsSequence(s) /\ files' = [files EXCEPT ![kind] = @ \o s]
  BY <1>6 DEF AddsRecords
<1>8. GrowsBy(kind, s)
  BY <1>7, Appended
<1>9. \A j \in DOMAIN s : ToWrite(kind, s[j].rec)
  BY <1>6 DEF AddsRecords, ToWrite
<1>10. \A k \in Kinds : \A rec : Wrote(k, rec) => Wrote(k, rec)'
  BY <1>1, <1>7, WrittenStays
<1>11. By(m)' = By(m)
  BY <1>1 DEF By
<1>12. ASSUME NEW k \in Kinds, NEW rec PROVE At(k, rec) \subseteq At(k, rec)'
  BY <1>8, <1>11 DEF At, GrowsBy
<1>13. ASSUME NEW k \in Kinds, NEW rec, ~ToWrite(k, rec) PROVE At(k, rec)' \subseteq At(k, rec)
  <2>1. CASE k # kind
    BY <1>8, <1>11, <2>1 DEF At, GrowsBy
  <2>2. CASE k = kind
    <3>1. \A i \in DOMAIN files'[kind] : i \notin DOMAIN files[kind] => files'[kind][i].rec # rec
      BY <1>8, <1>9, <1>13, <2>2 DEF GrowsBy
    <3>2. \A i \in DOMAIN files[kind] : files'[kind][i] = files[kind][i]
      BY <1>8 DEF GrowsBy
    <3> QED BY <1>11, <2>2, <3>1, <3>2 DEF At
  <2> QED BY <2>1, <2>2
<1>14. "races" \in Kinds \ LargeKinds /\ "race_entries" \in Kinds \ LargeKinds
  BY DEF Kinds, LargeKinds
<1>15. ASSUME NEW r \in Races, Seen(r)' PROVE Seen(r)
  BY <1>2, <1>13, <1>14, <1>15 DEF Seen
<1>16. ASSUME NEW r \in Races, Deba(r) \in asked, CardWritten(r) PROVE CardWritten(r)'
  <2>1. ASSUME NEW h \in Horses PROVE Wrote("race_entries", Rec(r, h, "entry"))' \/ ToWrite("race_entries", Rec(r, h, "entry"))'
    <3> DEFINE rec == Rec(r, h, "entry")
    <3>1. CASE Wrote("race_entries", rec)
      BY <1>10, <1>14, <3>1
    <3>2. CASE OnALine("race_entries", rec)
      <4>1. Wrote("race_entries", rec)'
        BY <1>11, <3>2 DEF OnALine, Wrote, Complete, Piece
      <4> QED BY <4>1
    <3>3. Wrote("race_entries", rec) \/ ToWrite("race_entries", rec)
      BY <1>16 DEF CardWritten
    <3> HIDE DEF rec
    <3> QED BY <1>2, <1>14, <3>1, <3>2, <3>3 DEF rec
  <2>2. At("races", Poor(r))' = At("races", Poor(r))
    <3>1. ~ToWrite("races", Poor(r))
      BY <1>16 DEF ListFirstInv
    <3> DEFINE rec == Poor(r)
    <3> HIDE DEF rec
    <3>2. ~ToWrite("races", rec)
      BY <3>1 DEF rec
    <3>3. At("races", rec) \subseteq At("races", rec)'
      BY <1>12, <1>14
    <3>4. At("races", rec)' \subseteq At("races", rec)
      BY <1>13, <1>14, <3>2
    <3>5. At("races", rec)' = At("races", rec)
      BY <3>3, <3>4
    <3> QED BY <3>5 DEF rec
  <2>3. CASE RichLast(r)
    <3>1. RichLast(r)'
      BY <1>12, <1>14, <2>2, <2>3 DEF RichLast
    <3> QED BY <2>1, <3>1 DEF CardWritten
  <2>4. CASE OnALine("races", Rich(r))
    <3>1. PICK i \in DOMAIN files'["races"] :
            i \notin DOMAIN files["races"] /\ files'["races"][i] = Piece("line", Rich(r), By(m))
      BY <2>4 DEF OnALine
    <3>2. i \in At("races", Rich(r))'
      BY <1>11, <3>1 DEF At, Piece
    <3>3. kind = "races"
      BY <1>8, <1>14, <3>1 DEF GrowsBy
    <3>4. \A l \in DOMAIN files["races"] : l < i
      BY <1>8, <3>1, <3>3 DEF GrowsBy
    <3>5. RichLast(r)'
      BY <2>2, <3>2, <3>4 DEF RichLast, At
    <3> QED BY <2>1, <3>5 DEF CardWritten
  <2>5. RichLast(r) \/ ToWrite("races", Rich(r))
    BY <1>16 DEF CardWritten
  <2>6. CASE ToWrite("races", Rich(r))'
    BY <2>1, <2>6 DEF CardWritten
  <2> QED BY <1>2, <1>14, <2>3, <2>4, <2>5, <2>6
<1>17. RacesInv'
  <2>1. Ahead' = Ahead /\ (LateJob' <=> LateJob)
    BY <1>1 DEF Ahead, LateJob
  <2> QED BY <1>1, <1>15, <1>16, <2>1 DEF RacesInv
<1> QED BY <1>3, <1>4, <1>17

\* Every step keeps what the manual job has done and still will.
LEMMA CompleteStep ==
  FilesInv /\ HandInv /\ PagesInv /\ RefundInv /\ CompleteInv /\ [Next]_vars => CompleteInv'
<1> SUFFICES ASSUME FilesInv, HandInv, PagesInv, RefundInv, CompleteInv, [Next]_vars
             PROVE  BeginsInv' /\ ListFirstInv' /\ RacesInv'
  BY IssuedStep DEF CompleteInv
<1>0. IssuedInv /\ BeginsInv /\ ListFirstInv /\ RacesInv
  BY DEF CompleteInv
<1>1. CASE SubmitScrape \/ RunScrape
  BY <1>0, <1>1, NewJobIsComplete
<1>2. CASE \/ RunCron \/ ExecuteItem \/ Tick \/ Stamp("manual") \/ UNCHANGED vars
           \/ \E q \in Procs \ {"manual"} : Step(q) \/ Kill(q)
  BY <1>0, <1>2, OthersAreComplete
<1>3. CASE FetchList("manual")
  BY <1>0, <1>3, ListIsComplete
<1>4. CASE FetchDebaPage("manual")
  BY <1>0, <1>4, DebaIsComplete
<1>5. CASE FetchOdds("manual") \/ FetchResults("manual") \/ FetchRefunds("manual")
  BY <1>0, <1>5, OtherPagesAreComplete
<1>6. CASE EndJob("manual") \/ FetchFails("manual") \/ Kill("manual")
  BY <1>0, <1>6, EndIsComplete
<1>7. CASE Append1("manual") \/ Append2("manual")
  BY <1>0, <1>7, AppendIsComplete
<1> QED BY <1>1, <1>2, <1>3, <1>4, <1>5, <1>6, <1>7 DEF Next, Step

LEMMA CompleteStart == ScrapeInit => CompleteInv
<1> SUFFICES ASSUME ScrapeInit PROVE CompleteInv
  OBVIOUS
<1>1. /\ out["manual"] = <<>> /\ todo["manual"] = <<>> /\ job["manual"] = "none" /\ cut["manual"] = 0
  BY DEF ScrapeInit, Procs
<1>2. \A k, rec : ~ToWrite(k, rec)
  <2>1. DOMAIN out["manual"] = {}
    BY <1>1, BatchListIsSequence
  <2> QED BY <2>1 DEF ToWrite
<1> QED BY <1>1, <1>2, IssuedStart DEF CompleteInv, BeginsInv, ListFirstInv, RacesInv

\* A late job for the venue that came to its end has left nothing out, whatever the
\* others appended meanwhile (runner.py, run_once).
THEOREM JobsAreComplete == ScrapeSpec => []CompleteAfterwards
<1>1. FilesInv /\ HandInv /\ RefundInv /\ CompleteInv => CompleteAfterwards
  <2> SUFFICES ASSUME FilesInv, HandInv, RefundInv, CompleteInv,
                      job["manual"] = "done", LateJob,
                      NEW r \in Races, At("races", Poor(r)) # {}
               PROVE  /\ {Deba(r), Mark(r)} \subseteq asked
                      /\ \E a \in asked : a.page = "odds" /\ a.race = r
                      /\ \A h \in Horses : Wrote("race_entries", Rec(r, h, "entry"))
                      /\ RichLast(r)
    BY DEF CompleteAfterwards, LateJob, At, Poor, Rich, Deba, Mark, RichLast
  <2>1. out["manual"] = <<>> /\ todo["manual"] = <<>>
    BY DEF HandInv, RefundInv, Active, Procs
  <2>2. \A k, rec : ~ToWrite(k, rec)
    <3>1. DOMAIN out["manual"] = {}
      BY <2>1, BatchListIsSequence
    <3> QED BY <3>1 DEF ToWrite
  <2>3. Ahead = asked
    BY <2>1, BatchListIsSequence DEF Ahead, Range
  <2>4. HasRace(Ahead, r) /\ (Deba(r) \in asked => CardWritten(r))
    BY DEF CompleteInv, RacesInv, Seen
  <2> QED BY <2>2, <2>3, <2>4 DEF HasRace, CardWritten
<1> QED BY <1>1, FilesInvHolds, HandStart, HandInvStep, PagesStart, PagesStep, RefundStart, RefundStep,
           CompleteStart, CompleteStep, PTL DEF ScrapeSpec
=============================================================================
