-------------------------- MODULE AccessoryProofs --------------------------
(***************************************************************************)
(* For every interval, window, span, batch and set of fetches: the types,  *)
(* and, of an accessory that is heard under its primary keys, by how much  *)
(* the indices searched can miss it, and that a fetch finds the newest     *)
(* report, in however many requests.                                       *)
(***************************************************************************)
EXTENDS Accessory, TLAPS, FiniteSetTheorems, WellFoundedInduction

USE IntervalAssumption, WindowAssumption, SpanAssumption, BatchAssumption

-----------------------------------------------------------------------------
(* Numbers *)

\* a set of integers that is bounded below has the least element that min()
\* returns
LEMMA LeastInt ==
  ASSUME NEW lo \in Int, NEW S, S \subseteq {x \in Int : lo <= x}, S # {}
  PROVE  Least(S) \in S /\ \A y \in S : Least(S) <= y
<1> DEFINE T == {n \in Nat : n + lo \in S}
<1>1. T # {} /\ T \subseteq Nat
  <2>1. PICK x \in S : TRUE
    OBVIOUS
  <2>2. x - lo \in Nat /\ (x - lo) + lo = x
    OBVIOUS
  <2> QED
    BY <2>1, <2>2
<1>2. PICK m \in T : \A n \in T : ~(<<n, m>> \in OpToRel(<, Nat))
  <2> HIDE DEF T
  <2> QED
    BY <1>1, NatLessThanWellFounded, WFMin
<1>3. \A n \in T : m <= n
  <2>1. SUFFICES ASSUME NEW n \in T, ~(m <= n) PROVE FALSE
    OBVIOUS
  <2>2. n \in Nat /\ m \in Nat /\ n < m
    BY <2>1
  <2>3. <<n, m>> \in OpToRel(<, Nat)
    BY <2>2 DEF OpToRel
  <2> QED
    BY <1>2, <2>3
<1>4. m + lo \in S /\ \A y \in S : m + lo <= y
  <2>1. SUFFICES ASSUME NEW y \in S PROVE m + lo <= y
    OBVIOUS
  <2>2. y - lo \in Nat /\ (y - lo) + lo = y
    OBVIOUS
  <2>3. m <= y - lo
    BY <1>3, <2>2
  <2> QED
    BY <2>3
<1> HIDE DEF T
<1> QED
  BY <1>4 DEF Least

\* whole intervals in a stretch of time
LEMMA DivNat == \A x \in Nat : x \div Interval \in Nat
OBVIOUS

\* the indices the accessory may be at are integers on either side of the
\* alignment
LEMMA IndexType ==
  ASSUME NEW a \in Alignment, NEW t \in Int
  PROVE  /\ MinIndex(a, t) \in Int /\ MinIndex(a, t) <= a.index
         /\ MaxIndex(a, t) \in Nat /\ a.index <= MaxIndex(a, t)
<1>1. a.date \in Nat /\ a.index \in Nat
  BY DEF Alignment
<1>2. CASE t >= a.date
  <2>1. t - a.date \in Nat
    BY <1>1, <1>2
  <2>2. (t - a.date) \div Interval \in Nat
    BY <2>1, DivNat
  <2> QED
    BY <1>1, <1>2, <2>2 DEF MinIndex, MaxIndex
<1>3. CASE t < a.date
  <2>1. a.date - t \in Nat
    BY <1>1, <1>3
  <2>2. (a.date - t) \div Interval \in Nat
    BY <2>1, DivNat
  <2> QED
    BY <1>1, <1>3, <2>2 DEF MinIndex, MaxIndex
<1> QED
  BY <1>1, <1>2, <1>3

\* the keys of one index fit into a request
LEMMA OneFits == ASSUME NEW i \in Int PROVE Fits(i, i)
<1> DEFINE p == <<"p", i>>
           s == <<"s", i \div Span + 1>>
           q == <<"s", i \div Span + 2>>
<1>1. KeysOf(i, i) \subseteq {p, s, q}
  BY DEF KeysOf, KeysAt
<1>2. OfType(KeysOf(i, i), "p") \subseteq {p} /\ OfType(KeysOf(i, i), "s") \subseteq {s, q}
  BY <1>1 DEF OfType
<1>3. /\ IsFiniteSet({p}) /\ Cardinality({p}) <= Batch
      /\ IsFiniteSet({s, q}) /\ Cardinality({s, q}) <= Batch
  <2> HIDE DEF p, s, q
  <2>1. IsFiniteSet({s}) /\ Cardinality({s}) = 1 /\ IsFiniteSet({p}) /\ Cardinality({p}) = 1
    BY FS_Singleton
  <2>2. {s, q} = {s} \cup {q}
    OBVIOUS
  <2>3. IsFiniteSet({s, q}) /\ Cardinality({s, q}) <= 2
    BY <2>1, <2>2, FS_AddElement
  <2>4. Batch \in Nat /\ 1 <= Batch /\ 2 <= Batch
    BY BatchAssumption
  <2>5. Cardinality({s, q}) \in Nat
    BY <2>3, FS_CardinalityType
  <2> QED
    BY <2>1, <2>3, <2>4, <2>5
<1>4. \A T : T \subseteq {p} => Cardinality(T) \in Nat /\ Cardinality(T) <= Batch
  BY <1>3, FS_Subset, FS_CardinalityType
<1>5. \A T : T \subseteq {s, q} => Cardinality(T) \in Nat /\ Cardinality(T) <= Batch
  BY <1>3, FS_Subset, FS_CardinalityType
<1> HIDE DEF p, s, q
<1> QED
  BY <1>2, <1>4, <1>5 DEF Fits

-----------------------------------------------------------------------------
(* The inductive invariant *)

Held(rep) == rep.time <= now

\* a request in flight asks for a stretch of the sweep, and what is being
\* decrypted was found under the keys of that stretch
Sweep(r) ==
  /\ r.pc # "idle" => r.low <= r.hi /\ r.hi <= r.top
  /\ r.pc # "decoding" => r.pending = {}
  /\ \A rep \in r.pending : Held(rep) /\ rep.key \in KeysOf(r.low, r.hi)

IInv ==
  /\ TypeOK
  /\ \A rep \in heard \cup apple : Held(rep)
  /\ \A f \in Fetches : Sweep(fetch[f])

\* what Ask makes of a sweep that has reached hi
LEMMA AskSweeps ==
  ASSUME TypeOK, NEW r \in Fetch, r.pending = {}, NEW hi \in Int, hi <= r.top
  PROVE  Ask(r, hi) \in Fetch /\ Sweep(Ask(r, hi)) /\ Ask(r, hi).pending = {}
<1> DEFINE min == MinIndex(align, r.start)
           bottom == IF min > hi THEN hi ELSE min
           S == {l \in bottom..hi : Fits(l, hi)}
           low == Least(S)
           res == [r EXCEPT !.pc = "asked", !.low = low, !.hi = hi,
                            !.final = (low = bottom), !.since = now - Window]
<1>1. min \in Int
  BY IndexType DEF TypeOK, Fetch
<1>2. bottom \in Int /\ bottom <= hi
  BY <1>1
<1>3. S \subseteq {x \in Int : bottom <= x} /\ hi \in S
  BY <1>2, OneFits
<1>4. low \in S
  <2> HIDE DEF S, bottom
  <2> QED
    BY <1>2, <1>3, LeastInt
<1>5. low \in Int /\ low <= hi
  BY <1>2, <1>4
<1>6. Ask(r, hi) = res
  BY DEF Ask
<1>7. now - Window \in Int /\ (low = bottom) \in BOOLEAN
  BY DEF TypeOK
<1> HIDE DEF low, bottom, S, min
<1>8. res \in Fetch
  BY <1>5, <1>7 DEF Fetch
<1>9. res.pc = "asked" /\ res.low = low /\ res.hi = hi /\ res.top = r.top /\ res.pending = {}
  BY DEF Fetch
<1> HIDE DEF res
<1> QED
  BY <1>5, <1>6, <1>8, <1>9 DEF Sweep

\* the alignment that update_alignment leaves is one of a time that has come
LEMMA UpdatedType ==
  ASSUME NEW a \in Alignment, NEW t \in Nat, NEW i \in Int, t <= now, a.date <= now
  PROVE  Updated(a, t, i) \in Alignment /\ Updated(a, t, i).date <= now
BY DEF Updated, Alignment

\* the index taken for a key that was asked for is one of the sweep's
LEMMA LowestSwept ==
  ASSUME NEW r \in Fetch, r.hi <= r.top, NEW k, k \in KeysOf(r.low, r.hi)
  PROVE  Lowest(r, k) \in Int /\ k \in KeysAt(Lowest(r, k))
<1> DEFINE S == {i \in r.low..r.top : k \in KeysAt(i)}
<1>1. r.low \in Int /\ r.top \in Int /\ r.hi \in Int
  BY DEF Fetch
<1>2. S # {} /\ S \subseteq {x \in Int : r.low <= x}
  BY <1>1 DEF KeysOf
<1>3. Least(S) \in S
  <2> HIDE DEF S
  <2> QED
    BY <1>1, <1>2, LeastInt
<1> QED
  BY <1>3 DEF Lowest

\* an idle fetch is well typed
LEMMA IdleType ==
  ASSUME NEW o \in {"none", "returned", "failed"}
  PROVE  Idle(o) \in Fetch /\ Idle(o).pc = "idle" /\ Idle(o).pending = {} /\ Idle(o).top = 0
BY DEF Idle, Fetch

\* replacing the locals of one fetch
LEMMA OneFetch ==
  ASSUME IInv, UNCHANGED <<now, index, age, heard, apple>>,
         align' \in Alignment, align'.date <= now,
         NEW f \in Fetches, NEW r \in Fetch, Sweep(r), fetch' = [fetch EXCEPT ![f] = r]
  PROVE  IInv'
<1>1. TypeOK'
  BY DEF IInv, TypeOK
<1>2. \A g \in Fetches : fetch'[g] = IF g = f THEN r ELSE fetch[g]
  BY DEF IInv, TypeOK
<1>3. \A g \in Fetches : Sweep(fetch'[g])
  BY <1>2 DEF IInv
<1> QED
  BY <1>1, <1>3 DEF IInv, Sweep, Held
\* it holds when the accessory has just been paired
LEMMA InitIInv == Init => IInv
BY IdleType DEF Init, IInv, TypeOK, Alignment, Sweep

\* the world moves on: nothing a sweep holds is lost
LEMMA WorldPreserves == IInv /\ (Tick \/ Heard \/ Upload) => IInv'
<1> SUFFICES ASSUME IInv, Tick \/ Heard \/ Upload PROVE IInv'
  OBVIOUS
<1>1. now \in Nat /\ index \in Nat /\ age \in 0..Interval
  BY DEF IInv, TypeOK
<1>2. CASE Tick
  <2>1. now' \in Nat /\ now' >= now /\ index' \in Nat /\ age' \in 0..Interval
    BY <1>1, <1>2 DEF Tick
  <2>2. \A rep \in Report : Held(rep) => Held(rep)'
    BY <1>1, <2>1 DEF Held, Report
  <2>3. TypeOK'
    BY <1>1, <1>2, <2>1 DEF Tick, IInv, TypeOK, Alignment
  <2>4. \A f \in Fetches : fetch[f] \in Fetch /\ fetch'[f] = fetch[f]
    BY <1>2 DEF Tick, IInv, TypeOK
  <2>5. \A f \in Fetches : Sweep(fetch[f])'
    BY <2>2, <2>4 DEF IInv, Sweep, Fetch
  <2> QED
    BY <1>2, <2>2, <2>3, <2>5 DEF Tick, IInv, TypeOK
<1>3. CASE Heard
  <2>1. \A k \in Broadcast : [time |-> now, key |-> k] \in Report
    <3>1. (index + PairingOffset) \div Span + 1 \in Nat
      BY <1>1
    <3> QED
      BY <1>1, <3>1 DEF Broadcast, Secondary, Report
  <2>2. PICK k \in Broadcast : heard' = heard \cup {[time |-> now, key |-> k]}
    BY <1>3 DEF Heard
  <2>3. heard' \in SUBSET Report /\ \A rep \in heard' : Held(rep)
    BY <1>1, <2>1, <2>2 DEF IInv, TypeOK, Held
  <2> QED
    BY <1>3, <2>3 DEF Heard, IInv, TypeOK, Sweep, Held
<1>4. CASE Upload
  BY <1>4 DEF Upload, IInv, TypeOK, Sweep, Held
<1> QED
  BY <1>2, <1>3, <1>4

\* the alignment of a scan is of this moment
LEMMA ScanPreserves == IInv /\ Scan => IInv'
<1> SUFFICES ASSUME IInv, Scan PROVE IInv'
  OBVIOUS
<1>0. now \in Nat /\ align \in Alignment /\ align.date <= now
  BY DEF IInv, TypeOK
<1>1. PICK k \in Broadcast, m \in {0, Margin} :
        LET S == {i \in MinIndex(align, now - m)..MaxIndex(align, now + m) : k \in KeysAt(i)}
        IN  S # {} /\ align' = Updated(align, now, Least(S))
  BY DEF Scan
<1> DEFINE lo == MinIndex(align, now - m)
           S == {i \in lo..MaxIndex(align, now + m) : k \in KeysAt(i)}
<1>2. lo \in Int
  BY <1>0, IndexType
<1>3. S # {} /\ S \subseteq {x \in Int : lo <= x} /\ align' = Updated(align, now, Least(S))
  BY <1>1
<1>4. Least(S) \in Int
  <2> HIDE DEF S, lo
  <2> QED
    BY <1>2, <1>3, LeastInt
<1> HIDE DEF S, lo
<1>5. align' \in Alignment /\ align'.date <= now
  BY <1>0, <1>3, <1>4, UpdatedType
<1> QED
  BY <1>5 DEF Scan, world, IInv, TypeOK, Sweep, Held

\* every step of a fetch keeps its sweep in order
LEMMA FetchPreserves ==
  ASSUME IInv, NEW f \in Fetches, Call(f) \/ Resume(f) \/ Fail(f)
  PROVE  IInv'
<1>0. /\ TypeOK /\ fetch[f] \in Fetch /\ Sweep(fetch[f]) /\ now \in Nat
      /\ align \in Alignment /\ align.date <= now /\ apple \subseteq Report
  BY DEF IInv, TypeOK
<1>1. CASE Call(f)
  <2> DEFINE i == Idle("none")
             top == MaxIndex(align, now)
             r == [i EXCEPT !.start = now - Window, !.top = top, !.due = Due]
  <2>1. i \in Fetch /\ i.pending = {}
    BY IdleType
  <2>2. top \in Int /\ now - Window \in Int /\ Due \in SUBSET Nat
    BY <1>0, IndexType DEF Due, Report
  <2>3. fetch' = [fetch EXCEPT ![f] = Ask(r, top)]
    BY <1>1 DEF Call
  <2> HIDE DEF i, top
  <2>4. r \in Fetch /\ r.pending = {} /\ r.top = top
    BY <2>1, <2>2 DEF Fetch
  <2> HIDE DEF r
  <2>5. Ask(r, top) \in Fetch /\ Sweep(Ask(r, top))
    BY <1>0, <2>2, <2>4, AskSweeps
  <2> QED
    BY <1>0, <1>1, <2>3, <2>5, OneFetch DEF Call, world
<1>2. CASE Found(f)
  <2> DEFINE r == [fetch[f] EXCEPT !.pc = "decoding", !.pending = Answer(fetch[f])]
  <2>1. /\ fetch[f].pc = "asked" /\ fetch' = [fetch EXCEPT ![f] = r]
        /\ UNCHANGED <<now, index, age, heard, apple, align>>
    BY <1>2 DEF Found, world
  <2>2. Answer(fetch[f]) \in SUBSET Report
    BY <1>0 DEF Answer
  <2>3. r \in Fetch /\ r.low = fetch[f].low /\ r.hi = fetch[f].hi /\ r.top = fetch[f].top
        /\ r.pending = Answer(fetch[f]) /\ r.pc = "decoding"
    BY <1>0, <2>2 DEF Fetch
  <2>4. \A rep \in Answer(fetch[f]) :
          Held(rep) /\ rep.key \in KeysOf(fetch[f].low, fetch[f].hi)
    BY DEF Answer, IInv
  <2> HIDE DEF r
  <2>5. Sweep(r)
    BY <1>0, <2>1, <2>3, <2>4 DEF Sweep
  <2> QED
    BY <1>0, <2>1, <2>3, <2>5, OneFetch
<1>3. CASE NotFound(f)
  <2> DEFINE r == fetch[f]
  <2>1. r.pc = "asked" /\ UNCHANGED <<now, index, age, heard, apple, align>>
    BY <1>3 DEF NotFound, world
  <2>2. fetch' = [fetch EXCEPT ![f] = IF r.final THEN Idle("returned") ELSE Ask(r, r.low - 1)]
    BY <1>3 DEF NotFound
  <2>3. r.low - 1 \in Int /\ r.low - 1 <= r.top
    BY <1>0, <2>1 DEF Sweep, Fetch
  <2>4. r.pending = {}
    BY <1>0, <2>1 DEF Sweep
  <2>5. /\ Idle("returned") \in Fetch /\ Sweep(Idle("returned"))
        /\ Ask(r, r.low - 1) \in Fetch /\ Sweep(Ask(r, r.low - 1))
    BY <1>0, <2>3, <2>4, IdleType, AskSweeps DEF Sweep
  <2> QED
    BY <1>0, <2>1, <2>2, <2>5, OneFetch
<1>4. CASE Fail(f)
  BY <1>0, <1>4, IdleType, OneFetch DEF Fail, world, Sweep
<1>5. CASE Decrypt(f)
  <2>1. PICK rep \in fetch[f].pending :
          LET r == [fetch[f] EXCEPT !.pending = @ \ {rep}, !.ret = @ \cup {rep}]
          IN  /\ align' = Updated(align, rep.time, Lowest(r, rep.key))
              /\ fetch' = [fetch EXCEPT ![f] = IF r.pending = {}
                                               THEN Idle("returned") ELSE r]
    BY <1>5 DEF Decrypt
  <2> DEFINE r == [fetch[f] EXCEPT !.pending = @ \ {rep}, !.ret = @ \cup {rep}]
  <2>2. /\ r \in Fetch /\ r.low = fetch[f].low /\ r.hi = fetch[f].hi
        /\ r.top = fetch[f].top /\ r.pending \subseteq fetch[f].pending
        /\ r.pc = fetch[f].pc
    BY <1>0 DEF Fetch
  <2>3. /\ align' = Updated(align, rep.time, Lowest(r, rep.key))
        /\ fetch' = [fetch EXCEPT ![f] = IF r.pending = {} THEN Idle("returned") ELSE r]
        /\ UNCHANGED <<now, index, age, heard, apple>> /\ fetch[f].pc = "decoding"
    BY <1>5, <2>1 DEF Decrypt, world
  <2>4. rep.time \in Nat /\ rep.time <= now /\ rep.key \in KeysOf(r.low, r.hi) /\ r.hi <= r.top
    BY <1>0, <2>2, <2>3 DEF Sweep, Held, Fetch, Report
  <2> HIDE DEF r
  <2>5. align' \in Alignment /\ align'.date <= now
    BY <1>0, <2>2, <2>3, <2>4, LowestSwept, UpdatedType
  <2>6. Sweep(r)
    BY <1>0, <2>2, <2>3 DEF Sweep
  <2>7. Idle("returned") \in Fetch /\ Sweep(Idle("returned"))
    BY IdleType DEF Sweep
  <2> QED
    BY <2>2, <2>3, <2>5, <2>6, <2>7, OneFetch
<1> QED
  BY <1>1, <1>2, <1>3, <1>4, <1>5 DEF Resume

\* no step breaks the invariant
LEMMA NextIInv == IInv /\ [Next]_vars => IInv'
<1>1. IInv /\ UNCHANGED vars => IInv'
  BY DEF vars, IInv, TypeOK, Sweep, Held
<1> QED
  BY <1>1, WorldPreserves, ScanPreserves, FetchPreserves DEF Next

\* the invariant holds in every reachable state
LEMMA Invariant == Spec => []IInv
BY InitIInv, NextIInv, PTL DEF Spec

\* The variables of the tracker stay in their types, and no report or scan
\* dates the alignment in the future.
THEOREM TypeCorrect == Spec => []TypeOK
<1>1. IInv => TypeOK
  BY DEF IInv
<1> QED
  BY <1>1, Invariant, PTL

-----------------------------------------------------------------------------
(* An accessory near its owner *)

\* where a report puts the accessory
Moment(rep) == [date |-> rep.time, index |-> rep.key[2]]

Here == [date |-> now, index |-> index]

\* what the tracker may come to know of the accessory's past
Moments == {align} \cup {Moment(rep) : rep \in heard \cup apple}

\* since then the accessory rolled over at most once an interval, and once
\* for the interval it was in
Past(m) ==
  /\ m.date <= now /\ m.index <= index
  /\ Interval * (index - m.index) + age <= now - m.date + Interval
  /\ m.date = now => m.index = index

\* the same, from one moment of the past to another
Paced(m, n) ==
  m.date <= n.date =>
    m.index <= n.index /\ Interval * (n.index - m.index) <= n.date - m.date + Interval

PaceInv ==
  /\ \A rep \in heard \cup apple : rep.key[1] = "p"
  /\ \A f \in Fetches : fetch[f].pending \subseteq apple
  /\ \A m \in Moments : Past(m)
  /\ \A m, n \in Moments : Paced(m, n)

\* a primary key belongs to one index
LEMMA PrimaryKey ==
  ASSUME NEW i \in Int, NEW k, k[1] = "p", k \in KeysAt(i)
  PROVE  k[2] = i
BY DEF KeysAt

\* multiples of the interval
LEMMA Times ==
  \A x \in Int : Interval * x \in Int /\ Interval * (x + 1) = Interval * x + Interval
OBVIOUS

\* the moments are dated and indexed
LEMMA MomentType == IInv => Moments \subseteq Alignment /\ Here \in Alignment
<1> SUFFICES ASSUME IInv PROVE Moments \subseteq Alignment /\ Here \in Alignment
  OBVIOUS
<1>1. \A rep \in Report : rep.time \in Nat /\ rep.key[2] \in Nat
  BY DEF Report
<1>2. \A rep \in heard \cup apple : Moment(rep) \in Alignment
  BY <1>1 DEF IInv, TypeOK, Moment, Alignment
<1> QED
  BY <1>2 DEF IInv, TypeOK, Moments, Here, Alignment

\* this moment follows every other at the accessory's pace
LEMMA HerePaced ==
  ASSUME IInv
  PROVE  /\ Past(Here) /\ Paced(Here, Here)
         /\ \A m \in Alignment : Past(m) => Paced(m, Here) /\ Paced(Here, m)
<1>1. now \in Nat /\ index \in Nat /\ age \in Nat /\ age <= Interval
  BY DEF IInv, TypeOK
<1>2. Here.date = now /\ Here.index = index
  BY DEF Here
<1>3. Interval * (index - index) = 0 /\ Interval \in Nat
  BY <1>1
<1>4. ASSUME NEW m \in Alignment, Past(m)
      PROVE  Paced(m, Here) /\ Paced(Here, m)
  <2> DEFINE w == Interval * (index - m.index)
  <2>1. m.date \in Nat /\ m.index \in Nat /\ w \in Int
    BY <1>1, Times DEF Alignment
  <2>2. /\ m.date <= now /\ m.index <= index /\ w + age <= now - m.date + Interval
        /\ m.date = now => m.index = index
    BY <1>4 DEF Past
  <2>3. Paced(m, Here)
    <3>1. w <= now - m.date + Interval
      <4> HIDE DEF w
      <4> QED
        BY <1>1, <1>3, <2>1, <2>2
    <3> QED
      BY <1>2, <2>2, <3>1 DEF Paced
  <2>4. Paced(Here, m)
    <3>1. SUFFICES ASSUME now <= m.date
                   PROVE  /\ index <= m.index
                          /\ Interval * (m.index - index) <= m.date - now + Interval
      BY <1>2 DEF Paced
    <3>2. m.date = now /\ m.index = index
      <4> HIDE DEF w
      <4> QED
        BY <1>1, <2>1, <2>2, <3>1
    <3> QED
      BY <1>1, <1>3, <3>2
  <2> QED
    BY <2>3, <2>4
<1>5. Past(Here)
  BY <1>1, <1>2, <1>3 DEF Past
<1>6. Paced(Here, Here)
  BY <1>1, <1>2, <1>3 DEF Paced
<1> QED
  BY <1>4, <1>5, <1>6

\* it is enough that a step learns of no moment but those known and this one
LEMMA PaceKept ==
  ASSUME IInv, PaceInv, UNCHANGED <<now, index, age>>,
         Moments' \subseteq Moments \cup {Here},
         \A rep \in (heard \cup apple)' : rep.key[1] = "p",
         \A f \in Fetches : fetch'[f].pending \subseteq apple'
  PROVE  PaceInv'
<1>1. \A m \in Moments \cup {Here} : Past(m)
  BY HerePaced DEF PaceInv
<1>2. \A m, n \in Moments \cup {Here} : Paced(m, n)
  BY <1>1, HerePaced, MomentType DEF PaceInv
<1>3. \A m : Past(m) => Past(m)'
  BY DEF Past
<1>4. \A m \in Moments' : Past(m)'
  BY <1>1, <1>3
<1>5. \A m, n \in Moments' : Paced(m, n)
  BY <1>2
<1> QED
  BY <1>4, <1>5 DEF PaceInv, Paced

\* a rollover takes an interval
LEMMA TickPace ==
  ASSUME IInv, PaceInv, Tick
  PROVE  PaceInv'
<1>1. now \in Nat /\ index \in Nat /\ age \in Nat /\ age <= Interval /\ Interval \in Nat
  BY DEF IInv, TypeOK
<1>2. UNCHANGED <<heard, apple, align, fetch>> /\ now' = now + 1
  BY DEF Tick
<1>3. Moments' = Moments
  BY <1>2 DEF Moments
<1>4. ASSUME NEW m \in Alignment, Past(m)
      PROVE  Past(m)'
  <2> DEFINE w == Interval * (index - m.index)
             v == Interval * (index' - m.index)
  <2>1. m.date \in Nat /\ m.index \in Nat /\ w \in Int
    BY <1>1, Times DEF Alignment
  <2>2. m.date <= now /\ m.index <= index /\ w + age <= now - m.date + Interval
    BY <1>4 DEF Past
  <2>3. CASE index' = index /\ age' = IF age < Interval THEN age + 1 ELSE age
    <3>1. v = w /\ age' <= age + 1 /\ age' \in Nat
      BY <1>1, <2>3
    <3>2. v + age' <= now' - m.date + Interval
      <4> HIDE DEF w, v
      <4> QED
        BY <1>1, <1>2, <2>1, <2>2, <3>1
    <3> QED
      BY <1>1, <1>2, <2>1, <2>2, <2>3, <3>2 DEF Past
  <2>4. CASE age + 1 >= Interval /\ index' = index + 1 /\ age' = 0
    <3>1. index' - m.index = (index - m.index) + 1 /\ index - m.index \in Int
      BY <1>1, <2>1, <2>4
    <3>2. v = w + Interval
      BY <3>1, Times
    <3>3. v + age' <= now' - m.date + Interval
      <4> HIDE DEF w, v
      <4> QED
        BY <1>1, <1>2, <2>1, <2>2, <2>4, <3>2
    <3> QED
      BY <1>1, <1>2, <2>1, <2>2, <2>4, <3>3 DEF Past
  <2> QED
    BY <2>3, <2>4 DEF Tick
<1>5. \A m \in Moments' : Past(m)'
  BY <1>3, <1>4, MomentType DEF PaceInv
<1> QED
  BY <1>2, <1>3, <1>5 DEF PaceInv, Paced

\* the accessory is heard where it is
LEMMA HeardPace ==
  ASSUME ~Separated, IInv, PaceInv, Heard \/ Upload
  PROVE  PaceInv'
<1>0. UNCHANGED <<now, index, age, align, fetch>>
  BY DEF Heard, Upload
<1>1. CASE Heard
  <2>1. PICK k \in Broadcast : heard' = heard \cup {[time |-> now, key |-> k]}
    BY <1>1 DEF Heard
  <2> DEFINE new == [time |-> now, key |-> k]
  <2>2. k = <<"p", index>> /\ apple' = apple
    BY <1>1 DEF Broadcast, Heard
  <2>3. Moment(new) = Here /\ new.key[1] = "p"
    BY <2>2 DEF Moment, Here
  <2> HIDE DEF new
  <2>4. (heard \cup apple)' = (heard \cup apple) \cup {new}
    BY <2>1, <2>2 DEF new
  <2>5. Moments' \subseteq Moments \cup {Here}
    BY <1>0, <2>3, <2>4 DEF Moments, Moment
  <2>6. \A rep \in (heard \cup apple)' : rep.key[1] = "p"
    BY <2>3, <2>4 DEF PaceInv
  <2>7. \A f \in Fetches : fetch'[f].pending \subseteq apple'
    BY <1>0, <2>2 DEF PaceInv
  <2> QED
    BY <1>0, <2>5, <2>6, <2>7, PaceKept
<1>2. CASE Upload
  <2>1. (heard \cup apple)' = heard \cup apple /\ apple \subseteq apple'
    BY <1>2 DEF Upload
  <2>2. Moments' = Moments
    BY <1>0, <2>1 DEF Moments
  <2>3. \A rep \in (heard \cup apple)' : rep.key[1] = "p"
    BY <2>1 DEF PaceInv
  <2>4. \A f \in Fetches : fetch'[f].pending \subseteq apple'
    BY <1>0, <2>1 DEF PaceInv
  <2> QED
    BY <1>0, <2>2, <2>3, <2>4, PaceKept
<1> QED
  BY <1>1, <1>2

\* a scan aligns at this very moment
LEMMA ScanPace ==
  ASSUME ~Separated, IInv, PaceInv, Scan
  PROVE  PaceInv'
<1>0. now \in Nat /\ index \in Nat /\ align \in Alignment
  BY DEF IInv, TypeOK
<1>1. PICK k \in Broadcast, m \in {0, Margin} :
        LET S == {i \in MinIndex(align, now - m)..MaxIndex(align, now + m) : k \in KeysAt(i)}
        IN  S # {} /\ align' = Updated(align, now, Least(S))
  BY DEF Scan
<1> DEFINE lo == MinIndex(align, now - m)
           S == {i \in lo..MaxIndex(align, now + m) : k \in KeysAt(i)}
<1>2. lo \in Int
  BY <1>0, IndexType
<1>3. S # {} /\ S \subseteq {x \in Int : lo <= x} /\ align' = Updated(align, now, Least(S))
  BY <1>1
<1>4. Least(S) \in S
  <2> HIDE DEF S, lo
  <2> QED
    BY <1>2, <1>3, LeastInt
<1>5. k = <<"p", index>> /\ Least(S) \in Int /\ k \in KeysAt(Least(S))
  BY <1>4 DEF Broadcast
<1> HIDE DEF S, lo
<1>6. Least(S) = index
  BY <1>5, PrimaryKey
<1>7. align' \in {align, Here}
  BY <1>3, <1>6 DEF Updated, Here
<1>8. UNCHANGED <<now, index, age, heard, apple, fetch>>
  BY DEF Scan, world
<1>9. Moments' \subseteq Moments \cup {Here}
  BY <1>7, <1>8 DEF Moments
<1> QED
  BY <1>8, <1>9, PaceKept DEF PaceInv

\* what sending a request leaves of the locals
LEMMA AskKeeps ==
  ASSUME NEW r \in Fetch, NEW hi
  PROVE  LET a == Ask(r, hi)
         IN  /\ a.pc = "asked" /\ a.outcome = r.outcome /\ a.start = r.start
             /\ a.hi = hi /\ a.since = now - Window
             /\ a.pending = r.pending /\ a.due = r.due
BY DEF Ask, Fetch

\* the locals as a call begins
LEMMA CallType ==
  ASSUME IInv
  PROVE  LET r == [Idle("none") EXCEPT !.start = now - Window,
                                       !.top = MaxIndex(align, now), !.due = Due]
         IN  /\ r \in Fetch /\ r.pending = {} /\ r.outcome = "none"
             /\ r.start = now - Window /\ r.top = MaxIndex(align, now) /\ r.due = Due
<1>1. now - Window \in Int /\ MaxIndex(align, now) \in Int /\ Due \in SUBSET Nat
  BY IndexType DEF IInv, TypeOK, Due, Report
<1> DEFINE i == Idle("none")
<1>2. i \in Fetch /\ i.pending = {} /\ i.outcome = "none"
  BY IdleType DEF Idle
<1> HIDE DEF i
<1>3. LET r == [i EXCEPT !.start = now - Window, !.top = MaxIndex(align, now), !.due = Due]
      IN  /\ r \in Fetch /\ r.pending = {} /\ r.outcome = "none"
          /\ r.start = now - Window /\ r.top = MaxIndex(align, now) /\ r.due = Due
  BY <1>1, <1>2 DEF Fetch
<1> QED
  BY <1>3 DEF i

\* a fetch aligns at the moment of a report it has found
LEMMA FetchPace ==
  ASSUME IInv, PaceInv, NEW f \in Fetches, Call(f) \/ Resume(f) \/ Fail(f)
  PROVE  PaceInv'
<1>0. /\ TypeOK /\ fetch[f] \in Fetch /\ Sweep(fetch[f]) /\ align \in Alignment
      /\ UNCHANGED <<now, index, age, heard, apple>>
  BY DEF IInv, TypeOK, Call, Resume, Fail, Found, NotFound, Decrypt, world
<1>1. ASSUME NEW r, fetch' = [fetch EXCEPT ![f] = r],
             r.pending \subseteq apple, align' \in Moments
      PROVE  PaceInv'
  <2>1. \A g \in Fetches : fetch'[g] = IF g = f THEN r ELSE fetch[g]
    BY <1>1 DEF IInv, TypeOK
  <2>2. \A g \in Fetches : fetch'[g].pending \subseteq apple'
    BY <1>0, <1>1, <2>1 DEF PaceInv
  <2>3. Moments' \subseteq Moments
    BY <1>0, <1>1 DEF Moments
  <2>4. \A rep \in (heard \cup apple)' : rep.key[1] = "p"
    BY <1>0 DEF PaceInv
  <2> QED
    BY <1>0, <2>2, <2>3, <2>4, PaceKept
<1>2. align \in Moments
  BY DEF Moments
<1>3. CASE Found(f)
  <2> DEFINE r == [fetch[f] EXCEPT !.pc = "decoding", !.pending = Answer(fetch[f])]
  <2>1. r.pending \subseteq apple
    BY <1>0 DEF Answer, Fetch
  <2>2. fetch' = [fetch EXCEPT ![f] = r] /\ align' = align
    BY <1>3 DEF Found, world
  <2> HIDE DEF r
  <2> QED
    BY <1>1, <1>2, <2>1, <2>2
<1>4. CASE Decrypt(f)
  <2>1. PICK rep \in fetch[f].pending :
          LET r == [fetch[f] EXCEPT !.pending = @ \ {rep}, !.ret = @ \cup {rep}]
          IN  /\ align' = Updated(align, rep.time, Lowest(r, rep.key))
              /\ fetch' = [fetch EXCEPT ![f] = IF r.pending = {}
                                               THEN Idle("returned") ELSE r]
    BY <1>4 DEF Decrypt
  <2> DEFINE r == [fetch[f] EXCEPT !.pending = @ \ {rep}, !.ret = @ \cup {rep}]
  <2>2. /\ r \in Fetch /\ r.low = fetch[f].low /\ r.hi = fetch[f].hi
        /\ r.top = fetch[f].top /\ r.pending \subseteq fetch[f].pending
    BY <1>0 DEF Fetch
  <2>3. /\ align' = Updated(align, rep.time, Lowest(r, rep.key))
        /\ fetch' = [fetch EXCEPT ![f] = IF r.pending = {} THEN Idle("returned") ELSE r]
        /\ fetch[f].pc = "decoding"
    BY <1>4, <2>1 DEF Decrypt
  <2>4. /\ rep \in apple /\ fetch[f].pending \subseteq apple /\ rep.key[1] = "p"
        /\ rep.key \in KeysOf(r.low, r.hi) /\ r.hi <= r.top
    BY <1>0, <2>2, <2>3 DEF Sweep, PaceInv
  <2> HIDE DEF r
  <2>5. Lowest(r, rep.key) = rep.key[2]
    BY <2>2, <2>4, LowestSwept, PrimaryKey
  <2>6. align' \in {align, Moment(rep)}
    BY <2>3, <2>5 DEF Updated, Moment
  <2>7. align' \in Moments
    BY <2>4, <2>6 DEF Moments
  <2>8. Idle("returned").pending = {}
    BY IdleType
  <2> QED
    BY <1>1, <2>2, <2>3, <2>4, <2>7, <2>8
<1>5. CASE Call(f) \/ NotFound(f) \/ Fail(f)
  <2>0. align' \in Moments
    BY <1>2, <1>5 DEF Call, NotFound, Fail, world
  <2>1. \E r : r.pending = {} /\ fetch' = [fetch EXCEPT ![f] = r]
    <3>1. CASE Call(f)
      BY <3>1, CallType, AskKeeps DEF Call
    <3>2. CASE NotFound(f)
      <4>1. fetch[f].pending = {} /\ Idle("returned").pending = {}
        BY <1>0, <3>2, IdleType DEF Sweep, NotFound
      <4>2. Ask(fetch[f], fetch[f].low - 1).pending = {}
        BY <1>0, <4>1, AskKeeps
      <4> QED
        BY <3>2, <4>1, <4>2 DEF NotFound
    <3>3. CASE Fail(f)
      BY <3>3, IdleType DEF Fail
    <3> QED
      BY <1>5, <3>1, <3>2, <3>3
  <2> QED
    BY <1>1, <2>0, <2>1
<1> QED
  BY <1>3, <1>4, <1>5 DEF Resume

\* every moment of the past stays at the accessory's pace
LEMMA Pace == ASSUME ~Separated PROVE Spec => []PaceInv
<1>1. Init => PaceInv
  <2> SUFFICES ASSUME Init PROVE PaceInv
    OBVIOUS
  <2>1. Moments = {Here} /\ IInv
    BY InitIInv DEF Init, Moments, Here
  <2>2. \A f \in Fetches : fetch[f].pending = {}
    BY IdleType DEF Init
  <2> QED
    BY <2>1, <2>2, HerePaced DEF Init, PaceInv
<1>2. IInv /\ PaceInv /\ [Next]_vars => PaceInv'
  <2>1. PaceInv /\ UNCHANGED vars => PaceInv'
    BY DEF vars, PaceInv, Past, Paced, Moments
  <2> QED
    BY <2>1, TickPace, HeardPace, ScanPace, FetchPace DEF Next
<1> QED
  BY <1>1, <1>2, Invariant, PTL DEF Spec

\* whole intervals that fit into a stretch of time
LEMMA Whole ==
  ASSUME NEW x \in Nat, NEW y \in Int, Interval * y <= x
  PROVE  y <= x \div Interval
OBVIOUS

\* get_max_index is exceeded by an accessory heard under its primary keys, but
\* never by more than the one rollover whose phase the alignment does not know;
\* get_min_index never is.
THEOREM SearchMisses == ASSUME ~Separated PROVE Spec => []SearchMissesAtMostOne
<1>1. IInv /\ PaceInv => SearchMissesAtMostOne
  <2> SUFFICES ASSUME IInv, PaceInv PROVE SearchMissesAtMostOne
    OBVIOUS
  <2>1. /\ now \in Nat /\ index \in Nat /\ age \in Nat /\ Interval \in Nat
        /\ align.date \in Nat /\ align.index \in Nat /\ align.date <= now
    BY DEF IInv, TypeOK, Alignment
  <2>2. Past(align)
    BY DEF PaceInv, Moments
  <2> DEFINE x == index - align.index
             w == Interval * (x - 1)
             v == Interval * x
  <2>3. x - 1 \in Int /\ w \in Int /\ v \in Int /\ v = w + Interval
    <3>1. x - 1 \in Int /\ x = (x - 1) + 1
      BY <2>1
    <3> QED
      BY <3>1, Times
  <2>4. align.index <= index /\ v + age <= now - align.date + Interval
    BY <2>2 DEF Past
  <2>5. w <= now - align.date
    <3> HIDE DEF v, w
    <3> QED
      BY <2>1, <2>3, <2>4
  <2>6. now - align.date \in Nat
    BY <2>1
  <2>7. x - 1 <= (now - align.date) \div Interval
    BY <2>3, <2>5, <2>6, Whole
  <2>8. MinIndex(align, now) = align.index
    BY <2>1 DEF MinIndex
  <2>9. index <= MaxIndex(align, now) + 1
    <3> DEFINE d == (now - align.date) \div Interval
    <3>1. d \in Nat /\ x - 1 <= d
      BY <2>6, <2>7, DivNat
    <3>2. MaxIndex(align, now) = align.index + d \/ (MaxIndex(align, now) = align.index /\ now = align.date)
      BY <2>1 DEF MaxIndex
    <3>3. now = align.date => index = align.index
      BY <2>2 DEF Past
    <3> HIDE DEF d
    <3> QED
      BY <2>1, <3>1, <3>2, <3>3
  <2> QED
    BY <2>4, <2>8, <2>9 DEF SearchMissesAtMostOne
<1> QED
  BY <1>1, Invariant, Pace, PTL

-----------------------------------------------------------------------------
(* What a fetch finds *)

\* while a request is in flight: a report that was due when the call began
\* lies under the keys that are still to be asked for
Sought(r, rep) ==
  /\ rep.time >= r.since => rep.key[2] <= r.hi
  /\ r.final => r.low <= rep.key[2]

Seeks(r) ==
  /\ r.pc = "idle" => r.due = {}
  /\ r.pc # "idle" => r.outcome = "none" /\ r.since <= now - Window
  /\ \A t \in r.due : t >= r.start + Interval
  /\ r.pc = "asked" => \A t \in r.due : \E rep \in apple : rep.time = t /\ Sought(r, rep)
  /\ r.pc = "decoding" =>
       \A t \in r.due : t >= r.since => \E s \in r.ret \cup r.pending : s.time >= t

SeekInv == \A f \in Fetches : Seeks(fetch[f])

\* a report an interval into the window of a fetch lies at or above the
\* lowest index it searches, wherever the alignment has moved meanwhile
LEMMA NotBelow ==
  ASSUME IInv, PaceInv, NEW rep \in apple, NEW start \in Int, rep.time >= start + Interval
  PROVE  MinIndex(align, start) <= rep.key[2]
<1> DEFINE i == rep.key[2]
<1>1. /\ rep.time \in Nat /\ i \in Nat /\ align.date \in Nat /\ align.index \in Nat
      /\ Interval \in Nat
  BY DEF IInv, TypeOK, Report, Alignment
<1>2. Paced(align, Moment(rep)) /\ Paced(Moment(rep), align)
  BY DEF PaceInv, Moments
<1>3. /\ align.date <= rep.time => align.index <= i
      /\ rep.time <= align.date =>
           Interval * (align.index - i) <= align.date - rep.time + Interval
  BY <1>2 DEF Paced, Moment
<1>4. CASE start >= align.date
  BY <1>1, <1>3, <1>4 DEF MinIndex
<1>5. CASE start < align.date
  <2> DEFINE d == (align.date - start) \div Interval
             w == Interval * (align.index - i)
  <2>1. align.date - start \in Nat /\ align.index - i \in Int
    BY <1>1, <1>5
  <2>2. d \in Nat /\ w \in Int
    BY <2>1, DivNat, Times
  <2>3. MinIndex(align, start) = align.index - d
    BY <1>1, <1>5 DEF MinIndex
  <2>4. CASE align.date <= rep.time
    <3>1. align.index <= i
      BY <1>3, <2>4
    <3> HIDE DEF d
    <3> QED
      BY <1>1, <2>2, <2>3, <3>1
  <2>5. CASE rep.time < align.date
    <3>1. w <= align.date - rep.time + Interval
      BY <1>1, <1>3, <2>5
    <3>2. w <= align.date - start
      <4> HIDE DEF w, i
      <4> QED
        BY <1>1, <2>2, <3>1
    <3>3. align.index - i <= d
      BY <2>1, <3>2, Whole
    <3> HIDE DEF d, w
    <3> QED
      BY <1>1, <2>2, <2>3, <3>3
  <2> QED
    BY <1>1, <2>4, <2>5
<1> QED
  BY <1>1, <1>4, <1>5

\* and one that is an interval old at or below the highest
LEMMA NotAbove ==
  ASSUME IInv, PaceInv, NEW rep \in apple, rep.time <= now - Interval
  PROVE  rep.key[2] <= MaxIndex(align, now)
<1> DEFINE i == rep.key[2]
<1>1. /\ rep.time \in Nat /\ i \in Nat /\ align.date \in Nat /\ align.index \in Nat
      /\ Interval \in Nat /\ now \in Nat /\ align.date <= now
  BY DEF IInv, TypeOK, Report, Alignment
<1>2. Paced(align, Moment(rep)) /\ Paced(Moment(rep), align)
  BY DEF PaceInv, Moments
<1>3. /\ rep.time <= align.date => i <= align.index
      /\ align.date <= rep.time =>
           Interval * (i - align.index) <= rep.time - align.date + Interval
  BY <1>2 DEF Paced, Moment
<1>4. CASE rep.time <= align.date
  <2>1. align.index <= MaxIndex(align, now)
    BY IndexType DEF IInv, TypeOK
  <2>2. MaxIndex(align, now) \in Nat
    BY IndexType DEF IInv, TypeOK
  <2> QED
    BY <1>1, <1>3, <1>4, <2>1, <2>2
<1>5. CASE align.date < rep.time
  <2> DEFINE d == (now - align.date) \div Interval
             w == Interval * (i - align.index)
  <2>1. now - align.date \in Nat /\ i - align.index \in Int
    BY <1>1
  <2>2. d \in Nat /\ w \in Int
    BY <2>1, DivNat, Times
  <2>3. w <= rep.time - align.date + Interval
    BY <1>1, <1>3, <1>5
  <2>4. w <= now - align.date
    <3> HIDE DEF w, i
    <3> QED
      BY <1>1, <2>2, <2>3
  <2>5. i - align.index <= d
    BY <2>1, <2>4, Whole
  <2>6. MaxIndex(align, now) = align.index + d
    BY <1>1, <1>5 DEF MaxIndex
  <2> HIDE DEF d, w
  <2> QED
    BY <1>1, <2>2, <2>5, <2>6
<1> QED
  BY <1>1, <1>4, <1>5

\* what is asked for is found: a primary key names its index
LEMMA Answered ==
  ASSUME IInv, PaceInv, NEW r \in Fetch, NEW rep \in apple
  PROVE  /\ rep.time >= r.since /\ r.low <= rep.key[2] /\ rep.key[2] <= r.hi =>
              rep \in Answer(r)
         /\ rep \in Answer(r) => r.low <= rep.key[2]
<1>1. /\ r.low \in Int /\ r.hi \in Int /\ rep.key[2] \in Nat /\ rep.key[1] = "p"
      /\ rep.key = <<"p", rep.key[2]>>
  BY DEF PaceInv, IInv, TypeOK, Report, Fetch
<1>2. rep.key \in KeysAt(rep.key[2])
  <2>1. <<"p", rep.key[2]>> \in KeysAt(rep.key[2])
    BY <1>1 DEF KeysAt
  <2> QED
    BY <1>1, <2>1
<1>3. rep.key \in KeysOf(r.low, r.hi) => r.low <= rep.key[2]
  <2>1. SUFFICES ASSUME NEW i \in r.low..r.hi, rep.key \in KeysAt(i)
                 PROVE  r.low <= rep.key[2]
    BY DEF KeysOf
  <2>2. rep.key[2] = i
    BY <1>1, <2>1, PrimaryKey
  <2> QED
    BY <1>1, <2>2
<1>4. r.low <= rep.key[2] /\ rep.key[2] <= r.hi => rep.key \in KeysOf(r.low, r.hi)
  BY <1>1, <1>2 DEF KeysOf
<1> QED
  BY <1>3, <1>4 DEF Answer

\* a request starts where the last one found nothing, and the last of a
\* sweep reaches the lower bound of its moment
LEMMA AskSeeks ==
  ASSUME IInv, PaceInv, NEW r \in Fetch, r.pending = {}, r.outcome = "none",
         NEW hi \in Int, hi <= r.top,
         \A t \in r.due : /\ t >= r.start + Interval
                          /\ \E rep \in apple :
                               rep.time = t /\ (t >= now - Window => rep.key[2] <= hi)
  PROVE  Seeks(Ask(r, hi))
<1> DEFINE min == MinIndex(align, r.start)
           bottom == IF min > hi THEN hi ELSE min
           S == {l \in bottom..hi : Fits(l, hi)}
           a == Ask(r, hi)
<1>1. now \in Nat /\ align \in Alignment /\ r.start \in Int /\ min \in Int
  BY IndexType DEF IInv, TypeOK, Fetch
<1>2. bottom <= min /\ bottom \in Int
  BY <1>1
<1>3. a.final => a.low = bottom
  BY DEF Ask, Fetch
<1>4. /\ a.pc = "asked" /\ a.outcome = "none" /\ a.start = r.start
      /\ a.hi = hi /\ a.since = now - Window /\ a.due = r.due
  BY AskKeeps
<1>5. now - Window \in Int /\ a.since <= now - Window
  BY <1>1, <1>4
<1> HIDE DEF a, S, bottom
<1>6. ASSUME NEW t \in a.due
      PROVE  /\ t >= a.start + Interval
             /\ \E rep \in apple : rep.time = t /\ Sought(a, rep)
  <2>1. PICK rep \in apple : rep.time = t /\ (t >= now - Window => rep.key[2] <= hi)
    BY <1>4, <1>6
  <2>2. t >= r.start + Interval
    BY <1>4, <1>6
  <2>3. min <= rep.key[2]
    BY <1>1, <2>1, <2>2, NotBelow
  <2>4. rep.key[2] \in Nat
    BY DEF IInv, TypeOK, Report
  <2>5. bottom <= rep.key[2]
    <3> HIDE DEF min
    <3> QED
      BY <1>1, <1>2, <2>3, <2>4
  <2>6. Sought(a, rep)
    BY <1>3, <1>4, <2>1, <2>5 DEF Sought
  <2> QED
    BY <1>4, <2>1, <2>2, <2>6
<1> QED
  BY <1>4, <1>5, <1>6 DEF Seeks, a

\* time passes and reports come in: a sweep seeks no less
LEMMA WorldSeeks ==
  ASSUME IInv, SeekInv, Tick \/ Heard \/ Upload \/ Scan
  PROVE  SeekInv'
<1>1. /\ fetch' = fetch /\ apple \subseteq apple' /\ now \in Nat /\ now' \in Nat
      /\ now' >= now
  BY DEF Tick, Heard, Upload, Scan, world, IInv, TypeOK
<1>2. ASSUME NEW r \in Fetch, Seeks(r) PROVE Seeks(r)'
  <2>1. r.pc # "idle" => r.since <= now' - Window
    BY <1>1, <1>2 DEF Seeks, Fetch
  <2>2. r.pc = "asked" => \A t \in r.due : \E rep \in apple' : rep.time = t /\ Sought(r, rep)
    BY <1>1, <1>2 DEF Seeks
  <2> QED
    BY <1>2, <2>1, <2>2 DEF Seeks, Sought
<1>3. \A f \in Fetches : fetch[f] \in Fetch
  BY DEF IInv, TypeOK
<1> QED
  BY <1>1, <1>2, <1>3 DEF SeekInv, Seeks, Sought

\* when no report is left under the keys that were asked for, every due one
\* is further down, and there is none if these were the last
LEMMA NoneHere ==
  ASSUME IInv, PaceInv, SeekInv, NEW f \in Fetches,
         fetch[f].pc = "asked", Answer(fetch[f]) = {},
         NEW t \in fetch[f].due
  PROVE  /\ t >= fetch[f].since => ~fetch[f].final
         /\ \E rep \in apple :
              rep.time = t /\ (t >= fetch[f].since => rep.key[2] <= fetch[f].low - 1)
<1> DEFINE r == fetch[f]
<1>1. r \in Fetch /\ Seeks(r) /\ r.low \in Int
  BY DEF IInv, TypeOK, SeekInv, Fetch
<1>2. PICK rep \in apple : rep.time = t /\ Sought(r, rep)
  BY <1>1 DEF Seeks
<1>3. rep.key[2] \in Nat
  BY DEF IInv, TypeOK, Report
<1>4. ~(rep.time >= r.since /\ r.low <= rep.key[2] /\ rep.key[2] <= r.hi)
  BY <1>1, Answered
<1>5. t >= r.since => ~(r.low <= rep.key[2])
  BY <1>2, <1>4 DEF Sought
<1>6. t >= r.since => rep.key[2] <= r.low - 1
  BY <1>1, <1>3, <1>5
<1> QED
  BY <1>2, <1>5, <1>6 DEF Sought

\* a fetch goes on seeking until it ends
LEMMA FetchSeeks ==
  ASSUME IInv, PaceInv, SeekInv, NEW f \in Fetches, Call(f) \/ Resume(f) \/ Fail(f)
  PROVE  SeekInv'
<1>0. /\ TypeOK /\ fetch[f] \in Fetch /\ Sweep(fetch[f]) /\ Seeks(fetch[f])
      /\ now \in Nat /\ UNCHANGED <<now, index, age, heard, apple>>
  BY DEF IInv, SeekInv, TypeOK, Call, Resume, Fail, Found, NotFound, Decrypt, world
<1>1. ASSUME NEW r, fetch' = [fetch EXCEPT ![f] = r], Seeks(r)
      PROVE  SeekInv'
  <2>1. \A g \in Fetches : fetch'[g] = IF g = f THEN r ELSE fetch[g]
    BY <1>1 DEF IInv, TypeOK
  <2>2. \A g \in Fetches : Seeks(fetch'[g])
    BY <1>1, <2>1 DEF SeekInv
  <2> QED
    BY <1>0, <2>2 DEF SeekInv, Seeks, Sought
<1>2. ASSUME NEW o \in {"none", "returned", "failed"} PROVE Seeks(Idle(o))
  BY DEF Idle, Seeks
<1>3. CASE Call(f)
  <2> DEFINE top == MaxIndex(align, now)
             r == [Idle("none") EXCEPT !.start = now - Window, !.top = top, !.due = Due]
  <2>1. fetch' = [fetch EXCEPT ![f] = Ask(r, top)]
    BY <1>3 DEF Call
  <2>2. /\ r \in Fetch /\ r.pending = {} /\ r.outcome = "none"
        /\ r.start = now - Window /\ r.top = top /\ r.due = Due
    BY CallType
  <2>3. top \in Int
    BY IndexType DEF IInv, TypeOK
  <2>4. top <= r.top
    BY <2>2, <2>3
  <2>5. ASSUME NEW t \in Due
        PROVE  /\ t >= now - Window + Interval
               /\ \E rep \in apple : rep.time = t /\ rep.key[2] <= top
    BY NotAbove DEF Due
  <2> HIDE DEF r, top
  <2>6. \A t \in r.due : /\ t >= r.start + Interval
                         /\ \E rep \in apple :
                              rep.time = t /\ (t >= now - Window => rep.key[2] <= top)
    BY <2>2, <2>5
  <2>7. Seeks(Ask(r, top))
    BY <2>2, <2>3, <2>4, <2>6, AskSeeks
  <2> QED
    BY <1>1, <2>1, <2>7
<1>4. CASE Found(f)
  <2> DEFINE r == [fetch[f] EXCEPT !.pc = "decoding", !.pending = Answer(fetch[f])]
  <2>1. /\ fetch[f].pc = "asked" /\ Answer(fetch[f]) # {}
        /\ fetch' = [fetch EXCEPT ![f] = r]
    BY <1>4 DEF Found
  <2>2. /\ r.pc = "decoding" /\ r.outcome = fetch[f].outcome /\ r.since = fetch[f].since
        /\ r.due = fetch[f].due /\ r.start = fetch[f].start /\ r.pending = Answer(fetch[f])
    BY <1>0 DEF Fetch
  <2>3. ASSUME NEW t \in fetch[f].due, t >= fetch[f].since
        PROVE  \E s \in Answer(fetch[f]) : s.time >= t
    <3>1. PICK rep \in apple : rep.time = t /\ Sought(fetch[f], rep)
      BY <1>0, <2>1 DEF Seeks
    <3>2. rep.key[2] <= fetch[f].hi /\ rep.time \in Nat /\ rep.key[2] \in Nat
      BY <2>3, <3>1 DEF Sought, IInv, TypeOK, Report
    <3>3. CASE fetch[f].low <= rep.key[2]
      <4>1. rep \in Answer(fetch[f])
        BY <1>0, <2>3, <3>1, <3>2, <3>3, Answered
      <4> QED
        BY <3>1, <3>2, <4>1
    <3>4. CASE ~(fetch[f].low <= rep.key[2])
      <4>1. PICK s \in Answer(fetch[f]) : TRUE
        BY <2>1
      <4>2. s \in apple /\ fetch[f].low <= s.key[2]
        BY <1>0, Answered DEF Answer
      <4>3. s.time \in Nat /\ s.key[2] \in Nat /\ fetch[f].low \in Int
        BY <1>0, <4>2 DEF IInv, TypeOK, Report, Fetch
      <4>4. Paced(Moment(s), Moment(rep))
        BY <4>2 DEF PaceInv, Moments
      <4>5. s.time <= rep.time => s.key[2] <= rep.key[2]
        BY <4>4 DEF Paced, Moment
      <4>6. s.time >= t
        BY <3>1, <3>2, <3>4, <4>2, <4>3, <4>5
      <4> QED
        BY <4>6
    <3> QED
      BY <3>3, <3>4
  <2> HIDE DEF r
  <2>4. Seeks(r)
    BY <1>0, <2>1, <2>2, <2>3 DEF Seeks
  <2> QED
    BY <1>1, <2>1, <2>4
<1>5. CASE NotFound(f)
  <2> DEFINE r == fetch[f]
             hi == r.low - 1
  <2>1. r.pc = "asked" /\ Answer(r) = {}
    BY <1>5 DEF NotFound
  <2>2. fetch' = [fetch EXCEPT ![f] = IF r.final THEN Idle("returned") ELSE Ask(r, hi)]
    BY <1>5 DEF NotFound
  <2>3. hi \in Int /\ hi <= r.top /\ r.pending = {} /\ r.outcome = "none"
    BY <1>0, <2>1 DEF Sweep, Seeks, Fetch
  <2>4. ASSUME NEW t \in r.due
        PROVE  /\ t >= r.start + Interval
               /\ \E rep \in apple :
                    rep.time = t /\ (t >= now - Window => rep.key[2] <= hi)
    <3>1. PICK rep \in apple : rep.time = t /\ (t >= r.since => rep.key[2] <= hi)
      BY <2>1, NoneHere
    <3>2. r.since <= now - Window /\ r.since \in Int /\ t \in Nat
      BY <1>0, <2>1 DEF Seeks, Fetch
    <3>3. t >= now - Window => t >= r.since
      BY <1>0, <3>2
    <3>4. t >= r.start + Interval
      BY <1>0 DEF Seeks
    <3> QED
      BY <3>1, <3>3, <3>4
  <2>5. Seeks(Ask(r, hi))
    BY <1>0, <2>3, <2>4, AskSeeks
  <2> QED
    BY <1>1, <1>2, <2>2, <2>5
<1>6. CASE Decrypt(f)
  <2>1. PICK rep \in fetch[f].pending :
          LET r == [fetch[f] EXCEPT !.pending = @ \ {rep}, !.ret = @ \cup {rep}]
          IN  fetch' = [fetch EXCEPT ![f] = IF r.pending = {}
                                            THEN Idle("returned") ELSE r]
    BY <1>6 DEF Decrypt
  <2> DEFINE r == [fetch[f] EXCEPT !.pending = @ \ {rep}, !.ret = @ \cup {rep}]
  <2>2. /\ r.pc = "decoding" /\ r.outcome = fetch[f].outcome /\ r.since = fetch[f].since
        /\ r.due = fetch[f].due /\ r.start = fetch[f].start
        /\ r.ret \cup r.pending = fetch[f].ret \cup fetch[f].pending
        /\ fetch[f].pc = "decoding"
    BY <1>0, <1>6 DEF Fetch, Decrypt
  <2>3. fetch' = [fetch EXCEPT ![f] = IF r.pending = {} THEN Idle("returned") ELSE r]
    BY <2>1
  <2> HIDE DEF r
  <2>4. Seeks(r)
    BY <1>0, <2>2 DEF Seeks
  <2> QED
    BY <1>1, <1>2, <2>3, <2>4
<1>7. CASE Fail(f)
  BY <1>1, <1>2, <1>7 DEF Fail
<1> QED
  BY <1>3, <1>4, <1>5, <1>6, <1>7 DEF Resume

\* a step with which a fetch returns has found what it sought
LEMMA StepFinds ==
  ASSUME IInv, PaceInv, SeekInv, [Next]_vars
  PROVE  FindsNewest
<1> SUFFICES ASSUME NEW f \in Fetches, fetch'[f].outcome = "returned",
                    NEW t \in fetch[f].due, t >= fetch[f].since
             PROVE  \E r \in fetch[f].ret \cup fetch[f].pending : r.time >= t
  BY DEF FindsNewest
<1>0. /\ fetch[f] \in Fetch /\ Seeks(fetch[f]) /\ fetch[f].pc # "idle"
      /\ fetch[f].outcome = "none" /\ DOMAIN fetch = Fetches
  BY DEF IInv, TypeOK, SeekInv, Seeks
<1>1. fetch'[f] # fetch[f]
  BY <1>0
<1>2. Resume(f) \/ Fail(f)
  <2>1. ~(Tick \/ Heard \/ Upload \/ Scan) /\ ~UNCHANGED vars /\ ~Call(f)
    BY <1>0, <1>1 DEF Tick, Heard, Upload, Scan, vars, Call
  <2>2. PICK g \in Fetches : Call(g) \/ Resume(g) \/ Fail(g)
    BY <2>1 DEF Next
  <2>3. g # f => fetch'[f] = fetch[f]
    BY <1>0, <2>2 DEF Call, Resume, Fail, Found, NotFound, Decrypt
  <2> QED
    BY <1>1, <2>1, <2>2, <2>3
<1>3. CASE Found(f)
  <2>1. fetch'[f].outcome = "none"
    BY <1>0, <1>3 DEF Found, Fetch
  <2> QED
    BY <2>1
<1>4. CASE NotFound(f)
  <2>1. ~fetch[f].final
    BY <1>4, NoneHere DEF NotFound
  <2>2. fetch'[f] = Ask(fetch[f], fetch[f].low - 1)
    BY <1>0, <1>4, <2>1 DEF NotFound
  <2>3. fetch'[f].outcome = "none"
    BY <1>0, <2>2, AskKeeps
  <2> QED
    BY <2>3
<1>5. CASE Fail(f)
  BY <1>0, <1>5 DEF Fail, Idle
<1>6. CASE Decrypt(f)
  BY <1>0, <1>6 DEF Decrypt, Seeks
<1> QED
  BY <1>2, <1>3, <1>4, <1>5, <1>6 DEF Resume

\* A fetch of an accessory heard under its primary keys that returns has
\* found the newest report Apple held when it was called and its last request
\* still looks back to: into however many requests the sweep is split,
\* whatever moves the alignment while it awaits them.
THEOREM FetchFinds == ASSUME ~Separated PROVE Spec => FetchFindsNewest
<1>1. Init => SeekInv
  BY DEF Init, SeekInv, Seeks, Idle
<1>2. IInv /\ PaceInv /\ SeekInv /\ [Next]_vars => SeekInv'
  <2>1. SeekInv /\ UNCHANGED vars => SeekInv'
    BY DEF vars, SeekInv, Seeks, Sought
  <2> QED
    BY <2>1, WorldSeeks, FetchSeeks DEF Next
<1>3. IInv /\ PaceInv /\ SeekInv /\ [Next]_vars => [FindsNewest]_vars
  BY StepFinds
<1> QED
  BY <1>1, <1>2, <1>3, Invariant, Pace, PTL DEF Spec, FetchFindsNewest
=============================================================================
