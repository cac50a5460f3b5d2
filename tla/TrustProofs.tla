---------------------------- MODULE TrustProofs ----------------------------
(***************************************************************************)
(* What a joining client knows and asserts is right for any circle, any    *)
(* feed of changes, any way it is cut into pages, and any resets.          *)
(***************************************************************************)
EXTENDS Trust, TLAPS, FiniteSetTheorems, WellFoundedInduction, SequenceTheorems

Change == Statement \cup {Unreadable}

\* a change that states something of p
Of(changes, p) == {i \in DOMAIN changes : changes[i] # Unreadable /\ changes[i].peer = p}

IsDirectory(d) ==
  /\ d = [p \in DOMAIN d |-> d[p]] /\ DOMAIN d \subseteq Names
  /\ \A p \in DOMAIN d : d[p] \in Statement /\ d[p].peer = p

-----------------------------------------------------------------------------
(* Applying changes to a directory *)

\* Of the places in a sequence there is a last.
LEMMA HasLast ==
  ASSUME NEW n \in Nat, NEW S \in SUBSET (1 .. n), S # {}
  PROVE  \E x \in S : \A y \in S : y <= x
<1> DEFINE Over(x) == {m \in S : m > x}
           T == {Over(x) : x \in S}
<1>a. IsFiniteSet(S)
  <2>1. IsFiniteSet(1 .. n)
    BY FS_Interval
  <2> QED BY <2>1, FS_Subset
<1>0. ASSUME NEW y \in S, NEW x \in S, y > x
      PROVE  Over(y) \subseteq Over(x) /\ y \in Over(x) /\ y \notin Over(y)
  <2>1. \A m \in S : m \in Nat /\ (m > y => m > x) /\ ~(y > y)
    BY <1>0
  <2> QED BY <1>0, <2>1
<1>1. T \subseteq FiniteSubsetsOf(S) /\ T # {}
  <2>1. \A x \in S : Over(x) \in SUBSET S
    OBVIOUS
  <2>2. T \subseteq SUBSET S /\ T # {}
    BY <2>1
  <2> HIDE DEF T
  <2> QED BY <2>2, <1>a, FS_FiniteSubsetsOfFinite
<1>2. PICK t \in T : \A u \in T : <<u, t>> \notin StrictSubsetOrdering(S)
  <2> HIDE DEF T
  <2> QED BY <1>1, <1>a, FS_StrictSubsetOrderingWellFounded, WFMin
<1>3. PICK x \in S : t = Over(x)
  OBVIOUS
<1>4. \A y \in S : y <= x
  <2> SUFFICES ASSUME NEW y \in S, y > x PROVE FALSE
    OBVIOUS
  <2>1. Over(y) \subseteq Over(x) /\ y \in Over(x) /\ y \notin Over(y)
    BY <1>0
  <2>2. Over(y) \in T /\ Over(y) \subseteq S /\ Over(x) \subseteq S
    OBVIOUS
  <2> HIDE DEF Over
  <2>3. <<Over(y), Over(x)>> \in StrictSubsetOrdering(S)
    BY <2>1, <2>2 DEF StrictSubsetOrdering
  <2> QED BY <1>2, <1>3, <2>2, <2>3
<1> QED BY <1>4

\* Who is stated has a place.
LEMMA StatedOf ==
  ASSUME NEW s \in Seq(Change)
  PROVE  \A p : p \in Stated(s) <=> Of(s, p) # {}
  BY DEF Stated, Of

\* What Last gives is the statement at the last place.
LEMMA LastAt ==
  ASSUME NEW s \in Seq(Change), NEW p, NEW i \in Of(s, p), \A j \in Of(s, p) : j <= i
  PROVE  Last(s, p) = s[i]
<1>1. Of(s, p) \subseteq Int
  BY DEF Of
<1>2. \A k \in Of(s, p) : (\A j \in Of(s, p) : j <= k) => k = i
  BY <1>1
<1>3. (CHOOSE k \in Of(s, p) : \A j \in Of(s, p) : j <= k) = i
  BY <1>2
<1> QED BY <1>3 DEF Last, Of

\* There is a last place.
LEMMA LastExists ==
  ASSUME NEW s \in Seq(Change), NEW p \in Stated(s)
  PROVE  \E i \in Of(s, p) : (\A j \in Of(s, p) : j <= i) /\ Last(s, p) = s[i]
<1>1. Of(s, p) \in SUBSET (1 .. Len(s)) /\ Of(s, p) # {} /\ Len(s) \in Nat
  BY StatedOf DEF Of
<1>2. PICK i \in Of(s, p) : \A j \in Of(s, p) : j <= i
  BY <1>1, HasLast
<1> QED BY <1>2, LastAt

\* It is a statement of that peer.
LEMMA LastIsStated ==
  ASSUME NEW s \in Seq(Change), NEW p \in Stated(s)
  PROVE  Last(s, p) \in Statement /\ Last(s, p).peer = p
<1>1. PICK i \in Of(s, p) : Last(s, p) = s[i]
  BY LastExists
<1>2. s[i] \in Change /\ s[i] # Unreadable /\ s[i].peer = p
  BY DEF Of
<1> QED BY <1>1, <1>2 DEF Change

\* apply_changes makes a directory of a directory.
LEMMA ApplyDirectory ==
  ASSUME NEW d, IsDirectory(d), NEW s \in Seq(Change)
  PROVE  IsDirectory(Apply(d, s))
<1> DEFINE e == Apply(d, s)
<1>1. DOMAIN e = DOMAIN d \cup Stated(s)
  BY DEF Apply
<1>2. \A p \in Stated(s) : p \in Names /\ e[p] \in Statement /\ e[p].peer = p
  <2> SUFFICES ASSUME NEW p \in Stated(s) PROVE p \in Names /\ e[p] \in Statement /\ e[p].peer = p
    OBVIOUS
  <2>1. e[p] = Last(s, p)
    BY DEF Apply
  <2>2. Last(s, p) \in Statement /\ Last(s, p).peer = p
    BY LastIsStated
  <2> QED BY <2>1, <2>2 DEF Statement
<1>3. \A p \in DOMAIN d \ Stated(s) : e[p] = d[p]
  BY DEF Apply
<1>4. e = [p \in DOMAIN e |-> e[p]]
  BY DEF Apply
<1> HIDE DEF e
<1>5. IsDirectory(e)
  BY <1>1, <1>2, <1>3, <1>4 DEF IsDirectory
<1> QED BY <1>5 DEF e

\* Nothing is applied.
LEMMA ApplyNothing ==
  ASSUME NEW d, IsDirectory(d)
  PROVE  Apply(d, <<>>) = d
<1>1. Stated(<<>>) = {}
  BY DEF Stated
<1> QED BY <1>1 DEF Apply, IsDirectory

\* Two pages state what either states,
LEMMA StatedBoth ==
  ASSUME NEW u \in Seq(Change), NEW v \in Seq(Change)
  PROVE  Stated(u \o v) = Stated(u) \cup Stated(v)
<1> DEFINE w == u \o v
<1>1. /\ w \in Seq(Change) /\ Len(w) = Len(u) + Len(v) /\ Len(u) \in Nat /\ Len(v) \in Nat
      /\ \A i \in 1 .. Len(u) : w[i] = u[i]
      /\ \A i \in 1 .. Len(v) : w[Len(u) + i] = v[i]
      /\ DOMAIN u = 1 .. Len(u) /\ DOMAIN v = 1 .. Len(v) /\ DOMAIN w = 1 .. Len(w)
  BY ConcatProperties
<1> HIDE DEF w
<1>2. ASSUME NEW p, NEW i \in Of(w, p) PROVE p \in Stated(u) \cup Stated(v)
  <2>1. i \in 1 .. Len(u) + Len(v) /\ w[i] # Unreadable /\ w[i].peer = p
    BY <1>1 DEF Of
  <2>2. CASE i <= Len(u)
    <3>1. i \in Of(u, p)
      BY <1>1, <2>1, <2>2 DEF Of
    <3> QED BY <3>1, StatedOf
  <2>3. CASE i > Len(u)
    <3>1. i - Len(u) \in 1 .. Len(v) /\ w[i] = v[i - Len(u)]
      BY <1>1, <2>1, <2>3
    <3>2. i - Len(u) \in Of(v, p)
      BY <1>1, <2>1, <3>1 DEF Of
    <3> QED BY <3>2, StatedOf
  <2> QED BY <1>1, <2>1, <2>2, <2>3
<1>3. ASSUME NEW p, NEW i \in Of(u, p) PROVE p \in Stated(w)
  <2>1. i \in Of(w, p)
    BY <1>1 DEF Of
  <2> QED BY <1>1, <2>1, StatedOf
<1>4. ASSUME NEW p, NEW i \in Of(v, p) PROVE p \in Stated(w)
  <2>1. Len(u) + i \in Of(w, p)
    BY <1>1 DEF Of
  <2> QED BY <1>1, <2>1, StatedOf
<1>5. \A p : p \in Stated(w) <=> p \in Stated(u) \cup Stated(v)
  BY <1>1, <1>2, <1>3, <1>4, StatedOf
<1> QED BY <1>5 DEF w

\* and the later counts.
LEMMA LastOfBoth ==
  ASSUME NEW u \in Seq(Change), NEW v \in Seq(Change), NEW p \in Stated(u \o v)
  PROVE  Last(u \o v, p) = IF p \in Stated(v) THEN Last(v, p) ELSE Last(u, p)
<1> DEFINE w == u \o v
<1>1. /\ w \in Seq(Change) /\ Len(w) = Len(u) + Len(v) /\ Len(u) \in Nat /\ Len(v) \in Nat
      /\ \A i \in 1 .. Len(u) : w[i] = u[i]
      /\ \A i \in 1 .. Len(v) : w[Len(u) + i] = v[i]
      /\ DOMAIN u = 1 .. Len(u) /\ DOMAIN v = 1 .. Len(v) /\ DOMAIN w = 1 .. Len(w)
  BY ConcatProperties
<1> HIDE DEF w
<1>2. ASSUME NEW i \in Of(w, p)
      PROVE  i \in Of(u, p) \/ (i > Len(u) /\ i - Len(u) \in Of(v, p))
  <2>1. i \in 1 .. Len(u) + Len(v) /\ w[i] # Unreadable /\ w[i].peer = p
    BY <1>1 DEF Of
  <2>2. CASE i <= Len(u)
    BY <1>1, <2>1, <2>2 DEF Of
  <2>3. CASE i > Len(u)
    <3>1. i - Len(u) \in 1 .. Len(v) /\ w[i] = v[i - Len(u)]
      BY <1>1, <2>1, <2>3
    <3> QED BY <1>1, <2>1, <2>3, <3>1 DEF Of
  <2> QED BY <1>1, <2>1, <2>2, <2>3
<1>3. Of(u, p) \subseteq 1 .. Len(u) /\ Of(v, p) \subseteq 1 .. Len(v)
  BY <1>1 DEF Of
<1>4. CASE p \in Stated(v)
  <2>1. PICK k \in Of(v, p) : (\A j \in Of(v, p) : j <= k) /\ Last(v, p) = v[k]
    BY <1>4, LastExists
  <2>2. Len(u) + k \in Of(w, p) /\ w[Len(u) + k] = v[k]
    BY <1>1, <1>3 DEF Of
  <2>3. \A j \in Of(w, p) : j <= Len(u) + k
    <3> SUFFICES ASSUME NEW j \in Of(w, p) PROVE j <= Len(u) + k
      OBVIOUS
    <3>1. k \in Nat /\ j \in Int
      BY <1>1, <1>3 DEF Of
    <3>2. CASE j \in Of(u, p)
      BY <1>1, <1>3, <3>1, <3>2
    <3>3. CASE j - Len(u) \in Of(v, p)
      BY <1>1, <2>1, <3>1, <3>3
    <3> QED BY <1>2, <3>2, <3>3
  <2>4. Last(w, p) = w[Len(u) + k]
    BY <1>1, <2>2, <2>3, LastAt
  <2> QED BY <1>4, <2>1, <2>2, <2>4 DEF w
<1>5. CASE p \notin Stated(v)
  <2>1. p \in Stated(u)
    BY <1>5, StatedBoth
  <2>2. PICK k \in Of(u, p) : (\A j \in Of(u, p) : j <= k) /\ Last(u, p) = u[k]
    BY <2>1, LastExists
  <2>3. k \in Of(w, p) /\ w[k] = u[k]
    BY <1>1, <1>3 DEF Of
  <2>4. Of(v, p) = {}
    BY <1>5, StatedOf
  <2>5. \A j \in Of(w, p) : j <= k
    BY <1>2, <2>2, <2>4
  <2>6. Last(w, p) = w[k]
    BY <1>1, <2>3, <2>5, LastAt
  <2> QED BY <1>5, <2>2, <2>3, <2>6 DEF w
<1> QED BY <1>4, <1>5

\* Two pages in turn are as good as one.
LEMMA ApplyBoth ==
  ASSUME NEW d, NEW u \in Seq(Change), NEW v \in Seq(Change)
  PROVE  /\ Apply(Apply(d, u), v) = Apply(d, u \o v)
         /\ Apply(Apply(d, u), u \o v) = Apply(d, u \o v)
<1> DEFINE w == u \o v
           D == DOMAIN d \cup Stated(u) \cup Stated(v)
<1>1. Stated(w) = Stated(u) \cup Stated(v)
  BY StatedBoth
<1>2. \A p \in Stated(w) : Last(w, p) = IF p \in Stated(v) THEN Last(v, p) ELSE Last(u, p)
  BY LastOfBoth
<1> HIDE DEF w
<1>3. Apply(d, w) = [p \in D |-> IF p \in Stated(v) THEN Last(v, p)
                                 ELSE IF p \in Stated(u) THEN Last(u, p) ELSE d[p]]
  BY <1>1, <1>2 DEF Apply
<1>4. Apply(Apply(d, u), v) = [p \in D |-> IF p \in Stated(v) THEN Last(v, p)
                                 ELSE IF p \in Stated(u) THEN Last(u, p) ELSE d[p]]
  BY DEF Apply
<1>5. Apply(Apply(d, u), w) = [p \in D |-> IF p \in Stated(v) THEN Last(v, p)
                                 ELSE IF p \in Stated(u) THEN Last(u, p) ELSE d[p]]
  BY <1>1, <1>2 DEF Apply
<1> QED BY <1>3, <1>4, <1>5 DEF w

-----------------------------------------------------------------------------
(* What is read *)

\* the changes the token is not past
Rest == SubSeq(feed, Since(token) + 1, Len(feed))

\* types, and that with these changes the directory is the circle: a page
\* without a new token only repeats some of them
Synced ==
  /\ feed \in Seq(Change) /\ epoch \in Nat /\ pages \in Nat
  /\ IsDirectory(peers)
  /\ token = Nil => peers = Empty
  /\ token # Nil => token \in Token /\ token.epoch <= epoch
  /\ ~TokenExpired => Since(token) <= Len(feed) /\ Apply(peers, Rest) = CircleAfter(feed)

\* the read that is over had a token; the join that was sent is in the feed
Joining ==
  /\ pc \in {"merging", "ready", "sent"} => token # Nil
  /\ pc = "sent" /\ ~TokenExpired => Me \in Stated(feed)

\* what is asserted, while it is worked out
Merging ==
  /\ trust.inc \subseteq Names /\ trust.exc \subseteq Names /\ trust.clock \in Nat
  /\ trust = [inc |-> trust.inc, exc |-> trust.exc, clock |-> trust.clock]
  /\ sponsor \in DOMAIN peers
  /\ adopted \subseteq DOMAIN peers /\ ahead \subseteq DOMAIN peers
  /\ adopted \cap ahead = {}
  /\ \A p \in adopted \cup {sponsor} : peers[p].clock <= trust.clock
  /\ \A q \in ahead : trust.clock <= peers[q].clock
  /\ \A p \in adopted : peers[p].exc \subseteq trust.exc
  /\ \A S \in SUBSET Names :
       peers[sponsor].inc \subseteq S /\ Closed(S) => trust.inc \subseteq S

Ready ==
  /\ trust.inc \subseteq Names /\ trust.exc \subseteq Names /\ trust.clock \in Nat

Kept ==
  /\ Synced /\ Joining
  /\ pc = "merging" => Merging
  /\ pc = "ready" => Ready
  /\ RemovalStands /\ SentSupersedes /\ TrustInherited

\* An empty directory is one.
LEMMA EmptyDirectory == IsDirectory(Empty)
  BY DEF IsDirectory, Empty

\* The circle without a token is what the whole feed states.
LEMMA WholeFeed ==
  ASSUME feed \in Seq(Change), peers = Empty, token = Nil
  PROVE  /\ Since(token) = 0 /\ Rest = feed
         /\ Apply(peers, Rest) = CircleAfter(feed)
<1>1. Since(token) = 0
  BY DEF Since
<1>2. Rest = SubSeq(feed, 1, Len(feed))
  BY <1>1 DEF Rest
<1>3. Rest = feed
  BY <1>2, SubSeqFull
<1> QED BY <1>1, <1>3 DEF CircleAfter

\* Likewise after a step.
LEMMA WholeFeedNext ==
  ASSUME feed' \in Seq(Change), peers' = Empty, token' = Nil
  PROVE  /\ Since(token)' = 0
         /\ Apply(peers, Rest)' = CircleAfter(feed)'
<1>1. Since(token)' = 0
  BY DEF Since
<1>2. Rest' = SubSeq(feed', 1, Len(feed'))
  BY <1>1 DEF Rest
<1>3. Rest' = feed'
  BY <1>2, SubSeqFull
<1> QED BY <1>1, <1>3 DEF CircleAfter

\* What the new peer states is a statement.
LEMMA MineIsStatement ==
  ASSUME Ready PROVE Mine \in Statement /\ Mine.peer = Me
BY DEF Ready, Mine, Statement, Names

\* The start.
LEMMA KeptAtFirst == TrustInit => Kept
<1> SUFFICES ASSUME TrustInit PROVE Kept
  OBVIOUS
<1>1. feed \in Seq(Change) /\ feed = <<>>
  BY DEF TrustInit
<1>2. Synced
  BY <1>1, EmptyDirectory, WholeFeed DEF TrustInit, Synced, TokenExpired
<1> QED BY <1>2 DEF TrustInit, Kept, Joining, RemovalStands, SentSupersedes, TrustInherited

\* What is left after a place grows by what is added.
LEMMA RestOfMore ==
  ASSUME NEW f \in Seq(Change), NEW c \in Change, NEW t \in Nat, t <= Len(f)
  PROVE  SubSeq(Append(f, c), t + 1, Len(f) + 1) = SubSeq(f, t + 1, Len(f)) \o <<c>>
<1> DEFINE g == Append(f, c)
<1>1. /\ g \in Seq(Change) /\ <<c>> \in Seq(Change) /\ g = f \o <<c>>
      /\ Len(f) \in Nat /\ Len(g) = Len(f) + 1 /\ g[Len(f) + 1] = c
  BY AppendProperties, AppendIsConcat
<1> HIDE DEF g
<1>2. t + 1 \in 1 .. Len(g) /\ Len(f) + 1 \in (t + 1) .. Len(g) /\ Len(f) + 1 - 1 = Len(f)
  BY <1>1
<1>3. SubSeq(g, t + 1, Len(f) + 1) = SubSeq(g, t + 1, Len(f)) \o <<g[Len(f) + 1]>>
  <2>1. \A m \in 1 .. Len(g) : \A n \in m .. Len(g) :
          SubSeq(g, m, n) = SubSeq(g, m, n - 1) \o <<g[n]>>
    BY <1>1, SubSeqRecursiveSecond
  <2> DEFINE m == t + 1
             n == Len(f) + 1
  <2>2. m \in 1 .. Len(g) /\ n \in m .. Len(g)
    BY <1>2
  <2> HIDE DEF m, n
  <2>3. SubSeq(g, m, n) = SubSeq(g, m, n - 1) \o <<g[n]>>
    BY ONLY <2>1, <2>2
  <2>4. m = t + 1 /\ n = Len(f) + 1 /\ n - 1 = Len(f)
    BY <1>1 DEF m, n
  <2> QED BY ONLY <2>3, <2>4
<1>4. SubSeq(g, t + 1, Len(f)) = SubSeq(f, t + 1, Len(f))
  <2>1. CASE t < Len(f)
    <3>1. t + 1 \in 1 .. Len(f) /\ Len(f) \in 1 .. Len(f)
      BY <1>1, <2>1
    <3> QED BY <1>1, <3>1, SubSeqOfConcat1
  <2>2. CASE t = Len(f)
    <3>1. Len(f) < t + 1 /\ t + 1 \in Int /\ Len(f) \in Int
      BY <1>1, <2>2
    <3> QED BY <3>1, SubSeqEmpty
  <2> QED BY <1>1, <2>1, <2>2
<1> QED BY <1>1, <1>2, <1>3, <1>4 DEF g

\* A change others make leaves a reader as well off: it is one of the rest.
LEMMA OneMore ==
  ASSUME Synced, NEW c \in Change, feed' = Append(feed, c),
         UNCHANGED <<epoch, peers, token, pages>>
  PROVE  Synced' /\ Stated(feed') = Stated(feed) \cup Stated(<<c>>)
<1>1. /\ feed \in Seq(Change) /\ <<c>> \in Seq(Change) /\ feed' = feed \o <<c>>
      /\ feed' \in Seq(Change) /\ Len(feed) \in Nat /\ Len(feed') = Len(feed) + 1
      /\ feed'[Len(feed) + 1] = c
  BY AppendProperties, AppendIsConcat DEF Synced
<1>2. Stated(feed') = Stated(feed) \cup Stated(<<c>>)
  BY <1>1, StatedBoth
<1>3. CircleAfter(feed)' = Apply(CircleAfter(feed), <<c>>)
  <2>1. Apply(Apply(Empty, feed), <<c>>) = Apply(Empty, feed \o <<c>>)
    BY <1>1, ApplyBoth
  <2> QED BY <1>1, <2>1 DEF CircleAfter
<1>4. UNCHANGED <<TokenExpired, Since(token)>>
  BY DEF TokenExpired, Since
<1>5. ASSUME ~TokenExpired PROVE Since(token) <= Len(feed') /\ Apply(peers, Rest)' = CircleAfter(feed)'
  <2>1. Since(token) \in Nat /\ Since(token) <= Len(feed) /\ Apply(peers, Rest) = CircleAfter(feed)
    BY <1>5 DEF Synced, Since, Token
  <2>2. Rest \in Seq(Change)
    BY <1>1, <2>1, SubSeqProperties DEF Rest
  <2>5. Rest' = Rest \o <<c>>
    BY <1>1, <1>4, <2>1, RestOfMore DEF Rest
  <2>6. Apply(peers, Rest \o <<c>>) = Apply(Apply(peers, Rest), <<c>>)
    BY <1>1, <2>2, ApplyBoth
  <2> QED BY <1>1, <1>3, <2>1, <2>5, <2>6
<1>6. Synced'
  BY <1>1, <1>4, <1>5 DEF Synced
<1> QED BY <1>2, <1>6

\* A page that is read, with a new token or without.
LEMMA PageRead ==
  ASSUME Synced, ~TokenExpired, UNCHANGED <<feed, epoch>>, pages' \in Nat,
         NEW n \in Nat, Since(token) + n <= Len(feed),
         peers' = Apply(peers, SubSeq(feed, Since(token) + 1, Since(token) + n)),
         \/ token' = [epoch |-> epoch, pos |-> Since(token) + n]
         \/ token # Nil /\ token' = token
  PROVE  Synced'
<1> DEFINE at == Since(token)
           u == SubSeq(feed, at + 1, at + n)
           v == SubSeq(feed, at + n + 1, Len(feed))
<1>1. /\ feed \in Seq(Change) /\ Len(feed) \in Nat /\ at \in Nat /\ epoch \in Nat
      /\ IsDirectory(peers) /\ Apply(peers, Rest) = CircleAfter(feed)
  BY DEF Synced, Since, Token
<1>2. u \in Seq(Change) /\ v \in Seq(Change)
  <2>0. at + n <= Len(feed)
    OBVIOUS
  <2> HIDE DEF at
  <2>1. \A i \in (at + 1) .. (at + n) : feed[i] \in Change
    BY <1>1, <2>0
  <2>2. \A i \in (at + n + 1) .. Len(feed) : feed[i] \in Change
    BY <1>1
  <2> QED BY <1>1, <2>1, <2>2, SubSeqProperties
<1>3. Rest = u \o v
  <2> HIDE DEF at
  <2>1. \A m \in 1 .. Len(feed) + 1 : \A k \in m - 1 .. Len(feed) : \A l \in k .. Len(feed) :
          SubSeq(feed, m, k) \o SubSeq(feed, k + 1, l) = SubSeq(feed, m, l)
    BY <1>1, ConcatAdjacentSubSeq
  <2>2. /\ at + 1 \in 1 .. Len(feed) + 1 /\ at + n \in (at + 1) - 1 .. Len(feed)
        /\ Len(feed) \in at + n .. Len(feed)
    BY <1>1 DEF at
  <2>3. SubSeq(feed, at + 1, Len(feed)) = u \o v
    BY ONLY <2>1, <2>2
  <2> QED BY <2>3 DEF Rest, at
<1> HIDE DEF u, v
<1>4. peers' = Apply(peers, u) /\ IsDirectory(peers')
  BY <1>1, <1>2, ApplyDirectory DEF u
<1>5. /\ Apply(peers', v) = CircleAfter(feed)
      /\ Apply(peers', Rest) = CircleAfter(feed)
  BY <1>1, <1>2, <1>3, <1>4, ApplyBoth
<1>6. CASE token # Nil /\ token' = token
  <2>1. UNCHANGED <<TokenExpired, Since(token), Rest>>
    BY <1>6 DEF TokenExpired, Since, Rest
  <2> QED BY <1>1, <1>4, <1>5, <1>6, <2>1 DEF Synced, CircleAfter
<1>7. CASE token' = [epoch |-> epoch, pos |-> at + n]
  <2>1. token' \in Token /\ token' # Nil /\ token'.epoch = epoch /\ token'.pos = at + n
    BY <1>1, <1>7, TokenAssumption DEF Token
  <2>2. Since(token)' = at + n
    BY <2>1 DEF Since
  <2>3. Rest' = v
    BY <2>2 DEF Rest, v
  <2> QED BY <1>1, <1>4, <1>5, <2>1, <2>2, <2>3 DEF Synced, CircleAfter
<1> QED BY <1>6, <1>7

\* Synced is lasting.
LEMMA SyncedStays ==
  ASSUME Kept, [TrustNext]_trustVars PROVE Synced'
<1>0. Synced /\ Joining
  BY DEF Kept
<1>1. CASE UNCHANGED <<feed, epoch, peers, token, pages>>
  <2>1. UNCHANGED <<TokenExpired, Since(token), Rest, CircleAfter(feed)>>
    BY <1>1 DEF TokenExpired, Since, Rest, CircleAfter
  <2> QED BY <1>0, <1>1, <2>1 DEF Synced
<1>2. CASE State
  <2>1. PICK c \in Statements \cup {Unreadable} : feed' = Append(feed, c)
    BY <1>2 DEF State
  <2>2. c \in Change
    BY StatementAssumption DEF Change
  <2>3. UNCHANGED <<epoch, peers, token, pages>>
    BY <1>2 DEF State, reader
  <2> QED BY <1>0, <2>1, <2>2, <2>3, OneMore
<1>3. CASE Reset
  <2>1. feed' = <<>> /\ epoch' = epoch + 1 /\ UNCHANGED <<peers, token, pages>>
    BY <1>3 DEF Reset, reader
  <2>2. feed' \in Seq(Change)
    BY <2>1
  <2>3. CASE token = Nil
    <3>1. peers' = Empty /\ token' = Nil
      BY <1>0, <2>1, <2>3 DEF Synced
    <3>2. Since(token)' = 0 /\ Apply(peers, Rest)' = CircleAfter(feed)'
      BY <2>2, <3>1, WholeFeedNext
    <3> QED BY <1>0, <2>1, <2>2, <2>3, <3>1, <3>2 DEF Synced
  <2>4. CASE token # Nil
    <3>1. token' \in Token /\ token'.epoch <= epoch' /\ TokenExpired'
      BY <1>0, <2>1, <2>4 DEF Synced, TokenExpired, Token
    <3> QED BY <1>0, <2>1, <2>2, <2>4, <3>1 DEF Synced
  <2> QED BY <2>3, <2>4
<1>4. CASE StartRead \/ (StartOver /\ token' = Nil)
  <2>1. /\ UNCHANGED <<feed, epoch>> /\ peers' = Empty /\ token' = Nil /\ pages' \in Nat
    BY <1>0, <1>4 DEF StartRead, StartOver, cuttlefish, Synced, Afresh, Counted, TokenExpired
  <2>2. Since(token)' = 0 /\ Apply(peers, Rest)' = CircleAfter(feed)'
    BY <1>0, <2>1, WholeFeedNext DEF Synced
  <2> QED BY <1>0, <2>1, <2>2, EmptyDirectory DEF Synced
<1>5. CASE StartOver
  <2>1. CASE ~restarted
    BY <1>4, <1>5, <2>1 DEF StartOver
  <2>2. CASE restarted
    <3>1. UNCHANGED <<feed, epoch, peers, token>> /\ pages' \in Nat
      BY <1>0, <1>5, <2>2 DEF StartOver, cuttlefish, Synced, Counted
    <3>2. UNCHANGED <<TokenExpired, Since(token), Rest, CircleAfter(feed)>>
      BY <3>1 DEF TokenExpired, Since, Rest, CircleAfter
    <3> QED BY <1>0, <3>1, <3>2 DEF Synced
  <2> QED BY <2>1, <2>2
<1>6. CASE Page
  <2>1. UNCHANGED <<feed, epoch>> /\ pages' \in Nat /\ ~TokenExpired
    BY <1>0, <1>6 DEF Page, cuttlefish, Counted, Synced
  <2>2. PICK n \in 0 .. PageSize, given \in BOOLEAN :
          /\ Since(token) + n <= Len(feed)
          /\ token = Nil => given
          /\ peers' = Apply(peers, SubSeq(feed, Since(token) + 1, Since(token) + n))
          /\ token' = IF given THEN [epoch |-> epoch, pos |-> Since(token) + n] ELSE token
    BY <1>6 DEF Page
  <2>3. n \in Nat
    BY BoundAssumption
  <2>4. \/ token' = [epoch |-> epoch, pos |-> Since(token) + n]
        \/ token # Nil /\ token' = token
    BY <2>2
  <2> QED BY <1>0, <2>1, <2>2, <2>3, <2>4, PageRead
<1>7. CASE SendJoin
  <2>1. CASE TokenExpired
    BY <1>1, <1>7, <2>1 DEF SendJoin, reader
  <2>2. CASE ~TokenExpired
    <3>1. feed' = Append(feed, Mine) /\ UNCHANGED <<epoch, peers, token, pages>> /\ pc = "ready"
      BY <1>7, <2>2 DEF SendJoin, reader
    <3>2. Mine \in Change
      BY <3>1, MineIsStatement DEF Change, Kept
    <3> QED BY <1>0, <3>1, <3>2, OneMore
  <2> QED BY <2>1, <2>2
<1>8. CASE Answered
  <2>1. /\ UNCHANGED <<feed, epoch, pages>> /\ ~TokenExpired /\ pc = "sent"
        /\ peers' = Apply(peers, Rest)
        /\ token' = [epoch |-> epoch, pos |-> Len(feed)]
    BY <1>8 DEF Answered, cuttlefish, DirectoryUpdated, Rest
  <2>2. /\ feed \in Seq(Change) /\ Len(feed) \in Nat /\ epoch \in Nat /\ IsDirectory(peers)
        /\ Since(token) \in Nat /\ Since(token) <= Len(feed) /\ peers' = CircleAfter(feed)
    BY <1>0, <2>1 DEF Synced, Since, Token
  <2>3. Rest \in Seq(Change)
    BY <2>2, SubSeqProperties DEF Rest
  <2>4. IsDirectory(peers')
    BY <2>1, <2>2, <2>3, ApplyDirectory
  <2>5. token' \in Token /\ token' # Nil /\ token'.epoch = epoch /\ token'.pos = Len(feed)
    BY <2>1, <2>2, TokenAssumption DEF Token
  <2>6. Since(token)' = Len(feed) /\ Rest' = <<>>
    <3>1. Since(token)' = Len(feed)
      BY <2>5 DEF Since
    <3>2. Rest' = SubSeq(feed, Len(feed) + 1, Len(feed))
      BY <2>1, <3>1 DEF Rest
    <3>3. SubSeq(feed, Len(feed) + 1, Len(feed)) = <<>>
      BY <2>2, SubSeqEmpty
    <3> QED BY <3>1, <3>2, <3>3
  <2>7. Apply(peers', <<>>) = peers'
    BY <2>4, ApplyNothing
  <2> QED BY <1>0, <2>1, <2>2, <2>4, <2>5, <2>6, <2>7 DEF Synced, CircleAfter
<1>9. CASE Backstop \/ Seed \/ MergeOne \/ Merged \/ TrustFails
  <2>1. UNCHANGED <<feed, epoch, peers, token, pages>>
    BY <1>9 DEF Backstop, Seed, MergeOne, Merged, TrustFails, cuttlefish, reader
  <2> QED BY <1>1, <2>1
<1>10. CASE UNCHANGED trustVars
  BY <1>1, <1>10 DEF trustVars, cuttlefish, reader
<1> QED BY <1>2, <1>3, <1>4, <1>5, <1>6, <1>7, <1>8, <1>9, <1>10 DEF TrustNext, Step

\* Once the new peer is in the feed it stays there, or the circle is another.
LEMMA JoiningStays ==
  ASSUME Kept, [TrustNext]_trustVars PROVE Joining'
<1>0. Synced /\ Joining /\ (pc = "ready" => Ready)
  BY DEF Kept
<1>1. CASE State
  <2>1. PICK c \in Statements \cup {Unreadable} : feed' = Append(feed, c)
    BY <1>1 DEF State
  <2>2. c \in Change
    BY StatementAssumption DEF Change
  <2>3. UNCHANGED <<epoch, peers, token, pages, pc>>
    BY <1>1 DEF State, reader
  <2>4. Stated(feed) \subseteq Stated(feed')
    BY <1>0, <2>1, <2>2, <2>3, OneMore
  <2> QED BY <1>0, <2>3, <2>4 DEF Joining, TokenExpired
<1>2. CASE Reset
  <2>1. epoch' = epoch + 1 /\ UNCHANGED <<token, pc>>
    BY <1>2 DEF Reset, reader
  <2>2. token # Nil => TokenExpired'
    BY <1>0, <2>1 DEF Synced, TokenExpired, Token
  <2> QED BY <1>0, <2>1, <2>2 DEF Joining
<1>3. CASE Seed
  <2>1. \/ pc' = "failed"
        \/ pc' = "merging" /\ \E p : p \in DOMAIN peers
    BY <1>3 DEF Seed
  <2>2. pc' = "merging" => token' # Nil
    BY <1>0, <1>3, <2>1 DEF Seed, Synced, Empty, reader
  <2> QED BY <2>1, <2>2 DEF Joining
<1>4. CASE MergeOne \/ Merged
  <2>1. pc = "merging" /\ pc' \in {"merging", "ready"} /\ UNCHANGED token
    BY <1>4 DEF MergeOne, Merged, reader
  <2> QED BY <1>0, <2>1 DEF Joining
<1>5. CASE SendJoin
  <2>1. CASE TokenExpired
    BY <1>5, <2>1 DEF SendJoin, Joining
  <2>2. CASE ~TokenExpired
    <3>1. /\ feed' = Append(feed, Mine) /\ UNCHANGED <<epoch, peers, token, pages>>
          /\ pc = "ready" /\ pc' = "sent"
      BY <1>5, <2>2 DEF SendJoin, reader
    <3>2. Mine \in Change /\ Mine # Unreadable /\ Mine.peer = Me
      BY <1>0, <3>1, MineIsStatement, NameAssumption DEF Change
    <3>3. Me \in Stated(<<Mine>>)
      BY <3>2 DEF Stated
    <3>4. Me \in Stated(feed')
      BY <1>0, <3>1, <3>2, <3>3, OneMore
    <3> QED BY <1>0, <3>1, <3>4 DEF Joining
  <2> QED BY <2>1, <2>2
<1>6. CASE StartRead \/ Page \/ StartOver \/ Backstop \/ Answered \/ TrustFails
  <2>1. pc' \notin {"merging", "ready", "sent"}
    BY <1>6 DEF StartRead, Page, StartOver, Backstop, Answered, TrustFails
  <2> QED BY <2>1 DEF Joining
<1>7. CASE UNCHANGED trustVars
  BY <1>0, <1>7 DEF trustVars, cuttlefish, reader, Joining, TokenExpired
<1> QED BY <1>1, <1>2, <1>3, <1>4, <1>5, <1>6, <1>7 DEF TrustNext, Step

-----------------------------------------------------------------------------
(* What is asserted *)

\* merge_trust begins with what the sponsor asserts.
LEMMA SeedMerges ==
  ASSUME Kept, Seed, pc' = "merging" PROVE Merging'
<1>1. PICK p \in Peers :
        /\ p \in DOMAIN peers /\ sponsor' = p /\ adopted' = {}
        /\ trust' = [inc |-> peers[p].inc, exc |-> peers[p].exc, clock |-> peers[p].clock]
        /\ ahead' = {q \in DOMAIN peers : peers[q].clock > peers[p].clock}
  BY DEF Seed
<1>2. UNCHANGED peers
  BY DEF Seed, reader
<1>3. \A q \in DOMAIN peers : peers[q].clock \in Nat /\ peers[q].inc \subseteq Names
                                  /\ peers[q].exc \subseteq Names
  BY DEF Kept, Synced, IsDirectory, Statement
<1>4. /\ trust'.inc = peers[p].inc /\ trust'.exc = peers[p].exc
      /\ trust'.clock = peers[p].clock
      /\ trust' = [inc |-> trust'.inc, exc |-> trust'.exc, clock |-> trust'.clock]
  BY <1>1
<1>5. \A q \in ahead' : q \in DOMAIN peers /\ peers[p].clock <= peers[q].clock
  BY <1>1, <1>3
<1> QED BY <1>1, <1>2, <1>3, <1>4, <1>5 DEF Merging

\* An update that is believed is that of a peer trusted, or vouched for.
LEMMA Believed ==
  ASSUME Kept, Merging, NEW p \in ahead, p \in trust.inc \/ VoucherAdmits(peers[p])
  PROVE  /\ \A S \in SUBSET Names : trust.inc \subseteq S /\ Closed(S) => peers[p].inc \subseteq S
         /\ p \notin trust.inc => p \notin trust.exc
<1>1. p \in DOMAIN peers /\ peers[p].peer = p
  BY DEF Merging, Kept, Synced, IsDirectory
<1>2. CASE p \in trust.inc
  BY <1>1, <1>2 DEF Closed
<1>3. CASE VoucherAdmits(peers[p])
  <2>1. /\ peers[p].voucher # Nil /\ peers[p].voucher.valid
        /\ peers[p].voucher.beneficiary = p /\ peers[p].voucher.sponsor \in trust.inc
        /\ p \notin trust.exc
    BY <1>1, <1>3 DEF VoucherAdmits
  <2> QED BY <1>1, <2>1 DEF Closed
<1> QED BY <1>2, <1>3

\* One more peer that is ahead.
LEMMA MergeOneMerges ==
  ASSUME Kept, Merging, MergeOne PROVE Merging' /\ RemovalStands'
<1>1. PICK p \in ahead :
        /\ \A q \in ahead : peers[p].clock <= peers[q].clock
        /\ ahead' = ahead \ {p}
        /\ IF p \in trust.inc \/ VoucherAdmits(peers[p])
           THEN trust' = MergedWith(peers[p]) /\ adopted' = adopted \cup {p}
           ELSE UNCHANGED <<trust, adopted>>
  BY DEF MergeOne, Foremost
<1>2. UNCHANGED <<peers, sponsor, pc>> /\ pc = "merging"
  BY DEF MergeOne, reader
<1>3. \A q \in DOMAIN peers : peers[q].clock \in Nat /\ peers[q].inc \subseteq Names
                                  /\ peers[q].exc \subseteq Names
  BY DEF Kept, Synced, IsDirectory, Statement
<1>4. \A S : Closed(S)' = Closed(S)
  BY <1>2 DEF Closed
<1>5. CASE ~(p \in trust.inc \/ VoucherAdmits(peers[p]))
  <2>1. UNCHANGED <<trust, adopted>>
    BY <1>1, <1>5
  <2>2. Merging'
    BY <1>1, <1>2, <1>4, <2>1 DEF Merging
  <2>3. RemovalStands'
    BY <1>2, <2>1 DEF RemovalStands, Kept
  <2> QED BY <2>2, <2>3
<1>6. CASE p \in trust.inc \/ VoucherAdmits(peers[p])
  <2> DEFINE s == peers[p]
  <2>1. /\ trust'.inc = (trust.inc \cup s.inc) \ s.exc /\ trust'.exc = trust.exc \cup s.exc
        /\ trust'.clock = s.clock /\ adopted' = adopted \cup {p}
        /\ trust' = [inc |-> trust'.inc, exc |-> trust'.exc, clock |-> trust'.clock]
    BY <1>1, <1>6 DEF MergedWith
  <2>2. p \in DOMAIN peers /\ s.clock \in Nat /\ s.inc \subseteq Names /\ s.exc \subseteq Names
    BY <1>3 DEF Merging
  <2> HIDE DEF s
  <2>3. trust.clock \in Nat /\ trust.clock <= s.clock
    BY DEF Merging, s
  <2>4. \A q \in adopted \cup {sponsor} : q \in DOMAIN peers /\ peers[q].clock <= s.clock
    BY <1>3, <2>2, <2>3 DEF Merging
  <2>5. \A S \in SUBSET Names : peers[sponsor].inc \subseteq S /\ Closed(S) => trust'.inc \subseteq S
    <3> SUFFICES ASSUME NEW S \in SUBSET Names, peers[sponsor].inc \subseteq S, Closed(S)
                 PROVE  trust'.inc \subseteq S
      OBVIOUS
    <3>1. trust.inc \subseteq S
      BY DEF Merging
    <3>2. s.inc \subseteq S
      BY <1>6, <3>1, Believed DEF s
    <3> QED BY <2>1, <3>1, <3>2
  <2>6. Merging'
    <3>1. /\ trust'.inc \subseteq Names /\ trust'.exc \subseteq Names /\ trust'.clock \in Nat
          /\ trust' = [inc |-> trust'.inc, exc |-> trust'.exc, clock |-> trust'.clock]
      BY <2>1, <2>2 DEF Merging
    <3>2. /\ sponsor' \in DOMAIN peers' /\ adopted' \subseteq DOMAIN peers'
          /\ ahead' \subseteq DOMAIN peers' /\ adopted' \cap ahead' = {}
      BY <1>1, <1>2, <2>1, <2>2 DEF Merging
    <3>3. \A q \in adopted' \cup {sponsor'} : peers'[q].clock <= trust'.clock
      BY <1>2, <2>1, <2>2, <2>4 DEF s
    <3>4. \A q \in ahead' : trust'.clock <= peers'[q].clock
      BY <1>1, <1>2, <2>1 DEF s
    <3>5. \A q \in adopted' : peers'[q].exc \subseteq trust'.exc
      BY <1>2, <2>1 DEF s, Merging
    <3>6. \A S \in SUBSET Names :
            peers'[sponsor'].inc \subseteq S /\ Closed(S)' => trust'.inc \subseteq S
      BY <1>2, <1>4, <2>5
    <3> QED BY <3>1, <3>2, <3>3, <3>4, <3>5, <3>6 DEF Merging
  <2>7. ASSUME NEW r \in adopted', NEW x \in (peers[r].exc \cap trust'.inc) \ {Me}
        PROVE  \E q \in adopted' \ {r, x} : peers[q].clock >= peers[r].clock
                                            /\ x \in peers[q].inc
    <3>1. r # p /\ r \in adopted /\ x \notin s.exc
      BY <2>1, <2>7 DEF s
    <3>2. CASE x \in trust.inc
      <4>1. \E q \in adopted \ {r, x} : peers[q].clock >= peers[r].clock
                                        /\ x \in peers[q].inc
        BY <1>2, <2>7, <3>1, <3>2 DEF RemovalStands, Kept
      <4> QED BY <2>1, <4>1
    <3>3. CASE x \notin trust.inc
      <4>1. x \in s.inc /\ x \in trust.exc
        BY <2>1, <2>7, <3>1, <3>3 DEF Merging
      <4>2. p # x
        BY <1>6, <3>3, <4>1, Believed
      <4>3. peers[p].clock >= peers[r].clock
        BY <1>3, <2>2, <2>4, <3>1 DEF s
      <4> QED BY <2>1, <3>1, <4>1, <4>2, <4>3 DEF s
    <3> QED BY <3>2, <3>3
  <2>8. RemovalStands'
    BY <1>2, <2>7 DEF RemovalStands
  <2> QED BY <2>6, <2>8
<1> QED BY <1>5, <1>6

\* The new peer asserts itself, one past everything it believes.
LEMMA MergedIsReady ==
  ASSUME Kept, Merging, Merged
  PROVE  (Ready /\ RemovalStands /\ SentSupersedes /\ TrustInherited)'
<1>1. /\ trust'.inc = trust.inc \cup {Me} /\ trust'.exc = trust.exc /\ trust'.clock = trust.clock + 1
      /\ UNCHANGED <<peers, sponsor, adopted>> /\ pc = "merging" /\ pc' = "ready"
  BY DEF Merged, Merging, reader
<1>2. Ready'
  BY <1>1 DEF Ready, Merging, Names
<1>3. RemovalStands'
  BY <1>1 DEF RemovalStands, Kept
<1>4. SentSupersedes'
  <2>1. \A q \in DOMAIN peers : peers[q].clock \in Nat
    BY DEF Kept, Synced, IsDirectory, Statement
  <2> QED BY <1>1, <2>1 DEF SentSupersedes, Merging
<1>5. \A S : Closed(S)' = Closed(S)
  BY <1>1 DEF Closed
<1>6. TrustInherited'
  BY <1>1, <1>5 DEF TrustInherited, Merging
<1> QED BY <1>2, <1>3, <1>4, <1>6

\* All of it lasts.
LEMMA KeptStays == Kept /\ [TrustNext]_trustVars => Kept'
<1> SUFFICES ASSUME Kept, [TrustNext]_trustVars PROVE Kept'
  OBVIOUS
<1>1. Synced' /\ Joining'
  BY SyncedStays, JoiningStays
<1>2. CASE State \/ Reset \/ UNCHANGED trustVars
  <2>1. UNCHANGED <<pc, peers, sponsor, trust, ahead, adopted>>
    BY <1>2 DEF State, Reset, trustVars, reader, merge
  <2>2. \A S : Closed(S)' = Closed(S)
    BY <2>1 DEF Closed
  <2>3. (pc' = "merging" => Merging') /\ (pc' = "ready" => Ready')
    BY <2>1, <2>2 DEF Kept, Merging, Ready
  <2>4. RemovalStands' /\ SentSupersedes' /\ TrustInherited'
    BY <2>1, <2>2 DEF Kept, RemovalStands, SentSupersedes, TrustInherited
  <2> QED BY <1>1, <2>3, <2>4 DEF Kept
<1>3. CASE MergeOne
  <2>1. pc = "merging" /\ pc' = "merging"
    BY <1>3 DEF MergeOne
  <2>2. Merging' /\ RemovalStands'
    BY <1>3, <2>1, MergeOneMerges DEF Kept
  <2>3. TrustInherited' /\ SentSupersedes'
    BY <2>1, <2>2 DEF TrustInherited, SentSupersedes, Merging
  <2> QED BY <1>1, <2>1, <2>2, <2>3 DEF Kept
<1>4. CASE Merged
  <2>1. pc = "merging" /\ pc' = "ready"
    BY <1>4 DEF Merged
  <2> QED BY <1>1, <1>4, <2>1, MergedIsReady DEF Kept
<1>5. CASE Seed
  <2>1. CASE pc' = "merging"
    <3>1. Merging' /\ adopted' = {}
      BY <1>5, <2>1, SeedMerges DEF Seed
    <3>2. RemovalStands' /\ SentSupersedes' /\ TrustInherited'
      BY <2>1, <3>1 DEF RemovalStands, SentSupersedes, TrustInherited, Merging
    <3> QED BY <1>1, <2>1, <3>1, <3>2 DEF Kept
  <2>2. CASE pc' = "failed"
    BY <1>1, <2>2 DEF Kept, RemovalStands, SentSupersedes, TrustInherited
  <2> QED BY <1>5, <2>1, <2>2 DEF Seed
<1>6. CASE StartRead \/ Page \/ StartOver \/ Backstop \/ SendJoin \/ Answered \/ TrustFails
  <2>1. pc' \notin {"merging", "ready"}
    BY <1>6 DEF StartRead, Page, StartOver, Backstop, SendJoin, Answered, TrustFails
  <2> QED BY <1>1, <2>1 DEF Kept, RemovalStands, SentSupersedes, TrustInherited
<1> QED BY <1>2, <1>3, <1>4, <1>5, <1>6 DEF TrustNext, Step

-----------------------------------------------------------------------------
(* The theorems *)

\* The invariant they rest on.
THEOREM AlwaysKept == TrustSpec => []Kept
  BY KeptAtFirst, KeptStays, PTL DEF TrustSpec

\* "A joining peer inherits trust rather than inventing it" (merge_trust).
THEOREM NeverInvented == TrustSpec => []TrustInherited
<1>1. Kept => TrustInherited
  BY DEF Kept
<1> QED BY <1>1, AlwaysKept, PTL

\* What a believed update removed is only there if one as new put it back.
THEOREM RemovalsStand == TrustSpec => []RemovalStands
<1>1. Kept => RemovalStands
  BY DEF Kept
<1> QED BY <1>1, AlwaysKept, PTL

\* "One past everything it was derived from, so the info sent supersedes its
\* sources" (merge_trust).
THEOREM AlwaysSupersedes == TrustSpec => []SentSupersedes
<1>1. Kept => SentSupersedes
  BY DEF Kept
<1> QED BY <1>1, AlwaysKept, PTL

\* A read an empty page ended is the circle (fetch_peer_directory).
THEOREM ReadsComplete == TrustSpec => CompleteReads
<1>1. Kept /\ [TrustNext]_trustVars => [ReadIsCircle]_trustVars
  <2> SUFFICES ASSUME Kept, TrustNext, pc = "reading", pc' = "read", pages' > pages
               PROVE  peers' = CircleAfter(feed)
    BY DEF ReadIsCircle
  <2>1. Synced
    BY DEF Kept
  <2>2. Page
    <3>1. ~Backstop /\ ~State /\ ~Reset
      BY <2>1 DEF Backstop, State, Reset, reader, Synced
    <3> QED BY <3>1 DEF TrustNext, Step, StartRead, StartOver, Seed, MergeOne, Merged, SendJoin, Answered, TrustFails
  <2>3. PICK n \in 0 .. PageSize :
          LET changes == SubSeq(feed, Since(token) + 1, Since(token) + n)
          IN /\ Since(token) + n <= Len(feed) /\ (n = 0 => Since(token) = Len(feed))
             /\ peers' = Apply(peers, changes) /\ changes = <<>>
    BY <2>2 DEF Page, Ends
  <2>4. /\ ~TokenExpired /\ feed \in Seq(Change) /\ Len(feed) \in Nat /\ Since(token) \in Nat
        /\ Apply(peers, Rest) = CircleAfter(feed) /\ IsDirectory(peers)
    BY <2>1, <2>2 DEF Page, Synced, Since, Token
  <2>5. n = 0
    <3>1. n \in Nat
      BY BoundAssumption
    <3>2. \A i \in Since(token) + 1 .. Since(token) + n : feed[i] \in Change
      BY <2>3, <2>4, <3>1
    <3>3. Len(SubSeq(feed, Since(token) + 1, Since(token) + n)) = n
      BY <2>4, <3>1, <3>2, SubSeqProperties
    <3> QED BY <2>3, <3>3
  <2>6. Rest = <<>>
    BY <2>3, <2>4, <2>5, SubSeqEmpty DEF Rest
  <2>7. peers' = peers /\ CircleAfter(feed) = peers
    BY <2>3, <2>4, <2>6, ApplyNothing
  <2> QED BY <2>7
<1> QED BY <1>1, AlwaysKept, PTL DEF TrustSpec, CompleteReads

\* A session whose join was answered knows the circle with the new peer.
THEOREM JoinedKnows == TrustSpec => JoinedKnowsCircle
<1>1. Kept /\ [TrustNext]_trustVars => [Resynchronised]_trustVars
  <2> SUFFICES ASSUME Kept, TrustNext, pc = "sent", pc' = "joined"
               PROVE  Me \in DOMAIN peers' /\ peers' = CircleAfter(feed)
    BY DEF Resynchronised
  <2>1. Answered
    BY DEF TrustNext, Step, State, Reset, StartRead, Page, StartOver, Backstop, Seed, MergeOne, Merged,
           SendJoin, TrustFails
  <2>2. ~TokenExpired /\ peers' = Apply(peers, Rest)
    BY <2>1 DEF Answered, DirectoryUpdated, Rest
  <2>3. peers' = CircleAfter(feed) /\ Me \in Stated(feed)
    BY <2>2 DEF Kept, Synced, Joining
  <2>4. Stated(feed) \subseteq DOMAIN CircleAfter(feed)
    BY DEF CircleAfter, Apply
  <2> QED BY <2>3, <2>4
<1> QED BY <1>1, AlwaysKept, PTL DEF TrustSpec, JoinedKnowsCircle
=============================================================================
