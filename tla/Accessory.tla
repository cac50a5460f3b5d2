----------------------------- MODULE Accessory -----------------------------
(***************************************************************************)
(* How FindMy.py keeps track of a rolling-key accessory: the alignment of  *)
(* FindMyAccessory (findmy/accessory.py), moved by the reports that        *)
(* LocationReportsFetcher (findmy/reports/reports.py) decrypts and by the  *)
(* caller's own scans, against the accessory's real key index.             *)
(*                                                                         *)
(* A fetch sweeps the key indices downwards in requests of at most Batch   *)
(* keys; it awaits each of them, so several fetches of one accessory       *)
(* interleave there.  Keys are symbolic: <<"p", i>> is the primary key of  *)
(* index i, <<"s", k>> the k-th secondary key.                             *)
(***************************************************************************)
EXTENDS Integers, FiniteSets

CONSTANTS
  Fetches,        \* fetch_location_history calls that may be in flight
  Interval,       \* time units per rollover (15 minutes)
  Window,         \* time units the fetch looks back (7 days)
  Span,           \* primary indices per secondary key (96)
  PairingOffset,  \* where in the span of its secondary key pairing happened
  Batch,          \* keys Apple accepts in one request (290)
  Margin,         \* a margin a caller may pass to current_keys
  Separated,      \* whether the accessory ever broadcasts its secondary key
  MaxTime,        \* bound: time units
  MaxReports      \* bound: times the accessory is heard

ASSUME IntervalAssumption == Interval \in Nat \ {0}
ASSUME WindowAssumption   == Window \in Nat /\ Margin \in Nat
ASSUME SpanAssumption     == Span \in Nat \ {0} /\ PairingOffset \in 0..(Span - 1)
ASSUME BatchAssumption    == Batch \in Nat \ {0, 1}   \* the two secondary keys of an index
ASSUME SeparatedAssumption == Separated \in BOOLEAN
ASSUME BoundsAssumption   == MaxTime \in Nat /\ MaxReports \in Nat

VARIABLES
  now,      \* the time
  index,    \* the accessory's primary key index
  age,      \* time units since it last rolled over, at most Interval
  heard,    \* reports finders hold and have not uploaded
  apple,    \* reports Apple holds
  align,    \* [date, index]: _alignment_date and _alignment_index
  fetch     \* the locals of each _fetch_accessory_reports

vars == <<now, index, age, heard, apple, align, fetch>>
world == <<now, index, age, heard, apple>>

-----------------------------------------------------------------------------
(* Keys *)

\* keys_at: the accessory may use either of two secondary keys
KeysAt(i) ==
  IF i < 0 THEN {}
  ELSE {<<"p", i>>, <<"s", i \div Span + 1>>, <<"s", i \div Span + 2>>}

KeysOf(lo, hi) == UNION {KeysAt(i) : i \in lo..hi}

OfType(keys, type) == {k \in keys : k[1] = type}

\* the secondary key the accessory really uses at an index
Secondary(i) == <<"s", (i + PairingOffset) \div Span + 1>>

Broadcast == {<<"p", index>>} \cup (IF Separated THEN {Secondary(index)} ELSE {})

Least(S) == CHOOSE x \in S : \A y \in S : x <= y

-----------------------------------------------------------------------------
(* FindMyAccessory *)

MinIndex(a, t) ==
  IF t >= a.date THEN a.index ELSE a.index - (a.date - t) \div Interval

MaxIndex(a, t) ==
  IF t <= a.date THEN a.index ELSE a.index + (t - a.date) \div Interval

\* update_alignment ignores what goes back in time or in index
Updated(a, t, i) ==
  IF t < a.date \/ i < a.index THEN a ELSE [date |-> t, index |-> i]

-----------------------------------------------------------------------------
Report == [time : Nat, key : {"p", "s"} \X Nat]

Fetch == [pc : {"idle", "asked", "decoding"},
          outcome : {"none", "returned", "failed"},
          start : Int,            \* start_date
          top : Int,              \* the index the sweep began at
          low : Int, hi : Int,    \* the indices in the request in flight
          final : BOOLEAN,        \* the loop is over after this request
          since : Int,            \* startDate of the request
          pending : SUBSET Report,    \* reports not yet decrypted
          ret : SUBSET Report,
          due : SUBSET Nat]       \* when Apple had heard it as the call began

Idle(outcome) ==
  [pc |-> "idle", outcome |-> outcome, start |-> 0, top |-> 0, low |-> 0, hi |-> 0,
   final |-> FALSE, since |-> 0, pending |-> {}, ret |-> {}, due |-> {}]

Init ==
  /\ now = 0 /\ index = 0 /\ age \in 0..(Interval - 1)
  /\ heard = {} /\ apple = {}
  /\ align = [date |-> 0, index |-> 0]     \* paired_at
  /\ fetch = [f \in Fetches |-> Idle("none")]

\* the decrypting loop of one fetch has no await in it
Quiet == \A f \in Fetches : fetch[f].pc # "decoding"

-----------------------------------------------------------------------------
(* The accessory and the finders around it *)

Tick ==
  /\ Quiet /\ now < MaxTime
  /\ now' = now + 1
  /\ \/ index' = index /\ age' = IF age < Interval THEN age + 1 ELSE age
     \/ age + 1 >= Interval /\ index' = index + 1 /\ age' = 0
  /\ UNCHANGED <<heard, apple, align, fetch>>

Heard ==
  /\ Quiet /\ Cardinality(heard \cup apple) < MaxReports
  /\ \E k \in Broadcast : heard' = heard \cup {[time |-> now, key |-> k]}
  /\ heard' # heard
  /\ UNCHANGED <<now, index, age, apple, align, fetch>>

\* finders upload when they are online: late, and in any order
Upload ==
  /\ Quiet
  /\ \E r \in heard : heard' = heard \ {r} /\ apple' = apple \cup {r}
  /\ UNCHANGED <<now, index, age, align, fetch>>

-----------------------------------------------------------------------------
(* _fetch_accessory_reports, with only_latest as the public calls set it *)

Fits(lo, hi) ==
  \A type \in {"p", "s"} : Cardinality(OfType(KeysOf(lo, hi), type)) <= Batch

\* mutant of Ask: the index that did not fit is skipped
AskSkipping(r, hi) ==
  LET from == IF hi = r.top THEN hi ELSE hi - 1
      min == MinIndex(align, r.start)
      bottom == IF min > from THEN from ELSE min
      low == Least({l \in bottom..from : Fits(l, from)})
  IN  [r EXCEPT !.pc = "asked", !.low = low, !.hi = from,
                !.final = (low = bottom), !.since = now - Window]

\* collect keys from index hi down until they no longer fit or the lower
\* bound of this moment is passed, and send the request; hi itself is in it
Ask(r, hi) ==
  LET min == MinIndex(align, r.start)
      bottom == IF min > hi THEN hi ELSE min
      low == Least({l \in bottom..hi : Fits(l, hi)})
  IN  [r EXCEPT !.pc = "asked", !.low = low, !.hi = hi,
                !.final = (low = bottom), !.since = now - Window]

\* times of the reports at least one rollover away from both ends
Due ==
  {r.time : r \in {r \in apple : /\ r.time >= now - Window + Interval
                                 /\ r.time <= now - Interval}}

Call(f) ==
  /\ Quiet /\ fetch[f].pc = "idle"
  /\ LET top == MaxIndex(align, now)
         r == [Idle("none") EXCEPT !.start = now - Window, !.top = top, !.due = Due]
     IN  fetch' = [fetch EXCEPT ![f] = Ask(r, top)]
  /\ UNCHANGED <<world, align>>

\* what fetch_raw_reports returns for the keys asked for
Answer(r) == {rep \in apple : rep.key \in KeysOf(r.low, r.hi) /\ rep.time >= r.since}

Found(f) ==
  /\ Quiet /\ fetch[f].pc = "asked" /\ Answer(fetch[f]) # {}
  /\ fetch' = [fetch EXCEPT ![f] = [@ EXCEPT !.pc = "decoding", !.pending = Answer(fetch[f])]]
  /\ UNCHANGED <<world, align>>

\* mutant of NotFound: cur_index does not move on
NotFoundRepeats(f) ==
  /\ Quiet /\ fetch[f].pc = "asked" /\ Answer(fetch[f]) = {}
  /\ fetch' = [fetch EXCEPT ![f] =
                 IF fetch[f].final THEN Idle("returned")
                                   ELSE Ask(fetch[f], fetch[f].hi)]
  /\ UNCHANGED <<world, align>>

\* nothing under these keys: go on with the index that did not fit, or end
NotFound(f) ==
  /\ Quiet /\ fetch[f].pc = "asked" /\ Answer(fetch[f]) = {}
  /\ fetch' = [fetch EXCEPT ![f] =
                 IF fetch[f].final THEN Idle("returned")
                                   ELSE Ask(fetch[f], fetch[f].low - 1)]
  /\ UNCHANGED <<world, align>>

\* an error of the request, or EmptyResponseError, which becomes an empty list
Fail(f) ==
  /\ Quiet /\ fetch[f].pc = "asked"
  /\ fetch' = [fetch EXCEPT ![f] = Idle("failed")]
  /\ UNCHANGED <<world, align>>

\* min(key_to_ind[key]): over the indices swept so far
Lowest(r, k) == Least({i \in r.low..r.top : k \in KeysAt(i)})

\* one report of the loop in _fetch; after the last, sorted(ret) is returned
Decrypt(f) ==
  /\ fetch[f].pc = "decoding"
  /\ \E rep \in fetch[f].pending :
       LET r == [fetch[f] EXCEPT !.pending = @ \ {rep}, !.ret = @ \cup {rep}]
       IN  /\ align' = Updated(align, rep.time, Lowest(r, rep.key))
           /\ fetch' = [fetch EXCEPT ![f] = IF r.pending = {}
                                            THEN Idle("returned") ELSE r]
  /\ UNCHANGED <<world>>

-----------------------------------------------------------------------------
(* The caller: a scan (current_mac_addresses), fed back to update_alignment *)

\* mutant of Scan: aligned at the end of the range that was searched
ScanDatedAtMargin ==
  /\ Quiet
  /\ \E k \in Broadcast, m \in {0, Margin} :
       LET S == {i \in MinIndex(align, now - m)..MaxIndex(align, now + m) : k \in KeysAt(i)}
       IN  S # {} /\ align' = Updated(align, now + m, Least(S))
  /\ align' # align
  /\ UNCHANGED <<world, fetch>>

Scan ==
  /\ Quiet
  /\ \E k \in Broadcast, m \in {0, Margin} :
       LET S == {i \in MinIndex(align, now - m)..MaxIndex(align, now + m) : k \in KeysAt(i)}
       IN  S # {} /\ align' = Updated(align, now, Least(S))
  /\ align' # align
  /\ UNCHANGED <<world, fetch>>

-----------------------------------------------------------------------------
Resume(f) == Found(f) \/ NotFound(f) \/ Decrypt(f)

Next ==
  \/ Tick \/ Heard \/ Upload \/ Scan
  \/ \E f \in Fetches : Call(f) \/ Resume(f) \/ Fail(f)

Spec == Init /\ [][Next]_vars

\* a request is answered unless it fails (HttpSession times it out), and its
\* coroutine gets its turn however often others run; nobody has to call, roll
\* over or upload
FairSpec == Spec /\ \A f \in Fetches : SF_vars(Resume(f))

-----------------------------------------------------------------------------
Alignment == [date : Nat, index : Nat]

\* the variables stay in their types, and the alignment is never dated in
\* the future
TypeOK ==
  /\ now \in Nat /\ index \in Nat /\ age \in 0..Interval
  /\ heard \in SUBSET Report /\ apple \in SUBSET Report
  /\ align \in Alignment /\ align.date <= now
  /\ fetch \in [Fetches -> Fetch]

\* Under primary keys only, a fetch that returns has found the most recent
\* report that Apple held when it was called and that its last request still
\* looks back to (but for the rollover it cannot see at either end), however
\* its requests were split and whatever scan or other fetch moved the
\* alignment in between.  Each request counts its 7 days from its own moment:
\* a sweep that takes long enough outlives the oldest reports it is after.
FindsNewest ==
  \A f \in Fetches :
    fetch'[f].outcome = "returned" =>
      \A t \in fetch[f].due : t >= fetch[f].since =>
        \E r \in fetch[f].ret \cup fetch[f].pending : r.time >= t

FetchFindsNewest == [][FindsNewest]_vars

\* every fetch comes to an end
FetchEnds == \A f \in Fetches : fetch[f].pc # "idle" ~> fetch[f].pc = "idle"

\* While the accessory is heard under its primary keys only, the range that
\* current_keys and a fetch search misses it by one index at most.
SearchMissesAtMostOne ==
  MinIndex(align, now) <= index /\ index <= MaxIndex(align, now) + 1

-----------------------------------------------------------------------------
(* What a comment or docstring says and the code does not do: see the      *)
(* findings                                                                *)

\* "the minimum" and "the maximum key index that the accessory could be
\* broadcasting" (get_min_index, get_max_index) bound the one it broadcasts.
SearchCoversAccessory ==
  MinIndex(align, now) <= index /\ index <= MaxIndex(align, now)

\* Aligning at "the lowest index this key could correspond to" (_fetch) keeps
\* the alignment from getting "ahead of the truth", where "the error is
\* permanent" since update_alignment does not go back.
NeverAhead == align.index <= index
=============================================================================
