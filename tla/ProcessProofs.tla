--------------------------- MODULE ProcessProofs ---------------------------
(***************************************************************************)
(* What one process keeps beside its calls to Apple, for any number of     *)
(* scans, requests and callers, and any time-outs: the radio is on while a *)
(* scan is open and off when none is; closing an HttpSession leaves        *)
(* nothing open; a remote provider's headers are fresh.                    *)
(***************************************************************************)
EXTENDS Scanner, Anisette, TLAPS, FiniteSetTheorems

(* The scanner *)

States == {"idle", "starting", "start", "running", "waiting", "notified", "expired",
           "cancelled", "stopping", "stop"}

OpenScans == {s \in Scans : Open(s)}

\* A scan whose future was taken away goes on waiting.  At least the scans that
\* are open are counted, and no more until one is cancelled on its way out; one
\* that holds the lock is starting or stopping the radio, and none is counted
\* then.  The radio is on while any is counted, and with none open only while it
\* is stopped, or when nobody will stop it.
Paired ==
  /\ scan \in [Scans -> States]
  /\ orphaned \subseteq Waiting
  /\ count \in Nat /\ Cardinality(OpenScans) <= count
  /\ ~stuck => count = Cardinality(OpenScans)
  /\ \A s \in Scans : scan[s] \in {"start", "stop"} <=> lock = s
  /\ lock \in Scans => count = 0
  /\ count > 0 => radio
  /\ ~stuck /\ OpenScans = {} /\ (\A s \in Scans : scan[s] # "stop") => ~radio

\* No scan runs at first.
LEMMA PairedAtFirst == ScanInit => Paired
<1> SUFFICES ASSUME ScanInit PROVE Paired
  OBVIOUS
<1>1. OpenScans = {}
  BY DEF ScanInit, OpenScans, Open
<1>2. count = Cardinality(OpenScans)
  BY <1>1, FS_EmptySet DEF ScanInit
<1> QED BY <1>1, <1>2, ScanAssumption DEF ScanInit, Paired, States, Waiting

\* There are finitely many open scans, and none when none is counted.
LEMMA OpenCounted ==
  ASSUME Paired
  PROVE  /\ IsFiniteSet(OpenScans) /\ Cardinality(OpenScans) \in Nat
         /\ count = 0 => OpenScans = {}
<1>1. IsFiniteSet(OpenScans)
  BY ScanAssumption, FS_Subset DEF OpenScans
<1>2. Cardinality(OpenScans) \in Nat
  BY <1>1, FS_CardinalityType
<1> QED BY <1>1, <1>2, FS_EmptySet DEF Paired

\* A step that opens and closes no scan, and lets go of nothing.
LEMMA NoOneOpens ==
  ASSUME Paired, UNCHANGED <<count, radio, stuck>>, scan' \in [Scans -> States],
         lock' = lock \/ {lock, lock'} \cap Scans = {},
         orphaned' \subseteq Waiting',
         \A s \in Scans : /\ Open(s)' <=> Open(s)
                          /\ scan'[s] = scan[s] \/ {scan[s], scan'[s]} \cap {"start", "stop"} = {}
  PROVE  Paired'
<1>1. OpenScans' = OpenScans
  BY DEF OpenScans
<1>2. \A s \in Scans : /\ scan'[s] \in {"start", "stop"} <=> scan[s] \in {"start", "stop"}
                       /\ scan'[s] = "stop" <=> scan[s] = "stop"
  OBVIOUS
<1>3. \A s \in Scans : scan'[s] \in {"start", "stop"} <=> lock' = s
  BY <1>2 DEF Paired
<1>4. lock' \in Scans => count' = 0
  BY DEF Paired
<1> QED BY <1>1, <1>2, <1>3, <1>4 DEF Paired

\* A step of one scan that does not wait leaves those that do where they are.
LEMMA StillWaiting ==
  ASSUME Paired, NEW s \in Scans, scan[s] # "waiting", UNCHANGED orphaned,
         \A x \in Scans \ {s} : scan'[x] = scan[x]
  PROVE  orphaned' \subseteq Waiting'
BY DEF Paired, Waiting

\* The lock is taken: a scan that stops is counted no more.
LEMMA LockPairs == ASSUME Paired, NEW s \in Scans, Lock(s) PROVE Paired'
<1>1. /\ lock = Nobody /\ UNCHANGED <<orphaned, radio, stuck>>
      /\ scan \in [Scans -> States] /\ scan[s] \in {"starting", "stopping"}
      /\ \A x \in Scans : scan[x] \notin {"start", "stop"}
  BY ScanAssumption DEF Lock, Paired, future, Queued
<1>2. IsFiniteSet(OpenScans) /\ Cardinality(OpenScans) \in Nat
  BY OpenCounted
<1>3. ASSUME NEW to \in States, to \notin {"waiting"}, scan' = [scan EXCEPT ![s] = to]
      PROVE  /\ scan' \in [Scans -> States] /\ scan'[s] = to
             /\ \A x \in Scans \ {s} : scan'[x] = scan[x]
             /\ orphaned' \subseteq Waiting'
             /\ \A x \in Scans : scan'[x] \in {"start", "stop"} <=> x = s /\ to \in {"start", "stop"}
  <2>1. /\ scan' \in [Scans -> States] /\ scan'[s] = to
        /\ \A x \in Scans \ {s} : scan'[x] = scan[x]
    BY <1>1, <1>3
  <2>2. orphaned' \subseteq Waiting'
    BY <1>1, <2>1, StillWaiting
  <2> QED BY <1>1, <2>1, <2>2
<1>4. CASE scan[s] = "starting" /\ count = 0
  <2>1. scan' = [scan EXCEPT ![s] = "start"] /\ lock' = s /\ UNCHANGED count
    BY <1>4 DEF Lock, Goes
  <2>2. /\ scan' \in [Scans -> States] /\ scan'[s] = "start"
        /\ \A x \in Scans \ {s} : scan'[x] = scan[x]
        /\ orphaned' \subseteq Waiting'
        /\ \A x \in Scans : scan'[x] \in {"start", "stop"} <=> lock' = x
    BY <1>3, <2>1 DEF States
  <2>3. OpenScans' = OpenScans
    BY <1>4, <2>2 DEF OpenScans, Open
  <2> QED BY <1>1, <1>4, <2>1, <2>2, <2>3 DEF Paired
<1>5. CASE scan[s] = "starting" /\ count > 0
  <2>1. scan' = [scan EXCEPT ![s] = "running"] /\ lock' = Nobody /\ count' = count + 1
    BY <1>1, <1>5 DEF Lock, Goes
  <2>2. /\ scan' \in [Scans -> States] /\ scan'[s] = "running"
        /\ \A x \in Scans \ {s} : scan'[x] = scan[x]
        /\ orphaned' \subseteq Waiting'
        /\ \A x \in Scans : scan'[x] \notin {"start", "stop"} /\ lock' # x
    BY <1>3, <2>1, ScanAssumption DEF States
  <2>3. OpenScans' = OpenScans \cup {s} /\ s \notin OpenScans
    BY <1>5, <2>2 DEF OpenScans, Open
  <2>4. Cardinality(OpenScans') = Cardinality(OpenScans) + 1
    BY <1>2, <2>3, FS_AddElement
  <2> QED BY <1>1, <1>2, <1>5, <2>1, <2>2, <2>3, <2>4 DEF Paired
<1>6. CASE scan[s] = "stopping"
  <2>1. /\ count' = count - 1
        /\ \/ count = 1 /\ lock' = s /\ scan' = [scan EXCEPT ![s] = "stop"]
           \/ count # 1 /\ lock' = lock /\ scan' = [scan EXCEPT ![s] = "idle"]
    BY <1>6 DEF Lock, Goes, LastOne
  <2>2. PICK to \in {"stop", "idle"} :
          /\ scan' = [scan EXCEPT ![s] = to]
          /\ to = "stop" => count = 1 /\ lock' = s
          /\ to = "idle" => count # 1 /\ lock' = Nobody
    BY <1>1, <2>1
  <2>3. /\ scan' \in [Scans -> States] /\ scan'[s] = to
        /\ \A x \in Scans \ {s} : scan'[x] = scan[x]
        /\ orphaned' \subseteq Waiting'
        /\ \A x \in Scans : scan'[x] \in {"start", "stop"} <=> x = s /\ to \in {"start", "stop"}
    BY <1>3, <2>2 DEF States
  <2>4. \A x \in Scans : scan'[x] \in {"start", "stop"} <=> lock' = x
    BY <2>2, <2>3, ScanAssumption
  <2>5. OpenScans' = OpenScans \ {s} /\ s \in OpenScans
    BY <1>6, <2>2, <2>3 DEF OpenScans, Open
  <2>6. Cardinality(OpenScans') = Cardinality(OpenScans) - 1 /\ Cardinality(OpenScans') \in Nat
    <3>1. Cardinality(OpenScans') = Cardinality(OpenScans) - 1
      BY <1>2, <2>5, FS_RemoveElement
    <3>2. IsFiniteSet(OpenScans')
      BY <1>2, <2>5, FS_Subset
    <3> QED BY <3>1, <3>2, FS_CardinalityType
  <2>7. OpenScans' = {} => Cardinality(OpenScans') = 0
    BY FS_EmptySet
  <2>8. lock' \in Scans => count' = 0
    BY <2>1, <2>2, ScanAssumption
  <2>9. /\ count' \in Nat /\ Cardinality(OpenScans') <= count'
        /\ ~stuck' => count' = Cardinality(OpenScans')
        /\ count' > 0 => radio'
    BY <1>1, <1>2, <2>1, <2>6 DEF Paired
  <2>10. ~stuck' /\ OpenScans' = {} /\ (\A x \in Scans : scan'[x] # "stop") => ~radio'
    <3>1. ~stuck' /\ OpenScans' = {} => to = "stop"
      <4>1. count \in Nat
        BY DEF Paired
      <4> QED BY <4>1, <2>1, <2>2, <2>7, <2>9
    <3> QED BY <2>3, <3>1
  <2> QED BY <2>3, <2>4, <2>8, <2>9, <2>10 DEF Paired
<1> QED BY <1>1, <1>4, <1>5, <1>6 DEF Paired

\* A caller cancelled while it waits for the lock: one scan fewer may be open than
\* are counted, and then nobody will stop the radio.
LEMMA CancelledLockingPairs == ASSUME Paired, NEW s \in Scans, CancelledLocking(s) PROVE Paired'
<1>1. /\ scan[s] \in {"starting", "stopping"} /\ scan \in [Scans -> States]
      /\ scan' = [scan EXCEPT ![s] = "idle"]
      /\ UNCHANGED <<orphaned, lock, count, radio>>
      /\ stuck' = (stuck \/ scan[s] = "stopping")
  BY DEF CancelledLocking, Queued, Goes, future, Paired
<1>2. /\ scan' \in [Scans -> States] /\ scan'[s] = "idle"
      /\ \A x \in Scans \ {s} : scan'[x] = scan[x]
  BY <1>1 DEF States
<1>3. orphaned' \subseteq Waiting'
  BY <1>1, <1>2, StillWaiting
<1>4. \A x \in Scans : /\ scan'[x] \in {"start", "stop"} <=> scan[x] \in {"start", "stop"}
                       /\ scan'[x] = "stop" <=> scan[x] = "stop"
  BY <1>1, <1>2
<1>5. CASE scan[s] = "starting"
  <2>1. OpenScans' = OpenScans
    BY <1>1, <1>2, <1>5 DEF OpenScans, Open
  <2>2. stuck' <=> stuck
    BY <1>1, <1>5
  <2> QED BY <1>1, <1>2, <1>3, <1>4, <2>1, <2>2 DEF Paired
<1>6. CASE scan[s] = "stopping"
  <2>1. OpenScans' \subseteq OpenScans /\ stuck'
    BY <1>1, <1>2, <1>6 DEF OpenScans, Open
  <2>2. /\ Cardinality(OpenScans') \in Nat /\ Cardinality(OpenScans) \in Nat
        /\ Cardinality(OpenScans') <= Cardinality(OpenScans)
    BY <2>1, OpenCounted, FS_Subset, FS_CardinalityType
  <2> QED BY <1>1, <1>2, <1>3, <1>4, <2>1, <2>2 DEF Paired
<1> QED BY <1>1, <1>5, <1>6

\* The radio was started, or not.
LEMMA StartedPairs == ASSUME Paired, NEW s \in Scans, Started(s) PROVE Paired'
<1>1. /\ scan[s] = "start" /\ lock = s /\ lock' = Nobody /\ count = 0
      /\ scan \in [Scans -> States] /\ UNCHANGED orphaned
      /\ \A x \in Scans \ {s} : scan[x] \notin {"start", "stop"}
      /\ OpenScans = {} /\ IsFiniteSet(OpenScans) /\ Cardinality(OpenScans) = 0
  BY OpenCounted, FS_EmptySet DEF Started, Paired, future
<1>2. CASE scan' = [scan EXCEPT ![s] = "idle"] /\ UNCHANGED count
  <2>1. /\ scan' \in [Scans -> States] /\ scan'[s] = "idle"
        /\ \A x \in Scans \ {s} : scan'[x] = scan[x]
    BY <1>1, <1>2 DEF States
  <2>2. OpenScans' = OpenScans
    BY <1>1, <1>2, <2>1 DEF OpenScans, Open
  <2>3. \A x \in Scans : scan'[x] \notin {"start", "stop"} /\ lock' # x
    BY <1>1, <2>1, ScanAssumption
  <2>4. orphaned' \subseteq Waiting'
    BY <1>1, <2>1, StillWaiting
  <2>5. stuck' \/ UNCHANGED <<radio, stuck>>
    BY <1>1, <1>2 DEF Started, Goes
  <2>6. \A x \in Scans : scan[x] # "stop"
    BY <1>1
  <2> QED BY <1>1, <1>2, <2>1, <2>2, <2>3, <2>4, <2>5, <2>6 DEF Paired
<1>3. CASE scan' = [scan EXCEPT ![s] = "running"] /\ count' = count + 1 /\ radio' = TRUE
  <2>1. /\ scan' \in [Scans -> States] /\ scan'[s] = "running"
        /\ \A x \in Scans \ {s} : scan'[x] = scan[x]
    BY <1>1, <1>3 DEF States
  <2>2. OpenScans' = OpenScans \cup {s} /\ s \notin OpenScans
    BY <1>1, <2>1 DEF OpenScans, Open
  <2>3. \A x \in Scans : scan'[x] \notin {"start", "stop"} /\ lock' # x
    BY <1>1, <2>1, ScanAssumption
  <2>4. orphaned' \subseteq Waiting'
    BY <1>1, <2>1, StillWaiting
  <2>5. Cardinality(OpenScans') = 1 /\ count' = 1
    <3>1. OpenScans' = {s}
      BY <1>1, <2>2
    <3>2. Cardinality({s}) = 1
      BY FS_Singleton
    <3>3. Cardinality(OpenScans') = 1
      BY <3>1, <3>2
    <3>4. count' = 1
      BY <1>1, <1>3
    <3> QED BY <3>3, <3>4
  <2>6. lock' \notin Scans
    BY <1>1, ScanAssumption
  <2> QED BY <1>3, <2>1, <2>2, <2>3, <2>4, <2>5, <2>6 DEF Paired
<1> QED BY <1>2, <1>3 DEF Started, Goes

\* The last scan stopped the radio, or nobody will.
LEMMA StoppedPairs == ASSUME Paired, NEW s \in Scans, Stopped(s) PROVE Paired'
<1>1. /\ scan[s] = "stop" /\ lock = s /\ lock' = Nobody /\ UNCHANGED <<count, orphaned>>
      /\ scan \in [Scans -> States] /\ scan' = [scan EXCEPT ![s] = "idle"]
      /\ \A x \in Scans \ {s} : scan[x] \notin {"start", "stop"}
      /\ count = 0 /\ OpenScans = {}
  BY OpenCounted DEF Stopped, Paired, Goes, future
<1>2. /\ scan' \in [Scans -> States] /\ scan'[s] = "idle"
      /\ \A x \in Scans \ {s} : scan'[x] = scan[x]
  BY <1>1 DEF States
<1>3. OpenScans' = OpenScans
  BY <1>1, <1>2 DEF OpenScans, Open
<1>4. \A x \in Scans : scan'[x] \notin {"start", "stop"} /\ lock' # x
  BY <1>1, <1>2, ScanAssumption
<1>5. orphaned' \subseteq Waiting'
  BY <1>1, <1>2, StillWaiting
<1>6. ~stuck' => ~stuck /\ ~radio'
  BY DEF Stopped
<1>7. lock' \notin Scans
  BY <1>1, ScanAssumption
<1> QED BY <1>1, <1>2, <1>3, <1>4, <1>5, <1>6, <1>7 DEF Paired

\* All of it lasts.
LEMMA PairedStays == Paired /\ [ScanNext]_scanVars => Paired'
<1> SUFFICES ASSUME Paired, [ScanNext]_scanVars PROVE Paired'
  OBVIOUS
<1>0. scan \in [Scans -> States]
  BY DEF Paired
<1>1. CASE Tick \/ UNCHANGED scanVars
  <2>1. UNCHANGED <<scan, count, lock, radio, stuck, orphaned>>
    BY <1>1 DEF Tick, scanVars, future
  <2>2. orphaned' \subseteq Waiting'
    BY <2>1 DEF Paired, Waiting
  <2> QED BY <1>0, <2>1, <2>2, NoOneOpens DEF Open
<1>l. CASE LockElsewhere \/ UnlockElsewhere
  <2>1. UNCHANGED <<scan, count, radio, stuck, orphaned>> /\ {lock, lock'} \cap Scans = {}
    BY <1>l, ScanAssumption DEF LockElsewhere, UnlockElsewhere, future
  <2>2. orphaned' \subseteq Waiting'
    BY <2>1 DEF Paired, Waiting
  <2> QED BY <1>0, <2>1, <2>2, NoOneOpens DEF Open
<1>2. ASSUME NEW d \in Devices, Advertise(d) PROVE Paired'
  <2>1. /\ UNCHANGED <<count, lock, radio, stuck>>
        /\ \A s \in Scans : scan'[s] = IF s \in Waiting \ orphaned THEN "notified" ELSE scan[s]
        /\ scan' \in [Scans -> States]
    BY <1>0, <1>2 DEF Advertise, States
  <2>2. \A s \in Scans : Open(s)' <=> Open(s)
    BY <2>1 DEF Open, Waiting
  <2>3. \A s \in Scans : scan'[s] = scan[s] \/ {scan[s], scan'[s]} \cap {"start", "stop"} = {}
    BY <2>1 DEF Waiting
  <2>4. orphaned' \subseteq Waiting'
    BY <1>2, <2>1 DEF Advertise, future, Paired, Waiting
  <2> QED BY <2>1, <2>2, <2>3, <2>4, NoOneOpens
<1>3. ASSUME NEW s \in Scans, \/ ScanFor(s) \/ Wait(s) \/ Notified(s) \/ Expired(s)
                              \/ Leave(s) /\ scan[s] # "waiting"
      PROVE  Paired'
  <2>1. PICK to \in {"starting", "stopping", "cancelled", "waiting", "running"} :
          /\ scan' = [scan EXCEPT ![s] = to] /\ UNCHANGED <<count, lock, radio, stuck>>
          /\ scan[s] \in {"idle", "running", "notified", "expired", "cancelled"}
          /\ scan[s] = "idle" <=> to = "starting"
    BY <1>3 DEF ScanFor, Wait, Notified, Expired, Leave, GivesUp, Goes
  <2>2. /\ scan' \in [Scans -> States] /\ scan'[s] = to
        /\ \A x \in Scans \ {s} : scan'[x] = scan[x]
    BY <1>0, <2>1 DEF States
  <2>3. \A x \in Scans : Open(x)' <=> Open(x)
    BY <2>1, <2>2 DEF Open
  <2>4. \A x \in Scans : scan'[x] = scan[x] \/ {scan[x], scan'[x]} \cap {"start", "stop"} = {}
    BY <2>1, <2>2
  <2>5. orphaned' \subseteq Waiting'
    <3>1. orphaned' \subseteq orphaned \cup Waiting /\ scan[s] # "waiting"
      BY <1>3, <2>1 DEF ScanFor, Wait, Notified, Expired, Leave, GivesUp, future
    <3> QED BY <2>1, <2>2, <3>1 DEF Paired, Waiting
  <2> QED BY <2>1, <2>2, <2>3, <2>4, <2>5, NoOneOpens
<1>4. ASSUME NEW s \in Scans, \/ Expire(s)
                              \/ Leave(s) /\ scan[s] = "waiting"
      PROVE Paired'
  <2> DEFINE Ended == {"expired", "stopping", "cancelled"}
  <2>0. UNCHANGED <<count, lock, radio, stuck>>
    BY <1>4 DEF Expire, Leave
  <2>1. /\ scan' \in [Scans -> States]
        /\ \A x \in Scans : \/ scan'[x] = scan[x]
                            \/ scan[x] \in {"waiting", "cancelled"} /\ scan'[x] \in Ended
        /\ orphaned' \subseteq Waiting'
    <3>1. ASSUME NEW to \in {"expired", "stopping"}, GivesUp(s, to) PROVE <2>1!1 /\ <2>1!2 /\ <2>1!3
      <4>1. CASE /\ scan[s] = "waiting" /\ s \notin orphaned /\ UNCHANGED orphaned
                 /\ scan' = [x \in Scans |-> IF x = s THEN to
                                            ELSE IF x \in Waiting \ orphaned THEN "cancelled" ELSE scan[x]]
        BY <1>0, <4>1 DEF Waiting, States, Paired
      <4>2. ASSUME NEW same \in SUBSET (orphaned \ {s}), scan[s] = "waiting", s \in orphaned,
                   scan' = [x \in Scans |-> IF x = s THEN to
                                            ELSE IF x \in same THEN "cancelled" ELSE scan[x]],
                   orphaned' = orphaned \ (same \cup {s})
            PROVE  <2>1!1 /\ <2>1!2 /\ <2>1!3
        BY <1>0, <4>2 DEF Waiting, States, Paired
      <4> QED BY <3>1, <4>1, <4>2 DEF GivesUp
    <3>2. CASE scan[s] = "cancelled" /\ scan' = [scan EXCEPT ![s] = "expired"] /\ UNCHANGED orphaned
      BY <1>0, <3>2 DEF Waiting, States, Paired
    <3>3. \/ GivesUp(s, "expired") \/ GivesUp(s, "stopping")
          \/ scan[s] = "cancelled" /\ scan' = [scan EXCEPT ![s] = "expired"] /\ UNCHANGED orphaned
      BY <1>4 DEF Expire, Leave, Goes, future
    <3> QED BY <3>1, <3>2, <3>3
  <2>2. \A x \in Scans : Open(x)' <=> Open(x)
    BY <2>1 DEF Open
  <2>3. \A x \in Scans : scan'[x] = scan[x] \/ {scan[x], scan'[x]} \cap {"start", "stop"} = {}
    BY <2>1
  <2> QED BY <2>0, <2>1, <2>2, <2>3, NoOneOpens
<1>5. ASSUME NEW s \in Scans, Leave(s) PROVE Paired'
  BY <1>3, <1>4, <1>5
<1> QED BY <1>1, <1>l, <1>2, <1>3, <1>4, <1>5, LockPairs, CancelledLockingPairs, StartedPairs,
           StoppedPairs DEF ScanNext, ScanStep

-----------------------------------------------------------------------------
(* The theorem *)

\* Nobody scans with the radio off, and it is not left on by a scan that could
\* stop it (_start_scan, _stop_scan).
THEOREM RadioAlwaysRight == ScanSpec => []RadioWhileScanning
<1>1. Paired => RadioWhileScanning
  <2> SUFFICES ASSUME Paired PROVE RadioWhileScanning
    OBVIOUS
  <2>1. \A s \in Scans : Open(s) => radio
    BY OpenCounted DEF Paired, OpenScans
  <2>2. ASSUME lock \notin Scans, ~stuck, \A s \in Scans : ~Open(s) PROVE ~radio
    <3>1. OpenScans = {}
      BY <2>2 DEF OpenScans
    <3>2. \A s \in Scans : scan[s] # "stop"
      BY <2>2 DEF Paired
    <3> QED BY <2>2, <3>1, <3>2 DEF Paired
  <2> QED BY <2>1, <2>2 DEF RadioWhileScanning
<1> QED BY <1>1, PairedAtFirst, PairedStays, PTL DEF ScanSpec

-----------------------------------------------------------------------------
(* HttpSession *)

\* what close has yet to come to, it can find in one of the two attributes
Findable ==
  /\ open \subseteq Nat
  /\ pooled \in Nat \cup {None} /\ unpooled \in Nat \cup {None} /\ made \in Nat
  /\ closing \in {"no", "unpooled", "pooled", "done", "cut"}
  /\ closing # "no" /\ ClosedAtOnce => closed
  /\ closing # "cut" => open \subseteq abandoned \cup {pooled, unpooled}
  /\ closing \in {"pooled", "done"} => unpooled = None
  /\ closing = "done" => pooled = None

\* Nothing is open at first.
LEMMA FindableAtFirst == HttpInit => Findable
  BY MadeAssumption DEF HttpInit, Findable

\* Only a request on a session not yet closed makes one, and it is kept; close
\* lets go of one only when it was closed or that was tried.
LEMMA FindableStays == Findable /\ [HttpNext]_httpVars => Findable'
<1> SUFFICES ASSUME Findable, [HttpNext]_httpVars PROVE Findable'
  OBVIOUS
<1> USE MadeAssumption DEF Findable
<1>1. ASSUME NEW t \in Tasks, NEW reuse \in BOOLEAN, NEW retries \in BOOLEAN,
             Request(t, reuse, retries)
      PROVE  Findable'
  <2>1. closing = "no"
    BY <1>1 DEF Request, ClosedAtOnce
  <2>2. UNCHANGED <<closed, closing, abandoned>>
    BY <1>1 DEF Request
  <2>3. CASE (IF reuse THEN pooled ELSE unpooled) # None
    <3>1. UNCHANGED <<pooled, unpooled, made, open>>
      BY <1>1, <2>3 DEF Request, sessions
    <3> QED BY <2>2, <3>1
  <2>4. CASE (IF reuse THEN pooled ELSE unpooled) = None
    <3>1. /\ made' = made + 1 /\ open' = open \cup {made + 1}
          /\ pooled' = IF reuse THEN made + 1 ELSE pooled
          /\ unpooled' = IF reuse THEN unpooled ELSE made + 1
      BY <1>1, <2>4 DEF Request
    <3>2. CASE reuse
      BY <2>1, <2>2, <2>4, <3>1, <3>2
    <3>3. CASE ~reuse
      BY <2>1, <2>2, <2>4, <3>1, <3>3
    <3> QED BY <3>2, <3>3
  <2> QED BY <2>3, <2>4
<1>2. ASSUME NEW t \in Tasks, Reply(t) \/ Errs(t) \/ Wake(t) PROVE Findable'
  BY <1>2 DEF Reply, Errs, Wake, sessions, closeVars
<1>3. CASE Close
  BY <1>3 DEF Close, sessions, ClosedAtOnce
<1>4. CASE CloseUnpooled
  <2>1. CASE unpooled = None
    BY <1>4, <2>1 DEF CloseUnpooled
  <2>2. CASE unpooled # None
    <3>1. /\ closing = "unpooled" /\ closing' = "pooled" /\ unpooled' = None
          /\ UNCHANGED <<pooled, made, closed>>
      BY <1>4, <2>2 DEF CloseUnpooled
    <3>2. open' \subseteq abandoned' \cup {pooled} /\ open' \subseteq open
      <4>1. open \subseteq abandoned \cup {pooled, unpooled}
        BY <3>1
      <4>2. \/ open' = open \ {unpooled} /\ abandoned' = abandoned
            \/ abandoned' = abandoned \cup {unpooled} /\ open' = open
        BY <1>4, <2>2 DEF CloseUnpooled, Awaits
      <4>3. CASE open' = open \ {unpooled} /\ abandoned' = abandoned
        BY ONLY <4>1, <4>3
      <4>4. CASE abandoned' = abandoned \cup {unpooled} /\ open' = open
        BY ONLY <4>1, <4>4
      <4> QED BY ONLY <4>2, <4>3, <4>4
    <3>3. open' \subseteq abandoned' \cup {pooled', unpooled'}
      BY <3>1, <3>2
    <3>4. /\ open' \subseteq Nat
          /\ closing' # "no" /\ ClosedAtOnce => closed'
      BY <3>1, <3>2
    <3> QED BY <3>1, <3>3, <3>4, ClosedAtOnce' = ClosedAtOnce
  <2> QED BY <2>1, <2>2
<1>5. CASE ClosePooled
  <2>1. CASE pooled = None
    BY <1>5, <2>1 DEF ClosePooled
  <2>2. CASE pooled # None
    BY <1>5, <2>2 DEF ClosePooled, Awaits
  <2> QED BY <2>1, <2>2
<1>6. CASE Cut
  BY <1>6 DEF Cut
<1>7. CASE UNCHANGED httpVars
  BY <1>7 DEF httpVars, sessions, closeVars
<1> QED BY <1>1, <1>2, <1>3, <1>4, <1>5, <1>6, <1>7 DEF HttpNext, Closes

\* Once close has returned, every aiohttp session is closed but those whose
\* own close raised.
THEOREM ClosedLeavesNothing == HttpSpec => []NothingLeftOpen
<1>1. Findable => NothingLeftOpen
  BY MadeAssumption DEF Findable, NothingLeftOpen
<1> QED BY <1>1, FindableAtFirst, FindableStays, PTL DEF HttpSpec

-----------------------------------------------------------------------------
(* The remote anisette provider *)

\* an attempt under way is no older than its time-out, and what is kept is no
\* older than that when its validity begins
Fresh ==
  /\ now \in Nat /\ expires \in Nat /\ data \in Nat \cup {None}
  /\ sentAt \in [Tasks -> Nat] /\ age \in [Tasks -> Int]
  /\ request \in [Tasks -> [state : {"none", "sent", "sleeping"}, session : Nat \cup {None},
                            retries : BOOLEAN, attempt : Nat]]
  /\ pooled \in Nat \cup {None} /\ unpooled \in Nat \cup {None} /\ made \in Nat
  /\ \A t \in Tasks : sentAt[t] <= now
  /\ \A t \in Tasks : request[t].state = "sent" => now - sentAt[t] <= Limit
  /\ data # None => expires <= data + ValidFor + Limit
  /\ \A t \in Tasks : age[t] < ValidFor + Limit

\* No one has headers at first, and no one was given any.
LEMMA FreshAtFirst == HttpInit /\ AnisetteInit => Fresh
  BY MadeAssumption, TimeAssumption DEF HttpInit, AnisetteInit, Fresh, NoRequest

\* A request that is sent is new, whichever session it is sent over.
LEMMA RequestIsNew ==
  ASSUME Fresh, NEW t \in Tasks, NEW reuse \in BOOLEAN, NEW retries \in BOOLEAN,
         Request(t, reuse, retries)
  PROVE  /\ \E r \in [state : {"sent"}, session : Nat \cup {None}, retries : BOOLEAN, attempt : Nat] :
              request' = [request EXCEPT ![t] = r]
         /\ pooled' \in Nat \cup {None} /\ unpooled' \in Nat \cup {None} /\ made' \in Nat
<1> USE MadeAssumption
<1>1. CASE (IF reuse THEN pooled ELSE unpooled) # None
  <2>1. Sends(t, IF reuse THEN pooled ELSE unpooled, retries) /\ UNCHANGED sessions
    BY <1>1 DEF Request
  <2> QED BY <2>1 DEF Sends, sessions, Fresh
<1>2. CASE (IF reuse THEN pooled ELSE unpooled) = None
  <2>1. /\ Sends(t, made + 1, retries) /\ made' = made + 1
        /\ pooled' = IF reuse THEN made + 1 ELSE pooled
        /\ unpooled' = IF reuse THEN unpooled ELSE made + 1
    BY <1>2 DEF Request
  <2> DEFINE r == [state |-> "sent", session |-> made + 1, retries |-> retries, attempt |-> 1]
  <2>2. made \in Nat /\ pooled \in Nat \cup {None} /\ unpooled \in Nat \cup {None}
    BY DEF Fresh
  <2>3. r \in [state : {"sent"}, session : Nat \cup {None}, retries : BOOLEAN, attempt : Nat]
    BY <2>2
  <2>4. request' = [request EXCEPT ![t] = r]
    BY <2>1 DEF Sends
  <2>5. pooled' \in Nat \cup {None} /\ unpooled' \in Nat \cup {None} /\ made' \in Nat
    BY <2>1, <2>2
  <2> HIDE DEF r
  <2> QED BY <2>3, <2>4, <2>5
<1> QED BY <1>1, <1>2

\* A step of the provider, of a request or of time keeps all of it.
LEMMA FreshStays == Fresh /\ [AnisetteNext]_<<httpVars, anisetteVars>> => Fresh'
<1> SUFFICES ASSUME Fresh, [AnisetteNext]_<<httpVars, anisetteVars>> PROVE Fresh'
  OBVIOUS
<1> USE MadeAssumption, TimeAssumption
<1>1. CASE Passes
  <2>1. now' = now + 1 /\ UNCHANGED <<request, pooled, unpooled, made, data, expires, sentAt, age>>
        /\ \A t \in Tasks : request[t].state = "sent" => now - sentAt[t] < Limit
    BY <1>1 DEF Passes, httpVars, sessions
  <2> QED BY <2>1 DEF Fresh
<1>2. CASE CloseProvider
  <2>1. UNCHANGED <<request, pooled, unpooled, made, now, data, expires, sentAt, age>>
    BY <1>2 DEF CloseProvider, Close, sessions
  <2> QED BY <2>1 DEF Fresh
<1>3. CASE KeepClosing
  <2>1. UNCHANGED <<request, made, now, data, expires, sentAt, age>>
        /\ pooled' \in {pooled, None} /\ unpooled' \in {unpooled, None}
    BY <1>3 DEF KeepClosing, CloseUnpooled, ClosePooled, Cut, anisetteVars
  <2> QED BY <2>1 DEF Fresh
<1>4. ASSUME NEW t \in Tasks, GetHeaders(t) PROVE Fresh'
  <2>1. UNCHANGED <<now, data, expires>>
    BY <1>4 DEF GetHeaders
  <2>2. CASE Stale
    <3>1. Request(t, TRUE, TRUE) /\ sentAt' = [sentAt EXCEPT ![t] = now] /\ UNCHANGED age
      BY <1>4, <2>2 DEF GetHeaders
    <3>2. PICK r \in [state : {"sent"}, session : Nat \cup {None}, retries : BOOLEAN, attempt : Nat] :
            request' = [request EXCEPT ![t] = r]
      BY <3>1, RequestIsNew
    <3>3. pooled' \in Nat \cup {None} /\ unpooled' \in Nat \cup {None} /\ made' \in Nat
      BY <3>1, RequestIsNew
    <3> QED BY <2>1, <3>1, <3>2, <3>3 DEF Fresh
  <2>3. CASE ~Stale
    <3>1. age' = [age EXCEPT ![t] = now - data] /\ UNCHANGED <<request, pooled, unpooled, made, sentAt>>
      BY <1>4, <2>3 DEF GetHeaders, httpVars, sessions
    <3>2. data \in Nat /\ now - data \in Int /\ now - data < ValidFor + Limit
      BY <2>3 DEF Stale, Fresh
    <3> QED BY <2>1, <3>1, <3>2 DEF Fresh
  <2> QED BY <2>2, <2>3
<1>5. ASSUME NEW t \in Tasks, Fetched(t) PROVE Fresh'
  <2>1. PICK at \in sentAt[t] .. now : data' = at /\ age' = [age EXCEPT ![t] = now - at]
    BY <1>5 DEF Fetched
  <2>2. /\ request[t].state = "sent" /\ request' = [request EXCEPT ![t] = NoRequest]
        /\ UNCHANGED <<pooled, unpooled, made, now, sentAt>> /\ expires' = now + ValidFor
    BY <1>5 DEF Fetched, Reply, Over, sessions
  <2>3. at \in Nat /\ now - at \in Int /\ now - at <= Limit /\ now - at < ValidFor + Limit
    BY <2>1, <2>2 DEF Fresh
  <2> QED BY <2>1, <2>2, <2>3 DEF Fresh, NoRequest
<1>6. ASSUME NEW t \in Tasks, FetchFails(t) PROVE Fresh'
  <2>1. UNCHANGED <<pooled, unpooled, made, now, data, expires, sentAt, age>>
        /\ (request' = [request EXCEPT ![t] = NoRequest]
            \/ request' = [request EXCEPT ![t].state = "sleeping"])
    BY <1>6 DEF FetchFails, Errs, Over, sessions, anisetteVars
  <2>2. CASE request' = [request EXCEPT ![t] = NoRequest]
    BY <2>1, <2>2 DEF Fresh, NoRequest
  <2>3. CASE request' = [request EXCEPT ![t].state = "sleeping"]
    <3>1. /\ request' \in [Tasks -> [state : {"none", "sent", "sleeping"}, session : Nat \cup {None},
                                   retries : BOOLEAN, attempt : Nat]]
          /\ \A u \in Tasks : request'[u].state = "sent" => request[u].state = "sent"
      BY <2>3 DEF Fresh
    <3> QED BY <2>1, <3>1 DEF Fresh
  <2> QED BY <2>1, <2>2, <2>3
<1>7. ASSUME NEW t \in Tasks, FetchAgain(t) PROVE Fresh'
  <2>1. UNCHANGED <<pooled, unpooled, made, now, data, expires, age>>
        /\ sentAt' = [sentAt EXCEPT ![t] = now]
        /\ (request' = [request EXCEPT ![t] = NoRequest]
            \/ request' = [request EXCEPT ![t].state = "sent", ![t].attempt = @ + 1])
    BY <1>7 DEF FetchAgain, Wake, Over, sessions
  <2>2. /\ request' \in [Tasks -> [state : {"none", "sent", "sleeping"}, session : Nat \cup {None},
                                 retries : BOOLEAN, attempt : Nat]]
        /\ \A u \in Tasks \ {t} : request'[u] = request[u]
    <3>1. CASE request' = [request EXCEPT ![t] = NoRequest]
      BY <3>1 DEF Fresh, NoRequest
    <3>2. CASE request' = [request EXCEPT ![t].state = "sent", ![t].attempt = @ + 1]
      BY <3>2 DEF Fresh
    <3> QED BY <2>1, <3>1, <3>2
  <2>3. \A u \in Tasks : /\ sentAt'[u] \in Nat /\ sentAt'[u] <= now
                         /\ request'[u].state = "sent" => now - sentAt'[u] <= Limit
    BY <2>1, <2>2 DEF Fresh
  <2>4. sentAt' \in [Tasks -> Nat]
    BY <2>1 DEF Fresh
  <2> QED BY <2>1, <2>2, <2>3, <2>4 DEF Fresh
<1>8. CASE UNCHANGED <<httpVars, anisetteVars>>
  BY <1>8 DEF httpVars, sessions, anisetteVars, Fresh
<1> QED BY <1>1, <1>2, <1>3, <1>4, <1>5, <1>6, <1>7, <1>8 DEF AnisetteNext

\* Headers get_headers returns were made less than their validity and one
\* time-out ago, however many callers refresh them at once.
THEOREM HeadersAlwaysFresh == AnisetteSpec => []HeadersAreFresh
<1>1. Fresh => HeadersAreFresh
  BY DEF Fresh, HeadersAreFresh
<1> QED BY <1>1, FreshAtFirst, FreshStays, PTL DEF AnisetteSpec
=============================================================================
