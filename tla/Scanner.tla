------------------------------ MODULE Scanner ------------------------------
(***************************************************************************)
(* OfflineFindingScanner (findmy/scanner/scanner.py): scans share a radio, *)
(* which the first starts and the last stops, and one future, which the    *)
(* next advertisement resolves for every scan that waits for it.           *)
(*                                                                         *)
(* asyncio.wait_for cancels the future it gave up on: the scan whose time  *)
(* is over, or whose caller is cancelled, takes every other waiting scan   *)
(* with it.  The caller's task may be cancelled wherever it waits, for the *)
(* lock and for the radio as well; a scan cancelled on its way out, while  *)
(* it waits for the lock, remains counted for good.                        *)
(***************************************************************************)
EXTENDS Integers, FiniteSets

CONSTANTS
  Scans,        \* calls of scan_for
  Extending,    \* those with extend_timeout
  Devices,      \* those that advertise, by address
  Timeout,      \* the time a scan is given
  MaxScans,     \* bounds how many scans are started
  Nobody,
  OtherScanner  \* any other scanner: the lock belongs to the class

ASSUME ScanAssumption == IsFiniteSet(Scans) /\ Extending \subseteq Scans
                         /\ Timeout \in Nat \ {0} /\ MaxScans \in Nat
                         /\ Nobody \notin Scans /\ OtherScanner \notin Scans
                         /\ OtherScanner # Nobody

VARIABLES
  scan,         \* where each scan is
  left,         \* the time it has left
  seen,         \* devices_seen
  heard,        \* the device its future was resolved with
  orphaned,     \* the scans that wait on a future that was replaced
  cancelled,    \* _device_fut is cancelled and not yet replaced
  lock,         \* who holds _scan_ctrl_lock
  count,        \* _scanner_count
  radio,        \* the radio scans
  stuck,        \* nobody will stop it: who should have failed to or was cancelled
  started       \* how many scans were started

scanVars == <<scan, left, seen, heard, orphaned, cancelled, lock, count, radio,
              stuck, started>>

future == <<orphaned, cancelled>>
local  == <<left, seen, heard>>

ScanInit ==
  /\ scan = [s \in Scans |-> "idle"] /\ left = [s \in Scans |-> 0]
  /\ seen = [s \in Scans |-> {}]
  /\ heard = [s \in Scans |-> Nobody]
  /\ orphaned = {} /\ cancelled = FALSE
  /\ lock = Nobody /\ count = 0 /\ radio = FALSE /\ stuck = FALSE /\ started = 0

Goes(s, to) == scan' = [scan EXCEPT ![s] = to]

-----------------------------------------------------------------------------
(* _start_scan and _stop_scan: the radio is awaited with the lock held *)

ScanFor(s) ==
  /\ scan[s] = "idle" /\ started < MaxScans /\ started' = started + 1
  /\ Goes(s, "starting")
  /\ UNCHANGED <<local, future, lock, count, radio, stuck>>

\* its locals end with it
Forgets(s) ==
  /\ left' = [left EXCEPT ![s] = 0] /\ seen' = [seen EXCEPT ![s] = {}]
  /\ heard' = [heard EXCEPT ![s] = Nobody]

Queued == {s \in Scans : scan[s] \in {"starting", "stopping"}}

\* mutant of LastOne: with one scan left
LastOneEarly == count <= 2

LastOne == count = 1

\* the lock is taken; it is kept across an await only by the first scan, which
\* starts the radio, and by the last, which stops it
Lock(s) ==
  /\ s \in Queued /\ lock = Nobody
  /\ \/ /\ scan[s] = "starting" /\ count = 0
        /\ lock' = s /\ Goes(s, "start") /\ UNCHANGED <<count, local>>
     \/ /\ scan[s] = "starting" /\ count > 0
        /\ count' = count + 1 /\ left' = [left EXCEPT ![s] = Timeout]
        /\ Goes(s, "running") /\ UNCHANGED <<seen, heard, lock>>
     \/ /\ scan[s] = "stopping" /\ count' = count - 1 /\ Forgets(s)
        /\ IF LastOne THEN lock' = s /\ Goes(s, "stop") ELSE Goes(s, "idle") /\ UNCHANGED lock
  /\ UNCHANGED <<future, radio, stuck, started>>

\* The lock had to be waited for and the caller is cancelled: a scan that was
\* to begin never does, one that was to end stays counted, and with it the radio.
CancelledLocking(s) ==
  /\ s \in Queued /\ (lock # Nobody \/ Queued # {s})
  /\ Goes(s, "idle") /\ Forgets(s)
  /\ stuck' = (stuck \/ scan[s] = "stopping")
  /\ UNCHANGED <<future, lock, count, radio, started>>

\* another scanner starts or stops its radio (when none of these scans wants
\* the lock that makes no difference)
LockElsewhere ==
  /\ Queued # {} /\ lock = Nobody /\ lock' = OtherScanner
  /\ UNCHANGED <<scan, local, future, count, radio, stuck, started>>

UnlockElsewhere ==
  /\ lock = OtherScanner /\ lock' = Nobody
  /\ UNCHANGED <<scan, local, future, count, radio, stuck, started>>

\* if the radio does not start the scan raises, and is not counted; if the
\* caller is cancelled it is not counted either, and the radio may have started
Started(s) ==
  /\ scan[s] = "start" /\ lock' = Nobody
  /\ \/ /\ Goes(s, "idle") /\ UNCHANGED <<count, left>>
        /\ \/ UNCHANGED <<radio, stuck>>
           \/ radio' = TRUE /\ stuck' = TRUE
     \/ /\ count' = count + 1 /\ radio' = TRUE /\ stuck' = FALSE
        /\ left' = [left EXCEPT ![s] = Timeout]
        /\ Goes(s, "running")
  /\ UNCHANGED <<seen, heard, future, started>>

\* the radio is off, or its stop raised or was cancelled
Stopped(s) ==
  /\ scan[s] = "stop" /\ lock' = Nobody /\ Goes(s, "idle")
  /\ \/ radio' = FALSE /\ UNCHANGED stuck
     \/ stuck' = TRUE /\ UNCHANGED radio
  /\ UNCHANGED <<local, future, count, started>>

-----------------------------------------------------------------------------
(* The loop of scan_for *)

\* time left: it waits for the future there is; if that is cancelled already
\* it is cancelled itself
Wait(s) ==
  /\ scan[s] = "running"
  /\ Goes(s, IF left[s] = 0 THEN "stopping" ELSE IF cancelled THEN "cancelled" ELSE "waiting")
  /\ UNCHANGED <<local, future, lock, count, radio, stuck, started>>

Waiting == {s \in Scans : scan[s] = "waiting"}

\* _scan_callback, while the radio is on
Advertise(d) ==
  /\ radio /\ ~cancelled /\ Waiting \ orphaned # {}
  /\ scan' = [s \in Scans |-> IF s \in Waiting \ orphaned THEN "notified" ELSE scan[s]]
  /\ heard' = [s \in Scans |-> IF s \in Waiting \ orphaned THEN d ELSE heard[s]]
  /\ UNCHANGED <<left, seen, future, lock, count, radio, stuck, started>>

\* mutant of Prolongs: by every advertisement
ProlongsAlways(s) == s \in Extending

\* "every time a new device is discovered"
Prolongs(s) == s \in Extending /\ heard[s] \notin seen[s]

\* an advertisement that is not Apple's or not of a finding device counts for nothing
Notified(s) ==
  /\ scan[s] = "notified" /\ Goes(s, "running")
  /\ \/ UNCHANGED <<left, seen>>
     \/ /\ left' = IF Prolongs(s) THEN [left EXCEPT ![s] = Timeout] ELSE left
        /\ seen' = [seen EXCEPT ![s] = @ \cup {heard[s]}]
  /\ heard' = [heard EXCEPT ![s] = Nobody]
  /\ UNCHANGED <<future, lock, count, radio, stuck, started>>

Open(s) == scan[s] \in {"running", "waiting", "notified", "expired", "cancelled", "stopping"}

Tick ==
  /\ \E s \in Scans : Open(s) /\ left[s] > 0
  /\ left' = [s \in Scans |-> IF left[s] > 0 THEN left[s] - 1 ELSE 0]
  /\ UNCHANGED <<scan, seen, heard, future, lock, count, radio, stuck, started>>

\* wait_for gives up: the future is cancelled, for everyone who waits for it
GivesUp(s, to) ==
  /\ scan[s] = "waiting"
  /\ \/ /\ s \notin orphaned
        /\ scan' = [x \in Scans |-> IF x = s THEN to
                                    ELSE IF x \in Waiting \ orphaned THEN "cancelled" ELSE scan[x]]
        /\ cancelled' = TRUE /\ UNCHANGED orphaned
     \/ /\ s \in orphaned
        /\ \E same \in SUBSET (orphaned \ {s}) :
             /\ scan' = [x \in Scans |-> IF x = s THEN to
                                         ELSE IF x \in same THEN "cancelled" ELSE scan[x]]
             /\ orphaned' = orphaned \ (same \cup {s})
        /\ UNCHANGED cancelled

\* The timer of wait_for.  A scan that was cancelled may find that its own
\* time is over as well.
Expire(s) ==
  /\ left[s] = 0
  /\ \/ GivesUp(s, "expired")
     \/ scan[s] = "cancelled" /\ Goes(s, "expired") /\ UNCHANGED future
  /\ UNCHANGED <<local, lock, count, radio, stuck, started>>

\* the except branch replaces the future, whoever waits for the one there is
Expired(s) ==
  /\ scan[s] = "expired" /\ Goes(s, "stopping")
  /\ orphaned' = orphaned \cup Waiting
  /\ cancelled' = FALSE
  /\ UNCHANGED <<local, lock, count, radio, stuck, started>>

\* CancelledError, the future's or the caller's own, only runs the finally
\* branch; the caller may also leave at the yield
Leave(s) ==
  /\ \/ GivesUp(s, "stopping")
     \/ /\ scan[s] \in {"running", "notified", "expired", "cancelled"}
        /\ Goes(s, "stopping") /\ UNCHANGED future
  /\ UNCHANGED <<local, lock, count, radio, stuck, started>>

ScanStep(s) ==
  Lock(s) \/ Started(s) \/ Stopped(s) \/ Wait(s) \/ Notified(s) \/ Expire(s) \/ Expired(s)
  \/ Leave(s) \/ CancelledLocking(s)

ScanNext ==
  \/ Tick \/ LockElsewhere \/ UnlockElsewhere
  \/ \E d \in Devices : Advertise(d)
  \/ \E s \in Scans : ScanFor(s) \/ ScanStep(s)

ScanSpec == ScanInit /\ [][ScanNext]_scanVars

\* time passes, the radio answers, the lock is handed on in turn
ScanFairness ==
  /\ WF_scanVars(Tick) /\ WF_scanVars(UnlockElsewhere)
  /\ \A s \in Scans : WF_scanVars(Wait(s) \/ Notified(s) \/ Expire(s) \/ Expired(s)
                                  \/ Started(s) \/ Stopped(s)
                                  \/ (scan[s] = "cancelled" /\ Leave(s)))
                      /\ SF_scanVars(Lock(s))

-----------------------------------------------------------------------------
(* Properties *)

\* A scan that runs has the radio on however many others start, end or are
\* cancelled around it; and with none left the radio is off, unless a stop
\* failed or was cancelled, while it was awaited or while the lock was, or the
\* radio had started when its start was cancelled (_start_scan, _stop_scan).
RadioWhileScanning ==
  /\ \A s \in Scans : Open(s) => radio
  /\ lock \notin Scans /\ ~stuck /\ (\A s \in Scans : ~Open(s)) => ~radio

\* Every scan ends, also one that new devices prolong and one whose future was
\* taken away, however often the same devices are heard (scan_for).
ScansEnd == \A s \in Scans : scan[s] = "running" ~> scan[s] = "idle"
=============================================================================
