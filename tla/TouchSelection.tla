---------------------------- MODULE TouchSelection ----------------------------
(***************************************************************************)
(* FIDODevice::SelectByTouch: of several connected keys the user picks one *)
(* by touching it.                                                         *)
(*                                                                         *)
(* All keys are opened and asked for a touch, then polled in turn.  A key  *)
(* can be touched, be unplugged or fail at any moment, also between its own*)
(* turn and that of the next one, and whatever ends the selection has to   *)
(* call off the keys that still wait.                                      *)
(***************************************************************************)
EXTENDS Naturals, FiniteSets

CONSTANT MaxDevices  \* 32, kMaximumDevices

ASSUME TouchAssumption == MaxDevices \in Nat

VARIABLES
  devices,          \* how many keys were found: the vector has the keys 1 .. devices
  stage, cursor,    \* the loop that runs, and the key whose turn it is
  opened, pending,  \* the candidates, and those with their pending flag set
  lit, touched,     \* the keys: waiting for a touch; touched while they waited
  broken,           \* history: keys a call on which has failed
  late,             \* 120 seconds have passed
  winner, status    \* selected, and what SelectByTouch returns

keys == <<lit, touched>>
turn == <<stage, cursor>>
outcome == <<winner, status>>
touchVars == <<devices, turn, opened, pending, keys, broken, late, outcome>>

Indices == 1 .. MaxDevices

TouchInit ==
  /\ devices = 0 /\ stage = "off" /\ cursor = 1
  /\ opened = {} /\ pending = {} /\ lit = {} /\ touched = {} /\ broken = {}
  /\ late = FALSE /\ winner = 0 /\ status = "none"

\* Some of the keys can be opened.
OpenDevices(n) ==
  /\ stage = "off" /\ n >= 2
  /\ devices' = n /\ stage' = "begin" /\ cursor' = 1
  /\ opened' \in SUBSET (1 .. n)
  /\ UNCHANGED <<pending, keys, broken, late, outcome>>

NextKey == cursor' = cursor + 1 /\ UNCHANGED stage

Over(result) == stage' = "over" /\ status' = result /\ UNCHANGED cursor

\* fido_dev_get_touch_begin, for each candidate.
TouchBegin ==
  /\ stage = "begin" /\ cursor <= devices /\ NextKey
  /\ \/ cursor \notin opened /\ UNCHANGED <<pending, lit, broken>>
     \/ /\ cursor \in opened
        /\ pending' = pending \cup {cursor} /\ lit' = lit \cup {cursor}
        /\ UNCHANGED broken
     \/ /\ cursor \in opened                                      \* it fails
        /\ broken' = broken \cup {cursor} /\ UNCHANGED pending
        /\ lit' \in {lit, lit \cup {cursor}}
  /\ UNCHANGED <<devices, opened, touched, late, outcome>>

BegunAll ==
  /\ stage = "begin" /\ cursor > devices
  /\ IF pending = {} THEN Over("error")
                     ELSE stage' = "round" /\ UNCHANGED <<cursor, status>>
  /\ UNCHANGED <<devices, opened, pending, keys, broken, late, winner>>

\* cancelPending: fido_dev_cancel for every key that is pending.
CancelPending == lit' = lit \ pending /\ pending' = {}

NeverExpires == FALSE  \* mutant: only shouldContinue ends the wait

Expired == late

\* The deadline and shouldContinue are looked at once in a round.
BeginRound ==
  /\ stage = "round"
  /\ \/ Expired /\ Over("timeout") /\ CancelPending
     \/ ~ Expired /\ Over("cancelled") /\ CancelPending
     \/ /\ ~ Expired /\ stage' = "poll" /\ cursor' = 1
        /\ UNCHANGED <<pending, lit, status>>
  /\ UNCHANGED <<devices, opened, touched, broken, late, winner>>

FirstIsEnough(k) ==  \* mutant: the other keys are left waiting
  Over("ok") /\ pending' = pending \ {k} /\ UNCHANGED lit

\* A touch ends the selection for all keys.
TouchEnds(k) == Over("ok") /\ CancelPending

PositionAmongOpened(k) == Cardinality({j \in opened : j <= k})  \* mutant

\* Candidates keep their index into the vector of devices.
IndexOf(k) == k

\* fido_dev_get_touch_status of one key.
TouchStatus ==
  /\ stage = "poll" /\ cursor <= devices
  /\ \/ /\ cursor \notin pending /\ NextKey
        /\ UNCHANGED <<pending, lit, broken, outcome>>
     \/ /\ cursor \in pending                                     \* it fails
        /\ broken' = broken \cup {cursor} /\ pending' = pending \ {cursor}
        /\ IF pending' = {} THEN Over("error") ELSE NextKey /\ UNCHANGED status
        /\ UNCHANGED <<lit, winner>>
     \/ /\ cursor \in pending \ touched /\ NextKey
        /\ UNCHANGED <<pending, lit, broken, outcome>>
     \/ /\ cursor \in pending \cap touched
        /\ TouchEnds(cursor) /\ winner' = IndexOf(cursor) /\ UNCHANGED broken
  /\ UNCHANGED <<devices, opened, touched, late>>

EndRound ==
  /\ stage = "poll" /\ cursor > devices /\ stage' = "round"
  /\ UNCHANGED <<devices, cursor, opened, pending, keys, broken, late, outcome>>

\* The user touches a key that waits for it.
Touch(k) ==
  /\ k \in lit /\ touched' = touched \cup {k} /\ lit' = lit \ {k}
  /\ UNCHANGED <<devices, turn, opened, pending, broken, late, outcome>>

Tick ==
  /\ stage \in {"round", "poll"} /\ ~ late /\ late' = TRUE
  /\ UNCHANGED <<devices, turn, opened, pending, keys, broken, outcome>>

SelectByTouch == TouchBegin \/ BegunAll \/ BeginRound \/ TouchStatus \/ EndRound

\* SelectByTouch has returned: its local state goes, and the keys are closed.
CloseDevices ==
  /\ stage' = "off" /\ cursor' = 1
  /\ devices' = 0 /\ opened' = {} /\ pending' = {}
  /\ lit' = {} /\ touched' = {} /\ broken' = {}
  /\ late' = FALSE /\ winner' = 0 /\ status' = "none"

-----------------------------------------------------------------------------
(* Properties.                                                              *)

TouchTypeOK ==
  /\ devices \in 0 .. MaxDevices /\ cursor \in 1 .. MaxDevices + 1
  /\ stage \in {"off", "begin", "round", "poll", "over"}
  /\ opened \subseteq Indices /\ pending \subseteq opened
  /\ lit \subseteq Indices /\ touched \subseteq Indices /\ broken \subseteq Indices
  /\ late \in BOOLEAN /\ winner \in 0 .. MaxDevices
  /\ status \in {"none", "ok", "error", "cancelled", "timeout"}

\* "cancelling or timing out must cancel every pending touch request"
\* (doc/test-plan.md): when the selection is over, however it ended (by a touch,
\* the deadline, a cancellation, or failures of the others), no key is left
\* waiting for a touch whose own calls all succeeded.  A key is given up, without
\* fido_dev_cancel, once a call on it has failed (FIDODevice.cpp:159-163 and
\* 183-188): such a key may go on waiting after the selection is over.
HealthyKeysGoDark == stage = "over" => lit \subseteq broken

\* "verify only the touched key is subsequently asked for PIN or an assertion"
\* (doc/test-plan.md): although some of those found could not be opened and
\* others failed while the user hesitated.
WinnerWasTouched ==
  stage = "over" /\ status = "ok" => winner \in 1 .. devices /\ winner \in touched \ broken
=============================================================================
