---------------------------- MODULE CaptureLedger ----------------------------
(***************************************************************************)
(* What a capture promises about the sessions in the database, without     *)
(* threads, queue, batches or failures: sessions are begun one after the   *)
(* other; only the newest one receives observations, in the order their    *)
(* frames arrived and each at most once; closing a session is final.       *)
(* Every step may be the last one: a process can die anywhere.             *)
(***************************************************************************)
EXTENDS Naturals, Sequences

CONSTANT MaxSessions

VARIABLES rows, ended, tally, log

LedgerVars == <<rows, ended, tally, log>>

SessionIds == 1..MaxSessions

Init ==
  /\ rows = 0
  /\ ended = [s \in SessionIds |-> FALSE]
  /\ tally = [s \in SessionIds |-> [frames |-> 0, dropped |-> 0]]
  /\ log = [s \in SessionIds |-> <<>>]

Begin ==
  /\ rows < MaxSessions
  /\ rows' = rows + 1
  /\ UNCHANGED <<ended, tally, log>>

Extends(new, old) ==
  /\ Len(new) > Len(old)
  /\ \A i \in 1..Len(old) : new[i] = old[i]
  /\ \A i, j \in 1..Len(new) : i < j => new[i] < new[j]

Record ==
  /\ rows > 0
  /\ ~ended[rows]
  /\ Extends(log'[rows], log[rows])
  /\ log' = [log EXCEPT ![rows] = log'[rows]]
  /\ UNCHANGED <<rows, ended, tally>>

Close ==
  /\ rows > 0
  /\ ~ended[rows]
  /\ ended' = [ended EXCEPT ![rows] = TRUE]
  /\ tally' = [tally EXCEPT ![rows] = tally'[rows]]
  /\ Len(log[rows]) <= tally'[rows].frames
  /\ UNCHANGED <<rows, log>>

Next == Begin \/ Record \/ Close

Spec == Init /\ [][Next]_LedgerVars
=============================================================================
