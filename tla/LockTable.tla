------------------------------ MODULE LockTable ------------------------------
(***************************************************************************)
(* What the lock manager promises, without its group modes: a two-phase    *)
(* multigranularity lock table.  A request of mode m by a transaction that *)
(* holds h asks for the least mode that covers both, and it is granted     *)
(* exactly when that mode is compatible with what every other transaction  *)
(* holds on the object.  A request that is not granted changes nothing.    *)
(***************************************************************************)
CONSTANTS Txns, Objects

VARIABLES held,   \* held[o][t]: mode in which transaction t has object o locked
          phase   \* phase[t]: growing, shrinking or ended

tableVars == <<held, phase>>

Mode == {"SHARED", "EXCLUSIVE", "INTENTION_SHARED", "INTENTION_EXCLUSIVE", "S_IX"}

None == "no request"

\* The compatibility matrix of multigranularity locking.
Compatible(m, n) ==
  \/ None \in {m, n}
  \/ {m, n} \subseteq {"INTENTION_SHARED", "INTENTION_EXCLUSIVE"}
  \/ {m, n} \subseteq {"INTENTION_SHARED", "SHARED"}
  \/ {m, n} = {"INTENTION_SHARED", "S_IX"}

\* Mode m includes the rights of mode n.
Covers(m, n) ==
  \/ n \in {m, None}
  \/ m = "EXCLUSIVE"
  \/ m = "S_IX" /\ n # "EXCLUSIVE"
  \/ m # None /\ n = "INTENTION_SHARED"

\* The least mode that covers both.
Supremum(h, m) ==
  IF Covers(h, m) THEN h
  ELSE IF Covers(m, h) THEN m
  ELSE "S_IX"

\* No other transaction holds o in a mode that excludes m.
Grantable(t, o, m) == \A u \in Txns \ {t} : Compatible(held[o][u], m)

Init ==
  /\ held = [o \in Objects |-> [t \in Txns |-> None]]
  /\ phase = [t \in Txns |-> "growing"]

Acquire(t, o, m) ==
  LET target == Supremum(held[o][t], m)
  IN  /\ phase[t] = "growing"
      /\ Grantable(t, o, target)
      /\ held' = [held EXCEPT ![o][t] = target]
      /\ UNCHANGED phase

Release(t, o) ==
  /\ phase[t] # "ended"
  /\ held' = [held EXCEPT ![o][t] = None]
  /\ phase' = [phase EXCEPT ![t] = "shrinking"]

End(t) ==
  /\ \A o \in Objects : held[o][t] = None
  /\ phase' = [phase EXCEPT ![t] = "ended"]
  /\ UNCHANGED held

Next ==
  \E t \in Txns :
    \/ \E o \in Objects, m \in Mode : Acquire(t, o, m)
    \/ \E o \in Objects : Release(t, o)
    \/ End(t)

Spec == Init /\ [][Next]_tableVars

=============================================================================
