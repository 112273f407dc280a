---------------------------- MODULE MCSnapshotStore ----------------------------
(***************************************************************************)
(* SnapshotStore for TLC, in one of two scopes that the first state        *)
(* chooses: instances that overlap on one day, with a confirmed signal, or *)
(* one instance at a time over all days, with a scalp too.                 *)
(***************************************************************************)
EXTENDS SnapshotStore, TLC

CONSTANTS i1, i2, t1, t2, signal, scalp

TwoInstances == {i1, i2}
TwoThreads   == {t1, t2}
OneSignal    == {signal}
OneScalp     == {scalp}

VARIABLE scope  \* "overlap" or "days"

OneAtATime ==
  \A i, j \in Instances : inst[i] # "off" /\ inst[j] # "off" => i = j

OneDay == today = 1 /\ \A x \in Scalps : day[x] = 0

ScopedInit == Init /\ scope \in {"overlap", "days"}

ScopedNext ==
  /\ Next /\ UNCHANGED scope
  /\ scope = "overlap" => OneDay'
  /\ scope = "days" => OneAtATime'

ScopedSpec == ScopedInit /\ [][ScopedNext]_<<vars, scope>>

\* Sound: the properties are about single steps and treat the instances and
\* the uploads alike.
Alike == Permutations(TwoInstances) \union Permutations(TwoThreads)

=============================================================================
