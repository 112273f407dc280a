------------------------------ MODULE ScalpAlerts ------------------------------
(***************************************************************************)
(* The notifications of the paper scalps on one channel.                   *)
(* scheduled_scalp_refresh copies the open positions, refreshes the        *)
(* engine, copies them again and posts the difference of the two copies.   *)
(* The engine is here only as what a refresh may do to its open positions. *)
(***************************************************************************)
EXTENDS AlertTable, FiniteSets

CONSTANTS
  Symbols,
  MaxId     \* positions that are opened

ASSUME ScalpAlertAssumption == MaxId \in Nat \ {0}

Ids    == 1 .. MaxId
Events == Ids \X {"ENTRY", "WEAKENING", "EXIT"}
None   == 0

VARIABLES
  open,    \* _open: the position of each symbol, None if it has none
  weak,    \* the symbols whose _weak_signal_count is not 0
  ids,     \* positions opened so far
  before,  \* the copy that the job took
  pc,      \* where the job is
  todo,    \* what is left to deliver
  post,    \* the event that is being posted, and the answer
  table,   \* alert_deliveries
  acked,   \* history: answers 2xx to each event
  tried,   \* history: entries and exits that were posted
  closed,  \* history: positions that were closed
  lost     \* history: positions with an event that was dropped before its post

book == <<open, weak, ids, closed>>
vars == <<book, before, pc, todo, post, table, acked, tried, lost>>

NoPost == [event |-> <<None, "none">>, ok |-> FALSE]

NoCopy == [open |-> [s \in Symbols |-> None], weak |-> {}]

Init ==
  /\ open = [s \in Symbols |-> None] /\ weak = {} /\ ids = 0
  /\ before = NoCopy
  /\ pc = "idle" /\ todo = {} /\ post = NoPost
  /\ table = [e \in Events |-> NoRow]
  /\ acked = [e \in Events |-> 0] /\ tried = {} /\ closed = {} /\ lost = {}

OpenSymbols == {s \in Symbols : open[s] # None}

-----------------------------------------------------------------------------

\* before_open
CopyBefore ==
  /\ pc = "idle" /\ pc' = "manage"
  /\ before' = [open |-> open, weak |-> weak]
  /\ UNCHANGED <<book, todo, post, table, acked, tried, lost>>

\* The exits of a refresh, and the weak signal of each position that stays.
Manage ==
  /\ pc = "manage" /\ pc' = "enter"
  /\ \E exits \in SUBSET OpenSymbols :
       /\ open' = [s \in Symbols |-> IF s \in exits THEN None ELSE open[s]]
       /\ closed' = closed \union {open[s] : s \in exits}
       /\ weak' \in SUBSET (OpenSymbols \ exits)
  /\ UNCHANGED <<ids, before, todo, post, table, acked, tried, lost>>

\* An entry into a symbol that the same refresh has just exited shows neither
\* the exit nor the entry to the job, which compares the two copies by symbol.
Hidden(s) == IF before.open[s] = None THEN {} ELSE {before.open[s], ids'}

\* An entry of the same refresh.
Enter(s) ==
  /\ pc = "enter" /\ open[s] = None /\ ids < MaxId
  /\ ids' = ids + 1
  /\ open' = [open EXCEPT ![s] = ids'] /\ lost' = lost \union Hidden(s)
  /\ UNCHANGED <<weak, closed, before, pc, todo, post, table, acked, tried>>

New(s)      == open[s] # None /\ before.open[s] = None
Weakened(s) == open[s] # None /\ before.open[s] # None
               /\ s \notin before.weak /\ s \in weak
Gone(s)     == open[s] = None /\ before.open[s] # None

\* Mutant: nothing to do when no position is left.
LifecycleWhileOpen ==
  IF OpenSymbols = {} THEN {}
  ELSE {<<open[s], "ENTRY">> : s \in {t \in Symbols : New(t)}}
       \union {<<open[s], "WEAKENING">> : s \in {t \in Symbols : Weakened(t)}}
       \union {<<before.open[s], "EXIT">> : s \in {t \in Symbols : Gone(t)}}

\* The difference of the two copies, symbol by symbol.
Lifecycle ==
  {<<open[s], "ENTRY">> : s \in {t \in Symbols : New(t)}}
  \union {<<open[s], "WEAKENING">> : s \in {t \in Symbols : Weakened(t)}}
  \union {<<before.open[s], "EXIT">> : s \in {t \in Symbols : Gone(t)}}

\* after_open is taken even if the refresh raised.
CopyAfter ==
  /\ pc = "enter" /\ pc' = "deliver"
  /\ todo' = Lifecycle /\ before' = NoCopy
  /\ UNCHANGED <<book, post, table, acked, tried, lost>>

-----------------------------------------------------------------------------

\* The events of the open positions come before the exits.
Turn(e) == e \in todo /\ (e[2] = "EXIT" => \A f \in todo : f[2] = "EXIT")

\* deliver: an event whose key is not reserved is dropped.
Reserve(e) ==
  /\ pc = "deliver" /\ Turn(e)
  /\ todo' = todo \ {e}
  /\ IF MayReserve(table[e], 0)
       THEN /\ table' = [table EXCEPT ![e] = Reserved(@, 0)]
            /\ post' = [event |-> e, ok |-> FALSE] /\ pc' = "post"
       ELSE UNCHANGED <<table, post, pc>>
  /\ UNCHANGED <<book, before, acked, tried, lost>>

Post ==
  /\ pc = "post" /\ pc' = "complete"
  /\ tried' = tried \union ({post.event} \ (Ids \X {"WEAKENING"}))
  /\ \E ok \in BOOLEAN :
       /\ post' = [post EXCEPT !.ok = ok]
       /\ acked' = IF ok /\ acked[post.event] < 2
                     THEN [acked EXCEPT ![post.event] = @ + 1] ELSE acked
  /\ UNCHANGED <<book, before, todo, table, lost>>

Complete ==
  /\ pc = "complete" /\ pc' = "deliver"
  /\ table' = [table EXCEPT ![post.event] = Completed(@, post.ok)]
  /\ post' = NoPost
  /\ UNCHANGED <<book, before, todo, acked, tried, lost>>

\* An exception of the reservation or of the completion drops the event.
Raise ==
  /\ \/ /\ pc = "deliver" /\ UNCHANGED post
        /\ \E e \in Events :
             Turn(e) /\ todo' = todo \ {e} /\ lost' = lost \union {e[1]}
     \/ pc = "complete" /\ post' = NoPost /\ UNCHANGED <<todo, lost>>
  /\ pc' = "deliver"
  /\ UNCHANGED <<book, before, table, acked, tried>>

Done ==
  /\ pc = "deliver" /\ todo = {} /\ pc' = "idle"
  /\ UNCHANGED <<book, before, todo, post, table, acked, tried, lost>>

\* What the job still had to post.
Pending ==
  (IF pc \in {"manage", "enter"} THEN Lifecycle ELSE todo)
  \union (IF pc = "post" THEN {post.event} ELSE {})

\* The open positions are loaded again, without their weak counts.
Restart ==
  /\ pc' = "idle" /\ todo' = {} /\ post' = NoPost /\ weak' = {}
  /\ before' = NoCopy /\ lost' = lost \union {e[1] : e \in Pending}
  /\ UNCHANGED <<open, ids, closed, table, acked, tried>>

Tick ==
  /\ pc = "idle" /\ table' = [e \in Events |-> Aged(table[e])]
  /\ UNCHANGED <<book, before, pc, todo, post, acked, tried, lost>>

Next ==
  \/ CopyBefore \/ Manage \/ (\E s \in Symbols : Enter(s)) \/ CopyAfter
  \/ (\E e \in Events : Reserve(e))
  \/ Post \/ Complete \/ Raise \/ Done \/ Restart \/ Tick

Spec == Init /\ [][Next]_vars

-----------------------------------------------------------------------------
(***************************************************************************)
(* Properties.                                                             *)
(***************************************************************************)

\* Every variable keeps its type, and two symbols never share a position.
TypeOK ==
  /\ open \in [Symbols -> 0 .. ids] /\ ids \in 0 .. MaxId
  /\ weak \subseteq OpenSymbols /\ todo \subseteq Events
  /\ pc \in {"idle", "manage", "enter", "deliver", "post", "complete"}
  /\ post.event \in Events \union {NoPost.event} /\ post.ok \in BOOLEAN
  /\ table \in [Events -> Row] /\ acked \in [Events -> 0 .. 2]
  /\ tried \subseteq Events /\ closed \subseteq 1 .. ids /\ lost \subseteq 1 .. ids
  /\ \A s, t \in OpenSymbols : open[s] = open[t] => s = t

\* main.py:523: "Notify once for paper entry, first weakening observation,
\* and recorded exit": no event of a position is accepted twice, though its
\* signal weakens and recovers, and the process restarts and forgets that.
NotifiedOnce == \A e \in Events : acked[e] <= 1

\* main.py:523: between two runs of the job each position that was opened has
\* had its entry posted, and each one that was closed its exit.  The job never
\* tries again: the exceptions are the positions one of whose events, the
\* weakening included, an error of the database or a restart dropped before its
\* post, or a re-entry hid.
EveryScalpIsNotified ==
  pc = "idle" => \A i \in (1 .. ids) \ lost :
    /\ <<i, "ENTRY">> \in tried
    /\ i \in closed => <<i, "EXIT">> \in tried

=============================================================================
