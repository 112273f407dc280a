---------------------------- MODULE ScalpAlertProofs ----------------------------
(***************************************************************************)
(* Proofs about ScalpAlerts for all values of its constants.               *)
(***************************************************************************)
EXTENDS ScalpAlerts, TLAPS

Locations == {"idle", "manage", "enter", "deliver", "post", "complete"}
Refreshing == pc \in {"manage", "enter"}
Posting == pc \in {"post", "complete"}

-----------------------------------------------------------------------------
(***************************************************************************)
(* The inductive invariant.                                                *)
(***************************************************************************)

\* The types of the engine's book, and of the copy while the job holds it.
BookTyped ==
  /\ ids \in 0 .. MaxId /\ open \in [Symbols -> 0 .. ids]
  /\ weak \subseteq OpenSymbols
  /\ closed \subseteq 1 .. ids /\ lost \subseteq 1 .. ids
  /\ Refreshing => before.open \in [Symbols -> 0 .. ids]

\* No two symbols share a position, and a closed one is not open.
Distinct ==
  /\ \A s, t \in OpenSymbols : open[s] = open[t] => s = t
  /\ \A s \in OpenSymbols : open[s] \notin closed

\* The types of the delivery.
JobTyped ==
  /\ pc \in Locations /\ todo \subseteq Events /\ tried \subseteq Events
  /\ post \in [event : Events \union {NoPost.event}, ok : BOOLEAN]
  /\ Posting => post.event \in Events
  /\ table \in [Events -> Row] /\ acked \in [Events -> 0 .. 1]

\* What a refresh may have done since the copy, and that only a job that
\* delivers has something to deliver.
CopyInv ==
  /\ pc = "manage" => before.open = open /\ before.weak = weak
  /\ pc = "enter" => \A s \in Symbols :
       before.open[s] = None \/ before.open[s] = open[s]
         \/ before.open[s] \in closed
  /\ pc \in {"idle", "manage", "enter"} => todo = {}

\* What is left to deliver is about a position that was opened, and an exit
\* about one that was closed.
Known(e) == e[1] \in 1 .. ids /\ (e[2] = "EXIT" => e[1] \in closed)
KnownInv ==
  /\ \A e \in todo : Known(e)
  /\ Posting => Known(post.event)

\* The entry of a position that is still to be opened, the exit of one that is
\* still to be closed, and what the job has still to find and to reserve, have
\* no row.
Unsent(i, kind) == table[<<i, kind>>].status = "none"
FreshInv ==
  /\ \A i \in Ids : i > ids => Unsent(i, "ENTRY")
  /\ \A i \in Ids : i \notin closed => Unsent(i, "EXIT")
  /\ \A e \in todo : e[2] # "WEAKENING" => table[e].status = "none"
  /\ Refreshing => \A s \in Symbols :
       /\ before.open[s] # None => Unsent(before.open[s], "EXIT")
       /\ New(s) => Unsent(open[s], "ENTRY")

\* A row that can be reserved, or that is reserved and not posted, has had no
\* answer 2xx; one that is to be completed has had at most the last.
AckedInv ==
  /\ \A e \in Events : table[e].status \in {"none", "FAILED"} => acked[e] = 0
  /\ Posting => table[post.event].status = "PENDING"
  /\ pc = "post" => acked[post.event] = 0
  /\ pc = "complete" /\ ~post.ok => acked[post.event] = 0

\* Each entry and each exit was posted, or the job still has it to post.
OwedInv ==
  \A i \in (1 .. ids) \ lost :
    /\ <<i, "ENTRY">> \in tried \union Pending
    /\ i \in closed => <<i, "EXIT">> \in tried \union Pending

TypeInv == BookTyped /\ Distinct /\ JobTyped
FlowInv == CopyInv /\ KnownInv /\ FreshInv
Inv == TypeInv /\ FlowInv /\ AckedInv /\ OwedInv

-----------------------------------------------------------------------------
(***************************************************************************)
(* Facts about the operators.                                              *)
(***************************************************************************)

LEMMA Rows ==
  ASSUME NEW r \in Row
  PROVE  /\ r.status \in {"none", "PENDING", "DELIVERED", "FAILED"}
         /\ r.status = "none" => MayReserve(r, 0)
         /\ MayReserve(r, 0) => r.status \in {"none", "FAILED"}
         /\ Reserved(r, 0) \in Row /\ Reserved(r, 0).status = "PENDING"
         /\ \A d \in BOOLEAN :
              /\ Completed(r, d) \in Row
              /\ Completed(r, d).status = IF d THEN "DELIVERED" ELSE "FAILED"
         /\ Aged(r) \in Row /\ Aged(r).status = r.status
BY AlertAssumption DEF AlertAssumption, Row, Old, MayReserve, Reserved,
   Completed, Aged, Later

LEMMA EventParts ==
  /\ \A e \in Events : /\ e = <<e[1], e[2]>> /\ e[1] \in Ids
                       /\ e[2] \in {"ENTRY", "WEAKENING", "EXIT"}
  /\ \A i \in Ids : \A k \in {"ENTRY", "WEAKENING", "EXIT"} :
       <<i, k>> \in Events /\ <<i, k>>[1] = i /\ <<i, k>>[2] = k
  /\ NoPost.event \notin Events
BY DEF Events, Ids, NoPost, None

\* What the difference of the two copies tells.
LEMMA LifecycleParts ==
  /\ \A s \in Symbols : New(s) => <<open[s], "ENTRY">> \in Lifecycle
  /\ \A s \in Symbols : Gone(s) => <<before.open[s], "EXIT">> \in Lifecycle
  /\ \A e \in Lifecycle : \E s \in Symbols :
       \/ New(s) /\ e = <<open[s], "ENTRY">>
       \/ Weakened(s) /\ e = <<open[s], "WEAKENING">>
       \/ Gone(s) /\ e = <<before.open[s], "EXIT">>
BY DEF Lifecycle

\* A position that the job has still to find was opened, and one whose exit
\* it has to find was closed.
LEMMA LifecycleKnown ==
  ASSUME TypeInv, CopyInv, Refreshing
  PROVE  /\ Lifecycle \subseteq Events
         /\ \A e \in Lifecycle : Known(e)
<1> SUFFICES ASSUME NEW e \in Lifecycle PROVE e \in Events /\ Known(e)
  OBVIOUS
<1>1. PICK s \in Symbols :
        \/ New(s) /\ e = <<open[s], "ENTRY">>
        \/ Weakened(s) /\ e = <<open[s], "WEAKENING">>
        \/ Gone(s) /\ e = <<before.open[s], "EXIT">>
  BY LifecycleParts
<1>2. open[s] \in 0 .. ids /\ before.open[s] \in 0 .. ids /\ ids \in 0 .. MaxId
      /\ MaxId \in Nat
  BY ScalpAlertAssumption DEF TypeInv, BookTyped, ScalpAlertAssumption
<1>3. CASE New(s) \/ Weakened(s)
  <2>1. open[s] \in Ids /\ open[s] \in 1 .. ids
    BY <1>2, <1>3 DEF New, Weakened, None, Ids
  <2>2. e = <<open[s], "ENTRY">> \/ e = <<open[s], "WEAKENING">>
    BY <1>1, <1>3 DEF New, Weakened, Gone
  <2>3. e \in Events /\ e[1] = open[s] /\ e[2] \in {"ENTRY", "WEAKENING"}
    BY <2>1, <2>2 DEF Events
  <2> QED
    BY <2>1, <2>3 DEF Known
<1>4. CASE Gone(s)
  <2>1. before.open[s] \in Ids /\ before.open[s] \in 1 .. ids
    BY <1>2, <1>4 DEF Gone, None, Ids
  <2>2. before.open[s] \in closed
    BY <1>4 DEF Gone, Refreshing, CopyInv, None
  <2>3. e = <<before.open[s], "EXIT">>
    BY <1>1, <1>4 DEF New, Weakened, Gone
  <2> QED
    BY <2>1, <2>2, <2>3, EventParts DEF Known
<1> QED
  BY <1>1, <1>3, <1>4

-----------------------------------------------------------------------------
(***************************************************************************)
(* The types.                                                              *)
(***************************************************************************)

LEMMA PendingKnown ==
  ASSUME TypeInv, CopyInv, KnownInv
  PROVE  \A e \in Pending : e \in Events /\ e[1] \in 1 .. ids
<1>1. ASSUME NEW e \in Pending, Refreshing  PROVE e \in Events /\ Known(e)
  BY <1>1, LifecycleKnown DEF Pending, Refreshing
<1>2. ASSUME NEW e \in Pending, ~Refreshing  PROVE e \in Events /\ Known(e)
  BY <1>2 DEF Pending, Refreshing, Posting, KnownInv, TypeInv, JobTyped
<1> QED
  BY <1>1, <1>2 DEF Known

LEMMA BookStep ==
  ASSUME TypeInv, CopyInv, KnownInv, [Next]_vars
  PROVE  BookTyped' /\ Distinct'
<1> USE DEF TypeInv, BookTyped, Distinct, OpenSymbols, Refreshing
<1>1. CASE CopyBefore
  BY <1>1 DEF CopyBefore, book
<1>2. CASE Manage
  <2>1. PICK exits \in SUBSET OpenSymbols :
          /\ open' = [s \in Symbols |-> IF s \in exits THEN None ELSE open[s]]
          /\ closed' = closed \union {open[s] : s \in exits}
          /\ weak' \in SUBSET (OpenSymbols \ exits)
    BY <1>2 DEF Manage
  <2>2. /\ ids' = ids /\ lost' = lost /\ before' = before
        /\ pc = "manage" /\ pc' = "enter"
    BY <1>2 DEF Manage
  <2>3. \A s \in Symbols :
          /\ s \in exits => open'[s] = None /\ open[s] \in 1 .. ids
          /\ s \notin exits => open'[s] = open[s]
    BY <2>1, ScalpAlertAssumption DEF None, ScalpAlertAssumption
  <2>4. open' \in [Symbols -> 0 .. ids] /\ closed' \subseteq 1 .. ids
    <3>1. open' \in [Symbols -> 0 .. ids]
      BY <2>1, ScalpAlertAssumption DEF None, ScalpAlertAssumption
    <3>2. \A s \in exits : open[s] \in 1 .. ids
      BY <2>3
    <3>3. closed \subseteq 1 .. ids
      OBVIOUS
    <3>4. {open[s] : s \in exits} \subseteq 1 .. ids
      BY ONLY <3>2
    <3>5. closed' \subseteq 1 .. ids
      BY ONLY <2>1, <3>3, <3>4
    <3> QED
      BY <3>1, <3>5
  <2>5. OpenSymbols' = OpenSymbols \ exits
    BY <2>3
  <2>6. weak' \subseteq OpenSymbols'
    BY <2>1, <2>5
  <2>7. BookTyped'
    BY <2>2, <2>4, <2>6
  <2>8. ASSUME NEW s \in OpenSymbols'  PROVE open'[s] \notin closed'
    BY <2>1, <2>3, <2>5
  <2>9. ASSUME NEW s \in OpenSymbols', NEW t \in OpenSymbols',
               open'[s] = open'[t]
        PROVE  s = t
    BY <2>3, <2>5, <2>9
  <2> QED
    BY <2>7, <2>8, <2>9
<1>3. ASSUME NEW s \in Symbols, Enter(s)  PROVE BookTyped' /\ Distinct'
  <2>1. /\ open[s] = None /\ ids < MaxId /\ ids' = ids + 1
        /\ open' = [open EXCEPT ![s] = ids + 1]
        /\ lost' = lost \union Hidden(s)
        /\ UNCHANGED <<weak, closed, before, pc>> /\ pc = "enter"
    BY <1>3 DEF Enter
  <2>2. ids' \in 0 .. MaxId /\ ids \in Nat
    BY <2>1, ScalpAlertAssumption DEF ScalpAlertAssumption
  <2>3. open' \in [Symbols -> 0 .. ids']
    BY <2>1, <2>2
  <2>4. OpenSymbols' = OpenSymbols \union {s}
    BY <2>1, <2>2 DEF None
  <2>5. Hidden(s) \subseteq 1 .. ids'
    BY <2>1, <2>2 DEF Hidden, None
  <2>6. closed' \subseteq 1 .. ids' /\ lost' \subseteq 1 .. ids'
    <3>1. 1 .. ids \subseteq 1 .. ids'
      BY <2>1, <2>2
    <3>2. closed \subseteq 1 .. ids /\ lost \subseteq 1 .. ids
      OBVIOUS
    <3> HIDE DEF TypeInv, BookTyped
    <3> QED
      BY <2>1, <2>5, <3>1, <3>2
  <2>7. before'.open \in [Symbols -> 0 .. ids']
    BY <2>1, <2>2
  <2>8. BookTyped'
    BY <2>1, <2>2, <2>3, <2>4, <2>6, <2>7
  <2>9. \A t \in OpenSymbols' :
          /\ t # s => t \in OpenSymbols /\ open'[t] = open[t]
                      /\ open'[t] \in 0 .. ids
          /\ t = s => open'[t] = ids + 1
    BY <2>1, <2>4
  <2>10. ids + 1 \notin closed /\ ids + 1 \notin 0 .. ids
    BY <2>2
  <2> QED
    BY <2>1, <2>8, <2>9, <2>10
<1>4. CASE CopyAfter
  BY <1>4 DEF CopyAfter, book
<1>5. CASE \/ \E e \in Events : Reserve(e)
           \/ Post \/ Complete \/ Done \/ Tick
  <2>1. UNCHANGED <<book, lost, before>> /\ (Refreshing' => Refreshing)
    BY <1>5 DEF Reserve, Post, Complete, Done, Tick
  <2> QED
    BY <2>1 DEF book
<1>6. CASE Raise
  <2>1. UNCHANGED book /\ ~Refreshing'
    BY <1>6 DEF Raise
  <2>2. lost' \subseteq 1 .. ids
    <3>1. CASE pc = "complete"
      BY <1>6, <3>1 DEF Raise
    <3>2. ASSUME NEW e \in Events, Turn(e), lost' = lost \union {e[1]}
          PROVE  lost' \subseteq 1 .. ids
      BY <3>2 DEF Turn, KnownInv, Known
    <3> QED
      BY <1>6, <3>1, <3>2 DEF Raise
  <2> QED
    BY <2>1, <2>2 DEF book
<1>7. CASE Restart
  <2>1. UNCHANGED <<open, ids, closed>> /\ ~Refreshing' /\ weak' = {}
    BY <1>7 DEF Restart
  <2>2. lost' \subseteq 1 .. ids
    <3>1. lost' = lost \union {e[1] : e \in Pending}
      BY <1>7 DEF Restart
    <3>2. \A e \in Pending : e[1] \in 1 .. ids
      BY PendingKnown
    <3>3. lost \subseteq 1 .. ids
      OBVIOUS
    <3> HIDE DEF TypeInv, BookTyped, Distinct, OpenSymbols, Refreshing
    <3>4. {e[1] : e \in Pending} \subseteq 1 .. ids
      BY ONLY <3>2
    <3> QED
      BY ONLY <3>1, <3>3, <3>4
  <2> QED
    BY <2>1, <2>2
<1>8. CASE UNCHANGED vars
  BY <1>8 DEF vars, book
<1> QED
  BY <1>1, <1>2, <1>3, <1>4, <1>5, <1>6, <1>7, <1>8 DEF Next

-----------------------------------------------------------------------------
(***************************************************************************)
(* The rows and the answers.                                               *)
(***************************************************************************)

\* A job that delivers reserves a row only before it posts.
LEMMA ReserveStep ==
  ASSUME TypeInv, NEW e \in Events, Reserve(e)
  PROVE  \/ /\ MayReserve(table[e], 0) /\ pc' = "post"
            /\ table' = [table EXCEPT ![e] = Reserved(table[e], 0)]
            /\ post' = [event |-> e, ok |-> FALSE]
         \/ /\ ~MayReserve(table[e], 0)
            /\ UNCHANGED <<table, post, pc>>
BY DEF Reserve

LEMMA AckedStep ==
  ASSUME TypeInv, CopyInv, AckedInv, [Next]_vars
  PROVE  JobTyped' /\ AckedInv'
<1> USE DEF TypeInv, JobTyped, AckedInv, Posting, Locations
<1>1. CASE CopyBefore \/ Manage \/ (\E s \in Symbols : Enter(s)) \/ Done
  <2>1. UNCHANGED <<todo, post, table, acked, tried>>
        /\ pc' \in {"manage", "enter", "idle"}
    BY <1>1 DEF CopyBefore, Manage, Enter, Done
  <2> QED
    BY <2>1
<1>2. CASE CopyAfter
  <2>1. todo' \subseteq Events
    BY <1>2, LifecycleKnown DEF CopyAfter, Refreshing
  <2> QED
    BY <1>2, <2>1 DEF CopyAfter
<1>3. ASSUME NEW e \in Events, Reserve(e)  PROVE JobTyped' /\ AckedInv'
  <2>1. /\ todo' \subseteq Events /\ UNCHANGED <<acked, tried>>
        /\ pc = "deliver"
    BY <1>3 DEF Reserve
  <2>2. CASE ~MayReserve(table[e], 0)
    BY <1>3, <2>1, <2>2, ReserveStep
  <2>3. CASE MayReserve(table[e], 0)
    <3>1. /\ table' = [table EXCEPT ![e] = Reserved(table[e], 0)]
          /\ post' = [event |-> e, ok |-> FALSE] /\ pc' = "post"
      BY <1>3, <2>3, ReserveStep
    <3>2. /\ Reserved(table[e], 0) \in Row
          /\ Reserved(table[e], 0).status = "PENDING"
          /\ table[e].status \in {"none", "FAILED"}
      BY <2>3, Rows
    <3>3. table' \in [Events -> Row] /\ table'[e].status = "PENDING"
          /\ \A f \in Events : f # e => table'[f] = table[f]
      BY <3>1, <3>2
    <3>4. post'.event = e /\ post'.ok = FALSE /\ acked[e] = 0
      BY <3>1, <3>2
    <3>5. JobTyped'
      BY <2>1, <3>1, <3>3, <3>4
    <3>6. AckedInv'
      BY <2>1, <3>1, <3>3, <3>4
    <3> QED
      BY <3>5, <3>6
  <2> QED
    BY <2>2, <2>3
<1>4. CASE Post
  <2>1. PICK ok \in BOOLEAN :
          /\ post' = [post EXCEPT !.ok = ok]
          /\ acked' = IF ok /\ acked[post.event] < 2
                        THEN [acked EXCEPT ![post.event] = @ + 1] ELSE acked
    BY <1>4 DEF Post
  <2>2. /\ pc = "post" /\ pc' = "complete" /\ UNCHANGED <<todo, table>>
        /\ tried' = tried \union ({post.event} \ (Ids \X {"WEAKENING"}))
    BY <1>4 DEF Post
  <2>3. /\ post.event \in Events /\ acked[post.event] = 0
        /\ table[post.event].status = "PENDING"
    BY <2>2
  <2>4. \A f \in Events :
          acked'[f] = IF ok /\ f = post.event THEN 1 ELSE acked[f]
    BY <2>1, <2>3
  <2>5. acked' \in [Events -> 0 .. 1]
    BY <2>1, <2>3
  <2>6. tried' \subseteq Events
    BY <2>2, <2>3
  <2>7. post'.event = post.event /\ post'.ok = ok
    BY <2>1
  <2>8. JobTyped'
    <3>1. post' \in [event : Events \union {NoPost.event}, ok : BOOLEAN]
      BY <2>1
    <3> QED
      BY <2>2, <2>3, <2>5, <2>6, <2>7, <3>1
  <2>9. AckedInv'
    BY <2>2, <2>3, <2>4, <2>7
  <2> QED
    BY <2>8, <2>9
<1>5. CASE Complete
  <2>1. /\ pc = "complete" /\ pc' = "deliver" /\ post' = NoPost
        /\ table' = [table EXCEPT ![post.event]
                        = Completed(table[post.event], post.ok)]
        /\ UNCHANGED <<todo, acked, tried>>
    BY <1>5 DEF Complete
  <2>2. /\ post.event \in Events /\ post.ok \in BOOLEAN
        /\ ~post.ok => acked[post.event] = 0
    BY <2>1
  <2>3. /\ Completed(table[post.event], post.ok) \in Row
        /\ Completed(table[post.event], post.ok).status
             = IF post.ok THEN "DELIVERED" ELSE "FAILED"
    <3>1. table[post.event] \in Row
      BY <2>2
    <3> HIDE DEF TypeInv, JobTyped
    <3> QED
      BY <2>2, <3>1, Rows
  <2>4. JobTyped'
    BY <2>1, <2>3 DEF NoPost
  <2>5. ASSUME NEW f \in Events, table'[f].status \in {"none", "FAILED"}
        PROVE  acked'[f] = 0
    <3>1. CASE f = post.event
      <4>1. table'[f].status = IF post.ok THEN "DELIVERED" ELSE "FAILED"
        BY <2>1, <2>3, <3>1
      <4> QED
        BY <2>1, <2>2, <2>5, <3>1, <4>1
    <3>2. CASE f # post.event
      BY <2>1, <2>5, <3>2
    <3> QED
      BY <3>1, <3>2
  <2> QED
    BY <2>1, <2>4, <2>5
<1>6. CASE Raise
  <2>1. todo' \subseteq Events /\ post' \in {post, NoPost}
    BY <1>6 DEF Raise
  <2>2. pc' = "deliver" /\ UNCHANGED <<table, acked, tried>>
    BY <1>6 DEF Raise
  <2>3. post' \in [event : Events \union {NoPost.event}, ok : BOOLEAN]
    <3>1. NoPost \in [event : Events \union {NoPost.event}, ok : BOOLEAN]
      BY DEF NoPost
    <3> QED
      BY <2>1, <3>1
  <2> QED
    BY <2>1, <2>2, <2>3
<1>7. CASE Restart
  BY <1>7 DEF Restart, NoPost
<1>8. CASE Tick
  <2>1. /\ pc = "idle" /\ table' = [f \in Events |-> Aged(table[f])]
        /\ UNCHANGED <<pc, todo, post, acked, tried>>
    BY <1>8 DEF Tick
  <2>2. /\ table' \in [Events -> Row]
        /\ \A f \in Events : table'[f].status = table[f].status
    BY <2>1, Rows
  <2> QED
    BY <2>1, <2>2
<1>9. CASE UNCHANGED vars
  BY <1>9 DEF vars
<1> QED
  BY <1>1, <1>2, <1>3, <1>4, <1>5, <1>6, <1>7, <1>8, <1>9 DEF Next

-----------------------------------------------------------------------------
(***************************************************************************)
(* The copies, what they find, and the rows that are not there yet.        *)
(***************************************************************************)

LEMMA RefreshFlow ==
  ASSUME TypeInv, FlowInv,
         CopyBefore \/ Manage \/ (\E s \in Symbols : Enter(s)) \/ CopyAfter
  PROVE  FlowInv'
<1> USE DEF FlowInv, CopyInv, KnownInv, FreshInv, Unsent, Refreshing, Posting
<1>0. MaxId \in Nat /\ ids \in 0 .. MaxId
      /\ \A s \in Symbols : open[s] \in 0 .. ids
  BY ScalpAlertAssumption DEF ScalpAlertAssumption, TypeInv, BookTyped
<1>1. CASE CopyBefore
  <2>1. /\ pc = "idle" /\ pc' = "manage" /\ todo = {} /\ todo' = {}
        /\ before' = [open |-> open, weak |-> weak]
        /\ UNCHANGED <<open, weak, ids, closed, post, table>>
    BY <1>1 DEF CopyBefore, book
  <2>2. before'.open = open /\ before'.weak = weak
    BY <2>1
  <2>3. ASSUME NEW s \in Symbols, open[s] # None
        PROVE  table[<<open[s], "EXIT">>].status = "none"
    <3>1. open[s] \in Ids /\ open[s] \notin closed
      BY <1>0, <2>3 DEF Ids, None, TypeInv, Distinct, OpenSymbols
    <3> QED
      BY <3>1
  <2>4. \A s \in Symbols : ~New(s)'
    BY <2>1, <2>2 DEF New
  <2>5. CopyInv' /\ KnownInv'
    BY <2>1, <2>2
  <2>6. FreshInv'
    BY <2>1, <2>2, <2>3, <2>4
  <2> QED
    BY <2>5, <2>6
<1>2. CASE Manage
  <2>1. PICK exits \in SUBSET OpenSymbols :
          /\ open' = [s \in Symbols |-> IF s \in exits THEN None ELSE open[s]]
          /\ closed' = closed \union {open[s] : s \in exits}
    BY <1>2 DEF Manage
  <2>2. /\ pc = "manage" /\ pc' = "enter" /\ todo = {} /\ todo' = {}
        /\ before.open = open
        /\ UNCHANGED <<ids, before, post, table>>
    BY <1>2 DEF Manage
  <2>3. CopyInv' /\ KnownInv'
    BY <2>1, <2>2
  <2>4. \A s \in Symbols : ~New(s)'
    BY <2>1, <2>2 DEF New
  <2>5. FreshInv'
    BY <2>1, <2>2, <2>4
  <2> QED
    BY <2>3, <2>5
<1>3. ASSUME NEW s \in Symbols, Enter(s)  PROVE FlowInv'
  <2>1. /\ open[s] = None /\ ids < MaxId /\ ids' = ids + 1
        /\ open' = [open EXCEPT ![s] = ids + 1]
        /\ UNCHANGED <<weak, closed, before, pc, todo, post, table>>
        /\ pc = "enter"
    BY <1>3 DEF Enter
  <2>2. ids + 1 \in Ids
    BY <1>0, <2>1 DEF Ids
  <2>3. /\ open'[s] = ids + 1
        /\ \A t \in Symbols : t # s => open'[t] = open[t]
    BY <2>1 DEF TypeInv, BookTyped
  <2>4. CopyInv'
    BY <2>1, <2>3
  <2>5. KnownInv'
    BY <2>1
  <2>6. ASSUME NEW t \in Symbols, New(t)'
        PROVE  table[<<open'[t], "ENTRY">>].status = "none"
    <3>1. CASE t = s
      BY <1>0, <2>2, <2>3, <3>1
    <3>2. CASE t # s
      BY <2>1, <2>3, <2>6, <3>2 DEF New
    <3> QED
      BY <3>1, <3>2
  <2>7. \A i \in Ids : i > ids' => i > ids
    BY <1>0, <2>1 DEF Ids
  <2>8. FreshInv'
    BY <2>1, <2>6, <2>7
  <2> QED
    BY <2>4, <2>5, <2>8
<1>4. CASE CopyAfter
  <2>1. /\ pc = "enter" /\ pc' = "deliver" /\ todo' = Lifecycle
        /\ UNCHANGED <<ids, closed, table>>
    BY <1>4 DEF CopyAfter, book
  <2>2. \A e \in Lifecycle : Known(e)
    BY <2>1, LifecycleKnown
  <2>3. KnownInv'
    BY <2>1, <2>2 DEF Known
  <2>4. ASSUME NEW e \in Lifecycle, e[2] # "WEAKENING"
        PROVE  table[e].status = "none"
    <3>1. PICK s \in Symbols :
            \/ New(s) /\ e = <<open[s], "ENTRY">>
            \/ Weakened(s) /\ e = <<open[s], "WEAKENING">>
            \/ Gone(s) /\ e = <<before.open[s], "EXIT">>
      BY LifecycleParts
    <3>2. CASE New(s) /\ e = <<open[s], "ENTRY">>
      BY <2>1, <3>2
    <3>3. CASE Weakened(s) /\ e = <<open[s], "WEAKENING">>
      BY <2>4, <3>3
    <3>4. CASE Gone(s) /\ e = <<before.open[s], "EXIT">>
      BY <2>1, <3>4 DEF Gone
    <3> QED
      BY <3>1, <3>2, <3>3, <3>4
  <2>5. FreshInv'
    BY <2>1, <2>4
  <2> QED
    BY <2>1, <2>3, <2>5
<1> QED
  BY <1>1, <1>2, <1>3, <1>4

\* A row that is there stays, and a reservation is the only step that adds one.
LEMMA DeliveryFlow ==
  ASSUME TypeInv, FlowInv, AckedInv,
         \/ \E e \in Events : Reserve(e)
         \/ Post \/ Complete \/ Raise \/ Done \/ Restart \/ Tick
         \/ UNCHANGED vars
  PROVE  FlowInv'
<1> USE DEF FlowInv, CopyInv, KnownInv, FreshInv, Unsent, Refreshing, Posting
<1>1. ASSUME NEW e \in Events, Reserve(e)  PROVE FlowInv'
  <2>1. /\ pc = "deliver" /\ e \in todo /\ todo' = todo \ {e}
        /\ UNCHANGED <<ids, closed>>
    BY <1>1 DEF Reserve, Turn, book
  <2>2. /\ pc' \in {"deliver", "post"}
        /\ pc' = "post" => post'.event = e
        /\ \A f \in Events : f # e => table'[f] = table[f]
    BY <1>1, <2>1, ReserveStep DEF TypeInv, JobTyped
  <2>3. CopyInv' /\ KnownInv'
    BY <2>1, <2>2 DEF Known
  <2>4. ASSUME NEW i \in Ids, i > ids
        PROVE  table'[<<i, "ENTRY">>].status = "none"
    <3>1. <<i, "ENTRY">> # e
      BY <2>1, <2>4, TypeInv DEF Known, TypeInv, BookTyped, Ids
    <3>2. <<i, "ENTRY">> \in Events
      BY EventParts
    <3>3. table'[<<i, "ENTRY">>] = table[<<i, "ENTRY">>]
      BY <2>2, <3>1, <3>2
    <3> QED
      BY <2>4, <3>3
  <2>5. ASSUME NEW i \in Ids, i \notin closed
        PROVE  table'[<<i, "EXIT">>].status = "none"
    <3>1. <<i, "EXIT">> # e
      BY <2>1, <2>5 DEF Known
    <3>2. <<i, "EXIT">> \in Events
      BY EventParts
    <3>3. table'[<<i, "EXIT">>] = table[<<i, "EXIT">>]
      BY <2>2, <3>1, <3>2
    <3> QED
      BY <2>5, <3>3
  <2>6. ASSUME NEW f \in todo', f[2] # "WEAKENING"
        PROVE  table'[f].status = "none"
    BY <2>1, <2>2, <2>6 DEF TypeInv, JobTyped
  <2>7. FreshInv'
    BY <2>1, <2>2, <2>4, <2>5, <2>6
  <2> QED
    BY <2>3, <2>7
<1>2. ASSUME /\ UNCHANGED book
             /\ \A f \in Events :
                  table[f].status = "none" => table'[f].status = "none"
             /\ todo' \subseteq todo /\ ~Refreshing'
             /\ pc' = "idle" => todo' = {}
             /\ Posting' => Posting /\ post'.event = post.event
      PROVE  FlowInv'
  <2>1. UNCHANGED <<ids, closed>>
    BY <1>2 DEF book
  <2>2. CopyInv' /\ KnownInv'
    BY <1>2, <2>1 DEF Known
  <2>3. \A i \in Ids : <<i, "ENTRY">> \in Events /\ <<i, "EXIT">> \in Events
    BY EventParts
  <2>4. /\ \A i \in Ids : i > ids' => Unsent(i, "ENTRY")'
        /\ \A i \in Ids : i \notin closed' => Unsent(i, "EXIT")'
    BY <1>2, <2>1, <2>3
  <2>5. \A e \in todo' : e[2] # "WEAKENING" => table'[e].status = "none"
    BY <1>2 DEF TypeInv, JobTyped
  <2>6. FreshInv'
    BY <1>2, <2>4, <2>5
  <2> QED
    BY <2>2, <2>6
<1>3. CASE Post
  <2>1. post'.event = post.event
    BY <1>3 DEF Post, TypeInv, JobTyped
  <2> QED
    BY <1>2, <1>3, <2>1 DEF Post
<1>4. CASE Complete
  <2>1. /\ pc = "complete" /\ pc' = "deliver" /\ UNCHANGED <<book, todo>>
        /\ table' = [table EXCEPT ![post.event]
                        = Completed(table[post.event], post.ok)]
    BY <1>4 DEF Complete
  <2>2. table[post.event].status = "PENDING"
    BY <2>1 DEF AckedInv
  <2>3. \A f \in Events :
          table[f].status = "none" => table'[f].status = "none"
    BY <2>1, <2>2 DEF TypeInv, JobTyped
  <2> QED
    BY <1>2, <2>1, <2>3
<1>5. CASE Raise
  <2>1. UNCHANGED <<book, table>> /\ pc' = "deliver" /\ todo' \subseteq todo
    BY <1>5 DEF Raise
  <2> QED
    BY <1>2, <2>1
<1>6. CASE Done
  BY <1>2, <1>6 DEF Done
<1>7. CASE Restart
  BY <1>7 DEF Restart, Known, TypeInv, JobTyped
<1>8. CASE Tick
  <2>1. /\ pc = "idle" /\ table' = [f \in Events |-> Aged(table[f])]
        /\ UNCHANGED <<book, pc, todo, post>>
    BY <1>8 DEF Tick
  <2>2. \A f \in Events : table'[f].status = table[f].status
    BY <2>1, Rows DEF TypeInv, JobTyped
  <2> QED
    BY <1>2, <2>1, <2>2
<1>9. CASE UNCHANGED vars
  <2>1. UNCHANGED <<open, weak, ids, closed, before, pc, todo, post, table>>
    BY <1>9 DEF vars, book
  <2> QED
    BY <2>1 DEF Known, New
<1> QED
  BY <1>1, <1>3, <1>4, <1>5, <1>6, <1>7, <1>8, <1>9

-----------------------------------------------------------------------------
(***************************************************************************)
(* Nothing that is owed is forgotten.                                      *)
(***************************************************************************)

\* The entries and the exits that were posted or that the job still has.
Held == tried \union Pending

\* A step that keeps the positions, and what is held of each one that it does
\* not drop, keeps the invariant.
LEMMA HeldStays ==
  ASSUME OwedInv, UNCHANGED <<ids, closed>>, lost \subseteq lost',
         \A i \in (1 .. ids) \ lost' : \A kind \in {"ENTRY", "EXIT"} :
           <<i, kind>> \in Held => <<i, kind>> \in Held'
  PROVE  OwedInv'
<1> SUFFICES ASSUME NEW i \in (1 .. ids) \ lost'
             PROVE  /\ <<i, "ENTRY">> \in Held'
                    /\ i \in closed => <<i, "EXIT">> \in Held'
  BY DEF OwedInv, Held
<1>1. /\ <<i, "ENTRY">> \in Held
      /\ i \in closed => <<i, "EXIT">> \in Held
  BY DEF OwedInv, Held
<1> QED
  BY <1>1

\* While the refresh has not begun there is nothing to find.
LEMMA NothingToFind ==
  ASSUME before.open = open, before.weak = weak
  PROVE  Lifecycle = {}
<1>1. \A s \in Symbols : ~New(s) /\ ~Weakened(s) /\ ~Gone(s)
  BY DEF New, Weakened, Gone
<1> QED
  BY <1>1, LifecycleParts

LEMMA RefreshOwed ==
  ASSUME TypeInv, FlowInv, OwedInv,
         CopyBefore \/ Manage \/ (\E s \in Symbols : Enter(s)) \/ CopyAfter
  PROVE  OwedInv'
<1>0. MaxId \in Nat /\ ids \in 0 .. MaxId
      /\ \A s \in Symbols : open[s] \in 0 .. ids
  BY ScalpAlertAssumption DEF ScalpAlertAssumption, TypeInv, BookTyped
<1>1. CASE CopyBefore
  <2>1. UNCHANGED <<ids, closed, lost, tried>> /\ pc = "idle" /\ todo = {}
    BY <1>1 DEF CopyBefore, book, FlowInv, CopyInv
  <2>2. Pending = {}
    BY <2>1 DEF Pending
  <2> QED
    BY <2>1, <2>2, HeldStays DEF Held
<1>2. CASE Manage
  <2>1. PICK exits \in SUBSET OpenSymbols :
          /\ open' = [s \in Symbols |-> IF s \in exits THEN None ELSE open[s]]
          /\ closed' = closed \union {open[s] : s \in exits}
    BY <1>2 DEF Manage
  <2>2. /\ pc = "manage" /\ pc' = "enter" /\ before.open = open
        /\ before.weak = weak /\ UNCHANGED <<ids, before, lost, tried>>
    BY <1>2 DEF Manage, FlowInv, CopyInv
  <2>3. Pending = {} /\ Pending' = Lifecycle'
    BY <2>2, NothingToFind DEF Pending
  <2>4. ASSUME NEW s \in exits  PROVE <<open[s], "EXIT">> \in Lifecycle'
    <3>1. open'[s] = None /\ before'.open[s] = open[s] /\ open[s] # None
      BY <2>1, <2>2 DEF OpenSymbols
    <3>2. Gone(s)'
      BY <3>1 DEF Gone
    <3> QED
      BY <2>2, <3>2 DEF Lifecycle, OpenSymbols
  <2>5. ASSUME NEW i \in (1 .. ids) \ lost
        PROVE  /\ <<i, "ENTRY">> \in tried
               /\ i \in closed' => <<i, "EXIT">> \in tried \union Lifecycle'
    BY <2>1, <2>3, <2>4 DEF OwedInv
  <2> QED
    BY <2>2, <2>3, <2>5 DEF OwedInv
<1>3. ASSUME NEW s \in Symbols, Enter(s)  PROVE OwedInv'
  <2>1. /\ open[s] = None /\ ids < MaxId /\ ids' = ids + 1
        /\ open' = [open EXCEPT ![s] = ids + 1]
        /\ lost' = lost \union Hidden(s)
        /\ UNCHANGED <<weak, closed, before, pc, tried>>
        /\ pc = "enter"
    BY <1>3 DEF Enter
  <2>2. Pending = Lifecycle /\ Pending' = Lifecycle'
    BY <2>1 DEF Pending
  <2>3. /\ open'[s] = ids + 1
        /\ \A t \in Symbols : t # s => open'[t] = open[t]
    BY <2>1 DEF TypeInv, BookTyped
  <2>4. ASSUME NEW i \in (1 .. ids) \ lost', NEW kind \in {"ENTRY", "EXIT"},
               <<i, kind>> \in Lifecycle
        PROVE  <<i, kind>> \in Lifecycle'
    <3>1. PICK t \in Symbols :
            \/ New(t) /\ <<i, kind>> = <<open[t], "ENTRY">>
            \/ Gone(t) /\ <<i, kind>> = <<before.open[t], "EXIT">>
      BY <2>4, LifecycleParts
    <3>2. CASE t = s
      <4>1. before.open[s] # None /\ i = before.open[s]
        BY <2>1, <3>1, <3>2 DEF New, Gone
      <4>2. i \in lost'
        BY <2>1, <4>1 DEF Hidden
      <4> QED
        BY <4>2
    <3>3. CASE t # s
      BY <2>1, <2>3, <3>1, <3>3 DEF Lifecycle, New, Gone
    <3> QED
      BY <3>2, <3>3
  <2>5. ASSUME ids + 1 \notin lost'
        PROVE  <<ids + 1, "ENTRY">> \in Lifecycle'
    <3>1. before.open[s] = None
      BY <2>1, <2>5 DEF Hidden
    <3>2. New(s)'
      BY <1>0, <2>1, <2>3, <3>1 DEF New, None
    <3> QED
      BY <2>3, <3>2 DEF Lifecycle
  <2>6. ids + 1 \notin closed /\ 1 .. ids' = (1 .. ids) \union {ids + 1}
    BY <1>0, <2>1 DEF TypeInv, BookTyped
  <2>7. ASSUME NEW i \in (1 .. ids) \ lost'
        PROVE  /\ <<i, "ENTRY">> \in tried \union Lifecycle'
               /\ i \in closed => <<i, "EXIT">> \in tried \union Lifecycle'
    <3>1. i \in (1 .. ids) \ lost
      BY <2>1
    <3>2. /\ <<i, "ENTRY">> \in tried \union Lifecycle
          /\ i \in closed => <<i, "EXIT">> \in tried \union Lifecycle
      BY <2>2, <3>1 DEF OwedInv
    <3> QED
      BY <2>4, <3>2
  <2> QED
    BY <2>1, <2>2, <2>5, <2>6, <2>7 DEF OwedInv
<1>4. CASE CopyAfter
  <2>1. /\ pc = "enter" /\ pc' = "deliver" /\ todo' = Lifecycle
        /\ UNCHANGED <<ids, closed, lost, tried>>
    BY <1>4 DEF CopyAfter, book
  <2>2. Pending' = Pending
    BY <2>1 DEF Pending
  <2> QED
    BY <2>1, <2>2, HeldStays DEF Held
<1> QED
  BY <1>1, <1>2, <1>3, <1>4

LEMMA DeliveryOwed ==
  ASSUME TypeInv, FlowInv, OwedInv,
         \/ \E e \in Events : Reserve(e)
         \/ Post \/ Complete \/ Raise \/ Done \/ Restart \/ Tick
         \/ UNCHANGED vars
  PROVE  OwedInv'
<1>1. ASSUME NEW e \in Events, Reserve(e)  PROVE OwedInv'
  <2>1. /\ pc = "deliver" /\ e \in todo /\ todo' = todo \ {e}
        /\ UNCHANGED <<ids, closed, lost, tried>>
    BY <1>1 DEF Reserve, Turn, book
  <2>2. Pending = todo
    BY <2>1 DEF Pending
  <2>3. e[2] # "WEAKENING" => Pending' = todo
    <3> SUFFICES ASSUME e[2] # "WEAKENING" PROVE Pending' = todo
      OBVIOUS
    <3>1. table[e].status = "none" /\ table[e] \in Row
      BY <2>1 DEF TypeInv, JobTyped, FlowInv, FreshInv
    <3>2. MayReserve(table[e], 0)
      BY <3>1, Rows
    <3>3. pc' = "post" /\ post'.event = e
      BY <1>1, <3>2, ReserveStep
    <3> QED
      BY <2>1, <3>3 DEF Pending
  <2>4. e[2] = "WEAKENING" => todo \ {e} \subseteq Pending'
    BY <1>1, <2>1, ReserveStep DEF Pending
  <2>5. \A i, kind : e = <<i, kind>> => e[2] = kind
    OBVIOUS
  <2>6. ASSUME NEW i \in 1 .. ids, NEW kind \in {"ENTRY", "EXIT"},
               <<i, kind>> \in Held
        PROVE  <<i, kind>> \in Held'
    BY <2>1, <2>2, <2>3, <2>4, <2>5, <2>6 DEF Held
  <2> QED
    BY <2>1, <2>6, HeldStays
<1>2. CASE Post
  <2>1. /\ pc = "post" /\ pc' = "complete"
        /\ UNCHANGED <<ids, closed, lost, todo>>
        /\ tried' = tried \union ({post.event} \ (Ids \X {"WEAKENING"}))
    BY <1>2 DEF Post, book
  <2>2. Pending = todo \union {post.event} /\ Pending' = todo
    BY <2>1 DEF Pending
  <2>3. \A i, kind : <<i, kind>> \in Ids \X {"WEAKENING"}
                       => kind = "WEAKENING"
    OBVIOUS
  <2>4. ASSUME NEW i \in 1 .. ids, NEW kind \in {"ENTRY", "EXIT"},
               <<i, kind>> \in Held
        PROVE  <<i, kind>> \in Held'
    BY <2>1, <2>2, <2>3, <2>4 DEF Held
  <2> QED
    BY <2>1, <2>4, HeldStays
<1>3. CASE Complete \/ Done \/ Tick
  <2>1. /\ pc \in {"complete", "deliver", "idle"}
        /\ pc' \in {"deliver", "idle"}
        /\ UNCHANGED <<ids, closed, lost, todo, tried>>
    BY <1>3 DEF Complete, Done, Tick, book
  <2>2. Pending' = Pending
    BY <2>1 DEF Pending
  <2> QED
    BY <2>1, <2>2, HeldStays DEF Held
<1>4. CASE Raise
  <2>1. pc' = "deliver" /\ UNCHANGED <<ids, closed, tried>>
        /\ pc \in {"deliver", "complete"}
    BY <1>4 DEF Raise, book
  <2>2. Pending = todo /\ Pending' = todo'
    BY <2>1 DEF Pending
  <2>3. CASE UNCHANGED <<todo, lost>>
    BY <2>1, <2>2, <2>3, HeldStays DEF Held
  <2>4. ASSUME NEW e \in Events, todo' = todo \ {e},
               lost' = lost \union {e[1]}
        PROVE  OwedInv'
    <3>1. ASSUME NEW i \in (1 .. ids) \ lost', NEW kind \in {"ENTRY", "EXIT"},
                 <<i, kind>> \in Held
          PROVE  <<i, kind>> \in Held'
      <4>1. <<i, kind>> # e
        BY <2>4
      <4> QED
        BY <2>1, <2>2, <2>4, <3>1, <4>1 DEF Held
    <3> QED
      BY <2>1, <2>4, <3>1, HeldStays
  <2> QED
    BY <1>4, <2>3, <2>4 DEF Raise
<1>5. CASE Restart
  <2>1. /\ UNCHANGED <<ids, closed, tried>>
        /\ lost' = lost \union {e[1] : e \in Pending}
    BY <1>5 DEF Restart
  <2>2. ASSUME NEW i \in (1 .. ids) \ lost', NEW kind \in {"ENTRY", "EXIT"},
               <<i, kind>> \in Held
        PROVE  <<i, kind>> \in Held'
    <3>1. <<i, kind>> \in Pending => i \in lost'
      BY <2>1
    <3> QED
      BY <2>1, <2>2, <3>1 DEF Held
  <2> QED
    BY <2>1, <2>2, HeldStays
<1>6. CASE UNCHANGED vars
  <2>1. UNCHANGED <<ids, closed, lost, tried>> /\ Pending' = Pending
    BY <1>6 DEF vars, book, Pending, Lifecycle, New, Weakened, Gone
  <2> QED
    BY <2>1, HeldStays DEF Held
<1> QED
  BY <1>1, <1>2, <1>3, <1>4, <1>5, <1>6

-----------------------------------------------------------------------------
(***************************************************************************)
(* The theorems.                                                           *)
(***************************************************************************)

LEMMA InitInv == Init => Inv
<1> SUFFICES ASSUME Init PROVE Inv
  OBVIOUS
<1>1. /\ open = [s \in Symbols |-> None] /\ weak = {} /\ ids = 0
      /\ pc = "idle" /\ todo = {} /\ post = NoPost
      /\ table = [e \in Events |-> NoRow] /\ acked = [e \in Events |-> 0]
      /\ tried = {} /\ closed = {} /\ lost = {}
  BY DEF Init
<1>2. NoRow \in Row /\ NoRow.status = "none"
  BY AlertAssumption DEF AlertAssumption, NoRow, Row, Old
<1>3. BookTyped /\ Distinct
  BY <1>1, ScalpAlertAssumption
  DEF BookTyped, Distinct, OpenSymbols, None, Refreshing, ScalpAlertAssumption
<1>4. post \in [event : Events \union {NoPost.event}, ok : BOOLEAN]
  BY <1>1 DEF NoPost
<1>5. table \in [Events -> Row] /\ acked \in [Events -> 0 .. 1]
  BY <1>1, <1>2
<1>6. JobTyped
  BY <1>1, <1>4, <1>5 DEF JobTyped, Locations, Posting
<1>7. \A i \in Ids : <<i, "ENTRY">> \in Events /\ <<i, "EXIT">> \in Events
  BY EventParts
<1>8. FlowInv
  BY <1>1, <1>2, <1>7
  DEF FlowInv, CopyInv, KnownInv, FreshInv, Unsent, Refreshing, Posting
<1>9. AckedInv
  BY <1>1 DEF AckedInv, Posting
<1>10. OwedInv
  BY <1>1 DEF OwedInv
<1> QED
  BY <1>3, <1>6, <1>8, <1>9, <1>10 DEF Inv, TypeInv

LEMMA Invariant == Spec => []Inv
<1>1. Inv /\ [Next]_vars => Inv'
  <2> SUFFICES ASSUME Inv, [Next]_vars PROVE Inv'
    OBVIOUS
  <2>1. TypeInv /\ FlowInv /\ AckedInv /\ OwedInv
    BY DEF Inv
  <2>2. TypeInv' /\ AckedInv'
    BY <2>1, BookStep, AckedStep DEF TypeInv, FlowInv
  <2>3. \/ CopyBefore \/ Manage \/ (\E s \in Symbols : Enter(s)) \/ CopyAfter
        \/ \/ \E e \in Events : Reserve(e)
           \/ Post \/ Complete \/ Raise \/ Done \/ Restart \/ Tick
           \/ UNCHANGED vars
    BY DEF Next
  <2>4. FlowInv'
    BY <2>1, <2>3, RefreshFlow, DeliveryFlow
  <2>5. OwedInv'
    BY <2>1, <2>3, RefreshOwed, DeliveryOwed
  <2> QED
    BY <2>2, <2>4, <2>5 DEF Inv
<1> QED
  BY InitInv, <1>1, PTL DEF Spec

\* Every variable of the job keeps its type, and two symbols never share a
\* position, whatever the refreshes do and wherever the process restarts.
THEOREM NotifierTypeCorrect == Spec => []TypeOK
<1>1. Inv => TypeOK
  BY DEF Inv, TypeInv, BookTyped, Distinct, JobTyped, Locations, TypeOK
<1> QED
  BY <1>1, Invariant, PTL

\* No entry, first weakening or exit of a position is accepted twice.
THEOREM ScalpsAreNotifiedOnce == Spec => []NotifiedOnce
<1>1. Inv => NotifiedOnce
  BY DEF Inv, TypeInv, JobTyped, NotifiedOnce
<1> QED
  BY <1>1, Invariant, PTL

\* Between two runs of the job every entry and every exit has been posted, but
\* for the positions with an event that was dropped or hidden.
THEOREM ScalpsAreNotified == Spec => []EveryScalpIsNotified
<1>1. ASSUME Inv, pc = "idle"  PROVE Pending = {}
  BY <1>1 DEF Inv, FlowInv, CopyInv, Pending
<1>2. Inv => EveryScalpIsNotified
  BY <1>1 DEF Inv, OwedInv, EveryScalpIsNotified
<1> QED
  BY <1>2, Invariant, PTL

=============================================================================
