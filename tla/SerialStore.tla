---------------------------- MODULE SerialStore ----------------------------
(***************************************************************************)
(* What the lock and the whole-file database of a Hive workspace promise:  *)
(* sessions follow one another.  A session opens the store as the last one *)
(* left it, changes its own view, and writes the view back, so that no     *)
(* change that was written is ever lost.  Once a session has blocked for   *)
(* so long that its lock is broken, nothing is promised any more.          *)
(***************************************************************************)
CONSTANTS Proc, Update, Closed

VARIABLES store,  \* the changes the store holds
          view,   \* view[p]: the changes p's session sees, or Closed
          broken  \* has a lock been broken?

svars == <<store, view, broken>>

Init == store = {} /\ broken = FALSE /\ view = [p \in Proc |-> Closed]

\* A session opens when no other is open, with what the store holds.
Open(p) ==
  /\ \A q \in Proc : view[q] = Closed
  /\ view' = [view EXCEPT ![p] = store]
  /\ UNCHANGED store

\* The session changes its view, or takes back changes it has not written.
Work(p) ==
  /\ view[p] # Closed
  /\ \E v \in SUBSET Update : store \subseteq v /\ view' = [view EXCEPT ![p] = v]
  /\ UNCHANGED store

Write(p) == view[p] # Closed /\ store' = view[p] /\ UNCHANGED view

Close(p) == view[p] # Closed /\ view' = [view EXCEPT ![p] = Closed] /\ UNCHANGED store

WriteAndClose(p) ==
  view[p] # Closed /\ store' = view[p] /\ view' = [view EXCEPT ![p] = Closed]

Serial ==
  \E p \in Proc : Open(p) \/ Work(p) \/ Write(p) \/ Close(p) \/ WriteAndClose(p)

Next == (Serial /\ UNCHANGED broken) \/ broken'

Spec == Init /\ [][Next]_svars
=============================================================================
