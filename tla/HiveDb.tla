------------------------------- MODULE HiveDb -------------------------------
(***************************************************************************)
(* The SQLite mode of a Hive workspace: every command, and every step of   *)
(* the manager, runs in withHiveContext (src/utils/with-hive-context.ts).  *)
(* It takes the lock of the database (src/db/lock.ts), loads the whole     *)
(* file into memory (src/db/client.ts), works there, writes the whole      *)
(* file back and gives the lock up.                                        *)
(*                                                                         *)
(* The lock is the directory proper-lockfile makes.  Its owner refreshes   *)
(* its time from a timer; a directory that was not refreshed for 30 s is   *)
(* stale and the next process takes it over.  A process whose event loop   *)
(* is blocked (execSync of gh, pr.ts) does not refresh it: a stall.        *)
(*                                                                         *)
(* A database is the set of changes made to it.                            *)
(***************************************************************************)
EXTENDS Naturals

CONSTANTS
  Proc,            \* processes, the manager and the commands
  Daemon,          \* those that live on when a session throws: the manager
  Update,          \* the changes sessions make
  Nobody, Closed,  \* no owner; no database in memory, no temporary file
  MaxStalls,       \* bound: sessions that block longer than the lock's stale time
  LoadsFail        \* may the database file be unreadable?

ASSUME HiveDbAssumption ==
  /\ Daemon \subseteq Proc
  /\ Nobody \notin Proc
  /\ \A S \in SUBSET Update : S # Closed
  /\ MaxStalls \in Nat /\ LoadsFail \in BOOLEAN

VARIABLES
  lock,   \* the lock's directory: absent, fresh or stale
  owner,  \* the living process that made it
  holds,  \* holds[p]: p has taken the lock and not yet given it up
  pc,     \* where p is in withHiveContext
  mem,    \* mem[p]: p's database in memory
  begun,  \* begun[p]: mem[p] at the BEGIN of the open transaction
  tmp,    \* hive.db.tmp
  file,   \* hive.db
  stalls  \* how many sessions have blocked for too long

vars == <<lock, owner, holds, pc, mem, begun, tmp, file, stalls>>

Db == SUBSET Update

Steps == {"idle", "loading", "working", "transaction", "saving", "closing", "releasing"}

\* Steps at which a process has a database in memory.
Loaded == {"working", "transaction", "saving", "closing"}

TypeOK ==
  /\ lock \in {"absent", "fresh", "stale"}
  /\ owner \in Proc \cup {Nobody}
  /\ holds \in [Proc -> BOOLEAN]
  /\ pc \in [Proc -> Steps]
  /\ mem \in [Proc -> {Closed} \cup Db]
  /\ begun \in [Proc -> {Closed} \cup Db]
  /\ tmp \in {Closed} \cup Db
  /\ file \in Db
  /\ stalls \in Nat
  /\ \A p \in Proc : (mem[p] # Closed) <=> (pc[p] \in Loaded)
  /\ \A p \in Proc : (begun[p] # Closed) <=> (pc[p] = "transaction")

Init ==
  /\ lock = "absent" /\ owner = Nobody /\ holds = [p \in Proc |-> FALSE]
  /\ pc = [p \in Proc |-> "idle"]
  /\ mem = [p \in Proc |-> Closed] /\ begun = [p \in Proc |-> Closed]
  /\ tmp = Closed /\ file = {} /\ stalls = 0

Goto(p, step) == pc' = [pc EXCEPT ![p] = step]

Forget(p) ==
  mem' = [mem EXCEPT ![p] = Closed] /\ begun' = [begun EXCEPT ![p] = Closed]

-----------------------------------------------------------------------------
(* The lock. *)

FaultyIsFree == lock \in {"absent", "stale", "fresh"}

IsFree == lock \in {"absent", "stale"}

\* acquireLock: makes the directory, or takes over one that is stale.  A
\* process that does not get it within its retries gives up, unchanged.
Acquire(p) ==
  /\ pc[p] = "idle" /\ IsFree
  /\ lock' = "fresh" /\ owner' = p /\ holds' = [holds EXCEPT ![p] = TRUE]
  /\ Goto(p, "loading")
  /\ UNCHANGED <<stalls, mem, begun, tmp, file>>

FaultyGoesStale ==
  /\ lock = "fresh"
  /\ lock' = "stale"
  /\ UNCHANGED <<stalls, owner, holds, pc, mem, begun, tmp, file>>

\* 30 seconds without a refresh.
GoesStale ==
  /\ lock = "fresh" /\ (owner = Nobody \/ stalls < MaxStalls)
  /\ lock' = "stale"
  /\ stalls' = IF owner = Nobody THEN stalls ELSE stalls + 1
  /\ UNCHANGED <<owner, holds, pc, mem, begun, tmp, file>>

\* The owner's timer runs again before anyone has taken the directory over.
Refresh(p) ==
  /\ lock = "stale" /\ owner = p /\ holds[p]
  /\ lock' = "fresh"
  /\ UNCHANGED <<stalls, owner, holds, pc, mem, begun, tmp, file>>

\* The timer finds another's directory or none: onCompromised, a warning.
NoticeCompromised(p) ==
  /\ holds[p] /\ owner # p
  /\ holds' = [holds EXCEPT ![p] = FALSE]
  /\ UNCHANGED <<stalls, lock, owner, pc, mem, begun, tmp, file>>

\* release(), and the exit hook of a process: removes the directory, whoever
\* made it, unless the lock is known to be compromised.
GiveUp(p) ==
  /\ holds' = [holds EXCEPT ![p] = FALSE]
  /\ IF holds[p] THEN lock' = "absent" /\ owner' = Nobody
                 ELSE UNCHANGED <<lock, owner>>

FaultyThrow(p) == Goto(p, "idle") /\ Forget(p) /\ UNCHANGED <<lock, owner, holds>>

\* withHiveContext throws before it comes to release(): a command ends, and
\* its exit hook removes the lock; the manager logs the error and keeps it.
Throw(p) ==
  /\ Goto(p, "idle") /\ Forget(p)
  /\ IF p \in Daemon THEN UNCHANGED <<lock, owner, holds>> ELSE GiveUp(p)

-----------------------------------------------------------------------------
(* The database. *)

\* createDatabase reads the file; its migrations change nothing here.
Load(p) ==
  /\ pc[p] = "loading"
  /\ Goto(p, "working") /\ mem' = [mem EXCEPT ![p] = file]
  /\ UNCHANGED <<stalls, lock, owner, holds, begun, tmp, file>>

\* getDatabase throws, after its retries.  It runs outside the try block.
LoadThrows(p) ==
  /\ LoadsFail /\ pc[p] = "loading"
  /\ Throw(p)
  /\ UNCHANGED <<stalls, tmp, file>>

Change(p) ==
  /\ pc[p] \in {"working", "transaction"}
  /\ \E u \in Update \ mem[p] : mem' = [mem EXCEPT ![p] = @ \cup {u}]
  /\ UNCHANGED <<stalls, lock, owner, holds, pc, begun, tmp, file>>

Begin(p) ==
  /\ pc[p] = "working"
  /\ Goto(p, "transaction") /\ begun' = [begun EXCEPT ![p] = mem[p]]
  /\ UNCHANGED <<stalls, lock, owner, holds, mem, tmp, file>>

\* The transaction's function throws.
Rollback(p) ==
  /\ pc[p] = "transaction"
  /\ Goto(p, "working") /\ mem' = [mem EXCEPT ![p] = begun[p]]
  /\ begun' = [begun EXCEPT ![p] = Closed]
  /\ UNCHANGED <<stalls, lock, owner, holds, tmp, file>>

\* save(): COMMIT is followed by one, and code calls it on its own.  The
\* whole database goes to the temporary file ...
BeginSave(p) ==
  /\ pc[p] \in {"working", "transaction"}
  /\ Goto(p, "saving") /\ tmp' = mem[p]
  /\ begun' = [begun EXCEPT ![p] = Closed]
  /\ UNCHANGED <<stalls, lock, owner, holds, mem, file>>

\* ... which is then renamed.
Renamed == tmp # Closed /\ file' = tmp /\ tmp' = Closed

EndSave(p) ==
  /\ pc[p] = "saving"
  /\ Goto(p, "working") /\ Renamed
  /\ UNCHANGED <<stalls, lock, owner, holds, mem, begun>>

\* Another process has renamed the temporary file: rename throws.
SaveThrows(p) ==
  /\ pc[p] = "saving" /\ tmp = Closed
  /\ Goto(p, "working")
  /\ UNCHANGED <<stalls, lock, owner, holds, mem, begun, tmp, file>>

FaultyBeginClose(p) ==
  /\ pc[p] = "working"
  /\ Goto(p, "closing") /\ tmp' = mem[p] /\ GiveUp(p)
  /\ UNCHANGED <<stalls, mem, begun, file>>

\* The function has returned or thrown: db.close() saves in either case.
BeginClose(p) ==
  /\ pc[p] = "working"
  /\ Goto(p, "closing") /\ tmp' = mem[p]
  /\ UNCHANGED <<stalls, lock, owner, holds, mem, begun, file>>

EndClose(p) ==
  /\ pc[p] = "closing"
  /\ Goto(p, "releasing") /\ Renamed /\ mem' = [mem EXCEPT ![p] = Closed]
  /\ UNCHANGED <<stalls, lock, owner, holds, begun>>

CloseThrows(p) ==
  /\ pc[p] = "closing" /\ tmp = Closed
  /\ Throw(p)
  /\ UNCHANGED <<stalls, tmp, file>>

Release(p) ==
  /\ pc[p] = "releasing"
  /\ Goto(p, "idle") /\ GiveUp(p)
  /\ UNCHANGED <<stalls, mem, begun, tmp, file>>

\* process.exit or a signal, never inside the synchronous save(): the exit
\* hook gives the lock up and nothing is saved.
Exit(p) ==
  /\ pc[p] \notin {"saving", "closing"} /\ (pc[p] # "idle" \/ holds[p])
  /\ Goto(p, "idle") /\ Forget(p) /\ GiveUp(p)
  /\ UNCHANGED <<stalls, tmp, file>>

\* SIGKILL or a crash of the machine, anywhere.
Crash(p) ==
  /\ pc[p] # "idle" \/ holds[p]
  /\ Goto(p, "idle") /\ Forget(p)
  /\ holds' = [holds EXCEPT ![p] = FALSE]
  /\ owner' = IF owner = p THEN Nobody ELSE owner
  /\ UNCHANGED <<stalls, lock, tmp, file>>

LockStep(p) == Acquire(p) \/ Refresh(p) \/ NoticeCompromised(p) \/ Release(p)

SessionStep(p) ==
  \/ Load(p) \/ LoadThrows(p) \/ Change(p) \/ Begin(p) \/ Rollback(p)
  \/ BeginSave(p) \/ EndSave(p) \/ SaveThrows(p)
  \/ BeginClose(p) \/ EndClose(p) \/ CloseThrows(p)

Next ==
  \/ GoesStale
  \/ \E p \in Proc : LockStep(p) \/ SessionStep(p) \/ Exit(p) \/ Crash(p)

Spec == Init /\ [][Next]_vars

\* A directory nobody refreshes grows old, no process is blocked for ever, and
\* what a session does comes to an end.
Fairness ==
  /\ WF_vars(GoesStale /\ owner = Nobody)
  /\ \A p \in Proc :
       /\ WF_vars(Load(p) \/ LoadThrows(p))
       /\ WF_vars(EndSave(p) \/ SaveThrows(p) \/ EndClose(p) \/ CloseThrows(p))
       /\ WF_vars(Release(p))
       /\ WF_vars(Rollback(p) \/ (BeginSave(p) /\ pc[p] = "transaction"))
       /\ SF_vars(BeginClose(p))

FairSpec == Spec /\ Fairness

-----------------------------------------------------------------------------
(* Properties. *)

InSession(p) == pc[p] # "idle"

\* "This ensures that only one process can read/write the database at a
\* time" (with-hive-context.ts:65): no two sessions overlap, crashed and
\* exiting processes and stale locks included, until one blocks for too long.
OneSessionAtATime ==
  stalls = 0 => \A p, q \in Proc : InSession(p) /\ InSession(q) => p = q

\* The file that a save or a close writes never lacks a change the file
\* already held: saving whole files loses nobody's work, until then.
SavedChangesStay == [][stalls' = 0 => file \subseteq file']_vars

\* Sessions see the database the last one left and write it back one after
\* the other: lock, load, save and rename implement the serial store.
Serial == INSTANCE SerialStore WITH store <- file, view <- mem, broken <- stalls # 0

SessionsAreSerial == Serial!Spec

\* The lock of the database comes free again and again, sessions that block
\* included, unless the manager has kept it after an error: nothing else that
\* happens to its holder leaves the workspace locked.
KeptByDaemon == \E p \in Daemon : holds[p] /\ pc[p] = "idle"

LockComesFree == []<>(IsFree \/ KeptByDaemon)

=============================================================================
