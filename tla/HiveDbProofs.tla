---------------------------- MODULE HiveDbProofs ----------------------------
(***************************************************************************)
(* Proofs about HiveDb and HiveUpgrade, for any processes and changes, any *)
(* number of sessions that block beyond the stale time of the lock, and    *)
(* any hives, older and newer ones, side by side.                          *)
(*                                                                         *)
(* The inductive invariant of the sessions has two parts, kept until the   *)
(* first such stall.  LockInv: a process in a session holds the lock, and  *)
(* a process that holds it owns a fresh directory, so no two processes do. *)
(* ViewInv: what a session has in memory includes the file, and the        *)
(* temporary file of a save is the memory of its saver.  That of the       *)
(* upgrades, Sound, ties the columns of each copy of the database to the   *)
(* migrations recorded in it.                                              *)
(***************************************************************************)
EXTENDS HiveUpgrade, WellFoundedInduction, TLAPS

LockInv ==
  /\ \A p \in Proc : holds[p] => lock = "fresh" /\ owner = p
  /\ \A p \in Proc : pc[p] # "idle" => holds[p]

ViewInv ==
  /\ \A p \in Proc : mem[p] # Closed => file \subseteq mem[p]
  /\ \A p \in Proc : begun[p] # Closed => file \subseteq begun[p]
  /\ \A p \in Proc : pc[p] \in {"saving", "closing"} => tmp = mem[p]

Serialized == LockInv /\ ViewInv

Inv == TypeOK /\ (stalls = 0 => Serialized)

\* A new workspace satisfies the invariant.
LEMMA InitInv == Init => Inv
  BY HiveDbAssumption
  DEF Init, Inv, Serialized, TypeOK, LockInv, ViewInv, Db, Steps, Loaded

\* Every step keeps the types.
LEMMA TypeStep == TypeOK /\ [Next]_vars => TypeOK'
<1> SUFFICES ASSUME TypeOK, [Next]_vars PROVE TypeOK'
  OBVIOUS
<1> USE HiveDbAssumption DEF TypeOK, Db, Steps, Loaded, Goto, Forget, GiveUp
<1>1. CASE UNCHANGED vars
  BY <1>1 DEF vars
<1>2. CASE GoesStale
  BY <1>2 DEF GoesStale
<1>3. ASSUME NEW p \in Proc, LockStep(p) PROVE TypeOK'
  <2>1. CASE Acquire(p)
    BY <2>1 DEF Acquire, IsFree
  <2>2. CASE Refresh(p)
    BY <2>2 DEF Refresh
  <2>3. CASE NoticeCompromised(p)
    BY <2>3 DEF NoticeCompromised
  <2>4. CASE Release(p)
    BY <2>4 DEF Release
  <2> QED
    BY <1>3, <2>1, <2>2, <2>3, <2>4 DEF LockStep
<1>4. ASSUME NEW p \in Proc, SessionStep(p) PROVE TypeOK'
  <2>1. CASE Load(p)
    BY <2>1 DEF Load
  <2>2. CASE LoadThrows(p)
    BY <2>2 DEF LoadThrows, Throw
  <2>3. CASE Change(p)
    BY <2>3 DEF Change
  <2>4. CASE Begin(p)
    BY <2>4 DEF Begin
  <2>5. CASE Rollback(p)
    BY <2>5 DEF Rollback
  <2>6. CASE BeginSave(p)
    BY <2>6 DEF BeginSave
  <2>7. CASE EndSave(p)
    BY <2>7 DEF EndSave, Renamed
  <2>8. CASE SaveThrows(p)
    BY <2>8 DEF SaveThrows
  <2>9. CASE BeginClose(p)
    BY <2>9 DEF BeginClose
  <2>10. CASE EndClose(p)
    BY <2>10 DEF EndClose, Renamed
  <2>11. CASE CloseThrows(p)
    BY <2>11 DEF CloseThrows, Throw
  <2> QED
    BY <1>4, <2>1, <2>2, <2>3, <2>4, <2>5, <2>6, <2>7, <2>8, <2>9, <2>10, <2>11
    DEF SessionStep
<1>5. ASSUME NEW p \in Proc, Exit(p) PROVE TypeOK'
  BY <1>5 DEF Exit
<1>6. ASSUME NEW p \in Proc, Crash(p) PROVE TypeOK'
  BY <1>6 DEF Crash
<1> QED
  BY <1>1, <1>2, <1>3, <1>4, <1>5, <1>6 DEF Next

\* Stalls are counted, never forgotten.
LEMMA StallsGrow ==
  ASSUME TypeOK, [Next]_vars, stalls' = 0
  PROVE  stalls = 0 /\ (GoesStale => owner = Nobody)
<1>1. CASE GoesStale
  BY <1>1 DEF GoesStale, TypeOK
<1>2. CASE ~GoesStale
  <2>1. UNCHANGED stalls
    BY <1>2 DEF vars, Next, LockStep, SessionStep, Acquire, Refresh, NoticeCompromised,
       Release, Load, LoadThrows, Change, Begin, Rollback, BeginSave, EndSave, SaveThrows,
       BeginClose, EndClose, CloseThrows, Exit, Crash
  <2> QED
    BY <1>2, <2>1
<1> QED
  BY <1>1, <1>2

\* Until a stall, every step keeps the lock with the session that took it.
LEMMA LockInvStep ==
  ASSUME stalls' = 0, TypeOK, LockInv, [Next]_vars
  PROVE  LockInv'
<1> USE HiveDbAssumption DEF TypeOK, LockInv, Goto, GiveUp
<1>1. CASE UNCHANGED vars
  BY <1>1 DEF vars
<1>2. CASE GoesStale
  BY <1>2, StallsGrow DEF GoesStale
<1>3. ASSUME NEW p \in Proc, LockStep(p) PROVE LockInv'
  <2>1. CASE Acquire(p)
    BY <2>1 DEF Acquire, IsFree
  <2>2. CASE Refresh(p)
    BY <2>2 DEF Refresh
  <2>3. CASE NoticeCompromised(p)
    BY <2>3 DEF NoticeCompromised
  <2>4. CASE Release(p)
    BY <2>4 DEF Release
  <2> QED
    BY <1>3, <2>1, <2>2, <2>3, <2>4 DEF LockStep
<1>4. ASSUME NEW p \in Proc, SessionStep(p) PROVE LockInv'
  <2>1. CASE LoadThrows(p) \/ CloseThrows(p)
    BY <2>1 DEF LoadThrows, CloseThrows, Throw
  <2>2. CASE ~(LoadThrows(p) \/ CloseThrows(p))
    <3>1. /\ UNCHANGED <<lock, owner, holds>>
          /\ pc[p] # "idle"
          /\ \A q \in Proc : q # p => pc'[q] = pc[q]
      BY <1>4, <2>2
      DEF SessionStep, Load, Change, Begin, Rollback, BeginSave, EndSave,
          SaveThrows, BeginClose, EndClose
    <3> QED
      BY <3>1
  <2> QED
    BY <2>1, <2>2
<1>5. ASSUME NEW p \in Proc, Exit(p) PROVE LockInv'
  BY <1>5 DEF Exit
<1>6. ASSUME NEW p \in Proc, Crash(p) PROVE LockInv'
  BY <1>6 DEF Crash
<1> QED
  BY <1>1, <1>2, <1>3, <1>4, <1>5, <1>6 DEF Next

\* Two processes in sessions are one: both own the lock's directory.
LEMMA OneSession ==
  ASSUME LockInv, NEW p \in Proc, NEW q \in Proc, InSession(p), InSession(q)
  PROVE  p = q
  BY DEF LockInv, InSession

\* Only one process has a database in memory.
LEMMA OneView ==
  ASSUME TypeOK, LockInv, NEW p \in Proc, NEW q \in Proc,
         mem[p] # Closed, mem[q] # Closed
  PROVE  p = q
  BY OneSession DEF TypeOK, Loaded, InSession

\* A save replaces the file by a database that includes it.
LEMMA SaveKeepsFile ==
  ASSUME TypeOK, ViewInv, NEW p \in Proc, EndSave(p) \/ EndClose(p)
  PROVE  file' = mem[p] /\ file \subseteq mem[p] /\ mem[p] # Closed
  BY DEF TypeOK, ViewInv, EndSave, EndClose, Renamed, Loaded

\* Every step keeps the file within the memory of the session.
LEMMA ViewInvStep ==
  ASSUME TypeOK, LockInv, ViewInv, [Next]_vars
  PROVE  ViewInv'
<1> USE HiveDbAssumption DEF TypeOK, ViewInv, Goto, Forget
<1>1. CASE UNCHANGED vars
  BY <1>1 DEF vars
<1>2. CASE GoesStale
  BY <1>2 DEF GoesStale
<1>3. ASSUME NEW p \in Proc, LockStep(p) PROVE ViewInv'
  BY <1>3 DEF LockStep, Acquire, Refresh, NoticeCompromised, Release
<1>4. ASSUME NEW p \in Proc, SessionStep(p) PROVE ViewInv'
  <2>1. CASE Load(p)
    BY <2>1 DEF Load
  <2>2. CASE LoadThrows(p) \/ CloseThrows(p)
    BY <2>2 DEF LoadThrows, CloseThrows, Throw
  <2>3. CASE Change(p)
    <3>1. PICK u \in Update : mem' = [mem EXCEPT ![p] = @ \cup {u}]
      BY <2>3 DEF Change
    <3>2. /\ mem[p] # Closed
          /\ pc[p] \notin {"saving", "closing"}
          /\ UNCHANGED <<pc, begun, tmp, file>>
      BY <2>3 DEF Change, Loaded
    <3>3. \A q \in Proc : mem'[q] = IF q = p THEN mem[p] \cup {u} ELSE mem[q]
      BY <3>1
    <3> QED
      BY <3>2, <3>3
  <2>4. CASE Begin(p)
    BY <2>4 DEF Begin, Loaded
  <2>5. CASE Rollback(p)
    BY <2>5 DEF Rollback, Loaded
  <2>6. CASE BeginSave(p) \/ BeginClose(p)
    <3>1. \A q \in Proc : pc[q] \in {"saving", "closing"} => q = p
      BY <2>6, OneView DEF BeginSave, BeginClose, Loaded
    <3> QED
      BY <2>6, <3>1 DEF BeginSave, BeginClose
  <2>7. CASE EndSave(p) \/ EndClose(p)
    <3>1. file' = mem[p] /\ mem[p] # Closed
      BY <2>7, SaveKeepsFile
    <3>2. \A q \in Proc : q # p => mem[q] = Closed /\ pc[q] \notin Loaded /\ begun[q] = Closed
      BY <3>1, OneView DEF Loaded
    <3>3. begun[p] = Closed
      BY <2>7 DEF EndSave, EndClose
    <3> QED
      BY <2>7, <3>1, <3>2, <3>3 DEF EndSave, EndClose, Loaded
  <2>8. CASE SaveThrows(p)
    BY <2>8 DEF SaveThrows
  <2> QED
    BY <1>4, <2>1, <2>2, <2>3, <2>4, <2>5, <2>6, <2>7, <2>8 DEF SessionStep
<1>5. ASSUME NEW p \in Proc, Exit(p) \/ Crash(p) PROVE ViewInv'
  BY <1>5 DEF Exit, Crash
<1> QED
  BY <1>1, <1>2, <1>3, <1>4, <1>5 DEF Next

\* Every variable keeps its type, stalls and unreadable files included.
THEOREM TypeCorrect == Spec => []TypeOK
<1>1. Init => TypeOK
  BY InitInv DEF Inv
<1>2. TypeOK /\ [Next]_vars => TypeOK'
  BY TypeStep
<1> QED
  BY <1>1, <1>2, PTL DEF Spec

\* The invariant the theorems below rest on.
LEMMA Invariance == Spec => []Inv
<1>1. Inv /\ [Next]_vars => Inv'
  BY TypeStep, StallsGrow, LockInvStep, ViewInvStep DEF Inv, Serialized
<1> QED
  BY <1>1, InitInv, PTL DEF Spec

\* Only one process at a time is in a session of the database, as long as
\* none has blocked longer than the stale time of the lock.
THEOREM Exclusive == Spec => []OneSessionAtATime
<1>1. Inv => OneSessionAtATime
  BY OneSession DEF Inv, Serialized, OneSessionAtATime
<1> QED
  BY <1>1, Invariance, PTL

\* Every change but that of a save or a close leaves the file alone.
LEMMA OnlySavesWrite ==
  ASSUME [Next]_vars, \A p \in Proc : ~EndSave(p) /\ ~EndClose(p)
  PROVE  UNCHANGED file
  BY DEF vars, Next, LockStep, SessionStep, Acquire, GoesStale, Refresh, NoticeCompromised,
     Release, Load, LoadThrows, Change, Begin, Rollback, BeginSave, SaveThrows,
     BeginClose, CloseThrows, Exit, Crash

\* Writing the whole file back never loses a change that was saved before,
\* as long as no session has blocked longer than the stale time.
THEOREM NothingSavedIsLost == Spec => SavedChangesStay
<1>1. Inv /\ [Next]_vars => [stalls' = 0 => file \subseteq file']_vars
  <2> SUFFICES ASSUME Inv, [Next]_vars, stalls' = 0 PROVE file \subseteq file'
    OBVIOUS
  <2>1. CASE \E p \in Proc : EndSave(p) \/ EndClose(p)
    BY <2>1, SaveKeepsFile, StallsGrow DEF Inv, Serialized
  <2>2. CASE \A p \in Proc : ~EndSave(p) /\ ~EndClose(p)
    BY <2>2, OnlySavesWrite
  <2> QED
    BY <2>1, <2>2
<1> QED
  BY <1>1, Invariance, PTL DEF Spec, SavedChangesStay
-----------------------------------------------------------------------------
(* The refinement. *)

\* Every step of a process is a step of the serial store, or changes none
\* of what the store and the sessions hold.
LEMMA SerialStep ==
  ASSUME TypeOK, Serialized, [Next]_vars
  PROVE  Serial!Serial \/ UNCHANGED <<file, mem>>
<1> USE HiveDbAssumption DEF Goto, Forget, Serialized
<1>1. ASSUME NEW p \in Proc, Load(p) PROVE Serial!Open(p)
  <2>1. \A q \in Proc : mem[q] = Closed
    BY <1>1, OneSession DEF Load, TypeOK, Loaded, InSession
  <2> QED
    BY <1>1, <2>1 DEF Load, Serial!Open
<1>2. ASSUME NEW p \in Proc, Change(p) \/ Rollback(p) PROVE Serial!Work(p)
  <2>1. PICK v \in Db : mem' = [mem EXCEPT ![p] = v] /\ file \subseteq v
    <3>1. CASE Change(p)
      <4>1. PICK u \in Update : mem' = [mem EXCEPT ![p] = @ \cup {u}]
        BY <3>1 DEF Change
      <4>2. mem[p] \in Db /\ file \subseteq mem[p]
        BY <3>1 DEF Change, TypeOK, ViewInv, Loaded
      <4>3. mem[p] \cup {u} \in Db /\ file \subseteq mem[p] \cup {u}
        BY <4>2 DEF Db
      <4> QED
        BY <4>1, <4>3
    <3>2. CASE Rollback(p)
      BY <3>2 DEF Rollback, TypeOK, ViewInv
    <3> QED
      BY <1>2, <3>1, <3>2
  <2>2. mem[p] # Closed /\ UNCHANGED file
    BY <1>2 DEF Change, Rollback, TypeOK, Loaded
  <2> QED
    BY <2>1, <2>2 DEF Serial!Work, Db
<1>3. ASSUME NEW p \in Proc, EndSave(p) PROVE Serial!Write(p)
  BY <1>3, SaveKeepsFile DEF EndSave, Serial!Write
<1>4. ASSUME NEW p \in Proc, EndClose(p) PROVE Serial!WriteAndClose(p)
  BY <1>4, SaveKeepsFile DEF EndClose, Serial!WriteAndClose
<1>5. ASSUME NEW p \in Proc, LoadThrows(p) \/ CloseThrows(p) \/ Exit(p) \/ Crash(p)
      PROVE  Serial!Close(p) \/ UNCHANGED <<file, mem>>
  BY <1>5 DEF LoadThrows, CloseThrows, Throw, Exit, Crash, Serial!Close, TypeOK
<1>6. ASSUME NEW p \in Proc,
             LockStep(p) \/ Begin(p) \/ BeginSave(p) \/ SaveThrows(p) \/ BeginClose(p)
      PROVE  UNCHANGED <<file, mem>>
  BY <1>6 DEF LockStep, Acquire, Refresh, NoticeCompromised, Release,
              Begin, BeginSave, SaveThrows, BeginClose
<1>7. CASE GoesStale \/ UNCHANGED vars
  BY <1>7 DEF GoesStale, vars
<1> QED
  BY <1>1, <1>2, <1>3, <1>4, <1>5, <1>6, <1>7
  DEF Next, SessionStep, Serial!Serial

\* From the first stall on the serial store promises nothing.
LEMMA StepRefines == Inv /\ [Next]_vars => [Serial!Next]_(Serial!svars)
<1> SUFFICES ASSUME Inv, [Next]_vars PROVE [Serial!Next]_(Serial!svars)
  OBVIOUS
<1>1. CASE stalls' = 0
  <2>1. stalls = 0
    BY <1>1, StallsGrow DEF Inv
  <2>2. Serial!Serial \/ UNCHANGED <<file, mem>>
    BY <2>1, SerialStep DEF Inv
  <2>3. UNCHANGED (stalls # 0)
    BY <1>1, <2>1
  <2> QED
    BY <2>2, <2>3 DEF Serial!Next, Serial!svars
<1>2. CASE stalls' # 0
  BY <1>2 DEF Serial!Next
<1> QED
  BY <1>1, <1>2

\* Lock, load, save, rename and release implement the serial store: its
\* sessions follow one another on the file.
THEOREM ImplementsSerialStore == Spec => SessionsAreSerial
<1>1. Init => Serial!Init
  BY DEF Init, Serial!Init
<1>2. Inv /\ [Next]_vars => [Serial!Next]_(Serial!svars)
  BY StepRefines
<1> QED
  BY <1>1, <1>2, Invariance, PTL DEF Spec, Serial!Spec, SessionsAreSerial
-----------------------------------------------------------------------------
(***************************************************************************)
(* Upgrades.  Whichever hives have migrated a database, and in whatever    *)
(* order: a table has the columns that the migrations recorded as applied  *)
(* bring to it, and no others.  A recorded migration is therefore never    *)
(* needed again, 015 finds no markdown_path before it is recorded, and 013 *)
(* finds every column it copies.                                           *)
(***************************************************************************)
\* The migrations of a hive with that many.
Upto(version) == {MIGRATIONS[i] : i \in 1 .. version}

Listed(columns) == {columns[i] : i \in DOMAIN columns}

IsTable(t) == t \in Seq({t[i] : i \in DOMAIN t})

\* The columns a migration brings to the table.
AgentsBrought(m) ==
  IF m \in {"013-feature-testing-support", "014-auditor-agent-type"}
  THEN Listed(AgentsOf013) ELSE Columns(UpAgents(m, <<>>))

RequirementsBrought(m) ==
  IF m = "013-feature-testing-support"
  THEN Listed(RequirementsOf013) ELSE Columns(UpRequirements(m, <<>>))

StoriesBrought(m) == Columns(UpStories(m, <<>>))

\* A database as its record of migrations tells, every value in its column.
Sound(d) ==
  /\ d = [applied |-> d.applied, agents |-> d.agents,
          requirements |-> d.requirements, stories |-> d.stories]
  /\ "001-initial" \in d.applied \/ d = EmptyDatabase
  /\ IsTable(d.agents) /\ IsTable(d.requirements) /\ IsTable(d.stories)
  /\ \A c : c \in Columns(d.agents) <=> \E m \in d.applied : c \in AgentsBrought(m)
  /\ \A c : c \in Columns(d.requirements) <=> \E m \in d.applied : c \in RequirementsBrought(m)
  /\ \A c : c \in Columns(d.stories) <=> \E m \in d.applied : c \in StoriesBrought(m)
  /\ KeepsValues(d)

\* A function on 1 .. n is a table.
LEMMA TableOfLength ==
  ASSUME NEW n \in Nat, NEW s, s = [i \in 1 .. n |-> s[i]]
  PROVE  IsTable(s)
<1>1. s \in [1 .. n -> {s[i] : i \in DOMAIN s}]
  OBVIOUS
<1> QED
  BY <1>1 DEF IsTable

\* CREATE TABLE: the columns as listed, nothing in another's place.
LEMMA CreatedTable ==
  ASSUME NEW n \in Nat, NEW columns, DOMAIN columns = 1 .. n
  PROVE  /\ IsTable(Created(columns)) /\ IsInPlace(Created(columns))
         /\ Columns(Created(columns)) = Listed(columns)
<1>1. DOMAIN Created(columns) = DOMAIN columns
  BY DEF Created
<1>2. \A i \in DOMAIN columns : Created(columns)[i] = [column |-> columns[i], holds |-> columns[i]]
  BY DEF Created
<1>3. IsTable(Created(columns))
  BY TableOfLength DEF Created
<1> QED
  BY <1>1, <1>2, <1>3 DEF IsInPlace, Columns, Listed

\* A table that is not there yet.
LEMMA EmptyTable ==
  IsTable(<<>>) /\ IsInPlace(<<>>) /\ Columns(<<>>) = {}
  BY DEF IsTable, IsInPlace, Columns

\* One column more, or the same table.
LEMMA WithColumnTable ==
  ASSUME NEW t, IsTable(t), NEW c
  PROVE  /\ IsTable(WithColumn(t, c))
         /\ Columns(WithColumn(t, c)) = Columns(t) \cup {c}
         /\ IsInPlace(t) => IsInPlace(WithColumn(t, c))
<1>1. CASE c \in Columns(t)
  BY <1>1 DEF WithColumn
<1>2. CASE c \notin Columns(t)
  <2> DEFINE cell == [column |-> c, holds |-> c]
             S == {t[i] : i \in DOMAIN t}
             n == Len(t)
             s == WithColumn(t, c)
  <2>1. t \in Seq(S \cup {cell}) /\ DOMAIN t = 1 .. n /\ n \in Nat
    BY DEF IsTable
  <2>2. Created(<<c>>) = <<cell>>
    BY DEF Created
  <2>3. s = t \o <<cell>>
    BY <1>2, <2>2 DEF WithColumn
  <2>4. s \in Seq(S \cup {cell}) /\ Len(s) = n + 1
    BY <2>1, <2>3
  <2>5. DOMAIN s = 1 .. n + 1 /\ s = [i \in 1 .. n + 1 |-> s[i]]
    BY <2>1, <2>4
  <2>6. s[n + 1] = cell /\ \A i \in 1 .. n : s[i] = t[i]
    BY <2>1, <2>3
  <2>7. cell.column = c /\ cell.holds = c
    OBVIOUS
  <2>8. n \in Nat /\ DOMAIN t = 1 .. n
    BY <2>1
  <2>9. \A i : i \in 1 .. n + 1 <=> i \in 1 .. n \/ i = n + 1
    BY <2>8
  <2> HIDE DEF s, n, cell
  <2>10. IsTable(s)
    BY <2>5, <2>8, TableOfLength
  <2>11. Columns(s) = Columns(t) \cup {c}
    BY <2>5, <2>6, <2>7, <2>8, <2>9 DEF Columns
  <2>12. IsInPlace(t) => IsInPlace(s)
    BY <2>5, <2>6, <2>7, <2>8, <2>9 DEF IsInPlace
  <2> QED
    BY <2>10, <2>11, <2>12 DEF s
<1> QED
  BY <1>1, <1>2

\* f is what WithColumns defines, for the first n columns.
IsAdded(f, t, columns, n) ==
  f = [i \in 0 .. n |-> IF i = 0 THEN t ELSE WithColumn(f[i - 1], columns[i])]

LEMMA AddedExists ==
  ASSUME NEW t, NEW columns, NEW bound \in Nat
  PROVE  \E f : IsAdded(f, t, columns, bound)
<1> DEFINE T == {n \in Nat : ~\E f : IsAdded(f, t, columns, n)}
<1> SUFFICES ASSUME T # {} PROVE FALSE
  OBVIOUS
<1>1. PICK n \in T : \A k \in T : ~(<<k, n>> \in OpToRel(<, Nat))
  <2>1. T \subseteq Nat
    OBVIOUS
  <2> HIDE DEF T
  <2> QED
    BY <2>1, WFMin, NatLessThanWellFounded
<1>2. \A k \in T : ~(k < n)
  BY <1>1 DEF OpToRel
<1>3. CASE n = 0
  <2> DEFINE f == [i \in 0 .. 0 |-> t]
  <2>1. f = [i \in 0 .. 0 |-> IF i = 0 THEN t ELSE WithColumn(f[i - 1], columns[i])]
    OBVIOUS
  <2> QED
    BY <1>3, <2>1 DEF IsAdded
<1>4. CASE n # 0
  <2>1. n - 1 \in Nat /\ n - 1 \notin T
    BY <1>2, <1>4
  <2>2. PICK f : IsAdded(f, t, columns, n - 1)
    BY <2>1
  <2>3. \A i \in 0 .. n - 1 : f[i] = IF i = 0 THEN t ELSE WithColumn(f[i - 1], columns[i])
    BY <2>2 DEF IsAdded
  <2> DEFINE g == [i \in 0 .. n |-> IF i = n THEN WithColumn(f[n - 1], columns[n]) ELSE f[i]]
             h == [i \in 0 .. n |-> IF i = 0 THEN t ELSE WithColumn(g[i - 1], columns[i])]
  <2>4. \A i \in 0 .. n : g[i] = IF i = n THEN WithColumn(f[n - 1], columns[n]) ELSE f[i]
    OBVIOUS
  <2>5. \A i \in 0 .. n : h[i] = IF i = 0 THEN t ELSE WithColumn(g[i - 1], columns[i])
    OBVIOUS
  <2>6. ASSUME NEW i \in 0 .. n PROVE g[i] = h[i]
    <3>1. CASE i = 0
      BY <1>4, <2>3, <2>4, <2>5, <3>1
    <3>2. CASE i # 0
      <4>1. i - 1 \in 0 .. n /\ i - 1 # n /\ (i # n => i \in 0 .. n - 1)
        BY <3>2
      <4> HIDE DEF g, h
      <4>2. g[i - 1] = f[i - 1]
        BY <2>4, <4>1
      <4> QED
        BY <2>3, <2>4, <2>5, <3>2, <4>1, <4>2
    <3> QED
      BY <3>1, <3>2
  <2>7. g = h
    BY <2>6
  <2>8. IsAdded(g, t, columns, n)
    <3> HIDE DEF g
    <3> QED
      BY <2>7 DEF IsAdded
  <2> QED
    BY <2>8
<1> QED
  BY <1>3, <1>4

\* Several columns, each where it is missing.
LEMMA WithColumnsTable ==
  ASSUME NEW t, IsTable(t), NEW columns, Len(columns) \in Nat, DOMAIN columns = 1 .. Len(columns)
  PROVE  /\ IsTable(WithColumns(t, columns))
         /\ Columns(WithColumns(t, columns)) = Columns(t) \cup Listed(columns)
         /\ IsInPlace(t) => IsInPlace(WithColumns(t, columns))
<1> DEFINE n == Len(columns)
           added == CHOOSE f : IsAdded(f, t, columns, n)
           Added(i) == /\ IsTable(added[i])
                       /\ Columns(added[i]) = Columns(t) \cup {columns[j] : j \in 1 .. i}
                       /\ IsInPlace(t) => IsInPlace(added[i])
           T == {i \in 0 .. n : ~Added(i)}
<1>1. n \in Nat /\ DOMAIN columns = 1 .. n
  OBVIOUS
<1>2. IsAdded(added, t, columns, n)
  BY <1>1, AddedExists
<1>3. WithColumns(t, columns) = added[n]
  BY DEF WithColumns, IsAdded
<1> HIDE DEF added, n
<1>4. \A i \in 0 .. n : added[i] = IF i = 0 THEN t ELSE WithColumn(added[i - 1], columns[i])
  BY <1>2 DEF IsAdded
<1>5. Added(0)
  BY <1>1, <1>4
<1>6. ASSUME NEW i \in 1 .. n, Added(i - 1) PROVE Added(i)
  <2>1. added[i] = WithColumn(added[i - 1], columns[i])
    BY <1>1, <1>4
  <2>2. /\ IsTable(added[i])
        /\ Columns(added[i]) = Columns(added[i - 1]) \cup {columns[i]}
        /\ IsInPlace(added[i - 1]) => IsInPlace(added[i])
    BY <1>6, <2>1, WithColumnTable
  <2>3. \A j : j \in 1 .. i <=> j \in 1 .. i - 1 \/ j = i
    OBVIOUS
  <2>4. {columns[j] : j \in 1 .. i} = {columns[j] : j \in 1 .. i - 1} \cup {columns[i]}
    BY <2>3
  <2> QED
    BY <1>6, <2>2, <2>4
<1>7. T = {}
  <2> SUFFICES ASSUME T # {} PROVE FALSE
    OBVIOUS
  <2>1. T \subseteq Nat
    BY <1>1
  <2>2. PICK i \in T : \A k \in T : ~(<<k, i>> \in OpToRel(<, Nat))
    <3> HIDE DEF T
    <3> QED
      BY <2>1, WFMin, NatLessThanWellFounded
  <2>3. i \in 0 .. n /\ ~Added(i)
    OBVIOUS
  <2>4. \A k \in T : ~(k < i)
    <3> HIDE DEF T
    <3> QED
      BY <2>1, <2>2 DEF OpToRel
  <2> HIDE DEF Added
  <2>5. i # 0
    BY <1>5, <2>3
  <2>6. i \in 1 .. n /\ i - 1 \in 0 .. n /\ i - 1 < i
    BY <1>1, <2>3, <2>5
  <2>7. Added(i - 1)
    BY <2>4, <2>6
  <2> QED
    BY <1>6, <2>3, <2>6, <2>7
<1>8. Added(n)
  <2> HIDE DEF Added
  <2> QED
    BY <1>1, <1>7
<1> QED
  BY <1>1, <1>3, <1>8 DEF Listed

\* A migration of the agents keeps the columns there are and brings its own:
\* when 013 and 014 recreate the table, they list every column it can have.
LEMMA AgentsTable ==
  ASSUME NEW m, m # "001-initial", NEW t, IsTable(t), Columns(t) \subseteq Listed(AgentsOf013)
  PROVE  /\ IsTable(UpAgents(m, t))
         /\ Columns(UpAgents(m, t)) = Columns(t) \cup AgentsBrought(m)
<1>1. CASE m \in {"013-feature-testing-support", "014-auditor-agent-type"}
  <2> DEFINE s == CopiedByPosition(t, AgentsOf013)
             new == AgentsOf013
  <2>1. DOMAIN new = 1 .. 12
    BY DEF AgentsOf013
  <2>2. UpAgents(m, t) = s
    BY <1>1 DEF UpAgents
  <2> HIDE DEF new
  <2>3. s = [i \in 1 .. 12 |-> [column |-> new[i], holds |-> t[i].holds]]
    BY <2>1 DEF CopiedByPosition, new
  <2> HIDE DEF s
  <2>4. DOMAIN s = 1 .. 12 /\ \A i \in 1 .. 12 : s[i].column = new[i]
    BY <2>3
  <2>5. IsTable(s)
    BY <2>3, TableOfLength
  <2>6. Columns(s) = Listed(new)
    BY <2>1, <2>4 DEF Columns, Listed
  <2> QED
    BY <1>1, <2>2, <2>5, <2>6 DEF AgentsBrought, new
<1>2. CASE m \notin {"013-feature-testing-support", "014-auditor-agent-type"}
  <2>1. ASSUME NEW c, \A u : UpAgents(m, u) = WithColumn(u, c)
        PROVE  /\ IsTable(UpAgents(m, t))
               /\ Columns(UpAgents(m, t)) = Columns(t) \cup AgentsBrought(m)
    <3> DEFINE none == <<>>
    <3>1. UpAgents(m, t) = WithColumn(t, c) /\ UpAgents(m, none) = WithColumn(none, c)
      BY <2>1
    <3>2. IsTable(none) /\ Columns(none) = {}
      BY EmptyTable
    <3>3. AgentsBrought(m) = Columns(UpAgents(m, none))
      BY <1>2 DEF AgentsBrought
    <3> HIDE DEF none
    <3>4. Columns(WithColumn(none, c)) = {c}
      BY <3>2, WithColumnTable
    <3> QED
      BY <3>1, <3>3, <3>4, WithColumnTable
  <2>2. CASE m = "002-add-agent-model"
    BY <2>1, <2>2 DEF UpAgents
  <2>3. CASE m = "005-add-agent-last-seen"
    BY <2>1, <2>3 DEF UpAgents
  <2>4. CASE m = "006-add-agent-worktree"
    BY <2>1, <2>4 DEF UpAgents
  <2>5. CASE m \notin {"002-add-agent-model", "005-add-agent-last-seen", "006-add-agent-worktree"}
    BY <1>2, <2>5, EmptyTable DEF UpAgents, AgentsBrought
  <2> QED
    BY <2>2, <2>3, <2>4, <2>5
<1> QED
  BY <1>1, <1>2

\* No migration brings a column to the agents that 013 and 014 do not list.
LEMMA AgentsAreOf013 ==
  ASSUME NEW m PROVE AgentsBrought(m) \subseteq Listed(AgentsOf013)
<1> DEFINE none == <<>>
<1>1. IsTable(none) /\ Columns(none) = {}
  BY EmptyTable
<1>2. CASE m \in {"013-feature-testing-support", "014-auditor-agent-type"}
  BY <1>2 DEF AgentsBrought
<1>3. CASE m = "001-initial"
  <2>1. AgentsBrought(m) = Columns(Created(AgentsOfInitial))
    BY <1>3 DEF AgentsBrought, UpAgents
  <2>2. DOMAIN AgentsOfInitial = 1 .. 10
    BY DEF AgentsOfInitial
  <2> HIDE DEF none
  <2>3. Columns(Created(AgentsOfInitial)) = Listed(AgentsOfInitial)
    BY <2>2, CreatedTable
  <2>4. DOMAIN AgentsOfInitial = 1 .. 10 /\ DOMAIN AgentsOf013 = 1 .. 12
    BY DEF AgentsOfInitial, AgentsOf013
  <2>5. /\ \A i \in 1 .. 8 : AgentsOfInitial[i] = AgentsOf013[i]
        /\ \A i \in 9 .. 10 : AgentsOfInitial[i] = AgentsOf013[i + 2]
    BY DEF AgentsOfInitial, AgentsOf013
  <2>6. \A i \in 1 .. 10 : \E j \in 1 .. 12 : AgentsOfInitial[i] = AgentsOf013[j]
    <3> TAKE i \in 1 .. 10
    <3>1. CASE i \in 1 .. 8
      BY <2>5, <3>1
    <3>2. CASE i \in 9 .. 10
      <4>1. i + 2 \in 1 .. 12
        BY <3>2
      <4> QED
        BY <2>5, <3>2, <4>1
    <3> QED
      BY <3>1, <3>2
  <2> QED
    BY <2>1, <2>3, <2>4, <2>6 DEF Listed
<1>4. CASE m \in {"002-add-agent-model", "005-add-agent-last-seen", "006-add-agent-worktree"}
  <2>1. {"model", "last_seen", "worktree_path"} \subseteq Listed(AgentsOf013)
    <3>1. /\ AgentsOf013[5] = "model" /\ AgentsOf013[9] = "last_seen"
          /\ AgentsOf013[10] = "worktree_path" /\ DOMAIN AgentsOf013 = 1 .. 12
      BY DEF AgentsOf013
    <3> QED
      BY <3>1 DEF Listed
  <2>2. PICK c \in {"model", "last_seen", "worktree_path"} :
          AgentsBrought(m) = Columns(WithColumn(none, c))
    BY <1>4 DEF AgentsBrought, UpAgents
  <2> HIDE DEF none
  <2>3. Columns(WithColumn(none, c)) = {c}
    BY <1>1, WithColumnTable
  <2> QED
    BY <2>1, <2>2, <2>3
<1>5. CASE m \notin {"001-initial", "002-add-agent-model", "005-add-agent-last-seen",
                     "006-add-agent-worktree", "013-feature-testing-support",
                     "014-auditor-agent-type"}
  BY <1>1, <1>5 DEF AgentsBrought, UpAgents
<1> QED
  BY <1>2, <1>3, <1>4, <1>5

\* What each migration brings to the requirements, all of it listed by 013.
LEMMA RequirementsBroughtAre ==
  /\ Listed(RequirementsOf013) =
       {"id", "title", "description", "submitted_by", "status", "godmode", "target_branch",
        "feature_branch", "jira_epic_key", "jira_epic_id", "external_epic_key",
        "external_epic_id", "external_provider", "created_at"}
  /\ RequirementsBrought("001-initial") =
       {"id", "title", "description", "submitted_by", "status", "created_at"}
  /\ RequirementsBrought("008-add-godmode") = {"godmode"}
  /\ RequirementsBrought("010-add-target-branch") = {"target_branch"}
  /\ RequirementsBrought("006-integrations") = {"jira_epic_key", "jira_epic_id"}
  /\ RequirementsBrought("011-generic-integration-fields") =
       {"external_epic_key", "external_epic_id", "external_provider"}
  /\ RequirementsBrought("013-feature-testing-support") = Listed(RequirementsOf013)
  /\ \A m : m \notin {"001-initial", "008-add-godmode", "010-add-target-branch",
                      "006-integrations", "011-generic-integration-fields",
                      "013-feature-testing-support"} => RequirementsBrought(m) = {}
<1> DEFINE none == <<>>
<1>1. IsTable(none) /\ Columns(none) = {}
  BY EmptyTable
<1>2. Listed(RequirementsOf013) =
       {"id", "title", "description", "submitted_by", "status", "godmode", "target_branch",
        "feature_branch", "jira_epic_key", "jira_epic_id", "external_epic_key",
        "external_epic_id", "external_provider", "created_at"}
  BY DEF Listed, RequirementsOf013
<1>3. RequirementsBrought("001-initial") =
       {"id", "title", "description", "submitted_by", "status", "created_at"}
  <2>1. DOMAIN RequirementsOfInitial = 1 .. 6
    BY DEF RequirementsOfInitial
  <2>2. RequirementsBrought("001-initial") = Columns(Created(RequirementsOfInitial))
    BY DEF RequirementsBrought, UpRequirements
  <2> HIDE DEF none
  <2>3. Columns(Created(RequirementsOfInitial)) = Listed(RequirementsOfInitial)
    BY <2>1, CreatedTable
  <2>4. Listed(RequirementsOfInitial) =
          {"id", "title", "description", "submitted_by", "status", "created_at"}
    BY DEF Listed, RequirementsOfInitial
  <2> QED
    BY <2>2, <2>3, <2>4
<1>4. /\ RequirementsBrought("008-add-godmode") = Columns(WithColumn(none, "godmode"))
      /\ RequirementsBrought("010-add-target-branch") = Columns(WithColumn(none, "target_branch"))
  BY DEF RequirementsBrought, UpRequirements
<1>5. /\ RequirementsBrought("006-integrations") =
           Columns(WithColumns(none, <<"jira_epic_key", "jira_epic_id">>))
      /\ RequirementsBrought("011-generic-integration-fields") =
           Columns(WithColumns(none, <<"external_epic_key", "external_epic_id", "external_provider">>))
  BY DEF RequirementsBrought, UpRequirements
<1>6. /\ DOMAIN <<"jira_epic_key", "jira_epic_id">> = 1 .. 2
      /\ Len(<<"jira_epic_key", "jira_epic_id">>) = 2
      /\ DOMAIN <<"external_epic_key", "external_epic_id", "external_provider">> = 1 .. 3
      /\ Len(<<"external_epic_key", "external_epic_id", "external_provider">>) = 3
  OBVIOUS
<1>7. /\ Listed(<<"jira_epic_key", "jira_epic_id">>) = {"jira_epic_key", "jira_epic_id"}
      /\ Listed(<<"external_epic_key", "external_epic_id", "external_provider">>) =
           {"external_epic_key", "external_epic_id", "external_provider"}
  BY DEF Listed
<1>8. RequirementsBrought("013-feature-testing-support") = Listed(RequirementsOf013)
  BY DEF RequirementsBrought
<1>9. ASSUME NEW m,
             m \notin {"001-initial", "008-add-godmode", "010-add-target-branch",
                      "006-integrations", "011-generic-integration-fields",
                      "013-feature-testing-support"}
      PROVE  RequirementsBrought(m) = {}
  BY <1>1, <1>9 DEF RequirementsBrought, UpRequirements
<1> HIDE DEF none
<1>10. /\ Columns(WithColumn(none, "godmode")) = {"godmode"}
       /\ Columns(WithColumn(none, "target_branch")) = {"target_branch"}
  BY <1>1, WithColumnTable
<1>11. Columns(WithColumns(none, <<"jira_epic_key", "jira_epic_id">>)) =
         {"jira_epic_key", "jira_epic_id"}
  BY <1>1, <1>6, <1>7, WithColumnsTable
<1>12. Columns(WithColumns(none, <<"external_epic_key", "external_epic_id", "external_provider">>)) =
         {"external_epic_key", "external_epic_id", "external_provider"}
  BY <1>1, <1>6, <1>7, WithColumnsTable
<1> QED
  BY <1>2, <1>3, <1>4, <1>5, <1>8, <1>9, <1>10, <1>11, <1>12

\* A migration of the requirements keeps the columns and what they hold: 013
\* copies by name, and finds every name it lists.
LEMMA RequirementsTable ==
  ASSUME NEW m, m # "001-initial", NEW t, IsTable(t), IsInPlace(t),
         m = "013-feature-testing-support" =>
           Listed(RequirementsOf013) = Columns(t) \cup {"feature_branch"}
  PROVE  /\ IsTable(UpRequirements(m, t)) /\ IsInPlace(UpRequirements(m, t))
         /\ Columns(UpRequirements(m, t)) = Columns(t) \cup RequirementsBrought(m)
<1> DEFINE Kept == /\ IsTable(UpRequirements(m, t)) /\ IsInPlace(UpRequirements(m, t))
                    /\ Columns(UpRequirements(m, t)) = Columns(t) \cup RequirementsBrought(m)
<1>1. CASE m = "013-feature-testing-support"
  <2> DEFINE u == WithColumn(t, "feature_branch")
             s == CopiedByName(u, RequirementsOf013)
             new == RequirementsOf013
             At(i) == CHOOSE j \in DOMAIN u : u[j].column = new[i]
  <2>1. DOMAIN new = 1 .. 14
    BY DEF RequirementsOf013
  <2>2. Columns(u) = Listed(new) /\ IsInPlace(u)
    BY <1>1, WithColumnTable
  <2>3. UpRequirements(m, t) = s
    BY <1>1 DEF UpRequirements
  <2> HIDE DEF u, new
  <2>4. s = [i \in 1 .. 14 |-> [column |-> new[i], holds |-> u[At(i)].holds]]
    BY <2>1 DEF CopiedByName, new
  <2>5. ASSUME NEW i \in 1 .. 14 PROVE u[At(i)].holds = new[i]
    <3>1. new[i] \in Columns(u)
      BY <2>1, <2>2 DEF Listed
    <3>2. \E j \in DOMAIN u : u[j].column = new[i]
      BY <3>1 DEF Columns
    <3>3. At(i) \in DOMAIN u /\ u[At(i)].column = new[i]
      BY <3>2
    <3> QED
      BY <2>2, <3>3 DEF IsInPlace
  <2> HIDE DEF s, At
  <2>6. DOMAIN s = 1 .. 14 /\ \A i \in 1 .. 14 : s[i].column = new[i] /\ s[i].holds = new[i]
    BY <2>4, <2>5
  <2>7. IsTable(s)
    BY <2>4, TableOfLength
  <2>8. IsInPlace(s)
    BY <2>6 DEF IsInPlace
  <2>9. Columns(s) = Listed(new)
    BY <2>1, <2>6 DEF Columns, Listed
  <2>10. RequirementsBrought(m) = Listed(new) /\ Columns(t) \subseteq Listed(new)
    BY <1>1, RequirementsBroughtAre DEF new
  <2> QED
    BY <2>3, <2>7, <2>8, <2>9, <2>10
<1>2. ASSUME NEW c, UpRequirements(m, t) = WithColumn(t, c), RequirementsBrought(m) = {c}
      PROVE  Kept
  BY <1>2, WithColumnTable
<1>3. ASSUME NEW columns, Len(columns) \in Nat, DOMAIN columns = 1 .. Len(columns),
             UpRequirements(m, t) = WithColumns(t, columns),
             RequirementsBrought(m) = Listed(columns)
      PROVE  Kept
  BY <1>3, WithColumnsTable
<1>4. CASE m = "008-add-godmode"
  BY <1>2, <1>4, RequirementsBroughtAre DEF UpRequirements
<1>5. CASE m = "010-add-target-branch"
  BY <1>2, <1>5, RequirementsBroughtAre DEF UpRequirements
<1>6. CASE m = "006-integrations"
  <2> DEFINE columns == <<"jira_epic_key", "jira_epic_id">>
  <2>1. Len(columns) = 2 /\ DOMAIN columns = 1 .. 2
        /\ Listed(columns) = {"jira_epic_key", "jira_epic_id"}
    BY DEF Listed
  <2>2. UpRequirements(m, t) = WithColumns(t, columns)
    BY <1>6 DEF UpRequirements
  <2> HIDE DEF columns
  <2>3. RequirementsBrought(m) = Listed(columns)
    BY <1>6, <2>1, RequirementsBroughtAre
  <2> QED
    BY <1>3, <2>1, <2>2, <2>3
<1>7. CASE m = "011-generic-integration-fields"
  <2> DEFINE columns == <<"external_epic_key", "external_epic_id", "external_provider">>
  <2>1. Len(columns) = 3 /\ DOMAIN columns = 1 .. 3
        /\ Listed(columns) = {"external_epic_key", "external_epic_id", "external_provider"}
    BY DEF Listed
  <2>2. UpRequirements(m, t) = WithColumns(t, columns)
    BY <1>7 DEF UpRequirements
  <2> HIDE DEF columns
  <2>3. RequirementsBrought(m) = Listed(columns)
    BY <1>7, <2>1, RequirementsBroughtAre
  <2> QED
    BY <1>3, <2>1, <2>2, <2>3
<1>8. CASE m \notin {"008-add-godmode", "010-add-target-branch", "006-integrations",
                     "011-generic-integration-fields", "013-feature-testing-support"}
  BY <1>8, RequirementsBroughtAre DEF UpRequirements
<1> QED
  BY <1>1, <1>4, <1>5, <1>6, <1>7, <1>8

\* A migration of the stories keeps the columns and what they hold.
LEMMA StoriesTable ==
  ASSUME NEW m, m # "001-initial", NEW t, IsTable(t), IsInPlace(t),
         m = "015-add-story-markdown-path" => "markdown_path" \notin Columns(t)
  PROVE  /\ IsTable(UpStories(m, t)) /\ IsInPlace(UpStories(m, t))
         /\ Columns(UpStories(m, t)) = Columns(t) \cup StoriesBrought(m)
<1> DEFINE none == <<>>
           Kept == /\ IsTable(UpStories(m, t)) /\ IsInPlace(UpStories(m, t))
                   /\ Columns(UpStories(m, t)) = Columns(t) \cup StoriesBrought(m)
<1>1. IsTable(none) /\ Columns(none) = {}
  BY EmptyTable
<1>2. StoriesBrought(m) = Columns(UpStories(m, none))
  BY DEF StoriesBrought
<1>3. CASE m \notin {"006-integrations", "011-generic-integration-fields", "012-sprint-tracking",
                     "015-add-story-markdown-path"}
  BY <1>1, <1>2, <1>3 DEF UpStories
<1> HIDE DEF none
<1>4. ASSUME NEW c, \A u : c \notin Columns(u) => UpStories(m, u) = WithColumn(u, c),
             UpStories(m, t) = WithColumn(t, c)
      PROVE  Kept
  <2>1. UpStories(m, none) = WithColumn(none, c)
    BY <1>1, <1>4
  <2>2. Columns(WithColumn(none, c)) = {c}
    BY <1>1, WithColumnTable
  <2> QED
    BY <1>2, <1>4, <2>1, <2>2, WithColumnTable
<1>5. ASSUME NEW columns, Len(columns) \in Nat, DOMAIN columns = 1 .. Len(columns),
             \A u : UpStories(m, u) = WithColumns(u, columns)
      PROVE  Kept
  <2>1. UpStories(m, none) = WithColumns(none, columns) /\ UpStories(m, t) = WithColumns(t, columns)
    BY <1>5
  <2>2. Columns(WithColumns(none, columns)) = Columns(none) \cup Listed(columns)
    BY <1>1, <1>5, WithColumnsTable
  <2>3. /\ IsTable(WithColumns(t, columns)) /\ IsInPlace(WithColumns(t, columns))
        /\ Columns(WithColumns(t, columns)) = Columns(t) \cup Listed(columns)
    BY <1>5, WithColumnsTable
  <2> QED
    BY <1>1, <1>2, <2>1, <2>2, <2>3
<1>6. CASE m = "006-integrations"
  <2> DEFINE columns == <<"jira_issue_key", "jira_issue_id", "jira_project_key",
                          "jira_subtask_key", "jira_subtask_id">>
  <2>1. Len(columns) = 5 /\ DOMAIN columns = 1 .. 5
    OBVIOUS
  <2>2. \A u : UpStories(m, u) = WithColumns(u, columns)
    BY <1>6 DEF UpStories
  <2> HIDE DEF columns
  <2> QED
    BY <1>5, <2>1, <2>2
<1>7. CASE m = "011-generic-integration-fields"
  <2> DEFINE columns == <<"external_issue_key", "external_issue_id", "external_project_key",
                          "external_subtask_key", "external_subtask_id", "external_provider">>
  <2>1. Len(columns) = 6 /\ DOMAIN columns = 1 .. 6
    OBVIOUS
  <2>2. \A u : UpStories(m, u) = WithColumns(u, columns)
    BY <1>7 DEF UpStories
  <2> HIDE DEF columns
  <2> QED
    BY <1>5, <2>1, <2>2
<1>8. CASE m = "012-sprint-tracking"
  <2> QED
    BY <1>4, <1>8 DEF UpStories
<1>9. CASE m = "015-add-story-markdown-path"
  <2>1. \A u : "markdown_path" \notin Columns(u) => UpStories(m, u) = WithColumn(u, "markdown_path")
    BY <1>9 DEF UpStories, WithColumn
  <2> QED
    BY <1>4, <1>9, <2>1
<1> QED
  BY <1>3, <1>6, <1>7, <1>8, <1>9

\* Only migration 015 brings markdown_path.
LEMMA MarkdownPathIsOf015 ==
  ASSUME NEW m, "markdown_path" \in StoriesBrought(m)
  PROVE  m = "015-add-story-markdown-path"
<1> SUFFICES ASSUME m # "015-add-story-markdown-path" PROVE FALSE
  OBVIOUS
<1> DEFINE none == <<>>
           issues == <<"jira_issue_key", "jira_issue_id", "jira_project_key",
                       "jira_subtask_key", "jira_subtask_id">>
           external == <<"external_issue_key", "external_issue_id", "external_project_key",
                         "external_subtask_key", "external_subtask_id", "external_provider">>
<1>1. IsTable(none) /\ Columns(none) = {}
  BY EmptyTable
<1>2. /\ Len(issues) = 5 /\ DOMAIN issues = 1 .. 5 /\ "markdown_path" \notin Listed(issues)
      /\ Len(external) = 6 /\ DOMAIN external = 1 .. 6 /\ "markdown_path" \notin Listed(external)
      /\ DOMAIN issues = 1 .. Len(issues) /\ DOMAIN external = 1 .. Len(external)
      /\ Len(issues) \in Nat /\ Len(external) \in Nat
  BY DEF Listed
<1>3. DOMAIN StoriesOfInitial = 1 .. 3 /\ "markdown_path" \notin Listed(StoriesOfInitial)
  BY DEF StoriesOfInitial, Listed
<1>4. m = "001-initial" => StoriesBrought(m) = Columns(Created(StoriesOfInitial))
  BY DEF StoriesBrought, UpStories
<1>5. m = "006-integrations" => StoriesBrought(m) = Columns(WithColumns(none, issues))
  BY DEF StoriesBrought, UpStories
<1>6. m = "011-generic-integration-fields" => StoriesBrought(m) = Columns(WithColumns(none, external))
  BY DEF StoriesBrought, UpStories
<1>7. m = "012-sprint-tracking" => StoriesBrought(m) = Columns(WithColumn(none, "in_sprint"))
  BY DEF StoriesBrought, UpStories
<1>8. m \notin {"001-initial", "006-integrations", "011-generic-integration-fields",
                "012-sprint-tracking"} => StoriesBrought(m) = {}
  BY <1>1 DEF StoriesBrought, UpStories
<1> HIDE DEF none, issues, external
<1>9. Columns(Created(StoriesOfInitial)) = Listed(StoriesOfInitial)
  BY <1>3, CreatedTable
<1>10. Columns(WithColumns(none, issues)) = Columns(none) \cup Listed(issues)
  BY <1>1, <1>2, WithColumnsTable
<1>11. Columns(WithColumns(none, external)) = Columns(none) \cup Listed(external)
  BY <1>1, <1>2, WithColumnsTable
<1>12. Columns(WithColumn(none, "in_sprint")) = {"in_sprint"}
  BY <1>1, WithColumnTable
<1> QED
  BY <1>1, <1>2, <1>3, <1>4, <1>5, <1>6, <1>7, <1>8, <1>9, <1>10, <1>11, <1>12

-----------------------------------------------------------------------------
\* The order of the migrations, as far as one of them builds on another.
LEMMA MigrationsAre ==
  /\ Len(MIGRATIONS) = 18
  /\ MIGRATIONS[1] = "001-initial" /\ MIGRATIONS[8] = "008-add-godmode"
  /\ MIGRATIONS[10] = "010-add-target-branch" /\ MIGRATIONS[11] = "006-integrations"
  /\ MIGRATIONS[12] = "011-generic-integration-fields"
  /\ \A i \in 1 .. 18 : MIGRATIONS[i] = "001-initial" => i = 1
  /\ \A i, j \in 1 .. 18 : MIGRATIONS[i] = MIGRATIONS[j] => i = j
  /\ \A i \in 1 .. 18 : MIGRATIONS[i] = "013-feature-testing-support" => i = 14
  BY DEF MIGRATIONS

\* A new database.
LEMMA EmptyIsSound == Sound(EmptyDatabase)
  BY EmptyTable DEF Sound, EmptyDatabase, KeepsValues

\* One migration, with those it builds on behind it.
LEMMA ApplySound ==
  ASSUME NEW d, Sound(d), NEW m, m \notin d.applied,
         m # "001-initial" => "001-initial" \in d.applied,
         m = "013-feature-testing-support" =>
           {"001-initial", "008-add-godmode", "010-add-target-branch", "006-integrations",
            "011-generic-integration-fields"} \subseteq d.applied
  PROVE  Sound(Apply(d, m))
<1> DEFINE e == Apply(d, m)
<1>1. /\ e = [applied |-> e.applied, agents |-> e.agents, requirements |-> e.requirements,
              stories |-> e.stories]
      /\ e.applied = d.applied \cup {m} /\ e.agents = UpAgents(m, d.agents)
      /\ e.requirements = UpRequirements(m, d.requirements)
      /\ e.stories = UpStories(m, d.stories)
  BY DEF Apply
<1>2. /\ IsTable(d.agents) /\ IsTable(d.requirements) /\ IsTable(d.stories)
      /\ IsInPlace(d.requirements) /\ IsInPlace(d.stories)
      /\ \A c : c \in Columns(d.agents) <=> \E n \in d.applied : c \in AgentsBrought(n)
      /\ \A c : c \in Columns(d.requirements) <=> \E n \in d.applied : c \in RequirementsBrought(n)
      /\ \A c : c \in Columns(d.stories) <=> \E n \in d.applied : c \in StoriesBrought(n)
      /\ "001-initial" \notin d.applied => d = EmptyDatabase
  BY DEF Sound, KeepsValues
<1> HIDE DEF e
<1>3. SUFFICES /\ IsTable(e.agents) /\ IsTable(e.requirements) /\ IsTable(e.stories)
               /\ IsInPlace(e.requirements) /\ IsInPlace(e.stories)
               /\ Columns(e.agents) = Columns(d.agents) \cup AgentsBrought(m)
               /\ Columns(e.requirements) = Columns(d.requirements) \cup RequirementsBrought(m)
               /\ Columns(e.stories) = Columns(d.stories) \cup StoriesBrought(m)
  <2>1. "001-initial" \in e.applied
    BY <1>1
  <2>2. \A n : n \in e.applied <=> n \in d.applied \/ n = m
    BY <1>1
  <2>3. \A c : c \in Columns(e.agents) <=> \E n \in e.applied : c \in AgentsBrought(n)
    BY <1>2, <1>3, <2>2
  <2>4. \A c : c \in Columns(e.requirements) <=> \E n \in e.applied : c \in RequirementsBrought(n)
    BY <1>2, <1>3, <2>2
  <2>5. \A c : c \in Columns(e.stories) <=> \E n \in e.applied : c \in StoriesBrought(n)
    BY <1>2, <1>3, <2>2
  <2>6. Sound(e)
    BY <1>1, <1>3, <2>1, <2>3, <2>4, <2>5 DEF Sound, KeepsValues
  <2> QED
    BY <2>6 DEF e
<1>4. CASE m = "001-initial"
  <2>1. d = EmptyDatabase
    BY <1>2, <1>4
  <2>2. Columns(d.agents) = {} /\ Columns(d.requirements) = {} /\ Columns(d.stories) = {}
    BY <2>1, EmptyTable DEF EmptyDatabase
  <2>3. /\ e.agents = Created(AgentsOfInitial) /\ e.requirements = Created(RequirementsOfInitial)
        /\ e.stories = Created(StoriesOfInitial)
    BY <1>1, <1>4 DEF UpAgents, UpRequirements, UpStories
  <2>4. /\ DOMAIN AgentsOfInitial = 1 .. 10 /\ DOMAIN RequirementsOfInitial = 1 .. 6
        /\ DOMAIN StoriesOfInitial = 1 .. 3
    BY DEF AgentsOfInitial, RequirementsOfInitial, StoriesOfInitial
  <2>5. IsTable(e.agents)
    BY <2>3, <2>4, CreatedTable
  <2>6. IsTable(e.requirements) /\ IsInPlace(e.requirements)
    BY <2>3, <2>4, CreatedTable
  <2>7. IsTable(e.stories) /\ IsInPlace(e.stories)
    BY <2>3, <2>4, CreatedTable
  <2>8. /\ Columns(e.agents) = AgentsBrought(m)
        /\ Columns(e.requirements) = RequirementsBrought(m)
        /\ Columns(e.stories) = StoriesBrought(m)
    BY <1>4, <2>3 DEF AgentsBrought, RequirementsBrought, StoriesBrought,
                      UpAgents, UpRequirements, UpStories
  <2> QED
    BY <2>2, <2>5, <2>6, <2>7, <2>8
<1>5. CASE m # "001-initial"
  <2>1. "001-initial" \in d.applied
    BY <1>5
  <2>2. IsTable(e.agents) /\ Columns(e.agents) = Columns(d.agents) \cup AgentsBrought(m)
    <3>1. Columns(d.agents) \subseteq Listed(AgentsOf013)
      BY <1>2, AgentsAreOf013
    <3> QED
      BY <1>1, <1>2, <1>5, <3>1, AgentsTable
  <2>3. /\ IsTable(e.requirements) /\ IsInPlace(e.requirements)
        /\ Columns(e.requirements) = Columns(d.requirements) \cup RequirementsBrought(m)
    <3>1. ASSUME m = "013-feature-testing-support"
          PROVE  Listed(RequirementsOf013) = Columns(d.requirements) \cup {"feature_branch"}
      <4>1. /\ "001-initial" \in d.applied /\ "008-add-godmode" \in d.applied
            /\ "010-add-target-branch" \in d.applied /\ "006-integrations" \in d.applied
            /\ "011-generic-integration-fields" \in d.applied
        BY <3>1
      <4>2. /\ RequirementsBrought("001-initial") \subseteq Columns(d.requirements)
            /\ RequirementsBrought("008-add-godmode") \subseteq Columns(d.requirements)
            /\ RequirementsBrought("010-add-target-branch") \subseteq Columns(d.requirements)
            /\ RequirementsBrought("006-integrations") \subseteq Columns(d.requirements)
            /\ RequirementsBrought("011-generic-integration-fields") \subseteq Columns(d.requirements)
        BY <1>2, <4>1
      <4>3. Listed(RequirementsOf013) \subseteq Columns(d.requirements) \cup {"feature_branch"}
        BY <4>2, RequirementsBroughtAre
      <4>4. \A n : RequirementsBrought(n) \subseteq Listed(RequirementsOf013)
        BY RequirementsBroughtAre
      <4>5. "feature_branch" \in Listed(RequirementsOf013)
        BY RequirementsBroughtAre
      <4>6. Columns(d.requirements) \subseteq Listed(RequirementsOf013)
        BY <1>2, <4>4
      <4> QED
        BY <4>3, <4>5, <4>6
    <3> DEFINE t == d.requirements
    <3>2. IsTable(t) /\ IsInPlace(t) /\ e.requirements = UpRequirements(m, t)
      BY <1>1, <1>2
    <3> HIDE DEF t
    <3>3. /\ IsTable(UpRequirements(m, t)) /\ IsInPlace(UpRequirements(m, t))
          /\ Columns(UpRequirements(m, t)) = Columns(t) \cup RequirementsBrought(m)
      BY <1>5, <3>1, <3>2, RequirementsTable DEF t
    <3> QED
      BY <3>2, <3>3 DEF t
  <2>4. /\ IsTable(e.stories) /\ IsInPlace(e.stories)
        /\ Columns(e.stories) = Columns(d.stories) \cup StoriesBrought(m)
    <3>1. m = "015-add-story-markdown-path" => "markdown_path" \notin Columns(d.stories)
      BY <1>2, MarkdownPathIsOf015
    <3> DEFINE t == d.stories
    <3>2. IsTable(t) /\ IsInPlace(t) /\ e.stories = UpStories(m, t)
      BY <1>1, <1>2
    <3> HIDE DEF t
    <3>3. /\ IsTable(UpStories(m, t)) /\ IsInPlace(UpStories(m, t))
          /\ Columns(UpStories(m, t)) = Columns(t) \cup StoriesBrought(m)
      BY <1>5, <3>1, <3>2, StoriesTable DEF t
    <3> QED
      BY <3>2, <3>3 DEF t
  <2> QED
    BY <2>2, <2>3, <2>4
<1> QED
  BY <1>4, <1>5

\* One turn of the loop of runMigrations, and f all its turns up to the n-th.
Migrated(d, e, i) == IF MIGRATIONS[i] \in d.applied THEN e ELSE Apply(e, MIGRATIONS[i])

IsRun(f, d, n) == f = [i \in 0 .. n |-> IF i = 0 THEN d ELSE Migrated(d, f[i - 1], i)]

LEMMA RunExists ==
  ASSUME NEW d, NEW bound \in Nat
  PROVE  \E f : IsRun(f, d, bound)
<1> DEFINE T == {n \in Nat : ~\E f : IsRun(f, d, n)}
<1> SUFFICES ASSUME T # {} PROVE FALSE
  OBVIOUS
<1>1. PICK n \in T : \A k \in T : ~(<<k, n>> \in OpToRel(<, Nat))
  <2>1. T \subseteq Nat
    OBVIOUS
  <2> HIDE DEF T
  <2> QED
    BY <2>1, WFMin, NatLessThanWellFounded
<1>2. \A k \in T : ~(k < n)
  BY <1>1 DEF OpToRel
<1>3. CASE n = 0
  <2> DEFINE f == [i \in 0 .. 0 |-> d]
  <2>1. f = [i \in 0 .. 0 |-> IF i = 0 THEN d ELSE Migrated(d, f[i - 1], i)]
    OBVIOUS
  <2> QED
    BY <1>3, <2>1 DEF IsRun
<1>4. CASE n # 0
  <2>1. n - 1 \in Nat /\ n - 1 \notin T
    BY <1>2, <1>4
  <2>2. PICK f : IsRun(f, d, n - 1)
    BY <2>1
  <2>3. \A i \in 0 .. n - 1 : f[i] = IF i = 0 THEN d ELSE Migrated(d, f[i - 1], i)
    BY <2>2 DEF IsRun
  <2> DEFINE g == [i \in 0 .. n |-> IF i = n THEN Migrated(d, f[n - 1], n) ELSE f[i]]
             h == [i \in 0 .. n |-> IF i = 0 THEN d ELSE Migrated(d, g[i - 1], i)]
  <2>4. \A i \in 0 .. n : g[i] = IF i = n THEN Migrated(d, f[n - 1], n) ELSE f[i]
    OBVIOUS
  <2>5. \A i \in 0 .. n : h[i] = IF i = 0 THEN d ELSE Migrated(d, g[i - 1], i)
    OBVIOUS
  <2>6. ASSUME NEW i \in 0 .. n PROVE g[i] = h[i]
    <3>1. CASE i = 0
      BY <1>4, <2>3, <2>4, <2>5, <3>1
    <3>2. CASE i # 0
      <4>1. i - 1 \in 0 .. n /\ i - 1 # n /\ (i # n => i \in 0 .. n - 1)
        BY <3>2
      <4> HIDE DEF g, h
      <4>2. g[i - 1] = f[i - 1]
        BY <2>4, <4>1
      <4> QED
        BY <2>3, <2>4, <2>5, <3>2, <4>1, <4>2
    <3> QED
      BY <3>1, <3>2
  <2>7. g = h
    BY <2>6
  <2>8. IsRun(g, d, n)
    <3> HIDE DEF g
    <3> QED
      BY <2>7 DEF IsRun
  <2> QED
    BY <2>8
<1> QED
  BY <1>3, <1>4


\* runMigrations: the database stays sound, and every migration the hive has is
\* recorded afterwards beside those recorded before.
LEMMA RunSound ==
  ASSUME NEW d, Sound(d), NEW version \in 1 .. Len(MIGRATIONS)
  PROVE  /\ Sound(runMigrations(d, version))
         /\ runMigrations(d, version).applied = d.applied \cup Upto(version)
<1> DEFINE upTo == CHOOSE f : IsRun(f, d, version)
           Ran(i) == Sound(upTo[i]) /\ upTo[i].applied = d.applied \cup Upto(i)
           T == {i \in 0 .. version : ~Ran(i)}
<1>1. version \in Nat /\ version <= 18
  BY MigrationsAre
<1>2. IsRun(upTo, d, version)
  BY <1>1, RunExists
<1>3. runMigrations(d, version) = upTo[version]
  BY DEF runMigrations, IsRun, Migrated
<1> HIDE DEF upTo
<1>4. \A i \in 0 .. version :
        upTo[i] = IF i = 0 THEN d
                  ELSE IF MIGRATIONS[i] \in d.applied THEN upTo[i - 1]
                  ELSE Apply(upTo[i - 1], MIGRATIONS[i])
  BY <1>2 DEF IsRun, Migrated
<1>5. Ran(0)
  <2>1. upTo[0] = d
    BY <1>1, <1>4
  <2>2. Upto(0) = {}
    BY DEF Upto
  <2> QED
    BY <2>1, <2>2
<1>6. ASSUME NEW i \in 1 .. version, Ran(i - 1) PROVE Ran(i)
  <2> DEFINE m == MIGRATIONS[i]
             b == upTo[i - 1]
  <2>1. i \in 1 .. 18 /\ i - 1 \in 0 .. version /\ i # 0
    BY <1>1
  <2>2. Sound(b) /\ b.applied = d.applied \cup Upto(i - 1)
    BY <1>6
  <2>3. Upto(i) = Upto(i - 1) \cup {m}
    <3>1. \A j : j \in 1 .. i <=> j \in 1 .. i - 1 \/ j = i
      BY <2>1
    <3> QED
      BY <3>1 DEF Upto
  <2>4. m \notin Upto(i - 1)
    <3>1. \A j \in 1 .. i - 1 : j \in 1 .. 18 /\ j # i
      BY <2>1
    <3> QED
      BY <2>1, <3>1, MigrationsAre DEF Upto
  <2>5. \A j \in 1 .. i - 1 : MIGRATIONS[j] \in b.applied
    BY <2>2 DEF Upto
  <2>6. m # "001-initial" => "001-initial" \in b.applied
    <3>1. i # 1 => 1 \in 1 .. i - 1
      BY <2>1
    <3> QED
      BY <2>5, <3>1, MigrationsAre
  <2>7. m = "013-feature-testing-support" =>
          {"001-initial", "008-add-godmode", "010-add-target-branch", "006-integrations",
           "011-generic-integration-fields"} \subseteq b.applied
    <3> SUFFICES ASSUME m = "013-feature-testing-support"
                 PROVE  {"001-initial", "008-add-godmode", "010-add-target-branch",
                         "006-integrations", "011-generic-integration-fields"} \subseteq b.applied
      OBVIOUS
    <3>1. i = 14
      BY <2>1, MigrationsAre
    <3>2. {1, 8, 10, 11, 12} \subseteq 1 .. i - 1
      BY <3>1
    <3> HIDE DEF b
    <3> QED
      BY <2>5, <3>2, MigrationsAre
  <2>8. upTo[i] = IF m \in d.applied THEN b ELSE Apply(b, m)
    BY <1>4, <2>1
  <2> HIDE DEF b, m
  <2>9. CASE m \in d.applied
    BY <2>2, <2>3, <2>8, <2>9
  <2>10. CASE m \notin d.applied
    <3>1. m \notin b.applied
      BY <2>2, <2>4, <2>10
    <3>2. Sound(Apply(b, m))
      BY <2>2, <2>6, <2>7, <3>1, ApplySound
    <3>3. Apply(b, m).applied = b.applied \cup {m}
      BY DEF Apply
    <3> QED
      BY <2>2, <2>3, <2>8, <2>10, <3>2, <3>3
  <2> QED
    BY <2>9, <2>10
<1>7. T = {}
  <2> SUFFICES ASSUME T # {} PROVE FALSE
    OBVIOUS
  <2>1. T \subseteq Nat
    BY <1>1
  <2>2. PICK i \in T : \A k \in T : ~(<<k, i>> \in OpToRel(<, Nat))
    <3> HIDE DEF T
    <3> QED
      BY <2>1, WFMin, NatLessThanWellFounded
  <2>3. i \in 0 .. version /\ ~Ran(i)
    OBVIOUS
  <2>4. \A k \in T : ~(k < i)
    <3> HIDE DEF T
    <3> QED
      BY <2>1, <2>2 DEF OpToRel
  <2> HIDE DEF Ran
  <2>5. i \in 1 .. version /\ i - 1 \in 0 .. version /\ i - 1 < i
    BY <1>1, <1>5, <2>3
  <2>6. Ran(i - 1)
    BY <2>4, <2>5
  <2> QED
    BY <1>6, <2>3, <2>5, <2>6
<1>8. Ran(version)
  <2> HIDE DEF Ran
  <2> QED
    BY <1>1, <1>7
<1> QED
  BY <1>3, <1>8

\* The invariant: each copy of the schema is sound, and what a session has in
\* memory has every migration of its hive.
UpgradeInv ==
  /\ TypeOK
  /\ Sound(fileSchema) /\ Sound(tmpSchema)
  /\ \A p \in Proc : Sound(memSchema[p])
  /\ \A p \in Proc : mem[p] # Closed => Upto(VersionOf[p]) \subseteq memSchema[p].applied
  /\ DOMAIN memSchema = Proc

\* A step of an upgrade is a step of the sessions.
LEMMA UpgradeIsSession == UpgradeNext => [Next]_vars
  BY DEF UpgradeNext, LoadAndMigrate, WriteSchema, RenameSchema, OtherStep, Next, SessionStep

\* Rows are written into a sound database.
LEMMA WithRowsSound ==
  ASSUME NEW d, Sound(d)
  PROVE  Sound(WithRows(d))
<1> DEFINE columns == [i \in DOMAIN d.agents |-> d.agents[i].column]
           e == WithRows(d)
<1>1. PICK n \in Nat : DOMAIN d.agents = 1 .. n
  <2>1. d.agents \in Seq({d.agents[i] : i \in DOMAIN d.agents})
    BY DEF Sound, IsTable
  <2>2. Len(d.agents) \in Nat /\ DOMAIN d.agents = 1 .. Len(d.agents)
    BY <2>1
  <2> QED
    BY <2>2
<1>2. DOMAIN columns = 1 .. n /\ Listed(columns) = Columns(d.agents)
  BY <1>1 DEF Listed, Columns
<1>3. /\ e = [applied |-> d.applied, agents |-> Created(columns),
              requirements |-> d.requirements, stories |-> d.stories]
  BY DEF WithRows, Sound
<1> HIDE DEF columns
<1>4. /\ e = [applied |-> e.applied, agents |-> e.agents,
              requirements |-> e.requirements, stories |-> e.stories]
      /\ e.applied = d.applied /\ e.agents = Created(columns)
      /\ e.requirements = d.requirements /\ e.stories = d.stories
  BY <1>3
<1>5. IsTable(Created(columns)) /\ Columns(Created(columns)) = Columns(d.agents)
  BY <1>1, <1>2, CreatedTable
<1>6. "001-initial" \notin d.applied => e = EmptyDatabase
  <2> SUFFICES ASSUME "001-initial" \notin d.applied PROVE e = EmptyDatabase
    OBVIOUS
  <2>1. d = EmptyDatabase
    BY DEF Sound
  <2>2. Created(columns) = <<>>
    BY <2>1 DEF EmptyDatabase, Created, columns
  <2> QED
    BY <1>3, <2>1, <2>2 DEF EmptyDatabase
<1> HIDE DEF e
<1> SUFFICES Sound(e)
  BY DEF e
<1> QED
  BY <1>4, <1>5, <1>6 DEF Sound, KeepsValues

\* The file was made by some hive.
LEMMA UpgradeInitInv == UpgradeInit => UpgradeInv
<1> SUFFICES ASSUME UpgradeInit PROVE UpgradeInv
  OBVIOUS
<1>1. Init => TypeOK
  BY InitInv DEF Inv
<1>2. PICK version \in Made : fileSchema = WithRows(runMigrations(EmptyDatabase, version))
  BY DEF UpgradeInit
<1>3. version \in 1 .. Len(MIGRATIONS)
  BY UpgradeAssumption
<1>4. Sound(fileSchema)
  BY <1>2, <1>3, EmptyIsSound, RunSound, WithRowsSound
<1> QED
  BY <1>1, <1>4, EmptyIsSound DEF UpgradeInit, UpgradeInv, Init

\* Every step keeps the invariant: a schema is only migrated or copied.
LEMMA UpgradeStep == UpgradeInv /\ [UpgradeNext]_uvars => UpgradeInv'
<1> SUFFICES ASSUME UpgradeInv, [UpgradeNext]_uvars PROVE UpgradeInv'
  OBVIOUS
<1>1. [Next]_vars
  BY UpgradeIsSession DEF uvars, vars
<1>2. TypeOK'
  BY <1>1, TypeStep DEF UpgradeInv
<1>3. CASE UNCHANGED uvars
  BY <1>2, <1>3 DEF UpgradeInv, uvars, vars, schemaVars
<1>4. CASE GoesStale /\ UNCHANGED schemaVars
  BY <1>2, <1>4 DEF UpgradeInv, GoesStale, schemaVars
<1>5. ASSUME NEW p \in Proc, LoadAndMigrate(p) PROVE UpgradeInv'
  <2> DEFINE d == runMigrations(fileSchema, VersionOf[p])
  <2>1. VersionOf[p] \in 1 .. Len(MIGRATIONS)
    BY UpgradeAssumption
  <2>2. Sound(d) /\ Upto(VersionOf[p]) \subseteq d.applied
    BY <2>1, RunSound DEF UpgradeInv
  <2>3. /\ memSchema' = [memSchema EXCEPT ![p] = d]
        /\ UNCHANGED <<tmpSchema, fileSchema>> /\ mem' = [mem EXCEPT ![p] = file]
    BY <1>5 DEF LoadAndMigrate, Load
  <2> HIDE DEF d
  <2> QED
    BY <1>2, <2>2, <2>3 DEF UpgradeInv, TypeOK
<1>6. ASSUME NEW p \in Proc, WriteSchema(p) PROVE UpgradeInv'
  <2>1. mem' = mem
    BY <1>6 DEF WriteSchema, BeginSave, BeginClose
  <2> QED
    BY <1>2, <1>6, <2>1 DEF UpgradeInv, WriteSchema
<1>7. ASSUME KeepLoaded, \A q \in Proc : mem'[q] # Closed => mem[q] # Closed
      PROVE  /\ \A q \in Proc : Sound(memSchema'[q]) /\ DOMAIN memSchema' = Proc
             /\ \A q \in Proc : mem'[q] # Closed => Upto(VersionOf[q]) \subseteq memSchema'[q].applied
  <2>1. /\ DOMAIN memSchema' = Proc
        /\ \A q \in Proc : memSchema'[q] = IF mem'[q] = Closed THEN EmptyDatabase ELSE memSchema[q]
    BY <1>7 DEF KeepLoaded
  <2> QED
    BY <1>7, <2>1, EmptyIsSound DEF UpgradeInv
<1>8. ASSUME NEW p \in Proc, RenameSchema(p) PROVE UpgradeInv'
  <2>1. \A q \in Proc : mem'[q] # Closed => mem[q] # Closed
    BY <1>8 DEF RenameSchema, EndSave, EndClose, UpgradeInv, TypeOK
  <2> QED
    BY <1>2, <1>7, <1>8, <2>1, EmptyIsSound DEF UpgradeInv, RenameSchema
<1>9. ASSUME NEW p \in Proc, OtherStep(p) PROVE UpgradeInv'
  <2>1. ASSUME NEW q \in Proc, mem'[q] # Closed PROVE mem[q] # Closed
    <3> USE <1>9, <2>1 DEF UpgradeInv, TypeOK, Loaded
    <3>1. CASE LockStep(p) \/ Begin(p) \/ SaveThrows(p)
      BY <3>1 DEF LockStep, Acquire, Refresh, NoticeCompromised, Release, Begin, SaveThrows
    <3>2. CASE Change(p) \/ Rollback(p)
      BY <3>2 DEF Change, Rollback
    <3>3. CASE LoadThrows(p) \/ CloseThrows(p) \/ Exit(p) \/ Crash(p)
      BY <3>3 DEF LoadThrows, CloseThrows, Exit, Crash, Throw, Forget
    <3> QED
      BY <3>1, <3>2, <3>3 DEF OtherStep
  <2> QED
    BY <1>2, <1>7, <1>9, <2>1 DEF UpgradeInv, OtherStep
<1> QED
  BY <1>3, <1>4, <1>5, <1>6, <1>8, <1>9 DEF UpgradeNext

\* The invariant holds throughout.
LEMMA UpgradeInvariance == UpgradeSpec => []UpgradeInv
  BY UpgradeInitInv, UpgradeStep, PTL DEF UpgradeSpec

\* A database with markdown_path has migration 015 on record.
LEMMA OpensSound == UpgradeInv => EveryHiveOpensIt
<1> SUFFICES ASSUME UpgradeInv, NEW d \in {fileSchema, tmpSchema}, NEW p,
                    MigrationsFail(d, VersionOf[p])
             PROVE  FALSE
  BY DEF EveryHiveOpensIt
<1>1. "markdown_path" \in Columns(d.stories) /\ "015-add-story-markdown-path" \notin d.applied
  BY DEF MigrationsFail
<1>2. Sound(d)
  BY DEF UpgradeInv
<1> QED
  BY <1>1, <1>2, MarkdownPathIsOf015 DEF Sound

\* No hive, older or newer, ever meets a file that its migrations fail on
\* (runMigrations; migration 015 adds its column without looking).
THEOREM EveryHiveOpens == UpgradeSpec => []EveryHiveOpensIt
  BY UpgradeInvariance, OpensSound, PTL

\* What a hive asks for is brought by its migrations, all of them on record.
LEMMA FindsValues == UpgradeInv => ValuesStayInTheirColumns
<1> SUFFICES ASSUME UpgradeInv PROVE ValuesStayInTheirColumns
  OBVIOUS
<1>1. KeepsValues(fileSchema) /\ KeepsValues(tmpSchema)
  BY DEF UpgradeInv, Sound
<1>2. ASSUME NEW r \in Reader PROVE KeepsValues(ReadOnlyCopy(r))
  <2>1. VersionOf[r] \in 1 .. Len(MIGRATIONS)
    BY UpgradeAssumption
  <2>2. Sound(ReadOnlyCopy(r))
    BY <2>1, RunSound DEF UpgradeInv, ReadOnlyCopy
  <2> QED
    BY <2>2 DEF Sound
<1>3. ASSUME NEW p \in Proc, pc[p] \in Loaded
      PROVE  /\ KeepsValues(memSchema[p])
             /\ \A table \in {"agents", "requirements", "stories"} :
                  Asked[VersionOf[p]][table] \subseteq Columns(memSchema[p][table])
  <2> DEFINE v == VersionOf[p]
             d == memSchema[p]
             e == runMigrations(EmptyDatabase, v)
  <2>1. v \in 1 .. Len(MIGRATIONS) /\ v \in 0 .. Len(MIGRATIONS)
    BY UpgradeAssumption, MigrationsAre
  <2>2. Sound(d) /\ Upto(v) \subseteq d.applied
    BY <1>3 DEF UpgradeInv, TypeOK
  <2>3. Sound(e) /\ e.applied = EmptyDatabase.applied \cup Upto(v)
    BY <2>1, EmptyIsSound, RunSound
  <2>4. Asked[v] = ColumnsOf(e)
    BY <2>1 DEF Asked
  <2> HIDE DEF d, e, v
  <2>5. e.applied \subseteq d.applied
    BY <2>2, <2>3 DEF EmptyDatabase
  <2>6. /\ Columns(e.agents) \subseteq Columns(d.agents)
        /\ Columns(e.requirements) \subseteq Columns(d.requirements)
        /\ Columns(e.stories) \subseteq Columns(d.stories)
    BY <2>2, <2>3, <2>5 DEF Sound
  <2>7. /\ ColumnsOf(e)["agents"] = Columns(e.agents)
        /\ ColumnsOf(e)["requirements"] = Columns(e.requirements)
        /\ ColumnsOf(e)["stories"] = Columns(e.stories)
    BY DEF ColumnsOf
  <2>8. KeepsValues(d)
    BY <2>2 DEF Sound
  <2>9. ASSUME NEW table \in {"agents", "requirements", "stories"}
        PROVE  ColumnsOf(e)[table] \subseteq Columns(d[table])
    BY <2>6, <2>7
  <2> QED
    BY <2>4, <2>8, <2>9 DEF d, v
<1> QED
  BY <1>1, <1>2, <1>3 DEF ValuesStayInTheirColumns

\* What was written to the requirements and the stories is found in its column
\* after any upgrades, and a session finds every column its hive asks for.
THEOREM ValuesAreFound == UpgradeSpec => []ValuesStayInTheirColumns
  BY UpgradeInvariance, FindsValues, PTL

\* Upgrades change nothing of what sessions promise: lock, loads and saves
\* behave as if every process were of the same hive (withHiveContext).
THEOREM UpgradesAreSessions == UpgradeSpec => FairSpec
<1>1. UpgradeInit => Init
  BY DEF UpgradeInit
<1>2. [UpgradeNext]_uvars => [Next]_vars
  BY UpgradeIsSession DEF uvars, vars
<1> QED
  BY <1>1, <1>2, PTL DEF UpgradeSpec, FairSpec, Spec
=============================================================================
