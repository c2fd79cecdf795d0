---------------------------- MODULE SessionProofs ----------------------------
(***************************************************************************)
(* Theorems about SessionLock, for any set of processes.  Two processes    *)
(* are never inside a lock operation at one time unless mixed says so;     *)
(* from there the argument is that a process on its way to the file finds  *)
(* nobody running, and that the file names whoever runs.                   *)
(***************************************************************************)
EXTENDS SessionLock, FiniteSetTheorems, TLAPS

\* Where a process is inside a lock operation, and where it has the lock to itself.
Locking == {"read", "clear", "remove", "open", "write", "leave", "unlink"}
Changing == Locking \ {"read"}

\* A writer has opened some file.
Opened == \A p \in Pids : place[p] = "write" => fd[p] # Nobody
TypeInv == TypeOK /\ Opened

\* Lock operations do not overlap.
Alone ==
  /\ \A p \in Pids, q \in Pids : place[p] \in Locking /\ place[q] \in Locking => p = q
  /\ stage # "idle" => \A p \in Pids : place[p] \notin Locking

\* Nobody runs while a process changes the file or shutdown removes it.
NobodyRuns ==
  /\ \A p \in Pids : place[p] \in Changing => Running = {}
  /\ stage = "unlink" => Running = {}

\* The file a writer has opened is the one that has the name.
SameFile == \A p \in Pids : place[p] = "write" => fd[p] = file.inode

Stopping == stage = "kill" => file.pid = stopper

Named == \A p \in Running : file.pid = p

LockInv == mixed \/ (Alone /\ NobodyRuns /\ SameFile /\ Stopping /\ Named)

-----------------------------------------------------------------------------

\* Before the first start everything has its type.
LEMMA TypeInit == Init => TypeInv
<1> SUFFICES ASSUME Init PROVE TypeInv
  OBVIOUS
<1>1. file \in [inode : Pids \cup {Nobody}, pid : Pids \cup {Nobody}]
  BY DEF Init, NoFile
<1>2. place \in [Pids -> Places] /\ fd \in [Pids -> Pids \cup {Nobody}] /\ Opened
  BY DEF Init, Places, Opened
<1> QED
  BY <1>1, <1>2 DEF Init, NoFile, TypeInv, TypeOK

\* Every step of the system keeps the types.
LEMMA TypeStep == TypeInv /\ [Next]_vars => TypeInv'
<1> SUFFICES ASSUME TypeInv, [Next]_vars PROVE TypeInv'
  OBVIOUS
<1> USE LockAssumption DEF TypeInv, TypeOK, Opened, Places, NoFile, Go, Others
<1>1. ASSUME NEW p \in Pids, Launch(p) \/ Leave(p) \/ Crash(p) PROVE TypeInv'
  BY <1>1 DEF Launch, Leave, Crash
<1>2. ASSUME NEW p \in Pids, Find(p) \/ Clear(p) \/ Remove(p) PROVE TypeInv'
  BY <1>2 DEF Find, Clear, Remove
<1>3. ASSUME NEW p \in Pids, OpenFile(p) PROVE TypeInv'
  BY <1>3 DEF OpenFile
<1>4. ASSUME NEW p \in Pids, Write(p) PROVE TypeInv'
  BY <1>4 DEF Write
<1>5. ASSUME NEW p \in Pids, CheckOwner(p) \/ Unlink(p) PROVE TypeInv'
  BY <1>5 DEF CheckOwner, Unlink
<1>6. CASE Shutdown
  BY <1>6 DEF Shutdown
<1>7. CASE Terminate
  BY <1>7 DEF Terminate, Alive
<1>8. CASE RemoveFile
  BY <1>8 DEF RemoveFile
<1>9. CASE Over \/ UNCHANGED vars
  BY <1>9 DEF Over, vars
<1> QED
  BY <1>1, <1>2, <1>3, <1>4, <1>5, <1>6, <1>7, <1>8, <1>9 DEF Next, Step

\* The lock file, the stages of a process and the records of shutdown keep values
\* of their type, and a file without a name names nobody.
THEOREM Typed == Spec => []TypeOK
<1>1. TypeInv => TypeOK
  BY DEF TypeInv
<1> QED
  BY <1>1, TypeInit, TypeStep, PTL DEF Spec

-----------------------------------------------------------------------------

\* Before the first start nobody runs and there is no file.
LEMMA LockInit == Init => LockInv
  BY DEF Init, LockInv, Alone, NobodyRuns, SameFile, Stopping, Named, Running,
         Locking, Changing, NoFile

\* A step of a process that overlaps no other keeps the parts about its place.
LEMMA LockStep == TypeInv /\ LockInv /\ [Next]_vars => LockInv'
<1> SUFFICES ASSUME TypeInv, LockInv, [Next]_vars, ~mixed' PROVE LockInv'
  BY DEF LockInv
<1> USE LockAssumption DEF TypeInv, TypeOK, Opened, Places
<1>m. ~mixed
  BY DEF Next, Step, vars, Launch, Leave, Crash, Find, Clear, Remove, OpenFile, Write,
         CheckOwner, Unlink, Shutdown, Terminate, RemoveFile, Over
<1>i. Alone /\ NobodyRuns /\ SameFile /\ Stopping /\ Named
  BY <1>m DEF LockInv
<1> DEFINE Kept == Alone' /\ NobodyRuns' /\ SameFile' /\ Stopping' /\ Named'
<1> USE DEF Alone, NobodyRuns, SameFile, Stopping, Named, Running, Locking, Changing,
            Go, Others, NoFile
<1>1. ASSUME NEW p \in Pids, Launch(p) PROVE Kept
  BY <1>1, <1>i DEF Launch, Busy
<1>2. ASSUME NEW p \in Pids, Find(p) PROVE Kept
  BY <1>2, <1>i DEF Find, Healthy, Alive
<1>3. ASSUME NEW p \in Pids, Clear(p) PROVE Kept
  BY <1>3, <1>i DEF Clear
<1>4. ASSUME NEW p \in Pids, Remove(p) PROVE Kept
  BY <1>4, <1>i DEF Remove
<1>5. ASSUME NEW p \in Pids, OpenFile(p) PROVE Kept
  BY <1>5, <1>i DEF OpenFile
<1>6. ASSUME NEW p \in Pids, Write(p) PROVE Kept
  BY <1>6, <1>i DEF Write
<1>7. ASSUME NEW p \in Pids, Leave(p) PROVE Kept
  BY <1>7, <1>i DEF Leave, Busy
<1>8. ASSUME NEW p \in Pids, CheckOwner(p) PROVE Kept
  BY <1>8, <1>i DEF CheckOwner
<1>9. ASSUME NEW p \in Pids, Unlink(p) PROVE Kept
  BY <1>9, <1>i DEF Unlink
<1>10. ASSUME NEW p \in Pids, Crash(p) PROVE Kept
  BY <1>10, <1>i DEF Crash, Alive
<1>11. CASE Shutdown
  <2>1. Kept
    BY <1>11, <1>i DEF Shutdown, Busy
  <2> QED
    BY <2>1 DEF LockInv
<1>12. CASE Terminate
  <2>1. Kept
    BY <1>12, <1>i DEF Terminate, Alive
  <2> QED
    BY <2>1 DEF LockInv
<1>13. CASE RemoveFile
  <2>1. Kept
    BY <1>13, <1>i DEF RemoveFile
  <2> QED
    BY <2>1 DEF LockInv
<1>14. CASE Over \/ UNCHANGED vars
  <2>1. Kept
    BY <1>14, <1>i DEF Over, vars
  <2> QED
    BY <2>1 DEF LockInv
<1>15. CASE Kept
  BY <1>15 DEF LockInv
<1> QED
  BY <1>1, <1>2, <1>3, <1>4, <1>5, <1>6, <1>7, <1>8, <1>9, <1>10, <1>11, <1>12,
     <1>13, <1>14, <1>15 DEF Next, Step

\* Types and the standing of every process to the file hold in every reachable state.
LEMMA LockAlways == Spec => [](TypeInv /\ LockInv)
  BY TypeInit, LockInit, TypeStep, LockStep, PTL DEF Spec

\* As long as lock operations do not overlap, the file names the agent that runs,
\* for any number of processes, crashes, releases and shutdowns.
THEOREM FileNames == Spec => []FileNamesAgent
<1>1. TypeInv /\ LockInv => FileNamesAgent
  BY DEF LockInv, Named, FileNamesAgent
<1> QED
  BY <1>1, LockAlways, PTL

\* ... and at most one agent runs on the account scope.
THEOREM OneAgentRuns == Spec => []OneAgentUnlessMixed
<1>1. TypeInv /\ LockInv => OneAgentUnlessMixed
  <2> SUFFICES ASSUME LockInv, ~mixed PROVE Cardinality(Running) <= 1
    BY DEF OneAgentUnlessMixed
  <2>1. Running \subseteq {file.pid}
    BY DEF LockInv, Named
  <2>2. IsFiniteSet({file.pid}) /\ Cardinality({file.pid}) = 1
    BY FS_Singleton
  <2>3. Cardinality(Running) <= Cardinality({file.pid})
    BY <2>1, <2>2, FS_Subset
  <2> QED
    BY <2>2, <2>3
<1> QED
  BY <1>1, LockAlways, PTL
=============================================================================
