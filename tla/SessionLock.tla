---------------------------- MODULE SessionLock ----------------------------
(***************************************************************************)
(* runtime/session_lock.py: the lock file that keeps a second agent off an *)
(* account scope, and start.sh's shutdown.  (The port-scoped lock of       *)
(* system/identity/instance_lock.py takes the same steps.)  The file is    *)
(* read, removed and written by separate system calls, and write_text      *)
(* truncates the file before it fills it.  A pid is alive or not: the HTTP *)
(* probe never changes the verdict.                                        *)
(***************************************************************************)
EXTENDS Naturals, FiniteSets

CONSTANTS Pids,       \* processes, each started at most once
          Nobody      \* no pid: the file is absent, torn or empty

VARIABLES
  file,      \* the lock file: its inode, named by its creator, and its pid
  place,     \* what each process is doing
  fd,        \* the inode each process has opened for writing
  stopper,   \* shutdown_session: idle, or the pid it is about to stop
  stage,     \* what shutdown_session is doing
  mixed      \* history: a lock operation began while another was under way

vars == <<file, place, fd, stopper, stage, mixed>>

ASSUME LockAssumption == Nobody \notin Pids

NoFile == [inode |-> Nobody, pid |-> Nobody]
Places == {"off", "read", "clear", "remove", "open", "write", "run", "leave",
           "unlink", "dead"}

TypeOK ==
  /\ file \in [inode : Pids \cup {Nobody}, pid : Pids \cup {Nobody}]
  /\ file.inode = Nobody => file.pid = Nobody
  /\ place \in [Pids -> Places] /\ fd \in [Pids -> Pids \cup {Nobody}]
  /\ stopper \in Pids \cup {Nobody} /\ stage \in {"idle", "kill", "unlink"}
  /\ mixed \in BOOLEAN

Init ==
  /\ file = NoFile /\ place = [p \in Pids |-> "off"]
  /\ fd = [p \in Pids |-> Nobody] /\ stopper = Nobody /\ stage = "idle"
  /\ mixed = FALSE

\* pid_alive.
Alive(p) == p \in Pids /\ place[p] \notin {"off", "dead"}

\* session_is_healthy of what read_session_lock returns.
Healthy(p) == Alive(p)

Go(p, where) == place' = [place EXCEPT ![p] = where]

\* Somebody is between the reading of the file and the last change of it.
Busy == stage # "idle" \/ \E p \in Pids :
          place[p] \in {"read", "clear", "remove", "open", "write", "leave", "unlink"}

Others == UNCHANGED <<fd, stopper, stage>>

-----------------------------------------------------------------------------
(* acquire_session_lock.                                                   *)

Launch(p) ==
  /\ place[p] = "off" /\ Go(p, "read") /\ mixed' = (mixed \/ Busy)
  /\ UNCHANGED <<file, fd, stopper, stage>>

\* Wrong form of Find: the process trusts a file only of its own.
FindAnyway(p) ==
  place[p] = "read" /\ Go(p, "clear") /\ Others /\ UNCHANGED <<file, mixed>>

\* find_active_session: a healthy holder sends the process away.
Find(p) ==
  /\ place[p] = "read" /\ Go(p, IF Healthy(file.pid) THEN "dead" ELSE "clear")
  /\ Others /\ UNCHANGED <<file, mixed>>

\* clear_stale_lock reads the file again; whatever it returns, the process
\* goes on to write.
Clear(p) ==
  /\ place[p] = "clear"
  /\ Go(p, IF file.inode = Nobody \/ Healthy(file.pid) THEN "open" ELSE "remove")
  /\ Others /\ UNCHANGED <<file, mixed>>

\* Wrong form of Remove: the stale file stays, and nothing is written over it.
RemoveNothing(p) ==
  place[p] = "remove" /\ Go(p, "run") /\ Others /\ UNCHANGED <<file, mixed>>

Remove(p) ==
  /\ place[p] = "remove" /\ file' = NoFile /\ Go(p, "open")
  /\ Others /\ UNCHANGED mixed

\* write_session_lock: the file is created or truncated, then filled.
OpenFile(p) ==
  /\ place[p] = "open" /\ Go(p, "write")
  /\ file' = [inode |-> IF file.inode = Nobody THEN p ELSE file.inode,
              pid |-> Nobody]
  /\ fd' = [fd EXCEPT ![p] = file'.inode]
  /\ UNCHANGED <<stopper, stage, mixed>>

\* Wrong form of Write: the pid goes to whatever has the file's name by then.
WriteByName(p) ==
  /\ place[p] = "write" /\ Go(p, "run") /\ file' = [file EXCEPT !.pid = p]
  /\ fd' = [fd EXCEPT ![p] = Nobody] /\ UNCHANGED <<stopper, stage, mixed>>

\* What is written into a file that was removed meanwhile is lost.
Write(p) ==
  /\ place[p] = "write" /\ Go(p, "run")
  /\ file' = IF file.inode = fd[p] THEN [file EXCEPT !.pid = p] ELSE file
  /\ fd' = [fd EXCEPT ![p] = Nobody] /\ UNCHANGED <<stopper, stage, mixed>>

-----------------------------------------------------------------------------
(* release_session_lock, a crash, and shutdown_session.                    *)

Leave(p) ==
  /\ place[p] = "run" /\ Go(p, "leave") /\ mixed' = (mixed \/ Busy)
  /\ UNCHANGED <<file, fd, stopper, stage>>

\* The file is removed when it names this process or nobody.
CheckOwner(p) ==
  /\ place[p] = "leave" /\ Others /\ UNCHANGED <<file, mixed>>
  /\ Go(p, IF file.pid \in {Nobody, p} THEN "unlink" ELSE "dead")

Unlink(p) ==
  /\ place[p] = "unlink" /\ file' = NoFile /\ Go(p, "dead")
  /\ Others /\ UNCHANGED mixed

\* A process may end at any point without releasing.
Crash(p) ==
  /\ Alive(p) /\ Go(p, "dead") /\ UNCHANGED <<file, fd, stopper, stage, mixed>>

\* shutdown_session reads the record ...
Shutdown ==
  /\ stage = "idle" /\ file.pid # Nobody
  /\ stopper' = file.pid /\ stage' = "kill" /\ mixed' = (mixed \/ Busy)
  /\ UNCHANGED <<file, place, fd>>

\* ... terminates its process, which may release its lock on SIGTERM ...
Terminate ==
  /\ stage = "kill" /\ stage' = "unlink"
  /\ \/ ~Alive(stopper) /\ UNCHANGED place
     \/ Alive(stopper) /\ place' = [place EXCEPT ![stopper] = "dead"]
  /\ UNCHANGED <<file, fd, stopper, mixed>>

\* ... and removes the file, whoever it names by then.
RemoveFile ==
  /\ stage = "unlink" /\ file' = NoFile /\ stopper' = Nobody /\ stage' = "idle"
  /\ UNCHANGED <<place, fd, mixed>>

-----------------------------------------------------------------------------

Step(p) ==
  \/ Find(p) \/ Clear(p) \/ Remove(p) \/ OpenFile(p) \/ Write(p)
  \/ CheckOwner(p) \/ Unlink(p)

\* Every process has ended.
Over ==
  /\ \A p \in Pids : place[p] = "dead" /\ stage = "idle" /\ file.pid = Nobody
  /\ UNCHANGED vars

Next ==
  \/ \E p \in Pids : Launch(p) \/ Step(p) \/ Leave(p) \/ Crash(p)
  \/ Shutdown \/ Terminate \/ RemoveFile \/ Over

Spec == Init /\ [][Next]_vars

-----------------------------------------------------------------------------
(* Properties.                                                             *)

Running == {p \in Pids : place[p] = "run"}

\* As long as lock operations do not overlap, one agent at most runs on the
\* scope, after any number of crashes, releases and shutdowns.
OneAgentUnlessMixed == mixed \/ Cardinality(Running) <= 1

\* ... and the lock file names the agent that runs.
FileNamesAgent == \A p \in Running : mixed \/ file.pid = p
=============================================================================
