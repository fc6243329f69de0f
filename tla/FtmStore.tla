------------------------------ MODULE FtmStore ------------------------------
(***************************************************************************)
(* The connection to the entity store and its recovery,                    *)
(* backend/ftm_connection.py: threads run operations on one DuckDB         *)
(* connection; when the database is invalidated they reopen the file, then *)
(* rebuild it from what is readable and swap it in, then delete it.        *)
(*                                                                         *)
(* A step is what a thread does under _LOCK, or one access outside it to a *)
(* shared global or to the directory. init_store and _rebuild_and_swap     *)
(* call each other; the stack of a thread is, from the top, a number of    *)
(* rebuilds that init_store waits for, the one reset_store waits for, and  *)
(* the caller. A file is the set of writes it holds; a write goes to the   *)
(* log beside it first.                                                    *)
(*                                                                         *)
(* Simplifications: files that exist can be removed and renamed; the       *)
(* recovery file appears whole; an operation writes one row; logs are not  *)
(* damaged; _INIT_ERROR is set together with the step that decides it.     *)
(***************************************************************************)
EXTENDS Naturals, FiniteSets

CONSTANTS
  Threads,      \* threads that use the store
  Readers,      \* threads that run queries on a connection of their own (_ro_conn)
  Writes,       \* the writes that are made
  MaxAttempts,  \* _MAX_RECOVERY_ATTEMPTS (3)
  MaxFatals,    \* bound: invalidations of a database
  MaxCrashes,   \* bound: crashes of the process
  Damages,      \* may an invalidation leave the file damaged?
  DiskFails,    \* may building the recovery file fail?
  NoFile, NoInst

\* What is called _DB_PATH, .bak or .recovery; opening a damaged file fails.
File == [rows : SUBSET Writes, hurt : BOOLEAN]

\* A log belongs to the file beside it, or is left over from another one: then the
\* next open drops it, or cannot replay it ("orphaned WAL causes geometry replay
\* crash").
Log == [rows : SUBSET Writes, kind : {"own", "stray", "bad"}]

\* The database of the process: the name its file has now, if it still has one.
Inst == [at : {"db", "bak", "none"}, invalid : BOOLEAN]

ASSUME FtmAssumption ==
  /\ IsFiniteSet(Threads) /\ IsFiniteSet(Readers)
  /\ MaxAttempts \in Nat \ {0} /\ MaxFatals \in Nat /\ MaxCrashes \in Nat
  /\ Damages \in BOOLEAN /\ DiskFails \in BOOLEAN
  /\ NoFile \notin File \union Log
  /\ NoInst \notin Inst

VARIABLES
  db, bak, rec, \* the files entities.duckdb, .bak and .recovery, or NoFile
  wal, bakWal,  \* the logs entities.duckdb.wal and .bak.wal, or NoFile
  inst,         \* the database of the process at _DB_PATH, or NoInst
  conn,         \* is _CONN open?
  ro,           \* threads with an open read connection
  attempts,     \* _RECOVERY_ATTEMPTS
  initError,    \* does _INIT_ERROR hold the text of an invalidation?
  pc,           \* [Threads -> Labels], the point where the thread is
  depth,        \* [Threads -> rebuilds that calls of init_store wait for]
  hard,         \* [Threads -> does reset_store wait for a rebuild?]
  caller,       \* [Threads -> Labels], where the outermost of these calls returns
  ret,          \* [Threads -> result of the last call]
  attempt,      \* [Threads -> attempt of _run_with_recovery]
  todo,         \* [Threads -> SUBSET Writes], the write of its operation
  acked,        \* history: writes that were reported as done
  resets,       \* history: [Threads -> times others cleared attempts under its recovery]
  perils,       \* history: what happened that may cost a write
  fatals, crashes

files   == <<db, bak, rec, wal, bakWal>>
opens   == <<inst, conn, ro>>
count   == <<attempts, resets>>
control == <<pc, depth, hard, caller, ret>>
calls   == <<attempt, todo, acked>>
env     == <<fatals, crashes>>
vars    == <<files, opens, count, initError, control, calls, perils, env>>

Labels == {"idle", "run", "use", "init", "probe", "reset", "count", "close", "retry", "exists",
           "rebuilt", "drop", "reprobe", "soft", "hard", "discard", "dropWal", "recheck",
           "rebuild", "salvage", "unback", "moveWal", "shelve", "swap"}
Callers == {"idle", "use", "run", "recheck"}

\* partial:  the recovery file got less than the old one held (the copy swallows
\*           every error)
\* deleted:  a fallback deleted the file or its log
\* replaced: a recovery replaced the backup, or the log, of an earlier one
\* torn:     the process died while the old file, or its log, was moved away and the
\*           new one not yet swapped in
\* beside:   a write was committed while another thread was replacing the file, or
\*           to a file that is no longer at its path
\* twice:    two threads rebuilt the file at once
Perils == {"partial", "deleted", "replaced", "torn", "beside", "twice"}

TypeOK ==
  /\ {db, bak, rec} \subseteq File \union {NoFile}
  /\ {wal, bakWal} \subseteq Log \union {NoFile}
  /\ inst \in Inst \union {NoInst} /\ conn \in BOOLEAN /\ ro \subseteq Readers
  /\ inst = NoInst <=> ~conn /\ ro = {}
  /\ attempts \in Nat /\ initError \in BOOLEAN
  /\ pc \in [Threads -> Labels] /\ caller \in [Threads -> Callers]
  /\ depth \in [Threads -> Nat] /\ hard \in [Threads -> BOOLEAN]
  /\ ret \in [Threads -> BOOLEAN]
  /\ attempt \in [Threads -> 0..2]
  /\ todo \in [Threads -> SUBSET Writes] /\ acked \subseteq Writes
  /\ resets \in [Threads -> Nat] /\ perils \subseteq Perils
  /\ fatals \in 0..MaxFatals /\ crashes \in 0..MaxCrashes

Empty == [rows |-> {}, hurt |-> FALSE]
RowsOf(f) == IF f = NoFile THEN {} ELSE f.rows

\* What the next start reads from the file at _DB_PATH and its log.
Content ==
  IF db = NoFile THEN {}
  ELSE db.rows \union (IF wal # NoFile /\ wal.kind = "own" THEN wal.rows ELSE {})

Init ==
  /\ db = NoFile /\ bak = NoFile /\ rec = NoFile /\ wal = NoFile /\ bakWal = NoFile
  /\ inst = NoInst /\ conn = FALSE /\ ro = {}
  /\ attempts = 0 /\ initError = FALSE
  /\ pc = [t \in Threads |-> "idle"] /\ caller = [t \in Threads |-> "idle"]
  /\ depth = [t \in Threads |-> 0] /\ hard = [t \in Threads |-> FALSE]
  /\ ret = [t \in Threads |-> FALSE]
  /\ attempt = [t \in Threads |-> 0]
  /\ todo = [t \in Threads |-> {}] /\ acked = {}
  /\ resets = [t \in Threads |-> 0] /\ perils = {}
  /\ fatals = 0 /\ crashes = 0

-----------------------------------------------------------------------------
(* Steps, calls and returns of a thread; a result is forgotten once it was *)
(* looked at.                                                              *)
At(t, l) == pc[t] = l
Idle(t)  == At(t, "idle")

Goes(t, l, v) == pc' = [pc EXCEPT ![t] = l] /\ ret' = [ret EXCEPT ![t] = v]
Goto(t, l)    == Goes(t, l, FALSE) /\ UNCHANGED <<depth, hard, caller>>

\* A call from outside, whose return leads to c.
Call(t, l, c) ==
  Goes(t, l, FALSE) /\ caller' = [caller EXCEPT ![t] = c] /\ UNCHANGED <<depth, hard>>

\* init_store and reset_store call the rebuild.
InitCalls(t) ==
  Goes(t, "rebuild", FALSE) /\ depth' = [depth EXCEPT ![t] = @ + 1] /\ UNCHANGED <<hard, caller>>
ResetCalls(t) ==
  Goes(t, "rebuild", FALSE) /\ hard' = [hard EXCEPT ![t] = TRUE] /\ UNCHANGED <<depth, caller>>

Return(t, v) ==
  \/ /\ depth[t] > 0
     /\ Goes(t, "rebuilt", v) /\ depth' = [depth EXCEPT ![t] = @ - 1]
     /\ UNCHANGED <<hard, caller>>
  \/ /\ depth[t] = 0 /\ hard[t]
     /\ Goes(t, "discard", v) /\ hard' = [hard EXCEPT ![t] = FALSE]
     /\ UNCHANGED <<depth, caller>>
  \/ /\ depth[t] = 0 /\ ~hard[t]
     /\ Goes(t, caller[t], v /\ caller[t] # "idle")
     /\ caller' = [caller EXCEPT ![t] = "idle"] /\ UNCHANGED <<depth, hard>>

\* The thread has counted an attempt that is not over.
Recovering(t) == depth[t] > 0 \/ \E l \in {"close", "retry", "exists"} : At(t, l)

\* The thread is between the copy and the swap, or has moved the old file away.
Replacing(t) == \E l \in {"salvage", "unback", "moveWal", "shelve", "swap"} : At(t, l)
Copied(t)    == \E l \in {"unback", "moveWal", "shelve", "swap"} : At(t, l)
Moving(t)    == At(t, "shelve") \/ At(t, "swap")

Peril(p, happens) == perils' = IF happens THEN perils \union {p} ELSE perils

(* DuckDB: connections of one process to one path share one database, which *)
(* lives until the last of them is closed.                                  *)

\* What connect, followed by a statement, raises.
Error == IF inst # NoInst THEN IF inst.invalid THEN "invalid" ELSE "none"
         ELSE IF db # NoFile /\ db.hurt THEN "invalid"
         ELSE IF wal # NoFile /\ wal.kind = "bad" THEN "other" ELSE "none"

\* _conn(): joins the database of the process, or opens the file, or makes one. After
\* joining an invalidated database _CONN stays set, although the schema statements
\* fail on it.
Connect ==
  LET opens_file == inst = NoInst /\ Error = "none"
  IN  /\ db' = IF opens_file /\ db = NoFile THEN Empty ELSE db
      /\ wal' = IF opens_file /\ wal # NoFile /\ wal.kind # "own" THEN NoFile ELSE wal
      /\ inst' = IF opens_file THEN [at |-> "db", invalid |-> FALSE] ELSE inst
      /\ conn' = (inst' # NoInst)
      /\ UNCHANGED <<bak, rec, bakWal>>

\* _INIT_ERROR after a call of _conn(), whose early return leaves it alone.
ConnError == IF conn THEN initError ELSE Error = "invalid"

\* The connections that stay are main (_CONN) and those of readers. Closing the last
\* one of a database that is in order writes its log into its file.
Hang(main, readers) ==
  LET ends == ~main /\ readers = {} /\ inst # NoInst
  IN  /\ conn' = main /\ ro' = readers
      /\ inst' = IF ends THEN NoInst ELSE inst
      /\ IF ends /\ ~inst.invalid /\ inst.at = "db"
         THEN db' = [db EXCEPT !.rows = Content] /\ wal' = NoFile
         ELSE UNCHANGED <<db, wal>>
      /\ UNCHANGED <<bak, bakWal>>

\* Close _CONN and the read connections of the threads ts.
Close(ts) == Hang(FALSE, ro \ ts)

\* The open file follows its name, and has none once that is removed or taken over.
Renamed(a, b) ==
  inst' = IF inst = NoInst THEN inst
          ELSE [inst EXCEPT !.at = IF @ = a THEN b ELSE IF @ = b THEN "none" ELSE @]

\* The log of a file that is no longer beside it.
Orphan == IF wal = NoFile THEN {NoFile}
          ELSE {[wal EXCEPT !.kind = k] : k \in {"stray", "bad"}}

\* The fallbacks remove the file and leave its log.
RemoveFile ==
  /\ db' = NoFile /\ Renamed("db", "none")
  /\ IF db = NoFile THEN UNCHANGED wal ELSE wal' \in Orphan
  /\ Peril("deleted", db # NoFile)

-----------------------------------------------------------------------------
(* init_store *)

\* Fault: recovery is tried without a limit.
InitForever(t) ==
  /\ At(t, "init")
  /\ Goto(t, "probe")
  /\ UNCHANGED <<files, opens, count, initError, calls, perils, env>>

InitCheck(t) ==
  /\ At(t, "init")
  /\ IF attempts >= MaxAttempts THEN Return(t, FALSE) ELSE Goto(t, "probe")
  /\ UNCHANGED <<files, opens, count, initError, calls, perils, env>>

InitProbe(t) ==
  /\ At(t, "probe")
  /\ Connect /\ UNCHANGED ro
  /\ \/ Error = "none" /\ Goto(t, "reset") /\ initError' = FALSE
     \/ Error = "invalid" /\ Goto(t, "count") /\ initError' = ConnError
     \/ Error = "other" /\ Return(t, FALSE) /\ initError' = FALSE
  /\ UNCHANGED <<count, calls, perils, env>>

\* After the lock: a late reset falls into the recovery of another thread.
InitReset(t) ==
  /\ At(t, "reset")
  /\ attempts' = 0
  /\ resets' = [u \in Threads |->
       IF ~Recovering(u) THEN 0 ELSE IF u = t THEN resets[u] ELSE resets[u] + 1]
  /\ initError' = FALSE
  /\ Return(t, TRUE)
  /\ UNCHANGED <<files, opens, calls, perils, env>>

InitCount(t) ==
  /\ At(t, "count")
  /\ attempts' = attempts + 1
  /\ resets' = IF depth[t] = 0 THEN [resets EXCEPT ![t] = 0] ELSE resets
  /\ Goto(t, "close")
  /\ UNCHANGED <<files, opens, initError, calls, perils, env>>

InitClose(t) ==
  /\ At(t, "close")
  /\ Close({}) /\ initError' = FALSE
  /\ Goto(t, "retry")
  /\ UNCHANGED <<rec, count, calls, perils, env>>

\* The soft retry; ret keeps whether its error speaks of an invalidation.
InitRetry(t) ==
  /\ At(t, "retry")
  /\ Connect /\ UNCHANGED ro
  /\ \/ Error = "none" /\ Return(t, TRUE) /\ initError' = FALSE
     \/ /\ Error # "none"
        /\ Goes(t, "exists", Error = "invalid") /\ UNCHANGED <<depth, hard, caller>>
        /\ initError' = ConnError
  /\ UNCHANGED <<count, calls, perils, env>>

InitExists(t) ==
  /\ At(t, "exists")
  /\ IF db # NoFile THEN InitCalls(t) /\ UNCHANGED initError
                    ELSE Return(t, FALSE) /\ initError' = ret[t]
  /\ UNCHANGED <<files, opens, count, calls, perils, env>>

\* The swap failed.
InitDelete(t) ==
  /\ At(t, "rebuilt")
  /\ \/ /\ ret[t]
        /\ Return(t, TRUE)
        /\ UNCHANGED <<db, wal, inst, perils>>
     \/ /\ ~ret[t]
        /\ RemoveFile
        /\ Goto(t, "drop")
  /\ UNCHANGED <<bak, rec, bakWal, conn, ro, count, initError, calls, env>>

InitDrop(t) ==
  /\ At(t, "drop")
  /\ Close({t}) /\ initError' = FALSE
  /\ Goto(t, "reprobe")
  /\ UNCHANGED <<rec, count, calls, perils, env>>

InitReprobe(t) ==
  /\ At(t, "reprobe")
  /\ Connect /\ UNCHANGED ro
  /\ initError' = (Error = "invalid")
  /\ Return(t, Error = "none")
  /\ UNCHANGED <<count, calls, perils, env>>

InitStore(t) ==
  \/ InitCheck(t) \/ InitProbe(t) \/ InitReset(t) \/ InitCount(t) \/ InitClose(t)
  \/ InitRetry(t) \/ InitExists(t) \/ InitDelete(t) \/ InitDrop(t) \/ InitReprobe(t)

-----------------------------------------------------------------------------
(* _rebuild_and_swap *)
RebuildClose(t) ==
  /\ At(t, "rebuild")
  /\ Close({t}) /\ initError' = FALSE
  /\ rec' = NoFile
  /\ Peril("twice", \E u \in Threads \ {t} : Replacing(u))
  /\ Goto(t, "salvage")
  /\ UNCHANGED <<count, calls, env>>

\* Move the backup back if there is no other file; its log is not moved.
Restore ==
  IF db = NoFile /\ bak # NoFile
  THEN db' = bak /\ bak' = NoFile /\ Renamed("bak", "db")
  ELSE UNCHANGED <<db, bak, inst>>

\* Fault: the step that copies is left out.
SalvageNothing(t) ==
  /\ At(t, "salvage")
  /\ rec' = Empty /\ Goto(t, "unback")
  /\ UNCHANGED <<db, bak, inst, perils>>
  /\ UNCHANGED <<wal, bakWal, conn, ro, count, initError, calls, env>>

\* Copy what can be copied: the error of ATTACH and of each table is swallowed.
Salvage(t) ==
  /\ At(t, "salvage")
  /\ \/ \E rows \in SUBSET Content :
          /\ rec' = [rows |-> rows, hurt |-> FALSE]
          /\ Peril("partial", rows # Content)
          /\ Goto(t, "unback")
          /\ UNCHANGED <<db, bak, inst>>
     \/ /\ DiskFails
        /\ rec' = NoFile /\ Restore
        /\ Return(t, FALSE)
        /\ UNCHANGED perils
  /\ UNCHANGED <<wal, bakWal, conn, ro, count, initError, calls, env>>

\* The old backup is removed, also when there is no file to replace it; its log stays.
Unback(t) ==
  /\ At(t, "unback")
  /\ Peril("replaced", bak # NoFile)
  /\ bak' = NoFile /\ Renamed("bak", "none")
  /\ Goto(t, "moveWal")
  /\ UNCHANGED <<db, rec, wal, bakWal, conn, ro, count, initError, calls, env>>

MoveWal(t) ==
  /\ At(t, "moveWal")
  /\ IF wal = NoFile THEN UNCHANGED <<wal, bakWal, perils>>
     ELSE /\ bakWal' = [wal EXCEPT !.kind = "own"] /\ wal' = NoFile
          /\ Peril("replaced", bakWal # NoFile)
  /\ Goto(t, "shelve")
  /\ UNCHANGED <<db, bak, rec, opens, count, initError, calls, env>>

\* Fault: the old file is deleted, not kept.
ShelveDeletes(t) ==
  /\ At(t, "shelve")
  /\ db' = NoFile /\ Renamed("db", "none") /\ UNCHANGED <<bak, wal>>
  /\ Goto(t, "swap")
  /\ UNCHANGED <<rec, bakWal, conn, ro, count, initError, calls, perils, env>>

Shelve(t) ==
  /\ At(t, "shelve")
  /\ IF db = NoFile THEN UNCHANGED <<db, bak, wal, inst>>
     ELSE /\ bak' = db /\ db' = NoFile
          /\ Renamed("db", "bak")
          /\ wal' \in Orphan
  /\ Goto(t, "swap")
  /\ UNCHANGED <<rec, bakWal, conn, ro, count, initError, calls, perils, env>>

\* The swap ends in init_store; it raises when another thread took the recovery
\* file. A log that another thread made meanwhile is not of the new file.
Swap(t) ==
  /\ At(t, "swap")
  /\ rec' = NoFile
  /\ \/ /\ rec # NoFile
        /\ db' = rec /\ Renamed("rec", "db")
        /\ wal' \in Orphan
        /\ Goto(t, "init") /\ UNCHANGED bak
     \/ /\ rec = NoFile
        /\ Restore
        /\ Return(t, FALSE) /\ UNCHANGED wal
  /\ UNCHANGED <<bakWal, conn, ro, count, initError, calls, perils, env>>

RebuildAndSwap(t) ==
  \/ RebuildClose(t) \/ Salvage(t) \/ Unback(t) \/ MoveWal(t) \/ Shelve(t) \/ Swap(t)

-----------------------------------------------------------------------------
(* reset_store, soft and hard *)
ResetClose(t) ==
  /\ At(t, "soft") \/ At(t, "hard")
  /\ Close({t}) /\ initError' = FALSE
  /\ IF At(t, "soft") THEN Goto(t, "init") ELSE ResetCalls(t)
  /\ UNCHANGED <<rec, count, calls, perils, env>>

ResetDelete(t) ==
  /\ At(t, "discard")
  /\ \/ /\ ret[t]
        /\ Return(t, TRUE)
        /\ UNCHANGED <<db, wal, inst, perils>>
     \/ /\ ~ret[t]
        /\ RemoveFile
        /\ Goto(t, "dropWal")
  /\ UNCHANGED <<bak, rec, bakWal, conn, ro, count, initError, calls, env>>

ResetDropWal(t) ==
  /\ At(t, "dropWal")
  /\ Peril("deleted", wal # NoFile)
  /\ wal' = NoFile
  /\ Goto(t, "init")
  /\ UNCHANGED <<db, bak, rec, bakWal, opens, count, initError, calls, env>>

ResetStore(t) == ResetClose(t) \/ ResetDelete(t) \/ ResetDropWal(t)

-----------------------------------------------------------------------------
(* _run_with_recovery, for an operation that writes one row *)
Begin(t) ==
  /\ Idle(t)
  /\ \E w \in Writes \ (acked \union UNION {todo[u] : u \in Threads}) :
       todo' = [todo EXCEPT ![t] = {w}]
  /\ Goto(t, "run")
  /\ UNCHANGED <<files, opens, count, initError, attempt, acked, perils, env>>

Check(t) ==
  /\ At(t, "run")
  /\ IF conn THEN Goes(t, "use", TRUE) /\ UNCHANGED <<depth, hard, caller>>
     ELSE Call(t, "init", "use")
  /\ UNCHANGED <<files, opens, count, initError, calls, perils, env>>

Ends(t) == Goto(t, "idle") /\ attempt' = [attempt EXCEPT ![t] = 0]

\* Fault: the operation is repeated without a reset.
RaisedForever(t, invalidated) ==
  /\ IF invalidated THEN Goto(t, "run") /\ UNCHANGED attempt ELSE Ends(t)
  /\ UNCHANGED acked

\* The operation raised: reset and try again, or raise.
Raised(t, invalidated) ==
  /\ IF invalidated /\ attempt[t] < 2
     THEN /\ Call(t, IF attempt[t] = 0 THEN "soft" ELSE "hard", "run")
          /\ attempt' = [attempt EXCEPT ![t] = @ + 1]
     ELSE Ends(t)
  /\ UNCHANGED acked

\* The error store_status reports after init_store failed.
StatusInvalid == IF conn THEN inst.invalid ELSE initError

\* A write goes to the log of the open file, wherever that file is now.
Commit(t) ==
  LET made == inst = NoInst
      log  == IF wal # NoFile /\ (~made \/ wal.kind = "own") THEN wal.rows ELSE {}
  IN  /\ inst' = IF made THEN [at |-> "db", invalid |-> FALSE] ELSE inst
      /\ conn' = TRUE
      /\ db' = IF made /\ db = NoFile THEN Empty ELSE db
      /\ wal' = IF inst'.at = "db" THEN [rows |-> log \union todo[t], kind |-> "own"] ELSE wal
      /\ bak' = IF inst'.at = "bak" THEN [bak EXCEPT !.rows = @ \union todo[t]] ELSE bak
      /\ UNCHANGED <<rec, bakWal>>

Done(t) ==
  /\ At(t, "use") /\ ret[t] /\ Error = "none"
  /\ Commit(t) /\ UNCHANGED ro
  /\ initError' = ConnError
  /\ acked' = acked \union todo[t]
  /\ Peril("beside", inst'.at # "db" \/ \E u \in Threads \ {t} : Copied(u))
  /\ Ends(t)
  /\ UNCHANGED <<count, todo, env>>

Refused(t) ==
  /\ At(t, "use") /\ ~ret[t]
  /\ Raised(t, StatusInvalid)
  /\ UNCHANGED <<files, opens, count, initError, todo, perils, env>>

Failed(t) ==
  /\ At(t, "use") /\ ret[t] /\ Error # "none"
  /\ Connect /\ UNCHANGED ro
  /\ initError' = ConnError
  /\ Raised(t, Error = "invalid")
  /\ UNCHANGED <<count, todo, perils, env>>

Run(t) == Check(t) \/ Refused(t) \/ Failed(t) \/ Done(t)

\* store_status(): a health check that recovers on its own.
Status(t) ==
  /\ Idle(t)
  /\ \/ ~conn /\ Call(t, "init", "idle")
     \/ conn /\ inst.invalid /\ Call(t, "soft", "recheck")
  /\ UNCHANGED <<files, opens, count, initError, calls, perils, env>>

Recheck(t) ==
  /\ At(t, "recheck")
  /\ Goto(t, IF StatusInvalid THEN "hard" ELSE "idle")
  /\ UNCHANGED <<files, opens, count, initError, calls, perils, env>>

-----------------------------------------------------------------------------
\* _ro_conn(): the thread opens its own connection, and keeps it.
OpenReader(t) ==
  /\ t \in Threads => Idle(t)
  /\ t \notin ro
  /\ Connect /\ initError' = ConnError
  /\ ro' = IF conn \/ Error = "none" THEN ro \union {t} ELSE ro
  /\ UNCHANGED <<count, control, calls, perils, env>>

\* A pool thread ends, and its connection with it.
CloseReader(t) ==
  /\ t \in Threads => Idle(t)
  /\ t \in ro
  /\ Hang(conn, ro \ {t})
  /\ UNCHANGED <<rec, count, initError, control, calls, perils, env>>

\* DuckDB invalidates the open database; its file may be damaged.
Fatal ==
  /\ inst # NoInst /\ ~inst.invalid
  /\ fatals < MaxFatals /\ fatals' = fatals + 1
  /\ inst' = [inst EXCEPT !.invalid = TRUE]
  /\ \/ UNCHANGED <<db, bak>>
     \/ /\ Damages
        /\ db' = IF inst.at = "db" THEN [db EXCEPT !.hurt = TRUE] ELSE db
        /\ bak' = IF inst.at = "bak" THEN [bak EXCEPT !.hurt = TRUE] ELSE bak
  /\ UNCHANGED <<rec, wal, bakWal, conn, ro, count, initError, control, calls, perils, crashes>>

\* The process dies and is started again.
Crash ==
  /\ crashes < MaxCrashes /\ crashes' = crashes + 1
  /\ inst' = NoInst /\ conn' = FALSE /\ ro' = {}
  /\ attempts' = 0 /\ initError' = FALSE
  /\ pc' = [t \in Threads |-> "idle"] /\ caller' = [t \in Threads |-> "idle"]
  /\ depth' = [t \in Threads |-> 0] /\ hard' = [t \in Threads |-> FALSE]
  /\ ret' = [t \in Threads |-> FALSE]
  /\ attempt' = [t \in Threads |-> 0]
  /\ resets' = [t \in Threads |-> 0]
  /\ Peril("torn", \E t \in Threads : Moving(t))
  /\ UNCHANGED <<files, todo, acked, fatals>>

Step(t) ==
  InitStore(t) \/ RebuildAndSwap(t) \/ ResetStore(t) \/ Run(t) \/ Recheck(t)

Next ==
  \/ \E t \in Threads : Step(t) \/ Begin(t) \/ Status(t)
  \/ \E t \in Readers : OpenReader(t) \/ CloseReader(t)
  \/ Fatal
  \/ Crash

Spec == Init /\ [][Next]_vars

\* The operating system runs every thread; no thread has to begin an operation.
FairSpec == Spec /\ \A t \in Threads : WF_vars(Step(t))

-----------------------------------------------------------------------------
\* The file at _DB_PATH holds every write that was reported as done, while no thread
\* has moved it away: unless the copy lost some, a fallback deleted it, the process
\* died between the renames, two threads rebuilt it at once, or the write was made
\* to a file that was being replaced. No other order of the steps of threads,
\* readers and crashes loses a write.
AckedKept ==
  perils \subseteq {"replaced"} /\ (\A t \in Threads : ~Moving(t)) =>
    acked \subseteq Content

\* What the copy or a crash lost is still in a file or a log beside it ("Preserves
\* the old file as .bak"), until the next recovery takes the name of the backup.
KeptForInspection ==
  perils \subseteq {"partial", "torn"} =>
    acked \subseteq UNION {RowsOf(f) : f \in {db, bak, wal, bakWal}}

\* Recovery does not recurse without end ("capped to prevent infinite recovery
\* loops"): at most MaxAttempts deep, and as deep again for each time that another
\* thread, which probed before the invalidation, clears the counter under it.
RecoveryBounded == \A t \in Threads : depth[t] <= MaxAttempts * (resets[t] + 1)

\* Every operation returns or raises.
OperationsEnd == \A t \in Threads : ~Idle(t) ~> Idle(t)
=============================================================================
