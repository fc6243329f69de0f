--------------------------- MODULE FtmStoreProofs ---------------------------
(***************************************************************************)
(* Theorems about the recovery of the entity store, for any number of      *)
(* threads that use it at once, any readers, invalidations, crashes,       *)
(* damage and failing disks: its types; that rebuilds do not nest without  *)
(* end; and what an acknowledged write can be lost to.                     *)
(***************************************************************************)
EXTENDS FtmStore, TLAPS

-----------------------------------------------------------------------------
(* Types, in the groups in which the actions change the variables.         *)
FilesType == {db, bak, rec} \subseteq File \union {NoFile}
LogsType  == {wal, bakWal} \subseteq Log \union {NoFile}
OpensType ==
  /\ inst \in Inst \union {NoInst} /\ conn \in BOOLEAN /\ ro \subseteq Readers
  /\ inst = NoInst <=> ~conn /\ ro = {}
ControlType ==
  /\ pc \in [Threads -> Labels] /\ caller \in [Threads -> Callers]
  /\ depth \in [Threads -> Nat] /\ hard \in [Threads -> BOOLEAN]
  /\ ret \in [Threads -> BOOLEAN]
CallsType ==
  /\ attempt \in [Threads -> 0..2]
  /\ todo \in [Threads -> SUBSET Writes] /\ acked \subseteq Writes
CountType == attempts \in Nat /\ resets \in [Threads -> Nat]
EnvType ==
  /\ perils \subseteq Perils
  /\ fatals \in 0..MaxFatals /\ crashes \in 0..MaxCrashes

LEMMA TypeParts ==
  TypeOK <=> /\ FilesType /\ LogsType /\ OpensType /\ ControlType /\ CallsType
             /\ CountType /\ EnvType /\ initError \in BOOLEAN
BY DEF TypeOK, FilesType, LogsType, OpensType, ControlType, CallsType, CountType, EnvType

\* A step of a thread moves only that thread.
LEMMA GoesMoves ==
  ASSUME ControlType, NEW t \in Threads, NEW l \in Labels, NEW v \in BOOLEAN, Goes(t, l, v)
  PROVE  /\ pc' \in [Threads -> Labels] /\ ret' \in [Threads -> BOOLEAN]
         /\ pc'[t] = l /\ ret'[t] = v
         /\ \A u \in Threads \ {t} : pc'[u] = pc[u] /\ ret'[u] = ret[u]
BY DEF ControlType, Goes

LEMMA GotoMoves ==
  ASSUME ControlType, NEW t \in Threads, NEW l \in Labels, Goto(t, l)
  PROVE  /\ ControlType' /\ pc'[t] = l /\ ~ret'[t] /\ depth' = depth
         /\ \A u \in Threads \ {t} : pc'[u] = pc[u] /\ ret'[u] = ret[u]
<1>1. Goes(t, l, FALSE) /\ depth' = depth /\ hard' = hard /\ caller' = caller BY DEF Goto
<1> QED BY <1>1, GoesMoves DEF ControlType

LEMMA CallMoves ==
  ASSUME ControlType, NEW t \in Threads, NEW l \in Labels, NEW c \in Callers, Call(t, l, c)
  PROVE  /\ ControlType' /\ pc'[t] = l /\ ~ret'[t] /\ depth' = depth
         /\ \A u \in Threads \ {t} : pc'[u] = pc[u] /\ ret'[u] = ret[u]
<1>1. Goes(t, l, FALSE) /\ depth' = depth /\ hard' = hard BY DEF Call
<1>2. caller' \in [Threads -> Callers] BY DEF Call, ControlType
<1> QED BY <1>1, <1>2, GoesMoves DEF ControlType

LEMMA CallsRebuild ==
  ASSUME ControlType, NEW t \in Threads, InitCalls(t) \/ ResetCalls(t)
  PROVE  /\ ControlType' /\ pc'[t] = "rebuild" /\ ~ret'[t]
         /\ InitCalls(t) => depth'[t] = depth[t] + 1
         /\ ResetCalls(t) => depth' = depth
         /\ \A u \in Threads \ {t} :
              pc'[u] = pc[u] /\ ret'[u] = ret[u] /\ depth'[u] = depth[u]
<1>1. Goes(t, "rebuild", FALSE) /\ caller' = caller BY DEF InitCalls, ResetCalls
<1>2. "rebuild" \in Labels BY DEF Labels
<1>3. depth' \in [Threads -> Nat] /\ hard' \in [Threads -> BOOLEAN]
  <2>1. CASE InitCalls(t)
    <3>1. depth' = [depth EXCEPT ![t] = @ + 1] /\ hard' = hard BY <2>1 DEF InitCalls
    <3>2. depth \in [Threads -> Nat] /\ hard \in [Threads -> BOOLEAN] BY DEF ControlType
    <3>3. depth[t] + 1 \in Nat BY <3>2
    <3> QED BY <3>1, <3>2, <3>3
  <2>2. CASE ResetCalls(t)
    <3>1. hard' = [hard EXCEPT ![t] = TRUE] /\ depth' = depth BY <2>2 DEF ResetCalls
    <3>2. depth \in [Threads -> Nat] /\ hard \in [Threads -> BOOLEAN] BY DEF ControlType
    <3> QED BY <3>1, <3>2
  <2> QED BY <2>1, <2>2
<1>4. InitCalls(t) =>
        /\ depth'[t] = depth[t] + 1
        /\ \A u \in Threads \ {t} : depth'[u] = depth[u]
  BY DEF InitCalls, ControlType
<1>5. ResetCalls(t) => depth' = depth BY DEF ResetCalls
<1>6. \A u \in Threads \ {t} : depth'[u] = depth[u] BY <1>4, <1>5
<1>7. /\ pc' \in [Threads -> Labels] /\ ret' \in [Threads -> BOOLEAN]
      /\ pc'[t] = "rebuild" /\ ~ret'[t]
      /\ \A u \in Threads \ {t} : pc'[u] = pc[u] /\ ret'[u] = ret[u]
  BY <1>1, <1>2, GoesMoves
<1> QED BY <1>1, <1>3, <1>4, <1>5, <1>6, <1>7 DEF ControlType

\* A return ends in the calling init_store while there are nested rebuilds.
LEMMA ReturnMoves ==
  ASSUME ControlType, NEW t \in Threads, NEW v \in BOOLEAN, Return(t, v)
  PROVE  /\ ControlType'
         /\ depth[t] > 0 => /\ depth'[t] = depth[t] - 1
                            /\ pc'[t] = "rebuilt" /\ ret'[t] = v
         /\ depth[t] = 0 => depth'[t] = 0 /\ pc'[t] \in Callers \union {"discard"}
         /\ \A u \in Threads \ {t} :
              pc'[u] = pc[u] /\ ret'[u] = ret[u] /\ depth'[u] = depth[u]
<1> USE DEF Labels, Callers
<1>0. /\ depth \in [Threads -> Nat] /\ caller \in [Threads -> Callers]
      /\ hard \in [Threads -> BOOLEAN]
  BY DEF ControlType
<1>1. CASE depth[t] > 0
  <2>1. Goes(t, "rebuilt", v) /\ hard' = hard /\ caller' = caller BY <1>0, <1>1 DEF Return
  <2>2. depth' = [depth EXCEPT ![t] = @ - 1] BY <1>0, <1>1 DEF Return
  <2>3. depth' \in [Threads -> Nat] /\ depth'[t] = depth[t] - 1 BY <1>0, <1>1, <2>2
  <2>4. \A u \in Threads \ {t} : depth'[u] = depth[u] BY <1>0, <2>2
  <2>5. "rebuilt" \in Labels OBVIOUS
  <2> QED BY <1>0, <1>1, <2>1, <2>3, <2>4, <2>5, GoesMoves DEF ControlType
<1>2. CASE depth[t] = 0 /\ hard[t]
  <2>1. Goes(t, "discard", v) /\ depth' = depth /\ caller' = caller
    BY <1>0, <1>2 DEF Return
  <2>2. hard' \in [Threads -> BOOLEAN] BY <1>0, <1>2 DEF Return
  <2>3. "discard" \in Labels OBVIOUS
  <2> QED BY <1>0, <1>2, <2>1, <2>2, <2>3, GoesMoves DEF ControlType
<1>3. CASE depth[t] = 0 /\ ~hard[t]
  <2>1. /\ Goes(t, caller[t], v /\ caller[t] # "idle") /\ depth' = depth /\ hard' = hard
        /\ caller' = [caller EXCEPT ![t] = "idle"]
    BY <1>0, <1>3 DEF Return
  <2>2. caller' \in [Threads -> Callers] /\ caller[t] \in Callers /\ caller[t] \in Labels
    BY <1>0, <2>1
  <2>3. (v /\ caller[t] # "idle") \in BOOLEAN OBVIOUS
  <2> QED BY <1>0, <1>3, <2>1, <2>2, <2>3, GoesMoves DEF ControlType
<1> QED BY <1>0, <1>1, <1>2, <1>3

\* The process starts with nothing open and nothing stored.
LEMMA InitType == Init => TypeOK
<1> SUFFICES ASSUME Init PROVE TypeOK
  OBVIOUS
<1> USE FtmAssumption DEF Init
<1>1. FilesType /\ LogsType /\ OpensType BY DEF FilesType, LogsType, OpensType
<1>2. ControlType BY DEF ControlType, Labels, Callers
<1>3. CallsType /\ CountType
  <2>1. attempt \in [Threads -> 0..2] /\ resets \in [Threads -> Nat] OBVIOUS
  <2>2. todo \in [Threads -> SUBSET Writes] /\ acked \subseteq Writes OBVIOUS
  <2> QED BY <2>1, <2>2 DEF CallsType, CountType
<1>4. EnvType /\ initError \in BOOLEAN
  <2>1. 0 \in 0..MaxFatals /\ 0 \in 0..MaxCrashes OBVIOUS
  <2>2. perils \subseteq Perils /\ fatals = 0 /\ crashes = 0 /\ initError \in BOOLEAN OBVIOUS
  <2> QED BY <2>1, <2>2 DEF EnvType
<1> QED BY <1>1, <1>2, <1>3, <1>4, TypeParts

\* The files and the database after connecting, closing, renaming and writing.
LEMMA ConnectType ==
  ASSUME TypeOK, Connect, ro' = ro
  PROVE  FilesType' /\ LogsType' /\ OpensType'
<1> USE FtmAssumption
<1>1. FilesType' /\ LogsType' BY DEF Connect, TypeOK, FilesType, LogsType, Empty, File
<1>2. inst' \in Inst \union {NoInst} BY DEF Connect, TypeOK, Inst
<1>3. inst # NoInst => inst' # NoInst BY DEF Connect
<1>4. conn' = (inst' # NoInst) BY DEF Connect
<1> QED BY <1>1, <1>2, <1>3, <1>4 DEF OpensType, TypeOK

LEMMA ContentType == TypeOK => Content \subseteq Writes
BY FtmAssumption DEF TypeOK, Content, File, Log

LEMMA RenamedType ==
  ASSUME TypeOK, NEW a, NEW b \in {"db", "bak", "none"}, Renamed(a, b)
  PROVE  /\ inst' \in Inst \union {NoInst} /\ (inst' = NoInst <=> inst = NoInst)
         /\ inst # NoInst =>
              /\ inst'.invalid = inst.invalid
              /\ inst'.at = IF inst.at = a THEN b
                            ELSE IF inst.at = b THEN "none" ELSE inst.at
BY FtmAssumption DEF Renamed, TypeOK, Inst

LEMMA OrphanType ==
  ASSUME TypeOK, NEW l \in Orphan
  PROVE  /\ l \in Log \union {NoFile} /\ (l = NoFile <=> wal = NoFile)
         /\ l # NoFile => l.kind # "own" /\ l.rows = wal.rows
BY FtmAssumption DEF TypeOK, Orphan, Log

\* An open database at a name has a file of that name.
InstSound ==
  inst # NoInst => (inst.at = "db" => db # NoFile) /\ (inst.at = "bak" => bak # NoFile)

\* The files and the database of the process, which the steps change together.
StoreType == FilesType /\ LogsType /\ OpensType /\ InstSound

LEMMA StoreTyped == TypeOK /\ InstSound => StoreType
BY TypeParts DEF StoreType

LEMMA StoreSame ==
  ASSUME TypeOK, InstSound, UNCHANGED <<files, opens>>
  PROVE  StoreType'
BY DEF files, opens, StoreType, TypeOK, InstSound, FilesType, LogsType, OpensType

LEMMA EmptyFile == Empty \in File /\ Empty # NoFile
<1>1. Empty \in File BY DEF Empty, File
<1> QED BY <1>1, FtmAssumption

LEMMA ConnectStore ==
  ASSUME TypeOK, InstSound, Connect, ro' = ro
  PROVE  StoreType'
<1>1. FilesType' /\ LogsType' /\ OpensType' BY ConnectType
<1>2. db # NoFile => db' # NoFile BY DEF Connect
<1>3. inst = NoInst /\ inst' # NoInst => inst'.at = "db" /\ db' # NoFile
  BY EmptyFile DEF Connect
<1>4. inst # NoInst => inst' = inst BY DEF Connect
<1>5. bak' = bak BY DEF Connect
<1> QED BY <1>1, <1>2, <1>3, <1>4, <1>5 DEF StoreType, InstSound

LEMMA HangStore ==
  ASSUME TypeOK, InstSound, NEW m \in BOOLEAN, NEW r \in SUBSET Readers, Hang(m, r),
         inst = NoInst => ~m /\ r = {}, rec' = rec \/ rec' = NoFile
  PROVE  StoreType'
<1> USE FtmAssumption
<1> DEFINE ends == ~m /\ r = {} /\ inst # NoInst
<1>1. OpensType' BY DEF Hang, TypeOK, OpensType
<1>2. LogsType' BY DEF Hang, TypeOK, LogsType
<1>3. ends /\ inst.at = "db" => db \in File BY DEF InstSound, TypeOK
<1>4. db' \in File \union {NoFile} /\ (db # NoFile => db' # NoFile)
  BY <1>3, ContentType DEF Hang, TypeOK, File
<1>5. bak' = bak /\ (inst' # NoInst => inst' = inst) BY DEF Hang
<1>6. FilesType' BY <1>4, <1>5 DEF FilesType, TypeOK
<1> QED BY <1>1, <1>2, <1>4, <1>5, <1>6 DEF StoreType, InstSound

LEMMA CloseStore ==
  ASSUME TypeOK, InstSound, NEW ts, Close(ts), rec' = rec \/ rec' = NoFile
  PROVE  StoreType'
<1>1. ro \ ts \in SUBSET Readers /\ (inst = NoInst => ro \ ts = {}) BY DEF TypeOK
<1> QED BY <1>1, HangStore DEF Close

LEMMA RemoveStore ==
  ASSUME TypeOK, InstSound, RemoveFile, UNCHANGED <<bak, rec, bakWal, conn, ro>>
  PROVE  StoreType'
<1>1. db' = NoFile /\ Renamed("db", "none") BY DEF RemoveFile
<1>2. wal' \in Log \union {NoFile} BY OrphanType DEF RemoveFile, TypeOK
<1>3. FilesType' /\ LogsType' BY <1>1, <1>2 DEF FilesType, LogsType, TypeOK
<1>4. OpensType' BY <1>1, RenamedType DEF OpensType, TypeOK
<1>5. InstSound' BY <1>1, RenamedType DEF InstSound
<1> QED BY <1>3, <1>4, <1>5 DEF StoreType

LEMMA RestoreStore ==
  ASSUME TypeOK, InstSound, Restore, rec' = NoFile, UNCHANGED <<wal, bakWal, conn, ro>>
  PROVE  StoreType'
<1>1. CASE db = NoFile /\ bak # NoFile
  <2>1. db' = bak /\ bak' = NoFile /\ Renamed("bak", "db") BY <1>1 DEF Restore
  <2>2. FilesType' /\ LogsType' BY <2>1 DEF FilesType, LogsType, TypeOK
  <2>3. OpensType' BY <2>1, RenamedType DEF OpensType, TypeOK
  <2>4. InstSound' BY <1>1, <2>1, RenamedType DEF InstSound
  <2> QED BY <2>2, <2>3, <2>4 DEF StoreType
<1>2. CASE ~(db = NoFile /\ bak # NoFile)
  <2>1. db' = db /\ bak' = bak /\ inst' = inst BY <1>2 DEF Restore
  <2> QED BY <2>1 DEF StoreType, FilesType, LogsType, OpensType, InstSound, TypeOK
<1> QED BY <1>1, <1>2

LEMMA CommitStore ==
  ASSUME TypeOK, InstSound, NEW t \in Threads, Commit(t), ro' = ro
  PROVE  StoreType'
<1> USE FtmAssumption
<1>1. todo[t] \subseteq Writes BY DEF TypeOK
<1>2. /\ inst' \in Inst /\ inst' # NoInst /\ conn'
      /\ inst # NoInst => inst' = inst
      /\ inst = NoInst => inst'.at = "db"
  <2>1. [at |-> "db", invalid |-> FALSE] \in Inst BY DEF Inst
  <2> QED BY <2>1 DEF Commit, TypeOK
<1>3. OpensType' BY <1>2 DEF OpensType, TypeOK, Commit
<1>4. db' \in File \union {NoFile} /\ (db # NoFile => db' # NoFile)
      /\ (inst = NoInst => db' # NoFile)
  BY EmptyFile DEF Commit, TypeOK
<1>5. CASE inst # NoInst /\ inst.at = "bak"
  <2>1. bak \in File BY <1>5 DEF InstSound, TypeOK
  <2>2. bak' = [bak EXCEPT !.rows = @ \union todo[t]] /\ wal' = wal
    BY <1>2, <1>5 DEF Commit
  <2>3. bak' \in File BY <1>1, <2>1, <2>2 DEF File
  <2>4. FilesType' /\ LogsType' BY <1>4, <2>2, <2>3 DEF FilesType, LogsType, TypeOK, Commit
  <2>5. InstSound' BY <1>2, <1>5, <2>3 DEF InstSound
  <2> QED BY <1>3, <2>4, <2>5 DEF StoreType
<1>6. CASE ~(inst # NoInst /\ inst.at = "bak")
  <2>1. bak' = bak BY <1>2, <1>6 DEF Commit
  <2>2. wal' \in Log \union {NoFile} BY <1>1 DEF Commit, TypeOK, Log
  <2>3. FilesType' /\ LogsType' BY <1>4, <2>1, <2>2 DEF FilesType, LogsType, TypeOK, Commit
  <2>4. InstSound' BY <1>2, <1>4, <1>6 DEF InstSound
  <2> QED BY <1>3, <2>3, <2>4 DEF StoreType
<1> QED BY <1>5, <1>6

LEMMA PerilType ==
  ASSUME TypeOK, NEW p \in Perils, NEW h, Peril(p, h)
  PROVE  perils' \subseteq Perils /\ perils \subseteq perils' /\ (h => p \in perils')
BY DEF Peril, TypeOK

LEMMA ErrorType ==
  TypeOK => ConnError \in BOOLEAN /\ StatusInvalid \in BOOLEAN
BY DEF TypeOK, ConnError, StatusInvalid, Inst

TypeInv == TypeOK /\ InstSound

LEMMA FromParts ==
  ASSUME StoreType', ControlType', CallsType', CountType', EnvType', initError' \in BOOLEAN
  PROVE  TypeInv'
BY DEF StoreType, ControlType, CallsType, CountType, EnvType, TypeInv, TypeOK,
       FilesType, LogsType, OpensType

\* The parts that a step of init_store leaves alone.
LEMMA Unchanged ==
  ASSUME TypeOK
  PROVE  /\ UNCHANGED calls => CallsType'
         /\ UNCHANGED count => CountType'
         /\ UNCHANGED <<perils, env>> => EnvType'
         /\ UNCHANGED control => ControlType'
BY DEF TypeOK, calls, count, env, control, CallsType, CountType, EnvType, ControlType

LEMMA InitStoreType ==
  ASSUME TypeInv, NEW t \in Threads, InitStore(t)
  PROVE  TypeInv'
<1> USE DEF Labels
<1>0. TypeOK /\ InstSound /\ ControlType BY TypeParts DEF TypeInv
<1>1. CASE InitCheck(t)
  <2>1. ControlType' BY <1>0, <1>1, GotoMoves, ReturnMoves DEF InitCheck
  <2>2. initError' = initError /\ UNCHANGED <<files, opens, count, calls, perils, env>>
    BY <1>1 DEF InitCheck
  <2>3. StoreType' BY <1>0, <2>2, StoreSame
  <2> QED BY <1>0, <2>1, <2>2, <2>3, Unchanged, FromParts DEF TypeOK
<1>2. CASE InitProbe(t)
  <2>1. ControlType' BY <1>0, <1>2, GotoMoves, ReturnMoves DEF InitProbe
  <2>2. StoreType' BY <1>0, <1>2, ConnectStore DEF InitProbe
  <2>3. initError' \in BOOLEAN BY <1>0, <1>2, ErrorType DEF InitProbe
  <2> QED BY <1>0, <1>2, <2>1, <2>2, <2>3, Unchanged, FromParts DEF InitProbe
<1>3. CASE InitReset(t)
  <2>1. ControlType' BY <1>0, <1>3, ReturnMoves DEF InitReset
  <2>2. StoreType' BY <1>0, <1>3, StoreSame DEF InitReset
  <2>3. CountType'
    <3>1. resets \in [Threads -> Nat] /\ attempts' = 0 BY <1>0, <1>3 DEF TypeOK, InitReset
    <3>2. resets' = [u \in Threads |->
            IF ~Recovering(u) THEN 0 ELSE IF u = t THEN resets[u] ELSE resets[u] + 1]
      BY <1>3 DEF InitReset
    <3> QED BY <3>1, <3>2 DEF CountType
  <2>4. initError' \in BOOLEAN BY <1>3 DEF InitReset
  <2> QED BY <1>0, <1>3, <2>1, <2>2, <2>3, <2>4, Unchanged, FromParts DEF InitReset
<1>4. CASE InitCount(t)
  <2>1. ControlType' BY <1>0, <1>4, GotoMoves DEF InitCount
  <2>2. StoreType' BY <1>0, <1>4, StoreSame DEF InitCount
  <2>3. CountType' BY <1>0, <1>4 DEF InitCount, CountType, TypeOK
  <2>4. initError' \in BOOLEAN BY <1>0, <1>4 DEF InitCount, TypeOK
  <2> QED BY <1>0, <1>4, <2>1, <2>2, <2>3, <2>4, Unchanged, FromParts DEF InitCount
<1>5. CASE InitClose(t)
  <2>1. ControlType' BY <1>0, <1>5, GotoMoves DEF InitClose
  <2>2. StoreType' BY <1>0, <1>5, CloseStore DEF InitClose
  <2>3. initError' \in BOOLEAN BY <1>5 DEF InitClose
  <2> QED BY <1>0, <1>5, <2>1, <2>2, <2>3, Unchanged, FromParts DEF InitClose
<1>6. CASE InitRetry(t)
  <2>1. ControlType'
    <3>1. CASE Return(t, TRUE) BY <1>0, <3>1, ReturnMoves
    <3>2. CASE Goes(t, "exists", Error = "invalid") /\ UNCHANGED <<depth, hard, caller>>
      <4>1. (Error = "invalid") \in BOOLEAN OBVIOUS
      <4> QED BY <1>0, <3>2, <4>1, GoesMoves DEF ControlType
    <3> QED BY <1>6, <3>1, <3>2 DEF InitRetry
  <2>2. StoreType' BY <1>0, <1>6, ConnectStore DEF InitRetry
  <2>3. initError' \in BOOLEAN BY <1>0, <1>6, ErrorType DEF InitRetry
  <2> QED BY <1>0, <1>6, <2>1, <2>2, <2>3, Unchanged, FromParts DEF InitRetry
<1>7. CASE InitExists(t)
  <2>1. ControlType' BY <1>0, <1>7, CallsRebuild, ReturnMoves DEF InitExists
  <2>2. StoreType' BY <1>0, <1>7, StoreSame DEF InitExists
  <2>3. initError' \in BOOLEAN BY <1>0, <1>7 DEF InitExists, TypeOK
  <2> QED BY <1>0, <1>7, <2>1, <2>2, <2>3, Unchanged, FromParts DEF InitExists
<1>8. CASE InitDelete(t)
  <2>1. ControlType' BY <1>0, <1>8, GotoMoves, ReturnMoves DEF InitDelete
  <2>2. StoreType' /\ perils' \subseteq Perils
    <3>1. CASE RemoveFile
      <4>1. perils' \subseteq Perils BY <1>0, <3>1, PerilType DEF RemoveFile, Perils
      <4> QED BY <1>0, <1>8, <3>1, <4>1, RemoveStore DEF InitDelete
    <3>2. CASE UNCHANGED <<db, wal, inst, perils>>
      <4>1. UNCHANGED <<files, opens>> BY <1>8, <3>2 DEF InitDelete, files, opens
      <4> QED BY <1>0, <3>2, <4>1, StoreSame DEF TypeOK
    <3> QED BY <1>8, <3>1, <3>2 DEF InitDelete
  <2>3. EnvType' BY <1>0, <1>8, <2>2 DEF InitDelete, EnvType, env, TypeOK
  <2>4. initError' \in BOOLEAN BY <1>0, <1>8 DEF InitDelete, TypeOK
  <2> QED BY <1>0, <1>8, <2>1, <2>2, <2>3, <2>4, Unchanged, FromParts DEF InitDelete
<1>9. CASE InitDrop(t)
  <2>1. ControlType' BY <1>0, <1>9, GotoMoves DEF InitDrop
  <2>2. StoreType' BY <1>0, <1>9, CloseStore DEF InitDrop
  <2>3. initError' \in BOOLEAN BY <1>9 DEF InitDrop
  <2> QED BY <1>0, <1>9, <2>1, <2>2, <2>3, Unchanged, FromParts DEF InitDrop
<1>10. CASE InitReprobe(t)
  <2>1. (Error = "none") \in BOOLEAN OBVIOUS
  <2>2. ControlType' BY <1>0, <1>10, <2>1, ReturnMoves DEF InitReprobe
  <2>3. StoreType' BY <1>0, <1>10, ConnectStore DEF InitReprobe
  <2>4. initError' \in BOOLEAN BY <1>10 DEF InitReprobe
  <2> QED BY <1>0, <1>10, <2>2, <2>3, <2>4, Unchanged, FromParts DEF InitReprobe
<1> QED BY <1>1, <1>2, <1>3, <1>4, <1>5, <1>6, <1>7, <1>8, <1>9, <1>10 DEF InitStore

LEMMA RebuildType ==
  ASSUME TypeInv, NEW t \in Threads, RebuildAndSwap(t)
  PROVE  TypeInv'
<1> USE DEF Labels
<1>0. TypeOK /\ InstSound /\ ControlType BY TypeParts DEF TypeInv
<1>1. CASE RebuildClose(t)
  <2>1. ControlType' BY <1>0, <1>1, GotoMoves DEF RebuildClose
  <2>2. StoreType' BY <1>0, <1>1, CloseStore DEF RebuildClose
  <2>3. perils' \subseteq Perils BY <1>0, <1>1, PerilType DEF RebuildClose, Perils
  <2>4. EnvType' BY <1>0, <1>1, <2>3 DEF RebuildClose, EnvType, env, TypeOK
  <2>5. initError' \in BOOLEAN BY <1>1 DEF RebuildClose
  <2> QED BY <1>0, <1>1, <2>1, <2>2, <2>4, <2>5, Unchanged, FromParts DEF RebuildClose
<1>2. CASE Salvage(t)
  <2>1. ControlType' BY <1>0, <1>2, GotoMoves, ReturnMoves DEF Salvage
  <2>2. StoreType' /\ perils' \subseteq Perils
    <3>1. CASE \E rows \in SUBSET Content :
                 /\ rec' = [rows |-> rows, hurt |-> FALSE]
                 /\ Peril("partial", rows # Content)
                 /\ UNCHANGED <<db, bak, inst>>
      <4>1. PICK rows \in SUBSET Content :
              /\ rec' = [rows |-> rows, hurt |-> FALSE]
              /\ Peril("partial", rows # Content)
              /\ UNCHANGED <<db, bak, inst>>
        BY <3>1
      <4>2. rec' \in File BY <1>0, <4>1, ContentType DEF File
      <4>3. perils' \subseteq Perils BY <1>0, <4>1, PerilType DEF Perils
      <4>4. FilesType' /\ LogsType' /\ OpensType' /\ InstSound'
        BY <1>0, <1>2, <4>1, <4>2
        DEF Salvage, FilesType, LogsType, OpensType, InstSound, TypeOK
      <4> QED BY <4>3, <4>4 DEF StoreType
    <3>2. CASE rec' = NoFile /\ Restore /\ perils' = perils
      BY <1>0, <1>2, <3>2, RestoreStore DEF Salvage, TypeOK
    <3> QED BY <1>2, <3>1, <3>2 DEF Salvage
  <2>3. EnvType' BY <1>0, <1>2, <2>2 DEF Salvage, EnvType, env, TypeOK
  <2>4. initError' \in BOOLEAN BY <1>0, <1>2 DEF Salvage, TypeOK
  <2> QED BY <1>0, <1>2, <2>1, <2>2, <2>3, <2>4, Unchanged, FromParts DEF Salvage
<1>3. CASE Unback(t)
  <2>1. ControlType' BY <1>0, <1>3, GotoMoves DEF Unback
  <2>2. bak' = NoFile /\ Renamed("bak", "none") /\ UNCHANGED <<db, rec, wal, bakWal, conn, ro>>
    BY <1>3 DEF Unback
  <2>3. FilesType' /\ LogsType' BY <1>0, <2>2 DEF FilesType, LogsType, TypeOK
  <2>4. OpensType' /\ InstSound'
    BY <1>0, <2>2, RenamedType DEF OpensType, InstSound, TypeOK
  <2>5. perils' \subseteq Perils BY <1>0, <1>3, PerilType DEF Unback, Perils
  <2>6. EnvType' BY <1>0, <1>3, <2>5 DEF Unback, EnvType, env, TypeOK
  <2>7. initError' \in BOOLEAN BY <1>0, <1>3 DEF Unback, TypeOK
  <2> QED BY <1>0, <1>3, <2>1, <2>3, <2>4, <2>6, <2>7, Unchanged, FromParts
      DEF Unback, StoreType
<1>4. CASE MoveWal(t)
  <2>1. ControlType' BY <1>0, <1>4, GotoMoves DEF MoveWal
  <2>2. LogsType' /\ perils' \subseteq Perils
    <3>1. CASE wal = NoFile BY <1>0, <1>4, <3>1 DEF MoveWal, LogsType, TypeOK
    <3>2. CASE wal # NoFile
      <4>1. wal \in Log BY <1>0, <3>2 DEF TypeOK
      <4>2. bakWal' = [wal EXCEPT !.kind = "own"] /\ wal' = NoFile
        BY <1>4, <3>2 DEF MoveWal
      <4>3. bakWal' \in Log BY <4>1, <4>2 DEF Log
      <4>4. perils' \subseteq Perils BY <1>0, <1>4, <3>2, PerilType DEF MoveWal, Perils
      <4> QED BY <4>2, <4>3, <4>4 DEF LogsType
    <3> QED BY <3>1, <3>2
  <2>3. FilesType' /\ OpensType' /\ InstSound'
    BY <1>0, <1>4 DEF MoveWal, opens, FilesType, OpensType, InstSound, TypeOK
  <2>4. EnvType' BY <1>0, <1>4, <2>2 DEF MoveWal, EnvType, env, TypeOK
  <2>5. initError' \in BOOLEAN BY <1>0, <1>4 DEF MoveWal, TypeOK
  <2> QED BY <1>0, <1>4, <2>1, <2>2, <2>3, <2>4, <2>5, Unchanged, FromParts
      DEF MoveWal, StoreType
<1>5. CASE Shelve(t)
  <2>1. ControlType' BY <1>0, <1>5, GotoMoves DEF Shelve
  <2>2. CASE db = NoFile
    <3>1. UNCHANGED <<files, opens>> BY <1>5, <2>2 DEF Shelve, files, opens
    <3>2. StoreType' BY <1>0, <3>1, StoreSame
    <3> QED BY <1>0, <1>5, <2>1, <3>2, Unchanged, FromParts DEF Shelve, TypeOK
  <2>3. CASE db # NoFile
    <3>1. /\ bak' = db /\ db' = NoFile /\ Renamed("db", "bak") /\ wal' \in Orphan
          /\ UNCHANGED <<rec, bakWal, conn, ro>>
      BY <1>5, <2>3 DEF Shelve
    <3>2. FilesType' /\ LogsType' BY <1>0, <3>1, OrphanType DEF FilesType, LogsType, TypeOK
    <3>3. OpensType' BY <1>0, <3>1, RenamedType DEF OpensType, TypeOK
    <3>4. InstSound' BY <1>0, <2>3, <3>1, RenamedType DEF InstSound
    <3> QED BY <1>0, <1>5, <2>1, <3>2, <3>3, <3>4, Unchanged, FromParts
        DEF Shelve, StoreType, TypeOK
  <2> QED BY <2>2, <2>3
<1>6. CASE Swap(t)
  <2>1. ControlType' BY <1>0, <1>6, GotoMoves, ReturnMoves DEF Swap
  <2>2. CASE rec # NoFile
    <3>1. /\ db' = rec /\ rec' = NoFile /\ Renamed("rec", "db") /\ wal' \in Orphan
          /\ UNCHANGED <<bak, bakWal, conn, ro>>
      BY <1>6, <2>2 DEF Swap
    <3>2. FilesType' /\ LogsType' BY <1>0, <3>1, OrphanType DEF FilesType, LogsType, TypeOK
    <3>3. OpensType' BY <1>0, <3>1, RenamedType DEF OpensType, TypeOK
    <3>4. inst # NoInst => inst.at # "rec" BY <1>0 DEF TypeOK, Inst
    <3>5. InstSound' BY <1>0, <2>2, <3>1, <3>4, RenamedType DEF InstSound
    <3> QED BY <1>0, <1>6, <2>1, <3>2, <3>3, <3>5, Unchanged, FromParts
        DEF Swap, StoreType, TypeOK
  <2>3. CASE rec = NoFile
    <3>1. Restore /\ rec' = NoFile /\ UNCHANGED <<wal, bakWal, conn, ro>>
      BY <1>6, <2>3 DEF Swap
    <3>2. StoreType' BY <1>0, <3>1, RestoreStore
    <3> QED BY <1>0, <1>6, <2>1, <3>2, Unchanged, FromParts DEF Swap, TypeOK
  <2> QED BY <2>2, <2>3
<1> QED BY <1>1, <1>2, <1>3, <1>4, <1>5, <1>6 DEF RebuildAndSwap

LEMMA ResetType ==
  ASSUME TypeInv, NEW t \in Threads, ResetStore(t)
  PROVE  TypeInv'
<1> USE DEF Labels
<1>0. TypeOK /\ InstSound /\ ControlType BY TypeParts DEF TypeInv
<1>1. CASE ResetClose(t)
  <2>1. ControlType' BY <1>0, <1>1, GotoMoves, CallsRebuild DEF ResetClose
  <2>2. StoreType' BY <1>0, <1>1, CloseStore DEF ResetClose
  <2>3. initError' \in BOOLEAN BY <1>1 DEF ResetClose
  <2> QED BY <1>0, <1>1, <2>1, <2>2, <2>3, Unchanged, FromParts DEF ResetClose
<1>2. CASE ResetDelete(t)
  <2>1. ControlType' BY <1>0, <1>2, GotoMoves, ReturnMoves DEF ResetDelete
  <2>2. StoreType' /\ perils' \subseteq Perils
    <3>1. CASE RemoveFile
      <4>1. perils' \subseteq Perils BY <1>0, <3>1, PerilType DEF RemoveFile, Perils
      <4> QED BY <1>0, <1>2, <3>1, <4>1, RemoveStore DEF ResetDelete
    <3>2. CASE UNCHANGED <<db, wal, inst, perils>>
      <4>1. UNCHANGED <<files, opens>> BY <1>2, <3>2 DEF ResetDelete, files, opens
      <4> QED BY <1>0, <3>2, <4>1, StoreSame DEF TypeOK
    <3> QED BY <1>2, <3>1, <3>2 DEF ResetDelete
  <2>3. EnvType' BY <1>0, <1>2, <2>2 DEF ResetDelete, EnvType, env, TypeOK
  <2>4. initError' \in BOOLEAN BY <1>0, <1>2 DEF ResetDelete, TypeOK
  <2> QED BY <1>0, <1>2, <2>1, <2>2, <2>3, <2>4, Unchanged, FromParts DEF ResetDelete
<1>3. CASE ResetDropWal(t)
  <2>1. ControlType' BY <1>0, <1>3, GotoMoves DEF ResetDropWal
  <2>2. StoreType'
    BY <1>0, <1>3 DEF ResetDropWal, opens, StoreType, FilesType, LogsType, OpensType,
                      InstSound, TypeOK
  <2>3. perils' \subseteq Perils BY <1>0, <1>3, PerilType DEF ResetDropWal, Perils
  <2>4. EnvType' BY <1>0, <1>3, <2>3 DEF ResetDropWal, EnvType, env, TypeOK
  <2>5. initError' \in BOOLEAN BY <1>0, <1>3 DEF ResetDropWal, TypeOK
  <2> QED BY <1>0, <1>3, <2>1, <2>2, <2>4, <2>5, Unchanged, FromParts DEF ResetDropWal
<1> QED BY <1>1, <1>2, <1>3 DEF ResetStore

\* An operation that raised starts a reset, or ends.
LEMMA RaisedMoves ==
  ASSUME TypeOK, NEW t \in Threads, NEW v, Raised(t, v)
  PROVE  /\ ControlType' /\ attempt' \in [Threads -> 0..2] /\ acked' = acked
         /\ depth' = depth /\ ~ret'[t] /\ pc'[t] \in {"soft", "hard", "idle"}
         /\ \A u \in Threads \ {t} : pc'[u] = pc[u] /\ ret'[u] = ret[u]
<1> USE DEF Labels, Callers
<1>0. ControlType /\ attempt \in [Threads -> 0..2] BY TypeParts DEF TypeOK
<1>1. CASE v /\ attempt[t] < 2
  <2>1. /\ Call(t, IF attempt[t] = 0 THEN "soft" ELSE "hard", "run")
        /\ attempt' = [attempt EXCEPT ![t] = @ + 1] /\ acked' = acked
    BY <1>1 DEF Raised
  <2>2. attempt' \in [Threads -> 0..2] BY <1>0, <1>1, <2>1
  <2>3. (IF attempt[t] = 0 THEN "soft" ELSE "hard") \in {"soft", "hard"} /\ "run" \in Callers
    OBVIOUS
  <2> QED BY <1>0, <2>1, <2>2, <2>3, CallMoves
<1>2. CASE ~(v /\ attempt[t] < 2)
  <2>1. Goto(t, "idle") /\ attempt' = [attempt EXCEPT ![t] = 0] /\ acked' = acked
    BY <1>2 DEF Raised, Ends
  <2>2. attempt' \in [Threads -> 0..2] BY <1>0, <2>1
  <2> QED BY <1>0, <2>1, <2>2, GotoMoves
<1> QED BY <1>1, <1>2

LEMMA RunType ==
  ASSUME TypeInv, NEW t \in Threads, Run(t) \/ Recheck(t)
  PROVE  TypeInv'
<1> USE DEF Labels, Callers
<1>0. TypeOK /\ InstSound /\ ControlType BY TypeParts DEF TypeInv
<1>1. CASE Check(t)
  <2>1. ControlType'
    <3>1. CASE Goes(t, "use", TRUE) /\ UNCHANGED <<depth, hard, caller>>
      BY <1>0, <3>1, GoesMoves DEF ControlType
    <3>2. CASE Call(t, "init", "use") BY <1>0, <3>2, CallMoves
    <3> QED BY <1>1, <3>1, <3>2 DEF Check
  <2>2. StoreType' BY <1>0, <1>1, StoreSame DEF Check
  <2>3. initError' \in BOOLEAN BY <1>0, <1>1 DEF Check, TypeOK
  <2> QED BY <1>0, <1>1, <2>1, <2>2, <2>3, Unchanged, FromParts DEF Check
<1>2. CASE Refused(t)
  <2>1. ControlType' /\ CallsType'
    BY <1>0, <1>2, RaisedMoves DEF Refused, CallsType, TypeOK
  <2>2. StoreType' BY <1>0, <1>2, StoreSame DEF Refused
  <2>3. initError' \in BOOLEAN BY <1>0, <1>2 DEF Refused, TypeOK
  <2> QED BY <1>0, <1>2, <2>1, <2>2, <2>3, Unchanged, FromParts DEF Refused
<1>3. CASE Failed(t)
  <2>1. ControlType' /\ CallsType'
    BY <1>0, <1>3, RaisedMoves DEF Failed, CallsType, TypeOK
  <2>2. StoreType' BY <1>0, <1>3, ConnectStore DEF Failed
  <2>3. initError' \in BOOLEAN BY <1>0, <1>3, ErrorType DEF Failed
  <2> QED BY <1>0, <1>3, <2>1, <2>2, <2>3, Unchanged, FromParts DEF Failed
<1>4. CASE Done(t)
  <2>1. ControlType' BY <1>0, <1>4, GotoMoves DEF Done, Ends
  <2>2. CallsType'
    <3>1. attempt' = [attempt EXCEPT ![t] = 0] /\ todo' = todo /\ acked' = acked \union todo[t]
      BY <1>4 DEF Done, Ends
    <3>2. todo[t] \subseteq Writes BY <1>0 DEF TypeOK
    <3> QED BY <1>0, <3>1, <3>2 DEF CallsType, TypeOK
  <2>3. StoreType' BY <1>0, <1>4, CommitStore DEF Done
  <2>4. perils' \subseteq Perils BY <1>0, <1>4, PerilType DEF Done, Perils
  <2>5. EnvType' BY <1>0, <1>4, <2>4 DEF Done, EnvType, env, TypeOK
  <2>6. initError' \in BOOLEAN BY <1>0, <1>4, ErrorType DEF Done
  <2> QED BY <1>0, <1>4, <2>1, <2>2, <2>3, <2>5, <2>6, Unchanged, FromParts DEF Done
<1>5. CASE Recheck(t)
  <2>1. ControlType' BY <1>0, <1>5, GotoMoves DEF Recheck
  <2>2. StoreType' BY <1>0, <1>5, StoreSame DEF Recheck
  <2>3. initError' \in BOOLEAN BY <1>0, <1>5 DEF Recheck, TypeOK
  <2> QED BY <1>0, <1>5, <2>1, <2>2, <2>3, Unchanged, FromParts DEF Recheck
<1> QED BY <1>1, <1>2, <1>3, <1>4, <1>5 DEF Run

LEMMA StartType ==
  ASSUME TypeInv, NEW t \in Threads, Begin(t) \/ Status(t)
  PROVE  TypeInv'
<1> USE DEF Labels, Callers
<1>0. TypeOK /\ InstSound /\ ControlType BY TypeParts DEF TypeInv
<1>1. CASE Begin(t)
  <2>1. ControlType' BY <1>0, <1>1, GotoMoves DEF Begin
  <2>2. CallsType' BY <1>0, <1>1 DEF Begin, CallsType, TypeOK
  <2>3. StoreType' BY <1>0, <1>1, StoreSame DEF Begin
  <2>4. initError' \in BOOLEAN BY <1>0, <1>1 DEF Begin, TypeOK
  <2> QED BY <1>0, <1>1, <2>1, <2>2, <2>3, <2>4, Unchanged, FromParts DEF Begin
<1>2. CASE Status(t)
  <2>1. ControlType' BY <1>0, <1>2, CallMoves DEF Status
  <2>2. StoreType' BY <1>0, <1>2, StoreSame DEF Status
  <2>3. initError' \in BOOLEAN BY <1>0, <1>2 DEF Status, TypeOK
  <2> QED BY <1>0, <1>2, <2>1, <2>2, <2>3, Unchanged, FromParts DEF Status
<1> QED BY <1>1, <1>2

LEMMA ReaderType ==
  ASSUME TypeInv, NEW t \in Readers, OpenReader(t) \/ CloseReader(t)
  PROVE  TypeInv'
<1>0. TypeOK /\ InstSound /\ ControlType BY TypeParts DEF TypeInv
<1>1. CASE OpenReader(t)
  <2>1. Connect /\ ro' = IF conn \/ Error = "none" THEN ro \union {t} ELSE ro
    BY <1>1 DEF OpenReader
  <2>2. FilesType' /\ LogsType' BY <1>0, <2>1 DEF Connect, TypeOK, FilesType, LogsType, Empty, File
  <2>3. inst' \in Inst \union {NoInst} /\ conn' = (inst' # NoInst)
    BY <1>0, <2>1 DEF Connect, TypeOK, Inst
  <2>4. conn \/ Error = "none" => inst' # NoInst
    <3>1. [at |-> "db", invalid |-> FALSE] # NoInst
      <4>1. [at |-> "db", invalid |-> FALSE] \in Inst BY DEF Inst
      <4> QED BY <4>1, FtmAssumption
    <3>2. conn => inst # NoInst BY <1>0 DEF TypeOK
    <3> QED BY <2>1, <3>1, <3>2 DEF Connect
  <2>5. inst' = NoInst => inst = NoInst BY <1>0, <2>1 DEF Connect
  <2>6. ro' \subseteq Readers /\ (inst' = NoInst => ro' = {})
    BY <1>0, <2>1, <2>4, <2>5 DEF TypeOK
  <2>7. OpensType' BY <2>3, <2>6 DEF OpensType
  <2>8. InstSound'
    <3>1. db # NoFile => db' # NoFile BY <2>1 DEF Connect
    <3>2. inst = NoInst /\ inst' # NoInst => inst'.at = "db" /\ db' # NoFile
      BY <2>1, EmptyFile DEF Connect
    <3>3. (inst # NoInst => inst' = inst) /\ bak' = bak BY <2>1 DEF Connect
    <3> QED BY <1>0, <3>1, <3>2, <3>3 DEF InstSound
  <2>9. StoreType' BY <2>2, <2>7, <2>8 DEF StoreType
  <2>10. initError' \in BOOLEAN BY <1>0, <1>1, ErrorType DEF OpenReader
  <2> QED BY <1>0, <1>1, <2>9, <2>10, Unchanged, FromParts DEF OpenReader
<1>2. CASE CloseReader(t)
  <2>1. Hang(conn, ro \ {t}) /\ rec' = rec BY <1>2 DEF CloseReader
  <2>2. /\ conn \in BOOLEAN /\ ro \ {t} \in SUBSET Readers
        /\ inst = NoInst => ~conn /\ ro \ {t} = {}
    BY <1>0 DEF TypeOK
  <2>3. StoreType' BY <1>0, <2>1, <2>2, HangStore
  <2>4. initError' \in BOOLEAN BY <1>0, <1>2 DEF CloseReader, TypeOK
  <2> QED BY <1>0, <1>2, <2>3, <2>4, Unchanged, FromParts DEF CloseReader
<1> QED BY <1>1, <1>2

\* What an invalidation changes: neither the rows nor the existence of a file.
LEMMA FatalEffect ==
  ASSUME TypeInv, Fatal
  PROVE  /\ StoreType'
         /\ db' = NoFile <=> db = NoFile
         /\ bak' = NoFile <=> bak = NoFile
         /\ db # NoFile => db'.rows = db.rows
         /\ bak # NoFile => bak'.rows = bak.rows
<1> USE FtmAssumption DEF TypeInv
<1>1. /\ inst \in Inst /\ inst' = [inst EXCEPT !.invalid = TRUE]
      /\ UNCHANGED <<rec, wal, bakWal, conn, ro>>
  BY DEF Fatal, TypeOK
<1>2. inst' \in Inst /\ inst'.at = inst.at BY <1>1 DEF Inst
<1>3. OpensType' BY <1>1, <1>2 DEF OpensType, TypeOK
<1>4. /\ db' = db \/ (db # NoFile /\ db' = [db EXCEPT !.hurt = TRUE])
      /\ bak' = bak \/ (bak # NoFile /\ bak' = [bak EXCEPT !.hurt = TRUE])
  BY DEF Fatal, InstSound
<1>5. /\ db' \in File \union {NoFile} /\ (db' = NoFile <=> db = NoFile)
      /\ db # NoFile => db'.rows = db.rows
  <2>1. CASE db' = db BY <2>1 DEF TypeOK
  <2>2. CASE db # NoFile /\ db' = [db EXCEPT !.hurt = TRUE]
    <3>1. db \in File BY <2>2 DEF TypeOK
    <3>2. db' \in File /\ db'.rows = db.rows BY <2>2, <3>1 DEF File
    <3> QED BY <2>2, <3>2
  <2> QED BY <1>4, <2>1, <2>2
<1>6. /\ bak' \in File \union {NoFile} /\ (bak' = NoFile <=> bak = NoFile)
      /\ bak # NoFile => bak'.rows = bak.rows
  <2>1. CASE bak' = bak BY <2>1 DEF TypeOK
  <2>2. CASE bak # NoFile /\ bak' = [bak EXCEPT !.hurt = TRUE]
    <3>1. bak \in File BY <2>2 DEF TypeOK
    <3>2. bak' \in File /\ bak'.rows = bak.rows BY <2>2, <3>1 DEF File
    <3> QED BY <2>2, <3>2
  <2> QED BY <1>4, <2>1, <2>2
<1>7. FilesType' /\ LogsType' BY <1>1, <1>5, <1>6 DEF FilesType, LogsType, TypeOK
<1>8. InstSound' BY <1>1, <1>2, <1>5, <1>6 DEF InstSound
<1> QED BY <1>3, <1>5, <1>6, <1>7, <1>8 DEF StoreType

LEMMA EnvironmentType ==
  ASSUME TypeInv, Fatal \/ Crash
  PROVE  TypeInv'
<1>0. TypeOK /\ InstSound /\ ControlType BY TypeParts DEF TypeInv
<1>1. CASE Fatal
  <2>1. StoreType' BY <1>1, FatalEffect
  <2>2. fatals' \in 0..MaxFatals BY <1>0, <1>1, FtmAssumption DEF Fatal, TypeOK
  <2>3. EnvType' BY <1>0, <1>1, <2>2 DEF Fatal, EnvType, TypeOK
  <2>4. initError' \in BOOLEAN BY <1>0, <1>1 DEF Fatal, TypeOK
  <2> QED BY <1>0, <1>1, <2>1, <2>3, <2>4, Unchanged, FromParts DEF Fatal
<1>2. CASE Crash
  <2>1. StoreType'
    BY <1>0, <1>2 DEF Crash, files, StoreType, FilesType, LogsType, OpensType, InstSound, TypeOK
  <2>2. ControlType' BY <1>2 DEF Crash, ControlType, Labels, Callers
  <2>3. CountType' BY <1>2 DEF Crash, CountType
  <2>4. attempt' \in [Threads -> 0..2] BY <1>2 DEF Crash
  <2>5. CallsType' BY <1>0, <1>2, <2>4 DEF Crash, CallsType, TypeOK
  <2>6. perils' \subseteq Perils BY <1>0, <1>2, PerilType DEF Crash, Perils
  <2>7. crashes' \in 0..MaxCrashes BY <1>0, <1>2, FtmAssumption DEF Crash, TypeOK
  <2>8. EnvType' BY <1>0, <1>2, <2>6, <2>7 DEF Crash, EnvType, TypeOK
  <2>9. initError' \in BOOLEAN BY <1>2 DEF Crash
  <2> QED BY <2>1, <2>2, <2>3, <2>5, <2>8, <2>9, FromParts
<1> QED BY <1>1, <1>2

LEMMA NextType == TypeInv /\ [Next]_vars => TypeInv'
<1> SUFFICES ASSUME TypeInv, [Next]_vars PROVE TypeInv'
  OBVIOUS
<1>1. ASSUME NEW t \in Threads, Step(t) PROVE TypeInv'
  BY <1>1, InitStoreType, RebuildType, ResetType, RunType DEF Step
<1>2. ASSUME NEW t \in Threads, Begin(t) \/ Status(t) PROVE TypeInv'
  BY <1>2, StartType
<1>3. ASSUME NEW t \in Readers, OpenReader(t) \/ CloseReader(t) PROVE TypeInv'
  BY <1>3, ReaderType
<1>4. CASE Fatal \/ Crash BY <1>4, EnvironmentType
<1>5. CASE UNCHANGED vars
  <2>1. /\ UNCHANGED <<files, opens>> /\ UNCHANGED calls /\ UNCHANGED count
        /\ UNCHANGED <<perils, env>> /\ UNCHANGED control /\ initError' = initError
    BY <1>5 DEF vars
  <2>2. TypeOK /\ InstSound BY DEF TypeInv
  <2>3. StoreType' BY <2>1, <2>2, StoreSame
  <2> QED BY <2>1, <2>2, <2>3, Unchanged, FromParts DEF TypeOK
<1> QED BY <1>1, <1>2, <1>3, <1>4, <1>5 DEF Next

LEMMA TypeInvAlways == Spec => []TypeInv
<1>1. Init => TypeInv BY InitType DEF TypeInv, InstSound, Init
<1> QED BY <1>1, NextType, PTL DEF Spec

\* The types of the store: its files, the database of the process, the points where
\* its threads are and the histories, whatever fails.
THEOREM TypeCorrect == Spec => []TypeOK
<1>1. TypeInv => TypeOK BY DEF TypeInv
<1> QED BY <1>1, TypeInvAlways, PTL

-----------------------------------------------------------------------------
(***************************************************************************)
(* RecoveryBounded. Every nested rebuild was counted, and the counter was  *)
(* below its maximum when the thread went on; a reset by another thread    *)
(* adds one to resets instead. After a success of its own the thread only  *)
(* returns.                                                                *)
(***************************************************************************)
Counted == IF attempts < MaxAttempts THEN attempts ELSE MaxAttempts
Tried(t) == IF pc[t] \in {"close", "retry", "exists"} THEN 1 ELSE 0

\* The part of the bound that the resets by others account for.
Allowance(t) == MaxAttempts * resets[t]

Bounded(t) ==
  /\ depth[t] <= Allowance(t) + MaxAttempts
  /\ ~(At(t, "rebuilt") /\ ret[t]) => depth[t] + Tried(t) <= Allowance(t) + Counted
  /\ pc[t] \in {"probe", "count"} => depth[t] + 1 <= Allowance(t) + MaxAttempts

LEMMA Numbers ==
  ASSUME TypeOK, NEW t \in Threads
  PROVE  /\ MaxAttempts \in Nat \ {0} /\ attempts \in Nat /\ depth[t] \in Nat
         /\ resets[t] \in Nat /\ Allowance(t) \in Nat /\ Counted \in 0..MaxAttempts
         /\ Tried(t) \in {0, 1}
<1>1. MaxAttempts \in Nat \ {0} /\ attempts \in Nat /\ depth[t] \in Nat /\ resets[t] \in Nat
  BY FtmAssumption DEF TypeOK
<1>2. \A m, r \in Nat : m * r \in Nat OBVIOUS
<1> QED BY <1>1, <1>2 DEF Allowance, Counted, Tried

\* A thread that stays where it is keeps its bound: more attempts only raise it, and a
\* reset of the counter is made good by the count of resets.
LEMMA BoundedStays ==
  ASSUME TypeOK, TypeOK', NEW t \in Threads, Bounded(t),
         pc'[t] = pc[t], ret'[t] = ret[t], depth'[t] = depth[t],
         \/ attempts' >= attempts /\ resets'[t] = resets[t]
         \/ resets'[t] = resets[t] + 1
         \/ resets'[t] = 0 /\ ~Recovering(t)
  PROVE  Bounded(t)'
<1>1. /\ MaxAttempts \in Nat \ {0} /\ attempts \in Nat /\ depth[t] \in Nat
      /\ resets[t] \in Nat /\ Allowance(t) \in Nat /\ Counted \in 0..MaxAttempts
      /\ Tried(t) \in {0, 1}
  BY Numbers
<1>2. attempts' \in Nat /\ Counted' \in 0..MaxAttempts /\ Tried(t)' = Tried(t)
  BY <1>1 DEF TypeOK, Counted, Tried
<1>3. At(t, "rebuilt")' = At(t, "rebuilt") BY DEF At
<1>4. CASE attempts' >= attempts /\ resets'[t] = resets[t]
  <2>1. Allowance(t)' = Allowance(t) BY <1>4 DEF Allowance
  <2>2. Counted' >= Counted BY <1>1, <1>2, <1>4 DEF Counted
  <2> QED BY <1>1, <1>2, <1>3, <2>1, <2>2 DEF Bounded
<1>5. CASE resets'[t] = resets[t] + 1
  <2>1. Allowance(t)' = Allowance(t) + MaxAttempts
    <3>1. \A m, r \in Nat : m * (r + 1) = m * r + m OBVIOUS
    <3> QED BY <1>1, <1>5, <3>1 DEF Allowance
  <2> QED BY <1>1, <1>2, <1>3, <2>1 DEF Bounded
<1>6. CASE resets'[t] = 0 /\ ~Recovering(t)
  <2>1. Allowance(t)' = 0
    <3>1. \A m \in Nat : m * 0 = 0 OBVIOUS
    <3> QED BY <1>1, <1>6, <3>1 DEF Allowance
  <2>2. depth[t] = 0 /\ Tried(t) = 0 BY <1>1, <1>6 DEF Recovering, Tried, At
  <2>3. /\ depth'[t] <= Allowance(t)' + MaxAttempts
        /\ depth'[t] + Tried(t)' <= Allowance(t)' + Counted'
        /\ depth'[t] + 1 <= Allowance(t)' + MaxAttempts
    <3>1. depth'[t] = 0 /\ Tried(t)' = 0 BY <1>2, <2>2
    <3>2. MaxAttempts >= 1 /\ Counted' >= 0 BY <1>1, <1>2
    <3>3. MaxAttempts \in Nat /\ Counted' \in Nat BY <1>1, <1>2
    <3>4. \A a, d, e, m, c \in Nat : a = 0 /\ d = 0 /\ e = 0 /\ m >= 1 =>
            d <= a + m /\ d + e <= a + c /\ d + 1 <= a + m
      OBVIOUS
    <3>5. depth'[t] \in Nat /\ Tried(t)' \in Nat /\ Allowance(t)' \in Nat BY <2>1, <3>1
    <3> QED BY <2>1, <3>1, <3>2, <3>3, <3>4, <3>5
  <2> QED BY <2>3 DEF Bounded
<1> QED BY <1>4, <1>5, <1>6

\* A step that leaves the depth, the counter and the resets alone, and does not enter
\* a point at which more is known.
LEMMA BoundedMoves ==
  ASSUME TypeOK, TypeOK', NEW t \in Threads, Bounded(t), ~(At(t, "rebuilt") /\ ret[t]),
         attempts' = attempts, resets' = resets, depth'[t] <= depth[t],
         pc'[t] \notin {"close", "retry", "exists", "probe", "count"}
  PROVE  Bounded(t)'
<1>1. /\ MaxAttempts \in Nat \ {0} /\ attempts \in Nat /\ depth[t] \in Nat
      /\ resets[t] \in Nat /\ Allowance(t) \in Nat /\ Counted \in 0..MaxAttempts
      /\ Tried(t) \in {0, 1}
  BY Numbers
<1>2. Tried(t)' = 0 /\ depth'[t] \in Nat BY DEF Tried, TypeOK
<1>3. Counted' = Counted /\ Allowance(t)' = Allowance(t) BY DEF Counted, Allowance
<1> QED BY <1>1, <1>2, <1>3 DEF Bounded

\* A success: the thread returns, through all nested rebuilds.
LEMMA BoundedReturns ==
  ASSUME TypeOK, TypeOK', NEW t \in Threads, Bounded(t), Return(t, TRUE),
         resets'[t] = resets[t] \/ depth[t] = 0
  PROVE  Bounded(t)'
<1> USE DEF Callers
<1>0. ControlType BY TypeParts
<1>1. /\ MaxAttempts \in Nat \ {0} /\ depth[t] \in Nat /\ Allowance(t) \in Nat
      /\ resets[t] \in Nat
  BY Numbers
<1>2. /\ depth[t] > 0 => depth'[t] = depth[t] - 1 /\ pc'[t] = "rebuilt" /\ ret'[t]
      /\ depth[t] = 0 => depth'[t] = 0 /\ pc'[t] \in Callers \union {"discard"}
  BY <1>0, ReturnMoves
<1>3. Allowance(t)' \in Nat /\ Counted' \in 0..MaxAttempts
  <2>1. resets'[t] \in Nat /\ attempts' \in Nat BY DEF TypeOK
  <2>2. \A m, r \in Nat : m * r \in Nat OBVIOUS
  <2> QED BY <1>1, <2>1, <2>2 DEF Allowance, Counted
<1>4. CASE depth[t] > 0
  <2>1. Allowance(t)' = Allowance(t) BY <1>4 DEF Allowance
  <2> QED BY <1>1, <1>2, <1>3, <1>4, <2>1 DEF Bounded, At
<1>5. CASE depth[t] = 0
  <2>1. Tried(t)' = 0 /\ pc'[t] \notin {"probe", "count"} BY <1>2, <1>5 DEF Tried
  <2> QED BY <1>1, <1>2, <1>3, <1>5, <2>1 DEF Bounded
<1> QED BY <1>1, <1>4, <1>5

\* The steps of the thread itself.
LEMMA InitBounded ==
  ASSUME TypeOK, TypeOK', NEW t \in Threads, Bounded(t), InitStore(t)
  PROVE  /\ Bounded(t)'
         /\ \A u \in Threads \ {t} :
              /\ pc'[u] = pc[u] /\ ret'[u] = ret[u] /\ depth'[u] = depth[u]
              /\ \/ attempts' >= attempts /\ resets'[u] = resets[u]
                 \/ resets'[u] = resets[u] + 1
                 \/ resets'[u] = 0 /\ ~Recovering(u)
<1> USE DEF Labels
<1>0. /\ ControlType /\ resets \in [Threads -> Nat]
      /\ MaxAttempts \in Nat \ {0} /\ attempts \in Nat /\ depth[t] \in Nat
      /\ resets[t] \in Nat /\ Allowance(t) \in Nat /\ Counted \in 0..MaxAttempts
      /\ Tried(t) \in {0, 1}
  BY Numbers, TypeParts DEF TypeOK
<1> DEFINE Alone == \A u \in Threads \ {t} :
             /\ pc'[u] = pc[u] /\ ret'[u] = ret[u] /\ depth'[u] = depth[u]
             /\ \/ attempts' >= attempts /\ resets'[u] = resets[u]
                \/ resets'[u] = resets[u] + 1
                \/ resets'[u] = 0 /\ ~Recovering(u)
\* A failure of the call, after which the thread returns or goes to delete the file.
<1>1. ASSUME Return(t, FALSE) \/ Return(t, Error = "none"), ~At(t, "rebuilt"),
             UNCHANGED count
      PROVE  Bounded(t)' /\ Alone
  <2>1. attempts' = attempts /\ resets' = resets BY <1>1 DEF count
  <2>2. PICK v \in BOOLEAN : Return(t, v)
    <3>1. (Error = "none") \in BOOLEAN /\ FALSE \in BOOLEAN OBVIOUS
    <3> QED BY <1>1, <3>1
  <2>3. /\ depth'[t] <= depth[t]
        /\ pc'[t] \in Callers \union {"discard", "rebuilt"}
        /\ \A u \in Threads \ {t} :
             pc'[u] = pc[u] /\ ret'[u] = ret[u] /\ depth'[u] = depth[u]
    <3>1. /\ depth[t] > 0 => depth'[t] = depth[t] - 1 /\ pc'[t] = "rebuilt"
          /\ depth[t] = 0 => depth'[t] = 0 /\ pc'[t] \in Callers \union {"discard"}
          /\ \A u \in Threads \ {t} :
               pc'[u] = pc[u] /\ ret'[u] = ret[u] /\ depth'[u] = depth[u]
      BY <1>0, <2>2, ReturnMoves
    <3>2. depth'[t] <= depth[t] BY <1>0, <3>1
    <3>3. depth[t] > 0 \/ depth[t] = 0 BY <1>0
    <3> QED BY <3>1, <3>2, <3>3
  <2>4. Bounded(t)' BY <1>1, <2>1, <2>3, BoundedMoves DEF Callers
  <2> QED BY <1>0, <2>1, <2>3, <2>4
<1>2. CASE InitCheck(t)
  <2>1. CASE attempts >= MaxAttempts BY <1>1, <1>2, <2>1 DEF InitCheck, At
  <2>2. CASE ~(attempts >= MaxAttempts)
    <3>1. Goto(t, "probe") /\ attempts' = attempts /\ resets' = resets
      BY <1>2, <2>2 DEF InitCheck, count
    <3>2. /\ pc'[t] = "probe" /\ depth' = depth
          /\ \A u \in Threads \ {t} : pc'[u] = pc[u] /\ ret'[u] = ret[u]
      BY <1>0, <3>1, GotoMoves
    <3>3. /\ Tried(t)' = 0 /\ Allowance(t)' = Allowance(t) /\ Counted' = Counted
          /\ Counted + 1 <= MaxAttempts
      BY <1>0, <2>2, <3>1, <3>2 DEF Tried, Allowance, Counted
    <3>4. depth[t] <= Allowance(t) + Counted BY <1>0, <1>2 DEF Bounded, InitCheck, At
    <3>5. Bounded(t)' BY <1>0, <3>2, <3>3, <3>4 DEF Bounded, At
    <3> QED BY <1>0, <3>1, <3>2, <3>5
  <2> QED BY <2>1, <2>2
<1>3. CASE InitProbe(t)
  <2>1. pc[t] = "probe" /\ attempts' = attempts /\ resets' = resets
    BY <1>3 DEF InitProbe, At, count
  <2>2. CASE Return(t, FALSE) BY <1>1, <1>3, <2>2 DEF InitProbe, At
  <2>3. CASE Goto(t, "reset") \/ Goto(t, "count")
    <3>1. /\ pc'[t] \in {"reset", "count"} /\ depth' = depth /\ ~ret'[t]
          /\ \A u \in Threads \ {t} : pc'[u] = pc[u] /\ ret'[u] = ret[u]
      BY <1>0, <2>3, GotoMoves
    <3>2. Tried(t)' = 0 /\ Tried(t) = 0 /\ Allowance(t)' = Allowance(t) /\ Counted' = Counted
      BY <2>1, <3>1 DEF Tried, Allowance, Counted
    <3>3. Bounded(t)' BY <1>0, <2>1, <3>1, <3>2 DEF Bounded, At
    <3> QED BY <1>0, <2>1, <3>1, <3>3
  <2> QED BY <1>3, <2>2, <2>3 DEF InitProbe
<1>4. CASE InitReset(t)
  <2>1. /\ attempts' = 0 /\ Return(t, TRUE)
        /\ resets' = [u \in Threads |->
             IF ~Recovering(u) THEN 0 ELSE IF u = t THEN resets[u] ELSE resets[u] + 1]
    BY <1>4 DEF InitReset
  <2>2. resets'[t] = resets[t] \/ depth[t] = 0 BY <1>0, <2>1 DEF Recovering
  <2>3. Bounded(t)' BY <2>1, <2>2, BoundedReturns
  <2>4. \A u \in Threads \ {t} :
          pc'[u] = pc[u] /\ ret'[u] = ret[u] /\ depth'[u] = depth[u]
    BY <1>0, <2>1, ReturnMoves
  <2> QED BY <2>1, <2>3, <2>4
<1>5. CASE InitCount(t)
  <2>1. /\ pc[t] = "count" /\ attempts' = attempts + 1 /\ Goto(t, "close")
        /\ resets' = IF depth[t] = 0 THEN [resets EXCEPT ![t] = 0] ELSE resets
    BY <1>5 DEF InitCount, At
  <2>2. /\ pc'[t] = "close" /\ depth' = depth /\ ~ret'[t]
        /\ \A u \in Threads \ {t} : pc'[u] = pc[u] /\ ret'[u] = ret[u]
    BY <1>0, <2>1, GotoMoves
  <2>3. \A u \in Threads \ {t} : resets'[u] = resets[u] BY <1>0, <2>1
  <2>4. Tried(t)' = 1 /\ Tried(t) = 0 /\ ~At(t, "rebuilt") BY <2>1, <2>2 DEF Tried, At
  <2>5. Counted' = IF attempts + 1 < MaxAttempts THEN attempts + 1 ELSE MaxAttempts
    BY <2>1 DEF Counted
  <2>6. CASE depth[t] = 0
    <3>1. resets'[t] = 0 BY <1>0, <2>1, <2>6
    <3>2. Allowance(t)' = 0
      <4>1. \A m \in Nat : m * 0 = 0 OBVIOUS
      <4> QED BY <1>0, <3>1, <4>1 DEF Allowance
    <3>3. Bounded(t)' BY <1>0, <2>2, <2>4, <2>5, <2>6, <3>2 DEF Bounded
    <3> QED BY <1>0, <2>1, <2>2, <2>3, <3>3
  <2>7. CASE depth[t] # 0
    <3>1. Allowance(t)' = Allowance(t) BY <2>1, <2>7 DEF Allowance
    <3>2. /\ depth[t] <= Allowance(t) + Counted
          /\ depth[t] + 1 <= Allowance(t) + MaxAttempts
      BY <1>0, <2>1, <2>4 DEF Bounded
    <3>3. depth[t] + 1 <= Allowance(t) + Counted' BY <1>0, <2>5, <3>2 DEF Counted
    <3>4. Bounded(t)' BY <1>0, <2>2, <2>4, <3>1, <3>2, <3>3 DEF Bounded
    <3> QED BY <1>0, <2>1, <2>2, <2>3, <3>4
  <2> QED BY <2>6, <2>7
\* Between the count and the rebuild.
<1>6. ASSUME pc[t] \in {"close", "retry"}, pc'[t] \in {"retry", "exists"},
             depth'[t] = depth[t], UNCHANGED count
      PROVE  Bounded(t)'
  <2>1. attempts' = attempts /\ resets' = resets BY <1>6 DEF count
  <2>2. Tried(t)' = 1 /\ Tried(t) = 1 BY <1>6 DEF Tried
  <2>3. Counted' = Counted /\ Allowance(t)' = Allowance(t) BY <2>1 DEF Counted, Allowance
  <2> QED BY <1>0, <1>6, <2>2, <2>3 DEF Bounded, At
<1>7. CASE InitClose(t)
  <2>1. pc[t] = "close" /\ Goto(t, "retry") /\ UNCHANGED count BY <1>7 DEF InitClose, At
  <2>2. /\ pc'[t] = "retry" /\ depth' = depth
        /\ \A u \in Threads \ {t} : pc'[u] = pc[u] /\ ret'[u] = ret[u]
    BY <1>0, <2>1, GotoMoves
  <2>3. Bounded(t)' BY <1>6, <2>1, <2>2
  <2> QED BY <1>0, <2>1, <2>2, <2>3 DEF count
<1>8. CASE InitRetry(t)
  <2>1. pc[t] = "retry" /\ UNCHANGED count BY <1>8 DEF InitRetry, At
  <2>2. CASE Return(t, TRUE)
    <3>1. Bounded(t)' BY <2>1, <2>2, BoundedReturns DEF count
    <3>2. \A u \in Threads \ {t} :
            pc'[u] = pc[u] /\ ret'[u] = ret[u] /\ depth'[u] = depth[u]
      BY <1>0, <2>2, ReturnMoves
    <3> QED BY <1>0, <2>1, <3>1, <3>2 DEF count
  <2>3. CASE Goes(t, "exists", Error = "invalid") /\ UNCHANGED <<depth, hard, caller>>
    <3>1. (Error = "invalid") \in BOOLEAN OBVIOUS
    <3>2. /\ pc'[t] = "exists" /\ depth' = depth
          /\ \A u \in Threads \ {t} : pc'[u] = pc[u] /\ ret'[u] = ret[u]
      BY <1>0, <2>3, <3>1, GoesMoves
    <3>3. Bounded(t)' BY <1>6, <2>1, <3>2
    <3> QED BY <1>0, <2>1, <3>2, <3>3 DEF count
  <2> QED BY <1>8, <2>2, <2>3 DEF InitRetry
<1>9. CASE InitExists(t)
  <2>1. pc[t] = "exists" /\ UNCHANGED count BY <1>9 DEF InitExists, At
  <2>2. CASE InitCalls(t)
    <3>1. /\ pc'[t] = "rebuild" /\ depth'[t] = depth[t] + 1
          /\ \A u \in Threads \ {t} :
               pc'[u] = pc[u] /\ ret'[u] = ret[u] /\ depth'[u] = depth[u]
      BY <1>0, <2>2, CallsRebuild
    <3>2. Tried(t) = 1 /\ Tried(t)' = 0 BY <2>1, <3>1 DEF Tried
    <3>3. Counted' = Counted /\ Allowance(t)' = Allowance(t)
      BY <2>1 DEF Counted, Allowance, count
    <3>4. depth[t] + 1 <= Allowance(t) + Counted BY <1>0, <2>1, <3>2 DEF Bounded, At
    <3>5. Bounded(t)' BY <1>0, <3>1, <3>2, <3>3, <3>4 DEF Bounded
    <3> QED BY <1>0, <2>1, <3>1, <3>5 DEF count
  <2>3. CASE Return(t, FALSE) BY <1>1, <2>1, <2>3 DEF At
  <2> QED BY <1>9, <2>2, <2>3 DEF InitExists
<1>10. CASE InitDelete(t)
  <2>1. pc[t] = "rebuilt" /\ UNCHANGED count BY <1>10 DEF InitDelete, At
  <2>2. CASE Return(t, TRUE)
    <3>1. Bounded(t)' BY <2>1, <2>2, BoundedReturns DEF count
    <3>2. \A u \in Threads \ {t} :
            pc'[u] = pc[u] /\ ret'[u] = ret[u] /\ depth'[u] = depth[u]
      BY <1>0, <2>2, ReturnMoves
    <3> QED BY <1>0, <2>1, <3>1, <3>2 DEF count
  <2>3. CASE ~ret[t] /\ Goto(t, "drop")
    <3>1. /\ pc'[t] = "drop" /\ depth' = depth
          /\ \A u \in Threads \ {t} : pc'[u] = pc[u] /\ ret'[u] = ret[u]
      BY <1>0, <2>3, GotoMoves
    <3>2. Bounded(t)' BY <1>0, <2>1, <2>3, <3>1, BoundedMoves DEF count
    <3> QED BY <1>0, <2>1, <3>1, <3>2 DEF count
  <2> QED BY <1>10, <2>2, <2>3 DEF InitDelete
<1>11. CASE InitDrop(t)
  <2>1. pc[t] = "drop" /\ Goto(t, "reprobe") /\ UNCHANGED count BY <1>11 DEF InitDrop, At
  <2>2. /\ pc'[t] = "reprobe" /\ depth' = depth
        /\ \A u \in Threads \ {t} : pc'[u] = pc[u] /\ ret'[u] = ret[u]
    BY <1>0, <2>1, GotoMoves
  <2>3. Bounded(t)' BY <1>0, <2>1, <2>2, BoundedMoves DEF count, At
  <2> QED BY <1>0, <2>1, <2>2, <2>3 DEF count
<1>12. CASE InitReprobe(t) BY <1>1, <1>12 DEF InitReprobe, At
<1> QED BY <1>2, <1>3, <1>4, <1>5, <1>7, <1>8, <1>9, <1>10, <1>11, <1>12 DEF InitStore

\* The rest of the operation: rebuilding, resetting, running, starting.
LEMMA ElsewhereBounded ==
  ASSUME TypeOK, TypeOK', NEW t \in Threads, Bounded(t),
         RebuildAndSwap(t) \/ ResetStore(t) \/ Run(t) \/ Recheck(t) \/ Begin(t) \/ Status(t)
  PROVE  /\ Bounded(t)' /\ attempts' = attempts /\ resets' = resets
         /\ \A u \in Threads \ {t} :
              pc'[u] = pc[u] /\ ret'[u] = ret[u] /\ depth'[u] = depth[u]
<1> USE DEF Labels, Callers
<1>0. ControlType /\ depth[t] \in Nat BY Numbers, TypeParts
<1>1. attempts' = attempts /\ resets' = resets
  BY DEF RebuildAndSwap, RebuildClose, Salvage, Unback, MoveWal, Shelve, Swap, ResetStore,
         ResetClose, ResetDelete, ResetDropWal, Run, Check, Refused, Failed, Done, Recheck,
         Begin, Status, count
<1> DEFINE Alone == \A u \in Threads \ {t} :
             pc'[u] = pc[u] /\ ret'[u] = ret[u] /\ depth'[u] = depth[u]
<1> DEFINE Away == {"salvage", "unback", "moveWal", "shelve", "swap", "dropWal", "hard", "idle",
                    "run", "use", "init", "soft", "recheck"}
<1>2. ASSUME NEW l \in Away, Goto(t, l) \/ \E c \in Callers : Call(t, l, c),
             ~(At(t, "rebuilt") /\ ret[t])
      PROVE  Bounded(t)' /\ Alone
  <2>1. l \in Labels /\ l \notin {"close", "retry", "exists", "probe", "count"} OBVIOUS
  <2>2. pc'[t] = l /\ depth' = depth /\ Alone BY <1>0, <1>2, <2>1, GotoMoves, CallMoves
  <2>3. depth'[t] <= depth[t] BY <1>0, <2>2
  <2> QED BY <1>1, <1>2, <2>1, <2>2, <2>3, BoundedMoves
<1>3. ASSUME NEW v \in BOOLEAN, Return(t, v), ~At(t, "rebuilt") PROVE Bounded(t)' /\ Alone
  <2>1. /\ depth[t] > 0 => depth'[t] = depth[t] - 1 /\ pc'[t] = "rebuilt"
        /\ depth[t] = 0 => depth'[t] = 0 /\ pc'[t] \in Callers \union {"discard"}
        /\ Alone
    BY <1>0, <1>3, ReturnMoves
  <2>2. depth'[t] <= depth[t] BY <1>0, <2>1
  <2>3. depth[t] > 0 \/ depth[t] = 0 BY <1>0
  <2>4. pc'[t] \notin {"close", "retry", "exists", "probe", "count"} BY <2>1, <2>3
  <2> QED BY <1>1, <1>3, <2>1, <2>2, <2>4, BoundedMoves
<1>4. CASE RebuildAndSwap(t)
  <2>1. ~At(t, "rebuilt")
    BY <1>4 DEF RebuildAndSwap, RebuildClose, Salvage, Unback, MoveWal, Shelve, Swap, At
  <2>2. \/ Return(t, FALSE)
        \/ \E l \in Away : Goto(t, l)
    BY <1>4 DEF RebuildAndSwap, RebuildClose, Salvage, Unback, MoveWal, Shelve, Swap
  <2> QED BY <1>1, <1>2, <1>3, <2>1, <2>2
<1>5. CASE ResetStore(t)
  <2>1. ~At(t, "rebuilt") BY <1>5 DEF ResetStore, ResetClose, ResetDelete, ResetDropWal, At
  <2>2. \/ Return(t, TRUE)
        \/ \E l \in Away : Goto(t, l)
        \/ ResetCalls(t)
    BY <1>5 DEF ResetStore, ResetClose, ResetDelete, ResetDropWal
  <2>3. CASE ResetCalls(t)
    <3>1. pc'[t] = "rebuild" /\ depth' = depth /\ Alone BY <1>0, <2>3, CallsRebuild
    <3>2. depth'[t] <= depth[t] BY <1>0, <3>1
    <3> QED BY <1>1, <2>1, <3>1, <3>2, BoundedMoves
  <2> QED BY <1>1, <1>2, <1>3, <2>1, <2>2, <2>3
<1>6. CASE Run(t) \/ Recheck(t)
  <2>1. ~At(t, "rebuilt") BY <1>6 DEF Run, Check, Refused, Failed, Done, Recheck, At
  <2>2. CASE Check(t)
    <3>1. CASE Goes(t, "use", TRUE) /\ UNCHANGED <<depth, hard, caller>>
      <4>1. pc'[t] = "use" /\ Alone /\ depth' = depth BY <1>0, <3>1, GoesMoves
      <4>2. depth'[t] <= depth[t] BY <1>0, <4>1
      <4> QED BY <1>1, <2>1, <4>1, <4>2, BoundedMoves
    <3>2. CASE Call(t, "init", "use") BY <1>1, <1>2, <2>1, <3>2
    <3> QED BY <2>2, <3>1, <3>2 DEF Check
  <2>3. CASE Refused(t) \/ Failed(t)
    <3>1. PICK v \in BOOLEAN : Raised(t, v)
      <4>1. StatusInvalid \in BOOLEAN /\ (Error = "invalid") \in BOOLEAN BY ErrorType
      <4> QED BY <2>3, <4>1 DEF Refused, Failed
    <3>2. pc'[t] \in {"soft", "hard", "idle"} /\ depth' = depth /\ Alone BY <3>1, RaisedMoves
    <3>3. depth'[t] <= depth[t] BY <1>0, <3>2
    <3> QED BY <1>1, <2>1, <3>2, <3>3, BoundedMoves
  <2>4. CASE Done(t) BY <1>1, <1>2, <2>1, <2>4 DEF Done, Ends
  <2>5. CASE Recheck(t)
    <3>1. \E l \in Away : Goto(t, l) BY <2>5 DEF Recheck
    <3> QED BY <1>1, <1>2, <2>1, <3>1
  <2> QED BY <1>6, <2>2, <2>3, <2>4, <2>5 DEF Run
<1>7. CASE Begin(t) \/ Status(t)
  <2>1. ~At(t, "rebuilt") BY <1>7 DEF Begin, Status, Idle, At
  <2>2. \E l \in Away : Goto(t, l) \/ \E c \in Callers : Call(t, l, c)
    BY <1>7 DEF Begin, Status
  <2> QED BY <1>1, <1>2, <2>1, <2>2
<1> QED BY <1>4, <1>5, <1>6, <1>7

BoundedAll == \A t \in Threads : Bounded(t)

LEMMA NextBounded == TypeOK /\ TypeOK' /\ BoundedAll /\ [Next]_vars => BoundedAll'
<1> SUFFICES ASSUME TypeOK, TypeOK', BoundedAll, [Next]_vars PROVE BoundedAll'
  OBVIOUS
<1> USE DEF BoundedAll
<1>1. ASSUME NEW t \in Threads, InitStore(t) PROVE BoundedAll'
  BY <1>1, InitBounded, BoundedStays
<1>2. ASSUME NEW t \in Threads,
             RebuildAndSwap(t) \/ ResetStore(t) \/ Run(t) \/ Recheck(t) \/ Begin(t) \/ Status(t)
      PROVE  BoundedAll'
  <2>1. attempts' >= attempts /\ Bounded(t)' /\ resets' = resets
        /\ \A u \in Threads \ {t} :
             pc'[u] = pc[u] /\ ret'[u] = ret[u] /\ depth'[u] = depth[u]
    BY <1>2, ElsewhereBounded DEF TypeOK
  <2> QED BY <2>1, BoundedStays
<1>3. CASE UNCHANGED control /\ UNCHANGED count
  <2>1. attempts' >= attempts /\ resets' = resets /\ pc' = pc /\ ret' = ret /\ depth' = depth
    BY <1>3 DEF count, control, TypeOK
  <2> QED BY <2>1, BoundedStays
<1>4. CASE Crash
  <2> SUFFICES ASSUME NEW t \in Threads PROVE Bounded(t)'
    OBVIOUS
  <2>1. depth'[t] = 0 /\ pc'[t] = "idle" /\ attempts' = 0 /\ resets'[t] = 0
    BY <1>4 DEF Crash
  <2>2. MaxAttempts \in Nat \ {0} BY FtmAssumption
  <2>3. Tried(t)' = 0 /\ Allowance(t)' = 0 /\ Counted' = 0
    <3>1. \A m \in Nat : m * 0 = 0 OBVIOUS
    <3> QED BY <2>1, <2>2, <3>1 DEF Tried, Allowance, Counted
  <2> QED BY <2>1, <2>2, <2>3 DEF Bounded
<1>5. CASE Fatal \/ \E t \in Readers : OpenReader(t) \/ CloseReader(t)
  BY <1>3, <1>5 DEF Fatal, OpenReader, CloseReader
<1>6. CASE UNCHANGED vars BY <1>3, <1>6 DEF vars
<1> QED BY <1>1, <1>2, <1>4, <1>5, <1>6 DEF Next, Step

\* The mutual recursion of init_store and _rebuild_and_swap is bounded for every
\* number of threads that recover at once, whatever they do to the counter.
THEOREM RecoveryEnds == Spec => []RecoveryBounded
<1>1. Init => BoundedAll
  <2> SUFFICES ASSUME Init, NEW t \in Threads PROVE Bounded(t)
    BY DEF BoundedAll
  <2>1. depth[t] = 0 /\ pc[t] = "idle" /\ attempts = 0 /\ resets[t] = 0 BY DEF Init
  <2>2. MaxAttempts \in Nat \ {0} BY FtmAssumption
  <2>3. Tried(t) = 0 /\ Allowance(t) = 0 /\ Counted = 0
    <3>1. \A m \in Nat : m * 0 = 0 OBVIOUS
    <3> QED BY <2>1, <2>2, <3>1 DEF Tried, Allowance, Counted
  <2> QED BY <2>1, <2>2, <2>3 DEF Bounded
<1>2. TypeOK /\ BoundedAll => RecoveryBounded
  <2> SUFFICES ASSUME TypeOK, BoundedAll, NEW t \in Threads
               PROVE  depth[t] <= MaxAttempts * (resets[t] + 1)
    BY DEF RecoveryBounded
  <2>1. MaxAttempts \in Nat /\ resets[t] \in Nat BY Numbers
  <2>2. depth[t] <= Allowance(t) + MaxAttempts BY DEF BoundedAll, Bounded
  <2>3. MaxAttempts * (resets[t] + 1) = MaxAttempts * resets[t] + MaxAttempts
    <3>1. \A m, r \in Nat : m * (r + 1) = m * r + m OBVIOUS
    <3> QED BY <2>1, <3>1
  <2> QED BY <2>2, <2>3 DEF Allowance
<1> QED BY <1>1, <1>2, NextBounded, TypeCorrect, PTL DEF Spec

-----------------------------------------------------------------------------
(***************************************************************************)
(* What a write that was reported as done can be lost to. Unless a second  *)
(* thread rebuilds too, at most one is between the copy and the swap; what *)
(* others do meanwhile is quiet: they open and close the file, but neither *)
(* write to it nor move it.                                                *)
(***************************************************************************)
Stored == RowsOf(db) \union RowsOf(bak) \union RowsOf(wal) \union RowsOf(bakWal)
Owned  == wal # NoFile => wal.kind = "own"

OneWindow ==
  "twice" \notin perils =>
    \A t, u \in Threads : Replacing(t) /\ Replacing(u) => t = u

\* The copy is complete, and no write was added to the old file since.
CopyComplete ==
  perils \subseteq {"replaced"} =>
    /\ (\A t \in Threads : ~Moving(t)) => acked \subseteq Content
    /\ \A t \in Threads : Copied(t) => rec # NoFile /\ acked \subseteq rec.rows

\* The old file and its log go to names that were free.
BackupFree ==
  perils \subseteq {"partial", "torn"} =>
    /\ acked \subseteq Stored /\ Owned
    /\ \A t \in Threads :
         /\ At(t, "moveWal") \/ At(t, "shelve") => bak = NoFile
         /\ Moving(t) => wal = NoFile
         /\ At(t, "swap") => acked \subseteq RowsOf(bak) \union RowsOf(bakWal)

Kept == OneWindow /\ CopyComplete /\ BackupFree

\* Nobody enters or leaves the part of the rebuild that replaces the file.
Aside == \A u \in Threads : pc'[u] = pc[u] \/ (~Replacing(u) /\ ~Replacing(u)')

Quiet ==
  /\ rec' = rec /\ acked' = acked /\ Content \subseteq Content'
  /\ wal' \in {wal, NoFile} /\ bakWal' = bakWal
  /\ RowsOf(bak)' = RowsOf(bak) /\ (bak = NoFile => bak' = NoFile)
  /\ Owned => Stored \subseteq Stored'

LEMMA AsidePlaces ==
  ASSUME Aside, NEW u \in Threads
  PROVE  /\ Replacing(u)' = Replacing(u) /\ Copied(u)' = Copied(u) /\ Moving(u)' = Moving(u)
         /\ \A l \in {"unback", "moveWal", "shelve", "swap"} : At(u, l)' = At(u, l)
<1>1. pc'[u] = pc[u] \/ (~Replacing(u) /\ ~Replacing(u)') BY DEF Aside
<1>2. CASE pc'[u] = pc[u] BY <1>2 DEF Replacing, Copied, Moving, At
<1>3. CASE ~Replacing(u) /\ ~Replacing(u)' BY <1>3 DEF Replacing, Copied, Moving, At
<1> QED BY <1>1, <1>2, <1>3

LEMMA QuietKeeps ==
  ASSUME Kept, Aside, perils \subseteq perils', "deleted" \in perils' \/ Quiet
  PROVE  Kept'
<1>1. OneWindow' BY AsidePlaces DEF Kept, OneWindow
<1>2. CopyComplete'
  <2> SUFFICES ASSUME perils' \subseteq {"replaced"}
               PROVE  /\ (\A t \in Threads : ~Moving(t)') => acked' \subseteq Content'
                      /\ \A t \in Threads : Copied(t)' => rec' # NoFile /\ acked' \subseteq rec'.rows
    BY DEF CopyComplete
  <2>1. Quiet /\ perils \subseteq {"replaced"} OBVIOUS
  <2>2. rec' = rec /\ acked' = acked /\ Content \subseteq Content' BY <2>1 DEF Quiet
  <2>3. /\ (\A t \in Threads : ~Moving(t)) => acked \subseteq Content
        /\ \A t \in Threads : Copied(t) => rec # NoFile /\ acked \subseteq rec.rows
    BY <2>1 DEF Kept, CopyComplete
  <2> QED BY <2>2, <2>3, AsidePlaces
<1>3. BackupFree'
  <2> SUFFICES ASSUME perils' \subseteq {"partial", "torn"}
               PROVE  /\ acked' \subseteq Stored' /\ Owned'
                      /\ \A t \in Threads :
                           /\ At(t, "moveWal")' \/ At(t, "shelve")' => bak' = NoFile
                           /\ Moving(t)' => wal' = NoFile
                           /\ At(t, "swap")' => acked' \subseteq (RowsOf(bak) \union RowsOf(bakWal))'
    BY DEF BackupFree
  <2>1. Quiet /\ perils \subseteq {"partial", "torn"} OBVIOUS
  <2>2. /\ acked \subseteq Stored /\ Owned
        /\ \A t \in Threads :
             /\ At(t, "moveWal") \/ At(t, "shelve") => bak = NoFile
             /\ Moving(t) => wal = NoFile
             /\ At(t, "swap") => acked \subseteq RowsOf(bak) \union RowsOf(bakWal)
    BY <2>1 DEF Kept, BackupFree
  <2>3. acked' \subseteq Stored' /\ Owned' BY <2>1, <2>2 DEF Quiet, Owned
  <2>4. RowsOf(bakWal)' = RowsOf(bakWal) BY <2>1 DEF Quiet, RowsOf
  <2>5. ASSUME NEW t \in Threads
        PROVE  /\ At(t, "moveWal")' \/ At(t, "shelve")' => bak' = NoFile
               /\ Moving(t)' => wal' = NoFile
               /\ At(t, "swap")' => acked' \subseteq (RowsOf(bak) \union RowsOf(bakWal))'
    <3>1. At(t, "moveWal")' \/ At(t, "shelve")' => bak' = NoFile
      BY <2>1, <2>2, AsidePlaces DEF Quiet
    <3>2. Moving(t)' => wal' = NoFile BY <2>1, <2>2, AsidePlaces DEF Quiet
    <3>3. At(t, "swap")' => acked' \subseteq (RowsOf(bak) \union RowsOf(bakWal))'
      BY <2>1, <2>2, <2>4, AsidePlaces DEF Quiet
    <3> QED BY <3>1, <3>2, <3>3
  <2> QED BY <2>3, <2>5
<1> QED BY <1>1, <1>2, <1>3 DEF Kept

\* Steps that change no file are quiet.
LEMMA SameQuiet ==
  ASSUME UNCHANGED files, acked' = acked
  PROVE  Quiet
BY DEF files, Quiet, Content, RowsOf, Owned, Stored

LEMMA ConnectQuiet ==
  ASSUME TypeOK, InstSound, Connect, acked' = acked
  PROVE  Quiet
<1> USE FtmAssumption
<1>1. /\ db' = db \/ (db = NoFile /\ db' = Empty)
      /\ wal' = wal \/ (wal # NoFile /\ wal.kind # "own" /\ wal' = NoFile)
      /\ bak' = bak /\ rec' = rec /\ bakWal' = bakWal
  BY DEF Connect
<1>2. Content \subseteq Content' BY <1>1 DEF Content
<1>3. Owned => Stored \subseteq Stored' BY <1>1 DEF Owned, Stored, RowsOf
<1> QED BY <1>1, <1>2, <1>3 DEF Quiet, RowsOf

LEMMA HangEffect ==
  ASSUME TypeOK, InstSound, NEW m, NEW r, Hang(m, r)
  PROVE  /\ Content \subseteq Content' /\ bak' = bak /\ bakWal' = bakWal
         /\ wal' \in {wal, NoFile} /\ (Owned => Stored \subseteq Stored')
<1> USE FtmAssumption
<1>1. bak' = bak /\ bakWal' = bakWal BY DEF Hang
<1>2. CASE db' = db /\ wal' = wal
  BY <1>1, <1>2 DEF Content, RowsOf, Owned, Stored
<1>3. CASE ~(db' = db /\ wal' = wal)
  <2>1. inst # NoInst /\ inst.at = "db" BY <1>3 DEF Hang
  <2>2. db' = [db EXCEPT !.rows = Content] /\ wal' = NoFile BY <1>3 DEF Hang
  <2>3. db \in File /\ db # NoFile BY <2>1 DEF InstSound, TypeOK
  <2>4. db' \in File /\ db' # NoFile /\ db'.rows = Content
    <3>1. Content \subseteq Writes BY ContentType
    <3> QED BY <2>2, <2>3, <3>1 DEF File
  <2>5. Content' = Content BY <2>2, <2>4 DEF Content
  <2>6. Owned => Stored \subseteq Stored'
    <3>1. Owned => RowsOf(db) \union RowsOf(wal) \subseteq Content
      BY <2>3 DEF Owned, Content, RowsOf
    <3>2. RowsOf(db)' = Content /\ RowsOf(bak)' = RowsOf(bak) /\ RowsOf(bakWal)' = RowsOf(bakWal)
      BY <1>1, <2>4 DEF RowsOf
    <3> QED BY <3>1, <3>2 DEF Stored
  <2> QED BY <1>1, <2>2, <2>5, <2>6
<1> QED BY <1>2, <1>3

LEMMA HangQuiet ==
  ASSUME TypeOK, InstSound, NEW m, NEW r, Hang(m, r), acked' = acked, rec' = rec
  PROVE  Quiet
<1>1. /\ Content \subseteq Content' /\ bak' = bak /\ bakWal' = bakWal
      /\ wal' \in {wal, NoFile} /\ (Owned => Stored \subseteq Stored')
  BY HangEffect
<1> QED BY <1>1 DEF Quiet, RowsOf

LEMMA CloseQuiet ==
  ASSUME TypeOK, InstSound, NEW ts, Close(ts), acked' = acked, rec' = rec
  PROVE  Quiet
BY HangQuiet DEF Close

\* A fallback that finds nothing to delete.
LEMMA RemoveQuiet ==
  ASSUME TypeOK, InstSound, RemoveFile, acked' = acked, UNCHANGED <<bak, rec, bakWal>>
  PROVE  perils \subseteq perils' /\ ("deleted" \in perils' \/ Quiet)
<1>1. perils \subseteq perils' /\ (db # NoFile => "deleted" \in perils')
  BY PerilType DEF RemoveFile, Perils
<1>2. CASE db = NoFile
  <2>1. db' = db /\ wal' = wal BY <1>2 DEF RemoveFile
  <2> QED BY <1>1, <2>1, SameQuiet DEF files
<1> QED BY <1>1, <1>2

\* Where steps other than those of the rebuild end.
LEMMA AsideStep ==
  ASSUME TypeOK, NEW t \in Threads,
         InitStore(t) \/ ResetStore(t) \/ Run(t) \/ Recheck(t) \/ Begin(t) \/ Status(t)
  PROVE  Aside /\ ~Replacing(t)
<1> USE DEF Labels, Callers
<1>0. ControlType BY TypeParts
<1>1. ~Replacing(t)
  BY DEF InitStore, InitCheck, InitProbe, InitReset, InitCount, InitClose, InitRetry,
         InitExists, InitDelete, InitDrop, InitReprobe, ResetStore, ResetClose, ResetDelete,
         ResetDropWal, Run, Check, Refused, Failed, Done, Recheck, Begin, Status, Idle,
         Replacing, At
<1> DEFINE Away == {"probe", "reset", "count", "close", "retry", "exists", "drop", "reprobe",
                    "dropWal", "hard", "idle", "run", "use", "init", "soft", "recheck"}
<1> DEFINE Others == \A u \in Threads \ {t} : pc'[u] = pc[u]
<1>2. ASSUME Others, pc'[t] \notin {"salvage", "unback", "moveWal", "shelve", "swap"}
      PROVE  Aside
  <2>1. ~Replacing(t)' BY <1>2 DEF Replacing, At
  <2> QED BY <1>1, <1>2, <2>1 DEF Aside
<1>3. ASSUME NEW l \in Away,
             Goto(t, l) \/ (\E c \in Callers : Call(t, l, c)) \/ (\E v \in BOOLEAN : Goes(t, l, v))
      PROVE  Aside
  <2>1. l \in Labels /\ l \notin {"salvage", "unback", "moveWal", "shelve", "swap"} OBVIOUS
  <2>2. pc'[t] = l /\ Others BY <1>0, <1>3, <2>1, GotoMoves, CallMoves, GoesMoves
  <2> QED BY <1>2, <2>1, <2>2
<1>4. ASSUME NEW v \in BOOLEAN, Return(t, v) PROVE Aside
  <2>1. /\ depth[t] > 0 => pc'[t] = "rebuilt"
        /\ depth[t] = 0 => pc'[t] \in Callers \union {"discard"}
        /\ Others
    BY <1>0, <1>4, ReturnMoves
  <2>2. depth[t] > 0 \/ depth[t] = 0
    <3>1. depth[t] \in Nat BY DEF TypeOK
    <3> QED BY <3>1
  <2> QED BY <1>2, <2>1, <2>2
<1>5. CASE InitCalls(t) \/ ResetCalls(t)
  <2>1. pc'[t] = "rebuild" /\ Others BY <1>0, <1>5, CallsRebuild
  <2> QED BY <1>1, <1>2, <2>1
<1>6. CASE InitStore(t)
  <2>1. \/ \E v \in BOOLEAN : Return(t, v)
        \/ InitCalls(t)
        \/ \E l \in Away : Goto(t, l) \/ (\E v \in BOOLEAN : Goes(t, l, v))
    <3>1. (Error = "none") \in BOOLEAN /\ (Error = "invalid") \in BOOLEAN OBVIOUS
    <3>2. CASE InitCheck(t) BY <3>2 DEF InitCheck
    <3>3. CASE InitProbe(t) BY <3>3 DEF InitProbe
    <3>4. CASE InitReset(t) BY <3>4 DEF InitReset
    <3>5. CASE InitCount(t) \/ InitClose(t) \/ InitDrop(t)
      BY <3>5 DEF InitCount, InitClose, InitDrop
    <3>6. CASE InitRetry(t)
      <4>1. CASE Return(t, TRUE) BY <4>1
      <4>2. CASE Goes(t, "exists", Error = "invalid") BY <3>1, <4>2
      <4> QED BY <3>6, <4>1, <4>2 DEF InitRetry
    <3>7. CASE InitExists(t) BY <3>7 DEF InitExists
    <3>8. CASE InitDelete(t) BY <3>8 DEF InitDelete
    <3>9. CASE InitReprobe(t) BY <3>1, <3>9 DEF InitReprobe
    <3> QED BY <1>6, <3>2, <3>3, <3>4, <3>5, <3>6, <3>7, <3>8, <3>9 DEF InitStore
  <2> QED BY <1>1, <1>3, <1>4, <1>5, <2>1
<1>7. CASE ResetStore(t)
  <2>1. Return(t, TRUE) \/ ResetCalls(t) \/ \E l \in Away : Goto(t, l)
    BY <1>7 DEF ResetStore, ResetClose, ResetDelete, ResetDropWal
  <2> QED BY <1>1, <1>3, <1>4, <1>5, <2>1
<1>8. CASE Run(t) \/ Recheck(t) \/ Begin(t) \/ Status(t)
  <2>1. CASE Refused(t) \/ Failed(t)
    <3>1. PICK v \in BOOLEAN : Raised(t, v)
      <4>1. StatusInvalid \in BOOLEAN /\ (Error = "invalid") \in BOOLEAN BY ErrorType
      <4> QED BY <2>1, <4>1 DEF Refused, Failed
    <3>2. pc'[t] \in {"soft", "hard", "idle"} /\ Others BY <3>1, RaisedMoves
    <3> QED BY <1>1, <1>2, <3>2
  <2>2. CASE ~(Refused(t) \/ Failed(t))
    <3>1. \E l \in Away :
            Goto(t, l) \/ (\E c \in Callers : Call(t, l, c)) \/ (\E v \in BOOLEAN : Goes(t, l, v))
      BY <1>8, <2>2 DEF Run, Check, Done, Ends, Recheck, Begin, Status
    <3> QED BY <1>1, <1>3, <3>1
  <2> QED BY <2>1, <2>2
<1> QED BY <1>1, <1>6, <1>7, <1>8

LEMMA OutsideKept ==
  ASSUME TypeOK, InstSound, Kept, NEW t \in Threads,
         \/ InitStore(t) \/ ResetStore(t) \/ Check(t) \/ Refused(t) \/ Failed(t)
         \/ Recheck(t) \/ Begin(t) \/ Status(t)
  PROVE  Kept'
<1>1. Aside BY AsideStep DEF Run
<1>2. perils \subseteq perils' /\ ("deleted" \in perils' \/ Quiet)
  <2>1. CASE InitStore(t)
    <3>1. CASE InitCheck(t) \/ InitReset(t) \/ InitCount(t) \/ InitExists(t)
      BY <3>1, SameQuiet DEF InitCheck, InitReset, InitCount, InitExists, calls
    <3>2. CASE InitProbe(t) \/ InitRetry(t) \/ InitReprobe(t)
      BY <3>2, ConnectQuiet DEF InitProbe, InitRetry, InitReprobe, calls
    <3>3. CASE InitClose(t) \/ InitDrop(t)
      BY <3>3, CloseQuiet DEF InitClose, InitDrop, calls
    <3>4. CASE InitDelete(t)
      BY <3>4, RemoveQuiet, SameQuiet DEF InitDelete, calls, files
    <3> QED BY <2>1, <3>1, <3>2, <3>3, <3>4 DEF InitStore
  <2>2. CASE ResetStore(t)
    <3>1. CASE ResetClose(t) BY <3>1, CloseQuiet DEF ResetClose, calls
    <3>2. CASE ResetDelete(t)
      BY <3>2, RemoveQuiet, SameQuiet DEF ResetDelete, calls, files
    <3>3. CASE ResetDropWal(t)
      <4>1. perils \subseteq perils' /\ (wal # NoFile => "deleted" \in perils')
        BY <3>3, PerilType DEF ResetDropWal, Perils
      <4>2. wal = NoFile => Quiet BY <3>3, SameQuiet DEF ResetDropWal, calls, files
      <4> QED BY <4>1, <4>2
    <3> QED BY <2>2, <3>1, <3>2, <3>3 DEF ResetStore
  <2>3. CASE Check(t) \/ Refused(t) \/ Recheck(t) \/ Begin(t) \/ Status(t)
    BY <2>3, SameQuiet DEF Check, Refused, Raised, Recheck, Begin, Status, calls
  <2>4. CASE Failed(t) BY <2>4, ConnectQuiet DEF Failed, Raised
  <2> QED BY <2>1, <2>2, <2>3, <2>4
<1> QED BY <1>1, <1>2, QuietKeeps

LEMMA ReaderKept ==
  ASSUME TypeOK, InstSound, Kept, NEW t \in Readers, OpenReader(t) \/ CloseReader(t)
  PROVE  Kept'
<1>1. pc' = pc /\ acked' = acked /\ perils' = perils
  BY DEF OpenReader, CloseReader, control, calls
<1>2. Quiet
  <2>1. CASE OpenReader(t) BY <1>1, <2>1, ConnectQuiet DEF OpenReader
  <2>2. CASE CloseReader(t) BY <1>1, <2>2, HangQuiet DEF CloseReader
  <2> QED BY <2>1, <2>2
<1>3. Aside BY <1>1 DEF Aside
<1> QED BY <1>1, <1>2, <1>3, QuietKeeps

LEMMA FatalKept ==
  ASSUME TypeOK, InstSound, Kept, Fatal
  PROVE  Kept'
<1>1. /\ pc' = pc /\ acked' = acked /\ perils' = perils /\ rec' = rec /\ wal' = wal
      /\ bakWal' = bakWal
  BY DEF Fatal, control, calls
<1>2. /\ db' = NoFile <=> db = NoFile
      /\ bak' = NoFile <=> bak = NoFile
      /\ db # NoFile => db'.rows = db.rows
      /\ bak # NoFile => bak'.rows = bak.rows
  BY FatalEffect DEF TypeInv
<1>3. Content' = Content BY <1>1, <1>2 DEF Content
<1>4. RowsOf(bak)' = RowsOf(bak) /\ RowsOf(db)' = RowsOf(db) BY <1>2 DEF RowsOf
<1>5. Stored' = Stored BY <1>1, <1>4 DEF Stored, RowsOf
<1>6. Quiet BY <1>1, <1>2, <1>3, <1>4, <1>5 DEF Quiet
<1>7. Aside BY <1>1 DEF Aside
<1> QED BY <1>1, <1>6, <1>7, QuietKeeps

LEMMA CrashKept ==
  ASSUME TypeOK, Kept, Crash
  PROVE  Kept'
<1>1. /\ UNCHANGED files /\ acked' = acked /\ pc' = [t \in Threads |-> "idle"]
      /\ Peril("torn", \E t \in Threads : Moving(t))
  BY DEF Crash
<1>2. perils \subseteq perils' /\ ((\E t \in Threads : Moving(t)) => "torn" \in perils')
  BY <1>1, PerilType DEF Perils
<1>3. Content' = Content /\ Stored' = Stored /\ Owned' = Owned
  BY <1>1 DEF files, Content, Stored, Owned, RowsOf
<1>4. \A t \in Threads : /\ ~Replacing(t)' /\ ~Copied(t)' /\ ~Moving(t)'
                         /\ ~At(t, "moveWal")' /\ ~At(t, "shelve")' /\ ~At(t, "swap")'
  BY <1>1 DEF Replacing, Copied, Moving, At
<1>5. OneWindow' BY <1>4 DEF OneWindow
<1>6. CopyComplete' BY <1>1, <1>2, <1>3, <1>4 DEF Kept, CopyComplete
<1>7. BackupFree' BY <1>1, <1>2, <1>3, <1>4 DEF Kept, BackupFree
<1> QED BY <1>5, <1>6, <1>7 DEF Kept

\* A write to the file at _DB_PATH.
LEMMA CommitEffect ==
  ASSUME TypeOK, InstSound, NEW t \in Threads, Commit(t), inst'.at = "db"
  PROVE  /\ rec' = rec /\ bak' = bak /\ bakWal' = bakWal /\ Owned'
         /\ Content \union todo[t] \subseteq Content'
         /\ Owned => Stored \union todo[t] \subseteq Stored'
<1> USE FtmAssumption
<1> DEFINE log == IF wal # NoFile /\ (inst # NoInst \/ wal.kind = "own") THEN wal.rows ELSE {}
<1>1. todo[t] \subseteq Writes BY DEF TypeOK
<1>2. /\ rec' = rec /\ bak' = bak /\ bakWal' = bakWal
      /\ wal' = [rows |-> log \union todo[t], kind |-> "own"]
  BY DEF Commit
<1>3. wal' \in Log
  <2>1. log \subseteq Writes BY DEF TypeOK, Log
  <2> QED BY <1>1, <1>2, <2>1 DEF Log
<1>4. wal' # NoFile /\ wal'.kind = "own" /\ wal'.rows = log \union todo[t] BY <1>2, <1>3
<1>5. db' # NoFile /\ (db # NoFile => db' = db)
  <2>1. CASE inst = NoInst BY <2>1, EmptyFile DEF Commit
  <2>2. CASE inst # NoInst BY <2>2 DEF Commit, InstSound
  <2> QED BY <2>1, <2>2
<1>6. Content' = db'.rows \union log \union todo[t] BY <1>4, <1>5 DEF Content
<1>7. Content \subseteq db'.rows \union log BY <1>5 DEF Content
<1>8. Owned => Stored \union todo[t] \subseteq Stored'
  <2>1. Owned => RowsOf(wal) \subseteq log BY DEF Owned, RowsOf
  <2>2. RowsOf(wal)' = log \union todo[t] BY <1>4 DEF RowsOf
  <2>3. RowsOf(db) \subseteq RowsOf(db)' BY <1>5 DEF RowsOf
  <2>4. RowsOf(bak)' = RowsOf(bak) /\ RowsOf(bakWal)' = RowsOf(bakWal) BY <1>2 DEF RowsOf
  <2> QED BY <2>1, <2>2, <2>3, <2>4 DEF Stored
<1>9. Owned' BY <1>4 DEF Owned
<1> QED BY <1>2, <1>6, <1>7, <1>8, <1>9

LEMMA DoneKept ==
  ASSUME TypeOK, InstSound, Kept, NEW t \in Threads, Done(t)
  PROVE  Kept'
<1>1. Aside /\ ~Replacing(t) BY AsideStep DEF Run
<1>2. /\ Commit(t) /\ acked' = acked \union todo[t]
      /\ Peril("beside", inst'.at # "db" \/ \E u \in Threads \ {t} : Copied(u))
  BY DEF Done
<1>3. /\ perils \subseteq perils'
      /\ "beside" \notin perils' => inst'.at = "db" /\ \A u \in Threads \ {t} : ~Copied(u)
  BY <1>2, PerilType DEF Perils
<1>4. OneWindow' BY <1>1, <1>3, AsidePlaces DEF Kept, OneWindow
<1>5. "beside" \notin perils' =>
        \A u \in Threads : /\ ~Copied(u) /\ ~Copied(u)' /\ ~Moving(u) /\ ~Moving(u)'
                           /\ ~At(u, "moveWal")' /\ ~At(u, "shelve")' /\ ~At(u, "swap")'
  <2>1. "beside" \notin perils' => \A u \in Threads : ~Copied(u)
    BY <1>1, <1>3 DEF Replacing, Copied
  <2>2. "beside" \notin perils' => \A u \in Threads : ~Copied(u)' BY <1>1, <2>1, AsidePlaces
  <2> QED BY <2>1, <2>2 DEF Copied, Moving, At
<1>6. CopyComplete' BY <1>2, <1>3, <1>5, CommitEffect DEF Kept, CopyComplete
<1>7. BackupFree' BY <1>2, <1>3, <1>5, CommitEffect DEF Kept, BackupFree
<1> QED BY <1>4, <1>6, <1>7 DEF Kept

-----------------------------------------------------------------------------
(* The steps of the rebuild. *)
Outside(u) == ~Replacing(u) /\ ~Copied(u) /\ ~Moving(u) /\ ~At(u, "moveWal") /\ ~At(u, "shelve")
              /\ ~At(u, "swap")

LEMMA OutsidePlaces == ASSUME NEW u, ~Replacing(u) PROVE Outside(u)
BY DEF Outside, Replacing, Copied, Moving

LEMMA RebuildPlaces ==
  ASSUME TypeOK, NEW t \in Threads, RebuildAndSwap(t)
  PROVE  /\ \A u \in Threads \ {t} : pc'[u] = pc[u]
         /\ perils \subseteq perils' /\ acked' = acked
         /\ RebuildClose(t) => pc'[t] = "salvage"
         /\ Unback(t) => pc'[t] = "moveWal"
         /\ MoveWal(t) => pc'[t] = "shelve"
         /\ Shelve(t) => pc'[t] = "swap"
<1> USE DEF Labels, Callers
<1>0. ControlType BY TypeParts
<1>1. \A u \in Threads \ {t} : pc'[u] = pc[u]
  <2>1. Return(t, FALSE) \/ \E l \in Labels : Goto(t, l)
    BY DEF RebuildAndSwap, RebuildClose, Salvage, Unback, MoveWal, Shelve, Swap
  <2> QED BY <1>0, <2>1, GotoMoves, ReturnMoves
<1>2. acked' = acked
  BY DEF RebuildAndSwap, RebuildClose, Salvage, Unback, MoveWal, Shelve, Swap, calls
<1>3. perils \subseteq perils'
  <2>1. CASE RebuildClose(t) BY <2>1, PerilType DEF RebuildClose, Perils
  <2>2. CASE Salvage(t)
    <3>1. perils' = perils \/ \E h \in BOOLEAN : Peril("partial", h)
      <4>1. \A rows : (rows # Content) \in BOOLEAN OBVIOUS
      <4> QED BY <2>2, <4>1 DEF Salvage
    <3> QED BY <3>1, PerilType DEF Perils
  <2>3. CASE Unback(t) BY <2>3, PerilType DEF Unback, Perils
  <2>4. CASE MoveWal(t)
    <3>1. CASE wal = NoFile BY <2>4, <3>1 DEF MoveWal
    <3>2. CASE wal # NoFile BY <2>4, <3>2, PerilType DEF MoveWal, Perils
    <3> QED BY <3>1, <3>2
  <2>5. CASE Shelve(t) \/ Swap(t) BY <2>5 DEF Shelve, Swap
  <2> QED BY <2>1, <2>2, <2>3, <2>4, <2>5 DEF RebuildAndSwap
<1>4. RebuildClose(t) => pc'[t] = "salvage" BY <1>0, GotoMoves DEF RebuildClose
<1>5. Unback(t) => pc'[t] = "moveWal" BY <1>0, GotoMoves DEF Unback
<1>6. MoveWal(t) => pc'[t] = "shelve" BY <1>0, GotoMoves DEF MoveWal
<1>7. Shelve(t) => pc'[t] = "swap" BY <1>0, GotoMoves DEF Shelve
<1> QED BY <1>1, <1>2, <1>3, <1>4, <1>5, <1>6, <1>7

\* The thread in the window is alone in it, unless two rebuilt the file at once.
LEMMA RebuildAlone ==
  ASSUME TypeOK, Kept, NEW t \in Threads, RebuildAndSwap(t)
  PROVE  /\ OneWindow'
         /\ "twice" \notin perils' => \A u \in Threads \ {t} : Outside(u) /\ Outside(u)'
<1>1. (\A u \in Threads \ {t} : pc'[u] = pc[u]) /\ perils \subseteq perils'
  BY RebuildPlaces
<1>2. "twice" \notin perils' => \A u \in Threads \ {t} : ~Replacing(u)
  <2>1. CASE RebuildClose(t)
    <3>1. (\E u \in Threads \ {t} : Replacing(u)) => "twice" \in perils'
      BY <2>1, PerilType DEF RebuildClose, Perils
    <3> QED BY <3>1
  <2>2. CASE ~RebuildClose(t)
    <3>1. Replacing(t)
      BY <2>2 DEF RebuildAndSwap, Salvage, Unback, MoveWal, Shelve, Swap, Replacing
    <3> QED BY <1>1, <3>1 DEF Kept, OneWindow
  <2> QED BY <2>1, <2>2
<1>3. \A u \in Threads \ {t} : Replacing(u)' = Replacing(u) BY <1>1 DEF Replacing, At
<1>4. OneWindow' BY <1>2, <1>3 DEF OneWindow
<1>5. "twice" \notin perils' => \A u \in Threads \ {t} : ~Replacing(u) /\ ~Replacing(u)'
  BY <1>2, <1>3
<1>6. "twice" \notin perils' => \A u \in Threads \ {t} : Outside(u)'
  BY <1>5 DEF Outside, Replacing, Copied, Moving
<1> QED BY <1>4, <1>5, <1>6, OutsidePlaces

LEMMA RebuildCloseKept ==
  ASSUME TypeOK, InstSound, Kept, NEW t \in Threads, RebuildClose(t)
  PROVE  Kept'
<1>1. /\ OneWindow' /\ perils \subseteq perils' /\ acked' = acked
      /\ "twice" \notin perils' => \A u \in Threads \ {t} : Outside(u) /\ Outside(u)'
      /\ pc[t] = "rebuild" /\ pc'[t] = "salvage"
  BY RebuildAlone, RebuildPlaces DEF RebuildAndSwap, RebuildClose, At
<1>2. /\ Content \subseteq Content' /\ bak' = bak /\ bakWal' = bakWal
      /\ wal' \in {wal, NoFile} /\ (Owned => Stored \subseteq Stored')
  BY HangEffect DEF RebuildClose, Close
<1>3. "twice" \notin perils' =>
        \A u \in Threads : /\ ~Moving(u) /\ ~Copied(u)' /\ ~Moving(u)'
                           /\ ~At(u, "moveWal")' /\ ~At(u, "shelve")' /\ ~At(u, "swap")'
  BY <1>1 DEF Outside, Moving, Copied, At
<1>4. CopyComplete' BY <1>1, <1>2, <1>3 DEF Kept, CopyComplete
<1>5. BackupFree' BY <1>1, <1>2, <1>3 DEF Kept, BackupFree, Owned
<1> QED BY <1>1, <1>4, <1>5 DEF Kept

LEMMA RestoreEffect ==
  ASSUME TypeOK, Restore, wal' = wal, bakWal' = bakWal
  PROVE  /\ Content \subseteq Content' /\ Stored \subseteq Stored'
         /\ bak = NoFile => bak' = NoFile
<1>1. Content \subseteq Content'
  <2>1. CASE db = NoFile BY <2>1 DEF Content
  <2>2. CASE db # NoFile BY <2>2 DEF Restore, Content
  <2> QED BY <2>1, <2>2
<1>2. Stored \subseteq Stored'
  <2>1. RowsOf(db) \union RowsOf(bak) \subseteq RowsOf(db)' \union RowsOf(bak)'
    BY DEF Restore, RowsOf
  <2>2. RowsOf(wal)' = RowsOf(wal) /\ RowsOf(bakWal)' = RowsOf(bakWal) BY DEF RowsOf
  <2> QED BY <2>1, <2>2 DEF Stored
<1> QED BY <1>1, <1>2 DEF Restore

\* The thread gives the rebuild up, before or after it moved the old file.
LEMMA GivenUpKept ==
  ASSUME TypeOK, Kept, NEW t \in Threads, RebuildAndSwap(t), Return(t, FALSE),
         Replacing(t), ~Moving(t) \/ rec = NoFile,
         Restore, wal' = wal, bakWal' = bakWal
  PROVE  Kept'
<1> USE DEF Callers
<1>1. /\ OneWindow' /\ perils \subseteq perils' /\ acked' = acked
      /\ "twice" \notin perils' => \A u \in Threads \ {t} : Outside(u) /\ Outside(u)'
  BY RebuildAlone, RebuildPlaces
<1>2. ~Replacing(t)' /\ ~Copied(t)' /\ ~Moving(t)' /\ ~At(t, "moveWal")' /\ ~At(t, "shelve")'
      /\ ~At(t, "swap")'
  <2>1. ControlType /\ depth[t] \in Nat BY TypeParts DEF TypeOK
  <2>2. depth[t] > 0 \/ depth[t] = 0 BY <2>1
  <2>3. /\ depth[t] > 0 => pc'[t] = "rebuilt"
        /\ depth[t] = 0 => pc'[t] \in Callers \union {"discard"}
    BY <2>1, ReturnMoves
  <2> QED BY <2>2, <2>3 DEF Replacing, Copied, Moving, At
<1>3. /\ Content \subseteq Content' /\ Stored \subseteq Stored' BY RestoreEffect
<1>4. CopyComplete'
  <2>1. perils \subseteq {"replaced"} /\ "twice" \notin perils' => ~Moving(t)
    <3>1. Copied(t) /\ perils \subseteq {"replaced"} => rec # NoFile
      BY DEF Kept, CopyComplete
    <3>2. Moving(t) => Copied(t) BY DEF Moving, Copied
    <3> QED BY <3>1, <3>2
  <2>2. perils' \subseteq {"replaced"} => \A u \in Threads : ~Moving(u) /\ ~Copied(u)'
    BY <1>1, <1>2, <2>1 DEF Outside
  <2> QED BY <1>1, <1>3, <2>2 DEF Kept, CopyComplete
<1>5. BackupFree'
  <2>1. perils' \subseteq {"partial", "torn"} =>
          \A u \in Threads : ~Moving(u)' /\ ~At(u, "moveWal")' /\ ~At(u, "shelve")' /\ ~At(u, "swap")'
    BY <1>1, <1>2 DEF Outside
  <2> QED BY <1>1, <1>3, <2>1 DEF Kept, BackupFree, Owned
<1> QED BY <1>1, <1>4, <1>5 DEF Kept

\* The copy: all that a reader would find, or the thread is in one of the perils.
LEMMA SalvageKept ==
  ASSUME TypeOK, InstSound, Kept, NEW t \in Threads, Salvage(t)
  PROVE  Kept'
<1> USE DEF Labels
<1>0. pc[t] = "salvage" /\ wal' = wal /\ bakWal' = bakWal BY DEF Salvage, At
<1>1. /\ OneWindow' /\ perils \subseteq perils' /\ acked' = acked
      /\ "twice" \notin perils' => \A u \in Threads \ {t} : Outside(u) /\ Outside(u)'
  BY RebuildAlone, RebuildPlaces DEF RebuildAndSwap
<1>2. CASE Return(t, FALSE) /\ Restore
  <2>1. Replacing(t) /\ ~Moving(t) BY <1>0 DEF Replacing, Moving, At
  <2> QED BY <1>0, <1>2, <2>1, GivenUpKept DEF RebuildAndSwap
<1>3. CASE \E rows \in SUBSET Content :
             /\ rec' = [rows |-> rows, hurt |-> FALSE]
             /\ Peril("partial", rows # Content)
             /\ Goto(t, "unback")
             /\ UNCHANGED <<db, bak, inst>>
  <2>1. PICK rows \in SUBSET Content :
          /\ rec' = [rows |-> rows, hurt |-> FALSE]
          /\ Peril("partial", rows # Content)
          /\ Goto(t, "unback")
          /\ UNCHANGED <<db, bak, inst>>
    BY <1>3
  <2>2. rec' \in File /\ rec' # NoFile /\ rec'.rows = rows
    <3>1. rows \subseteq Writes BY ContentType
    <3>2. rec' \in File /\ rec'.rows = rows BY <2>1, <3>1 DEF File
    <3> QED BY <3>2, FtmAssumption
  <2>3. "partial" \notin perils' => rows = Content BY <2>1, PerilType DEF Perils
  <2>4. Content' = Content /\ Stored' = Stored BY <1>0, <2>1 DEF Content, Stored, RowsOf
  <2>5. pc'[t] = "unback"
    <3>1. ControlType BY TypeParts
    <3> QED BY <2>1, <3>1, GotoMoves
  <2>6. "twice" \notin perils' =>
          \A u \in Threads : /\ ~Moving(u) /\ ~Moving(u)' /\ ~At(u, "moveWal")'
                             /\ ~At(u, "shelve")' /\ ~At(u, "swap")'
    BY <1>0, <1>1, <2>5 DEF Outside, Moving, At
  <2>7. CopyComplete' BY <1>1, <2>2, <2>3, <2>4, <2>6 DEF Kept, CopyComplete
  <2>8. BackupFree' BY <1>0, <1>1, <2>4, <2>6 DEF Kept, BackupFree, Owned
  <2> QED BY <1>1, <2>7, <2>8 DEF Kept
<1> QED BY <1>2, <1>3 DEF Salvage

LEMMA UnbackKept ==
  ASSUME TypeOK, InstSound, Kept, NEW t \in Threads, Unback(t)
  PROVE  Kept'
<1>0. /\ pc[t] = "unback" /\ bak' = NoFile /\ UNCHANGED <<db, rec, wal, bakWal>>
      /\ bak # NoFile => "replaced" \in perils'
  BY PerilType DEF Unback, At, Perils
<1>1. /\ OneWindow' /\ perils \subseteq perils' /\ acked' = acked /\ pc'[t] = "moveWal"
      /\ "twice" \notin perils' => \A u \in Threads \ {t} : Outside(u) /\ Outside(u)'
  BY RebuildAlone, RebuildPlaces DEF RebuildAndSwap
<1>2. Copied(t) /\ ~Moving(t) /\ ~Moving(t)' /\ ~At(t, "shelve")' /\ ~At(t, "swap")'
  BY <1>0, <1>1 DEF Copied, Moving, At
<1>3. Content' = Content BY <1>0 DEF Content
<1>4. CopyComplete' BY <1>0, <1>1, <1>2, <1>3 DEF Kept, CopyComplete, Outside
<1>5. BackupFree'
  <2> SUFFICES ASSUME perils' \subseteq {"partial", "torn"} PROVE BackupFree'
    BY DEF BackupFree
  <2>1. bak' = bak BY <1>0
  <2>2. Stored' = Stored /\ Owned' = Owned BY <1>0, <2>1 DEF Stored, RowsOf, Owned
  <2> QED BY <1>0, <1>1, <1>2, <2>2 DEF Kept, BackupFree, Outside
<1> QED BY <1>1, <1>4, <1>5 DEF Kept

LEMMA MoveWalKept ==
  ASSUME TypeOK, InstSound, Kept, NEW t \in Threads, MoveWal(t)
  PROVE  Kept'
<1>0. pc[t] = "moveWal" /\ UNCHANGED <<db, bak, rec>> BY DEF MoveWal, At
<1>1. /\ OneWindow' /\ perils \subseteq perils' /\ acked' = acked /\ pc'[t] = "shelve"
      /\ "twice" \notin perils' => \A u \in Threads \ {t} : Outside(u) /\ Outside(u)'
  BY RebuildAlone, RebuildPlaces DEF RebuildAndSwap
<1>2. Copied(t) /\ At(t, "moveWal") /\ Moving(t)' /\ ~At(t, "swap")'
  BY <1>0, <1>1 DEF Copied, Moving, At
<1>3. CopyComplete' BY <1>0, <1>1, <1>2 DEF Kept, CopyComplete, Outside
<1>4. BackupFree'
  <2> SUFFICES ASSUME perils' \subseteq {"partial", "torn"} PROVE BackupFree'
    BY DEF BackupFree
  <2>1. /\ acked \subseteq Stored /\ Owned /\ bak = NoFile
    BY <1>1, <1>2 DEF Kept, BackupFree
  <2>2. wal' = NoFile /\ Stored \subseteq Stored'
    <3>1. CASE wal = NoFile BY <1>0, <3>1 DEF MoveWal, Stored, RowsOf
    <3>2. CASE wal # NoFile
      <4>1. /\ bakWal' = [wal EXCEPT !.kind = "own"] /\ wal' = NoFile
            /\ Peril("replaced", bakWal # NoFile)
        BY <3>2 DEF MoveWal
      <4>2. bakWal = NoFile BY <4>1, PerilType DEF Perils
      <4>3. wal \in Log BY <3>2 DEF TypeOK
      <4>4. bakWal' \in Log /\ bakWal'.rows = wal.rows BY <4>1, <4>3 DEF Log
      <4>5. bakWal' # NoFile BY <4>4, FtmAssumption
      <4>6. RowsOf(bakWal)' = RowsOf(wal) /\ RowsOf(bakWal) = {} BY <3>2, <4>2, <4>4, <4>5 DEF RowsOf
      <4>7. RowsOf(db)' = RowsOf(db) /\ RowsOf(bak)' = RowsOf(bak) BY <1>0 DEF RowsOf
      <4> QED BY <4>1, <4>6, <4>7 DEF Stored
    <3> QED BY <3>1, <3>2
  <2> QED BY <1>0, <1>1, <1>2, <2>1, <2>2 DEF BackupFree, Outside, Owned
<1> QED BY <1>1, <1>3, <1>4 DEF Kept

\* The old file takes the name of the backup, which is free.
LEMMA ShelveKept ==
  ASSUME TypeOK, InstSound, Kept, NEW t \in Threads, Shelve(t)
  PROVE  Kept'
<1>0. pc[t] = "shelve" /\ rec' = rec /\ bakWal' = bakWal BY DEF Shelve, At
<1>1. /\ OneWindow' /\ perils \subseteq perils' /\ acked' = acked /\ pc'[t] = "swap"
      /\ "twice" \notin perils' => \A u \in Threads \ {t} : Outside(u) /\ Outside(u)'
  BY RebuildAlone, RebuildPlaces DEF RebuildAndSwap
<1>2. Copied(t) /\ At(t, "shelve") /\ Moving(t) /\ Moving(t)' /\ ~At(t, "moveWal")' /\ ~At(t, "shelve")'
  BY <1>0, <1>1 DEF Copied, Moving, At
<1>3. CopyComplete' BY <1>0, <1>1, <1>2 DEF Kept, CopyComplete, Outside
<1>4. BackupFree'
  <2> SUFFICES ASSUME perils' \subseteq {"partial", "torn"} PROVE BackupFree'
    BY DEF BackupFree
  <2>1. acked \subseteq Stored /\ bak = NoFile /\ wal = NoFile
    BY <1>1, <1>2 DEF Kept, BackupFree
  <2>2. acked \subseteq RowsOf(db) \union RowsOf(bakWal) BY <2>1 DEF Stored, RowsOf
  <2>3. wal' = NoFile /\ RowsOf(db) \subseteq RowsOf(bak)'
    <3>1. CASE db = NoFile BY <2>1, <3>1 DEF Shelve, RowsOf
    <3>2. CASE db # NoFile BY <2>1, <3>2, OrphanType DEF Shelve, RowsOf
    <3> QED BY <3>1, <3>2
  <2>4. acked \subseteq RowsOf(bak)' \union RowsOf(bakWal)' BY <1>0, <2>2, <2>3 DEF RowsOf
  <2>5. acked' \subseteq Stored' /\ Owned' BY <1>1, <2>3, <2>4 DEF Stored, Owned
  <2>6. acked' \subseteq (RowsOf(bak) \union RowsOf(bakWal))' BY <1>1, <2>4
  <2> QED BY <1>1, <1>2, <2>3, <2>5, <2>6 DEF BackupFree, Outside
<1> QED BY <1>1, <1>3, <1>4 DEF Kept

LEMMA SwapKept ==
  ASSUME TypeOK, InstSound, Kept, NEW t \in Threads, Swap(t)
  PROVE  Kept'
<1> USE DEF Labels
<1>0. pc[t] = "swap" /\ rec' = NoFile /\ bakWal' = bakWal BY DEF Swap, At
<1>1. /\ OneWindow' /\ perils \subseteq perils' /\ acked' = acked
      /\ "twice" \notin perils' => \A u \in Threads \ {t} : Outside(u) /\ Outside(u)'
  BY RebuildAlone, RebuildPlaces DEF RebuildAndSwap
<1>2. Copied(t) /\ Moving(t) /\ Replacing(t) /\ At(t, "swap")
  BY <1>0 DEF Copied, Moving, Replacing, At
<1>3. CASE rec = NoFile
  <2>1. Restore /\ Return(t, FALSE) /\ wal' = wal BY <1>3 DEF Swap
  <2> QED BY <1>0, <1>2, <1>3, <2>1, GivenUpKept DEF RebuildAndSwap
<1>4. CASE rec # NoFile
  <2>1. db' = rec /\ wal' \in Orphan /\ Goto(t, "init") /\ bak' = bak BY <1>4 DEF Swap
  <2>2. pc'[t] = "init"
    <3>1. ControlType BY TypeParts
    <3> QED BY <2>1, <3>1, GotoMoves
  <2>3. "twice" \notin perils' =>
          \A u \in Threads : /\ ~Copied(u)' /\ ~Moving(u)' /\ ~At(u, "moveWal")'
                             /\ ~At(u, "shelve")' /\ ~At(u, "swap")'
    BY <1>1, <2>2 DEF Outside, Copied, Moving, At
  <2>4. Content' = rec.rows BY <1>4, <2>1, OrphanType DEF Content
  <2>5. CopyComplete' BY <1>1, <1>2, <2>3, <2>4 DEF Kept, CopyComplete
  <2>6. BackupFree'
    <3> SUFFICES ASSUME perils' \subseteq {"partial", "torn"} PROVE BackupFree'
      BY DEF BackupFree
    <3>1. wal = NoFile /\ acked \subseteq RowsOf(bak) \union RowsOf(bakWal)
      BY <1>1, <1>2 DEF Kept, BackupFree
    <3>2. wal' = NoFile BY <2>1, <3>1, OrphanType
    <3>3. acked' \subseteq Stored' BY <1>0, <1>1, <2>1, <3>1 DEF Stored, RowsOf
    <3> QED BY <1>1, <2>3, <3>2, <3>3 DEF BackupFree, Owned
  <2> QED BY <1>1, <2>5, <2>6 DEF Kept
<1> QED BY <1>3, <1>4

LEMMA NextKept == TypeInv /\ Kept /\ [Next]_vars => Kept'
<1> SUFFICES ASSUME TypeInv, Kept, [Next]_vars PROVE Kept'
  OBVIOUS
<1> USE DEF TypeInv
<1>1. ASSUME NEW t \in Threads, RebuildAndSwap(t) PROVE Kept'
  BY <1>1, RebuildCloseKept, SalvageKept, UnbackKept, MoveWalKept, ShelveKept, SwapKept
  DEF RebuildAndSwap
<1>2. ASSUME NEW t \in Threads, Step(t) \/ Begin(t) \/ Status(t) PROVE Kept'
  BY <1>1, <1>2, OutsideKept, DoneKept DEF Step, Run
<1>3. ASSUME NEW t \in Readers, OpenReader(t) \/ CloseReader(t) PROVE Kept'
  BY <1>3, ReaderKept
<1>4. CASE Fatal BY <1>4, FatalKept
<1>5. CASE Crash BY <1>5, CrashKept
<1>6. CASE UNCHANGED vars
  <2>1. UNCHANGED files /\ acked' = acked /\ perils' = perils /\ pc' = pc
    BY <1>6 DEF vars, calls, control
  <2>2. Aside BY <2>1 DEF Aside
  <2> QED BY <2>1, <2>2, SameQuiet, QuietKeeps
<1> QED BY <1>2, <1>3, <1>4, <1>5, <1>6 DEF Next

LEMMA KeptAlways == Spec => []Kept
<1>1. Init => Kept
  <2> SUFFICES ASSUME Init PROVE Kept
    OBVIOUS
  <2>1. \A t \in Threads : /\ ~Replacing(t) /\ ~Copied(t) /\ ~Moving(t) /\ ~At(t, "moveWal")
                           /\ ~At(t, "shelve") /\ ~At(t, "swap")
    BY DEF Init, Replacing, Copied, Moving, At
  <2>2. acked = {} /\ wal = NoFile BY DEF Init
  <2> QED BY <2>1, <2>2 DEF Kept, OneWindow, CopyComplete, BackupFree, Owned
<1> QED BY <1>1, NextKept, TypeInvAlways, PTL DEF Spec

\* Whatever threads, readers, crashes and failures do: a write that was reported as done
\* is in the file, unless one of the listed perils happened.
THEOREM KeepsWhatWasAcked == Spec => []AckedKept
<1>1. Kept => AckedKept BY DEF Kept, CopyComplete, AckedKept
<1> QED BY <1>1, KeptAlways, PTL

\* What the copy, or a crash in the middle of the swap, lost is in the backup.
THEOREM KeepsForInspection == Spec => []KeptForInspection
<1>1. Kept => KeptForInspection
  <2>1. Stored = UNION {RowsOf(f) : f \in {db, bak, wal, bakWal}} BY DEF Stored
  <2> QED BY <2>1 DEF Kept, BackupFree, KeptForInspection
<1> QED BY <1>1, KeptAlways, PTL

=============================================================================
