---------------------- MODULE StorageMigrationProofs ----------------------
(* Proofs about StorageMigration: for any legacy homes, migrations and commands,
   and any number of kills and power failures. *)
EXTENDS StorageMigration, TLAPS

USE StorageAssumption, NoDirectory

\* The data that the legacy daemon of h has made.
OwnData(h, data) == \E n \in Copies : data = {<<h, n>>}

\* A home holds the data of its own legacy daemon.  A final manifest in it is its
\* own, brought back with an undone move; only its pending one may be unsynced.
HomesHoldTheirOwn ==
    \A h \in Homes : Exists(h) => /\ OwnData(h, at[h].data) /\ at[h].final \in {None, h}
                                  /\ at[h].soft \subseteq {"pending"}

\* Nothing, data of the destination's own or that of one home; a manifest names
\* that home, unless it is one of those that are excepted.
OnRecord(data, pending, final, excepted) ==
    /\ data \in {{}, {Fresh}} \/ \E h \in Homes : OwnData(h, data)
    /\ \A h \in Homes \ excepted : OwnData(h, data) => h \in {pending, final}
    /\ final # None => OwnData(final, data)
    /\ pending # None => OwnData(pending, data)

\* The pending manifest backs a final one that is not yet durable; a final one
\* stands when the pending one is removed.
Backed(soft, pending, final, excepted) ==
    /\ "final" \in soft => final # None /\ pending = final
    /\ "removal" \in soft => final # None /\ pending = None
    /\ "pending" \in soft => pending \in excepted

DestinationOnRecord ==
    Exists(Dest) => /\ OnRecord(at[Dest].data, at[Dest].pending, at[Dest].final, reused)
                    /\ Backed(at[Dest].soft, at[Dest].pending, at[Dest].final, reused)

\* What a migration knows of the disk at each of its steps.
MigratorKnows(m) ==
    LET src == run[m].src IN
    /\ run[m].pc = "look" => ~run[m].moved
    /\ run[m].pc \in {"choose", "pending", "sync_pending", "rename"} /\ Exists(Dest) =>
          at[Dest].data \subseteq {Fresh}
    /\ run[m].pc \in {"pending", "sync_pending", "rename"} => src \in Homes /\ Exists(src)
    /\ run[m].pc \in {"sync_pending", "rename"} => at[src].pending = src
    /\ run[m].pc = "rename" /\ "pending" \in at[src].soft => src \in reused
    /\ run[m].pc \in {"sync_move", "final"} =>
          src \in Homes /\ Exists(Dest) /\ at[Dest].pending = src /\ at[Dest].final \in {None, src}
    /\ run[m].pc \in {"sync_final", "remove"} =>
          src \in Homes /\ Exists(Dest) /\ at[Dest].pending = src /\ at[Dest].final = src
    /\ run[m].pc = "report" => src \in Homes /\ Exists(Dest) /\ at[Dest].final = src
    /\ run[m].pc \in {"remove", "report"} => "final" \notin at[Dest].soft /\ "pending" \notin at[Dest].soft
    /\ run[m].moved /\ run[m].pc \in {"final", "sync_final", "remove", "report"} => unsynced = None

\* A move that is not durable has left the home empty and filled the destination.
MoveIsOpen ==
    unsynced # None => ~Exists(unsynced) /\ Exists(Dest) /\ OwnData(unsynced, at[Dest].data)

\* A migration is about to sync what it has changed.
Syncing(pc, src) == \E m \in Migrators : run[m].pc = pc /\ run[m].src = src

MoveIsOwned == unsynced # None => Syncing("sync_move", unsynced)

PendingIsOwned == \A h \in Homes : Exists(h) /\ at[h].soft # {} => Syncing("sync_pending", h)

FinalIsOwned ==
    Exists(Dest) /\ "final" \in at[Dest].soft => Syncing("sync_final", at[Dest].final)

\* As long as no migration has been killed, whatever is not durable belongs to
\* the migration that is about to sync it.
UnsyncedIsOwned ==
    kills = 0 => MoveIsOwned /\ PendingIsOwned /\ FinalIsOwned /\ reused = {}

\* What is recorded at the destination cannot be lost.
RecordIsDurable == "final" \notin at[Dest].soft /\ unsynced = None

\* What was reported is recorded, durably when the run that reports it has moved
\* the directory or no migration was killed.
ReportIsDurable ==
    /\ reported # {} => Exists(Dest) /\ reported = {at[Dest].final} /\ RecordIsDurable
    /\ found # {} => /\ Exists(Dest) /\ found = {at[Dest].final}
                     /\ kills = 0 => RecordIsDurable

\* The types of what is only recorded or counted.
HistoryOK == /\ reported \subseteq Homes /\ found \subseteq Homes /\ reused \subseteq Homes
             /\ kills \in 0..MaxKills /\ outages \in 0..MaxOutages

\* A command that is about to take the daemon lock has its directory.
LockHasPlace == \A c \in Commands : command[c].pc = "lock" => Exists(Dest)

DiskInv == /\ HomesHoldTheirOwn /\ DestinationOnRecord /\ (\A m \in Migrators : MigratorKnows(m))
           /\ MoveIsOpen /\ UnsyncedIsOwned /\ ReportIsDurable

IInv == TypeOK /\ DiskInv /\ LockHasPlace /\ DaemonOwnsHome

-----------------------------------------------------------------------------

(* What the steps share *)

\* The directory at a place, or the one that is made there.
DirAt(p) == IF Exists(p) THEN at[p] ELSE EmptyDir

LEMMA DirAtType == ASSUME TypeOK, NEW p \in Places PROVE DirAt(p) \in DirType
  <1>1. EmptyDir \in DirType
    BY DEF EmptyDir, DirType
  <1> QED
    BY <1>1 DEF DirAt, Exists, TypeOK

\* StorageMigrationLock: no two migrations are under way.
LEMMA OneMigration ==
  ASSUME TypeOK, NEW m \in Migrators, NEW k \in Migrators,
         run[m].pc # "idle" \/ migration = None, run[k].pc # "idle"
  PROVE  k = m
  BY DEF TypeOK

\* Data belongs to one home, and is not the destination's own.
LEMMA OneOwner ==
  /\ \A h, g \in Homes : \A data : OwnData(h, data) /\ OwnData(g, data) => h = g
  /\ \A h \in Homes : ~OwnData(h, {}) /\ ~OwnData(h, {Fresh})
  <1>1. ASSUME NEW h \in Homes, NEW g \in Homes, NEW data, OwnData(h, data), OwnData(g, data)
        PROVE  h = g
    <2>1. PICK n \in Copies : data = {<<h, n>>}
      BY <1>1 DEF OwnData
    <2>2. PICK k \in Copies : data = {<<g, k>>}
      BY <1>1 DEF OwnData
    <2>3. <<h, n>> = <<g, k>>
      BY <2>1, <2>2
    <2> QED
      BY <2>3
  <1>2. ASSUME NEW h \in Homes PROVE ~OwnData(h, {}) /\ ~OwnData(h, {Fresh})
    <2>1. \A n \in Copies : <<h, n>> # Fresh
      BY DEF Fresh
    <2> QED
      BY <2>1 DEF OwnData
  <1> QED
    BY <1>1, <1>2

\* An empty directory needs no record.
LEMMA NothingToRecord ==
  ASSUME NEW excepted
  PROVE  /\ OnRecord({}, None, None, excepted) /\ OnRecord({Fresh}, None, None, excepted)
         /\ Backed({}, None, None, excepted)
  BY OneOwner DEF OnRecord, Backed

LEMMA InitInv == Init => IInv
  <1> SUFFICES ASSUME Init PROVE IInv
    OBVIOUS
  <1>1. \A h \in Homes : at[h] # None =>
            \E g \in (Homes \ {h}) \cup {None} : at[h] = [LegacyDir(h, 1) EXCEPT !.pending = g]
    BY DEF Init, InitialDirs
  <1>3. ASSUME NEW h \in Homes, at[h] # None
        PROVE  at[h] \in DirType /\ OwnData(h, at[h].data) /\ at[h].final = None /\ at[h].soft = {}
    <2>1. PICK g \in (Homes \ {h}) \cup {None} : at[h] = [LegacyDir(h, 1) EXCEPT !.pending = g]
      BY <1>1, <1>3
    <2>2. at[h] = [data |-> {<<h, 1>>}, config |-> {<<h, 1>>}, pending |-> g, final |-> None,
                   soft |-> {}, daemon |-> None, files |-> FALSE, legacy |-> FALSE]
      BY <2>1 DEF LegacyDir, EmptyDir
    <2>3. {<<h, 1>>} \in SUBSET Origins
      BY DEF Origins
    <2> QED
      BY <2>2, <2>3 DEF DirType, OwnData
  <1>4. HomesHoldTheirOwn /\ UnsyncedIsOwned /\ MoveIsOpen
    BY <1>3 DEF Init, HomesHoldTheirOwn, UnsyncedIsOwned, MoveIsOwned, PendingIsOwned, FinalIsOwned,
                MoveIsOpen, Exists
  <1>5. at \in [Places -> DirType \cup {None}]
    <2>1. \A p \in Places : at[p] \in DirType \cup {None}
      BY <1>3 DEF Init, Places
    <2> QED
      BY <2>1 DEF Init
  <1>6. TypeOK
    <2>1. IdleRun \in RunType /\ IdleRun.pc = "idle" /\ IdleCommand \in CommandType
      BY DEF IdleRun, IdleCommand, RunType, CommandType
    <2>2. /\ run \in [Migrators -> RunType] /\ command \in [Commands -> CommandType]
          /\ \A m \in Migrators : run[m].pc = "idle"
      BY <2>1 DEF Init
    <2>3. HistoryOK
      BY DEF Init, HistoryOK
    <2> QED
      BY <1>5, <2>2, <2>3 DEF Init, TypeOK, HistoryOK
  <1>7. DiskInv
    BY <1>4 DEF Init, DiskInv, DestinationOnRecord, MigratorKnows, ReportIsDurable, Exists, IdleRun
  <1> QED
    BY <1>6, <1>7 DEF Init, IInv, LockHasPlace, DaemonOwnsHome, IdleCommand

\* A step that changes at one place only what no manifest and no report is about,
\* making the destination when it is missing.
LEMMA PlaceKept ==
  ASSUME IInv, NEW p \in Places, p = Dest \/ Exists(p),
         NEW d \in DirType, at' = [at EXCEPT ![p] = d],
         d.data = DirAt(p).data, d.pending = DirAt(p).pending,
         d.final = DirAt(p).final, d.soft = DirAt(p).soft,
         UNCHANGED <<unsynced, run, reported, found, reused, kills>>
  PROVE  DiskInv'
  <1>1. /\ at'[p] = d /\ d # None
        /\ \A q \in Places : q # p => at'[q] = at[q]
    BY DEF IInv, TypeOK
  <1>2. Dest \in Places /\ Homes \subseteq Places /\ Dest \notin Homes /\ DiskInv
    BY DEF Places, IInv
  <1>h. ASSUME NEW h \in Homes
        PROVE  /\ Exists(h)' <=> Exists(h)
               /\ Exists(h) => /\ at'[h].data = at[h].data /\ at'[h].pending = at[h].pending
                               /\ at'[h].final = at[h].final /\ at'[h].soft = at[h].soft
    <2>1. CASE h = p
      BY <1>1, <1>2, <2>1 DEF DirAt, Exists
    <2>2. CASE h # p
      BY <1>1, <1>2, <2>2 DEF Exists
    <2> QED
      BY <2>1, <2>2
  <1>d. /\ Exists(Dest) => /\ Exists(Dest)' /\ at'[Dest].data = at[Dest].data
                           /\ at'[Dest].pending = at[Dest].pending
                           /\ at'[Dest].final = at[Dest].final /\ at'[Dest].soft = at[Dest].soft
        /\ ~Exists(Dest) /\ Exists(Dest)' =>
               /\ at'[Dest].data = {} /\ at'[Dest].pending = None
               /\ at'[Dest].final = None /\ at'[Dest].soft = {}
    <2>1. CASE p = Dest
      BY <1>1, <2>1 DEF DirAt, Exists, EmptyDir
    <2>2. CASE p # Dest
      BY <1>1, <1>2, <2>2 DEF Exists
    <2> QED
      BY <2>1, <2>2
  <1>3. HomesHoldTheirOwn'
    BY <1>2, <1>h DEF HomesHoldTheirOwn, DiskInv
  <1>4. DestinationOnRecord'
    BY <1>2, <1>d, NothingToRecord DEF DestinationOnRecord, DiskInv
  <1>o. MoveIsOpen'
    <2>1. unsynced \in Homes \cup {None}
      BY DEF IInv, TypeOK
    <2> QED
      BY <1>2, <1>h, <1>d, <2>1 DEF MoveIsOpen, DiskInv
  <1>5. (\A m \in Migrators : MigratorKnows(m))'
    <2> SUFFICES ASSUME NEW m \in Migrators PROVE MigratorKnows(m)'
      OBVIOUS
    <2>1. MigratorKnows(m) /\ run' = run
      BY <1>2 DEF DiskInv
    <2> QED
      BY <1>h, <1>d, <2>1 DEF MigratorKnows
  <1>6. UnsyncedIsOwned'
    <2> SUFFICES ASSUME kills = 0
                 PROVE  MoveIsOwned' /\ PendingIsOwned' /\ FinalIsOwned' /\ reused = {}
      BY DEF UnsyncedIsOwned
    <2>1. MoveIsOwned /\ PendingIsOwned /\ FinalIsOwned /\ reused = {}
      BY <1>2 DEF DiskInv, UnsyncedIsOwned
    <2>2. \A pc, src : Syncing(pc, src)' <=> Syncing(pc, src)
      BY DEF Syncing
    <2>3. MoveIsOwned'
      <3>1. unsynced \in Homes \cup {None}
        BY DEF IInv, TypeOK
      <3> QED
        BY <1>h, <2>1, <2>2, <3>1 DEF MoveIsOwned
    <2>4. PendingIsOwned'
      BY <1>h, <2>1, <2>2 DEF PendingIsOwned
    <2>5. FinalIsOwned'
      BY <1>d, <2>1, <2>2 DEF FinalIsOwned
    <2> QED
      BY <2>1, <2>3, <2>4, <2>5
  <1>7. ReportIsDurable'
    BY <1>2, <1>d DEF ReportIsDurable, RecordIsDurable, DiskInv
  <1> QED
    BY <1>3, <1>4, <1>o, <1>5, <1>6, <1>7 DEF DiskInv

\* A step of a migration that leaves the disk as it is.
LEMMA DiskRead ==
  ASSUME IInv, NEW m \in Migrators, run[m].pc # "idle" \/ migration = None,
         UNCHANGED <<at, unsynced, command, reused>>,
         kills' = 0 => kills = 0 /\ run[m].pc \notin {"sync_pending", "sync_move", "sync_final"},
         NEW r \in RunType, run' = [run EXCEPT ![m] = r],
         r.pc = "idle" \/ migration' = m,
         r.pc = "look" => ~r.moved,
         r.pc = "pending" => r.src \in Homes /\ Exists(r.src),
         r.pc = "final" => /\ r.src \in Homes /\ Exists(Dest) /\ at[Dest].pending = r.src
                           /\ at[Dest].final = None /\ ~r.moved,
         r.pc \in {"idle", "look", "vacant", "choose", "pending", "final"},
         r.pc \in {"choose", "pending"} /\ Exists(Dest) => at[Dest].data \subseteq {Fresh},
         HistoryOK', ReportIsDurable'
  PROVE  IInv'
  <1> USE DEF IInv
  <1>1. \A k \in Migrators : run[k].pc # "idle" => k = m
    BY OneMigration
  <1>2. /\ run'[m] = r
        /\ \A k \in Migrators : k # m => run'[k] = run[k]
    BY DEF TypeOK
  <1>3. TypeOK'
    BY <1>1, <1>2 DEF TypeOK, HistoryOK
  <1>4. (\A k \in Migrators : MigratorKnows(k))'
    BY <1>1, <1>2 DEF MigratorKnows, Exists
  <1>5. UnsyncedIsOwned'
    <2>1. CASE kills' # 0
      BY <2>1 DEF UnsyncedIsOwned
    <2>2. CASE kills' = 0
      <3>1. \A pc \in {"sync_pending", "sync_move", "sync_final"} : \A src : ~Syncing(pc, src)
        BY <1>1, <2>2 DEF Syncing
      <3> QED
        BY <2>2, <3>1 DEF UnsyncedIsOwned, MoveIsOwned, PendingIsOwned, FinalIsOwned, DiskInv, Exists
    <2> QED
      BY <2>1, <2>2
  <1>6. HomesHoldTheirOwn' /\ DestinationOnRecord' /\ MoveIsOpen'
    BY DEF HomesHoldTheirOwn, DestinationOnRecord, MoveIsOpen, DiskInv, Exists
  <1>7. LockHasPlace' /\ DaemonOwnsHome'
    BY DEF LockHasPlace, DaemonOwnsHome, Exists
  <1> QED
    BY <1>3, <1>4, <1>5, <1>6, <1>7 DEF DiskInv

\* A step of a command: it may change the lock only when nobody else holds it.
LEMMA CommandMoves ==
  ASSUME IInv, NEW c \in Commands, NEW r \in CommandType, command' = [command EXCEPT ![c] = r],
         NEW d \in DirType, at' = [at EXCEPT ![Dest] = d],
         d.data = DirAt(Dest).data, d.pending = DirAt(Dest).pending,
         d.final = DirAt(Dest).final, d.soft = DirAt(Dest).soft,
         d.daemon = DirAt(Dest).daemon \/ DirAt(Dest).daemon \in {None, c},
         r.pc \in {"check", "run"} => d.daemon = c,
         UNCHANGED <<unsynced, migration, run, reported, found, reused, kills, outages>>
  PROVE  IInv'
  <1>1. Dest \in Places
    BY DEF Places
  <1>2. DiskInv'
    BY <1>1, PlaceKept
  <1>3. TypeOK'
    BY <1>1 DEF IInv, TypeOK
  <1>4. at'[Dest] = d /\ d # None
    BY <1>1 DEF IInv, TypeOK
  <1>5. command'[c] = r /\ \A k \in Commands : k # c => command'[k] = command[k]
    BY DEF IInv, TypeOK
  <1>6. LockHasPlace'
    BY <1>4 DEF LockHasPlace, Exists
  <1>7. DaemonOwnsHome'
    BY <1>4, <1>5 DEF IInv, DaemonOwnsHome, Exists, DirAt
  <1> QED
    BY <1>2, <1>3, <1>6, <1>7 DEF IInv

LEMMA DiskUntouched ==
  DiskInv /\ UNCHANGED <<at, unsynced, run, reported, found, reused, kills>> => DiskInv'
  <1> SUFFICES ASSUME DiskInv, UNCHANGED <<at, unsynced, run, reported, found, reused, kills>> PROVE DiskInv'
    OBVIOUS
  <1>1. \A p : Exists(p)' <=> Exists(p)
    BY DEF Exists
  <1>2. \A pc, src : Syncing(pc, src)' <=> Syncing(pc, src)
    BY DEF Syncing
  <1>3. HomesHoldTheirOwn' /\ DestinationOnRecord' /\ MoveIsOpen' /\ ReportIsDurable'
    BY <1>1 DEF DiskInv, HomesHoldTheirOwn, DestinationOnRecord, MoveIsOpen, ReportIsDurable,
                RecordIsDurable
  <1>4. (\A m \in Migrators : MigratorKnows(m))'
    BY <1>1 DEF DiskInv, MigratorKnows
  <1>5. UnsyncedIsOwned'
    BY <1>1, <1>2 DEF DiskInv, UnsyncedIsOwned, MoveIsOwned, PendingIsOwned, FinalIsOwned
  <1> QED
    BY <1>3, <1>4, <1>5 DEF DiskInv

\* A step of a command that leaves the disk as it is.
LEMMA CommandReads ==
  ASSUME IInv, NEW c \in Commands, NEW r \in CommandType, command' = [command EXCEPT ![c] = r],
         r.pc # "lock", r.pc \in {"check", "run"} => command[c].pc \in {"check", "run"},
         UNCHANGED <<at, unsynced, migration, run, reported, found, reused, kills, outages>>
  PROVE  IInv'
  <1>1. TypeOK'
    BY DEF IInv, TypeOK
  <1>2. command'[c] = r /\ \A k \in Commands : k # c => command'[k] = command[k]
    BY DEF IInv, TypeOK
  <1>3. LockHasPlace'
    BY <1>2 DEF LockHasPlace, IInv, Exists
  <1>4. DaemonOwnsHome'
    BY <1>2 DEF DaemonOwnsHome, IInv, Exists
  <1>5. DiskInv'
    BY DiskUntouched DEF IInv
  <1> QED
    BY <1>1, <1>3, <1>4, <1>5 DEF IInv

LEMMA LoadStep == ASSUME IInv, NEW c \in Commands, Load(c) PROVE IInv'
  <1> USE DEF Load, Others
  <1>2. CASE \E daemon \in BOOLEAN :
               command' = [command EXCEPT ![c] =
                  [pc |-> "log", daemon |-> daemon, save |-> ~Exists(Dest) \/ at[Dest].config = {}]]
    <2>1. PICK daemon \in BOOLEAN :
               command' = [command EXCEPT ![c] =
                  [pc |-> "log", daemon |-> daemon, save |-> ~Exists(Dest) \/ at[Dest].config = {}]]
      BY <1>2
    <2> DEFINE r == [pc |-> "log", daemon |-> daemon, save |-> ~Exists(Dest) \/ at[Dest].config = {}]
    <2>2. r \in CommandType /\ r.pc = "log"
      BY DEF CommandType, Exists
    <2>3. command' = [command EXCEPT ![c] = r]
      BY <2>1
    <2> HIDE DEF r
    <2> QED
      BY <2>2, <2>3, CommandReads
  <1>3. CASE command' = [command EXCEPT ![c] = [pc |-> "make", daemon |-> TRUE, save |-> FALSE]]
    <2> DEFINE r == [pc |-> "make", daemon |-> TRUE, save |-> FALSE]
    <2>1. r \in CommandType /\ r.pc = "make"
      BY DEF CommandType
    <2>2. command' = [command EXCEPT ![c] = r]
      BY <1>3
    <2> HIDE DEF r
    <2> QED
      BY <2>1, <2>2, CommandReads
  <1> QED
    BY <1>2, <1>3

\* What Step makes of a command.
LEMMA Stepped ==
  ASSUME TypeOK, NEW c \in Commands,
         NEW pc \in {"idle", "log", "save", "make", "lock", "check", "run"}, Step(c, pc)
  PROVE  \E r \in CommandType : r.pc = pc /\ command' = [command EXCEPT ![c] = r]
  <1> DEFINE e == command[c]
             f == [e EXCEPT !.pc = pc]
             r == IF pc = "idle" THEN IdleCommand ELSE f
  <1>0. e \in CommandType
    BY DEF TypeOK
  <1>2. command' = [command EXCEPT ![c] = r]
    BY DEF Step
  <1> HIDE DEF e
  <1>3. f \in CommandType /\ f.pc = pc
    BY <1>0, Zenon DEF CommandType
  <1> HIDE DEF f
  <1>4. IdleCommand \in CommandType /\ IdleCommand.pc = "idle"
    BY DEF IdleCommand, CommandType
  <1>1. r \in CommandType /\ r.pc = pc
    BY <1>3, <1>4
  <1> HIDE DEF r
  <1> QED
    BY <1>1, <1>2

\* The steps of a command in the destination, from what they make of it.
LEMMA InDestStep ==
  ASSUME IInv, NEW c \in Commands, Others, NEW d \in DirType,
         at' = [at EXCEPT ![Dest] = d],
         d.data = DirAt(Dest).data, d.pending = DirAt(Dest).pending,
         d.final = DirAt(Dest).final, d.soft = DirAt(Dest).soft,
         d.daemon = DirAt(Dest).daemon \/ DirAt(Dest).daemon \in {None, c},
         NEW pc \in {"idle", "log", "save", "make", "lock", "check", "run"}, Step(c, pc),
         pc \in {"check", "run"} => d.daemon = c
  PROVE  IInv'
  <1>1. PICK r \in CommandType : r.pc = pc /\ command' = [command EXCEPT ![c] = r]
    BY Stepped DEF IInv
  <1> QED
    BY <1>1, CommandMoves DEF Others

LEMMA LogStep == ASSUME IInv, NEW c \in Commands, Log(c) PROVE IInv'
  <1> DEFINE e == DirAt(Dest)
             d == [e EXCEPT !.files = TRUE]
             pc == IF command[c].save THEN "save" ELSE AfterSave(c)
  <1>1. e \in DirType
    BY DirAtType DEF Places, IInv
  <1>2. at' = [at EXCEPT ![Dest] = d]
    BY DEF Log, InDest, DirAt
  <1> HIDE DEF e
  <1>3. d \in DirType /\ d.data = e.data /\ d.pending = e.pending /\ d.final = e.final
        /\ d.soft = e.soft /\ d.daemon = e.daemon
    BY <1>1 DEF DirType
  <1>4. pc \in {"save", "make", "idle"} /\ Step(c, pc) /\ Others
    BY DEF Log, AfterSave
  <1> HIDE DEF d, pc
  <1> QED
    BY <1>2, <1>3, <1>4, InDestStep DEF e

LEMMA SaveStep == ASSUME IInv, NEW c \in Commands, Save(c) PROVE IInv'
  <1> DEFINE e == DirAt(Dest)
             d == [e EXCEPT !.config = {Fresh}]
             pc == AfterSave(c)
  <1>1. e \in DirType
    BY DirAtType DEF Places, IInv
  <1>2. at' = [at EXCEPT ![Dest] = d]
    BY DEF Save, InDest, DirAt
  <1> HIDE DEF e
  <1>3. d \in DirType /\ d.data = e.data /\ d.pending = e.pending /\ d.final = e.final
        /\ d.soft = e.soft /\ d.daemon = e.daemon
    BY <1>1 DEF DirType, Origins, Fresh
  <1>4. pc \in {"make", "idle"} /\ Step(c, pc) /\ Others
    BY DEF Save, AfterSave
  <1> HIDE DEF d, pc
  <1> QED
    BY <1>2, <1>3, <1>4, InDestStep DEF e

LEMMA MakeHomeStep == ASSUME IInv, NEW c \in Commands, MakeHome(c) PROVE IInv'
  <1> DEFINE d == DirAt(Dest)
  <1>1. d \in DirType
    BY DirAtType DEF Places, IInv
  <1>2. at' = [at EXCEPT ![Dest] = d] /\ Step(c, "lock") /\ Others
    BY DEF MakeHome, InDest, DirAt
  <1> HIDE DEF d
  <1> QED
    BY <1>1, <1>2, InDestStep DEF d

\* A daemon's command holds the lock of a directory that is there.
LEMMA DaemonDir ==
  ASSUME IInv, NEW c \in Commands, command[c].pc \in {"lock", "check", "run"}
  PROVE  /\ Exists(Dest) /\ at[Dest] \in DirType /\ DirAt(Dest) = at[Dest]
         /\ command[c].pc \in {"check", "run"} => at[Dest].daemon = c
  BY DEF IInv, LockHasPlace, DaemonOwnsHome, DirAt, Exists, TypeOK, Places

LEMMA TakeLockStep == ASSUME IInv, NEW c \in Commands, TakeLock(c) PROVE IInv'
  <1> DEFINE e == at[Dest]
             d == [e EXCEPT !.files = TRUE, !.daemon = IF @ = None THEN c ELSE @]
             pc == IF e.daemon = None THEN "check" ELSE "idle"
  <1>1. e \in DirType /\ DirAt(Dest) = e
    BY DaemonDir DEF TakeLock
  <1>2. at' = [at EXCEPT ![Dest] = d]
    BY <1>1 DEF TakeLock, DirType
  <1>3. pc \in {"check", "idle"} /\ Step(c, pc) /\ Others
    BY DEF TakeLock
  <1> HIDE DEF e
  <1>4. /\ d \in DirType /\ d.data = e.data /\ d.pending = e.pending /\ d.final = e.final
        /\ d.soft = e.soft
        /\ e.daemon = None => d.daemon = c
        /\ e.daemon # None => d.daemon = e.daemon
    BY <1>1 DEF DirType
  <1>5. pc \in {"check", "run"} => d.daemon = c
    BY <1>4
  <1> HIDE DEF d, pc
  <1> QED
    BY <1>1, <1>2, <1>3, <1>4, <1>5, InDestStep

\* The daemon's command gives its lock back.
LEMMA ReleaseStep ==
  ASSUME IInv, NEW c \in Commands, command[c].pc \in {"check", "run"},
         at' = [at EXCEPT ![Dest] = [@ EXCEPT !.daemon = None]], Step(c, "idle"), Others
  PROVE  IInv'
  <1> DEFINE e == at[Dest]
             d == [e EXCEPT !.daemon = None]
  <1>1. e \in DirType /\ DirAt(Dest) = e /\ e.daemon = c
    BY DaemonDir
  <1>2. at' = [at EXCEPT ![Dest] = d]
    OBVIOUS
  <1> HIDE DEF e
  <1>3. /\ d \in DirType /\ d.data = e.data /\ d.pending = e.pending /\ d.final = e.final
        /\ d.soft = e.soft
    BY <1>1 DEF DirType
  <1> HIDE DEF d
  <1> QED
    BY <1>1, <1>2, <1>3, InDestStep

LEMMA CheckLegacyStep == ASSUME IInv, NEW c \in Commands, CheckLegacy(c) PROVE IInv'
  <1>1. CASE \E h \in Standard : Exists(h) /\ at[h].legacy
    BY <1>1, ReleaseStep DEF CheckLegacy
  <1>2. CASE ~\E h \in Standard : Exists(h) /\ at[h].legacy
    <2>1. Step(c, "run") /\ UNCHANGED at /\ Others /\ command[c].pc = "check"
      BY <1>2 DEF CheckLegacy
    <2>2. PICK r \in CommandType : r.pc = "run" /\ command' = [command EXCEPT ![c] = r]
      BY <2>1, Stepped DEF IInv
    <2> QED
      BY <2>1, <2>2, CommandReads DEF Others
  <1> QED
    BY <1>1, <1>2

LEMMA StopStep == ASSUME IInv, NEW c \in Commands, Stop(c) PROVE IInv'
  BY ReleaseStep DEF Stop

LEMMA KillCommandStep == ASSUME IInv, NEW c \in Commands, KillCommand(c) PROVE IInv'
  <1>2. IdleCommand \in CommandType /\ IdleCommand.pc = "idle"
    BY DEF IdleCommand, CommandType
  <1>5. command' = [command EXCEPT ![c] = IdleCommand]
        /\ UNCHANGED <<unsynced, migration, run, reported, found, reused, kills, outages>>
    BY DEF KillCommand, Others
  <1> HIDE DEF IdleCommand
  <1>3. CASE Exists(Dest) /\ at[Dest].daemon = c
    <2> DEFINE e == at[Dest]
               d == [e EXCEPT !.daemon = None]
    <2>1. e \in DirType /\ DirAt(Dest) = e /\ e.daemon = c
      BY <1>3 DEF IInv, TypeOK, Places, Exists, DirAt
    <2>2. at' = [at EXCEPT ![Dest] = d]
      BY <1>3 DEF KillCommand
    <2> HIDE DEF e
    <2>3. /\ d \in DirType /\ d.data = e.data /\ d.pending = e.pending /\ d.final = e.final
          /\ d.soft = e.soft
      BY <2>1 DEF DirType
    <2> HIDE DEF d
    <2> QED
      BY <1>2, <1>5, <2>1, <2>2, <2>3, CommandMoves
  <1>4. CASE ~(Exists(Dest) /\ at[Dest].daemon = c)
    <2>1. UNCHANGED at
      BY <1>4 DEF KillCommand
    <2> QED
      BY <1>2, <1>5, <2>1, CommandReads
  <1> QED
    BY <1>3, <1>4

\* The state that a running daemon writes where there is none.
LEMMA StoreStep == ASSUME IInv, NEW c \in Commands, Store(c) PROVE IInv'
  <1> USE DEF Exists
  <1> DEFINE e == at[Dest]
             d == [e EXCEPT !.data = {Fresh}]
  <1>1. e \in DirType /\ Exists(Dest) /\ e.daemon = c /\ e.data = {} /\ Dest \in Places
    BY DaemonDir DEF Store, Places
  <1>2. at' = [at EXCEPT ![Dest] = d]
    BY <1>1 DEF Store, InDest
  <1>3. UNCHANGED <<command, unsynced, migration, run, reported, found, reused, kills, outages>>
    BY DEF Store, Others
  <1>4. d \in DirType /\ d.data = {Fresh} /\ d.pending = e.pending /\ d.final = e.final
        /\ d.soft = e.soft /\ d.daemon = e.daemon
    <2> HIDE DEF e
    <2> QED
      BY <1>1 DEF DirType, Origins, Fresh
  <1> HIDE DEF d
  <1>5. /\ at'[Dest] = d /\ d # None
        /\ \A q \in Places : q # Dest => at'[q] = at[q]
    BY <1>1, <1>2, <1>4 DEF IInv, TypeOK
  <1>6. e.pending = None /\ e.final = None
    <2>1. OnRecord({}, e.pending, e.final, reused)
      BY <1>1 DEF IInv, DiskInv, DestinationOnRecord
    <2>2. e.pending \in Homes \cup {None} /\ e.final \in Homes \cup {None}
      <3> HIDE DEF e
      <3> QED
        BY <1>1 DEF DirType
    <2> QED
      BY <2>1, <2>2, OneOwner DEF OnRecord
  <1>7. DiskInv /\ Dest \notin Homes /\ Homes \subseteq Places
    BY DEF IInv, Places
  <1>s. e.soft = {}
    <2>1. Backed(e.soft, None, None, reused) /\ reused \subseteq Homes
      BY <1>1, <1>6 DEF IInv, DiskInv, DestinationOnRecord, TypeOK
    <2>2. e.soft \subseteq {"pending", "final", "removal"}
      <3> HIDE DEF e
      <3> QED
        BY <1>1 DEF DirType
    <2> QED
      BY <2>1, <2>2 DEF Backed
  <1>8. TypeOK'
    BY <1>1, <1>2, <1>3, <1>4 DEF IInv, TypeOK
  <1>9. LockHasPlace' /\ DaemonOwnsHome'
    BY <1>1, <1>3, <1>4, <1>5 DEF IInv, LockHasPlace, DaemonOwnsHome
  <1>10. HomesHoldTheirOwn'
    BY <1>5, <1>7 DEF DiskInv, HomesHoldTheirOwn
  <1>11. DestinationOnRecord'
    BY <1>4, <1>5, <1>6, <1>s, NothingToRecord DEF DestinationOnRecord
  <1>o. MoveIsOpen'
    <2>1. unsynced = None
      <3> SUFFICES ASSUME unsynced # None PROVE FALSE
        OBVIOUS
      <3>1. unsynced \in Homes /\ OwnData(unsynced, {})
        BY <1>1, <1>7 DEF DiskInv, MoveIsOpen, IInv, TypeOK
      <3> QED
        BY <3>1, OneOwner
    <2> QED
      BY <1>3, <2>1 DEF MoveIsOpen
  <1>12. (\A m \in Migrators : MigratorKnows(m))'
    <2> SUFFICES ASSUME NEW m \in Migrators PROVE MigratorKnows(m)'
      OBVIOUS
    <2>1. MigratorKnows(m) /\ run' = run
      BY <1>3, <1>7 DEF DiskInv
    <2>2. /\ at'[Dest] # None /\ at'[Dest].pending = at[Dest].pending /\ at'[Dest].final = at[Dest].final
          /\ at'[Dest].soft = at[Dest].soft /\ at'[Dest].data = {Fresh}
          /\ \A h \in Homes : at'[h] = at[h]
      BY <1>4, <1>5, <1>7
    <2> QED
      BY <1>3, <2>1, <2>2 DEF MigratorKnows
  <1>13. UnsyncedIsOwned'
    <2>1. \A pc, src : Syncing(pc, src)' <=> Syncing(pc, src)
      BY <1>3 DEF Syncing
    <2>2. unsynced \in Homes \cup {None}
      BY DEF IInv, TypeOK
    <2> QED
      BY <1>1, <1>3, <1>4, <1>5, <1>7, <2>1, <2>2
         DEF DiskInv, UnsyncedIsOwned, MoveIsOwned, PendingIsOwned, FinalIsOwned
  <1>14. ReportIsDurable'
    BY <1>1, <1>3, <1>4, <1>5, <1>7 DEF DiskInv, ReportIsDurable, RecordIsDurable
  <1> QED
    BY <1>8, <1>9, <1>10, <1>11, <1>o, <1>12, <1>13, <1>14 DEF IInv, DiskInv

-----------------------------------------------------------------------------
(* Legacy daemons and the migration *)

LEMMA LegacyFlag ==
  ASSUME IInv, NEW p \in Places, Exists(p), NEW b \in BOOLEAN,
         at' = [at EXCEPT ![p] = [@ EXCEPT !.legacy = b]],
         UNCHANGED <<unsynced, migration, run, reported, found, reused, command, kills, outages>>
  PROVE  IInv'
  <1> DEFINE e == at[p]
             d == [e EXCEPT !.legacy = b]
  <1>1. e \in DirType /\ DirAt(p) = e
    BY DEF IInv, TypeOK, Exists, DirAt
  <1>2. at' = [at EXCEPT ![p] = d]
    OBVIOUS
  <1>3. d \in DirType /\ d.data = e.data /\ d.pending = e.pending /\ d.final = e.final
        /\ d.soft = e.soft /\ d.daemon = e.daemon
    <2> HIDE DEF e
    <2> QED
      BY <1>1 DEF DirType
  <1> HIDE DEF d
  <1>4. DiskInv'
    BY <1>1, <1>2, <1>3, PlaceKept
  <1>5. TypeOK'
    <2>1. at \in [Places -> DirType \cup {None}] /\ d \in DirType \cup {None}
      BY <1>3 DEF IInv, TypeOK
    <2>2. at' \in [Places -> DirType \cup {None}]
      BY <1>2, <2>1
    <2> QED
      BY <2>2 DEF IInv, TypeOK
  <1>6. at'[p] = d /\ d # None /\ (p # Dest => at'[Dest] = at[Dest])
    BY <1>2, <1>3 DEF IInv, TypeOK, Places
  <1>7. LockHasPlace' /\ DaemonOwnsHome'
    BY <1>3, <1>6 DEF IInv, LockHasPlace, DaemonOwnsHome, Exists
  <1> QED
    BY <1>4, <1>5, <1>7 DEF IInv

LEMMA LegacyStopStep == ASSUME IInv, NEW p \in Places, LegacyStop(p) PROVE IInv'
  BY LegacyFlag DEF LegacyStop, Untouched, Aside

\* The directory that a legacy daemon makes.
LEMMA LegacyDirIs ==
  ASSUME NEW h \in Homes, NEW n \in Copies
  PROVE  \E d \in DirType : /\ d = [LegacyDir(h, n) EXCEPT !.legacy = TRUE]
                            /\ d.data = {<<h, n>>} /\ OwnData(h, d.data)
                            /\ d.pending = None /\ d.final = None /\ d.soft = {}
  <1>1. PICK d : d = [LegacyDir(h, n) EXCEPT !.legacy = TRUE]
    OBVIOUS
  <1>2. d = [data |-> {<<h, n>>}, config |-> {<<h, n>>}, pending |-> None, final |-> None,
             soft |-> {}, daemon |-> None, files |-> FALSE, legacy |-> TRUE]
    BY <1>1 DEF LegacyDir, EmptyDir
  <1>3. {<<h, n>>} \in SUBSET Origins
    BY DEF Origins
  <1>4. d \in DirType /\ d.data = {<<h, n>>} /\ OwnData(h, d.data)
        /\ d.pending = None /\ d.final = None /\ d.soft = {}
    BY <1>2, <1>3 DEF DirType, OwnData
  <1> QED
    BY <1>1, <1>4

LEMMA LegacyStartStep == ASSUME IInv, NEW h \in Installed, LegacyStart(h) PROVE IInv'
  <1>1. h \in Homes /\ h \in Places /\ Dest \in Places /\ h # Dest
    BY DEF Places
  <1>2. UNCHANGED <<unsynced, migration, run, reported, found, reused, command, kills, outages>>
    BY DEF LegacyStart, Untouched, Aside
  <1>3. CASE Exists(h)
    <2>1. at' = [at EXCEPT ![h] = [@ EXCEPT !.legacy = TRUE]]
      BY <1>3 DEF LegacyStart
    <2> QED
      BY <1>1, <1>2, <1>3, <2>1, LegacyFlag
  <1>4. CASE ~Exists(h)
    <2>1. PICK n \in Copies : at' = [at EXCEPT ![h] = [LegacyDir(h, n) EXCEPT !.legacy = TRUE]]
      BY <1>4 DEF LegacyStart
    <2>2. PICK d \in DirType : /\ d = [LegacyDir(h, n) EXCEPT !.legacy = TRUE]
                               /\ OwnData(h, d.data) /\ d.final = None /\ d.soft = {}
      BY <1>1, LegacyDirIs
    <2>3. at' = [at EXCEPT ![h] = d]
      BY <2>1, <2>2
    <2>4. /\ at'[h] = d /\ d # None
          /\ \A q \in Places : q # h => at'[q] = at[q]
      BY <1>1, <2>2, <2>3 DEF IInv, TypeOK
    <2>5. TypeOK'
      BY <1>1, <1>2, <2>2, <2>3 DEF IInv, TypeOK
    <2>6. LockHasPlace' /\ DaemonOwnsHome'
      BY <1>1, <1>2, <2>4 DEF IInv, LockHasPlace, DaemonOwnsHome, Exists
    <2>7. HomesHoldTheirOwn' /\ DestinationOnRecord' /\ ReportIsDurable'
      BY <1>1, <1>2, <2>2, <2>4
         DEF IInv, DiskInv, HomesHoldTheirOwn, DestinationOnRecord, ReportIsDurable, RecordIsDurable,
             Exists, Places
    <2>o. MoveIsOpen'
      <3>1. unsynced # h /\ unsynced \in Homes \cup {None}
        BY <1>4 DEF LegacyStart, IInv, TypeOK
      <3> QED
        BY <1>1, <1>2, <2>4, <3>1 DEF IInv, DiskInv, MoveIsOpen, Exists, Places
    <2>8. (\A m \in Migrators : MigratorKnows(m))'
      <3> SUFFICES ASSUME NEW m \in Migrators PROVE MigratorKnows(m)'
        OBVIOUS
      <3>1. MigratorKnows(m) /\ run' = run
        BY <1>2 DEF IInv, DiskInv
      <3>2. at'[Dest] = at[Dest] /\ \A g \in Homes : Exists(g) => at'[g] = at[g]
        BY <1>1, <1>4, <2>4 DEF Places
      <3> QED
        BY <1>2, <3>1, <3>2 DEF MigratorKnows, Exists
    <2>9. UnsyncedIsOwned'
      <3>1. \A pc, src : Syncing(pc, src)' <=> Syncing(pc, src)
        BY <1>2 DEF Syncing
      <3>2. unsynced # h /\ unsynced \in Homes \cup {None}
        BY <1>4 DEF LegacyStart, IInv, TypeOK
      <3> QED
        BY <1>1, <1>2, <2>2, <2>4, <3>1, <3>2
           DEF IInv, DiskInv, UnsyncedIsOwned, MoveIsOwned, PendingIsOwned, FinalIsOwned, Exists, Places
    <2> QED
      BY <2>5, <2>6, <2>7, <2>o, <2>8, <2>9 DEF IInv, DiskInv
  <1> QED
    BY <1>3, <1>4

\* The move becomes durable: nothing else changes.
LEMMA WriteBackStep == ASSUME IInv, WriteBack PROVE IInv'
  <1>1. unsynced' = None /\ UNCHANGED <<at, migration, run, reported, found, reused, command, kills, outages>>
    BY DEF WriteBack, Untouched, Aside
  <1>2. TypeOK'
    BY <1>1 DEF IInv, TypeOK
  <1>3. LockHasPlace' /\ DaemonOwnsHome'
    BY <1>1 DEF IInv, LockHasPlace, DaemonOwnsHome, Exists
  <1>4. HomesHoldTheirOwn' /\ DestinationOnRecord' /\ MoveIsOpen' /\ ReportIsDurable'
    BY <1>1 DEF IInv, DiskInv, HomesHoldTheirOwn, DestinationOnRecord, MoveIsOpen, ReportIsDurable,
                RecordIsDurable, Exists
  <1>5. (\A m \in Migrators : MigratorKnows(m))'
    BY <1>1 DEF IInv, DiskInv, MigratorKnows, Exists
  <1>6. \A pc, src : Syncing(pc, src)' <=> Syncing(pc, src)
    BY <1>1 DEF Syncing
  <1>7. UnsyncedIsOwned'
    BY <1>1, <1>6 DEF IInv, DiskInv, UnsyncedIsOwned, MoveIsOwned, PendingIsOwned, FinalIsOwned, Exists
  <1> QED
    BY <1>2, <1>3, <1>4, <1>5, <1>7 DEF IInv, DiskInv

LEMMA IdleRunIs == IdleRun \in RunType /\ IdleRun.pc = "idle"
  BY DEF IdleRun, RunType

OnTo(e, pc) == [e EXCEPT !.pc = pc]

UnderWay == {"look", "vacant", "choose", "pending", "sync_pending", "rename",
             "sync_move", "final", "sync_final", "remove", "report"}

\* What a migration becomes when it goes on.
LEMMA Proceeded ==
  ASSUME TypeOK, NEW m \in Migrators, run[m].pc # "idle",
         NEW pc \in UnderWay, NEW r, r = OnTo(run[m], pc)
  PROVE  /\ r \in RunType /\ r.pc = pc /\ r.src = run[m].src /\ r.moved = run[m].moved
         /\ migration = m
  <1> DEFINE e == run[m]
  <1>1. e \in RunType /\ migration = m
    BY DEF TypeOK
  <1>2. r = [e EXCEPT !.pc = pc]
    BY DEF OnTo
  <1> HIDE DEF e
  <1>3. r \in RunType /\ r.pc = pc /\ r.src = e.src /\ r.moved = e.moved
    BY <1>1, <1>2, Zenon DEF RunType, UnderWay
  <1> QED
    BY <1>1, <1>3 DEF e

\* The report of a recorded migration stands when it is the one on record: for
\* good if the run has moved the directory or none was killed.
LEMMA ReportOnRecord ==
  ASSUME IInv, NEW home \in Homes, Exists(Dest), at[Dest].final = home,
         Exists(Dest)', at'[Dest].final = home, UNCHANGED <<reused, kills, outages>>,
         RecordIsDurable => RecordIsDurable',
         \/ UNCHANGED reported
         \/ reported' = reported \cup {home} /\ RecordIsDurable',
         \/ UNCHANGED found
         \/ found' = found \cup {home} /\ (kills = 0 => RecordIsDurable')
  PROVE  HistoryOK' /\ ReportIsDurable'
  <1>1. /\ reported \subseteq Homes /\ found \subseteq Homes /\ reused \subseteq Homes
        /\ kills \in 0..MaxKills /\ outages \in 0..MaxOutages
        /\ reported # {} => reported = {home} /\ RecordIsDurable
        /\ found # {} => found = {home} /\ (kills = 0 => RecordIsDurable)
    BY DEF IInv, TypeOK, DiskInv, ReportIsDurable
  <1>2. /\ reported' \subseteq Homes /\ found' \subseteq Homes
        /\ reported' # {} => reported' = {home} /\ RecordIsDurable'
        /\ found' # {} => found' = {home} /\ (kills = 0 => RecordIsDurable')
    BY <1>1
  <1> QED
    BY <1>1, <1>2 DEF ReportIsDurable, HistoryOK

LEMMA Completed ==
  ASSUME NEW m \in Migrators, NEW home, ReportCompleted(m, home)
  PROVE  End(m) /\ UNCHANGED reported /\ found' \in {found, found \cup {home}}
  BY DEF ReportCompleted, TellFound, Refuse

LEMMA ReportUntouched ==
  ASSUME IInv, UNCHANGED <<at, unsynced, reported, found, reused>>,
         kills' \in 0..MaxKills, outages' \in 0..MaxOutages, kills' = 0 => kills = 0
  PROVE  HistoryOK' /\ ReportIsDurable'
  BY DEF IInv, TypeOK, HistoryOK, DiskInv, ReportIsDurable, RecordIsDurable, Exists

LEMMA CountsUntouched ==
  ASSUME IInv, UNCHANGED <<kills, outages>>
  PROVE  kills' \in 0..MaxKills /\ outages' \in 0..MaxOutages /\ (kills' = 0 => kills = 0)
  BY DEF IInv, TypeOK

\* A migration that ends leaving the disk as it is, having nothing to sync unless
\* it is killed.
LEMMA EndStep ==
  ASSUME IInv, NEW m \in Migrators, run[m].pc # "idle", End(m),
         UNCHANGED <<at, unsynced, command, reused>>,
         kills' = 0 => kills = 0 /\ run[m].pc \notin {"sync_pending", "sync_move", "sync_final"},
         HistoryOK', ReportIsDurable'
  PROVE  IInv'
  <1>1. run' = [run EXCEPT ![m] = IdleRun]
    BY DEF End
  <1> HIDE DEF IdleRun
  <1> QED
    BY <1>1, IdleRunIs, DiskRead

LEMMA RefuseStep ==
  ASSUME IInv, NEW m \in Migrators, run[m].pc # "idle", Refuse(m),
         UNCHANGED <<at, unsynced>>, Untouched,
         run[m].pc \notin {"sync_pending", "sync_move", "sync_final"}
  PROVE  IInv'
  BY CountsUntouched, ReportUntouched, EndStep DEF Refuse, Untouched, Aside

LEMMA KillRunStep == ASSUME IInv, NEW m \in Migrators, KillRun(m) PROVE IInv'
  <1>1. /\ kills' \in 0..MaxKills /\ outages' \in 0..MaxOutages /\ kills' # 0
        /\ UNCHANGED <<at, unsynced, command, reused, reported, found>> /\ End(m) /\ run[m].pc # "idle"
    <2>1. kills \in 0..MaxKills /\ kills < MaxKills /\ kills' = kills + 1
          /\ outages \in 0..MaxOutages /\ outages' = outages
      BY DEF KillRun, IInv, TypeOK
    <2>2. kills' \in 0..MaxKills /\ kills' # 0
      BY <2>1
    <2> QED
      BY <2>1, <2>2 DEF KillRun, Refuse
  <1>2. HistoryOK' /\ ReportIsDurable'
    BY <1>1, ReportUntouched
  <1> QED
    BY <1>1, <1>2, EndStep

LEMMA BeginStep ==
  ASSUME IInv, NEW m \in Migrators, NEW req \in Homes \cup {None}, Begin(m, req) PROVE IInv'
  <1> DEFINE r == [IdleRun EXCEPT !.pc = "look", !.req = req]
  <1>1. r \in RunType /\ r.pc = "look" /\ ~r.moved
    BY DEF IdleRun, RunType
  <1>2. /\ run' = [run EXCEPT ![m] = r] /\ migration = None /\ migration' = m
        /\ UNCHANGED <<at, unsynced, reported, found, reused, command, kills, outages>> /\ run[m].pc = "idle"
    BY DEF Begin, Untouched, Aside
  <1> HIDE DEF r
  <1>3. HistoryOK' /\ ReportIsDurable'
    BY <1>2, CountsUntouched, ReportUntouched
  <1> QED
    BY <1>1, <1>2, <1>3, DiskRead

\* A migration that only reads goes on to pc.
LEMMA GotoStep ==
  ASSUME IInv, NEW m \in Migrators, run[m].pc \in {"look", "vacant"},
         NEW pc \in {"vacant", "choose"}, Goto(m, pc), UNCHANGED <<at, unsynced>>, Untouched,
         pc = "choose" => ~Exists(Dest)
  PROVE  IInv'
  <1>0. PICK r : r = OnTo(run[m], pc)
    OBVIOUS
  <1>1. r \in RunType /\ r.pc = pc /\ migration = m
    <2>1. TypeOK
      BY DEF IInv
    <2>2. pc \in UnderWay
      BY DEF UnderWay
    <2> QED
      BY <1>0, <2>1, <2>2, Proceeded, Zenon
  <1>2. /\ run' = [run EXCEPT ![m] = r]
        /\ UNCHANGED <<migration, reported, found, command, reused, kills, outages>>
    BY <1>0 DEF Goto, Proceed, Untouched, Aside, OnTo
  <1>3. HistoryOK' /\ ReportIsDurable'
    BY <1>2, CountsUntouched, ReportUntouched
  <1> QED
    BY <1>1, <1>2, <1>3, DiskRead

\* The same, with the source it has found.
LEMMA FromStep ==
  ASSUME IInv, NEW m \in Migrators, run[m].pc \in {"look", "choose"},
         NEW pc \in {"pending", "final"}, NEW src \in Homes,
         From(m, pc, src), UNCHANGED <<at, unsynced>>, Untouched,
         pc = "pending" => Exists(src) /\ run[m].pc = "choose",
         pc = "final" => /\ Exists(Dest) /\ at[Dest].pending = src /\ at[Dest].final = None
                         /\ run[m].pc = "look"
  PROVE  IInv'
  <1> DEFINE e == run[m]
             r == [e EXCEPT !.pc = pc, !.src = src]
  <1>1. e \in RunType /\ migration = m
    BY DEF IInv, TypeOK
  <1>2. /\ run' = [run EXCEPT ![m] = r]
        /\ UNCHANGED <<migration, reported, found, command, reused, kills, outages>>
    BY DEF From, Proceed, Untouched, Aside
  <1>3. r \in RunType /\ r.pc = pc /\ r.src = src /\ r.moved = e.moved
    <2> HIDE DEF e
    <2> QED
      BY <1>1 DEF RunType
  <1>4. /\ pc = "final" => ~e.moved
        /\ pc = "pending" /\ Exists(Dest) => at[Dest].data \subseteq {Fresh}
    <2>1. MigratorKnows(m)
      BY DEF IInv, DiskInv
    <2> QED
      BY <2>1 DEF MigratorKnows
  <1> HIDE DEF r
  <1>5. HistoryOK' /\ ReportIsDurable'
    BY <1>2, CountsUntouched, ReportUntouched
  <1> QED
    BY <1>1, <1>2, <1>3, <1>4, <1>5, DiskRead

LEMMA LookStep == ASSUME IInv, NEW m \in Migrators, Look(m) PROVE IInv'
  <1>1. run[m].pc = "look" /\ UNCHANGED <<at, unsynced>> /\ Untouched
    BY DEF Look
  <1>2. CASE Goto(m, "vacant")
    BY <1>1, <1>2, GotoStep
  <1>3. CASE Exists(Dest) /\ at[Dest].final # None /\ ReportCompleted(m, at[Dest].final)
    <2>1. at[Dest].final \in Homes
      BY <1>3 DEF IInv, TypeOK, DirType, Exists, Places
    <2>2. kills = 0 => RecordIsDurable
      <3>1. \A src : ~Syncing("sync_final", src) /\ ~Syncing("sync_move", src)
        BY <1>1, OneMigration DEF Syncing, IInv
      <3> QED
        BY <1>3, <3>1 DEF IInv, DiskInv, UnsyncedIsOwned, FinalIsOwned, MoveIsOwned, RecordIsDurable
    <2>3. End(m) /\ UNCHANGED reported /\ found' \in {found, found \cup {at[Dest].final}}
      BY <1>3, Completed
    <2>4. RecordIsDurable' <=> RecordIsDurable
      BY <1>1 DEF RecordIsDurable
    <2>5. HistoryOK' /\ ReportIsDurable'
      BY <1>1, <1>3, <2>1, <2>2, <2>3, <2>4, ReportOnRecord DEF Exists, Untouched, Aside
    <2> QED
      BY <1>1, <2>3, <2>5, EndStep DEF Untouched, Aside
  <1>4. CASE /\ Exists(Dest) /\ at[Dest].final = None /\ at[Dest].pending # None
             /\ IF Exists(at[Dest].pending) THEN Refuse(m) ELSE From(m, "final", at[Dest].pending)
    <2>1. at[Dest].pending \in Homes
      BY <1>4 DEF IInv, TypeOK, DirType, Exists, Places
    <2>2. CASE Refuse(m)
      BY <1>1, <2>2, RefuseStep
    <2>3. CASE From(m, "final", at[Dest].pending)
      BY <1>1, <1>4, <2>1, <2>3, FromStep
    <2> QED
      BY <1>4, <2>2, <2>3
  <1> QED
    BY <1>2, <1>3, <1>4 DEF Look

LEMMA VacantStep == ASSUME IInv, NEW m \in Migrators, Vacant(m) PROVE IInv'
  <1>1. run[m].pc = "vacant" /\ UNCHANGED <<at, unsynced>> /\ Untouched
    BY DEF Vacant
  <1>2. CASE Refuse(m)
    BY <1>1, <1>2, RefuseStep
  <1>3. CASE Goto(m, "choose") /\ ~Exists(Dest)
    BY <1>1, <1>3, GotoStep
  <1> QED
    BY <1>2, <1>3 DEF Vacant

LEMMA ChooseStep == ASSUME IInv, NEW m \in Migrators, Choose(m) PROVE IInv'
  <1>1. run[m].pc = "choose" /\ UNCHANGED <<at, unsynced>> /\ Untouched
    BY DEF Choose
  <1>2. CASE Refuse(m)
    BY <1>1, <1>2, RefuseStep
  <1>3. ASSUME NEW src \in Homes, Accepts(src), From(m, "pending", src)
        PROVE  IInv'
    BY <1>1, <1>3, FromStep DEF Accepts
  <1> QED
    BY <1>2, <1>3 DEF Choose

\* A step of a migration that writes the manifests or syncs, at one place.
LEMMA DiskWritten ==
  ASSUME IInv, NEW m \in Migrators, run[m].pc # "idle",
         NEW p \in Places, Exists(p), NEW d \in DirType, at' = [at EXCEPT ![p] = d],
         d.data = at[p].data, d.daemon = at[p].daemon,
         p # Dest => d.final = at[p].final /\ d.soft \subseteq {"pending"},
         NEW r \in RunType, run' = [run EXCEPT ![m] = r], r.pc = "idle" \/ migration' = m,
         UNCHANGED <<command, kills, outages>>, unsynced' \in {unsynced, None},
         MigratorKnows(m)', DestinationOnRecord', UnsyncedIsOwned',
         HistoryOK', ReportIsDurable'
  PROVE  IInv'
  <1>1. \A k \in Migrators : run[k].pc # "idle" => k = m
    BY OneMigration DEF IInv
  <1>2. /\ run'[m] = r
        /\ \A k \in Migrators : k # m => run'[k] = run[k]
    BY DEF IInv, TypeOK
  <1>3. /\ at'[p] = d /\ d # None
        /\ \A q \in Places : q # p => at'[q] = at[q]
    BY DEF IInv, TypeOK
  <1>4. r.pc \in {"pending", "sync_pending", "rename", "final"} => r.src \in Homes
    BY <1>2 DEF MigratorKnows
  <1>5. TypeOK'
    <2>1. at' \in [Places -> DirType \cup {None}]
      BY DEF IInv, TypeOK
    <2>2. run' \in [Migrators -> RunType] /\ unsynced' \in Homes \cup {None}
      BY DEF IInv, TypeOK
    <2>3. \A k \in Migrators : run'[k].pc # "idle" => migration' = k
      BY <1>1, <1>2
    <2>4. \A k \in Migrators : run'[k].pc \in {"pending", "sync_pending", "rename", "final"}
                                => run'[k].src \in Homes
      BY <1>1, <1>2, <1>4
    <2> QED
      BY <2>1, <2>2, <2>3, <2>4 DEF IInv, TypeOK, HistoryOK
  <1>6. (\A k \in Migrators : MigratorKnows(k))'
    BY <1>1, <1>2 DEF MigratorKnows
  <1>7. HomesHoldTheirOwn'
    BY <1>3 DEF HomesHoldTheirOwn, IInv, DiskInv, Exists, Places
  <1>8. LockHasPlace' /\ DaemonOwnsHome'
    BY <1>3 DEF LockHasPlace, DaemonOwnsHome, IInv, Exists, Places
  <1>9. MoveIsOpen'
    <2> SUFFICES ASSUME unsynced' # None
                 PROVE  ~Exists(unsynced)' /\ Exists(Dest)' /\ OwnData(unsynced, at'[Dest].data)
      BY DEF MoveIsOpen
    <2>1. /\ unsynced' = unsynced /\ unsynced \in Homes /\ unsynced # Dest /\ unsynced # p
          /\ ~Exists(unsynced) /\ Exists(Dest) /\ OwnData(unsynced, at[Dest].data)
      BY DEF IInv, DiskInv, MoveIsOpen, TypeOK
    <2> QED
      BY <1>3, <2>1 DEF Exists, Places
  <1> QED
    BY <1>5, <1>6, <1>7, <1>8, <1>9 DEF IInv, DiskInv

\* The process after it has gone on.
LEMMA Advanced ==
  ASSUME TypeOK, NEW m \in Migrators, run[m].pc # "idle",
         NEW pc \in {"look", "vacant", "choose", "pending", "sync_pending", "rename",
                     "sync_move", "final", "sync_final", "remove", "report"}, Goto(m, pc)
  PROVE  \E r \in RunType : /\ r.pc = pc /\ r.src = run[m].src /\ r.moved = run[m].moved
                            /\ run' = [run EXCEPT ![m] = r] /\ run'[m] = r
                            /\ migration' = m /\ UNCHANGED <<reported, found>>
  <1>0. PICK r : r = OnTo(run[m], pc)
    OBVIOUS
  <1>1. r \in RunType /\ r.pc = pc /\ r.src = run[m].src /\ r.moved = run[m].moved /\ migration = m
    <2>1. pc \in UnderWay
      BY DEF UnderWay
    <2> QED
      BY <1>0, <2>1, Proceeded, Zenon
  <1>2. run' = [run EXCEPT ![m] = r] /\ UNCHANGED <<migration, reported, found>>
    BY <1>0 DEF Goto, Proceed, OnTo
  <1>3. run'[m] = r
    BY <1>2 DEF TypeOK
  <1> QED
    BY <1>1, <1>2, <1>3

\* A destination without a legacy home's data needs no exception.
LEMMA OwnRecordStands ==
  ASSUME NEW data, data \subseteq {Fresh}, NEW pending \in Homes \cup {None},
         NEW final \in Homes \cup {None}, NEW soft, NEW before, before \subseteq Homes, NEW after,
         OnRecord(data, pending, final, before), Backed(soft, pending, final, before)
  PROVE  OnRecord(data, pending, final, after) /\ Backed(soft, pending, final, after)
  <1>1. \A h \in Homes : ~OwnData(h, data)
    BY OneOwner
  <1>2. pending = None /\ final = None
    BY <1>1 DEF OnRecord
  <1> QED
    BY <1>1, <1>2 DEF OnRecord, Backed

\* Before the move, a step of the migration in its source leaves what the
\* destination has, its record and the reports alone.
LEMMA SourceWritten ==
  ASSUME IInv, NEW m \in Migrators, run[m].pc \in {"pending", "sync_pending"},
         NEW src, src = run[m].src, NEW d \in DirType, at' = [at EXCEPT ![src] = d],
         d.data = at[src].data, d.daemon = at[src].daemon, d.final = at[src].final,
         d.pending = src, d.soft \subseteq {"pending"},
         NEW r \in RunType, run' = [run EXCEPT ![m] = r], migration' = m, r.src = src,
         r.pc \in {"sync_pending", "rename"},
         UNCHANGED <<unsynced, command, reported, found, kills, outages>>,
         reused' \subseteq reused \cup {src},
         r.pc = "rename" /\ "pending" \in d.soft => src \in reused',
         kills = 0 => reused' = {} /\ (d.soft # {} => r.pc = "sync_pending")
  PROVE  IInv'
  <1>1. /\ src \in Homes /\ Exists(src) /\ src \in Places /\ Dest \in Places /\ src # Dest
        /\ Exists(Dest) => at[Dest].data \subseteq {Fresh}
    <2>1. MigratorKnows(m)
      BY DEF IInv, DiskInv
    <2> QED
      BY <2>1 DEF MigratorKnows, IInv, TypeOK, Places, Exists
  <1>2. run'[m] = r
    BY DEF IInv, TypeOK
  <1>3. /\ at'[src] = d /\ d # None
        /\ \A q \in Places : q # src => at'[q] = at[q]
    BY <1>1 DEF IInv, TypeOK
  <1>4. MigratorKnows(m)'
    <2>1. /\ at'[src] # None /\ at'[src].pending = src
          /\ at'[Dest] # None => at'[Dest].data \subseteq {Fresh}
          /\ r.pc = "rename" /\ "pending" \in at'[src].soft => src \in reused'
      BY <1>1, <1>3 DEF Exists
    <2> QED
      BY <1>1, <1>2, <2>1 DEF MigratorKnows, Exists
  <1>5. DestinationOnRecord'
    <2> SUFFICES ASSUME Exists(Dest)
                 PROVE  /\ OnRecord(at[Dest].data, at[Dest].pending, at[Dest].final, reused')
                        /\ Backed(at[Dest].soft, at[Dest].pending, at[Dest].final, reused')
      BY <1>1, <1>3 DEF DestinationOnRecord, Exists
    <2>1. /\ OnRecord(at[Dest].data, at[Dest].pending, at[Dest].final, reused)
          /\ Backed(at[Dest].soft, at[Dest].pending, at[Dest].final, reused)
          /\ reused \subseteq Homes
      BY DEF IInv, DiskInv, DestinationOnRecord, TypeOK
    <2>2. at[Dest].pending \in Homes \cup {None} /\ at[Dest].final \in Homes \cup {None}
      BY <1>1 DEF IInv, TypeOK, Exists, DirType
    <2> QED
      BY <1>1, <2>1, <2>2, OwnRecordStands
  <1>6. HistoryOK' /\ ReportIsDurable'
    BY <1>1, <1>2, <1>3
       DEF ReportIsDurable, RecordIsDurable, HistoryOK, IInv, DiskInv, Exists, TypeOK
  <1>7. UnsyncedIsOwned'
    <2> SUFFICES ASSUME kills = 0
                 PROVE  MoveIsOwned' /\ PendingIsOwned' /\ FinalIsOwned' /\ reused' = {}
      BY DEF UnsyncedIsOwned
    <2>1. \A s : /\ ~Syncing("sync_move", s) /\ ~Syncing("sync_final", s)
                 /\ Syncing("sync_pending", s) => s = src
      BY OneMigration DEF Syncing, IInv
    <2>2. MoveIsOwned /\ PendingIsOwned /\ FinalIsOwned
      BY DEF IInv, DiskInv, UnsyncedIsOwned
    <2>3. MoveIsOwned' /\ FinalIsOwned'
      BY <1>1, <1>3, <2>1, <2>2 DEF MoveIsOwned, FinalIsOwned, Exists
    <2>4. d.soft # {} => Syncing("sync_pending", src)'
      BY <1>2 DEF Syncing
    <2>5. PendingIsOwned'
      BY <1>3, <2>1, <2>2, <2>4 DEF PendingIsOwned, Exists, Places
    <2> QED
      BY <2>3, <2>5
  <1> QED
    BY <1>1, <1>2, <1>4, <1>5, <1>6, <1>7, DiskWritten

LEMMA WritePendingStep == ASSUME IInv, NEW m \in Migrators, WritePending(m) PROVE IInv'
  <1>0. PICK src : src = run[m].src
    OBVIOUS
  <1>1. /\ TypeOK /\ run[m].pc = "pending" /\ unsynced' = unsynced /\ Aside
        /\ UNCHANGED <<command, kills, outages>>
    BY DEF WritePending, Aside, IInv
  <1>2. /\ src \in Homes /\ Exists(src) /\ src \in Places /\ at[src] \in DirType
        /\ at[src].soft \subseteq {"pending"} /\ reused \subseteq Homes
    <2>1. MigratorKnows(m) /\ HomesHoldTheirOwn
      BY DEF IInv, DiskInv
    <2> QED
      BY <1>0, <1>1, <2>1 DEF MigratorKnows, HomesHoldTheirOwn, IInv, TypeOK, Places, Exists
  <1>3. kills = 0 => at[src].soft = {} /\ reused = {}
    <2>1. ~Syncing("sync_pending", src)
      BY <1>1, OneMigration DEF Syncing, IInv
    <2> QED
      BY <1>2, <2>1 DEF IInv, DiskInv, UnsyncedIsOwned, PendingIsOwned
  <1>4. CASE at[src].pending \notin {None, src} /\ Refuse(m) /\ UNCHANGED <<at, reused>>
    BY <1>1, <1>4, RefuseStep DEF Untouched
  <1>5. CASE /\ at[src].pending = src
             /\ Goto(m, "rename")
             /\ reused' = IF "pending" \in at[src].soft THEN reused \cup {src} ELSE reused \ {src}
             /\ UNCHANGED at
    <2>1. PICK d \in DirType : d = at[src]
      BY <1>2
    <2>2. at' = [at EXCEPT ![src] = d]
      BY <1>2, <1>5, <2>1 DEF IInv, TypeOK
    <2>3. /\ reused' \subseteq reused \cup {src}
          /\ "pending" \in d.soft => src \in reused'
          /\ kills = 0 => reused' = {} /\ d.soft = {}
      BY <1>3, <1>5, <2>1
    <2>4. PICK r \in RunType : /\ r.pc = "rename" /\ r.src = run[m].src /\ r.moved = run[m].moved
                               /\ run' = [run EXCEPT ![m] = r] /\ run'[m] = r
                               /\ migration' = m /\ UNCHANGED <<reported, found>>
      BY <1>1, <1>5, Advanced
    <2> QED
      BY <1>0, <1>1, <1>2, <1>5, <2>1, <2>2, <2>3, <2>4, SourceWritten, ZenonT(30)
  <1>6. CASE /\ at[src].pending = None
             /\ at' = [at EXCEPT ![src].pending = src, ![src].soft = @ \cup {"pending"}]
             /\ Goto(m, "sync_pending")
             /\ reused' = reused \ {src}
    <2> DEFINE e == at[src]
    <2>1. PICK d : d = [e EXCEPT !.pending = src, !.soft = @ \cup {"pending"}]
      OBVIOUS
    <2>2. at' = [at EXCEPT ![src] = d]
      BY <1>6, <2>1
    <2>3. /\ d \in DirType /\ d.data = e.data /\ d.daemon = e.daemon /\ d.final = e.final
          /\ d.pending = src /\ d.soft = e.soft \cup {"pending"}
      <3> HIDE DEF e
      <3> QED
        BY <1>2, <2>1 DEF DirType, e
    <2>4. d.soft \subseteq {"pending"} /\ reused' \subseteq reused \cup {src} /\ (kills = 0 => reused' = {})
      BY <1>2, <1>3, <1>6, <2>3
    <2>5. PICK r \in RunType : /\ r.pc = "sync_pending" /\ r.src = run[m].src /\ r.moved = run[m].moved
                               /\ run' = [run EXCEPT ![m] = r] /\ run'[m] = r
                               /\ migration' = m /\ UNCHANGED <<reported, found>>
      BY <1>1, <1>6, Advanced
    <2>6. /\ run[m].pc \in {"pending", "sync_pending"} /\ r.pc \in {"sync_pending", "rename"}
          /\ d.final = at[src].final /\ d.data = at[src].data /\ d.daemon = at[src].daemon
          /\ r.pc = "rename" /\ "pending" \in d.soft => src \in reused'
          /\ kills = 0 => reused' = {} /\ (d.soft # {} => r.pc = "sync_pending")
      BY <1>1, <2>3, <2>4, <2>5
    <2> HIDE DEF e
    <2> QED
      BY <1>0, <1>1, <2>2, <2>3, <2>4, <2>5, <2>6, SourceWritten, ZenonT(30)
  <1> QED
    BY <1>0, <1>4, <1>5, <1>6 DEF WritePending

LEMMA SyncPendingStep == ASSUME IInv, NEW m \in Migrators, SyncPending(m) PROVE IInv'
  <1>0. PICK src : src = run[m].src
    OBVIOUS
  <1>1. /\ TypeOK /\ run[m].pc = "sync_pending" /\ Goto(m, "rename")
        /\ UNCHANGED <<unsynced, command, reused, kills, outages>>
    BY DEF SyncPending, Untouched, Aside, IInv
  <1>2. src \in Homes /\ Exists(src) /\ at[src] \in DirType /\ at[src].pending = src
    <2>1. MigratorKnows(m)
      BY DEF IInv, DiskInv
    <2> QED
      BY <1>0, <1>1, <2>1 DEF MigratorKnows, IInv, TypeOK, Places, Exists
  <1> DEFINE e == at[src]
  <1>3. PICK d : d = [e EXCEPT !.soft = {}]
    OBVIOUS
  <1>4. at' = [at EXCEPT ![src] = d]
    BY <1>0, <1>3 DEF SyncPending, Synced
  <1>5. /\ d \in DirType /\ d.data = e.data /\ d.daemon = e.daemon /\ d.final = e.final
        /\ d.pending = src /\ d.soft = {}
    <2> HIDE DEF e
    <2> QED
      BY <1>2, <1>3 DEF DirType, e
  <1>6. kills = 0 => reused' = {}
    BY <1>1 DEF IInv, DiskInv, UnsyncedIsOwned
  <1>7. PICK r \in RunType : /\ r.pc = "rename" /\ r.src = run[m].src /\ r.moved = run[m].moved
                             /\ run' = [run EXCEPT ![m] = r] /\ run'[m] = r
                             /\ migration' = m /\ UNCHANGED <<reported, found>>
    BY <1>1, Advanced
  <1> QED
    BY <1>0, <1>1, <1>4, <1>5, <1>6, <1>7, SourceWritten

\* What a migration past the move knows of the destination.
LEMMA DestKnown ==
  ASSUME IInv, NEW m \in Migrators, NEW src, src = run[m].src,
         run[m].pc \in {"sync_move", "final", "sync_final", "remove", "report"}
  PROVE  /\ TypeOK /\ src \in Homes /\ Exists(Dest) /\ Dest \in Places /\ at[Dest] \in DirType
         /\ OwnData(src, at[Dest].data)
         /\ at[Dest].pending \in {None, src} /\ at[Dest].final \in {None, src}
         /\ Backed(at[Dest].soft, at[Dest].pending, at[Dest].final, reused)
         /\ run[m].pc \in {"sync_move", "final", "sync_final", "remove"} => at[Dest].pending = src
         /\ run[m].pc \in {"sync_final", "remove", "report"} => at[Dest].final = src
         /\ run[m].pc \in {"remove", "report"} =>
               "final" \notin at[Dest].soft /\ "pending" \notin at[Dest].soft
         /\ run[m].moved /\ run[m].pc # "sync_move" => unsynced = None
         /\ kills = 0 => /\ unsynced # None => run[m].pc = "sync_move"
                         /\ "final" \in at[Dest].soft => run[m].pc = "sync_final"
  <1>1. MigratorKnows(m) /\ TypeOK /\ Dest \in Places /\ DestinationOnRecord
    BY DEF IInv, DiskInv, Places
  <1>2. /\ src \in Homes /\ Exists(Dest) /\ at[Dest].final \in {None, src}
        /\ run[m].pc \in {"sync_move", "final", "sync_final", "remove"} => at[Dest].pending = src
        /\ run[m].pc \in {"sync_final", "remove", "report"} => at[Dest].final = src
        /\ run[m].pc \in {"remove", "report"} =>
              "final" \notin at[Dest].soft /\ "pending" \notin at[Dest].soft
        /\ run[m].moved /\ run[m].pc # "sync_move" => unsynced = None
    BY <1>1 DEF MigratorKnows
  <1>3. at[Dest] \in DirType
    BY <1>1, <1>2 DEF TypeOK, Exists
  <1>4. /\ OnRecord(at[Dest].data, at[Dest].pending, at[Dest].final, reused)
        /\ Backed(at[Dest].soft, at[Dest].pending, at[Dest].final, reused)
    BY <1>1, <1>2 DEF DestinationOnRecord
  <1>5. src # None /\ src \in {at[Dest].pending, at[Dest].final}
    BY <1>2
  <1>6. OwnData(src, at[Dest].data)
    BY <1>4, <1>5, Zenon DEF OnRecord
  <1>7. at[Dest].pending \in {None, src}
    <2>1. at[Dest].pending \in Homes \cup {None}
      BY <1>3 DEF DirType
    <2> QED
      BY <1>2, <1>4, <1>6, <2>1, OneOwner DEF OnRecord
  <1>8. kills = 0 => /\ unsynced # None => run[m].pc = "sync_move"
                     /\ "final" \in at[Dest].soft => run[m].pc = "sync_final"
    <2>1. \A pc \in {"sync_move", "sync_final"} : \A s : Syncing(pc, s) => run[m].pc = pc
      BY OneMigration DEF Syncing, IInv
    <2> QED
      BY <1>2, <2>1 DEF IInv, DiskInv, UnsyncedIsOwned, MoveIsOwned, FinalIsOwned
  <1> QED
    BY <1>1, <1>2, <1>3, <1>4, <1>6, <1>7, <1>8, Zenon

\* What the steps after the move have in common: they change the destination.
LEMMA DestWritten ==
  ASSUME IInv, NEW m \in Migrators, NEW src, src = run[m].src,
         run[m].pc \in {"sync_move", "final", "sync_final", "remove", "report"},
         NEW d \in DirType, at' = [at EXCEPT ![Dest] = d],
         d.data = at[Dest].data, d.daemon = at[Dest].daemon,
         d.pending \in {None, src}, d.final \in {None, src}, (src = d.pending \/ src = d.final),
         Backed(d.soft, d.pending, d.final, reused),
         NEW r \in RunType, run' = [run EXCEPT ![m] = r],
         r.pc = "idle" \/ (migration' = m /\ r.src = src),
         r.pc \in {"idle", "final", "sync_final", "remove", "report"},
         r.pc \in {"final", "sync_final", "remove"} => d.pending = src,
         r.pc \in {"sync_final", "remove", "report"} => d.final = src,
         r.pc \in {"remove", "report"} => "final" \notin d.soft /\ "pending" \notin d.soft,
         r.moved => unsynced' = None,
         UNCHANGED <<command, reused, kills, outages>>, unsynced' \in {unsynced, None},
         kills = 0 => unsynced' = None /\ ("final" \in d.soft => r.pc = "sync_final"),
         HistoryOK', ReportIsDurable'
  PROVE  IInv'
  <1>1. /\ TypeOK /\ src \in Homes /\ Exists(Dest) /\ Dest \in Places
        /\ OwnData(src, d.data)
    BY DestKnown
  <1>2. /\ at'[Dest] = d /\ d # None
        /\ \A q \in Places : q # Dest => at'[q] = at[q]
        /\ run'[m] = r
    BY <1>1 DEF TypeOK
  <1>4. DestinationOnRecord'
    <2>1. OnRecord(d.data, d.pending, d.final, reused)
      BY <1>1, OneOwner DEF OnRecord
    <2> QED
      BY <1>2, <2>1 DEF DestinationOnRecord
  <1>5. MigratorKnows(m)'
    BY <1>1, <1>2 DEF MigratorKnows, Exists
  <1>6. UnsyncedIsOwned'
    <2> SUFFICES ASSUME kills = 0
                 PROVE  MoveIsOwned' /\ PendingIsOwned' /\ FinalIsOwned' /\ reused = {}
      BY DEF UnsyncedIsOwned
    <2>1. \A s : ~Syncing("sync_pending", s)
      BY OneMigration DEF Syncing, IInv
    <2>2. PendingIsOwned /\ reused = {}
      BY DEF IInv, DiskInv, UnsyncedIsOwned
    <2>3. MoveIsOwned'
      BY DEF MoveIsOwned
    <2>4. PendingIsOwned'
      BY <1>2, <2>1, <2>2 DEF PendingIsOwned, Exists, Places
    <2>5. FinalIsOwned'
      <3> SUFFICES ASSUME "final" \in d.soft PROVE Syncing("sync_final", d.final)'
        BY <1>2 DEF FinalIsOwned
      <3>1. run'[m].pc = "sync_final" /\ run'[m].src = d.final
        BY <1>2
      <3> QED
        BY <3>1 DEF Syncing
    <2> QED
      BY <2>2, <2>3, <2>4, <2>5
  <1> QED
    BY <1>1, <1>4, <1>5, <1>6, DiskWritten

\* Nothing is reported of a migration that is not yet recorded.
LEMMA NothingReported ==
  ASSUME IInv, Exists(Dest) => at[Dest].final = None PROVE reported = {} /\ found = {}
  BY DEF IInv, DiskInv, ReportIsDurable, TypeOK

\* A step of a migration past the move that leaves the record it finds durable
\* as it is keeps the reports.
LEMMA ReportKept ==
  ASSUME IInv, NEW m \in Migrators, NEW src, src = run[m].src,
         run[m].pc \in {"sync_move", "final", "sync_final", "remove", "report"},
         NEW d \in DirType, at'[Dest] = d,
         UNCHANGED <<reported, found, reused, kills, outages>>,
         at[Dest].final # None => d.final = at[Dest].final,
         at[Dest].final # None /\ RecordIsDurable => RecordIsDurable'
  PROVE  HistoryOK' /\ ReportIsDurable'
  <1>1. Exists(Dest) /\ at[Dest].final \in {None, src} /\ src \in Homes /\ d # None
    BY DestKnown
  <1>2. CASE at[Dest].final = None
    BY <1>2, NothingReported DEF ReportIsDurable, HistoryOK, IInv, TypeOK
  <1>3. CASE at[Dest].final = src
    <2>1. Exists(Dest)'
      BY <1>1 DEF Exists
    <2> QED
      BY <1>1, <1>3, <2>1, ReportOnRecord
  <1> QED
    BY <1>1, <1>2, <1>3

LEMMA SyncMoveStep == ASSUME IInv, NEW m \in Migrators, SyncMove(m) PROVE IInv'
  <1>0. PICK src : src = run[m].src
    OBVIOUS
  <1>1. /\ run[m].pc = "sync_move" /\ Goto(m, "final") /\ unsynced' = None
        /\ UNCHANGED <<at, command, reused, kills, outages>>
    BY DEF SyncMove, Untouched, Aside
  <1>2. /\ TypeOK /\ src \in Homes /\ Exists(Dest) /\ Dest \in Places /\ at[Dest] \in DirType
        /\ at[Dest].pending = src /\ at[Dest].final \in {None, src}
        /\ Backed(at[Dest].soft, at[Dest].pending, at[Dest].final, reused)
        /\ kills = 0 => "final" \notin at[Dest].soft
    BY <1>0, <1>1, DestKnown
  <1>3. PICK r \in RunType : /\ r.pc = "final" /\ r.src = run[m].src /\ r.moved = run[m].moved
                             /\ run' = [run EXCEPT ![m] = r] /\ run'[m] = r
                             /\ migration' = m /\ UNCHANGED <<reported, found>>
    BY <1>1, <1>2, Advanced
  <1>4. PICK d \in DirType : d = at[Dest]
    BY <1>2
  <1>5. at' = [at EXCEPT ![Dest] = d]
    BY <1>1, <1>2, <1>4 DEF TypeOK
  <1>6. HistoryOK' /\ ReportIsDurable'
    BY <1>0, <1>1, <1>3, <1>4, ReportKept DEF RecordIsDurable
  <1> QED
    BY <1>0, <1>1, <1>2, <1>3, <1>4, <1>5, <1>6, DestWritten

LEMMA WriteFinalStep == ASSUME IInv, NEW m \in Migrators, WriteFinal(m) PROVE IInv'
  <1>0. PICK src : src = run[m].src
    OBVIOUS
  <1>1. /\ run[m].pc = "final" /\ Goto(m, "sync_final")
        /\ UNCHANGED <<unsynced, command, reused, kills, outages>>
    BY DEF WriteFinal, Untouched, Aside
  <1>2. /\ TypeOK /\ src \in Homes /\ Exists(Dest) /\ Dest \in Places /\ at[Dest] \in DirType
        /\ at[Dest].pending = src /\ at[Dest].final \in {None, src}
        /\ Backed(at[Dest].soft, at[Dest].pending, at[Dest].final, reused)
        /\ run[m].moved => unsynced = None
        /\ kills = 0 => unsynced = None
    BY <1>0, <1>1, DestKnown
  <1>3. PICK r \in RunType : /\ r.pc = "sync_final" /\ r.src = run[m].src /\ r.moved = run[m].moved
                             /\ run' = [run EXCEPT ![m] = r] /\ run'[m] = r
                             /\ migration' = m /\ UNCHANGED <<reported, found>>
    BY <1>1, <1>2, Advanced
  <1> DEFINE e == at[Dest]
  <1>4. PICK new : new = IF e.final = None THEN {"final"} ELSE {}
    OBVIOUS
  <1>5. PICK d : d = [e EXCEPT !.final = src, !.soft = @ \cup new]
    OBVIOUS
  <1>6. at' = [at EXCEPT ![Dest] = d]
    BY <1>0, <1>4, <1>5 DEF WriteFinal
  <1>7. d \in DirType /\ d.data = e.data /\ d.daemon = e.daemon /\ d.pending = e.pending
        /\ d.final = src /\ d.soft = e.soft \cup new
    <2> HIDE DEF e
    <2> QED
      BY <1>2, <1>4, <1>5 DEF DirType, e
  <1>8. at'[Dest] = d
    BY <1>2, <1>6 DEF TypeOK
  <1>9. Backed(d.soft, d.pending, d.final, reused)
    BY <1>2, <1>4, <1>7 DEF Backed
  <1>10. HistoryOK' /\ ReportIsDurable'
    <2>1. e.final # None => d.final = e.final
      BY <1>2, <1>7
    <2>2. e.final # None => d.soft = e.soft
      BY <1>4, <1>7
    <2> QED
      BY <1>0, <1>1, <1>3, <1>7, <1>8, <2>1, <2>2, ReportKept DEF RecordIsDurable
  <1>11. /\ d.data = at[Dest].data /\ d.daemon = at[Dest].daemon
         /\ d.pending = src /\ d.final = src /\ r.src = src
         /\ r.moved => unsynced' = None
         /\ kills = 0 => unsynced' = None
    BY <1>0, <1>1, <1>2, <1>3, <1>7
  <1> HIDE DEF e
  <1> QED
    BY <1>0, <1>1, <1>3, <1>6, <1>7, <1>9, <1>10, <1>11, DestWritten, ZenonT(30)

\* A directory that is synced keeps everything but what there was to sync.
LEMMA SyncedDest ==
  ASSUME TypeOK, Exists(Dest), Synced(Dest)
  PROVE  \E d \in DirType : /\ at' = [at EXCEPT ![Dest] = d] /\ at'[Dest] = d
                            /\ d.data = at[Dest].data /\ d.daemon = at[Dest].daemon
                            /\ d.pending = at[Dest].pending /\ d.final = at[Dest].final
                            /\ d.soft = {}
  <1> DEFINE e == at[Dest]
  <1>1. e \in DirType /\ Dest \in Places
    BY DEF TypeOK, Places, Exists
  <1>2. PICK d : d = [e EXCEPT !.soft = {}]
    OBVIOUS
  <1>3. at' = [at EXCEPT ![Dest] = d]
    BY <1>2 DEF Synced
  <1>4. d \in DirType /\ d.data = e.data /\ d.daemon = e.daemon /\ d.pending = e.pending
        /\ d.final = e.final /\ d.soft = {}
    <2> HIDE DEF e
    <2> QED
      BY <1>1, <1>2 DEF DirType
  <1>5. at'[Dest] = d
    BY <1>1, <1>3 DEF TypeOK
  <1> QED
    BY <1>3, <1>4, <1>5

LEMMA SyncFinalStep == ASSUME IInv, NEW m \in Migrators, SyncFinal(m) PROVE IInv'
  <1>0. PICK src : src = run[m].src
    OBVIOUS
  <1>1. /\ run[m].pc = "sync_final" /\ Goto(m, "remove") /\ Synced(Dest)
        /\ UNCHANGED <<unsynced, command, reused, kills, outages>>
    BY DEF SyncFinal, Untouched, Aside
  <1>2. /\ TypeOK /\ src \in Homes /\ Exists(Dest) /\ Dest \in Places
        /\ at[Dest].pending = src /\ at[Dest].final = src
        /\ run[m].moved => unsynced = None
        /\ kills = 0 => unsynced = None
    BY <1>0, <1>1, DestKnown
  <1>3. PICK r \in RunType : /\ r.pc = "remove" /\ r.src = run[m].src /\ r.moved = run[m].moved
                             /\ run' = [run EXCEPT ![m] = r] /\ run'[m] = r
                             /\ migration' = m /\ UNCHANGED <<reported, found>>
    BY <1>1, <1>2, Advanced
  <1>4. PICK d \in DirType : /\ at' = [at EXCEPT ![Dest] = d] /\ at'[Dest] = d
                             /\ d.data = at[Dest].data /\ d.daemon = at[Dest].daemon
                             /\ d.pending = at[Dest].pending /\ d.final = at[Dest].final
                             /\ d.soft = {}
    BY <1>1, <1>2, SyncedDest
  <1>5. HistoryOK' /\ ReportIsDurable'
    BY <1>0, <1>1, <1>3, <1>4, ReportKept DEF RecordIsDurable
  <1>6. Backed(d.soft, d.pending, d.final, reused)
    BY <1>4 DEF Backed
  <1>7. /\ d.pending = src /\ d.final = src /\ "final" \notin d.soft /\ "pending" \notin d.soft
        /\ run[m].pc \in {"sync_move", "final", "sync_final", "remove", "report"}
        /\ r.pc \in {"idle", "final", "sync_final", "remove", "report"}
        /\ r.src = src /\ (r.moved => unsynced' = None)
        /\ kills = 0 => unsynced' = None
    BY <1>0, <1>1, <1>2, <1>3, <1>4
  <1> QED
    BY <1>0, <1>1, <1>3, <1>4, <1>5, <1>6, <1>7, DestWritten

LEMMA RemovePendingStep == ASSUME IInv, NEW m \in Migrators, RemovePending(m) PROVE IInv'
  <1>0. PICK src : src = run[m].src
    OBVIOUS
  <1>1. /\ run[m].pc = "remove" /\ Goto(m, "report")
        /\ UNCHANGED <<unsynced, command, reused, kills, outages>>
    BY DEF RemovePending, Untouched, Aside
  <1>2. /\ TypeOK /\ src \in Homes /\ Exists(Dest) /\ Dest \in Places /\ at[Dest] \in DirType
        /\ at[Dest].pending = src /\ at[Dest].final = src
        /\ "final" \notin at[Dest].soft /\ "pending" \notin at[Dest].soft
        /\ run[m].moved => unsynced = None
        /\ kills = 0 => unsynced = None
    BY <1>0, <1>1, DestKnown
  <1>3. PICK r \in RunType : /\ r.pc = "report" /\ r.src = run[m].src /\ r.moved = run[m].moved
                             /\ run' = [run EXCEPT ![m] = r] /\ run'[m] = r
                             /\ migration' = m /\ UNCHANGED <<reported, found>>
    BY <1>1, <1>2, Advanced
  <1> DEFINE e == at[Dest]
  <1>4. PICK d : d = [e EXCEPT !.pending = None, !.soft = @ \cup {"removal"}]
    OBVIOUS
  <1>5. at' = [at EXCEPT ![Dest] = d]
    BY <1>4 DEF RemovePending
  <1>6. d \in DirType /\ d.data = e.data /\ d.daemon = e.daemon /\ d.pending = None
        /\ d.final = e.final /\ d.soft = e.soft \cup {"removal"}
    <2> HIDE DEF e
    <2> QED
      BY <1>2, <1>4 DEF DirType, e
  <1>7. at'[Dest] = d
    BY <1>2, <1>5 DEF TypeOK
  <1>8. Backed(d.soft, d.pending, d.final, reused) /\ "final" \notin d.soft /\ "pending" \notin d.soft
    BY <1>2, <1>6 DEF Backed
  <1>9. HistoryOK' /\ ReportIsDurable'
    BY <1>0, <1>1, <1>3, <1>6, <1>7, <1>8, ReportKept DEF RecordIsDurable
  <1> QED
    BY <1>0, <1>1, <1>2, <1>3, <1>5, <1>6, <1>8, <1>9, DestWritten

LEMMA ReportStep == ASSUME IInv, NEW m \in Migrators, Report(m) PROVE IInv'
  <1>0. PICK src : src = run[m].src
    OBVIOUS
  <1>1. /\ run[m].pc = "report" /\ Synced(Dest)
        /\ UNCHANGED <<unsynced, command, reused, kills, outages>>
    BY DEF Report, Untouched, Aside
  <1>2. /\ TypeOK /\ src \in Homes /\ Exists(Dest) /\ Dest \in Places
        /\ at[Dest].final = src /\ at[Dest].pending \in {None, src}
        /\ run[m].moved => unsynced = None
        /\ kills = 0 => unsynced = None
    BY <1>0, <1>1, DestKnown
  <1>3. PICK d \in DirType : /\ at' = [at EXCEPT ![Dest] = d] /\ at'[Dest] = d
                             /\ d.data = at[Dest].data /\ d.daemon = at[Dest].daemon
                             /\ d.pending = at[Dest].pending /\ d.final = at[Dest].final
                             /\ d.soft = {}
    BY <1>1, <1>2, SyncedDest
  <1>4. RecordIsDurable' <=> unsynced = None
    BY <1>1, <1>3 DEF RecordIsDurable
  <1>5. /\ End(m)
        /\ \/ UNCHANGED reported
           \/ reported' = reported \cup {src} /\ RecordIsDurable'
        /\ \/ UNCHANGED found
           \/ found' = found \cup {src} /\ (kills = 0 => RecordIsDurable')
    <2>1. CASE run[m].moved /\ TellMoved(m, src)
      BY <1>2, <1>4, <2>1 DEF TellMoved
    <2>2. CASE ReportCompleted(m, src)
      BY <1>2, <1>4, <2>2, Completed
    <2> QED
      BY <1>0, <2>1, <2>2 DEF Report
  <1>6. run' = [run EXCEPT ![m] = IdleRun]
    BY <1>5 DEF End
  <1>7. HistoryOK' /\ ReportIsDurable'
    <2>1. Exists(Dest)' /\ at'[Dest].final = src
      BY <1>2, <1>3 DEF Exists
    <2>2. RecordIsDurable => RecordIsDurable'
      BY <1>4 DEF RecordIsDurable
    <2> QED
      BY <1>1, <1>2, <1>5, <2>1, <2>2, ReportOnRecord
  <1>8. Backed(d.soft, d.pending, d.final, reused)
    BY <1>3 DEF Backed
  <1>9. PICK r : r = IdleRun
    OBVIOUS
  <1>11. r \in RunType /\ r.pc = "idle" /\ (r.moved => unsynced' = None)
    BY <1>9 DEF IdleRun, RunType
  <1>10. /\ run' = [run EXCEPT ![m] = r]
         /\ r.pc \in {"idle", "final", "sync_final", "remove", "report"}
         /\ r.pc \in {"final", "sync_final", "remove"} => d.pending = src
         /\ r.pc \in {"sync_final", "remove", "report"} => d.final = src
         /\ r.pc \in {"remove", "report"} => "final" \notin d.soft /\ "pending" \notin d.soft
    BY <1>6, <1>9, <1>11
  <1>13. /\ d.pending \in {None, src} /\ d.final \in {None, src} /\ (src = d.pending \/ src = d.final)
         /\ unsynced' \in {unsynced, None}
         /\ kills = 0 => unsynced' = None /\ ("final" \in d.soft => r.pc = "sync_final")
         /\ run[m].pc \in {"sync_move", "final", "sync_final", "remove", "report"}
    BY <1>1, <1>2, <1>3
  <1>12. UNCHANGED <<command, reused, kills, outages>>
    BY <1>1
  <1> QED
    BY <1>0, <1>3, <1>7, <1>8, <1>10, <1>11, <1>12, <1>13, DestWritten

LEMMA RenameStep == ASSUME IInv, NEW m \in Migrators, Rename(m) PROVE IInv'
  <1>0. PICK src : src = run[m].src
    OBVIOUS
  <1>1. run[m].pc = "rename" /\ UNCHANGED <<command, reused, kills, outages>> /\ TypeOK
    BY DEF Rename, Untouched, Aside, IInv
  <1>2. CASE Refuse(m) /\ UNCHANGED <<at, unsynced>>
    BY <1>1, <1>2, RefuseStep DEF Rename
  <1>3. CASE ~Refuse(m) \/ ~UNCHANGED <<at, unsynced>>
    <2>1. /\ Replaceable(Dest)
          /\ at' = [at EXCEPT ![Dest] = at[src], ![src] = None]
          /\ unsynced' = src
          /\ run' = [run EXCEPT ![m] = [run[m] EXCEPT !.pc = "sync_move", !.moved = TRUE]]
          /\ UNCHANGED <<migration, reported, found>>
      BY <1>0, <1>3 DEF Rename, Proceed
    <2>2. /\ src \in Homes /\ src \in Places /\ Dest \in Places /\ src # Dest /\ src # None
          /\ at[src] \in DirType /\ at[src].pending = src /\ migration = m
          /\ "pending" \in at[src].soft => src \in reused
      <3>1. MigratorKnows(m)
        BY DEF IInv, DiskInv
      <3> QED
        BY <1>0, <1>1, <3>1 DEF MigratorKnows, TypeOK, Exists, Places
    <2>3. OwnData(src, at[src].data) /\ at[src].final \in {None, src} /\ at[src].soft \subseteq {"pending"}
      BY <2>2 DEF IInv, DiskInv, HomesHoldTheirOwn, Exists
    <2>4. PICK r \in RunType : /\ r.pc = "sync_move" /\ r.src = src
                               /\ run' = [run EXCEPT ![m] = r]
      <3> DEFINE e == run[m]
      <3>1. e \in RunType
        BY <1>1 DEF TypeOK
      <3>2. PICK r : r = [e EXCEPT !.pc = "sync_move", !.moved = TRUE]
        OBVIOUS
      <3>3. run' = [run EXCEPT ![m] = r]
        BY <2>1, <3>2
      <3> HIDE DEF e
      <3>4. r \in RunType /\ r.pc = "sync_move" /\ r.src = e.src
        BY <3>1, <3>2 DEF RunType
      <3> QED
        BY <1>0, <3>3, <3>4 DEF e
    <2>5. /\ at'[Dest] = at[src] /\ at'[src] = None
          /\ \A q \in Places : q \notin {src, Dest} => at'[q] = at[q]
          /\ at' \in [Places -> DirType \cup {None}]
      BY <1>1, <2>1, <2>2 DEF TypeOK
    <2>6. run'[m] = r /\ \A k \in Migrators : k # m => run'[k] = run[k]
      BY <1>1, <2>4 DEF TypeOK
    <2>7. \A k \in Migrators : run[k].pc # "idle" => k = m
      BY <1>1, OneMigration
    <2>8. TypeOK'
      <3>1. run' \in [Migrators -> RunType]
        BY <1>1, <2>4 DEF TypeOK
      <3>2. \A k \in Migrators : run'[k].pc # "idle" => migration' = k
        BY <2>1, <2>2, <2>6, <2>7
      <3>3. \A k \in Migrators : run'[k].pc \in {"pending", "sync_pending", "rename", "final"}
                                  => run'[k].src \in Homes
        BY <2>4, <2>6, <2>7
      <3>4. unsynced' \in Homes \cup {None}
        BY <2>1, <2>2
      <3> QED
        BY <1>1, <2>1, <2>5, <3>1, <3>2, <3>3, <3>4 DEF TypeOK
    <2>9. LockHasPlace' /\ DaemonOwnsHome'
      <3>1. \A c \in Commands : command[c].pc \notin {"check", "run"}
        BY <2>1 DEF IInv, DaemonOwnsHome, Replaceable, Exists, EmptyDir
      <3> QED
        BY <1>1, <2>2, <2>5, <3>1 DEF LockHasPlace, DaemonOwnsHome, Exists
    <2>10. HomesHoldTheirOwn'
      BY <2>2, <2>5 DEF HomesHoldTheirOwn, IInv, DiskInv, Exists, Places
    <2>11. DestinationOnRecord'
      <3>1. OnRecord(at[src].data, src, at[src].final, reused)
        BY <2>2, <2>3, OneOwner DEF OnRecord
      <3>2. Backed(at[src].soft, src, at[src].final, reused)
        BY <2>2, <2>3 DEF Backed
      <3> QED
        BY <1>1, <2>2, <2>5, <3>1, <3>2 DEF DestinationOnRecord
    <2>12. (\A k \in Migrators : MigratorKnows(k))'
      BY <2>2, <2>3, <2>4, <2>5, <2>6, <2>7 DEF MigratorKnows, Exists
    <2>13. ReportIsDurable'
      <3>1. Exists(Dest) => at[Dest].final = None
        BY <2>1 DEF Replaceable, EmptyDir, Exists
      <3>2. reported = {} /\ found = {}
        BY <3>1, NothingReported
      <3> QED
        BY <2>1, <3>2 DEF ReportIsDurable
    <2>14. UnsyncedIsOwned'
      <3> SUFFICES ASSUME kills = 0
                   PROVE  MoveIsOwned' /\ PendingIsOwned' /\ FinalIsOwned' /\ reused' = {}
        BY <1>1 DEF UnsyncedIsOwned
      <3>1. \A s : ~Syncing("sync_pending", s)
        BY <1>1, OneMigration DEF Syncing
      <3>2. (\A h \in Homes : at[h] # None => at[h].soft = {}) /\ reused = {}
        BY <3>1 DEF IInv, DiskInv, UnsyncedIsOwned, PendingIsOwned, Exists
      <3>3. MoveIsOwned'
        BY <2>1, <2>4, <2>5, <2>6 DEF MoveIsOwned, Exists, Syncing
      <3>4. PendingIsOwned' /\ FinalIsOwned'
        BY <2>2, <2>5, <3>2 DEF PendingIsOwned, FinalIsOwned, Exists, Places
      <3> QED
        BY <1>1, <3>2, <3>3, <3>4
    <2>15. MoveIsOpen'
      BY <2>1, <2>2, <2>3, <2>5 DEF MoveIsOpen, Exists
    <2> QED
      BY <2>8, <2>9, <2>10, <2>11, <2>12, <2>13, <2>14, <2>15 DEF IInv, DiskInv
  <1> QED
    BY <1>2, <1>3

-----------------------------------------------------------------------------
(* Power failures *)

\* What is left of a directory.
LEMMA Left ==
  ASSUME NEW d \in DirType, NEW lost
  PROVE  /\ AfterLoss(d, lost) \in DirType
         /\ AfterLoss(d, lost).data = d.data
         /\ AfterLoss(d, lost).soft = {} /\ AfterLoss(d, lost).daemon = None
         /\ AfterLoss(d, lost).final = IF "final" \in d.soft \cap lost THEN None ELSE d.final
         /\ AfterLoss(d, lost).pending =
               IF "pending" \in d.soft \cap lost THEN None
               ELSE IF "removal" \in d.soft \cap lost THEN d.final ELSE d.pending
  BY DEF AfterLoss, DirType

\* The destination's record survives the loss of what was not synced.
LEMMA RecordLeft ==
  ASSUME IInv, Exists(Dest), NEW lost, NEW d, d = AfterLoss(at[Dest], lost)
  PROVE  /\ d \in DirType /\ d.data = at[Dest].data /\ d.soft = {}
         /\ OnRecord(d.data, d.pending, d.final, reused)
         /\ d.final \in {None, at[Dest].final}
         /\ "final" \notin at[Dest].soft => d.final = at[Dest].final
  <1> DEFINE e == at[Dest]
  <1>1. e \in DirType
    BY DEF IInv, TypeOK, Exists, Places
  <1>2. /\ OnRecord(e.data, e.pending, e.final, reused)
        /\ Backed(e.soft, e.pending, e.final, reused)
    BY DEF IInv, DiskInv, DestinationOnRecord
  <1>3. /\ d \in DirType /\ d.data = e.data /\ d.soft = {}
        /\ d.final = IF "final" \in e.soft \cap lost THEN None ELSE e.final
        /\ d.pending = IF "pending" \in e.soft \cap lost THEN None
                       ELSE IF "removal" \in e.soft \cap lost THEN e.final ELSE e.pending
    <2> HIDE DEF e
    <2> QED
      BY <1>1, Left DEF e
  <1>4. e.final \in Homes \cup {None} /\ e.pending \in Homes \cup {None}
    BY <1>1 DEF DirType
  <1> HIDE DEF e
  <1>5. d.pending \in {None, e.pending, e.final} /\ d.final \in {None, e.final}
    BY <1>3
  <1>6. \A h \in Homes \ reused : OwnData(h, e.data) => h = d.pending \/ h = d.final
    <2> SUFFICES ASSUME NEW h \in Homes \ reused, OwnData(h, e.data)
                 PROVE  h = d.pending \/ h = d.final
      OBVIOUS
    <2>1. (h = e.pending \/ h = e.final) /\ (e.final # None => h = e.final)
      <3>1. h \in {e.pending, e.final} /\ (e.final # None => OwnData(e.final, e.data))
        BY <1>2 DEF OnRecord
      <3> QED
        BY <1>4, <3>1, OneOwner
    <2>2. "final" \in e.soft => h = e.pending /\ "removal" \notin e.soft /\ "pending" \notin e.soft
      BY <1>2, <1>4, <2>1 DEF Backed
    <2>3. e.final = None => "removal" \notin e.soft /\ h = e.pending /\ "pending" \notin e.soft
      BY <1>2, <2>1 DEF Backed
    <2> QED
      BY <1>3, <2>1, <2>2, <2>3
  <1>7. OnRecord(e.data, d.pending, d.final, reused)
    BY <1>2, <1>5, <1>6 DEF OnRecord
  <1> QED
    BY <1>3, <1>5, <1>7 DEF e

\* What was in a home stays in it.
LEMMA HomeLeft ==
  ASSUME NEW e \in DirType, NEW h \in Homes, OwnData(h, e.data), e.final \in {None, h},
         NEW lost, NEW d, d = AfterLoss(e, lost)
  PROVE  d \in DirType /\ OwnData(h, d.data) /\ d.final \in {None, h} /\ d.soft = {} /\ d.data = e.data
  BY Left

LEMMA PowerFailsStep == ASSUME IInv, NEW lost, PowerFails(lost) PROVE IInv'
  <1>1. /\ HistoryOK'
        /\ unsynced' = None /\ migration' = None
        /\ run' = [m \in Migrators |-> IdleRun] /\ command' = [c \in Commands |-> IdleCommand]
        /\ UNCHANGED <<reported, reused, kills>>
        /\ found' = IF kills = 0 THEN found ELSE {}
    <2>1. TypeOK /\ outages < MaxOutages /\ outages' = outages + 1
      BY DEF PowerFails, IInv
    <2>2. outages' \in 0..MaxOutages
      BY <2>1 DEF TypeOK
    <2>3. /\ unsynced' = None /\ migration' = None
          /\ run' = [m \in Migrators |-> IdleRun] /\ command' = [c \in Commands |-> IdleCommand]
          /\ UNCHANGED <<reported, reused, kills>>
          /\ found' = IF kills = 0 THEN found ELSE {}
      BY DEF PowerFails
    <2> QED
      BY <2>1, <2>2, <2>3 DEF TypeOK, HistoryOK
  <1>2. /\ \A m \in Migrators : run'[m] = IdleRun /\ run'[m].pc = "idle"
        /\ \A c \in Commands : command'[c].pc = "idle"
        /\ run' \in [Migrators -> RunType] /\ command' \in [Commands -> CommandType]
    <2>1. IdleCommand \in CommandType /\ IdleCommand.pc = "idle"
      BY DEF IdleCommand, CommandType
    <2> QED
      BY <1>1, <2>1, IdleRunIs
  <1> DEFINE disk == IF unsynced # None /\ "move" \in lost THEN Unmoved ELSE at
  <1>3. at' = [p \in Places |-> IF disk[p] = None THEN None ELSE AfterLoss(disk[p], lost)]
    BY DEF PowerFails
  <1>4. ASSUME NEW h \in Homes, at'[h] # None
        PROVE  /\ at'[h] \in DirType /\ OwnData(h, at'[h].data) /\ at'[h].final \in {None, h}
               /\ at'[h].soft = {}
    <2>1. h \in Places /\ h # Dest
      BY DEF Places
    <2>2. at'[h] = AfterLoss(disk[h], lost) /\ disk[h] # None
      BY <1>3, <1>4, <2>1
    <2>3. disk[h] \in DirType /\ OwnData(h, disk[h].data) /\ disk[h].final \in {None, h}
      <3>1. CASE disk[h] = at[h]
        BY <2>1, <2>2, <3>1 DEF IInv, TypeOK, DiskInv, HomesHoldTheirOwn, Exists
      <3>2. CASE disk[h] # at[h]
        <4>1. unsynced # None /\ h = unsynced /\ disk[h] = at[Dest]
          BY <2>1, <3>2 DEF Unmoved, IInv, TypeOK, Places
        <4>2. Exists(Dest) /\ OwnData(h, at[Dest].data)
          BY <4>1 DEF IInv, DiskInv, MoveIsOpen
        <4>3. at[Dest] \in DirType
          BY <4>2 DEF Exists, IInv, TypeOK, Places
        <4>4. at[Dest].final \in {None, h}
          <5>1. at[Dest].final # None => OwnData(at[Dest].final, at[Dest].data)
            BY <4>2 DEF IInv, DiskInv, DestinationOnRecord, OnRecord
          <5>2. at[Dest].final \in Homes \cup {None}
            BY <4>3 DEF DirType
          <5> QED
            BY <4>2, <5>1, <5>2, OneOwner
        <4> QED
          BY <4>1, <4>2, <4>3, <4>4
      <3> QED
        BY <3>1, <3>2
    <2> HIDE DEF disk
    <2> QED
      BY <2>2, <2>3, HomeLeft
  <1>5. ASSUME at'[Dest] # None
        PROVE  Exists(Dest) /\ at'[Dest] = AfterLoss(at[Dest], lost)
    BY <1>3, <1>5 DEF Unmoved, IInv, TypeOK, Places, Exists
  <1>6. ASSUME RecordIsDurable, Exists(Dest)
        PROVE  at'[Dest] # None /\ at'[Dest].final = at[Dest].final /\ at'[Dest].soft = {}
    <2>1. at'[Dest] = AfterLoss(at[Dest], lost)
      BY <1>3, <1>6 DEF RecordIsDurable, Exists, Places
    <2> QED
      BY <1>6, <2>1, RecordLeft DEF RecordIsDurable
  <1> HIDE DEF disk
  <1>7. TypeOK'
    <2>1. \A p \in Places : at'[p] \in DirType \cup {None}
      BY <1>4, <1>5, RecordLeft DEF Places
    <2>2. at' \in [Places -> DirType \cup {None}]
      BY <1>3, <2>1
    <2> QED
      BY <1>1, <1>2, <2>2 DEF TypeOK, HistoryOK
  <1>8. LockHasPlace' /\ DaemonOwnsHome' /\ MoveIsOpen' /\ (\A m \in Migrators : MigratorKnows(m))'
    <2>1. ~IdleRun.moved
      BY DEF IdleRun
    <2> QED
      BY <1>1, <1>2, <2>1 DEF LockHasPlace, DaemonOwnsHome, MigratorKnows, MoveIsOpen
  <1>9. HomesHoldTheirOwn'
    BY <1>4 DEF HomesHoldTheirOwn, Exists
  <1>10. DestinationOnRecord'
    <2> SUFFICES ASSUME at'[Dest] # None
                 PROVE  /\ OnRecord(at'[Dest].data, at'[Dest].pending, at'[Dest].final, reused)
                        /\ Backed(at'[Dest].soft, at'[Dest].pending, at'[Dest].final, reused)
      BY <1>1 DEF DestinationOnRecord, Exists
    <2>1. /\ OnRecord(at'[Dest].data, at'[Dest].pending, at'[Dest].final, reused)
          /\ at'[Dest].soft = {}
      BY <1>5, RecordLeft
    <2> QED
      BY <2>1 DEF Backed
  <1>11. UnsyncedIsOwned'
    <2>1. MoveIsOwned'
      BY <1>1 DEF MoveIsOwned
    <2>2. PendingIsOwned'
      BY <1>4 DEF PendingIsOwned, Exists
    <2>3. FinalIsOwned'
      BY <1>5, RecordLeft DEF FinalIsOwned, Exists
    <2>4. kills' = 0 => reused' = {}
      BY <1>1 DEF IInv, DiskInv, UnsyncedIsOwned
    <2> QED
      BY <2>1, <2>2, <2>3, <2>4 DEF UnsyncedIsOwned
  <1>12. ReportIsDurable'
    <2>1. reported # {} => /\ at'[Dest] # None /\ reported = {at'[Dest].final} /\ at'[Dest].soft = {}
      BY <1>6 DEF IInv, DiskInv, ReportIsDurable
    <2>2. found' # {} => /\ at'[Dest] # None /\ found' = {at'[Dest].final} /\ at'[Dest].soft = {}
      BY <1>1, <1>6 DEF IInv, DiskInv, ReportIsDurable
    <2> QED
      BY <1>1, <2>1, <2>2 DEF ReportIsDurable, RecordIsDurable, Exists
  <1> QED
    BY <1>7, <1>8, <1>9, <1>10, <1>11, <1>12 DEF IInv, DiskInv

-----------------------------------------------------------------------------
(* The theorems *)

LEMMA NextInv == IInv /\ [Next]_vars => IInv'
  <1> SUFFICES ASSUME IInv, [Next]_vars PROVE IInv'
    OBVIOUS
  <1>1. ASSUME NEW m \in Migrators, NEW req \in Homes \cup {None}, Begin(m, req) PROVE IInv'
    BY <1>1, BeginStep
  <1>2. ASSUME NEW m \in Migrators, Migrate(m) PROVE IInv'
    BY <1>2, LookStep, VacantStep, ChooseStep, WritePendingStep, SyncPendingStep, RenameStep,
       SyncMoveStep, WriteFinalStep, SyncFinalStep, RemovePendingStep, ReportStep DEF Migrate
  <1>3. ASSUME NEW m \in Migrators, KillRun(m) PROVE IInv'
    BY <1>3, KillRunStep
  <1>4. ASSUME NEW c \in Commands,
               \/ Load(c) \/ Log(c) \/ Save(c) \/ MakeHome(c) \/ TakeLock(c)
               \/ CheckLegacy(c) \/ Store(c) \/ Stop(c) \/ KillCommand(c)
        PROVE  IInv'
    BY <1>4, LoadStep, LogStep, SaveStep, MakeHomeStep, TakeLockStep, CheckLegacyStep, StoreStep,
       StopStep, KillCommandStep
  <1>5. ASSUME NEW h \in Installed, LegacyStart(h) PROVE IInv'
    BY <1>5, LegacyStartStep
  <1>6. ASSUME NEW p \in Places, LegacyStop(p) PROVE IInv'
    BY <1>6, LegacyStopStep
  <1>7. ASSUME NEW lost \in SUBSET Unsynced, PowerFails(lost) PROVE IInv'
    BY <1>7, PowerFailsStep
  <1>8. CASE UNCHANGED vars
    <2>1. TypeOK'
      BY <1>8 DEF IInv, TypeOK, vars
    <2>2. DiskInv'
      BY <1>8, DiskUntouched DEF IInv, vars
    <2>3. LockHasPlace' /\ DaemonOwnsHome'
      BY <1>8 DEF IInv, LockHasPlace, DaemonOwnsHome, Exists, vars
    <2> QED
      BY <2>1, <2>2, <2>3 DEF IInv
  <1> QED
    BY <1>1, <1>2, <1>3, <1>4, <1>5, <1>6, <1>7, <1>8, WriteBackStep DEF Next

\* The inductive invariant holds throughout, whichever process is killed and
\* whatever of the unsynced changes a power failure loses.
THEOREM InvCorrect == Spec => []IInv
  BY InitInv, NextInv, PTL DEF Spec

\* migrate-storage: every variable has its type, one migration runs at a time,
\* data moved has a manifest that names its home unless a killed run had left its
\* manifest unsynced, and a running daemon holds the lock of the directory that
\* is at the destination: for any number of kills and power failures, in any order.
THEOREM StorageCorrect == Spec => []StorageInv
  <1>1. IInv => StorageInv
    <2> SUFFICES ASSUME IInv PROVE MoveIsOnRecord
      BY DEF IInv, StorageInv
    <2>1. kills = 0 => reused = {}
      BY DEF IInv, DiskInv, UnsyncedIsOwned
    <2>2. CASE ~Exists(Dest)
      BY <2>1, <2>2 DEF MoveIsOnRecord
    <2>3. CASE Exists(Dest)
      <3>1. OnRecord(at[Dest].data, at[Dest].pending, at[Dest].final, reused)
        BY <2>3 DEF IInv, DiskInv, DestinationOnRecord
      <3>2. ASSUME NEW h \in Homes, NEW n \in Copies, <<h, n>> \in at[Dest].data
            PROVE  OwnData(h, at[Dest].data)
        <4>1. at[Dest].data \notin {{}, {Fresh}}
          BY <3>2 DEF Fresh
        <4>2. PICK g \in Homes, k \in Copies : at[Dest].data = {<<g, k>>}
          BY <3>1, <4>1 DEF OnRecord, OwnData
        <4>3. <<h, n>> = <<g, k>>
          BY <3>2, <4>2
        <4> QED
          BY <4>2, <4>3 DEF OwnData
      <3>3. \A h \in Homes \ reused : \A n \in Copies :
                <<h, n>> \in at[Dest].data => h \in {at[Dest].pending, at[Dest].final}
        BY <3>1, <3>2 DEF OnRecord
      <3>4. at[Dest].final # None => at[Dest].data \in {{<<at[Dest].final, n>>} : n \in Copies}
        BY <3>1 DEF OnRecord, OwnData
      <3> QED
        BY <2>1, <3>3, <3>4 DEF MoveIsOnRecord
    <2> QED
      BY <2>2, <2>3
  <1> QED
    BY <1>1, InvCorrect, PTL

\* A move that a run reports as its own is on record at the destination for good,
\* whatever is killed and whenever the power fails, and so is one that it found
\* or recovered, but for a power failure after a migration was killed: nothing
\* then had synced what holds the directory.
THEOREM ReportCorrect == Spec => []ReportStands
  <1>1. IInv => ReportStands
    <2> SUFFICES ASSUME IInv, reported \cup found # {}
                 PROVE  Exists(Dest) /\ reported \cup found = {at[Dest].final}
      BY DEF ReportStands
    <2>1. /\ reported # {} => Exists(Dest) /\ reported = {at[Dest].final}
          /\ found # {} => Exists(Dest) /\ found = {at[Dest].final}
      BY DEF IInv, DiskInv, ReportIsDurable
    <2> QED
      BY <2>1
  <1> QED
    BY <1>1, InvCorrect, PTL

-----------------------------------------------------------------------------
(* The migration implements StorageMove *)

Data(p) == IF at[p] = None THEN {} ELSE at[p].data

\* What the destination records, if it is there for certain.
Recorded == IF at[Dest] = None \/ "final" \in at[Dest].soft
            THEN {} ELSE {at[Dest].final} \ {None}

\* The move is not yet on the disk.
Undone == unsynced # None

\* The durable state, in terms of what is at each place.
ContentsAre ==
    /\ ~Undone => DurableContents = [p \in Places |-> Data(p)]
    /\ Undone => DurableContents =
                    [p \in Places |-> IF p = Dest THEN {} ELSE IF p = unsynced THEN Data(Dest) ELSE Data(p)]

RecordIs == /\ ~Undone => DurableRecord = Recorded
            /\ Undone => DurableRecord = {}

LEMMA ContentsLemma == TypeOK => ContentsAre
  <1> SUFFICES ASSUME TypeOK PROVE ContentsAre
    OBVIOUS
  <1>1. CASE ~Undone
    <2>1. Durable = at
      BY <1>1 DEF Durable, Undone, TypeOK
    <2> QED
      BY <1>1, <2>1 DEF DurableContents, Data, ContentsAre, ContentsAre
  <1>2. CASE Undone
    <2>1. unsynced \in Places /\ Dest \in Places /\ unsynced # Dest
      BY <1>2 DEF Undone, TypeOK, Places
    <2>2. Durable = [at EXCEPT ![unsynced] = at[Dest], ![Dest] = None]
      BY <1>2 DEF Durable, Undone, Unmoved
    <2>3. /\ Durable[Dest] = None /\ Durable[unsynced] = at[Dest]
          /\ \A p \in Places : p \notin {Dest, unsynced} => Durable[p] = at[p]
      BY <2>1, <2>2 DEF TypeOK
    <2>4. \A p \in Places : (IF Durable[p] = None THEN {} ELSE Durable[p].data)
                             = IF p = Dest THEN {} ELSE IF p = unsynced THEN Data(Dest) ELSE Data(p)
      BY <2>3 DEF Data
    <2> QED
      BY <1>2, <2>4 DEF DurableContents, ContentsAre
  <1> QED
    BY <1>1, <1>2 DEF ContentsAre

LEMMA RecordLemma == TypeOK => RecordIs
  <1> SUFFICES ASSUME TypeOK PROVE RecordIs
    OBVIOUS
  <1>1. CASE ~Undone
    <2>1. Durable = at
      BY <1>1 DEF Durable, Undone, TypeOK
    <2> QED
      BY <1>1, <2>1 DEF DurableRecord, Recorded, RecordIs
  <1>2. CASE Undone
    <2>1. unsynced # Dest /\ Dest \in Places /\ unsynced \in Places
      BY <1>2 DEF Undone, TypeOK, Places
    <2>2. Durable[Dest] = None
      BY <1>2, <2>1 DEF Durable, Undone, Unmoved, TypeOK
    <2> QED
      BY <1>2, <2>2 DEF DurableRecord, RecordIs
  <1> QED
    BY <1>1, <1>2 DEF RecordIs

LEMMA DurableNow == TypeOK => ContentsAre /\ RecordIs
  BY ContentsLemma, RecordLemma

LEMMA DurableNext == TypeOK' => ContentsAre' /\ RecordIs'
  BY DurableNow, PTL

\* A move that is not on the disk is the only thing that is not.
LEMMA UndoneMove ==
  ASSUME IInv, Undone
  PROVE  /\ unsynced \in Homes /\ Exists(Dest) /\ OwnData(unsynced, at[Dest].data)
         /\ at[Dest].final \in {None, unsynced} /\ ~Exists(unsynced)
         /\ at[Dest] \in DirType /\ unsynced # Dest /\ unsynced \in Places /\ Dest \in Places
  <1>1. unsynced \in Homes /\ Exists(Dest) /\ OwnData(unsynced, at[Dest].data) /\ ~Exists(unsynced)
    BY DEF Undone, IInv, DiskInv, MoveIsOpen, TypeOK
  <1>2. at[Dest] \in DirType /\ unsynced # Dest /\ unsynced \in Places /\ Dest \in Places
    BY <1>1 DEF IInv, TypeOK, Exists, Places
  <1>3. at[Dest].final \in Homes \cup {None}
    BY <1>2 DEF DirType
  <1>4. at[Dest].final # None => OwnData(at[Dest].final, at[Dest].data)
    BY <1>1 DEF IInv, DiskInv, DestinationOnRecord, OnRecord
  <1> QED
    BY <1>1, <1>2, <1>3, <1>4, OneOwner

\* Data that somebody has made is there.
LEMMA OwnDataIs ==
  ASSUME NEW h \in Homes, NEW data, OwnData(h, data)
  PROVE  data # {} /\ data \subseteq Abstract!Legacy(h) /\ Fresh \notin data
  <1>1. PICK n \in Copies : data = {<<h, n>>}
    BY DEF OwnData
  <1>2. <<h, n>> # Fresh
    BY DEF Fresh
  <1> QED
    BY <1>1, <1>2 DEF Abstract!Legacy

\* A step that leaves the data and the record alone is not seen.
LEMMA NotSeen ==
  ASSUME TypeOK, TypeOK', UNCHANGED <<unsynced>>,
         \A p \in Places : Data(p)' = Data(p), ~Undone => Recorded' = Recorded
  PROVE  UNCHANGED <<DurableContents, DurableRecord>>
  <1>1. Undone' = Undone /\ Dest \in Places
    BY DEF Undone, Places
  <1>2. CASE ~Undone
    <2>1. DurableContents' = [p \in Places |-> Data(p)'] /\ DurableRecord' = Recorded'
      BY <1>1, <1>2, DurableNext DEF ContentsAre, RecordIs
    <2>2. DurableContents = [p \in Places |-> Data(p)] /\ DurableRecord = Recorded
      BY <1>2, DurableNow DEF ContentsAre, RecordIs
    <2> QED
      BY <1>2, <2>1, <2>2
  <1>3. CASE Undone
    <2>1. /\ DurableContents' = [p \in Places |-> IF p = Dest THEN {} ELSE IF p = unsynced THEN Data(Dest)'
                                                 ELSE Data(p)']
          /\ DurableRecord' = {}
      BY <1>1, <1>3, DurableNext DEF ContentsAre, RecordIs
    <2>2. /\ DurableContents = [p \in Places |-> IF p = Dest THEN {} ELSE IF p = unsynced THEN Data(Dest)
                                                 ELSE Data(p)]
          /\ DurableRecord = {}
      BY <1>3, DurableNow DEF ContentsAre, RecordIs
    <2> QED
      BY <1>1, <2>1, <2>2
  <1> QED
    BY <1>2, <1>3

\* A directory that keeps its data and its record, at a place where there is one
\* or, at the destination, where it is made.
LEMMA KeptNotSeen ==
  ASSUME TypeOK, TypeOK', NEW p \in Places, NEW d \in DirType, at' = [at EXCEPT ![p] = d],
         d.data = DirAt(p).data,
         p = Dest => d.final = DirAt(p).final,
         p = Dest => ("final" \in d.soft <=> "final" \in DirAt(p).soft),
         UNCHANGED <<unsynced>>
  PROVE  UNCHANGED <<DurableContents, DurableRecord>>
  <1>1. /\ at'[p] = d /\ d # None
        /\ \A q \in Places : q # p => at'[q] = at[q]
    BY DEF TypeOK
  <1>2. Dest \in Places
    BY DEF Places
  <1>3. \A q \in Places : Data(q)' = Data(q)
    BY <1>1 DEF Data, DirAt, Exists, EmptyDir
  <1>4. Recorded' = Recorded
    <2>1. CASE p # Dest
      BY <1>1, <1>2, <2>1 DEF Recorded
    <2>2. CASE p = Dest
      <3>1. Recorded' = IF "final" \in d.soft THEN {} ELSE {d.final} \ {None}
        BY <1>1, <2>2 DEF Recorded
      <3>2. CASE Exists(Dest)
        BY <2>2, <3>1, <3>2 DEF Recorded, DirAt, Exists
      <3>3. CASE ~Exists(Dest)
        <4>1. d.final = None
          BY <2>2, <3>3 DEF DirAt, EmptyDir
        <4> QED
          BY <3>1, <3>3, <4>1 DEF Recorded, Exists
      <3> QED
        BY <3>2, <3>3
    <2> QED
      BY <2>1, <2>2
  <1> QED
    BY <1>3, <1>4, NotSeen

LEMMA ReadNotSeen ==
  ASSUME UNCHANGED <<at, unsynced>>
  PROVE  UNCHANGED <<DurableContents, DurableRecord>>
  BY DEF DurableContents, DurableRecord, Durable, Unmoved

LEMMA CommandNotSeen ==
  ASSUME IInv, TypeOK', NEW c \in Commands,
         \/ Load(c) \/ Log(c) \/ Save(c) \/ MakeHome(c) \/ TakeLock(c)
         \/ CheckLegacy(c) \/ Stop(c) \/ KillCommand(c)
  PROVE  UNCHANGED <<DurableContents, DurableRecord>>
  <1> DEFINE e == DirAt(Dest)
  <1>1. e \in DirType /\ Dest \in Places /\ TypeOK
    BY DirAtType DEF Places, IInv
  <1>2. UNCHANGED <<unsynced>>
    BY DEF Load, Log, Save, MakeHome, TakeLock, CheckLegacy, Stop, KillCommand, Others
  <1>3. ASSUME UNCHANGED at PROVE UNCHANGED <<DurableContents, DurableRecord>>
    BY <1>2, <1>3, ReadNotSeen
  <1>4. ASSUME NEW d \in DirType, at' = [at EXCEPT ![Dest] = d],
               d.data = e.data, d.final = e.final, d.soft = e.soft
        PROVE  UNCHANGED <<DurableContents, DurableRecord>>
    BY <1>1, <1>2, <1>4, KeptNotSeen
  <1>5. CASE Load(c)
    BY <1>3, <1>5 DEF Load
  <1>6. CASE Log(c)
    <2>1. PICK d : d = [e EXCEPT !.files = TRUE]
      OBVIOUS
    <2>2. at' = [at EXCEPT ![Dest] = d]
      BY <1>6, <2>1 DEF Log, InDest, DirAt
    <2> HIDE DEF e
    <2>3. d \in DirType /\ d.data = e.data /\ d.final = e.final /\ d.soft = e.soft
      BY <1>1, <2>1 DEF DirType
    <2> QED
      BY <1>4, <2>2, <2>3
  <1>7. CASE Save(c)
    <2>1. PICK d : d = [e EXCEPT !.config = {Fresh}]
      OBVIOUS
    <2>2. at' = [at EXCEPT ![Dest] = d]
      BY <1>7, <2>1 DEF Save, InDest, DirAt
    <2> HIDE DEF e
    <2>3. d \in DirType /\ d.data = e.data /\ d.final = e.final /\ d.soft = e.soft
      BY <1>1, <2>1 DEF DirType, Origins, Fresh
    <2> QED
      BY <1>4, <2>2, <2>3
  <1>8. CASE MakeHome(c)
    <2>1. at' = [at EXCEPT ![Dest] = e]
      BY <1>8 DEF MakeHome, InDest, DirAt
    <2> HIDE DEF e
    <2> QED
      BY <1>1, <1>4, <2>1
  <1>9. CASE TakeLock(c)
    <2>1. e = at[Dest]
      BY <1>9, DaemonDir DEF TakeLock
    <2>2. PICK d : d = [e EXCEPT !.files = TRUE, !.daemon = IF @ = None THEN c ELSE @]
      OBVIOUS
    <2>3. at' = [at EXCEPT ![Dest] = d]
      BY <1>9, <2>1, <2>2 DEF TakeLock
    <2> HIDE DEF e
    <2>4. d \in DirType /\ d.data = e.data /\ d.final = e.final /\ d.soft = e.soft
      BY <1>1, <2>2 DEF DirType
    <2> QED
      BY <1>4, <2>3, <2>4
  <1>10. ASSUME Exists(Dest), at' = [at EXCEPT ![Dest] = [@ EXCEPT !.daemon = None]]
         PROVE  UNCHANGED <<DurableContents, DurableRecord>>
    <2>1. e = at[Dest]
      BY <1>10 DEF DirAt
    <2>2. PICK d : d = [e EXCEPT !.daemon = None]
      OBVIOUS
    <2>3. at' = [at EXCEPT ![Dest] = d]
      BY <1>10, <2>1, <2>2
    <2> HIDE DEF e
    <2>4. d \in DirType /\ d.data = e.data /\ d.final = e.final /\ d.soft = e.soft
      BY <1>1, <2>2 DEF DirType
    <2> QED
      BY <1>4, <2>3, <2>4
  <1>11. CASE CheckLegacy(c)
    BY <1>3, <1>10, <1>11, DaemonDir DEF CheckLegacy
  <1>12. CASE Stop(c)
    BY <1>10, <1>12, DaemonDir DEF Stop
  <1>13. CASE KillCommand(c)
    BY <1>3, <1>10, <1>13 DEF KillCommand
  <1> QED
    BY <1>5, <1>6, <1>7, <1>8, <1>9, <1>11, <1>12, <1>13

LEMMA LegacyFlagNotSeen ==
  ASSUME IInv, TypeOK', NEW p \in Places, Exists(p), NEW b \in BOOLEAN,
         at' = [at EXCEPT ![p] = [@ EXCEPT !.legacy = b]], UNCHANGED <<unsynced>>
  PROVE  UNCHANGED <<DurableContents, DurableRecord>>
  <1> DEFINE e == at[p]
  <1>1. e \in DirType /\ DirAt(p) = e /\ TypeOK
    BY DEF IInv, TypeOK, Exists, DirAt
  <1>2. PICK d : d = [e EXCEPT !.legacy = b]
    OBVIOUS
  <1>3. at' = [at EXCEPT ![p] = d]
    BY <1>2
  <1> HIDE DEF e
  <1>4. d \in DirType /\ d.data = e.data /\ d.final = e.final /\ d.soft = e.soft
    BY <1>1, <1>2 DEF DirType
  <1> QED
    BY <1>1, <1>3, <1>4, KeptNotSeen

\* A step of the abstract specification, or none.
Implements == Abstract!MoveNext \/ UNCHANGED <<DurableContents, DurableRecord>>

\* The daemon's own state is data where there was none.
LEMMA StoreSeen == ASSUME IInv, IInv', NEW c \in Commands, Store(c) PROVE Implements
  <1> DEFINE e == at[Dest]
  <1>1. e \in DirType /\ Exists(Dest) /\ e.data = {} /\ Dest \in Places /\ TypeOK /\ TypeOK'
    BY DaemonDir DEF Store, Places, IInv
  <1>2. PICK d : d = [e EXCEPT !.data = {Fresh}]
    OBVIOUS
  <1>3. at' = [at EXCEPT ![Dest] = d] /\ UNCHANGED <<unsynced>>
    BY <1>1, <1>2 DEF Store, InDest, Others
  <1>4. d \in DirType /\ d.data = {Fresh} /\ d.final = e.final /\ d.soft = e.soft
    <2> HIDE DEF e
    <2> QED
      BY <1>1, <1>2 DEF DirType, Origins, Fresh
  <1>5. /\ at'[Dest] = d /\ d # None
        /\ \A q \in Places : q # Dest => at'[q] = at[q]
    BY <1>1, <1>3, <1>4 DEF TypeOK
  <1>6. ~Undone /\ ~Undone'
    <2>1. ~Undone
      BY <1>1, OneOwner, UndoneMove
    <2> QED
      BY <1>3, <2>1 DEF Undone
  <1>7. DurableContents = [p \in Places |-> Data(p)] /\ DurableContents' = [p \in Places |-> Data(p)']
    BY <1>1, <1>6, DurableNow, DurableNext DEF ContentsAre
  <1>8. DurableRecord = Recorded /\ DurableRecord' = Recorded'
    BY <1>1, <1>6, DurableNow, DurableNext DEF RecordIs
  <1>9. Recorded' = Recorded
    BY <1>1, <1>3, <1>4, <1>5 DEF Recorded, Exists
  <1>10. Data(Dest) = {} /\ Data(Dest)' = {Fresh} /\ \A q \in Places : q # Dest => Data(q)' = Data(q)
    BY <1>1, <1>4, <1>5 DEF Data
  <1>11. \A q \in Places : Fresh \notin Data(q)
    <2> SUFFICES ASSUME NEW h \in Homes, at[h] # None PROVE Fresh \notin at[h].data
      BY <1>10 DEF Data, Places
    <2>1. OwnData(h, at[h].data)
      BY DEF IInv, DiskInv, HomesHoldTheirOwn, Exists
    <2> QED
      BY <2>1, OwnDataIs
  <1>12. DurableContents' = [DurableContents EXCEPT ![Dest] = {Fresh}]
    BY <1>1, <1>7, <1>10
  <1>13. Abstract!Create(Dest, Abstract!Fresh)
    BY <1>1, <1>7, <1>8, <1>9, <1>10, <1>11, <1>12 DEF Abstract!Create, Abstract!Fresh, Fresh, Places
  <1> QED
    BY <1>13 DEF Implements, Abstract!MoveNext

\* A legacy daemon that makes its directory anew.
LEMMA LegacyStartSeen == ASSUME IInv, IInv', NEW h \in Installed, LegacyStart(h) PROVE Implements
  <1>1. h \in Homes /\ h \in Places /\ Dest \in Places /\ h # Dest /\ TypeOK /\ TypeOK'
    BY DEF Places, IInv
  <1>2. UNCHANGED <<unsynced>>
    BY DEF LegacyStart
  <1>3. CASE Exists(h)
    <2>1. at' = [at EXCEPT ![h] = [@ EXCEPT !.legacy = TRUE]]
      BY <1>3 DEF LegacyStart
    <2> QED
      BY <1>1, <1>2, <1>3, <2>1, LegacyFlagNotSeen DEF Implements
  <1>4. CASE ~Exists(h)
    <2>1. PICK n \in Copies : /\ at' = [at EXCEPT ![h] = [LegacyDir(h, n) EXCEPT !.legacy = TRUE]]
                              /\ \A p \in Places : Exists(p) => <<h, n>> \notin at[p].data
      BY <1>4 DEF LegacyStart
    <2>2. PICK d \in DirType : /\ d = [LegacyDir(h, n) EXCEPT !.legacy = TRUE]
                               /\ d.data = {<<h, n>>}
      BY <1>1, LegacyDirIs
    <2>3. at' = [at EXCEPT ![h] = d]
      BY <2>1, <2>2
    <2>4. /\ at'[h] = d /\ d # None
          /\ \A q \in Places : q # h => at'[q] = at[q]
      BY <1>1, <2>2, <2>3 DEF TypeOK
    <2>5. Data(h) = {} /\ Data(h)' = {<<h, n>>} /\ \A q \in Places : q # h => Data(q)' = Data(q)
      BY <1>4, <2>2, <2>4 DEF Data, Exists
    <2>6. \A q \in Places : <<h, n>> \notin Data(q)
      BY <2>1 DEF Data, Exists
    <2>7. unsynced # h /\ Undone' = Undone /\ Recorded' = Recorded
      BY <1>1, <1>2, <1>4, <2>4 DEF LegacyStart, Undone, Recorded
    <2>8. DurableRecord' = DurableRecord
      BY <1>1, <2>7, DurableNow, DurableNext DEF RecordIs
    <2>9. /\ DurableContents[h] = {} /\ \A q \in Places : <<h, n>> \notin DurableContents[q]
          /\ DurableContents' = [DurableContents EXCEPT ![h] = {<<h, n>>}]
      <3>1. CASE ~Undone
        <4>1. DurableContents = [p \in Places |-> Data(p)]
          BY <1>1, <3>1, DurableNow DEF ContentsAre
        <4>2. DurableContents' = [p \in Places |-> Data(p)']
          BY <1>1, <2>7, <3>1, DurableNext DEF ContentsAre
        <4> QED
          BY <1>1, <2>5, <2>6, <4>1, <4>2
      <3>2. CASE Undone
        <4>1. DurableContents = [p \in Places |-> IF p = Dest THEN {} ELSE IF p = unsynced THEN Data(Dest)
                                                  ELSE Data(p)]
          BY <1>1, <3>2, DurableNow DEF ContentsAre
        <4>2. DurableContents' = [p \in Places |-> IF p = Dest THEN {} ELSE IF p = unsynced THEN Data(Dest)'
                                                   ELSE Data(p)']
          BY <1>1, <1>2, <2>7, <3>2, DurableNext DEF ContentsAre
        <4> QED
          BY <1>1, <2>5, <2>6, <2>7, <4>1, <4>2
      <3> QED
        BY <3>1, <3>2
    <2>10. Abstract!Create(h, <<h, n>>)
      BY <2>8, <2>9 DEF Abstract!Create, Places
    <2>11. <<h, n>> \in Abstract!Legacy(h)
      BY DEF Abstract!Legacy
    <2> QED
      BY <1>1, <2>10, <2>11 DEF Implements, Abstract!MoveNext
  <1> QED
    BY <1>3, <1>4

\* Where the move is not undone, the destination has the data of the home.
LEMMA MoveSeen ==
  ASSUME NEW src \in Homes, DurableRecord' = DurableRecord \/ DurableRecord' = {src},
         DurableContents[Dest] = {}, DurableContents[src] # {},
         DurableContents' = [DurableContents EXCEPT ![Dest] = DurableContents[src], ![src] = {}]
  PROVE  Implements
  <1>1. Abstract!Move(src)
    BY DEF Abstract!Move
  <1> QED
    BY <1>1 DEF Implements, Abstract!MoveNext

LEMMA RecordSeen ==
  ASSUME NEW src \in Homes, DurableContents' = DurableContents, DurableRecord = {},
         DurableRecord' = {src}, OwnData(src, DurableContents[Dest])
  PROVE  Implements
  <1>1. Abstract!Record(src)
    BY OwnDataIs DEF Abstract!Record
  <1> QED
    BY <1>1 DEF Implements, Abstract!MoveNext

\* rename(2): the data moves, or will once the move is on the disk.
LEMMA RenameSeen == ASSUME IInv, IInv', NEW m \in Migrators, Rename(m) PROVE Implements
  <1>0. PICK src : src = run[m].src
    OBVIOUS
  <1>1. run[m].pc = "rename" /\ TypeOK /\ TypeOK'
    BY DEF Rename, IInv
  <1>2. CASE UNCHANGED <<at, unsynced>>
    BY <1>1, <1>2, ReadNotSeen DEF Implements
  <1>3. CASE ~UNCHANGED <<at, unsynced>>
    <2>1. /\ Replaceable(Dest) /\ unsynced' = src
          /\ at' = [at EXCEPT ![Dest] = at[src], ![src] = None]
      BY <1>0, <1>3 DEF Rename
    <2>2. src \in Homes /\ src \in Places /\ Dest \in Places /\ src # Dest /\ src # None
          /\ at[src] \in DirType /\ Exists(src)
      <3>1. MigratorKnows(m)
        BY DEF IInv, DiskInv
      <3> QED
        BY <1>0, <1>1, <3>1 DEF MigratorKnows, TypeOK, Exists, Places
    <2>4. /\ at'[Dest] = at[src] /\ at'[src] = None
          /\ \A q \in Places : q \notin {src, Dest} => at'[q] = at[q]
      BY <1>1, <2>1, <2>2 DEF TypeOK
    <2>5. /\ Data(Dest) = {} /\ Data(src) = at[src].data /\ Data(Dest)' = at[src].data
          /\ Data(src)' = {} /\ \A q \in Places : q \notin {src, Dest} => Data(q)' = Data(q)
      <3>1. Data(Dest) = {}
        BY <2>1 DEF Data, Replaceable, EmptyDir
      <3> QED
        BY <2>2, <2>4, <3>1 DEF Data, Exists
    <2>6. Recorded = {}
      <3>1. Exists(Dest) => at[Dest].final = None
        BY <2>1 DEF Replaceable, EmptyDir, Exists
      <3> QED
        BY <3>1 DEF Recorded, Exists
    <2>7. ~Undone /\ Undone'
      <3>1. Undone => Exists(Dest) /\ Data(Dest) # {}
        BY UndoneMove, OwnDataIs DEF Data, Exists
      <3> QED
        BY <2>1, <2>2, <2>5, <3>1 DEF Undone
    <2>8. DurableContents = [p \in Places |-> Data(p)] /\ DurableRecord = {} /\ DurableRecord' = {}
      BY <1>1, <2>6, <2>7, DurableNow, DurableNext DEF ContentsAre, RecordIs
    <2>9. DurableContents' = [p \in Places |-> IF p = Dest THEN {} ELSE IF p = src THEN Data(Dest)'
                                               ELSE Data(p)']
      BY <1>1, <2>1, <2>7, DurableNext DEF ContentsAre
    <2>10. \A p \in Places : DurableContents'[p] = Data(p)
      BY <2>2, <2>5, <2>9
    <2>11. DurableContents' = DurableContents
      BY <2>8, <2>9, <2>10
    <2> QED
      BY <2>8, <2>11 DEF Implements
  <1> QED
    BY <1>2, <1>3

\* The move reaches the disk: by sync_directory or without being asked.
LEMMA SyncedSeen ==
  ASSUME IInv, IInv', unsynced' = None, UNCHANGED at PROVE Implements
  <1>1. TypeOK /\ TypeOK' /\ ~Undone' /\ Dest \in Places
    BY DEF IInv, Undone, Places
  <1>2. Recorded' = Recorded /\ \A p : Data(p)' = Data(p)
    BY DEF Recorded, Data
  <1>3. DurableContents' = [p \in Places |-> Data(p)] /\ DurableRecord' = Recorded
    BY <1>1, <1>2, DurableNext DEF ContentsAre, RecordIs
  <1>4. CASE ~Undone
    BY <1>1, <1>3, <1>4, DurableNow DEF ContentsAre, RecordIs, Implements
  <1>5. CASE Undone
    <2>1. /\ unsynced \in Homes /\ Exists(Dest) /\ OwnData(unsynced, at[Dest].data)
          /\ at[Dest].final \in {None, unsynced} /\ ~Exists(unsynced)
          /\ unsynced \in Places /\ unsynced # Dest
      BY <1>5, UndoneMove
    <2>2. DurableContents = [p \in Places |-> IF p = Dest THEN {} ELSE IF p = unsynced THEN Data(Dest)
                                              ELSE Data(p)]
      BY <1>1, <1>5, DurableNow DEF ContentsAre
    <2>3. DurableRecord = {} /\ (DurableRecord' = {} \/ DurableRecord' = {unsynced})
      BY <1>1, <1>3, <1>5, <2>1, DurableNow DEF RecordIs, Recorded
    <2>4. Data(unsynced) = {} /\ Data(Dest) # {}
      BY <2>1, OwnDataIs DEF Data, Exists
    <2>5. DurableContents' = [DurableContents EXCEPT ![Dest] = DurableContents[unsynced], ![unsynced] = {}]
      BY <1>1, <1>3, <2>1, <2>2, <2>4
    <2>6. DurableContents[Dest] = {} /\ DurableContents[unsynced] # {}
      BY <1>1, <2>1, <2>2, <2>4
    <2> QED
      BY <2>1, <2>3, <2>5, <2>6, MoveSeen
  <1> QED
    BY <1>4, <1>5

\* Manifests written at a home are not seen.
LEMMA PendingNotSeen ==
  ASSUME IInv, IInv', NEW m \in Migrators, WritePending(m) \/ SyncPending(m) PROVE Implements
  <1>0. PICK src : src = run[m].src
    OBVIOUS
  <1>1. src \in Homes /\ Exists(src) /\ src \in Places /\ src # Dest /\ at[src] \in DirType
    <2>1. MigratorKnows(m) /\ run[m].pc \in {"pending", "sync_pending"}
      BY DEF IInv, DiskInv, WritePending, SyncPending
    <2> QED
      BY <1>0, <2>1 DEF MigratorKnows, IInv, TypeOK, Places, Exists
  <1>2. UNCHANGED <<unsynced>> /\ TypeOK /\ TypeOK'
    BY DEF WritePending, SyncPending, IInv
  <1> DEFINE e == at[src]
  <1>3. CASE UNCHANGED at
    BY <1>2, <1>3, ReadNotSeen DEF Implements
  <1>4. CASE at' = [at EXCEPT ![src].pending = src, ![src].soft = @ \cup {"pending"}]
    <2>1. PICK d : d = [e EXCEPT !.pending = src, !.soft = @ \cup {"pending"}]
      OBVIOUS
    <2>2. at' = [at EXCEPT ![src] = d]
      BY <1>4, <2>1
    <2>3. d \in DirType /\ d.data = e.data
      <3> HIDE DEF e
      <3> QED
        BY <1>1, <2>1 DEF DirType, e
    <2> QED
      BY <1>1, <1>2, <2>2, <2>3, KeptNotSeen DEF Implements, DirAt
  <1>5. CASE Synced(src)
    <2>1. PICK d : d = [e EXCEPT !.soft = {}]
      OBVIOUS
    <2>2. at' = [at EXCEPT ![src] = d]
      BY <1>5, <2>1 DEF Synced
    <2>3. d \in DirType /\ d.data = e.data
      <3> HIDE DEF e
      <3> QED
        BY <1>1, <2>1 DEF DirType, e
    <2> QED
      BY <1>1, <1>2, <2>2, <2>3, KeptNotSeen DEF Implements, DirAt
  <1> QED
    BY <1>0, <1>3, <1>4, <1>5 DEF WritePending, SyncPending

LEMMA DataElsewhere == ASSUME NEW p, at'[p] = at[p] PROVE Data(p)' = Data(p)
  BY DEF Data

\* The manifests at the destination: the final one is the record, once the move
\* is on the disk.
LEMMA FinalSeen ==
  ASSUME IInv, IInv', NEW m \in Migrators, NEW src, src = run[m].src, NEW d \in DirType,
         run[m].pc \in {"final", "sync_final", "remove", "report"},
         at' = [at EXCEPT ![Dest] = d], d.data = at[Dest].data, d.final = src,
         "final" \in d.soft => at[Dest].final = None \/ "final" \in at[Dest].soft,
         UNCHANGED <<unsynced>>
  PROVE  Implements
  <1>1. /\ TypeOK /\ TypeOK' /\ Exists(Dest) /\ Dest \in Places /\ src \in Homes
        /\ at[Dest].final \in {None, src} /\ OwnData(src, at[Dest].data)
    <2>1. /\ Exists(Dest) /\ Dest \in Places /\ src \in Homes
          /\ at[Dest].final \in {None, src} /\ OwnData(src, at[Dest].data)
      BY DestKnown
    <2> QED
      BY <2>1 DEF IInv
  <1>2. /\ at'[Dest] = d /\ d # None
        /\ \A q \in Places : q # Dest => at'[q] = at[q]
    BY <1>1 DEF TypeOK
  <1>3. \A p \in Places : Data(p)' = Data(p)
    <2>1. Data(Dest)' = d.data /\ Data(Dest) = d.data
      BY <1>1, <1>2 DEF Data, Exists
    <2>2. \A p \in Places : p # Dest => Data(p)' = Data(p)
      BY <1>2, DataElsewhere
    <2> QED
      BY <2>1, <2>2
  <1>4. CASE Undone
    BY <1>1, <1>3, <1>4, NotSeen DEF Implements
  <1>5. CASE ~Undone
    <2>1. Undone' <=> Undone
      BY DEF Undone
    <2>2. DurableContents = [p \in Places |-> Data(p)] /\ DurableContents' = [p \in Places |-> Data(p)']
      BY <1>1, <1>5, <2>1, DurableNow, DurableNext DEF ContentsAre
    <2>3. DurableRecord = Recorded /\ DurableRecord' = Recorded'
      BY <1>1, <1>5, <2>1, DurableNow, DurableNext DEF RecordIs
    <2>4. DurableContents' = DurableContents
      BY <1>3, <2>2
    <2>5. /\ Recorded' = IF "final" \in d.soft THEN {} ELSE {src}
          /\ Recorded = IF at[Dest].final = None \/ "final" \in at[Dest].soft THEN {} ELSE {src}
      BY <1>1, <1>2 DEF Recorded, Exists
    <2>6. Recorded' = Recorded \/ (Recorded = {} /\ Recorded' = {src})
      BY <2>5
    <2>7. DurableContents[Dest] = at[Dest].data
      BY <1>1, <2>2 DEF Data, Exists
    <2> QED
      BY <1>1, <2>3, <2>4, <2>6, <2>7, RecordSeen DEF Implements
  <1> QED
    BY <1>4, <1>5

LEMMA FinalStepsSeen ==
  ASSUME IInv, IInv', NEW m \in Migrators,
         WriteFinal(m) \/ SyncFinal(m) \/ RemovePending(m) \/ Report(m)
  PROVE  Implements
  <1>0. PICK src : src = run[m].src
    OBVIOUS
  <1> DEFINE e == at[Dest]
  <1>1. run[m].pc \in {"final", "sync_final", "remove", "report"} /\ UNCHANGED <<unsynced>>
    BY DEF WriteFinal, SyncFinal, RemovePending, Report
  <1>2. /\ TypeOK /\ e \in DirType /\ Exists(Dest) /\ src \in Homes
        /\ run[m].pc # "final" => e.final = src
    BY <1>0, <1>1, DestKnown
  <1>3. ASSUME NEW d \in DirType, at' = [at EXCEPT ![Dest] = d],
               d.data = e.data, d.final = src,
               "final" \in d.soft => e.final = None \/ "final" \in e.soft
        PROVE  Implements
    BY <1>0, <1>1, <1>3, FinalSeen
  <1>4. CASE WriteFinal(m)
    <2>0. PICK new : new = IF e.final = None THEN {"final"} ELSE {}
      OBVIOUS
    <2>1. PICK d : d = [e EXCEPT !.final = src, !.soft = @ \cup new]
      OBVIOUS
    <2>2. at' = [at EXCEPT ![Dest] = d]
      BY <1>0, <1>4, <2>0, <2>1 DEF WriteFinal
    <2> HIDE DEF e
    <2>3. d \in DirType /\ d.data = e.data /\ d.final = src /\ d.soft = e.soft \cup new
      BY <1>2, <2>0, <2>1 DEF DirType
    <2>4. "final" \in d.soft => e.final = None \/ "final" \in e.soft
      BY <2>0, <2>3
    <2> QED
      BY <1>3, <2>2, <2>3, <2>4
  <1>5. CASE RemovePending(m)
    <2>1. PICK d : d = [e EXCEPT !.pending = None, !.soft = @ \cup {"removal"}]
      OBVIOUS
    <2>2. at' = [at EXCEPT ![Dest] = d]
      BY <1>5, <2>1 DEF RemovePending
    <2>3. e.final = src
      BY <1>2, <1>5 DEF RemovePending
    <2> HIDE DEF e
    <2>4. d \in DirType /\ d.data = e.data /\ d.final = src /\ d.soft = e.soft \cup {"removal"}
      BY <1>2, <2>1, <2>3 DEF DirType
    <2>5. "final" \in d.soft => "final" \in e.soft
      BY <2>4
    <2> QED
      BY <1>3, <2>2, <2>4, <2>5
  <1>6. CASE Synced(Dest) /\ run[m].pc # "final"
    <2>1. PICK d \in DirType : at' = [at EXCEPT ![Dest] = d] /\ d.data = e.data /\ d.final = e.final
                               /\ d.soft = {}
      BY <1>2, <1>6, SyncedDest
    <2> QED
      BY <1>2, <1>3, <1>6, <2>1
  <1> QED
    BY <1>4, <1>5, <1>6 DEF SyncFinal, Report

\* A power failure undoes the move or makes it durable, and so the record.
LEMMA PowerFailsSeen == ASSUME IInv, IInv', NEW lost, PowerFails(lost) PROVE Implements
  <1> DEFINE disk == IF unsynced # None /\ "move" \in lost THEN Unmoved ELSE at
  <1>1. /\ unsynced' = None
        /\ at' = [p \in Places |-> IF disk[p] = None THEN None ELSE AfterLoss(disk[p], lost)]
    BY DEF PowerFails
  <1>2. TypeOK /\ TypeOK' /\ Dest \in Places /\ Homes \subseteq Places /\ ~Undone'
    BY <1>1 DEF IInv, Undone, Places
  <1>3. \A p \in Places : disk[p] \in DirType \cup {None}
    <2>1. CASE disk = at
      BY <1>2, <2>1 DEF TypeOK
    <2>2. CASE unsynced # None /\ disk = Unmoved
      BY <1>2, <2>2 DEF TypeOK, Unmoved
    <2> QED
      BY <2>1, <2>2
  <1>4. \A p \in Places : Data(p)' = IF disk[p] = None THEN {} ELSE disk[p].data
    <2> HIDE DEF disk
    <2> SUFFICES ASSUME NEW p \in Places
                 PROVE  Data(p)' = IF disk[p] = None THEN {} ELSE disk[p].data
      OBVIOUS
    <2>1. CASE disk[p] = None
      BY <1>1, <2>1 DEF Data
    <2>2. CASE disk[p] # None
      <3>1. at'[p] = AfterLoss(disk[p], lost) /\ disk[p] \in DirType
        BY <1>1, <1>3, <2>2
      <3>2. at'[p] \in DirType /\ at'[p].data = disk[p].data
        BY <3>1, Left
      <3> QED
        BY <2>2, <3>2 DEF Data
    <2> QED
      BY <2>1, <2>2
  <1>5. DurableContents' = [p \in Places |-> Data(p)'] /\ DurableRecord' = Recorded'
    BY <1>2, DurableNext DEF ContentsAre, RecordIs
  <1>6. CASE ~Undone
    <2>1. disk = at
      BY <1>1, <1>6 DEF Undone
    <2>2. \A p \in Places : Data(p)' = Data(p)
      BY <1>4, <2>1 DEF Data
    <2>3. DurableContents = [p \in Places |-> Data(p)] /\ DurableRecord = Recorded
      BY <1>2, <1>6, DurableNow DEF ContentsAre, RecordIs
    <2>4. DurableContents' = DurableContents
      BY <1>5, <2>2, <2>3
    <2>5. CASE ~Exists(Dest)
      <3>1. at'[Dest] = None
        BY <1>1, <1>2, <2>1, <2>5 DEF Exists
      <3>2. Recorded' = Recorded
        BY <2>5, <3>1 DEF Recorded, Exists
      <3> QED
        BY <1>5, <2>3, <2>4, <3>2 DEF Implements
    <2>6. CASE Exists(Dest)
      <3>1. at'[Dest] = AfterLoss(at[Dest], lost) /\ at[Dest] \in DirType
        BY <1>1, <1>2, <2>1, <2>6 DEF Exists, TypeOK
      <3>2. /\ at'[Dest] \in DirType /\ at'[Dest].soft = {}
            /\ at'[Dest].final = IF "final" \in at[Dest].soft \cap lost THEN None ELSE at[Dest].final
        BY <3>1, Left
      <3>3. Recorded' = {at'[Dest].final} \ {None}
        BY <1>1, <3>2 DEF Recorded
      <3>4. CASE "final" \notin at[Dest].soft \/ "final" \in lost \/ at[Dest].final = None
        <4>1. Recorded' = Recorded
          BY <1>1, <2>6, <3>2, <3>3, <3>4 DEF Recorded, Exists
        <4> QED
          BY <1>5, <2>3, <2>4, <4>1 DEF Implements
      <3>5. CASE "final" \in at[Dest].soft /\ "final" \notin lost /\ at[Dest].final # None
        <4>1. at[Dest].final \in Homes /\ at'[Dest].final = at[Dest].final
          BY <3>1, <3>2, <3>5 DEF DirType
        <4>2. Recorded = {} /\ Recorded' = {at[Dest].final}
          BY <1>1, <3>3, <3>5, <4>1 DEF Recorded
        <4>3. OwnData(at[Dest].final, at[Dest].data)
          BY <2>6, <3>5 DEF IInv, DiskInv, DestinationOnRecord, OnRecord
        <4>4. DurableContents[Dest] = at[Dest].data
          BY <1>2, <2>3, <2>6 DEF Data, Exists
        <4> QED
          BY <1>5, <2>3, <2>4, <4>1, <4>2, <4>3, <4>4, RecordSeen
      <3> QED
        BY <3>4, <3>5
    <2> QED
      BY <2>5, <2>6
  <1>7. CASE Undone
    <2>1. /\ unsynced \in Homes /\ Exists(Dest) /\ OwnData(unsynced, at[Dest].data)
          /\ at[Dest].final \in {None, unsynced} /\ ~Exists(unsynced)
          /\ unsynced \in Places /\ unsynced # Dest
      BY <1>7, UndoneMove
    <2>2. /\ DurableContents = [p \in Places |-> IF p = Dest THEN {} ELSE IF p = unsynced THEN Data(Dest)
                                                 ELSE Data(p)]
          /\ DurableRecord = {}
      BY <1>2, <1>7, DurableNow DEF ContentsAre, RecordIs
    <2>3. Data(unsynced) = {} /\ Data(Dest) # {} /\ Data(Dest) = at[Dest].data
      BY <2>1, OwnDataIs DEF Data, Exists
    <2>4. CASE "move" \in lost
      <3>1. disk = Unmoved
        BY <1>7, <2>4 DEF Undone
      <3>2. /\ disk[Dest] = None /\ disk[unsynced] = at[Dest]
            /\ \A p \in Places : p \notin {Dest, unsynced} => disk[p] = at[p]
        BY <1>2, <2>1, <3>1 DEF Unmoved, TypeOK
      <3>3. at'[Dest] = None
        BY <1>1, <1>2, <3>2
      <3>4. DurableRecord' = {}
        BY <1>5, <3>3 DEF Recorded
      <3>5. \A p \in Places : Data(p)' = IF p = Dest THEN {} ELSE IF p = unsynced THEN Data(Dest) ELSE Data(p)
        BY <1>4, <2>1, <2>3, <3>2 DEF Data, Exists
      <3>6. DurableContents' = DurableContents
        BY <1>5, <2>2, <3>5
      <3> QED
        BY <2>2, <3>4, <3>6 DEF Implements
    <2>5. CASE "move" \notin lost
      <3>1. disk = at
        BY <2>5
      <3>2. \A p \in Places : Data(p)' = Data(p)
        BY <1>4, <3>1 DEF Data
      <3>3. at'[Dest] = AfterLoss(at[Dest], lost) /\ at[Dest] \in DirType
        BY <1>1, <1>2, <2>1, <3>1 DEF Exists, TypeOK
      <3>4. DurableRecord' = {} \/ DurableRecord' = {unsynced}
        <4>1. at'[Dest].final \in {None, unsynced}
          BY <2>1, <3>3, Left
        <4> QED
          BY <1>5, <4>1 DEF Recorded
      <3>5. DurableContents' = [DurableContents EXCEPT ![Dest] = DurableContents[unsynced], ![unsynced] = {}]
        BY <1>2, <1>5, <2>1, <2>2, <2>3, <3>2
      <3>6. DurableContents[Dest] = {} /\ DurableContents[unsynced] # {}
        BY <1>2, <2>1, <2>2, <2>3
      <3> QED
        BY <2>1, <2>2, <3>4, <3>5, <3>6, MoveSeen
    <2> QED
      BY <2>4, <2>5
  <1> QED
    BY <1>6, <1>7

LEMMA InitImplements == Init => Abstract!MoveInit
  <1> SUFFICES ASSUME Init PROVE Abstract!MoveInit
    OBVIOUS
  <1>1. IInv /\ TypeOK /\ ~Undone /\ Dest \in Places /\ Places = Homes \cup {Dest} /\ at[Dest] = None
    BY InitInv DEF Init, IInv, Undone, Places
  <1>2. DurableContents = [p \in Places |-> Data(p)] /\ DurableRecord = Recorded
    BY <1>1, DurableNow DEF ContentsAre, RecordIs
  <1>3. Recorded = {} /\ Data(Dest) = {}
    BY <1>1 DEF Recorded, Data
  <1>4. ASSUME NEW h \in Homes
        PROVE  Data(h) \subseteq Abstract!Legacy(h)
               /\ Data(h) \in {{}} \cup {{o} : o \in UNION {Abstract!Legacy(g) : g \in Homes}}
    <2>1. CASE at[h] = None
      BY <2>1 DEF Data
    <2>2. CASE at[h] # None
      <3>1. PICK n \in Copies : at[h].data = {<<h, n>>}
        BY <1>1, <2>2 DEF IInv, DiskInv, HomesHoldTheirOwn, OwnData, Exists
      <3>2. <<h, n>> \in Abstract!Legacy(h)
        BY DEF Abstract!Legacy
      <3> QED
        BY <2>2, <3>1, <3>2 DEF Data
    <2> QED
      BY <2>1, <2>2
  <1>5. DurableContents \in [Homes \cup {Dest} -> {{}} \cup {{o} : o \in {Abstract!Fresh}} \cup
                                {{o} : o \in UNION {Abstract!Legacy(h) : h \in Homes}}]
    BY <1>1, <1>2, <1>3, <1>4
  <1>6. DurableContents[Dest] = {} /\ \A h \in Homes : DurableContents[h] \subseteq Abstract!Legacy(h)
    BY <1>1, <1>2, <1>3, <1>4
  <1> QED
    BY <1>2, <1>3, <1>5, <1>6 DEF Abstract!MoveInit

LEMMA StepImplements == IInv /\ IInv' /\ [Next]_vars => [Abstract!MoveNext]_(Abstract!moveVars)
  <1> SUFFICES ASSUME IInv, IInv', [Next]_vars PROVE Implements
    BY DEF Implements, Abstract!moveVars
  <1>0. TypeOK'
    BY DEF IInv
  <1>1. ASSUME UNCHANGED <<at, unsynced>> PROVE Implements
    BY <1>1, ReadNotSeen DEF Implements
  <1>2. ASSUME NEW m \in Migrators, NEW req \in Homes \cup {None}, Begin(m, req) PROVE Implements
    BY <1>1, <1>2 DEF Begin
  <1>3. ASSUME NEW m \in Migrators, Migrate(m) PROVE Implements
    <2>1. CASE Look(m) \/ Vacant(m) \/ Choose(m)
      BY <1>1, <2>1 DEF Look, Vacant, Choose
    <2>2. CASE SyncMove(m)
      BY <2>2, SyncedSeen DEF SyncMove
    <2> QED
      BY <1>3, <2>1, <2>2, PendingNotSeen, RenameSeen, FinalStepsSeen DEF Migrate
  <1>4. ASSUME NEW m \in Migrators, KillRun(m) PROVE Implements
    BY <1>1, <1>4 DEF KillRun
  <1>5. ASSUME NEW c \in Commands,
               \/ Load(c) \/ Log(c) \/ Save(c) \/ MakeHome(c) \/ TakeLock(c)
               \/ CheckLegacy(c) \/ Store(c) \/ Stop(c) \/ KillCommand(c)
        PROVE  Implements
    BY <1>0, <1>5, StoreSeen, CommandNotSeen DEF Implements
  <1>6. ASSUME NEW h \in Installed, LegacyStart(h) PROVE Implements
    BY <1>6, LegacyStartSeen
  <1>7. ASSUME NEW p \in Places, LegacyStop(p) PROVE Implements
    BY <1>0, <1>7, LegacyFlagNotSeen DEF LegacyStop, Implements
  <1>8. CASE WriteBack
    BY <1>8, SyncedSeen DEF WriteBack
  <1>9. ASSUME NEW lost \in SUBSET Unsynced, PowerFails(lost)
        PROVE  Implements
    BY <1>9, PowerFailsSeen
  <1>10. CASE UNCHANGED vars
    BY <1>1, <1>10 DEF vars
  <1> QED
    BY <1>2, <1>3, <1>4, <1>5, <1>6, <1>7, <1>8, <1>9, <1>10 DEF Next

\* Seen through what is on the disk for certain, the migration with its manifests,
\* locks and syncs is StorageMove: a home moves as a whole, into a destination
\* without data, and is recorded once, whatever is killed and whenever the power
\* fails.
THEOREM MoveRefinement == Spec => MovesAsAWhole
  <1>1. Init => Abstract!MoveInit
    BY InitImplements
  <1>2. IInv /\ IInv' /\ [Next]_vars => [Abstract!MoveNext]_(Abstract!moveVars)
    BY StepImplements
  <1> QED
    BY <1>1, <1>2, InvCorrect, PTL DEF Spec, MovesAsAWhole, Abstract!MoveSpec
=============================================================================
