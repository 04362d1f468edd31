-------------------------- MODULE StorageMigration --------------------------
(***************************************************************************)
(* mochiport migrate-storage (src/daemon/storage_migration.rs) beside the  *)
(* commands that use the storage directory it fills: every command loads,  *)
(* logs to and saves the configuration there (src/lib.rs), and the daemon  *)
(* takes its lock there (src/daemon/process.rs).  Legacy daemons, which    *)
(* the program only probes, come and go in their own directories.          *)
(*                                                                         *)
(* A directory is a record of what the code looks for in it.  It moves as  *)
(* a whole, with the locks that are held on its files.  What has not been  *)
(* synced is lost, or not, when the power fails.                           *)
(***************************************************************************)
EXTENDS Naturals, FiniteSets

CONSTANTS
    Homes,       \* legacy directories, the candidates of a migration
    Installed,   \* those whose legacy daemon can still be started
    Standard,    \* those a starting daemon probes: legacy_standard_storage_homes
    Dest,        \* current_storage_home
    Copies,      \* how often a legacy daemon may create its directory
    Migrators,   \* processes running migrate-storage
    Commands,    \* processes running any other command
    MaxKills,    \* bound on migrations that are killed or that a call fails
    MaxOutages,  \* bound on power failures
    None

ASSUME StorageAssumption == /\ Standard \subseteq Homes /\ Installed \subseteq Homes
                            /\ Dest \notin Homes
                            /\ None \notin Homes \cup {Dest} \cup Migrators \cup Commands
                            /\ Copies \subseteq Nat /\ 1 \in Copies
                            /\ MaxKills \in Nat /\ MaxOutages \in Nat

VARIABLES
    at,            \* place -> the directory there, or None
    unsynced,      \* the home whose move to Dest is not yet durable, or None
    migration,     \* who holds StorageMigrationLock, or None
    run,           \* migrator -> its process
    command,       \* command -> its process
    reported,      \* history: the homes a migration has reported as moved by it,
    found,         \* ... and as moved before
    reused,        \* history: the homes moved with a manifest that was not yet
                   \* synced when the migration found it
    kills, outages

vars == <<at, unsynced, migration, run, command, reported, found, reused, kills, outages>>

Places == Homes \cup {Dest}
Origins == (Homes \X Copies) \cup {<<Dest, 1>>}
Fresh == <<Dest, 1>>

\* data     the daemon state found in it, by origin
\* config   config.toml, by origin
\* pending, final   the two manifests, by the source they record
\* soft     changes to the directory that are not yet durable
\* daemon   the command holding mochiport-daemon.lock
\* files    the lock file or the logs of a command are there
\* legacy   a legacy daemon holds its lock in it
EmptyDir == [data |-> {}, config |-> {}, pending |-> None, final |-> None, soft |-> {},
             daemon |-> None, files |-> FALSE, legacy |-> FALSE]

LegacyDir(h, n) == [EmptyDir EXCEPT !.data = {<<h, n>>}, !.config = {<<h, n>>}]

Exists(p) == at[p] # None
IdleRun == [pc |-> "idle", req |-> None, src |-> None, moved |-> FALSE]
IdleCommand == [pc |-> "idle", save |-> FALSE, daemon |-> FALSE]

\* A home may hold the manifest that an interrupted migration of another home
\* left in it, when the user has renamed the directory since.
InitialDirs(h) ==
    {None} \cup {[LegacyDir(h, 1) EXCEPT !.pending = g] : g \in (Homes \ {h}) \cup {None}}

Init ==
    /\ at \in [Places -> {None} \cup UNION {InitialDirs(h) : h \in Homes}]
    /\ \A h \in Homes : at[h] \in InitialDirs(h)
    /\ at[Dest] = None
    /\ unsynced = None /\ migration = None
    /\ run = [m \in Migrators |-> IdleRun]
    /\ command = [c \in Commands |-> IdleCommand]
    /\ reported = {} /\ found = {} /\ reused = {}
    /\ kills = 0 /\ outages = 0

-----------------------------------------------------------------------------
(* migrate_storage_to: one action per step that reads or changes the disk *)

\* The process goes on to pc, knowing what it knows or its source as well.
Proceed(m, process) == /\ run' = [run EXCEPT ![m] = process]
                       /\ UNCHANGED <<migration, reported, found>>

Goto(m, pc) == Proceed(m, [run[m] EXCEPT !.pc = pc])
From(m, pc, src) == Proceed(m, [run[m] EXCEPT !.pc = pc, !.src = src])

\* The process ends; dropping StorageMigrationLock releases it.
End(m) == run' = [run EXCEPT ![m] = IdleRun] /\ migration' = None

Refuse(m) == End(m) /\ UNCHANGED <<reported, found>>

\* The report says whether this run has moved the directory (migrated).
TellMoved(m, home) == End(m) /\ reported' = reported \cup {home} /\ UNCHANGED found
TellFound(m, home) == End(m) /\ found' = found \cup {home} /\ UNCHANGED reported

\* What no step of a migration changes, and what only WritePending does
Aside == UNCHANGED <<command, kills, outages>>
Untouched == Aside /\ UNCHANGED reused

\* StorageMigrationLock::acquire does not wait.
Begin(m, req) ==
    /\ run[m].pc = "idle"
    /\ migration = None
    /\ migration' = m
    /\ run' = [run EXCEPT ![m] = [IdleRun EXCEPT !.pc = "look", !.req = req]]
    /\ UNCHANGED <<at, unsynced, reported, found>> /\ Untouched

\* report_completed_migration
ReportCompleted(m, recorded) ==
    IF run[m].req \in {None, recorded} /\ (run[m].req = None => \A h \in Homes \ {recorded} : ~Exists(h))
    THEN TellFound(m, recorded) ELSE Refuse(m)

\* Mutant: a pending manifest at the destination is not looked for.
LookPastPending(m) ==
    /\ run[m].pc = "look"
    /\ IF Exists(Dest) /\ at[Dest].final # None
       THEN ReportCompleted(m, at[Dest].final)
       ELSE Goto(m, "vacant")
    /\ UNCHANGED <<at, unsynced>> /\ Untouched

\* recover_or_report_completed_migration, up to the writing of the final manifest
Look(m) ==
    /\ run[m].pc = "look"
    /\ \/ /\ Exists(Dest) => at[Dest].final = None /\ at[Dest].pending = None
          /\ Goto(m, "vacant")
       \/ /\ Exists(Dest) /\ at[Dest].final # None
          /\ ReportCompleted(m, at[Dest].final)
       \/ /\ Exists(Dest) /\ at[Dest].final = None /\ at[Dest].pending # None
          /\ IF Exists(at[Dest].pending) THEN Refuse(m) ELSE From(m, "final", at[Dest].pending)
    /\ UNCHANGED <<at, unsynced>> /\ Untouched

\* No daemon may run from the destination, and it may not exist.
Vacant(m) ==
    /\ run[m].pc = "vacant"
    /\ IF Exists(Dest) THEN Refuse(m) ELSE Goto(m, "choose")
    /\ UNCHANGED <<at, unsynced>> /\ Untouched

\* select_legacy_source: the requested home, or the only one there is
Selects(m, src) ==
    /\ run[m].req # None => src = run[m].req
    /\ run[m].req = None => \A h \in Homes : Exists(h) <=> h = src

\* validate_legacy_source, and the probe of the daemon locks in the source
Accepts(src) == Exists(src) /\ ~at[src].legacy

Choose(m) ==
    /\ run[m].pc = "choose"
    /\ \/ \E src \in Homes : Selects(m, src) /\ Accepts(src) /\ From(m, "pending", src)
       \/ (\A src \in Homes : Selects(m, src) => ~Accepts(src)) /\ Refuse(m)
    /\ UNCHANGED <<at, unsynced>> /\ Untouched

\* Mutant: the directory is not synced after the manifest is published in it.
WritePendingUnsynced(m) ==
    LET src == run[m].src IN
    /\ run[m].pc = "pending"
    /\ at' = [at EXCEPT ![src].pending = src, ![src].soft = @ \cup {"pending"}]
    /\ Goto(m, "rename")
    /\ UNCHANGED unsynced /\ Untouched

\* A manifest of this migration is used again, synced or not; one of another
\* refuses it.
WritePending(m) ==
    LET src == run[m].src IN
    /\ run[m].pc = "pending"
    /\ \/ /\ at[src].pending = None
          /\ at' = [at EXCEPT ![src].pending = src, ![src].soft = @ \cup {"pending"}]
          /\ Goto(m, "sync_pending")
          /\ reused' = reused \ {src}
       \/ /\ at[src].pending = src
          /\ Goto(m, "rename")
          /\ reused' = IF "pending" \in at[src].soft THEN reused \cup {src} ELSE reused \ {src}
          /\ UNCHANGED at
       \/ at[src].pending \notin {None, src} /\ Refuse(m) /\ UNCHANGED <<at, reused>>
    /\ UNCHANGED unsynced /\ Aside

\* sync_directory
Synced(p) == at' = [at EXCEPT ![p] = [@ EXCEPT !.soft = {}]]

SyncPending(m) ==
    /\ run[m].pc = "sync_pending"
    /\ Synced(run[m].src)
    /\ Goto(m, "rename")
    /\ UNCHANGED unsynced /\ Untouched

\* Mutant: whatever is at the destination is replaced.
Replaces(p) == TRUE

\* rename(2) replaces a directory only when it is empty.
Replaceable(p) == at[p] \in {None, EmptyDir}

Rename(m) ==
    /\ run[m].pc = "rename"
    /\ \/ /\ Replaceable(Dest)
          /\ at' = [at EXCEPT ![Dest] = at[run[m].src], ![run[m].src] = None]
          /\ unsynced' = run[m].src
          /\ Proceed(m, [run[m] EXCEPT !.pc = "sync_move", !.moved = TRUE])
       \/ ~Replaceable(Dest) /\ Refuse(m) /\ UNCHANGED <<at, unsynced>>
    /\ Untouched

\* Mutant: the directory that holds the destination is not synced.
SyncMoveSkipped(m) ==
    /\ run[m].pc = "sync_move"
    /\ Goto(m, "final")
    /\ UNCHANGED <<at, unsynced>> /\ Untouched

SyncMove(m) ==
    /\ run[m].pc = "sync_move"
    /\ unsynced' = None
    /\ Goto(m, "final")
    /\ UNCHANGED at /\ Untouched

\* A directory whose move was undone may hold this manifest already.
WriteFinal(m) ==
    /\ run[m].pc = "final"
    /\ at' = [at EXCEPT ![Dest].final = run[m].src,
                        ![Dest].soft = @ \cup IF at[Dest].final = None THEN {"final"} ELSE {}]
    /\ Goto(m, "sync_final")
    /\ UNCHANGED unsynced /\ Untouched

SyncFinal(m) ==
    /\ run[m].pc = "sync_final"
    /\ Synced(Dest)
    /\ Goto(m, "remove")
    /\ UNCHANGED unsynced /\ Untouched

RemovePending(m) ==
    /\ run[m].pc = "remove"
    /\ at' = [at EXCEPT ![Dest].pending = None, ![Dest].soft = @ \cup {"removal"}]
    /\ Goto(m, "report")
    /\ UNCHANGED unsynced /\ Untouched

\* The last sync, and the report: of the move, or of the one that was recovered
Report(m) ==
    /\ run[m].pc = "report"
    /\ Synced(Dest)
    /\ IF run[m].moved THEN TellMoved(m, run[m].src) ELSE ReportCompleted(m, run[m].src)
    /\ UNCHANGED unsynced /\ Untouched

Migrate(m) == \/ Look(m) \/ Vacant(m) \/ Choose(m) \/ WritePending(m) \/ SyncPending(m)
              \/ Rename(m) \/ SyncMove(m) \/ WriteFinal(m) \/ SyncFinal(m)
              \/ RemovePending(m) \/ Report(m)

-----------------------------------------------------------------------------
(* The other commands: async_main, and DaemonInstanceLock::acquire_at      *)

\* The command goes on to pc; one that has ended keeps nothing.
Step(c, pc) == command' = [command EXCEPT ![c] =
                               IF pc = "idle" THEN IdleCommand ELSE [@ EXCEPT !.pc = pc]]

\* Changes to the destination directory, which is made when it is missing
InDest(change(_)) ==
    at' = [at EXCEPT ![Dest] = change(IF Exists(Dest) THEN @ ELSE EmptyDir)]

Others == UNCHANGED <<unsynced, migration, run, reported, found, reused, kills, outages>>

\* load_or_default, and whether the configuration will be saved.  With --config
\* configuration and logs are elsewhere and only a daemon comes here.
Load(c) ==
    /\ command[c].pc = "idle"
    /\ \/ \E daemon \in BOOLEAN :
             command' = [command EXCEPT ![c] =
                [pc |-> "log", daemon |-> daemon,
                 save |-> ~Exists(Dest) \/ at[Dest].config = {}]]
       \/ command' = [command EXCEPT ![c] = [pc |-> "make", daemon |-> TRUE, save |-> FALSE]]
    /\ UNCHANGED at /\ Others

AfterSave(c) == IF command[c].daemon THEN "make" ELSE "idle"

\* init_logging makes the log directory, and with it the destination.
Log(c) ==
    /\ command[c].pc = "log"
    /\ InDest(LAMBDA d : [d EXCEPT !.files = TRUE])
    /\ Step(c, IF command[c].save THEN "save" ELSE AfterSave(c))
    /\ Others

\* AppConfig::save replaces the file whatever has come there since the load.
Save(c) ==
    /\ command[c].pc = "save"
    /\ InDest(LAMBDA d : [d EXCEPT !.config = {Fresh}])
    /\ Step(c, AfterSave(c))
    /\ Others

MakeHome(c) ==
    /\ command[c].pc = "make"
    /\ InDest(LAMBDA d : d)
    /\ Step(c, "lock")
    /\ Others

\* The lock file is made, and locked unless another daemon holds it.
TakeLock(c) ==
    /\ command[c].pc = "lock"
    /\ at' = [at EXCEPT ![Dest].files = TRUE, ![Dest].daemon = IF @ = None THEN c ELSE @]
    /\ Step(c, IF at[Dest].daemon = None THEN "check" ELSE "idle")
    /\ Others

\* A legacy daemon that is found makes the start give its lock back.
CheckLegacy(c) ==
    /\ command[c].pc = "check"
    /\ IF \E h \in Standard : Exists(h) /\ at[h].legacy
       THEN /\ at' = [at EXCEPT ![Dest] = [@ EXCEPT !.daemon = None]]
            /\ Step(c, "idle")
       ELSE /\ Step(c, "run")
            /\ UNCHANGED at
    /\ Others

\* The running daemon writes its state.
Store(c) ==
    /\ command[c].pc = "run"
    /\ at[Dest].data = {}
    /\ InDest(LAMBDA d : [d EXCEPT !.data = {Fresh}])
    /\ UNCHANGED command /\ Others

Stop(c) ==
    /\ command[c].pc = "run"
    /\ at' = [at EXCEPT ![Dest] = [@ EXCEPT !.daemon = None]]
    /\ Step(c, "idle")
    /\ Others

-----------------------------------------------------------------------------
(* Legacy daemons and failures *)

\* A legacy daemon makes its directory when there is none.  The name is free
\* only once the move that freed it is on the disk.
LegacyStart(h) ==
    /\ IF Exists(h)
       THEN /\ ~at[h].legacy
            /\ at' = [at EXCEPT ![h] = [@ EXCEPT !.legacy = TRUE]]
       ELSE /\ unsynced # h
            /\ \E n \in Copies :
                  /\ \A p \in Places : Exists(p) => <<h, n>> \notin at[p].data
                  /\ at' = [at EXCEPT ![h] = [LegacyDir(h, n) EXCEPT !.legacy = TRUE]]
    /\ UNCHANGED <<unsynced, migration, run, reported, found>> /\ Untouched

LegacyStop(p) ==
    /\ Exists(p)
    /\ at[p].legacy
    /\ at' = [at EXCEPT ![p] = [@ EXCEPT !.legacy = FALSE]]
    /\ UNCHANGED <<unsynced, migration, run, reported, found>> /\ Untouched

\* The file system writes a move back without being asked.
WriteBack ==
    /\ unsynced # None
    /\ unsynced' = None
    /\ UNCHANGED <<at, migration, run, reported, found>> /\ Untouched

\* A migration is killed, or a call of it fails: either way it ends where it is.
KillRun(m) ==
    /\ run[m].pc # "idle"
    /\ kills < MaxKills
    /\ kills' = kills + 1
    /\ Refuse(m)
    /\ UNCHANGED <<at, unsynced, command, reused, outages>>

KillCommand(c) ==
    /\ command[c].pc # "idle"
    /\ command' = [command EXCEPT ![c] = IdleCommand]
    /\ at' = IF Exists(Dest) /\ at[Dest].daemon = c
             THEN [at EXCEPT ![Dest] = [@ EXCEPT !.daemon = None]] ELSE at
    /\ Others

\* A directory after the power has failed and some of its changes are lost
AfterLoss(d, lost) ==
    LET gone == d.soft \cap lost IN
    [d EXCEPT !.pending = IF "pending" \in gone THEN None
                          ELSE IF "removal" \in gone THEN d.final ELSE @,
              !.final = IF "final" \in gone THEN None ELSE @,
              !.soft = {}, !.daemon = None, !.legacy = FALSE]

Unmoved == [at EXCEPT ![unsynced] = at[Dest], ![Dest] = None]

\* The changes that are not yet durable
Unsynced == {change \in {"pending", "final", "removal"} :
                \E p \in Places : Exists(p) /\ change \in at[p].soft}
            \cup IF unsynced = None THEN {} ELSE {"move"}

\* What was found before counts no longer once a migration has been killed:
\* neither finding the manifest nor the recovery syncs what holds the directory.
PowerFails(lost) ==
    /\ outages < MaxOutages
    /\ outages' = outages + 1
    /\ LET disk == IF unsynced # None /\ "move" \in lost THEN Unmoved ELSE at IN
       at' = [p \in Places |-> IF disk[p] = None THEN None ELSE AfterLoss(disk[p], lost)]
    /\ unsynced' = None /\ migration' = None
    /\ run' = [m \in Migrators |-> IdleRun]
    /\ command' = [c \in Commands |-> IdleCommand]
    /\ found' = IF kills = 0 THEN found ELSE {}
    /\ UNCHANGED <<reported, reused, kills>>

Next ==
    \/ \E m \in Migrators : \E req \in Homes \cup {None} : Begin(m, req)
    \/ \E m \in Migrators : Migrate(m) \/ KillRun(m)
    \/ \E c \in Commands : \/ Load(c) \/ Log(c) \/ Save(c) \/ MakeHome(c) \/ TakeLock(c)
                           \/ CheckLegacy(c) \/ Store(c) \/ Stop(c) \/ KillCommand(c)
    \/ \E h \in Installed : LegacyStart(h)
    \/ \E p \in Places : LegacyStop(p)
    \/ WriteBack
    \/ \E lost \in SUBSET Unsynced : PowerFails(lost)

Spec == Init /\ [][Next]_vars

\* A step of a migration that has begun is always taken, and the user runs
\* the command again as long as an interrupted migration is there.
LiveSpec == /\ Spec
            /\ \A m \in Migrators : WF_vars(Migrate(m))
            /\ WF_vars(\E m \in Migrators : Begin(m, None))

-----------------------------------------------------------------------------
(* Properties *)

DirType == [data : SUBSET Origins, config : SUBSET Origins,
            pending : Homes \cup {None}, final : Homes \cup {None},
            soft : SUBSET {"pending", "final", "removal"},
            daemon : Commands \cup {None}, files : BOOLEAN, legacy : BOOLEAN]

\* A path without a directory is not mistaken for one.
ASSUME NoDirectory == None \notin DirType

RunType == [pc : {"idle", "look", "vacant", "choose", "pending", "sync_pending", "rename",
                  "sync_move", "final", "sync_final", "remove", "report"},
            req : Homes \cup {None}, src : Homes \cup {None}, moved : BOOLEAN]

CommandType == [pc : {"idle", "log", "save", "make", "lock", "check", "run"},
                save : BOOLEAN, daemon : BOOLEAN]

\* Every variable has its type: a migration past the choice of its source has
\* one, and only the holder of the migration lock is under way.
TypeOK ==
    /\ at \in [Places -> DirType \cup {None}]
    /\ unsynced \in Homes \cup {None}
    /\ run \in [Migrators -> RunType]
    /\ \A m \in Migrators : run[m].pc \in {"pending", "sync_pending", "rename", "final"}
                               => run[m].src \in Homes
    /\ \A m \in Migrators : run[m].pc # "idle" => migration = m
    /\ command \in [Commands -> CommandType]
    /\ reported \subseteq Homes /\ found \subseteq Homes /\ reused \subseteq Homes
    /\ kills \in 0..MaxKills /\ outages \in 0..MaxOutages

\* Whatever kills and power failures interrupt a migration, data that has left
\* its home is at the destination beside a manifest that names that home, and
\* a final manifest names the home the data came from.  The one exception is a
\* home moved with a manifest that an earlier run, killed before it synced it,
\* had left: a migration that is not killed leaves no such home.
MoveIsOnRecord ==
    /\ Exists(Dest) =>
          /\ \A h \in Homes \ reused : \A n \in Copies :
                <<h, n>> \in at[Dest].data => h \in {at[Dest].pending, at[Dest].final}
          /\ at[Dest].final # None => at[Dest].data \in {{<<at[Dest].final, n>>} : n \in Copies}
    /\ kills = 0 => reused = {}

\* What a migration has reported stays true: a move it made is on record at the
\* destination whatever is killed and whenever the power fails later, and so is
\* one it found or recovered, but for a power failure after a migration was killed.
ReportStands ==
    LET told == reported \cup found IN told # {} => Exists(Dest) /\ told = {at[Dest].final}

\* A daemon that runs, or is about to, holds the lock of the directory that is
\* at the destination: no migration replaces it and no second daemon of this
\* program runs.  (A legacy daemon may start after it has probed for one.)
DaemonOwnsHome ==
    \A c \in Commands : command[c].pc \in {"check", "run"} =>
        Exists(Dest) /\ at[Dest].daemon = c

\* One migration at a time, every move on record, and no daemon loses its home.
StorageInv == TypeOK /\ MoveIsOnRecord /\ DaemonOwnsHome

\* What is on the disk for certain
Durable == IF unsynced = None THEN at ELSE Unmoved
DurableContents == [p \in Places |-> IF Durable[p] = None THEN {} ELSE Durable[p].data]
DurableRecord ==
    LET d == Durable[Dest]
    IN IF d = None THEN {} ELSE IF "final" \in d.soft THEN {} ELSE {d.final} \ {None}

Abstract == INSTANCE StorageMove WITH contents <- DurableContents, recorded <- DurableRecord

\* The migration moves a home as a whole, into a destination without data, and
\* records it once: nothing is merged, lost or moved twice (StorageMove).
MovesAsAWhole == Abstract!MoveSpec

Interrupted == Exists(Dest) /\ at[Dest].pending # None /\ at[Dest].final = None

\* An interrupted migration is completed by running the command again, unless a
\* legacy daemon makes the source anew or a power failure undoes the move or
\* takes the manifest.
InterruptedCompletes == Interrupted ~> (Interrupted => Exists(at[Dest].pending))
=============================================================================
