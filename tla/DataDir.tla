------------------------------ MODULE DataDir ------------------------------
(***************************************************************************)
(* The files of a node's data directory: the lock, the network metadata,   *)
(* the wallet key and the block log, as Node::open creates, migrates and   *)
(* reads them.  Several processes (a node, the desktop wallet, a command   *)
(* line tool) may open the same directory; any of them may be killed at    *)
(* any step, a write or a sync may fail, and the machine may lose power,   *)
(* which loses or tears whatever was written and not yet synced.           *)
(*                                                                         *)
(* A key is a positive integer; the legacy key is the shared development   *)
(* key of older releases.  The log is the set of keys its blocks pay: it   *)
(* is empty exactly when the file is missing or has no bytes.              *)
(***************************************************************************)
EXTENDS Naturals, FiniteSets

CONSTANTS
    Processes,    \* processes that open this directory
    RandomKeys,   \* keys random_wallet_signing_key can draw, positive integers
    MaxCrashes    \* bound on kills and power losses

NoKey == 0         \* no wallet key file
LegacyKey == 1     \* insecure_dev_wallet_signing_key
TornKey == 2       \* a key file of the wrong length
NoProcess == "none"

(* An absent or torn key file holds none of the keys that can be drawn.    *)
KeysAssumption == NoKey \notin RandomKeys /\ TornKey \notin RandomKeys
ProcessesAssumption == NoProcess \notin Processes

Metadata == {"absent", "torn", "legacy", "current"}
Steps == {"off", "metadata", "key", "key_write", "key_sync", "replay",
          "meta_create", "meta_write", "meta_sync", "open_log", "running"}

VARIABLES
    holder,    \* the process whose DataDirLock is alive
    meta,      \* network.meta
    key,       \* the wallet key file
    log,       \* the keys the blocks of the log pay
    dirty,     \* files with bytes that no sync_all has covered
    step,      \* each process's step in Node::open
    seen,      \* the MetadataState its load_metadata returned
    wallet,    \* its wallet_signing_key
    opened,    \* what its last Node::open returned
    crashes,   \* kills and power losses so far
    hit        \* how crashes and errors struck bytes that were not synced

dirVars == <<holder, meta, key, log, dirty, step, seen, wallet, opened, crashes, hit>>

dirLocal == <<step, seen, wallet, opened>>

(***************************************************************************)
(* A directory this release has never opened: empty, or left by a release  *)
(* that wrote metadata without the wallet flag and mined to the legacy key.*)
(***************************************************************************)
DirInit ==
    /\ holder = NoProcess
    /\ \/ meta = "absent" /\ log = {}
       \/ meta = "legacy" /\ log \in {{}, {LegacyKey}}
    /\ key = NoKey /\ dirty = {}
    /\ step = [p \in Processes |-> "off"]
    /\ seen = [p \in Processes |-> "absent"]
    /\ wallet = [p \in Processes |-> NoKey]
    /\ opened = [p \in Processes |-> "none"]
    /\ crashes = 0 /\ hit = {}

\* Node::open returns an error: the lock guard and the handles are dropped.
OpenFails(p, error) ==
    /\ opened' = [opened EXCEPT ![p] = error]
    /\ step' = [step EXCEPT ![p] = "off"]
    /\ seen' = [seen EXCEPT ![p] = "absent"]
    /\ wallet' = [wallet EXCEPT ![p] = NoKey]
    /\ holder' = NoProcess
    /\ UNCHANGED <<meta, key, log, dirty, crashes>>

Refuse(p, error) == OpenFails(p, error) /\ UNCHANGED hit

Goto(p, next) == step' = [step EXCEPT ![p] = next]

\* Mutant of StepAfter: the metadata is written before the key.
StepAfterMetadataFirst(p, done) ==
    CASE done = "metadata" -> IF seen'[p] = "current" THEN "key" ELSE "meta_create"
      [] done = "meta" -> "key"
      [] done = "key" -> "replay"
      [] done = "replay" -> "open_log"

\* The order of the steps of Node::open.
StepAfter(p, done) ==
    CASE done = "metadata" -> "key"
      [] done = "key" -> "replay"
      [] done = "replay" -> IF seen[p] = "current" THEN "open_log" ELSE "meta_create"
      [] done = "meta" -> "open_log"

\* Mutant of LockFree: the lock is taken to be advisory and not tried.
LockFreeUnchecked(p) == p \in Processes

\* FileExt::try_lock_exclusive succeeds.
LockFree(p) == holder = NoProcess

\* DataDirLock::acquire: the exclusive lock, or DataDirLocked.
Acquire(p) ==
    /\ step[p] = "off"
    /\ IF LockFree(p)
       THEN /\ holder' = p
            /\ Goto(p, "metadata")
            /\ opened' = [opened EXCEPT ![p] = "none"]
       ELSE /\ opened' = [opened EXCEPT ![p] = "DataDirLocked"]
            /\ UNCHANGED <<holder, step>>
    /\ UNCHANGED <<meta, key, log, dirty, seen, wallet, crashes, hit>>

\* load_metadata: a torn file is refused, and so is a log without metadata.
LoadMetadata(p) ==
    /\ step[p] = "metadata"
    /\ \/ meta = "torn" /\ Refuse(p, "InvalidMetadata")
       \/ meta = "absent" /\ log # {} /\ Refuse(p, "MissingMetadata")
       \/ /\ meta \in {"legacy", "current"} \/ (meta = "absent" /\ log = {})
          /\ seen' = [seen EXCEPT ![p] = meta]
          /\ Goto(p, StepAfter(p, "metadata"))
          /\ UNCHANGED <<holder, meta, key, log, dirty, wallet, opened, crashes, hit>>

\* Mutant of LegacyDirectory: a migrated directory gets a new key as well.
LegacyDirectoryNever(p) == FALSE

\* The directory's outputs are locked to the legacy key.
LegacyDirectory(p) == seen[p] = "legacy" /\ log # {}

\* The keys write_wallet_key may be given.
NewKey(p) == IF LegacyDirectory(p) THEN {LegacyKey} ELSE RandomKeys

\* load_or_create_wallet_key, up to the creation of the file.
LoadOrCreateKey(p) ==
    /\ step[p] = "key"
    /\ \/ key = TornKey /\ Refuse(p, "InvalidWalletKey")
       \/ key = NoKey /\ seen[p] = "current" /\ Refuse(p, "InvalidWalletKey")
       \/ /\ key \notin {NoKey, TornKey}
          /\ wallet' = [wallet EXCEPT ![p] = key]
          /\ Goto(p, StepAfter(p, "key"))
          /\ UNCHANGED <<holder, meta, key, log, dirty, seen, opened, crashes, hit>>
       \/ /\ key = NoKey /\ seen[p] # "current"
          /\ \E k \in NewKey(p) : wallet' = [wallet EXCEPT ![p] = k]
          /\ key' = TornKey                      \* create_new: an empty file
          /\ dirty' = dirty \cup {"key"}
          /\ Goto(p, "key_write")
          /\ UNCHANGED <<holder, meta, log, seen, opened, crashes, hit>>

\* write_wallet_key: write_all, then sync_all.
WriteKey(p) ==
    /\ step[p] = "key_write"
    /\ key' = wallet[p]
    /\ Goto(p, "key_sync")
    /\ UNCHANGED <<holder, meta, log, dirty, seen, wallet, opened, crashes, hit>>

SyncKey(p) ==
    /\ step[p] = "key_sync"
    /\ dirty' = dirty \ {"key"}
    /\ Goto(p, StepAfter(p, "key"))
    /\ UNCHANGED <<holder, meta, key, log, seen, wallet, opened, crashes, hit>>

\* replay_log (module Node) and the test of whether metadata must be written.
Replay(p) ==
    /\ step[p] = "replay"
    /\ Goto(p, StepAfter(p, "replay"))
    /\ UNCHANGED <<holder, meta, key, log, dirty, seen, wallet, opened, crashes, hit>>

\* write_metadata: create the file, or open the legacy one at its flags.
OpenMetadata(p) ==
    /\ step[p] = "meta_create"
    /\ meta' = IF seen[p] = "legacy" THEN meta ELSE "torn"
    /\ dirty' = dirty \cup {IF seen[p] = "legacy" THEN "flag" ELSE "meta"}
    /\ Goto(p, "meta_write")
    /\ UNCHANGED <<holder, key, log, seen, wallet, opened, crashes, hit>>

WriteMetadata(p) ==
    /\ step[p] = "meta_write"
    /\ meta' = "current"
    /\ Goto(p, "meta_sync")
    /\ UNCHANGED <<holder, key, log, dirty, seen, wallet, opened, crashes, hit>>

SyncMetadata(p) ==
    /\ step[p] = "meta_sync"
    /\ dirty' = dirty \ {"meta", "flag"}
    /\ Goto(p, StepAfter(p, "meta"))
    /\ UNCHANGED <<holder, meta, key, log, seen, wallet, opened, crashes, hit>>

\* The log is created if it is missing, and the node is returned.
OpenLog(p) ==
    /\ step[p] = "open_log"
    /\ Goto(p, "running")
    /\ opened' = [opened EXCEPT ![p] = "Ok"]
    /\ UNCHANGED <<holder, meta, key, log, dirty, seen, wallet, crashes, hit>>

\* append_record: a mined block pays this node's wallet; sync_data follows
\* before the block is accepted.
AppendRecord(p) ==
    /\ step[p] = "running"
    /\ log' = log \cup {wallet[p]}
    /\ UNCHANGED <<holder, meta, key, dirty, crashes, hit, dirLocal>>

\* The process stops: the lock file is closed.
Leave(p) ==
    /\ step' = [step EXCEPT ![p] = "off"]
    /\ seen' = [seen EXCEPT ![p] = "absent"]
    /\ wallet' = [wallet EXCEPT ![p] = NoKey]
    /\ holder' = IF holder = p THEN NoProcess ELSE holder

Close(p) ==
    /\ step[p] = "running"
    /\ Leave(p)
    /\ UNCHANGED <<meta, key, log, dirty, opened, crashes, hit>>

\* The unsynced files that process p itself is writing.
Writing(p) ==
    CASE step[p] \in {"key_write", "key_sync"} -> {"key"}
      [] step[p] \in {"meta_write", "meta_sync"} -> {"meta", "flag"}
      [] OTHER -> {}

\* write_all or sync_all of the key or of the metadata returns an error: the file
\* keeps what it got (all of it where the sync failed), nobody removes it.
StorageError(p) ==
    /\ Writing(p) # {}
    /\ OpenFails(p, "Io")
    /\ hit' = hit \cup {"error"}

\* The process is killed: the files stay as they were written.
Kill(p) ==
    /\ step[p] # "off" /\ crashes < MaxCrashes
    /\ Leave(p)
    /\ crashes' = crashes + 1
    /\ hit' = IF Writing(p) = {} THEN hit ELSE hit \cup {"kill"}
    /\ UNCHANGED <<meta, key, log, dirty, opened>>

\* What a power loss leaves of a file with unsynced bytes.
KeyAfterLoss == IF "key" \in dirty THEN {NoKey, TornKey, key} ELSE {key}
MetaAfterLoss ==
    CASE "meta" \in dirty -> {"absent", "torn", meta}
      [] "flag" \in dirty -> {"legacy", meta}
      [] OTHER -> {meta}

\* Unsynced bytes that a killed or failed process left behind and a later open read.
Orphans == dirty \ UNION {Writing(p) : p \in Processes}

PowerLoss ==
    /\ crashes < MaxCrashes /\ \E p \in Processes : step[p] # "off"
    /\ key' \in KeyAfterLoss
    /\ meta' \in MetaAfterLoss
    /\ dirty' = {}
    /\ holder' = NoProcess
    /\ step' = [p \in Processes |-> "off"]
    /\ seen' = [p \in Processes |-> "absent"]
    /\ wallet' = [p \in Processes |-> NoKey]
    /\ crashes' = crashes + 1
    /\ hit' = hit \cup (IF dirty = {} THEN {} ELSE {"power"})
                    \cup (IF Orphans = {} THEN {} ELSE {"orphan"})
    /\ UNCHANGED <<log, opened>>

Open(p) ==
    \/ Acquire(p) \/ LoadMetadata(p) \/ LoadOrCreateKey(p) \/ WriteKey(p)
    \/ SyncKey(p) \/ Replay(p) \/ OpenMetadata(p) \/ WriteMetadata(p)
    \/ SyncMetadata(p) \/ OpenLog(p)

DirNext ==
    \/ \E p \in Processes :
          Open(p) \/ StorageError(p) \/ AppendRecord(p) \/ Close(p) \/ Kill(p)
    \/ PowerLoss

DirSpec == DirInit /\ [][DirNext]_dirVars

-----------------------------------------------------------------------------
\* Every file and every process is in one of its states, and two processes
\* are never past DataDirLock::acquire together.
DirTypeOK ==
    /\ holder \in Processes \cup {NoProcess}
    /\ meta \in Metadata
    /\ key \in {NoKey, LegacyKey, TornKey} \cup RandomKeys
    /\ log \subseteq {LegacyKey} \cup RandomKeys
    /\ dirty \subseteq {"key", "meta", "flag"}
    /\ hit \subseteq {"kill", "error", "power", "orphan"}
    /\ step \in [Processes -> Steps]
    /\ \A p, q \in Processes : step[p] # "off" /\ step[q] # "off" => p = q

\* No test output is stranded: whatever crashed, restarted or migrated before,
\* a node that opens the directory holds the key that every block of its log
\* pays (the comment on the wallet view: an upgrade cannot strand outputs).
\* The exception is a power loss that takes bytes which a killed process, or one
\* whose sync failed, left unsynced: load_or_create_wallet_key reads them and does not sync them.
KeepsOutputs ==
    \A p \in Processes :
        step[p] = "running" /\ "orphan" \notin hit => log \subseteq {wallet[p]}

\* Current metadata promises a wallet key: load_or_create_wallet_key treats its
\* absence as damage, so write_wallet_key has to finish before write_metadata
\* sets the flag; the same exception applies.
CurrentHasKey ==
    meta = "current" /\ "orphan" \notin hit => key \in {LegacyKey} \cup RandomKeys

\* An open fails for a locked directory, for an error of a write, or because a crash
\* or such an error struck inside the creation of the key or of the metadata; never in any other history, and never
\* for a log whose metadata is missing.
RefusalsExplained ==
    \A p \in Processes :
        /\ opened[p] = "MissingMetadata" => "orphan" \in hit
        /\ opened[p] \in {"InvalidMetadata", "InvalidWalletKey"} => hit # {}

\* What Node::open promises about the directory: no stranded output, no metadata
\* without its key, no refusal without a cause.
DirectorySound == KeepsOutputs /\ CurrentHasKey /\ RefusalsExplained
=============================================================================
