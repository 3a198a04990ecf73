---------------------------- MODULE StateProofs -----------------------------
(***************************************************************************)
(* Proofs about three components that are state machines on their own,     *)
(* each for any values of its constants: the data directory (module        *)
(* DataDir), the standalone miner (module Miner) and one peer connection   *)
(* (module PeerSession).                                                   *)
(*                                                                         *)
(* DataDir. Only the process that holds the lock writes, so what it        *)
(* learned when it loaded the metadata and the key still stands at its     *)
(* later steps (ProcessInv). Through every crash that spares other         *)
(* processes' unsynced bytes, current metadata stands beside the one key   *)
(* that the log pays, and a log under other metadata is the legacy one     *)
(* (FilesInv).                                                             *)
(*                                                                         *)
(* Miner. A job is counted at most once because the coordinator counts on  *)
(* leaving it: while a job is under way it is counted neither as found nor *)
(* as stale, and its block, which an earlier lost answer may have landed,  *)
(* is not yet among those that blocks_found stands for.                    *)
(*                                                                         *)
(* PeerSession. While no field was changed on its way, what has arrived at *)
(* an end and is not decoded is a word of whole frames of the other end's  *)
(* and then the written part of its last one (FlowInv), so that the next   *)
(* frame decoded is one that was sent; its sequence number is the number   *)
(* of messages that have surfaced, so that it is the next one sent.        *)
(***************************************************************************)
EXTENDS DataDir, Miner, PeerSession, FiniteSums, FiniteSetTheorems, SequenceTheorems, TLAPS

Keys == {LegacyKey} \cup RandomKeys

(* Steps of Node::open after load_metadata and before the metadata is      *)
(* written, steps that write the metadata, and steps with a key in hand.   *)
Loaded == {"key", "key_write", "key_sync", "replay", "meta_create"}
Marking == {"meta_write", "meta_sync"}
Keyed == {"key_sync", "replay", "meta_create", "meta_write", "meta_sync", "open_log", "running"}

TypeInv ==
    /\ holder \in Processes \cup {NoProcess}
    /\ meta \in Metadata
    /\ key \in {NoKey, TornKey} \cup Keys
    /\ log \subseteq Keys
    /\ dirty \subseteq {"key", "meta", "flag"}
    /\ hit \subseteq {"kill", "power", "orphan", "error"}
    /\ step \in [Processes -> Steps]
    /\ seen \in [Processes -> Metadata]
    /\ wallet \in [Processes -> {NoKey} \cup Keys]
    /\ DOMAIN opened = Processes

(* What process p found and wrote is what the files hold.                  *)
FoundInv(p) ==
    /\ step[p] \in Loaded => seen[p] = meta /\ meta # "torn"
    /\ step[p] \in {"key_write", "key_sync", "meta_create"} \cup Marking
         => seen[p] \in {"absent", "legacy"}
    /\ step[p] = "meta_write" => meta = IF seen[p] = "legacy" THEN "legacy" ELSE "torn"
    /\ step[p] \in {"meta_sync", "open_log", "running"} => meta = "current"
    /\ step[p] \in Loaded \cup Marking /\ seen[p] = "absent" => log = {}

WroteInv(p) ==
    /\ step[p] = "key_write" => wallet[p] \in Keys /\ key = TornKey /\ "key" \in dirty
    /\ step[p] \in Keyed => wallet[p] = key /\ key \in Keys
    /\ step[p] = "meta_write" /\ seen[p] # "legacy" => "meta" \in dirty
    /\ step[p] \in Marking /\ "meta" \in dirty => seen[p] = "absent"

ProcessInv ==
    \A p \in Processes : /\ holder = p <=> step[p] # "off"
                         /\ FoundInv(p) /\ WroteInv(p)

(* A log under metadata without the wallet flag was mined to the legacy    *)
(* key, and so is the key being written beside it.                         *)
LegacyLog ==
    /\ meta = "legacy" /\ log = {LegacyKey} /\ key \in {NoKey, TornKey, LegacyKey}
    /\ \A p \in Processes : step[p] = "key_write" => wallet[p] = LegacyKey

FilesInv ==
    /\ "meta" \in dirty => meta \in {"torn", "current"}
    /\ "orphan" \notin hit =>
          /\ meta = "current" => key \in Keys /\ log \subseteq {key}
          /\ meta # "current" => log = {} \/ LegacyLog
          /\ \A p \in Processes :
                step[p] = "meta_sync" /\ seen[p] = "legacy" => log \subseteq {LegacyKey}

(* A torn file is being written, or a crash struck its writer.             *)
TornInv ==
    /\ key = TornKey => hit # {} \/ \E p \in Processes : step[p] = "key_write"
    /\ meta = "torn" => hit # {} \/ \E p \in Processes : step[p] = "meta_write"

DirectoryInv == TypeInv /\ ProcessInv /\ FilesInv /\ TornInv /\ RefusalsExplained

-----------------------------------------------------------------------------
(* The lock: a process past it is alone.                                   *)
LEMMA Alone ==
    ASSUME ProcessInv, NEW p \in Processes, step[p] # "off"
    PROVE  holder = p /\ \A q \in Processes : q # p => step[q] = "off"
  BY DEF ProcessInv

(* A step of Node::open that fails leaves the files alone and lets go of   *)
(* the lock.                                                               *)
LEMMA OpenFailsStep ==
    ASSUME DirectoryInv, ProcessesAssumption, NEW p \in Processes, NEW e, OpenFails(p, e),
           step[p] # "off", hit' \in {hit, hit \cup {"error"}},
           step[p] \in {"key_write", "meta_write"} => hit' # {},
           e = "MissingMetadata" => "orphan" \in hit,
           e \in {"InvalidMetadata", "InvalidWalletKey"} => hit # {}
    PROVE  DirectoryInv'
  <1> USE DEF DirectoryInv
  <1>0. holder = p /\ \A q \in Processes : q # p => step[q] = "off"
    BY Alone
  <1>1. TypeInv'
    BY DEF TypeInv, OpenFails, Steps, Metadata
  <1>2. \A q \in Processes : step'[q] = "off"
    BY <1>0 DEF TypeInv, OpenFails
  <1>3. ProcessInv'
    BY <1>2, ProcessesAssumption
       DEF ProcessInv, OpenFails, FoundInv, WroteInv, Loaded, Marking, Keyed, ProcessesAssumption
  <1>4. FilesInv'
    BY <1>2 DEF FilesInv, LegacyLog, OpenFails
  <1>5. TornInv'
    BY <1>0 DEF TornInv, OpenFails
  <1>6. RefusalsExplained'
    BY DEF RefusalsExplained, OpenFails, TypeInv
  <1>7. QED
    BY <1>1, <1>3, <1>4, <1>5, <1>6

LEMMA RefuseStep ==
    ASSUME DirectoryInv, ProcessesAssumption, NEW p \in Processes, NEW e, Refuse(p, e),
           step[p] \in {"metadata", "key"},
           e = "MissingMetadata" => "orphan" \in hit,
           e \in {"InvalidMetadata", "InvalidWalletKey"} => hit # {}
    PROVE  DirectoryInv'
  BY OpenFailsStep DEF Refuse

(* A write or a sync of the key or of the metadata that fails.             *)
LEMMA StorageErrorStep ==
    ASSUME DirectoryInv, ProcessesAssumption, NEW p \in Processes, StorageError(p)
    PROVE  DirectoryInv'
  <1>1. /\ step[p] # "off" /\ OpenFails(p, "Io")
        /\ hit' = hit \cup {"error"}
    BY DEF StorageError, Writing
  <1>2. hit' \in {hit, hit \cup {"error"}} /\ hit' # {}
    BY <1>1
  <1>3. QED
    BY <1>1, <1>2, OpenFailsStep

LEMMA AcquireStep ==
    ASSUME DirectoryInv, ProcessesAssumption, NEW p \in Processes, Acquire(p)
    PROVE  DirectoryInv'
  <1> USE DEF DirectoryInv, Acquire, Goto
  <1>1. TypeInv'
    BY DEF TypeInv, Steps
  <1>2. ProcessInv'
    BY ProcessesAssumption DEF ProcessInv, LockFree, FoundInv, WroteInv, Loaded, Marking, Keyed,
       ProcessesAssumption, TypeInv
  <1>3. FilesInv'
    BY DEF FilesInv, LegacyLog, TypeInv
  <1>4. TornInv'
    BY DEF TornInv, TypeInv
  <1>5. RefusalsExplained'
    BY DEF RefusalsExplained, TypeInv
  <1>6. QED
    BY <1>1, <1>2, <1>3, <1>4, <1>5

LEMMA LoadMetadataStep ==
    ASSUME DirectoryInv, ProcessesAssumption, NEW p \in Processes, LoadMetadata(p)
    PROVE  DirectoryInv'
  <1> USE DEF DirectoryInv
  <1>0. holder = p /\ \A q \in Processes : q # p => step[q] = "off"
    BY Alone DEF LoadMetadata
  <1>1. CASE meta = "torn" /\ Refuse(p, "InvalidMetadata")
    <2>1. hit # {}
      BY <1>0, <1>1 DEF TornInv, LoadMetadata
    <2>2. QED
      BY <1>1, <2>1, RefuseStep DEF LoadMetadata
  <1>2. CASE meta = "absent" /\ log # {} /\ Refuse(p, "MissingMetadata")
    <2>1. "orphan" \in hit
      BY <1>2 DEF FilesInv, LegacyLog
    <2>2. QED
      BY <1>2, <2>1, RefuseStep DEF LoadMetadata
  <1>3. CASE /\ meta \in {"legacy", "current"} \/ (meta = "absent" /\ log = {})
             /\ seen' = [seen EXCEPT ![p] = meta]
             /\ Goto(p, StepAfter(p, "metadata"))
             /\ UNCHANGED <<holder, meta, key, log, dirty, wallet, opened, crashes, hit>>
    <2>1. step' = [step EXCEPT ![p] = "key"]
      BY <1>3 DEF Goto, StepAfter
    <2>2. TypeInv'
      BY <1>3, <2>1 DEF TypeInv, Steps
    <2>3. ProcessInv'
      BY <1>0, <1>3, <2>1 DEF ProcessInv, FoundInv, WroteInv, Loaded, Marking, Keyed, TypeInv
    <2>4. FilesInv'
      BY <1>3, <2>1 DEF FilesInv, LegacyLog, TypeInv
    <2>5. TornInv'
      BY <1>0, <1>3, <2>1 DEF TornInv, TypeInv, LoadMetadata
    <2>6. RefusalsExplained'
      BY <1>3 DEF RefusalsExplained
    <2>7. QED
      BY <2>2, <2>3, <2>4, <2>5, <2>6
  <1>4. QED
    BY <1>1, <1>2, <1>3 DEF LoadMetadata

(* The key file gets its bytes.                                            *)
LEMMA WriteKeyStep ==
    ASSUME DirectoryInv, KeysAssumption, NEW p \in Processes, WriteKey(p)
    PROVE  DirectoryInv'
  <1> USE DEF DirectoryInv, WriteKey
  <1>0. holder = p /\ \A q \in Processes : q # p => step[q] = "off"
    BY Alone
  <1>p. step' = [step EXCEPT ![p] = "key_sync"]
    BY DEF Goto, StepAfter, WriteKey
  <1>1. TypeInv'
    BY <1>p, KeysAssumption DEF TypeInv, Steps, Goto, Metadata, dirLocal, ProcessInv, WroteInv, Keyed
  <1>2. ProcessInv'
    BY <1>0, <1>p, KeysAssumption DEF ProcessInv, FoundInv, WroteInv, Loaded, Marking, Keyed, TypeInv, Goto,
       Metadata, dirLocal
  <1>3. FilesInv'
    BY <1>0, <1>p, KeysAssumption DEF FilesInv, LegacyLog, TypeInv, Goto, ProcessInv, FoundInv, WroteInv, Loaded,
       Marking, Keyed, Keys, KeysAssumption, NoKey, TornKey, LegacyKey, dirLocal
  <1>4. TornInv'
    BY <1>0, <1>p, KeysAssumption DEF TornInv, TypeInv, Goto, ProcessInv, WroteInv, Keys, KeysAssumption,
       NoKey, TornKey, LegacyKey, dirLocal
  <1>5. RefusalsExplained'
    BY DEF RefusalsExplained, TypeInv, dirLocal
  <1>6. QED
    BY <1>1, <1>2, <1>3, <1>4, <1>5

(* The key file is durable.                                                *)
LEMMA SyncKeyStep ==
    ASSUME DirectoryInv, KeysAssumption, NEW p \in Processes, SyncKey(p)
    PROVE  DirectoryInv'
  <1> USE DEF DirectoryInv, SyncKey
  <1>0. holder = p /\ \A q \in Processes : q # p => step[q] = "off"
    BY Alone
  <1>p. step' = [step EXCEPT ![p] = "replay"]
    BY DEF Goto, StepAfter, SyncKey
  <1>1. TypeInv'
    BY <1>p, KeysAssumption DEF TypeInv, Steps, Goto, Metadata, dirLocal, ProcessInv, WroteInv, Keyed
  <1>2. ProcessInv'
    BY <1>0, <1>p, KeysAssumption DEF ProcessInv, FoundInv, WroteInv, Loaded, Marking, Keyed, TypeInv, Goto,
       Metadata, dirLocal
  <1>3. FilesInv'
    BY <1>0, <1>p, KeysAssumption DEF FilesInv, LegacyLog, TypeInv, Goto, ProcessInv, FoundInv, WroteInv, Loaded,
       Marking, Keyed, Keys, KeysAssumption, NoKey, TornKey, LegacyKey, dirLocal
  <1>4. TornInv'
    BY <1>0, <1>p, KeysAssumption DEF TornInv, TypeInv, Goto, ProcessInv, WroteInv, Keys, KeysAssumption,
       NoKey, TornKey, LegacyKey, dirLocal
  <1>5. RefusalsExplained'
    BY DEF RefusalsExplained, TypeInv, dirLocal
  <1>6. QED
    BY <1>1, <1>2, <1>3, <1>4, <1>5

(* The log is replayed.                                                    *)
LEMMA ReplayStep ==
    ASSUME DirectoryInv, KeysAssumption, NEW p \in Processes, Replay(p)
    PROVE  DirectoryInv'
  <1> USE DEF DirectoryInv, Replay
  <1>0. holder = p /\ \A q \in Processes : q # p => step[q] = "off"
    BY Alone
  <1>p. step' = [step EXCEPT ![p] = IF seen[p] = "current" THEN "open_log" ELSE "meta_create"]
    BY DEF Goto, StepAfter, Replay
  <1>1. TypeInv'
    BY <1>p, KeysAssumption DEF TypeInv, Steps, Goto, Metadata, dirLocal, ProcessInv, WroteInv, Keyed
  <1>2. ProcessInv'
    BY <1>0, <1>p, KeysAssumption DEF ProcessInv, FoundInv, WroteInv, Loaded, Marking, Keyed, TypeInv, Goto,
       Metadata, dirLocal
  <1>3. FilesInv'
    BY <1>0, <1>p, KeysAssumption DEF FilesInv, LegacyLog, TypeInv, Goto, ProcessInv, FoundInv, WroteInv, Loaded,
       Marking, Keyed, Keys, KeysAssumption, NoKey, TornKey, LegacyKey, dirLocal
  <1>4. TornInv'
    BY <1>0, <1>p, KeysAssumption DEF TornInv, TypeInv, Goto, ProcessInv, WroteInv, Keys, KeysAssumption,
       NoKey, TornKey, LegacyKey, dirLocal
  <1>5. RefusalsExplained'
    BY DEF RefusalsExplained, TypeInv, dirLocal
  <1>6. QED
    BY <1>1, <1>2, <1>3, <1>4, <1>5

(* The metadata file is created, or the legacy one opened at its flags.    *)
LEMMA OpenMetadataStep ==
    ASSUME DirectoryInv, KeysAssumption, NEW p \in Processes, OpenMetadata(p)
    PROVE  DirectoryInv'
  <1> USE DEF DirectoryInv, OpenMetadata
  <1>0. holder = p /\ \A q \in Processes : q # p => step[q] = "off"
    BY Alone
  <1>p. step' = [step EXCEPT ![p] = "meta_write"]
    BY DEF Goto, StepAfter, OpenMetadata
  <1>1. TypeInv'
    BY <1>p, KeysAssumption DEF TypeInv, Steps, Goto, Metadata, dirLocal, ProcessInv, WroteInv, Keyed
  <1>2. ProcessInv'
    BY <1>0, <1>p, KeysAssumption DEF ProcessInv, FoundInv, WroteInv, Loaded, Marking, Keyed, TypeInv, Goto,
       Metadata, FilesInv
  <1>3. FilesInv'
    BY <1>0, <1>p, KeysAssumption DEF FilesInv, LegacyLog, TypeInv, Goto, ProcessInv, FoundInv, WroteInv, Loaded,
       Marking, Keyed, Keys, KeysAssumption, NoKey, TornKey, LegacyKey, dirLocal
  <1>4. TornInv'
    BY <1>0, <1>p, KeysAssumption DEF TornInv, TypeInv, Goto, ProcessInv, WroteInv, Keys, KeysAssumption,
       NoKey, TornKey, LegacyKey, dirLocal
  <1>5. RefusalsExplained'
    BY DEF RefusalsExplained, TypeInv, dirLocal
  <1>6. QED
    BY <1>1, <1>2, <1>3, <1>4, <1>5

(* The metadata says that the wallet key exists.                           *)
LEMMA WriteMetadataStep ==
    ASSUME DirectoryInv, KeysAssumption, NEW p \in Processes, WriteMetadata(p)
    PROVE  DirectoryInv'
  <1> USE DEF DirectoryInv, WriteMetadata
  <1>0. holder = p /\ \A q \in Processes : q # p => step[q] = "off"
    BY Alone
  <1>p. step' = [step EXCEPT ![p] = "meta_sync"]
    BY DEF Goto, StepAfter, WriteMetadata
  <1>1. TypeInv'
    BY <1>p, KeysAssumption DEF TypeInv, Steps, Goto, Metadata, dirLocal, ProcessInv, WroteInv, Keyed
  <1>2. ProcessInv'
    BY <1>0, <1>p, KeysAssumption DEF ProcessInv, FoundInv, WroteInv, Loaded, Marking, Keyed, TypeInv, Goto,
       Metadata, dirLocal
  <1>3. FilesInv'
    BY <1>0, <1>p, KeysAssumption DEF FilesInv, LegacyLog, TypeInv, Goto, ProcessInv, FoundInv, WroteInv, Loaded,
       Marking, Keyed, Keys, KeysAssumption, NoKey, TornKey, LegacyKey, dirLocal
  <1>4. TornInv'
    BY <1>0, <1>p, KeysAssumption DEF TornInv, TypeInv, Goto, ProcessInv, WroteInv, Keys, KeysAssumption,
       NoKey, TornKey, LegacyKey, dirLocal
  <1>5. RefusalsExplained'
    BY DEF RefusalsExplained, TypeInv, dirLocal
  <1>6. QED
    BY <1>1, <1>2, <1>3, <1>4, <1>5

(* The metadata is durable.                                                *)
LEMMA SyncMetadataStep ==
    ASSUME DirectoryInv, KeysAssumption, NEW p \in Processes, SyncMetadata(p)
    PROVE  DirectoryInv'
  <1> USE DEF DirectoryInv, SyncMetadata
  <1>0. holder = p /\ \A q \in Processes : q # p => step[q] = "off"
    BY Alone
  <1>p. step' = [step EXCEPT ![p] = "open_log"]
    BY DEF Goto, StepAfter, SyncMetadata
  <1>1. TypeInv'
    BY <1>p, KeysAssumption DEF TypeInv, Steps, Goto, Metadata, dirLocal, ProcessInv, WroteInv, Keyed
  <1>2. ProcessInv'
    BY <1>0, <1>p, KeysAssumption DEF ProcessInv, FoundInv, WroteInv, Loaded, Marking, Keyed, TypeInv, Goto,
       Metadata, dirLocal
  <1>3. FilesInv'
    BY <1>0, <1>p, KeysAssumption DEF FilesInv, LegacyLog, TypeInv, Goto, ProcessInv, FoundInv, WroteInv, Loaded,
       Marking, Keyed, Keys, KeysAssumption, NoKey, TornKey, LegacyKey, dirLocal
  <1>4. TornInv'
    BY <1>0, <1>p, KeysAssumption DEF TornInv, TypeInv, Goto, ProcessInv, WroteInv, Keys, KeysAssumption,
       NoKey, TornKey, LegacyKey, dirLocal
  <1>5. RefusalsExplained'
    BY DEF RefusalsExplained, TypeInv, dirLocal
  <1>6. QED
    BY <1>1, <1>2, <1>3, <1>4, <1>5

(* Node::open returns the node.                                            *)
LEMMA OpenLogStep ==
    ASSUME DirectoryInv, KeysAssumption, NEW p \in Processes, OpenLog(p)
    PROVE  DirectoryInv'
  <1> USE DEF DirectoryInv, OpenLog
  <1>0. holder = p /\ \A q \in Processes : q # p => step[q] = "off"
    BY Alone
  <1>p. step' = [step EXCEPT ![p] = "running"]
    BY DEF Goto, StepAfter, OpenLog
  <1>1. TypeInv'
    BY <1>p, KeysAssumption DEF TypeInv, Steps, Goto, Metadata, dirLocal, ProcessInv, WroteInv, Keyed
  <1>2. ProcessInv'
    BY <1>0, <1>p, KeysAssumption DEF ProcessInv, FoundInv, WroteInv, Loaded, Marking, Keyed, TypeInv, Goto,
       Metadata, dirLocal
  <1>3. FilesInv'
    BY <1>0, <1>p, KeysAssumption DEF FilesInv, LegacyLog, TypeInv, Goto, ProcessInv, FoundInv, WroteInv, Loaded,
       Marking, Keyed, Keys, KeysAssumption, NoKey, TornKey, LegacyKey, dirLocal
  <1>4. TornInv'
    BY <1>0, <1>p, KeysAssumption DEF TornInv, TypeInv, Goto, ProcessInv, WroteInv, Keys, KeysAssumption,
       NoKey, TornKey, LegacyKey, dirLocal
  <1>5. RefusalsExplained'
    BY DEF RefusalsExplained, TypeInv, dirLocal
  <1>6. QED
    BY <1>1, <1>2, <1>3, <1>4, <1>5

(* A mined block pays the node's key.                                      *)
LEMMA AppendStep ==
    ASSUME DirectoryInv, KeysAssumption, NEW p \in Processes, AppendRecord(p)
    PROVE  DirectoryInv'
  <1> USE DEF DirectoryInv, AppendRecord
  <1>0. holder = p /\ \A q \in Processes : q # p => step[q] = "off"
    BY Alone
  <1>1. TypeInv'
    BY KeysAssumption DEF TypeInv, Steps, Goto, Metadata, dirLocal, ProcessInv, WroteInv, Keyed
  <1>2. ProcessInv'
    BY <1>0, KeysAssumption DEF ProcessInv, FoundInv, WroteInv, Loaded, Marking, Keyed, TypeInv, Goto,
       Metadata, dirLocal
  <1>3. FilesInv'
    BY <1>0, KeysAssumption DEF FilesInv, LegacyLog, TypeInv, Goto, ProcessInv, FoundInv, WroteInv, Loaded,
       Marking, Keyed, Keys, KeysAssumption, NoKey, TornKey, LegacyKey, dirLocal
  <1>4. TornInv'
    BY <1>0, KeysAssumption DEF TornInv, TypeInv, Goto, ProcessInv, WroteInv, Keys, KeysAssumption,
       NoKey, TornKey, LegacyKey, dirLocal
  <1>5. RefusalsExplained'
    BY DEF RefusalsExplained, TypeInv, dirLocal
  <1>6. QED
    BY <1>1, <1>2, <1>3, <1>4, <1>5

(* The key file is read, or created empty with a key drawn for it: the     *)
(* legacy key where the log pays it.                                       *)
LEMMA LoadOrCreateKeyStep ==
    ASSUME DirectoryInv, KeysAssumption, ProcessesAssumption, NEW p \in Processes, LoadOrCreateKey(p)
    PROVE  DirectoryInv'
  <1> USE DEF DirectoryInv
  <1>0. step[p] = "key" /\ holder = p /\ \A q \in Processes : q # p => step[q] = "off"
    BY Alone DEF LoadOrCreateKey
  <1>1. CASE key = TornKey /\ Refuse(p, "InvalidWalletKey")
    <2>1. hit # {}
      BY <1>0, <1>1 DEF TornInv
    <2>2. QED
      BY <1>0, <1>1, <2>1, RefuseStep
  <1>2. CASE key = NoKey /\ seen[p] = "current" /\ Refuse(p, "InvalidWalletKey")
    <2>1. meta = "current" /\ key \notin Keys
      BY <1>0, <1>2, KeysAssumption
         DEF ProcessInv, FoundInv, Loaded, Keys, KeysAssumption, NoKey, LegacyKey
    <2>2. "orphan" \in hit
      BY <2>1 DEF FilesInv
    <2>3. QED
      BY <1>0, <1>2, <2>2, RefuseStep
  <1>3. CASE /\ key \notin {NoKey, TornKey}
             /\ wallet' = [wallet EXCEPT ![p] = key]
             /\ Goto(p, StepAfter(p, "key"))
             /\ UNCHANGED <<holder, meta, key, log, dirty, seen, opened, crashes, hit>>
    <2>1. step' = [step EXCEPT ![p] = "replay"]
      BY <1>3 DEF Goto, StepAfter
    <2>2. TypeInv'
      BY <1>3, <2>1 DEF TypeInv, Steps
    <2>3. ProcessInv'
      BY <1>0, <1>3, <2>1 DEF ProcessInv, FoundInv, WroteInv, Loaded, Marking, Keyed, TypeInv
    <2>4. FilesInv'
      BY <1>0, <1>3, <2>1 DEF FilesInv, LegacyLog, TypeInv
    <2>5. TornInv'
      BY <1>0, <1>3, <2>1 DEF TornInv, TypeInv
    <2>6. RefusalsExplained'
      BY <1>3 DEF RefusalsExplained
    <2>7. QED
      BY <2>2, <2>3, <2>4, <2>5, <2>6
  <1>4. ASSUME NEW k \in NewKey(p), key = NoKey, seen[p] # "current",
               wallet' = [wallet EXCEPT ![p] = k], key' = TornKey,
               dirty' = dirty \cup {"key"}, Goto(p, "key_write"),
               UNCHANGED <<holder, meta, log, seen, opened, crashes, hit>>
        PROVE  DirectoryInv'
    <2>1. k \in Keys /\ (meta = "legacy" /\ log # {} => k = LegacyKey)
      BY <1>0, <1>4 DEF NewKey, LegacyDirectory, Keys, ProcessInv, FoundInv, Loaded
    <2>2. step' = [step EXCEPT ![p] = "key_write"]
      BY <1>4 DEF Goto
    <2>3. TypeInv'
      BY <1>4, <2>1, <2>2 DEF TypeInv, Steps
    <2>4. ProcessInv'
      BY <1>0, <1>4, <2>1, <2>2
         DEF ProcessInv, FoundInv, WroteInv, Loaded, Marking, Keyed, TypeInv, Metadata
    <2>5. FilesInv'
      BY <1>0, <1>4, <2>1, <2>2
         DEF FilesInv, LegacyLog, TypeInv, ProcessInv, FoundInv, Loaded
    <2>6. TornInv'
      BY <1>0, <1>4, <2>2 DEF TornInv, TypeInv
    <2>7. RefusalsExplained'
      BY <1>4 DEF RefusalsExplained
    <2>8. QED
      BY <2>3, <2>4, <2>5, <2>6, <2>7
  <1>5. QED
    BY <1>1, <1>2, <1>3, <1>4 DEF LoadOrCreateKey

(* The process stops, by itself or killed, at whatever step it was: a file *)
(* it leaves torn counts as struck by the kill.                            *)
LEMMA LeaveStep ==
    ASSUME DirectoryInv, ProcessesAssumption, NEW p \in Processes, step[p] # "off", Leave(p),
           UNCHANGED <<meta, key, log, dirty, opened>>,
           hit' \in {hit, hit \cup {"kill"}},
           step[p] \in {"key_write", "meta_write"} => hit' # {}
    PROVE  DirectoryInv'
  <1> USE DEF DirectoryInv, Leave
  <1>0. holder = p /\ \A q \in Processes : q # p => step[q] = "off"
    BY Alone
  <1>1. TypeInv'
    BY DEF TypeInv, Steps, Metadata
  <1>2. \A q \in Processes : step'[q] = "off"
    BY <1>0 DEF TypeInv
  <1>3. ProcessInv'
    BY <1>0, <1>2, ProcessesAssumption
       DEF ProcessInv, FoundInv, WroteInv, Loaded, Marking, Keyed, ProcessesAssumption
  <1>4. FilesInv'
    BY <1>2 DEF FilesInv, LegacyLog
  <1>5. TornInv'
    BY <1>0 DEF TornInv
  <1>6. RefusalsExplained'
    BY DEF RefusalsExplained
  <1>7. QED
    BY <1>1, <1>3, <1>4, <1>5, <1>6

(* What a power loss may find unsynced without an orphan among it: what    *)
(* the one process past the lock is writing.                               *)
LEMMA OwnWrites ==
    ASSUME DirectoryInv, NEW p \in Processes, step[p] # "off", Orphans = {}
    PROVE  dirty \subseteq Writing(p)
  <1>0. \A q \in Processes : q # p => step[q] = "off"
    BY Alone DEF DirectoryInv
  <1>1. \A q \in Processes : q # p => Writing(q) = {}
    BY <1>0 DEF Writing
  <1>2. UNION {Writing(q) : q \in Processes} \subseteq Writing(p)
    BY <1>1
  <1>3. QED
    BY <1>2 DEF Orphans

(* A power loss that takes no orphaned bytes leaves key, metadata and log  *)
(* in agreement.                                                           *)
LEMMA PowerLossKeepsFiles ==
    ASSUME DirectoryInv, KeysAssumption, PowerLoss, "orphan" \notin hit'
    PROVE  /\ meta' = "current" => key' \in Keys /\ log \subseteq {key'}
           /\ meta' # "current" =>
                 \/ log = {}
                 \/ /\ meta' = "legacy" /\ log = {LegacyKey}
                    /\ key' \in {NoKey, TornKey, LegacyKey}
  <1> USE DEF DirectoryInv
  <1>1. PICK p \in Processes : step[p] # "off"
    BY DEF PowerLoss
  <1>2. "orphan" \notin hit /\ Orphans = {}
    BY DEF PowerLoss
  <1>3. dirty \subseteq Writing(p)
    BY <1>1, <1>2, OwnWrites
  <1>4. FilesInv /\ FoundInv(p) /\ WroteInv(p) /\ TypeInv
    BY DEF ProcessInv
  <1>5. CASE step[p] \in {"key_write", "key_sync"}
    <2>1. dirty \subseteq {"key"}
      BY <1>3, <1>5 DEF Writing
    <2>2. meta' = meta /\ meta # "current"
      BY <1>4, <1>5, <2>1 DEF PowerLoss, MetaAfterLoss, FoundInv, Loaded
    <2>3. key' \in {NoKey, TornKey, key}
      BY DEF PowerLoss, KeyAfterLoss
    <2>4. QED
      BY <1>2, <1>4, <2>2, <2>3 DEF FilesInv, LegacyLog
  <1>6. CASE step[p] \in Marking
    <2>1. dirty \subseteq {"meta", "flag"}
      BY <1>3, <1>6 DEF Writing, Marking
    <2>2. key' = key /\ key \in Keys
      BY <1>4, <1>6, <2>1 DEF PowerLoss, KeyAfterLoss, WroteInv, Marking, Keyed
    <2>3. CASE seen[p] = "absent"
      BY <1>4, <1>6, <2>2, <2>3 DEF FoundInv, Marking
    <2>4. CASE seen[p] # "absent"
      <3>1. "meta" \notin dirty
        BY <1>4, <1>6, <2>4 DEF WroteInv
      <3>2. seen[p] = "legacy"
        BY <1>4, <1>6, <2>4 DEF FoundInv, Marking, TypeInv, Metadata
      <3>3. meta' \in {"legacy", meta} /\ meta \in {"legacy", "current"}
        BY <1>4, <1>6, <3>1, <3>2 DEF PowerLoss, MetaAfterLoss, FoundInv, Marking
      <3>4. CASE meta = "legacy"
        BY <1>2, <1>4, <2>2, <3>3, <3>4 DEF FilesInv, LegacyLog
      <3>5. CASE meta = "current"
        <4>1. step[p] = "meta_sync"
          BY <1>4, <1>6, <3>2, <3>5 DEF FoundInv, Marking
        <4>2. log \subseteq {key} /\ log \subseteq {LegacyKey}
          BY <1>2, <1>4, <3>2, <3>5, <4>1 DEF FilesInv
        <4>3. log = {} \/ (log = {LegacyKey} /\ key = LegacyKey)
          BY <4>2
        <4>4. QED
          BY <2>2, <3>3, <4>2, <4>3
      <3>6. QED
        BY <3>3, <3>4, <3>5
    <2>5. QED
      BY <2>3, <2>4
  <1>7. CASE step[p] \notin {"key_write", "key_sync"} \cup Marking
    <2>1. dirty = {}
      BY <1>3, <1>7 DEF Writing, Marking
    <2>2. meta' = meta /\ key' = key
      BY <2>1 DEF PowerLoss, MetaAfterLoss, KeyAfterLoss
    <2>3. QED
      BY <1>2, <1>4, <2>2 DEF FilesInv, LegacyLog
  <1>8. QED
    BY <1>5, <1>6, <1>7

(* A power loss stops every process and may tear or take unsynced files.   *)
LEMMA PowerLossStep ==
    ASSUME DirectoryInv, KeysAssumption, ProcessesAssumption, PowerLoss
    PROVE  DirectoryInv'
  <1> USE DEF DirectoryInv
  <1>0. /\ key' \in {NoKey, TornKey, key} /\ (key' # key => dirty # {})
        /\ meta' \in {"absent", "torn", "legacy", meta} /\ (meta' # meta => dirty # {})
    BY DEF PowerLoss, KeyAfterLoss, MetaAfterLoss
  <1>1. TypeInv'
    BY <1>0 DEF PowerLoss, TypeInv, Steps, Metadata
  <1>2. ProcessInv'
    BY ProcessesAssumption DEF PowerLoss, ProcessInv, FoundInv, WroteInv, Loaded, Marking, Keyed,
       ProcessesAssumption
  <1>3. FilesInv'
    <2>1. \A q \in Processes : step'[q] = "off"
      BY DEF PowerLoss
    <2>2. dirty' = {} /\ log' = log
      BY DEF PowerLoss
    <2>3. QED
      BY <2>1, <2>2, PowerLossKeepsFiles DEF FilesInv, LegacyLog
  <1>4. TornInv'
    <2>1. dirty # {} => hit' # {}
      BY DEF PowerLoss
    <2>2. dirty = {} => \A q \in Processes : step[q] # "key_write"
      BY DEF ProcessInv, WroteInv
    <2>3. dirty = {} /\ meta = "torn" => \A q \in Processes : step[q] # "meta_write"
      BY DEF ProcessInv, WroteInv, FoundInv
    <2>4. hit \subseteq hit'
      BY DEF PowerLoss
    <2>5. QED
      BY <1>0, <2>1, <2>2, <2>3, <2>4 DEF TornInv
  <1>5. RefusalsExplained'
    <2>1. hit \subseteq hit' /\ opened' = opened
      BY DEF PowerLoss
    <2>2. QED
      BY <2>1 DEF RefusalsExplained
  <1>6. QED
    BY <1>1, <1>2, <1>3, <1>4, <1>5

-----------------------------------------------------------------------------
(* The inductive invariant of the data directory.                          *)
THEOREM DirectoryInvariant ==
    ASSUME KeysAssumption, ProcessesAssumption
    PROVE  DirSpec => []DirectoryInv
  <1>1. DirInit => DirectoryInv
    <2> SUFFICES ASSUME DirInit PROVE DirectoryInv
      OBVIOUS
    <2>1. TypeInv
      BY DEF DirInit, TypeInv, Metadata, Steps, Keys
    <2>2. ProcessInv
      BY ProcessesAssumption DEF DirInit, ProcessInv, FoundInv, WroteInv, Loaded, Marking, Keyed,
         ProcessesAssumption
    <2>3. FilesInv /\ TornInv
      BY DEF DirInit, FilesInv, LegacyLog, TornInv, NoKey, TornKey
    <2>4. RefusalsExplained
      BY DEF DirInit, RefusalsExplained
    <2>5. QED
      BY <2>1, <2>2, <2>3, <2>4 DEF DirectoryInv
  <1>2. DirectoryInv /\ [DirNext]_dirVars => DirectoryInv'
    <2> SUFFICES ASSUME DirectoryInv, [DirNext]_dirVars PROVE DirectoryInv'
      OBVIOUS
    <2>1. ASSUME NEW p \in Processes, Open(p)
          PROVE  DirectoryInv'
      BY <2>1, KeysAssumption, ProcessesAssumption, AcquireStep, LoadMetadataStep,
         LoadOrCreateKeyStep, WriteKeyStep, SyncKeyStep, ReplayStep, OpenMetadataStep,
         WriteMetadataStep, SyncMetadataStep, OpenLogStep DEF Open
    <2>2. ASSUME NEW p \in Processes, AppendRecord(p)
          PROVE  DirectoryInv'
      BY <2>2, KeysAssumption, AppendStep
    <2>3. ASSUME NEW p \in Processes, Close(p)
          PROVE  DirectoryInv'
      BY <2>3, ProcessesAssumption, LeaveStep DEF Close
    <2>4. ASSUME NEW p \in Processes, Kill(p)
          PROVE  DirectoryInv'
      <3>1. step[p] \in {"key_write", "meta_write"} => hit' # {}
        BY <2>4 DEF Kill, Writing
      <3>2. hit' \in {hit, hit \cup {"kill"}}
        BY <2>4 DEF Kill
      <3>3. QED
        BY <2>4, <3>1, <3>2, ProcessesAssumption, LeaveStep DEF Kill
    <2>5. CASE PowerLoss
      BY <2>5, KeysAssumption, ProcessesAssumption, PowerLossStep
    <2>6. ASSUME NEW p \in Processes, StorageError(p)
          PROVE  DirectoryInv'
      BY <2>6, ProcessesAssumption, StorageErrorStep
    <2>7. CASE UNCHANGED dirVars
      BY <2>7 DEF dirVars, DirectoryInv, TypeInv, ProcessInv, FoundInv, WroteInv, FilesInv, LegacyLog,
         TornInv, RefusalsExplained
    <2>8. QED
      BY <2>1, <2>2, <2>3, <2>4, <2>5, <2>6, <2>7 DEF DirNext
  <1>3. QED
    BY <1>1, <1>2, PTL DEF DirSpec

(* Every file and every process is in one of its states, and no two        *)
(* processes are past DataDirLock::acquire together.                       *)
THEOREM DirectoryTypes ==
    ASSUME KeysAssumption, ProcessesAssumption
    PROVE  DirSpec => []DirTypeOK
  <1>1. DirectoryInv => DirTypeOK
    BY DEF DirectoryInv, TypeInv, ProcessInv, DirTypeOK, Keys
  <1>2. QED
    BY <1>1, DirectoryInvariant, PTL

(* Through every history of opens, kills and power losses: a node that     *)
(* runs holds the key that every block of its log pays, current metadata   *)
(* stands beside a whole key, both unless a power loss took bytes that a   *)
(* killed process left unsynced, and Node::open refuses only a locked      *)
(* directory or one whose files a crash struck while they were written.    *)
THEOREM DirectoryKept ==
    ASSUME KeysAssumption, ProcessesAssumption
    PROVE  DirSpec => []DirectorySound
  <1>1. DirectoryInv => DirectorySound
    <2> SUFFICES ASSUME DirectoryInv PROVE DirectorySound
      OBVIOUS
    <2> USE DEF DirectoryInv
    <2>1. KeepsOutputs
      BY DEF KeepsOutputs, ProcessInv, FoundInv, WroteInv, FilesInv, Keyed
    <2>2. CurrentHasKey
      BY DEF CurrentHasKey, FilesInv, Keys
    <2>3. QED
      BY <2>1, <2>2 DEF DirectorySound
  <1>2. QED
    BY <1>1, DirectoryInvariant, PTL
-----------------------------------------------------------------------------
Messages == {"Ready", "Progress", "Found", "Failed"}
InJob == {"monitor", "check", "join", "submit", "answer", "retry"}

(* The node knows blocks of jobs that were begun, and its tip, if it is    *)
(* one of them, has landed.                                                *)
JobInv ==
    /\ pc = "join" => outcome # "none"
    /\ indexed \subseteq 1..job
    /\ tip_job # 0 => tip_job \in landed

(* Blocks that may have been counted: not the one of the job under way.    *)
Countable == IF pc \in InJob THEN landed \ {job} ELSE landed

CountInv ==
    /\ blocks_found + stale_jobs <= job
    /\ pc \in InJob => blocks_found + stale_jobs < job
    /\ blocks_found <= Cardinality(Countable)

MinerInv == MinerTypeOK /\ JobInv /\ CountInv

-----------------------------------------------------------------------------
LEMMA CapacityType ==
    ASSUME MinerAssumption
    PROVE  Capacity \in Nat /\ Capacity >= 4
  <1> DEFINE c == 4 * Cardinality(Devices)
             S == {4, c}
  <1>1. c \in Nat
    BY FS_CardinalityType DEF MinerAssumption
  <1>2. \E x \in S : \A y \in S : x >= y
    <2>1. CASE c >= 4
      BY <1>1, <2>1
    <2>2. CASE ~ (c >= 4)
      BY <1>1, <2>2
    <2>3. QED
      BY <2>1, <2>2
  <1>3. Capacity \in S /\ \A y \in S : Capacity >= y
    BY <1>2 DEF Capacity, Max
  <1>4. QED
    BY <1>1, <1>3

(* The set of landed blocks is finite, so it can be counted.               *)
LEMMA LandedFinite ==
    ASSUME MinerAssumption, MinerTypeOK
    PROVE  IsFiniteSet(landed)
  <1>1. IsFiniteSet(1..MaxJobs)
    BY FS_Interval DEF MinerAssumption
  <1>2. landed \in SUBSET (1..MaxJobs)
    BY DEF MinerTypeOK
  <1>3. QED
    BY <1>1, <1>2, FS_Subset

(* A worker moves between its states and may send one message if there is  *)
(* room.                                                                   *)
LEMMA WorkerKeepsInv ==
    ASSUME MinerAssumption, MinerInv, NEW d \in Devices, WorkerStep(d)
    PROVE  MinerInv'
  <1> USE DEF MinerInv
  <1>1. Capacity \in Nat
    BY CapacityType
  <1>2. /\ worker[d] # "done"
        /\ UNCHANGED <<pc, outcome, job, parent, shutdown, blocks_found, stale_jobs, node>>
        /\ cancel' \in BOOLEAN
        /\ \/ UNCHANGED queue
           \/ Room /\ \E m \in Messages : queue' = Append(queue, m)
        /\ \E next \in {"start", "ready", "search", "batch", "found", "failing", "failed", "done"} :
              worker' = [worker EXCEPT ![d] = next]
    BY DEF WorkerStep, StartDevice, BlockingSend, SearchTop, BatchExhausted, BatchFound, BatchFails,
       CancelOthers, WorkerGoes, MinerTypeOK, Messages
  <1>3. pc \in {"monitor", "check", "join"}
    BY <1>2 DEF MinerTypeOK, AllDone
  <1>4. queue' \in Seq(Messages) /\ Len(queue') <= Capacity
    <2>1. queue \in Seq(Messages) /\ Len(queue) <= Capacity
      BY DEF MinerTypeOK, Messages
    <2>2. CASE UNCHANGED queue
      BY <2>1, <2>2
    <2>3. ASSUME NEW m \in Messages, Room, queue' = Append(queue, m)
          PROVE  queue' \in Seq(Messages) /\ Len(queue') <= Capacity
      BY <1>1, <2>1, <2>3, AppendProperties DEF Room
    <2>4. QED
      BY <1>2, <2>2, <2>3
  <1>5. MinerTypeOK'
    BY <1>2, <1>3, <1>4 DEF MinerTypeOK, node, Messages
  <1>6. JobInv' /\ CountInv'
    BY <1>2 DEF JobInv, CountInv, Countable, node
  <1>7. QED
    BY <1>5, <1>6

(* A step of the coordinator that only moves it, within a job or out of    *)
(* one, and at most takes a message off the channel.                       *)
LEMMA MoveKeepsInv ==
    ASSUME MinerAssumption, MinerInv,
           pc' \in {"template", "monitor", "check", "join", "submit", "answer", "retry",
                    "stopped", "failed"},
           pc' \in InJob => pc \in InJob,
           pc' \notin {"monitor", "check", "join"} => AllDone /\ queue' = <<>>,
           outcome' \in {"none", "Found", "Stale", "Disconnected", "Shutdown", "Failed"},
           pc' = "join" => outcome' # "none",
           queue' = queue \/ queue' = <<>> \/ (queue # <<>> /\ queue' = Tail(queue)),
           cancel' \in BOOLEAN, shutdown' \in BOOLEAN,
           UNCHANGED <<job, parent, worker, blocks_found, stale_jobs, node>>
    PROVE  MinerInv'
  <1> USE DEF MinerInv
  <1>1. queue' \in Seq(Messages) /\ Len(queue') <= Capacity
    <2>1. queue \in Seq(Messages) /\ Len(queue) <= Capacity
      BY DEF MinerTypeOK, Messages
    <2>2. CASE queue' = <<>>
      BY <2>2, CapacityType, EmptySeq
    <2>3. CASE queue # <<>> /\ queue' = Tail(queue)
      BY <2>1, <2>3, CapacityType, HeadTailProperties
    <2>4. QED
      BY <2>1, <2>2, <2>3
  <1>2. MinerTypeOK'
    BY <1>1 DEF MinerTypeOK, node, Messages, AllDone
  <1>3. JobInv'
    BY DEF JobInv, node
  <1>4. Cardinality(Countable) <= Cardinality(Countable')
    <2>1. IsFiniteSet(landed) /\ landed' = landed /\ job' = job
      BY LandedFinite DEF node
    <2>2. IsFiniteSet(landed \ {job})
      BY <2>1, FS_RemoveElement
    <2>3. Cardinality(landed) \in Nat /\ Cardinality(landed \ {job}) \in Nat
      BY <2>1, <2>2, FS_CardinalityType
    <2>4. Cardinality(landed \ {job}) <= Cardinality(landed)
      BY <2>1, FS_Subset
    <2>5. QED
      BY <2>1, <2>3, <2>4 DEF Countable
  <1>5. CountInv'
    <2>1. Cardinality(Countable) \in Nat /\ Cardinality(Countable') \in Nat
      <3>1. IsFiniteSet(landed) /\ IsFiniteSet(landed \ {job}) /\ landed' = landed /\ job' = job
        BY LandedFinite, FS_RemoveElement DEF node
      <3>2. QED
        BY <3>1, FS_CardinalityType DEF Countable
    <2>2. QED
      BY <1>4, <2>1 DEF CountInv, MinerTypeOK
  <1>6. QED
    BY <1>2, <1>3, <1>5

(* A template begins a job, whose block cannot have landed yet.            *)
LEMMA FetchKeepsInv ==
    ASSUME MinerAssumption, MinerInv, FetchTemplate
    PROVE  MinerInv'
  <1> USE DEF MinerInv, FetchTemplate
  <1>1. MinerTypeOK'
    <2>1. job' \in 0..MaxJobs /\ parent' \in 0..MaxTip
      BY DEF MinerTypeOK, MinerAssumption
    <2>2. worker' \in [Devices -> {"start", "ready", "search", "batch", "found",
                                   "failing", "failed", "done"}]
      OBVIOUS
    <2>3. cancel' \in BOOLEAN /\ pc' = "monitor" /\ outcome' = "none"
      OBVIOUS
    <2>4. UNCHANGED <<queue, shutdown, blocks_found, stale_jobs, reachable, tip, tip_job,
                      indexed, landed>>
      BY DEF node
    <2> HIDE DEF FetchTemplate
    <2>5. QED
      BY <2>1, <2>2, <2>3, <2>4 DEF MinerTypeOK
  <1>2. JobInv'
    BY DEF JobInv, MinerTypeOK, node
  <1>3. Countable' = Countable
    <2>1. job \in Nat /\ landed \subseteq 1..job /\ landed' = landed /\ job' = job + 1
      BY DEF MinerTypeOK, JobInv, node
    <2>2. landed \ {job + 1} = landed
      BY <2>1
    <2>3. QED
      BY <2>1, <2>2 DEF Countable, InJob
  <1>4. CountInv'
    BY <1>3 DEF CountInv, MinerTypeOK, InJob
  <1>5. QED
    BY <1>1, <1>2, <1>4

(* The job ends; a stale one is counted as such.                           *)
LEMMA JoinKeepsInv ==
    ASSUME MinerAssumption, MinerInv, Join
    PROVE  MinerInv'
  <1> USE DEF MinerInv, Join
  <1>1. /\ pc' \in {"submit", "template", "stopped", "failed"}
        /\ outcome = "Stale" => pc' = "template"
    BY DEF JobInv, MinerTypeOK, AfterJoin
  <1>2. MinerTypeOK'
    BY <1>1, CapacityType, EmptySeq DEF MinerTypeOK, node, AllDone
  <1>3. JobInv'
    BY <1>1 DEF JobInv, node
  <1>4. /\ Cardinality(Countable) \in Nat /\ Cardinality(Countable') \in Nat
        /\ Cardinality(Countable) <= Cardinality(Countable')
    <2>1. IsFiniteSet(landed) /\ landed' = landed /\ job' = job
      BY LandedFinite DEF node
    <2>2. IsFiniteSet(landed \ {job})
      BY <2>1, FS_RemoveElement
    <2>3. Cardinality(landed) \in Nat /\ Cardinality(landed \ {job}) \in Nat
      BY <2>1, <2>2, FS_CardinalityType
    <2>4. Cardinality(landed \ {job}) <= Cardinality(landed)
      BY <2>1, FS_Subset
    <2>5. QED
      BY <2>1, <2>3, <2>4 DEF Countable, InJob
  <1>5. CountInv'
    BY <1>1, <1>4 DEF CountInv, MinerTypeOK, InJob
  <1>6. QED
    BY <1>2, <1>3, <1>5

(* The node takes the block in, which leaves what is counted as it was.    *)
LEMMA SubmitKeepsInv ==
    ASSUME MinerAssumption, MinerInv, SubmitTaken
    PROVE  MinerInv'
  <1> USE DEF MinerInv, SubmitTaken
  <1>1. job \in 1..MaxJobs
    BY DEF MinerTypeOK, CountInv, InJob
  <1>2. MinerTypeOK'
    BY <1>1 DEF MinerTypeOK, NodeTakesBlock, AllDone, MinerAssumption
  <1>3. JobInv'
    BY <1>1 DEF JobInv, NodeTakesBlock, MinerTypeOK
  <1>4. Countable' = Countable
    BY DEF Countable, InJob, NodeTakesBlock
  <1>5. CountInv'
    BY <1>4 DEF CountInv, InJob
  <1>6. QED
    BY <1>2, <1>3, <1>5

(* The answer ends the job: its block is the tip and is counted, or the    *)
(* job is counted as stale.                                                *)
LEMMA AnswerKeepsInv ==
    ASSUME MinerAssumption, MinerInv, SubmitAnswered
    PROVE  MinerInv'
  <1> USE DEF MinerInv, SubmitAnswered
  <1>1. MinerTypeOK'
    BY DEF MinerTypeOK, node, AllDone
  <1>2. JobInv'
    BY DEF JobInv, node
  <1>3. IsFiniteSet(landed) /\ IsFiniteSet(landed \ {job})
    BY LandedFinite, FS_RemoveElement
  <1>4. /\ Cardinality(landed) \in Nat /\ Cardinality(landed \ {job}) \in Nat
        /\ Cardinality(landed \ {job})
             = IF job \in landed THEN Cardinality(landed) - 1 ELSE Cardinality(landed)
    BY <1>3, FS_CardinalityType, FS_RemoveElement
  <1>5. Countable = landed \ {job} /\ Countable' = landed
    BY DEF Countable, InJob, node
  <1>6. Acknowledges => job \in landed
    BY DEF Acknowledges, JobInv, CountInv, MinerTypeOK, InJob
  <1>7. CountInv'
    BY <1>4, <1>5, <1>6 DEF CountInv, MinerTypeOK, InJob
  <1>8. QED
    BY <1>1, <1>2, <1>7

(* The node's own life and the operator's Ctrl+C touch no count.           *)
LEMMA EnvironmentKeepsInv ==
    ASSUME MinerAssumption, MinerInv, CtrlC \/ OtherBlock \/ LinkChanges
    PROVE  MinerInv'
  <1> USE DEF MinerInv, CtrlC, OtherBlock, LinkChanges
  <1>1. MinerTypeOK'
    <2>1. CASE CtrlC
      BY <2>1 DEF MinerTypeOK, node, AllDone
    <2>2. CASE OtherBlock
      <3>1. tip' \in 0..MaxTip /\ tip_job' \in 0..MaxJobs
        BY <2>2 DEF MinerTypeOK, MinerAssumption
      <3>2. QED
        BY <2>2, <3>1 DEF MinerTypeOK, AllDone
    <2>3. CASE LinkChanges
      <3>1. reachable' \in BOOLEAN
        BY <2>3
      <3>2. UNCHANGED <<pc, outcome, job, parent, worker, queue, cancel, shutdown,
                        blocks_found, stale_jobs, tip, tip_job, indexed, landed>>
        BY <2>3
      <3> HIDE DEF LinkChanges
      <3>3. QED
        BY <3>1, <3>2 DEF MinerTypeOK, AllDone
    <2>4. QED
      BY <2>1, <2>2, <2>3
  <1>2. JobInv'
    BY DEF JobInv, node
  <1>3. CountInv'
    BY DEF CountInv, Countable, node
  <1>4. QED
    BY <1>1, <1>2, <1>3

-----------------------------------------------------------------------------
(* The inductive invariant of the thin miner.                              *)
THEOREM MinerInvariant ==
    ASSUME MinerAssumption
    PROVE  MinerSpec => []MinerInv
  <1>1. MinerInit => MinerInv
    <2> SUFFICES ASSUME MinerInit PROVE MinerInv
      OBVIOUS
    <2>1. MinerTypeOK
      <3>1. queue \in Seq({"Ready", "Progress", "Found", "Failed"}) /\ Len(queue) <= Capacity
        BY CapacityType, EmptySeq DEF MinerInit
      <3>2. cancel \in BOOLEAN /\ shutdown \in BOOLEAN /\ reachable \in BOOLEAN
        BY DEF MinerInit
      <3>3. /\ job \in 0..MaxJobs /\ parent \in 0..MaxTip /\ tip \in 0..MaxTip
            /\ tip_job \in 0..MaxJobs
        BY DEF MinerInit, MinerAssumption
      <3>4. /\ worker \in [Devices -> {"start", "ready", "search", "batch", "found",
                                        "failing", "failed", "done"}]
            /\ AllDone
        BY DEF MinerInit, AllDone
      <3>5. QED
        BY <3>1, <3>2, <3>3, <3>4 DEF MinerInit, MinerTypeOK
    <2>2. JobInv
      BY DEF MinerInit, JobInv
    <2>3. CountInv
      BY FS_EmptySet DEF MinerInit, CountInv, Countable, InJob
    <2>4. QED
      BY <2>1, <2>2, <2>3 DEF MinerInv
  <1>2. MinerInv /\ [MinerNext]_minerVars => MinerInv'
    <2> SUFFICES ASSUME MinerInv, [MinerNext]_minerVars PROVE MinerInv'
      OBVIOUS
    <2> USE DEF MinerInv
    <2>1. CASE FetchTemplate \/ Join \/ SubmitTaken \/ SubmitAnswered
      BY <2>1, FetchKeepsInv, JoinKeepsInv, SubmitKeepsInv, AnswerKeepsInv
    <2>2. CASE StopWaiting
      BY <2>2, MoveKeepsInv DEF StopWaiting, MinerTypeOK, InJob, AllDone
    <2>3. CASE MonitorShutdown
      BY <2>3, MoveKeepsInv DEF MonitorShutdown, MonitorReturns, MinerTypeOK, InJob
    <2>4. CASE MonitorReceives
      BY <2>4, MoveKeepsInv DEF MonitorReceives, MinerTypeOK, InJob
    <2>5. CASE MonitorFound
      BY <2>5, MoveKeepsInv DEF MonitorFound, MonitorReturns, MinerTypeOK, InJob
    <2>6. CASE MonitorFails
      BY <2>6, MoveKeepsInv DEF MonitorFails, MonitorReturns, MinerTypeOK, InJob
    <2>7. CASE CheckCurrent
      BY <2>7, MoveKeepsInv DEF CheckCurrent, MinerTypeOK, InJob
    <2>8. CASE CheckChanged
      BY <2>8, MoveKeepsInv DEF CheckChanged, MonitorReturns, MinerTypeOK, InJob
    <2>9. CASE SubmitLost
      BY <2>9, MoveKeepsInv DEF SubmitLost, MinerTypeOK, InJob
    <2>10. ASSUME NEW d \in Devices, WorkerStep(d)
           PROVE  MinerInv'
      BY <2>10, WorkerKeepsInv
    <2>11. CASE CtrlC \/ OtherBlock \/ LinkChanges
      BY <2>11, EnvironmentKeepsInv
    <2>12. CASE UNCHANGED minerVars
      BY <2>12 DEF minerVars, node, MinerTypeOK, AllDone, JobInv, CountInv, Countable
    <2>13. QED
      BY <2>1, <2>2, <2>3, <2>4, <2>5, <2>6, <2>7, <2>8, <2>9, <2>10, <2>11, <2>12
         DEF MinerNext, Coordinator
  <1>3. QED
    BY <1>1, <1>2, PTL DEF MinerSpec

(* BLOCK ACCEPTED is printed and counted only for a block that became a    *)
(* node's tip and once per job, through lost answers, resubmissions and    *)
(* whatever else the node's tip does (block_is_active_acknowledgement).    *)
THEOREM CountedLanded ==
    ASSUME MinerAssumption
    PROVE  MinerSpec => []CountedBlocksLanded
  <1>1. MinerInv => CountedBlocksLanded
    <2> SUFFICES ASSUME MinerInv PROVE CountedBlocksLanded
      OBVIOUS
    <2> USE DEF MinerInv
    <2>1. IsFiniteSet(landed)
      BY LandedFinite
    <2>2. /\ Cardinality(Countable) \in Nat /\ Cardinality(landed) \in Nat
          /\ Cardinality(Countable) <= Cardinality(landed)
      BY <2>1, FS_Subset, FS_CardinalityType DEF Countable
    <2>3. QED
      BY <2>2 DEF CountedBlocksLanded, CountInv, MinerTypeOK
  <1>2. QED
    BY <1>1, MinerInvariant, PTL

(* Every field keeps its type; the channel stays within its capacity, and  *)
(* is empty with every GPU thread joined outside mine_work.                *)
THEOREM MinerTypes ==
    ASSUME MinerAssumption
    PROVE  MinerSpec => []MinerTypeOK
  BY MinerInvariant, PTL DEF MinerInv
-----------------------------------------------------------------------------
(***************************************************************************)
(* PeerSession.                                                            *)
(***************************************************************************)

(* What decode_message can return, and the sessions there are.             *)
Readable == {DecodePayload(k, b, HelloNetwork(h)).val : k \in Nat, b \in Seq(Nat), h \in AllHellos}

Sessions == [local : AllHellos, remote : {<<>>} \cup {<<m.body>> : m \in Readable},
             helloSent : BOOLEAN, outSeq : Nat, inSeq : Nat, messages : Nat, bytes : Nat]

ConnectionTypes ==
    /\ SessionTypeOK
    /\ session \in [Endpoints -> Sessions]
    /\ outbox \in [Endpoints -> Seq(Nat)]
    /\ stream \in [Endpoints -> Seq(Nat)]
    /\ header \in [Endpoints -> Seq(Nat)]
    /\ sent \in [Endpoints -> Seq(Sendable)]
    /\ surfaced \in [Endpoints -> Seq(Readable)]
    /\ DOMAIN ended = Endpoints
    /\ faults \in [Endpoints -> SUBSET {"cell", "frame"}]
    /\ \A e \in Endpoints : header[e] # <<>> => Len(header[e]) = PeerHeaderCells

(* The counts of a session.  A frame that was charged and then met the end *)
(* of the total time was counted and never sent.                           *)
CountsInv(e) ==
    LET s == session[e]
    IN  /\ s.messages = s.outSeq + s.inSeq /\ s.messages <= MaxMessages /\ s.bytes <= MaxBytes
        /\ s.inSeq = Len(surfaced[e])
        /\ Len(sent[e]) <= s.outSeq
        /\ activity[e] # "closed" => Len(sent[e]) = s.outSeq

(* What an endpoint has sent, it could: its own hello first, and nothing   *)
(* else before the other's hello was here.                                 *)
SentInv(e) ==
    \A i \in 1..Len(sent[e]) :
        LET m == sent[e][i]
        IN  /\ EncodePeerFrame(0, m).ok
            /\ m.kind = Kinds.Hello => m.body = session[e].local
            /\ m.kind # Kinds.Hello => session[e].remote # <<>>

Compatible(mine, theirs) ==
    /\ HelloNetwork(mine) = HelloNetwork(theirs)
    /\ HelloFingerprint(mine) = HelloFingerprint(theirs)
    /\ HelloNonce(mine) # HelloNonce(theirs)

(* What an endpoint has heard, when no field was changed on the way.       *)
HeardInv(e) ==
    LET p == Other(e)
        s == session[e]
    IN  "cell" \notin faults[p] =>
        /\ Len(surfaced[e]) <= Len(sent[p])
        /\ \A i \in 1..Len(surfaced[e]) : surfaced[e][i] = sent[p][i]
        /\ s.remote # <<>> =>
             s.remote = <<session[p].local>> /\ Compatible(s.local, session[p].local)
        /\ \A i \in 1..Len(surfaced[e]) : surfaced[e][i].kind # Kinds.Hello => s.remote # <<>>
        /\ s.outSeq = Len(sent[e]) => s.bytes = FramesSize(sent[e]) + FramesSize(surfaced[e])

(* A word made of frames of F.                                             *)
Closed(F, S) == <<>> \in S /\ \A f \in F, v \in S : f \o v \in S
Whole(F, w) == w \in Seq(Nat) /\ \A S \in SUBSET Seq(Nat) : Closed(F, S) => w \in S

(* The frames p has produced.                                              *)
Frames(p) == {EncodePeerFrame(i - 1, sent[p][i]).val : i \in 1..Len(sent[p])}

(* Writer p has put g of its last frame on the stream.                     *)
PartWritten(p, g) ==
    /\ activity[p] = "writing" => IF faults[p] = {} THEN g \o outbox[p] \in Frames(p)
                                  ELSE g = <<>> /\ Whole(Frames(p), outbox[p])
    /\ activity[p] \in {"app", "reading"} => g = <<>>
    /\ g # <<>> => \E w \in Seq(Nat) : w # <<>> /\ g \o w \in Frames(p)
    /\ faults[p] = {} => (cut[p] <=> g # <<>>)

(* What has arrived and is not decoded is whole frames of the other end's, *)
(* and then the part of its last one that it has written.                  *)
FlowInv(e) ==
    LET p == Other(e)
    IN  activity[e] # "closed" /\ "cell" \notin faults[p] =>
        \E u, g \in Seq(Nat) : /\ header[e] \o stream[e] = u \o g
                               /\ Whole(Frames(p), u)
                               /\ PartWritten(p, g)

EndsInv(e) ==
    LET p == Other(e)
    IN  /\ activity[e] \in {"reading", "writing"} => now <= TotalTimeout
        /\ cut[e] => activity[e] \in {"writing", "closed"}
        /\ activity[e] = "writing" /\ ~cut[e] /\ faults[e] = {} => Len(outbox[e]) >= PeerHeaderCells
        /\ ended[e] = "PeerClosed" =>
             activity[p] = "closed" /\ (faults[p] = {} => ~cut[p])

ConnectionInv ==
    /\ ConnectionTypes
    /\ \A e \in Endpoints : /\ CountsInv(e) /\ SentInv(e) /\ HeardInv(e)
                            /\ FlowInv(e) /\ EndsInv(e)
-----------------------------------------------------------------------------
(* Sequences of cells.                                                     *)
LEMMA CellsSplit ==
  ASSUME NEW s \in Seq(Nat), NEW n \in 0..Len(s)
  PROVE  /\ SubSeq(s, 1, n) \in Seq(Nat) /\ Len(SubSeq(s, 1, n)) = n
         /\ SubSeq(s, n + 1, Len(s)) \in Seq(Nat)
         /\ Len(SubSeq(s, n + 1, Len(s))) = Len(s) - n
         /\ SubSeq(s, 1, n) \o SubSeq(s, n + 1, Len(s)) = s
<1>1. Len(s) \in Nat /\ \A i \in 1..Len(s) : s[i] \in Nat
  BY LenProperties, ElementOfSeq
<1>2. SubSeq(s, 1, n) \in Seq(Nat) /\ Len(SubSeq(s, 1, n)) = n
  BY <1>1, SubSeqProperties
<1>3. /\ SubSeq(s, n + 1, Len(s)) \in Seq(Nat)
      /\ Len(SubSeq(s, n + 1, Len(s))) = Len(s) - n
  BY <1>1, SubSeqProperties
<1>4. SubSeq(s, 1, n) \o SubSeq(s, n + 1, Len(s)) = SubSeq(s, 1, Len(s))
  <2>1. 1 \in 1..(Len(s) + 1) /\ n \in (1 - 1)..Len(s) /\ Len(s) \in n..Len(s)
    BY <1>1
  <2> QED
    BY <2>1, ConcatAdjacentSubSeq
<1>5. SubSeq(s, 1, Len(s)) = s
  BY SubSeqFull
<1> QED
  BY <1>2, <1>3, <1>4, <1>5

(* The front of a concatenation.                                           *)
LEMMA FrontOfConcat ==
  ASSUME NEW f \in Seq(Nat), NEW v \in Seq(Nat)
  PROVE  SubSeq(f \o v, 1, Len(f)) = f /\ SubSeq(f \o v, Len(f) + 1, Len(f \o v)) = v
<1>1. /\ f \o v \in Seq(Nat) /\ Len(f) \in Nat /\ Len(f \o v) \in Nat
      /\ Len(f) \in 0..Len(f \o v)
      /\ \A i \in 1..Len(f) : (f \o v)[i] = f[i]
  BY ConcatProperties, LenProperties
<1>2. /\ SubSeq(f \o v, 1, Len(f)) \in Seq(Nat) /\ Len(SubSeq(f \o v, 1, Len(f))) = Len(f)
      /\ SubSeq(f \o v, 1, Len(f)) \o SubSeq(f \o v, Len(f) + 1, Len(f \o v)) = f \o v
      /\ SubSeq(f \o v, Len(f) + 1, Len(f \o v)) \in Seq(Nat)
  BY <1>1, CellsSplit
<1>3. \A i \in 1..Len(f) : SubSeq(f \o v, 1, Len(f))[i] = (f \o v)[i]
  BY <1>1, SubSeqProperties, ElementOfSeq
<1>4. SubSeq(f \o v, 1, Len(f)) = f
  BY <1>1, <1>2, <1>3, SeqEqual
<1>5. SubSeq(f \o v, Len(f) + 1, Len(f \o v)) = v
  <2>1. f \o SubSeq(f \o v, Len(f) + 1, Len(f \o v)) = f \o v
    BY <1>2, <1>4
  <2>2. \A S : \A s, t, z \in Seq(S) : s \o t = s \o z => t = z
    BY ConcatSimplifications
  <2> QED
    BY <1>2, <2>1, <2>2
<1> QED
  BY <1>4, <1>5

(* Two words that begin alike.                                             *)
LEMMA ConcatFront ==
  ASSUME NEW f \in Seq(Nat), NEW v \in Seq(Nat), NEW h \in Seq(Nat), NEW s \in Seq(Nat),
         f \o v = h \o s, Len(f) = Len(h)
  PROVE  f = h /\ v = s
<1>1. SubSeq(f \o v, 1, Len(f)) = f /\ SubSeq(f \o v, Len(f) + 1, Len(f \o v)) = v
  BY FrontOfConcat
<1>2. SubSeq(h \o s, 1, Len(h)) = h /\ SubSeq(h \o s, Len(h) + 1, Len(h \o s)) = s
  BY FrontOfConcat
<1> QED
  BY <1>1, <1>2, Zenon

LEMMA CellsAssociate ==
  ASSUME NEW u \in Seq(Nat), NEW v \in Seq(Nat), NEW w \in Seq(Nat)
  PROVE  (u \o v) \o w = u \o (v \o w)
<1>1. \A S : \A s, t, r \in Seq(S) : (s \o t) \o r = s \o (t \o r)
  BY ConcatAssociative, ZenonT(40)
<1>2. \A s, t, r \in Seq(Nat) : (s \o t) \o r = s \o (t \o r)
  BY <1>1, SMTT(40)
<1> QED
  BY <1>2, SMTT(40)

LEMMA ConcatCells ==
  ASSUME NEW f \in Seq(Nat), NEW v \in Seq(Nat)
  PROVE  /\ f \o v \in Seq(Nat) /\ Len(f) \in Nat /\ Len(v) \in Nat
         /\ Len(f \o v) = Len(f) + Len(v)
         /\ \A i \in 1..Len(f) : (f \o v)[i] = f[i]
         /\ f \o v = <<>> <=> f = <<>> /\ v = <<>>
         /\ <<>> \in Seq(Nat) /\ <<>> \o v = v /\ f \o <<>> = f
         /\ f = <<>> <=> Len(f) = 0
<1>1. f = <<>> <=> Len(f) = 0
  BY EmptySeq, LenProperties
<1>2. /\ f \o v \in Seq(Nat) /\ Len(f) \in Nat /\ Len(v) \in Nat
      /\ Len(f \o v) = Len(f) + Len(v)
      /\ \A i \in 1..Len(f) : (f \o v)[i] = f[i]
  BY ConcatProperties, LenProperties
<1> QED
  BY <1>1, <1>2, ConcatEmptySeq, ConcatEqualIffEmpty, EmptySeq

-----------------------------------------------------------------------------
(* Words of frames.                                                        *)
LEMMA WholeEmpty ==
  ASSUME NEW F
  PROVE  Whole(F, <<>>)
BY EmptySeq DEF Whole, Closed

LEMMA WholePrepend ==
  ASSUME NEW F, F \subseteq Seq(Nat), NEW f \in F, NEW w, Whole(F, w)
  PROVE  Whole(F, f \o w)
<1>1. f \o w \in Seq(Nat)
  BY ConcatCells DEF Whole
<1>2. ASSUME NEW S \in SUBSET Seq(Nat), Closed(F, S) PROVE f \o w \in S
  <2>1. w \in S
    BY <1>2 DEF Whole
  <2> QED
    BY <2>1, <1>2 DEF Closed
<1> QED
  BY <1>1, <1>2 DEF Whole

LEMMA WholeOne ==
  ASSUME NEW F, F \subseteq Seq(Nat), NEW f \in F
  PROVE  Whole(F, f)
<1>1. f \o <<>> = f
  BY ConcatCells
<1> QED
  BY <1>1, WholeEmpty, WholePrepend

LEMMA WholeConcat ==
  ASSUME NEW F, F \subseteq Seq(Nat), NEW u, NEW w, Whole(F, u), Whole(F, w)
  PROVE  Whole(F, u \o w)
<1> DEFINE S == {v \in Seq(Nat) : Whole(F, v \o w)}
<1>1. w \in Seq(Nat) /\ u \in Seq(Nat)
  BY DEF Whole
<1>2. <<>> \in S
  BY <1>1, ConcatCells
<1>3. ASSUME NEW f \in F, NEW v \in S PROVE f \o v \in S
  <2>1. f \in Seq(Nat) /\ v \in Seq(Nat) /\ f \o v \in Seq(Nat)
    BY ConcatCells
  <2>2. Whole(F, f \o (v \o w))
    BY WholePrepend
  <2>3. (f \o v) \o w = f \o (v \o w)
    <3>1. f \in Seq(Nat) /\ v \in Seq(Nat) /\ w \in Seq(Nat)
      BY <1>1, <2>1
    <3> HIDE DEF S
    <3> QED
      BY <3>1, CellsAssociate, Zenon
  <2> QED
    BY <2>1, <2>2, <2>3
<1>4. Closed(F, S)
  BY <1>2, <1>3 DEF Closed
<1>5. u \in S
  <2> HIDE DEF S
  <2>1. S \in SUBSET Seq(Nat)
    BY DEF S
  <2> QED
    BY <1>4, <2>1 DEF Whole
<1> QED
  BY <1>5

LEMMA WholeMore ==
  ASSUME NEW F, NEW G, F \subseteq G, NEW w, Whole(F, w)
  PROVE  Whole(G, w)
<1>1. \A S \in SUBSET Seq(Nat) : Closed(G, S) => Closed(F, S)
  BY DEF Closed
<1> QED
  BY <1>1 DEF Whole

(* A word that is not empty begins with a frame.                           *)
LEMMA WholeBegins ==
  ASSUME NEW F, F \subseteq Seq(Nat), NEW w, Whole(F, w), w # <<>>
  PROVE  \E f \in F, v \in Seq(Nat) : w = f \o v /\ Whole(F, v)
<1> DEFINE S == {z \in Seq(Nat) : /\ Whole(F, z)
                                  /\ z = <<>> \/ \E f \in F, v \in Seq(Nat) : z = f \o v /\ Whole(F, v)}
<1>1. <<>> \in S
  BY WholeEmpty, EmptySeq
<1>2. ASSUME NEW f \in F, NEW v \in S PROVE f \o v \in S
  <2>1. Whole(F, f \o v) /\ Whole(F, v) /\ v \in Seq(Nat)
    BY WholePrepend
  <2>2. f \o v \in Seq(Nat)
    BY <2>1 DEF Whole
  <2> QED
    BY <2>1, <2>2
<1>3. Closed(F, S) /\ S \in SUBSET Seq(Nat)
  BY <1>1, <1>2 DEF Closed
<1>4. w \in S
  <2> HIDE DEF S
  <2> QED
    BY <1>3 DEF Whole
<1> QED
  BY <1>4
-----------------------------------------------------------------------------
LEMMA TwoEnds ==
  ASSUME NEW e \in Endpoints
  PROVE  /\ Other(e) \in Endpoints /\ Other(e) # e /\ Other(Other(e)) = e
         /\ \A a \in Endpoints : a = e \/ a = Other(e)
<1>1. PICK a \in Endpoints, b \in Endpoints : a # b /\ Endpoints = {a, b}
  BY SessionAssumption
<1>2. \E p \in Endpoints : p # e
  BY <1>1
<1>3. Other(e) \in Endpoints /\ Other(e) # e
  BY <1>2 DEF Other
<1>4. \E p \in Endpoints : p # Other(e)
  BY <1>3
<1>5. Other(Other(e)) \in Endpoints /\ Other(Other(e)) # Other(e)
  BY <1>4 DEF Other
<1> QED
  BY <1>1, <1>3, <1>5

-----------------------------------------------------------------------------
(* Frames.                                                                 *)
FrameHeader(k, m) == <<PeerMagic, PeerVersion, m.kind, 0, k, Len(EncodePayload(m).val)>>

LEMMA KindsAreNat == \A k \in KnownKinds : k \in Nat
BY DEF KnownKinds, Kinds

LEMMA FrameForm ==
  ASSUME NEW m \in Sendable, NEW k \in Nat,
         \E j : EncodePeerFrame(j, m).ok
  PROVE  /\ EncodePeerFrame(k, m).ok
         /\ EncodePayload(m).ok /\ EncodePayload(m).val \in Seq(Nat)
         /\ Len(EncodePayload(m).val) \in Nat
         /\ EncodePeerFrame(k, m).val = FrameHeader(k, m) \o EncodePayload(m).val
         /\ FrameHeader(k, m) \in Seq(Nat) /\ Len(FrameHeader(k, m)) = PeerHeaderCells
<1>1. Faithful(m)
  BY PayloadAssumption
<1>2. PICK j : EncodePeerFrame(j, m).ok
  OBVIOUS
<1>3. EncodePayload(m).ok /\ ~(Len(EncodePayload(m).val) > MaxPeerPayload)
  BY <1>2 DEF EncodePeerFrame, Then, Payload, Ok, Err
<1>4. EncodePayload(m).val \in Seq(Nat) /\ Len(EncodePayload(m).val) \in Nat /\ m.kind \in Nat
  BY <1>1, <1>3, KindsAreNat, LenProperties DEF Faithful
<1>5. FrameHeader(k, m) \in Seq(Nat) /\ Len(FrameHeader(k, m)) = PeerHeaderCells
  BY <1>4 DEF FrameHeader, PeerHeaderCells, PeerMagic, PeerVersion
<1>6. EncodePeerFrame(k, m) = Ok(FrameHeader(k, m) \o EncodePayload(m).val)
  BY <1>3 DEF EncodePeerFrame, Then, Payload, FrameHeader
<1> QED
  BY <1>3, <1>4, <1>5, <1>6 DEF Ok

(* The fields of a frame.                                                  *)
LEMMA FrameFields ==
  ASSUME NEW m \in Sendable, NEW k \in Nat,
         \E j : EncodePeerFrame(j, m).ok, NEW f, f = EncodePeerFrame(k, m).val
  PROVE  /\ f \in Seq(Nat)
         /\ f[3] = m.kind /\ f[5] = k /\ f[6] = Len(EncodePayload(m).val)
         /\ f[6] \in Nat /\ f[6] # PeerHeaderCells
         /\ Len(f) = PeerHeaderCells + f[6]
         /\ SubSeq(f, 1, PeerHeaderCells) = FrameHeader(k, m)
         /\ SubSeq(f, PeerHeaderCells + 1, Len(f)) = EncodePayload(m).val
<1> DEFINE h == FrameHeader(k, m)
           v == EncodePayload(m).val
<1>1. /\ f = h \o v /\ h \in Seq(Nat) /\ v \in Seq(Nat) /\ Len(v) \in Nat
      /\ Len(h) = PeerHeaderCells /\ EncodePayload(m).ok
  BY FrameForm
<1>2. h[3] = m.kind /\ h[5] = k /\ h[6] = Len(v)
  BY DEF FrameHeader
<1>3. Faithful(m)
  BY PayloadAssumption
<1>4. Len(v) # PeerHeaderCells
  BY <1>1, <1>3 DEF Faithful
<1> HIDE DEF h, v
<1>5. /\ f \in Seq(Nat) /\ Len(f) = PeerHeaderCells + Len(v)
      /\ f[3] = h[3] /\ f[5] = h[5] /\ f[6] = h[6]
  <2>1. f \in Seq(Nat) /\ Len(f) = PeerHeaderCells + Len(v)
    <3>1. h \o v \in Seq(Nat) /\ Len(h \o v) = Len(h) + Len(v)
      BY <1>1, ConcatCells
    <3> QED
      BY <1>1, <3>1
  <2>2. \A i \in 1..Len(h) : f[i] = h[i]
    BY <1>1, ConcatCells
  <2>3. 3 \in 1..Len(h) /\ 5 \in 1..Len(h) /\ 6 \in 1..Len(h)
    BY <1>1 DEF PeerHeaderCells
  <2> QED
    BY <2>1, <2>2, <2>3
<1>6. SubSeq(f, 1, PeerHeaderCells) = h /\ SubSeq(f, PeerHeaderCells + 1, Len(f)) = v
  BY <1>1, FrontOfConcat
<1> QED
  BY <1>1, <1>2, <1>4, <1>5, <1>6 DEF h, v

LEMMA FrameSizeIs ==
  ASSUME NEW m \in Sendable, NEW k \in Nat, EncodePeerFrame(k, m).ok
  PROVE  Len(EncodePeerFrame(k, m).val) = FrameSize[m] /\ FrameSize[m] \in Nat
<1>1. \E j : EncodePeerFrame(j, m).ok
  OBVIOUS
<1>2. FrameSize[m] = Len(EncodePeerFrame(0, m).val)
  BY DEF FrameSize
<1>3. Len(EncodePeerFrame(k, m).val) = PeerHeaderCells + Len(EncodePayload(m).val)
  BY <1>1, FrameFields
<1>4. Len(EncodePayload(m).val) \in Nat
  BY <1>1, FrameForm
<1>5. Len(EncodePeerFrame(0, m).val) = PeerHeaderCells + Len(EncodePayload(m).val)
  BY <1>1, FrameFields
<1> QED
  BY <1>2, <1>3, <1>5, <1>4 DEF PeerHeaderCells

(* A frame that is read is read as what it was written for.                *)
LEMMA FrameRead ==
  ASSUME NEW m \in Sendable, NEW k \in Nat,
         \E j : EncodePeerFrame(j, m).ok, NEW h \in AllHellos,
         NEW d, d = DecodePeerFrame(EncodePeerFrame(k, m).val, HelloNetwork(h)), d.ok
  PROVE  /\ d.val.seq = k /\ d.val.msg = m
         /\ m.kind = Kinds.Hello => HelloNetwork(m.body) = HelloNetwork(h)
<1> DEFINE f == EncodePeerFrame(k, m).val
           v == EncodePayload(m).val
           r == DecodePayload(m.kind, v, HelloNetwork(h))
<1>1. /\ f[3] = m.kind /\ f[5] = k /\ SubSeq(f, PeerHeaderCells + 1, Len(f)) = v
  BY FrameFields
<1>2. d = DecodePeerFrame(f, HelloNetwork(h))
  OBVIOUS
<1>3. EncodePayload(m).ok
  BY FrameForm
<1> HIDE DEF f, v
<1>4. r.ok /\ d.val = [seq |-> k, msg |-> r.val]
  <2> DEFINE q == DecodePayload(f[3], SubSeq(f, PeerHeaderCells + 1, Len(f)), HelloNetwork(h))
  <2>1. q = r
    BY <1>1
  <2>2. q.ok /\ d.val = [seq |-> f[5], msg |-> q.val]
    <3> HIDE DEF r, q
    <3>1. \/ \E err : d = Err(err)
          \/ d = IF Payload(q).ok THEN Ok([seq |-> f[5], msg |-> Payload(q).val]) ELSE Payload(q)
      BY <1>2 DEF DecodePeerFrame, Then, q
    <3>2. \A err : ~Err(err).ok
      BY DEF Err
    <3>3. Payload(q).ok /\ d.val = [seq |-> f[5], msg |-> Payload(q).val]
      BY <3>1, <3>2 DEF Payload, Ok
    <3> QED
      BY <3>2, <3>3 DEF Payload
  <2> QED
    BY <1>1, <2>1, <2>2
<1>6. Faithful(m)
  BY PayloadAssumption
<1>7. r.val = m /\ (m.kind = Kinds.Hello => HelloNetwork(m.body) = HelloNetwork(h))
  BY <1>3, <1>4, <1>6 DEF Faithful, v
<1> QED
  BY <1>4, <1>7
-----------------------------------------------------------------------------
(* Sessions.                                                               *)
Sent(s, t, n) ==
    /\ t \in Sessions
    /\ t.local = s.local /\ t.remote = s.remote
    /\ t.outSeq = s.outSeq + 1 /\ t.inSeq = s.inSeq
    /\ t.messages = s.messages + 1 /\ t.bytes = s.bytes + n

Received(s, t, m, n) ==
    /\ t \in Sessions
    /\ t.local = s.local /\ t.remote = IF m.kind = Kinds.Hello THEN <<m.body>> ELSE s.remote
    /\ t.outSeq = s.outSeq /\ t.inSeq = s.inSeq + 1
    /\ t.messages = s.messages + 1 /\ t.bytes = s.bytes + n

LEMMA Charged ==
  ASSUME NEW s \in Sessions, NEW n \in Nat
  PROVE  /\ Charge(s, n) \in Sessions
         /\ Charge(s, n).local = s.local /\ Charge(s, n).remote = s.remote
         /\ Charge(s, n).helloSent = s.helloSent
         /\ Charge(s, n).outSeq = s.outSeq /\ Charge(s, n).inSeq = s.inSeq
         /\ Charge(s, n).messages = s.messages + 1 /\ Charge(s, n).bytes = s.bytes + n
<1>1. s.messages + 1 \in Nat /\ s.bytes + n \in Nat
  BY DEF Sessions
<1> QED
  BY <1>1 DEF Charge, Sessions

LEMMA SentIs ==
  ASSUME NEW s \in Sessions, NEW n \in Nat
  PROVE  Sent(s, [Charge(s, n) EXCEPT !.outSeq = @ + 1, !.helloSent = @ \/ s.outSeq = 0], n)
<1> DEFINE c == Charge(s, n)
<1>1. /\ c \in Sessions /\ c.local = s.local /\ c.remote = s.remote
      /\ c.outSeq = s.outSeq /\ c.inSeq = s.inSeq
      /\ c.messages = s.messages + 1 /\ c.bytes = s.bytes + n
  BY Charged
<1> HIDE DEF c
<1> DEFINE o == c.outSeq + 1
           h == c.helloSent \/ s.outSeq = 0
<1>2. o \in Nat /\ h \in BOOLEAN
  BY <1>1 DEF Sessions
<1>3. o = s.outSeq + 1
  BY <1>1
<1> HIDE DEF o, h
<1>4. Sent(s, [c EXCEPT !.outSeq = o, !.helloSent = h], n)
  BY <1>1, <1>2, <1>3 DEF Sent, Sessions
<1> QED
  BY <1>4 DEF c, o, h

LEMMA ReceivedIs ==
  ASSUME NEW s \in Sessions, NEW n \in Nat, NEW m \in Readable
  PROVE  Received(s, [Charge(s, n) EXCEPT !.inSeq = @ + 1,
                          !.remote = IF m.kind = Kinds.Hello THEN <<m.body>> ELSE @], m, n)
<1> DEFINE c == Charge(s, n)
<1>1. /\ c \in Sessions /\ c.local = s.local /\ c.remote = s.remote
      /\ c.outSeq = s.outSeq /\ c.inSeq = s.inSeq
      /\ c.messages = s.messages + 1 /\ c.bytes = s.bytes + n
  BY Charged
<1> HIDE DEF c
<1> DEFINE i == c.inSeq + 1
           h == IF m.kind = Kinds.Hello THEN <<m.body>> ELSE c.remote
<1>2. i \in Nat /\ h \in {<<>>} \cup {<<z.body>> : z \in Readable}
  BY <1>1 DEF Sessions
<1>3. i = s.inSeq + 1 /\ h = IF m.kind = Kinds.Hello THEN <<m.body>> ELSE s.remote
  BY <1>1
<1> HIDE DEF i, h
<1>4. Received(s, [c EXCEPT !.inSeq = i, !.remote = h], m, n)
  BY <1>1, <1>2, <1>3 DEF Received, Sessions
<1> QED
  BY <1>4 DEF c, i, h

Refused(r) == r.err # "" /\ r.err # "PeerClosed"

(* A message that goes out, and the session after it.                      *)
LEMMA Outbound ==
  ASSUME NEW s \in Sessions, NEW m \in Sendable,
         NEW r, r = EncodeOutbound(s, m)
  PROVE  /\ r.ok =>
              LET f == EncodePeerFrame(s.outSeq, m).val
              IN  /\ EncodePeerFrame(s.outSeq, m).ok
                  /\ EnsureBudget(s, Len(f))
                  /\ r.val.frame = f /\ Sent(s, r.val.session, Len(f))
                  /\ m.kind = Kinds.Hello => m.body = s.local
                  /\ m.kind # Kinds.Hello => s.remote # <<>>
         /\ ~r.ok => Refused(r)
<1> DEFINE e == EncodePeerFrame(s.outSeq, m)
           f == e.val
           after == [Charge(s, Len(f)) EXCEPT !.outSeq = @ + 1, !.helloSent = @ \/ s.outSeq = 0]
<1>1. e.ok => Sent(s, after, Len(f))
  <2>1. e.ok => Len(f) \in Nat
    BY FrameSizeIs DEF Sessions
  <2> QED
    BY <2>1, SentIs
<1>2. \/ e.ok
      \/ e = Err("InvalidPayload")
      \/ e = Err("PayloadTooLarge")
  BY DEF EncodePeerFrame, Then, Payload, Ok, Err
<1>3. \/ \E err \in {"DuplicateHello", "WrongNetwork", "LocalHelloRequired", "HandshakeRequired",
                      "SequenceExhausted", "InvalidPayload", "PayloadTooLarge",
                      "PeerBudgetExceeded"} : r = Err(err)
      \/ /\ r = Ok([frame |-> f, session |-> after])
         /\ e.ok /\ EnsureBudget(s, Len(f))
         /\ m.kind = Kinds.Hello => m.body = s.local
         /\ m.kind # Kinds.Hello => s.remote # <<>>
  <2> HIDE DEF after, e
  <2> QED
    BY <1>2 DEF EncodeOutbound, Then, after, e
<1> HIDE DEF e, after
<1> QED
  <2>1. CASE \E err \in {"DuplicateHello", "WrongNetwork", "LocalHelloRequired",
                          "HandshakeRequired", "SequenceExhausted", "InvalidPayload",
                          "PayloadTooLarge", "PeerBudgetExceeded"} : r = Err(err)
    <3>1. \A err : ~Err(err).ok /\ Err(err).err = err
      BY DEF Err
    <3> QED
      BY <2>1, <3>1 DEF Refused
  <2>2. CASE r = Ok([frame |-> f, session |-> after])
    <3>1. r.ok /\ r.val.frame = f /\ r.val.session = after
      BY <2>2 DEF Ok
    <3>2. e.ok /\ EnsureBudget(s, Len(f)) /\ (m.kind = Kinds.Hello => m.body = s.local)
          /\ (m.kind # Kinds.Hello => s.remote # <<>>)
      BY <1>3, <3>1 DEF Err
    <3> QED
      BY <1>1, <3>1, <3>2 DEF e
  <2> QED
    BY <1>3, <2>1, <2>2

(* A frame that is accepted, and the session after it.                     *)
LEMMA Inbound ==
  ASSUME NEW s \in Sessions, NEW b \in Seq(Nat), Len(b) >= PeerHeaderCells,
         NEW r, r = AcceptInbound(s, b)
  PROVE  /\ r.ok =>
              LET d == DecodePeerFrame(b, HelloNetwork(s.local))
                  m == d.val.msg
              IN  /\ d.ok /\ d.val.seq = s.inSeq
                  /\ m \in Readable
                  /\ EnsureBudget(s, Len(b))
                  /\ r.val.msg = m /\ Received(s, r.val.session, m, Len(b))
                  /\ m.kind = Kinds.Hello =>
                       /\ HelloFingerprint(m.body) = HelloFingerprint(s.local)
                       /\ HelloNonce(m.body) # HelloNonce(s.local)
                  /\ m.kind # Kinds.Hello => s.remote # <<>>
         /\ ~r.ok => Refused(r)
<1> DEFINE d == DecodePeerFrame(b, HelloNetwork(s.local))
           m == d.val.msg
           after == [Charge(s, Len(b)) EXCEPT
                        !.inSeq = @ + 1,
                        !.remote = IF m.kind = Kinds.Hello THEN <<m.body>> ELSE @]
           q == DecodePayload(b[3], SubSeq(b, PeerHeaderCells + 1, Len(b)), HelloNetwork(s.local))
           Errors == {"Truncated", "InvalidMagic", "UnsupportedVersion", "NonZeroFlags",
                      "PayloadTooLarge", "TrailingBytes", "InvalidPayload", "PeerBudgetExceeded",
                      "UnexpectedSequence", "SequenceExhausted", "DuplicateHello",
                      "WrongConsensusFingerprint", "SelfConnect", "RemoteHelloRequired",
                      "HandshakeRequired"}
<1>1. m \in Readable => Received(s, after, m, Len(b))
  BY ReceivedIs, LenProperties
<1>2. \/ \E err \in Errors : d = Err(err)
      \/ d = Ok([seq |-> b[5], msg |-> q.val])
  <2> HIDE DEF q
  <2>1. \/ \E err \in Errors : d = Err(err)
        \/ d = IF Payload(q).ok THEN Ok([seq |-> b[5], msg |-> Payload(q).val]) ELSE Payload(q)
    BY DEF DecodePeerFrame, Then, q
  <2>2. Payload(q) = Err("InvalidPayload") \/ (Payload(q) = q /\ q.ok)
    BY Zenon DEF Payload
  <2>3. ~Err("InvalidPayload").ok
    BY DEF Err
  <2> QED
    BY <2>1, <2>2, <2>3
<1>3. d.ok => m \in Readable
  <2>1. q.val \in Readable
    <3>1. b[3] \in Nat
      BY ElementOfSeq, LenProperties DEF PeerHeaderCells
    <3>2. \A i \in (PeerHeaderCells + 1)..Len(b) : b[i] \in Nat
      BY ElementOfSeq, LenProperties DEF PeerHeaderCells
    <3>3. Len(b) \in Int /\ PeerHeaderCells + 1 \in Int
      BY LenProperties DEF PeerHeaderCells
    <3>4. SubSeq(b, PeerHeaderCells + 1, Len(b)) \in Seq(Nat)
      BY <3>2, <3>3, SubSeqProperties
    <3>5. s.local \in AllHellos
      BY DEF Sessions
    <3>6. \A k \in Nat, w \in Seq(Nat), h \in AllHellos :
            DecodePayload(k, w, HelloNetwork(h)).val \in Readable
      BY DEF Readable
    <3> QED
      BY <3>1, <3>4, <3>5, <3>6, Zenon
  <2> HIDE DEF q, Errors
  <2>2. d.ok => d = Ok([seq |-> b[5], msg |-> q.val])
    <3>1. \A err : ~Err(err).ok
      BY DEF Err
    <3> QED
      BY <1>2, <3>1
  <2> QED
    BY <2>1, <2>2 DEF Ok
<1>4. \/ \E err \in Errors : r = Err(err)
      \/ /\ r = Ok([msg |-> m, session |-> after])
         /\ d.ok /\ d.val.seq = s.inSeq /\ EnsureBudget(s, Len(b))
         /\ m.kind = Kinds.Hello =>
              SameRules(s, m.body) /\ HelloNonce(m.body) # HelloNonce(s.local)
         /\ m.kind # Kinds.Hello => s.remote # <<>>
  <2> HIDE DEF after, d
  <2>1. CASE ~EnsureBudget(s, Len(b))
    BY <2>1 DEF AcceptInbound
  <2>2. CASE EnsureBudget(s, Len(b)) /\ ~d.ok
    <3>1. r = d
      BY <2>2 DEF AcceptInbound, Then, d
    <3>2. \E err \in Errors : d = Err(err)
      BY <1>2, <2>2 DEF Ok
    <3> QED
      BY <3>1, <3>2
  <2>3. CASE EnsureBudget(s, Len(b)) /\ d.ok
    <3> DEFINE Hears == IF m.kind = Kinds.Hello
                        THEN CASE s.remote # <<>> -> Err("DuplicateHello")
                               [] ~SameRules(s, m.body) -> Err("WrongConsensusFingerprint")
                               [] HelloNonce(m.body) = HelloNonce(s.local) -> Err("SelfConnect")
                               [] OTHER -> Ok([msg |-> m, session |-> after])
                        ELSE CASE s.remote = <<>> -> Err("RemoteHelloRequired")
                               [] ~s.helloSent -> Err("HandshakeRequired")
                               [] OTHER -> Ok([msg |-> m, session |-> after])
    <3>1. r = CASE ~ExpectedSequence(s, d.val.seq) -> Err("UnexpectedSequence")
                [] s.inSeq = LastSequence -> Err("SequenceExhausted")
                [] OTHER -> Hears
      BY <2>3 DEF AcceptInbound, Then, d, after
    <3>2. \/ \E err \in {"UnexpectedSequence", "SequenceExhausted"} : r = Err(err)
          \/ r = Hears /\ d.val.seq = s.inSeq
      <4> HIDE DEF Hears
      <4> QED
        BY <3>1 DEF ExpectedSequence
    <3>3. CASE \E err \in {"UnexpectedSequence", "SequenceExhausted"} : r = Err(err)
      BY <3>3
    <3>4. CASE r = Hears /\ d.val.seq = s.inSeq /\ m.kind = Kinds.Hello
      BY <2>3, <3>4
    <3>5. CASE r = Hears /\ d.val.seq = s.inSeq /\ m.kind # Kinds.Hello
      BY <2>3, <3>5
    <3> QED
      BY <3>2, <3>3, <3>4, <3>5
  <2> QED
    BY <2>1, <2>2, <2>3
<1>5. \A err \in Errors : err # "" /\ err # "PeerClosed"
  OBVIOUS
<1>6. \A err : ~Err(err).ok /\ Err(err).err = err
  BY DEF Err
<1>7. \A v : Ok(v).ok /\ Ok(v).val = v
  BY DEF Ok
<1> HIDE DEF after, d, Errors
<1>8. CASE \E err \in Errors : r = Err(err)
  BY <1>5, <1>6, <1>8 DEF Refused
<1>9. CASE r = Ok([msg |-> m, session |-> after])
  <2>1. r.ok /\ r.val = [msg |-> m, session |-> after]
    BY <1>7, <1>9
  <2>2. /\ d.ok /\ d.val.seq = s.inSeq /\ EnsureBudget(s, Len(b))
        /\ m.kind = Kinds.Hello =>
             SameRules(s, m.body) /\ HelloNonce(m.body) # HelloNonce(s.local)
        /\ m.kind # Kinds.Hello => s.remote # <<>>
    BY <1>4, <1>6, <2>1
  <2> QED
    BY <1>1, <1>3, <2>1, <2>2 DEF SameRules, d
<1> QED
  BY <1>4, <1>8, <1>9
-----------------------------------------------------------------------------
(* The size of a sequence of frames.                                       *)
SizeStep(ctx, acc, m) == acc + FrameSize[m]

Sizing == INSTANCE LeftFolds WITH Step <- SizeStep

SizeRun(f, ms) ==
    /\ f[0] = 0
    /\ \A i \in 1..Len(ms) : f[i] = f[i - 1] + FrameSize[ms[i]]
    /\ f[Len(ms)] = FramesSize(ms)

LEMMA FramesSizeUnfolds ==
  ASSUME NEW ms, Len(ms) \in Nat
  PROVE  \E f : SizeRun(f, ms) /\ Sizing!Unfolds(f, 0, 0, ms, Len(ms))
<1> DEFINE Runs(f) == f = [i \in 0..Len(ms) |-> IF i = 0 THEN 0 ELSE f[i - 1] + FrameSize[ms[i]]]
           g == CHOOSE f : Runs(f)
<1>1. \A f : Runs(f) <=> Sizing!Unfolds(f, 0, 0, ms, Len(ms))
  BY DEF Sizing!Unfolds, SizeStep
<1>2. \E f : Runs(f)
  BY <1>1, Sizing!LeftFoldExists
<1>3. Runs(g)
  BY <1>2
<1>4. FramesSize(ms) = g[Len(ms)]
  BY DEF FramesSize
<1> HIDE DEF g
<1>5. g[0] = 0 /\ \A i \in 1..Len(ms) : g[i] = g[i - 1] + FrameSize[ms[i]]
  <2>1. 0 \in 0..Len(ms)
    OBVIOUS
  <2>2. \A i \in 1..Len(ms) : i \in 0..Len(ms) /\ i # 0
    OBVIOUS
  <2> QED
    BY <1>3, <2>1, <2>2
<1> QED
  BY <1>1, <1>3, <1>4, <1>5 DEF SizeRun

LEMMA FramesSizeEmpty == FramesSize(<<>>) = 0
<1>1. Len(<<>>) = 0
  OBVIOUS
<1>2. PICK f : SizeRun(f, <<>>)
  BY <1>1, FramesSizeUnfolds
<1> QED
  BY <1>1, <1>2 DEF SizeRun

LEMMA FramesSizeAppend ==
  ASSUME NEW S, NEW ms \in Seq(S), NEW m \in S
  PROVE  FramesSize(Append(ms, m)) = FramesSize(ms) + FrameSize[m]
<1> DEFINE t == Append(ms, m)
<1>1. /\ Len(ms) \in Nat /\ Len(t) = Len(ms) + 1 /\ Len(t) \in Nat
      /\ \A i \in 1..Len(ms) : t[i] = ms[i]
      /\ t[Len(t)] = m
  BY AppendProperties, LenProperties
<1> HIDE DEF t
<1>2. PICK f : SizeRun(f, ms) /\ Sizing!Unfolds(f, 0, 0, ms, Len(ms))
  BY <1>1, FramesSizeUnfolds
<1>3. PICK g : SizeRun(g, t) /\ Sizing!Unfolds(g, 0, 0, t, Len(t))
  BY <1>1, FramesSizeUnfolds
<1>4. f[Len(ms)] = g[Len(ms)]
  <2>1. Len(ms) <= Len(t) /\ Len(ms) \in 0..Len(ms) /\ \A i \in 1..Len(ms) : ms[i] = t[i]
    BY <1>1
  <2>2. \A k \in 0..Len(ms) : f[k] = g[k]
    BY <1>1, <1>2, <1>3, <2>1, Sizing!LeftFoldsAgree
  <2> QED
    BY <2>1, <2>2
<1>5. Len(t) \in 1..Len(t) /\ Len(t) - 1 = Len(ms)
  BY <1>1
<1>6. g[Len(t)] = g[Len(ms)] + FrameSize[m]
  BY <1>1, <1>3, <1>5 DEF SizeRun
<1>7. FramesSize(t) = FramesSize(ms) + FrameSize[m]
  BY <1>2, <1>3, <1>4, <1>6 DEF SizeRun
<1> QED
  BY <1>7 DEF t

LEMMA FramesSizeNat ==
  ASSUME NEW ms, Len(ms) \in Nat, \A i \in 1..Len(ms) : FrameSize[ms[i]] \in Nat
  PROVE  FramesSize(ms) \in Nat
<1>1. PICK f : SizeRun(f, ms)
  BY FramesSizeUnfolds
<1> DEFINE Good == {k \in 0..Len(ms) : f[k] \in Nat}
<1>2. 0 \in Good
  BY <1>1 DEF SizeRun
<1>3. ASSUME NEW k \in Nat, k < Len(ms), k \in Good PROVE k + 1 \in Good
  <2>1. k + 1 \in 1..Len(ms) /\ (k + 1) - 1 = k
    BY <1>3
  <2>2. f[k + 1] = f[k] + FrameSize[ms[k + 1]]
    BY <1>1, <2>1 DEF SizeRun
  <2> QED
    BY <1>3, <2>1, <2>2
<1>4. \A k \in 0..Len(ms) : k \in Good
  <2> HIDE DEF Good
  <2> QED
    BY <1>2, <1>3, UpTo
<1>5. Len(ms) \in Good
  BY <1>4
<1> QED
  BY <1>1, <1>5 DEF SizeRun
-----------------------------------------------------------------------------
(* The counts and what was heard stay while neither end sends or receives. *)
LEMMA SessionsKept ==
  ASSUME ConnectionInv,
         UNCHANGED <<session, sent, surfaced>>,
         \A e \in Endpoints : /\ "cell" \in faults[e] => "cell" \in faults'[e]
                              /\ activity[e] = "closed" => activity'[e] = "closed"
  PROVE  \A e \in Endpoints : CountsInv(e)' /\ SentInv(e)' /\ HeardInv(e)'
<1> SUFFICES ASSUME NEW e \in Endpoints
             PROVE  CountsInv(e)' /\ SentInv(e)' /\ HeardInv(e)'
  OBVIOUS
<1>1. CountsInv(e)'
  BY DEF ConnectionInv, CountsInv
<1>2. SentInv(e)'
  BY DEF ConnectionInv, SentInv
<1>3. HeardInv(e)'
  <2>1. Other(e) \in Endpoints
    BY TwoEnds
  <2> QED
    BY <2>1 DEF ConnectionInv, HeardInv
<1> QED
  BY <1>1, <1>2, <1>3

(* A writer's part of a stream stays while it writes nothing.              *)
LEMMA PartKept ==
  ASSUME NEW p, NEW g, PartWritten(p, g),
         sent'[p] = sent[p], cut'[p] = cut[p], faults'[p] = faults[p],
         \/ activity'[p] = "closed"
         \/ activity'[p] = activity[p] /\ outbox'[p] = outbox[p]
         \/ activity[p] \in {"app", "reading"} /\ activity'[p] \in {"app", "reading"}
  PROVE  PartWritten(p, g)'
<1>1. Frames(p)' = Frames(p)
  BY DEF Frames
<1> QED
  BY <1>1 DEF PartWritten

Reads(e) ==
    /\ activity[e] = "closed" => activity'[e] = "closed"
    /\ activity'[e] = "closed" \/ header'[e] \o stream'[e] = header[e] \o stream[e]

Idles(p) ==
    /\ sent'[p] = sent[p] /\ cut'[p] = cut[p] /\ faults'[p] = faults[p]
    /\ \/ activity'[p] = "closed"
       \/ activity'[p] = activity[p] /\ outbox'[p] = outbox[p]
       \/ activity[p] \in {"app", "reading"} /\ activity'[p] \in {"app", "reading"}

LEMMA FlowKept ==
  ASSUME ConnectionInv, NEW e \in Endpoints, Reads(e), Idles(Other(e))
  PROVE  FlowInv(e)'
<1> DEFINE p == Other(e)
<1>0. Other(e)' = p
  BY DEF Other
<1> SUFFICES ASSUME activity'[e] # "closed", "cell" \notin faults'[p]
             PROVE  \E u, g \in Seq(Nat) : /\ header'[e] \o stream'[e] = u \o g
                                           /\ Whole(Frames(p), u)'
                                           /\ PartWritten(p, g)'
  BY <1>0 DEF FlowInv
<1>1. activity[e] # "closed" /\ "cell" \notin faults[p]
  BY DEF Reads, Idles
<1>2. PICK u \in Seq(Nat), g \in Seq(Nat) :
        header[e] \o stream[e] = u \o g /\ Whole(Frames(p), u) /\ PartWritten(p, g)
  BY <1>1 DEF ConnectionInv, FlowInv
<1>3. header'[e] \o stream'[e] = u \o g
  BY <1>2 DEF Reads
<1>4. Whole(Frames(p), u)'
  <2>1. Frames(p)' = Frames(p)
    BY DEF Idles, Frames
  <2> QED
    BY <1>2, <2>1 DEF Whole, Closed
<1>5. PartWritten(p, g)'
  BY <1>2, PartKept DEF Idles
<1> QED
  BY <1>3, <1>4, <1>5
-----------------------------------------------------------------------------
(* a's connection ends.                                                    *)
Ending(a) ==
    /\ a \in Endpoints /\ activity[a] # "closed"
    /\ \E how : /\ EndConnection(a, how) /\ how # ""
                /\ how = "PeerClosed" =>
                     /\ activity[Other(a)] = "closed"
                     /\ faults[Other(a)] = {} => ~cut[Other(a)]
    /\ outbox' \in [Endpoints -> Seq(Nat)] /\ outbox'[a] = <<>>
    /\ stream' \in [Endpoints -> Seq(Nat)]
    /\ \A e \in Endpoints : e # a => outbox'[e] = outbox[e] /\ stream'[e] = stream[e]
    /\ UNCHANGED <<sent, surfaced, cut, faults>>

LEMMA EndingEnds ==
  ASSUME ConnectionInv, NEW a, Ending(a)
  PROVE  /\ activity' \in [Endpoints -> {"app", "writing", "reading", "closed"}]
         /\ activity'[a] = "closed" /\ ended'[a] # "" /\ header'[a] = <<>> /\ now' = now
         /\ ended'[a] = "PeerClosed" => /\ activity[Other(a)] = "closed"
                                        /\ faults[Other(a)] = {} => ~cut[Other(a)]
         /\ since' \in [Endpoints -> 0..MaxTime] /\ header' \in [Endpoints -> Seq(Nat)]
         /\ DOMAIN ended' = Endpoints
         /\ \A e \in Endpoints : e # a => /\ activity'[e] = activity[e] /\ ended'[e] = ended[e]
                                          /\ header'[e] = header[e]
<1>1. PICK how : /\ EndConnection(a, how) /\ how # ""
                 /\ how = "PeerClosed" =>
                     /\ activity[Other(a)] = "closed"
                     /\ faults[Other(a)] = {} => ~cut[Other(a)]
  BY DEF Ending
<1>2. /\ a \in Endpoints /\ DOMAIN ended = Endpoints /\ header \in [Endpoints -> Seq(Nat)]
      /\ since \in [Endpoints -> 0..MaxTime]
      /\ activity \in [Endpoints -> {"app", "writing", "reading", "closed"}]
  BY DEF Ending, ConnectionInv, ConnectionTypes, SessionTypeOK
<1>3. <<>> \in Seq(Nat) /\ 0 \in 0..MaxTime
  BY SessionAssumption
<1> QED
  BY <1>1, <1>2, <1>3 DEF EndConnection

LEMMA EndingKeeps ==
  ASSUME ConnectionInv, NEW a, Ending(a),
         session' \in [Endpoints -> Sessions],
         \A e \in Endpoints : session'[e].outSeq \in 0..MaxMessages
                              /\ session'[e].inSeq \in 0..MaxMessages
  PROVE  ConnectionTypes' /\ \A e \in Endpoints : FlowInv(e)' /\ EndsInv(e)'
<1> DEFINE Ended == 
      /\ activity' \in [Endpoints -> {"app", "writing", "reading", "closed"}]
      /\ activity'[a] = "closed" /\ ended'[a] # "" /\ header'[a] = <<>> /\ now' = now
      /\ ended'[a] = "PeerClosed" => /\ activity[Other(a)] = "closed"
                                     /\ faults[Other(a)] = {} => ~cut[Other(a)]
      /\ since' \in [Endpoints -> 0..MaxTime] /\ header' \in [Endpoints -> Seq(Nat)]
      /\ DOMAIN ended' = Endpoints
      /\ \A e \in Endpoints : e # a => /\ activity'[e] = activity[e] /\ ended'[e] = ended[e]
                                       /\ header'[e] = header[e]
<1>1. Ended
  BY EndingEnds
<1>2. ConnectionTypes'
  <2>1. SessionTypeOK'
    <3>1. /\ activity' \in [Endpoints -> {"app", "writing", "reading", "closed"}]
          /\ now' \in 0..MaxTime /\ since' \in [Endpoints -> 0..MaxTime]
          /\ cut' \in [Endpoints -> BOOLEAN]
      BY <1>1 DEF Ending, ConnectionInv, ConnectionTypes, SessionTypeOK
    <3>2. ASSUME NEW e \in Endpoints
          PROVE  /\ header'[e] # <<>> => HeaderValid(header'[e]) /\ activity'[e] = "reading"
                 /\ (outbox'[e] # <<>>) = (activity'[e] = "writing")
                 /\ (ended'[e] = "") = (activity'[e] # "closed")
      <4>1. CASE e = a
        BY <1>1, <4>1 DEF Ending
      <4>2. CASE e # a
        <5>1. /\ header'[e] = header[e] /\ activity'[e] = activity[e]
              /\ outbox'[e] = outbox[e] /\ ended'[e] = ended[e]
          BY <1>1, <4>2 DEF Ending
        <5>2. /\ header[e] # <<>> => HeaderValid(header[e]) /\ activity[e] = "reading"
              /\ (outbox[e] # <<>>) = (activity[e] = "writing")
              /\ (ended[e] = "") = (activity[e] # "closed")
          BY DEF ConnectionInv, ConnectionTypes, SessionTypeOK
        <5> QED
          BY <5>1, <5>2
      <4> QED
        BY <4>1, <4>2
    <3> QED
      BY <3>1, <3>2 DEF SessionTypeOK, HeaderValid
  <2>2. \A e \in Endpoints : header'[e] # <<>> => Len(header'[e]) = PeerHeaderCells
    <3> SUFFICES ASSUME NEW e \in Endpoints, header'[e] # <<>>
                 PROVE  Len(header'[e]) = PeerHeaderCells
      OBVIOUS
    <3>1. header'[e] = header[e]
      BY <1>1
    <3> QED
      BY <3>1 DEF ConnectionInv, ConnectionTypes
  <2> QED
    BY <1>1, <2>1, <2>2 DEF Ending, ConnectionInv, ConnectionTypes
<1>3. ASSUME NEW e \in Endpoints
      PROVE  FlowInv(e)'
  <2> DEFINE p == Other(e)
  <2>1. p \in Endpoints /\ p # e /\ a \in Endpoints
    BY TwoEnds DEF Ending
  <2> HIDE DEF p
  <2>2. Reads(e)
    <3>1. CASE e = a
      BY <1>1, <3>1 DEF Reads
    <3>2. CASE e # a
      BY <1>1, <3>2 DEF Reads, Ending
    <3> QED
      BY <3>1, <3>2
  <2>3. Idles(p)
    <3>1. CASE p = a
      BY <1>1, <3>1 DEF Idles, Ending
    <3>2. CASE p # a
      BY <1>1, <2>1, <3>2 DEF Idles, Ending
    <3> QED
      BY <3>1, <3>2
  <2> QED
    BY <2>2, <2>3, FlowKept DEF p
<1>4. ASSUME NEW e \in Endpoints
      PROVE  EndsInv(e)'
  <2> DEFINE p == Other(e)
  <2>1. p \in Endpoints /\ p # e /\ a \in Endpoints /\ Other(a) \in Endpoints /\ Other(a) # a
        /\ Other(p) = e
    BY TwoEnds DEF Ending
  <2>0. p' = p
    BY DEF Other
  <2>2. EndsInv(e) /\ EndsInv(p) /\ cut' = cut /\ faults' = faults
    BY <2>1 DEF ConnectionInv, Ending
  <2>3. CASE e = a
    BY <1>1, <2>0, <2>1, <2>2, <2>3 DEF EndsInv
  <2>4. CASE e # a
    <3>1. /\ activity'[e] = activity[e] /\ ended'[e] = ended[e] /\ outbox'[e] = outbox[e]
          /\ activity'[p] = "closed"
      BY <1>1, <2>1, <2>4, TwoEnds DEF Ending
    <3> QED
      BY <1>1, <2>0, <2>1, <2>2, <3>1 DEF EndsInv
  <2> QED
    BY <2>3, <2>4
<1> QED
  BY <1>2, <1>3, <1>4
LEMMA EndingIs ==
  ASSUME ConnectionInv, NEW a \in Endpoints, activity[a] # "closed",
         NEW how, EndConnection(a, how), how # "",
         how = "PeerClosed" => /\ activity[Other(a)] = "closed"
                               /\ faults[Other(a)] = {} => ~cut[Other(a)],
         \/ outbox' = [outbox EXCEPT ![a] = <<>>]
         \/ outbox' = outbox /\ activity[a] # "writing",
         \/ stream' = [stream EXCEPT ![a] = <<>>]
         \/ stream' = stream,
         UNCHANGED <<sent, surfaced, cut, faults>>
  PROVE  Ending(a)
<1>1. /\ outbox \in [Endpoints -> Seq(Nat)] /\ stream \in [Endpoints -> Seq(Nat)]
      /\ activity[a] # "writing" => outbox[a] = <<>>
  BY DEF ConnectionInv, ConnectionTypes, SessionTypeOK
<1>2. <<>> \in Seq(Nat)
  BY EmptySeq
<1>3. /\ outbox' \in [Endpoints -> Seq(Nat)] /\ outbox'[a] = <<>>
      /\ \A e \in Endpoints : e # a => outbox'[e] = outbox[e]
  BY <1>1, <1>2
<1>4. /\ stream' \in [Endpoints -> Seq(Nat)]
      /\ \A e \in Endpoints : e # a => stream'[e] = stream[e]
  BY <1>1, <1>2
<1> QED
  BY <1>3, <1>4 DEF Ending

LEMMA EndingCloses ==
  ASSUME ConnectionInv, NEW a, Ending(a)
  PROVE  \A e \in Endpoints : /\ "cell" \in faults[e] => "cell" \in faults'[e]
                              /\ activity[e] = "closed" => activity'[e] = "closed"
<1>1. \A e \in Endpoints : activity[e] = "closed" => activity'[e] = "closed"
  BY EndingEnds
<1> QED
  BY <1>1 DEF Ending

LEMMA ClosingKeeps ==
  ASSUME ConnectionInv, NEW a, Ending(a), UNCHANGED session
  PROVE  ConnectionInv'
<1>1. /\ session' \in [Endpoints -> Sessions]
      /\ \A e \in Endpoints : session'[e].outSeq \in 0..MaxMessages
                              /\ session'[e].inSeq \in 0..MaxMessages
  BY DEF ConnectionInv, ConnectionTypes, SessionTypeOK
<1>2. ConnectionTypes' /\ \A e \in Endpoints : FlowInv(e)' /\ EndsInv(e)'
  BY <1>1, EndingKeeps
<1>3. \A e \in Endpoints : CountsInv(e)' /\ SentInv(e)' /\ HeardInv(e)'
  <2>1. UNCHANGED <<session, sent, surfaced>>
    BY DEF Ending
  <2> QED
    BY <2>1, EndingCloses, SessionsKept
<1> QED
  BY <1>2, <1>3 DEF ConnectionInv

(* Steps that only end a's connection.                                     *)
LEMMA FinishKeeps ==
  ASSUME ConnectionInv, NEW a \in Endpoints, Finish(a)
  PROVE  ConnectionInv'
<1>1. Ending(a)
  BY EndingIs DEF Finish
<1> QED
  BY <1>1, ClosingKeeps DEF Finish

LEMMA WriteFailsKeeps ==
  ASSUME ConnectionInv, NEW a \in Endpoints, WriteFails(a)
  PROVE  ConnectionInv'
<1>1. Ending(a)
  BY EndingIs DEF WriteFails
<1> QED
  BY <1>1, ClosingKeeps DEF WriteFails

LEMMA TimeoutKeeps ==
  ASSUME ConnectionInv, NEW a \in Endpoints, Timeout(a)
  PROVE  ConnectionInv'
<1> DEFINE how == IF now >= TotalTimeout THEN "TotalTimeout" ELSE "IdleTimeout"
<1>1. how # "" /\ how # "PeerClosed" /\ EndConnection(a, how)
  BY DEF Timeout
<1> HIDE DEF how
<1>2. Ending(a)
  BY <1>1, EndingIs DEF Timeout
<1> QED
  BY <1>2, ClosingKeeps DEF Timeout

LEMMA SentFrames ==
  ASSUME ConnectionInv, NEW p \in Endpoints
  PROVE  /\ \A i \in 1..Len(sent[p]) :
              /\ i - 1 \in Nat /\ sent[p][i] \in Sendable
              /\ EncodePeerFrame(0, sent[p][i]).ok
         /\ Len(sent[p]) \in Nat
         /\ Frames(p) \subseteq Seq(Nat)
<1>1. sent[p] \in Seq(Sendable)
  BY DEF ConnectionInv, ConnectionTypes
<1>2. \A i \in 1..Len(sent[p]) : i - 1 \in Nat /\ sent[p][i] \in Sendable
                                 /\ EncodePeerFrame(0, sent[p][i]).ok
  BY <1>1, ElementOfSeq, LenProperties DEF ConnectionInv, SentInv
<1>3. Frames(p) \subseteq Seq(Nat)
  BY <1>2, FrameFields DEF Frames
<1> QED
  BY <1>1, <1>2, <1>3, LenProperties

LEMMA FrameOf ==
  ASSUME ConnectionInv, NEW p \in Endpoints, NEW f \in Frames(p)
  PROVE  f \in Seq(Nat) /\ f[6] \in Nat /\ f[6] # PeerHeaderCells /\ Len(f) = PeerHeaderCells + f[6]
<1>1. PICK i \in 1..Len(sent[p]) : f = EncodePeerFrame(i - 1, sent[p][i]).val
  BY DEF Frames
<1>2. i - 1 \in Nat /\ sent[p][i] \in Sendable /\ \E j : EncodePeerFrame(j, sent[p][i]).ok
  BY SentFrames
<1> QED
  BY <1>1, <1>2, FrameFields

(* An end of stream between two frames is one at a boundary: were a header *)
(* begun, it would be the front of a frame, whose payload is not as long   *)
(* as a header.                                                            *)
LEMMA CleanEndIsBoundary ==
  ASSUME ConnectionInv, NEW e \in Endpoints, activity[e] # "closed", CleanEnd(e),
         faults[Other(e)] = {}
  PROVE  ~cut[Other(e)]
<1> DEFINE p == Other(e)
<1>1. PICK u \in Seq(Nat), g \in Seq(Nat) :
        header[e] \o stream[e] = u \o g /\ Whole(Frames(p), u) /\ PartWritten(p, g)
  BY DEF ConnectionInv, FlowInv
<1>2. header[e] \in Seq(Nat) /\ stream[e] = <<>> /\ p \in Endpoints
  BY TwoEnds DEF ConnectionInv, ConnectionTypes, CleanEnd
<1>3. header[e] = u \o g
  BY <1>1, <1>2, ConcatCells
<1>4. SUFFICES ASSUME g # <<>> PROVE FALSE
  BY <1>1 DEF PartWritten
<1>5. header[e] # <<>> /\ Len(header[e]) = PeerHeaderCells /\ header[e][6] = PeerHeaderCells
  <2>1. header[e] # <<>>
    BY <1>3, <1>4, ConcatCells
  <2> QED
    BY <2>1 DEF CleanEnd, ConnectionInv, ConnectionTypes
<1>6. ASSUME NEW f \in Frames(p)
      PROVE  f \in Seq(Nat) /\ Len(f) >= PeerHeaderCells /\ f[6] # PeerHeaderCells
  <2>1. f \in Seq(Nat) /\ f[6] \in Nat /\ f[6] # PeerHeaderCells /\ Len(f) = PeerHeaderCells + f[6]
    BY <1>2, FrameOf
  <2> QED
    BY <2>1 DEF PeerHeaderCells
<1>7. PICK f \in Frames(p), w \in Seq(Nat) : header[e] \o w = f
  <2>1. CASE u = <<>>
    <3>1. header[e] = g
      BY <1>3, <2>1, ConcatCells
    <3> QED
      BY <1>1, <1>4, <3>1 DEF PartWritten
  <2>2. CASE u # <<>>
    <3>1. Frames(p) \subseteq Seq(Nat)
      BY <1>6
    <3>2. PICK f \in Frames(p), v \in Seq(Nat) : u = f \o v /\ Whole(Frames(p), v)
      <4> HIDE DEF p
      <4>1. Whole(Frames(p), u)
        BY <1>1
      <4> QED
        BY <2>2, <3>1, <4>1, WholeBegins, Zenon
    <3>3. header[e] = f \o (v \o g) /\ f \in Seq(Nat) /\ v \o g \in Seq(Nat)
      <4>1. f \in Seq(Nat) /\ v \o g \in Seq(Nat)
        BY <1>6, ConcatCells
      <4>2. (f \o v) \o g = f \o (v \o g)
        BY <4>1, CellsAssociate, Zenon
      <4> QED
        BY <1>3, <3>2, <4>1, <4>2
    <3>4. Len(f) >= PeerHeaderCells /\ Len(header[e]) = Len(f) + Len(v \o g)
          /\ Len(f) \in Nat /\ Len(v \o g) \in Nat
      BY <1>6, <3>3, ConcatCells
    <3>5. v \o g = <<>>
      BY <1>5, <3>3, <3>4, ConcatCells DEF PeerHeaderCells
    <3>6. header[e] \o <<>> = f /\ <<>> \in Seq(Nat)
      BY <3>3, <3>5, ConcatCells
    <3> QED
      BY <3>6, Zenon
  <2> QED
    BY <2>1, <2>2
<1>8. f[6] = header[e][6]
  <2>1. 6 \in 1..Len(header[e])
    BY <1>5 DEF PeerHeaderCells
  <2> QED
    BY <1>2, <1>7, <2>1, ConcatCells
<1> QED
  BY <1>5, <1>6, <1>7, <1>8

LEMMA ReadEofKeeps ==
  ASSUME ConnectionInv, NEW a \in Endpoints, ReadEof(a)
  PROVE  ConnectionInv'
<1> DEFINE how == IF CleanEnd(a) THEN "PeerClosed" ELSE "Truncated"
<1>1. how # "" /\ EndConnection(a, how) /\ activity[a] = "reading"
  BY DEF ReadEof
<1>2. activity[Other(a)] = "closed"
  BY TwoEnds DEF ReadEof, ConnectionInv, ConnectionTypes, SessionTypeOK
<1>3. how = "PeerClosed" => (faults[Other(a)] = {} => ~cut[Other(a)])
  BY <1>1, CleanEndIsBoundary
<1> HIDE DEF how
<1>4. Ending(a)
  BY <1>1, <1>2, <1>3, EndingIs DEF ReadEof
<1> QED
  BY <1>4, ClosingKeeps DEF ReadEof
-----------------------------------------------------------------------------
(* The reader's steps.                                                     *)

(* A step of a's that ends nothing and puts nothing on a stream.           *)
Continues(a) ==
    /\ a \in Endpoints
    /\ activity[a] \in {"app", "reading"} /\ activity'[a] = "reading"
    /\ activity' \in [Endpoints -> {"app", "writing", "reading", "closed"}]
    /\ now < TotalTimeout \/ activity[a] = "reading"
    /\ header' \in [Endpoints -> Seq(Nat)] /\ stream' \in [Endpoints -> Seq(Nat)]
    /\ since' \in [Endpoints -> 0..MaxTime]
    /\ header'[a] \o stream'[a] = header[a] \o stream[a]
    /\ header'[a] # <<>> => HeaderValid(header'[a]) /\ Len(header'[a]) = PeerHeaderCells
    /\ \A e \in Endpoints : e # a => /\ activity'[e] = activity[e]
                                     /\ header'[e] = header[e] /\ stream'[e] = stream[e]
    /\ UNCHANGED <<session, outbox, now, sent, surfaced, ended, cut, faults>>

LEMMA ContinuesKeeps ==
  ASSUME ConnectionInv, NEW a, Continues(a)
  PROVE  ConnectionInv'
<1>0. a \in Endpoints
  BY DEF Continues
<1>1. SessionTypeOK'
  <2>1. /\ activity' \in [Endpoints -> {"app", "writing", "reading", "closed"}]
        /\ now' \in 0..MaxTime /\ since' \in [Endpoints -> 0..MaxTime]
        /\ cut' \in [Endpoints -> BOOLEAN]
    BY DEF Continues, ConnectionInv, ConnectionTypes, SessionTypeOK
  <2>2. ASSUME NEW e \in Endpoints
        PROVE  /\ session'[e].outSeq \in 0..MaxMessages /\ session'[e].inSeq \in 0..MaxMessages
               /\ header'[e] # <<>> => HeaderValid(header'[e]) /\ activity'[e] = "reading"
               /\ (outbox'[e] # <<>>) = (activity'[e] = "writing")
               /\ (ended'[e] = "") = (activity'[e] # "closed")
    <3>1. /\ session'[e] = session[e] /\ outbox'[e] = outbox[e] /\ ended'[e] = ended[e]
      BY DEF Continues
    <3>2. /\ session[e].outSeq \in 0..MaxMessages /\ session[e].inSeq \in 0..MaxMessages
          /\ header[e] # <<>> => HeaderValid(header[e]) /\ activity[e] = "reading"
          /\ (outbox[e] # <<>>) = (activity[e] = "writing")
          /\ (ended[e] = "") = (activity[e] # "closed")
      BY DEF ConnectionInv, ConnectionTypes, SessionTypeOK
    <3>3. CASE e = a
      BY <3>1, <3>2, <3>3 DEF Continues
    <3>4. CASE e # a
      <4>1. header'[e] = header[e] /\ activity'[e] = activity[e]
        BY <3>4 DEF Continues
      <4> QED
        BY <3>1, <3>2, <4>1
    <3> QED
      BY <3>3, <3>4
  <2> QED
    BY <2>1, <2>2 DEF SessionTypeOK, HeaderValid
<1>2. ConnectionTypes'
  <2>1. ASSUME NEW e \in Endpoints, header'[e] # <<>> PROVE Len(header'[e]) = PeerHeaderCells
    <3>1. CASE e = a
      BY <2>1, <3>1 DEF Continues
    <3>2. CASE e # a
      BY <2>1, <3>2 DEF Continues, ConnectionInv, ConnectionTypes
    <3> QED
      BY <3>1, <3>2
  <2> QED
    BY <1>1, <2>1 DEF Continues, ConnectionInv, ConnectionTypes
<1>3. \A e \in Endpoints : CountsInv(e)' /\ SentInv(e)' /\ HeardInv(e)'
  <2>1. \A e \in Endpoints : /\ "cell" \in faults[e] => "cell" \in faults'[e]
                             /\ activity[e] = "closed" => activity'[e] = "closed"
    BY DEF Continues
  <2>2. UNCHANGED <<session, sent, surfaced>>
    BY DEF Continues
  <2> QED
    BY <2>1, <2>2, SessionsKept
<1>4. ASSUME NEW e \in Endpoints
      PROVE  FlowInv(e)'
  <2> DEFINE p == Other(e)
  <2>1. p \in Endpoints
    BY TwoEnds
  <2> HIDE DEF p
  <2>2. Reads(e)
    BY DEF Reads, Continues
  <2>3. Idles(p)
    BY <2>1 DEF Idles, Continues
  <2> QED
    BY <2>2, <2>3, FlowKept DEF p
<1>5. ASSUME NEW e \in Endpoints
      PROVE  EndsInv(e)'
  <2> DEFINE p == Other(e)
  <2>1. p \in Endpoints /\ p' = p
    BY TwoEnds DEF Other
  <2>2. EndsInv(e) /\ EndsInv(a)
    BY <1>0 DEF ConnectionInv
  <2>3. TotalTimeout \in Nat /\ now \in Nat
    <3>1. TotalTimeout \in Nat /\ MaxTime \in Nat
      BY SessionAssumption
    <3>2. now \in 0..MaxTime
      BY DEF ConnectionInv, ConnectionTypes, SessionTypeOK
    <3> QED
      BY <3>1, <3>2
  <2>4. activity[p] = "closed" => activity'[p] = "closed"
    BY <2>1 DEF Continues
  <2>5. activity'[e] \in {"reading", "writing"} => now <= TotalTimeout
    BY <2>2, <2>3 DEF Continues, EndsInv
  <2>6. cut[e] => activity'[e] \in {"writing", "closed"}
    BY <2>2 DEF Continues, EndsInv
  <2>7. activity'[e] = "writing" => activity[e] = "writing"
    BY DEF Continues
  <2> QED
    BY <2>1, <2>2, <2>4, <2>5, <2>6, <2>7 DEF EndsInv, Continues
<1> QED
  BY <1>2, <1>3, <1>4, <1>5 DEF ConnectionInv

LEMMA BeginReceiveKeeps ==
  ASSUME ConnectionInv, NEW a \in Endpoints, BeginReceive(a)
  PROVE  ConnectionInv'
<1>1. CASE EndConnection(a, "TotalTimeout")
  <2>1. Ending(a)
    BY <1>1, EndingIs DEF BeginReceive
  <2> QED
    BY <2>1, ClosingKeeps DEF BeginReceive
<1>2. CASE /\ now < TotalTimeout
           /\ activity' = [activity EXCEPT ![a] = "reading"]
           /\ since' = [since EXCEPT ![a] = now]
           /\ UNCHANGED <<header, now, ended>>
  <2>1. /\ activity \in [Endpoints -> {"app", "writing", "reading", "closed"}]
        /\ header \in [Endpoints -> Seq(Nat)] /\ stream \in [Endpoints -> Seq(Nat)]
        /\ since \in [Endpoints -> 0..MaxTime] /\ now \in 0..MaxTime
        /\ header[a] # <<>> => HeaderValid(header[a]) /\ Len(header[a]) = PeerHeaderCells
    BY DEF ConnectionInv, ConnectionTypes, SessionTypeOK
  <2>2. Continues(a)
    BY <1>2, <2>1 DEF BeginReceive, Continues
  <2> QED
    BY <2>2, ContinuesKeeps
<1> QED
  BY <1>1, <1>2 DEF BeginReceive

LEMMA ReadHeaderKeeps ==
  ASSUME ConnectionInv, NEW a \in Endpoints, ReadHeader(a)
  PROVE  ConnectionInv'
<1> DEFINE h == SubSeq(stream[a], 1, PeerHeaderCells)
           rest == SubSeq(stream[a], PeerHeaderCells + 1, Len(stream[a]))
<1>1. CASE EndConnection(a, "BadHeader") /\ stream' = [stream EXCEPT ![a] = <<>>]
  <2>1. Ending(a)
    BY <1>1, EndingIs DEF ReadHeader
  <2> QED
    BY <2>1, ClosingKeeps DEF ReadHeader
<1>2. CASE /\ HeaderAccepted(a, h)
           /\ header' = [header EXCEPT ![a] = h]
           /\ stream' = [stream EXCEPT ![a] = rest]
           /\ UNCHANGED <<activity, since, ended, now>>
  <2>1. /\ activity \in [Endpoints -> {"app", "writing", "reading", "closed"}]
        /\ header \in [Endpoints -> Seq(Nat)] /\ stream \in [Endpoints -> Seq(Nat)]
        /\ since \in [Endpoints -> 0..MaxTime]
    BY DEF ConnectionInv, ConnectionTypes, SessionTypeOK
  <2>2. PeerHeaderCells \in 0..Len(stream[a])
    BY <2>1, LenProperties DEF ReadHeader, PeerHeaderCells
  <2>3. /\ h \in Seq(Nat) /\ rest \in Seq(Nat) /\ Len(h) = PeerHeaderCells
        /\ h \o rest = stream[a]
    BY <2>1, <2>2, CellsSplit
  <2>4. header[a] \o stream[a] = stream[a]
    BY <2>1, ConcatCells DEF ReadHeader
  <2> HIDE DEF h, rest
  <2>5. header'[a] = h /\ stream'[a] = rest
    BY <1>2, <2>1
  <2>6. Continues(a)
    BY <1>2, <2>1, <2>3, <2>4, <2>5 DEF ReadHeader, Continues, HeaderAccepted
  <2> QED
    BY <2>6, ContinuesKeeps
<1> QED
  BY <1>1, <1>2 DEF ReadHeader
-----------------------------------------------------------------------------
FrameAhead(a, p, n) ==
    \E i \in 1..Len(sent[p]), u, g \in Seq(Nat) :
        /\ header[a] \o SubSeq(stream[a], 1, n) = EncodePeerFrame(i - 1, sent[p][i]).val
        /\ SubSeq(stream[a], n + 1, Len(stream[a])) = u \o g
        /\ Whole(Frames(p), u) /\ PartWritten(p, g)

(* The header and payload that receive has read are a frame the other end  *)
(* produced, and what is left is whole frames again.                       *)
LEMMA NextFrame ==
  ASSUME ConnectionInv, NEW a \in Endpoints, activity[a] = "reading", header[a] # <<>>,
         NEW n, n = header[a][6], Len(stream[a]) >= n,
         NEW p, p = Other(a), "cell" \notin faults[p]
  PROVE  FrameAhead(a, p, n)
<1> DEFINE h == header[a]
           s == stream[a]
           b == h \o SubSeq(s, 1, n)
           rest == SubSeq(s, n + 1, Len(s))
<1>1. /\ h \in Seq(Nat) /\ s \in Seq(Nat) /\ Len(h) = PeerHeaderCells /\ h # <<>>
      /\ p \in Endpoints
  BY TwoEnds DEF ConnectionInv, ConnectionTypes
<1>2. n \in Nat /\ n \in 0..Len(s)
  BY <1>1, ElementOfSeq, LenProperties DEF PeerHeaderCells
<1>3. PICK u \in Seq(Nat), g \in Seq(Nat) : h \o s = u \o g /\ Whole(Frames(p), u) /\ PartWritten(p, g)
  BY DEF ConnectionInv, FlowInv
<1>4. /\ SubSeq(s, 1, n) \in Seq(Nat) /\ Len(SubSeq(s, 1, n)) = n /\ rest \in Seq(Nat)
      /\ SubSeq(s, 1, n) \o rest = s
  BY <1>1, <1>2, CellsSplit
<1> HIDE DEF h, s, rest
<1>5. b \in Seq(Nat) /\ Len(b) = PeerHeaderCells + n /\ h \o s = b \o rest
  <2> DEFINE x == SubSeq(s, 1, n)
  <2>1. x \in Seq(Nat) /\ Len(x) = n /\ x \o rest = s
    BY <1>4
  <2> HIDE DEF x
  <2>2. h \o x \in Seq(Nat) /\ Len(h \o x) = Len(h) + Len(x)
    BY <1>1, <2>1, ConcatCells
  <2>3. (h \o x) \o rest = h \o (x \o rest)
    <3>1. h \in Seq(Nat) /\ rest \in Seq(Nat)
      BY <1>1, <1>4
    <3>2. x \in Seq(Nat)
      BY <2>1
    <3> QED
      BY <3>1, <3>2, CellsAssociate, ZenonT(40)
  <2>4. b = h \o x
    BY DEF x
  <2> HIDE DEF b
  <2> QED
    BY <1>1, <2>1, <2>2, <2>3, <2>4
<1> HIDE DEF b
(* A frame of p's that agrees with what was read as far as both go.        *)
<1>6. ASSUME NEW f \in Frames(p), NEW v \in Seq(Nat), NEW w \in Seq(Nat),
             \/ f \o v = h \o s
             \/ f = (h \o s) \o w
      PROVE  Len(f) = PeerHeaderCells + n
  <2>2. f \in Seq(Nat) /\ Len(f) = PeerHeaderCells + f[6] /\ f[6] \in Nat
    BY <1>1, FrameOf
  <2>3. 6 \in 1..Len(h) /\ 6 \in 1..Len(f) /\ 6 \in 1..Len(h \o s) /\ h \o s \in Seq(Nat)
    <3>1. h \o s \in Seq(Nat) /\ Len(h \o s) = Len(h) + Len(s) /\ Len(s) \in Nat
      BY <1>1, ConcatCells
    <3>2. Len(h) = 6
      BY <1>1 DEF PeerHeaderCells
    <3>3. Len(f) \in Nat /\ Len(f) >= 6
      BY <2>2 DEF PeerHeaderCells
    <3>4. Len(h \o s) \in Nat /\ Len(h \o s) >= 6
      BY <3>1, <3>2
    <3> QED
      BY <3>1, <3>2, <3>3, <3>4
  <2>4. (h \o s)[6] = h[6]
    BY <1>1, <2>3, ConcatCells
  <2>5. f[6] = h[6]
    <3>1. CASE f \o v = h \o s
      <4>1. (f \o v)[6] = f[6]
        BY <2>2, <2>3, ConcatCells
      <4> QED
        BY <2>4, <3>1, <4>1
    <3>2. CASE f = (h \o s) \o w
      <4>1. ((h \o s) \o w)[6] = (h \o s)[6]
        BY <2>3, ConcatCells
      <4> QED
        BY <2>4, <3>2, <4>1
    <3> QED
      BY <1>6, <3>1, <3>2
  <2>6. n = h[6]
    BY DEF h
  <2> QED
    BY <2>2, <2>5, <2>6
<1>7. u # <<>>
  <2> SUFFICES ASSUME u = <<>> PROVE FALSE
    OBVIOUS
  <2>1. h \o s = g
    BY <1>3, ConcatCells
  <2>2. g # <<>>
    BY <1>1, <2>1, ConcatCells
  <2>3. PICK w \in Seq(Nat) : w # <<>> /\ g \o w \in Frames(p)
    BY <1>3, <2>2 DEF PartWritten
  <2>4. Len(g \o w) = PeerHeaderCells + n
    BY <1>6, <2>1, <2>3
  <2>5. Len(g \o w) = Len(g) + Len(w) /\ Len(w) \in Nat /\ Len(w) # 0 /\ Len(g) \in Nat
    BY <2>3, ConcatCells
  <2>6. Len(g) = PeerHeaderCells + n + Len(rest) /\ Len(rest) \in Nat
    <3>1. Len(b \o rest) = Len(b) + Len(rest) /\ Len(rest) \in Nat
      BY <1>4, <1>5, ConcatCells
    <3> QED
      BY <1>5, <2>1, <3>1
  <2> QED
    <3> DEFINE lg == Len(g)  lw == Len(w)  lr == Len(rest)
    <3>1. lg + lw = PeerHeaderCells + n /\ lg = PeerHeaderCells + n + lr
      BY <2>4, <2>5, <2>6
    <3>2. lg \in Nat /\ lw \in Nat /\ lw # 0 /\ lr \in Nat
      BY <2>5, <2>6
    <3>3. n \in Nat /\ PeerHeaderCells \in Nat
      BY <1>2 DEF PeerHeaderCells
    <3> DEFINE c == PeerHeaderCells
    <3> HIDE DEF lg, lw, lr, c
    <3>4. lg + lw = c + n /\ lg = c + n + lr /\ n \in Nat /\ c \in Nat
      BY <3>1, <3>3 DEF c
    <3> QED
      BY <3>2, <3>4
<1>8. PICK f \in Frames(p), v \in Seq(Nat) : u = f \o v /\ Whole(Frames(p), v)
  <2>1. Frames(p) \subseteq Seq(Nat) /\ Whole(Frames(p), u)
    BY <1>1, <1>3, SentFrames
  <2> QED
    BY <1>7, <2>1, WholeBegins, Zenon
<1>9. f \in Seq(Nat) /\ v \o g \in Seq(Nat) /\ h \o s = f \o (v \o g)
  <2>1. f \in Seq(Nat) /\ v \o g \in Seq(Nat)
    BY <1>1, SentFrames, ConcatCells
  <2>2. (f \o v) \o g = f \o (v \o g)
    <3>1. f \in Seq(Nat) /\ v \in Seq(Nat) /\ g \in Seq(Nat)
      BY <2>1, <1>8, <1>3
    <3> QED
      BY <3>1, CellsAssociate, Zenon
  <2> QED
    BY <1>3, <1>8, <2>1, <2>2
<1>10. Len(f) = Len(b)
  <2>1. <<>> \in Seq(Nat)
    BY EmptySeq
  <2> QED
    BY <1>5, <1>6, <1>9, <2>1
<1>11. f = b /\ v \o g = rest
  BY <1>4, <1>5, <1>9, <1>10, ConcatFront
<1>12. PICK i \in 1..Len(sent[p]) : f = EncodePeerFrame(i - 1, sent[p][i]).val
  BY DEF Frames
<1> QED
  BY <1>3, <1>8, <1>11, <1>12 DEF b, h, s, rest, FrameAhead
-----------------------------------------------------------------------------
(* receive takes frame b for message m, and its session becomes t.         *)
Accepts(s, t, m, b) ==
    LET d == DecodePeerFrame(b, HelloNetwork(s.local))
    IN  /\ d.ok /\ d.val.seq = s.inSeq /\ d.val.msg = m /\ m \in Readable
        /\ EnsureBudget(s, Len(b))
        /\ Received(s, t, m, Len(b))
        /\ m.kind = Kinds.Hello =>
             /\ HelloFingerprint(m.body) = HelloFingerprint(s.local)
             /\ HelloNonce(m.body) # HelloNonce(s.local)
        /\ m.kind # Kinds.Hello => s.remote # <<>>

Takes(a, t, m, b) ==
    /\ a \in Endpoints /\ activity[a] = "reading" /\ header[a] # <<>>
    /\ Len(stream[a]) >= header[a][6]
    /\ b = header[a] \o SubSeq(stream[a], 1, header[a][6])
    /\ Accepts(session[a], t, m, b)
    /\ session' = [session EXCEPT ![a] = t]
    /\ surfaced' = [surfaced EXCEPT ![a] = Append(@, m)]
    /\ stream' = [stream EXCEPT ![a] = SubSeq(@, header[a][6] + 1, Len(@))]
    /\ header' = [header EXCEPT ![a] = <<>>]
    /\ activity' = [activity EXCEPT ![a] = "app"]
    /\ since' = [since EXCEPT ![a] = 0]
    /\ UNCHANGED <<ended, now, outbox, sent, cut, faults>>

(* What a has read: a header and as many cells as it announces.            *)
LEMMA PayloadRead ==
  ASSUME ConnectionInv, NEW a \in Endpoints, header[a] # <<>>,
         NEW n, n = header[a][6], Len(stream[a]) >= n,
         NEW b, b = header[a] \o SubSeq(stream[a], 1, n)
  PROVE  /\ n \in Nat /\ n \in 0..Len(stream[a])
         /\ b \in Seq(Nat) /\ Len(b) = PeerHeaderCells + n /\ Len(b) >= PeerHeaderCells
         /\ SubSeq(stream[a], n + 1, Len(stream[a])) \in Seq(Nat)
<1>1. /\ header[a] \in Seq(Nat) /\ Len(header[a]) = PeerHeaderCells /\ stream[a] \in Seq(Nat)
  BY DEF ConnectionInv, ConnectionTypes
<1>2. n \in Nat /\ n \in 0..Len(stream[a])
  BY <1>1, ElementOfSeq, LenProperties DEF PeerHeaderCells
<1>3. /\ SubSeq(stream[a], 1, n) \in Seq(Nat) /\ Len(SubSeq(stream[a], 1, n)) = n
      /\ SubSeq(stream[a], n + 1, Len(stream[a])) \in Seq(Nat)
  BY <1>1, <1>2, CellsSplit
<1>4. b \in Seq(Nat) /\ Len(b) = Len(header[a]) + Len(SubSeq(stream[a], 1, n))
  BY <1>1, <1>3, ConcatCells
<1>5. Len(b) = PeerHeaderCells + n
  BY <1>1, <1>3, <1>4
<1>6. Len(b) >= PeerHeaderCells
  BY <1>2, <1>5 DEF PeerHeaderCells
<1>7. n \in Nat /\ n \in 0..Len(stream[a]) /\ b \in Seq(Nat)
  BY <1>2, <1>4
<1>8. SubSeq(stream[a], n + 1, Len(stream[a])) \in Seq(Nat)
  BY <1>3
<1> QED
  BY <1>5, <1>6, <1>7, <1>8, ZenonT(40)

LEMMA TakesTypes ==
  ASSUME ConnectionInv, NEW a, NEW t, NEW m, NEW b, Takes(a, t, m, b)
  PROVE  /\ a \in Endpoints
         /\ session' \in [Endpoints -> Sessions] /\ session'[a] = t
         /\ surfaced' \in [Endpoints -> Seq(Readable)]
         /\ surfaced'[a] = Append(surfaced[a], m)
         /\ stream' \in [Endpoints -> Seq(Nat)]
         /\ stream'[a] = SubSeq(stream[a], header[a][6] + 1, Len(stream[a]))
         /\ header' \in [Endpoints -> Seq(Nat)] /\ header'[a] = <<>>
         /\ activity' \in [Endpoints -> {"app", "writing", "reading", "closed"}]
         /\ activity'[a] = "app"
         /\ since' \in [Endpoints -> 0..MaxTime]
         /\ \A e \in Endpoints : e # a =>
              /\ session'[e] = session[e] /\ surfaced'[e] = surfaced[e]
              /\ stream'[e] = stream[e] /\ header'[e] = header[e] /\ activity'[e] = activity[e]
<1>1. a \in Endpoints /\ t \in Sessions /\ m \in Readable
  BY DEF Takes, Accepts, Received
<1>2. SubSeq(stream[a], header[a][6] + 1, Len(stream[a])) \in Seq(Nat)
  BY PayloadRead DEF Takes
<1>3. /\ session \in [Endpoints -> Sessions] /\ surfaced \in [Endpoints -> Seq(Readable)]
      /\ stream \in [Endpoints -> Seq(Nat)] /\ header \in [Endpoints -> Seq(Nat)]
      /\ activity \in [Endpoints -> {"app", "writing", "reading", "closed"}]
      /\ since \in [Endpoints -> 0..MaxTime]
  BY DEF ConnectionInv, ConnectionTypes, SessionTypeOK
<1>4. Append(surfaced[a], m) \in Seq(Readable) /\ <<>> \in Seq(Nat) /\ 0 \in 0..MaxTime
  BY <1>1, <1>3, AppendProperties, EmptySeq, SessionAssumption
<1>5. session' \in [Endpoints -> Sessions] /\ session'[a] = t
      /\ \A e \in Endpoints : e # a => session'[e] = session[e]
  BY <1>1, <1>3 DEF Takes
<1>6. surfaced' \in [Endpoints -> Seq(Readable)] /\ surfaced'[a] = Append(surfaced[a], m)
      /\ \A e \in Endpoints : e # a => surfaced'[e] = surfaced[e]
  BY <1>1, <1>3, <1>4 DEF Takes
<1>7. /\ stream' \in [Endpoints -> Seq(Nat)]
      /\ stream'[a] = SubSeq(stream[a], header[a][6] + 1, Len(stream[a]))
      /\ \A e \in Endpoints : e # a => stream'[e] = stream[e]
  BY <1>1, <1>2, <1>3 DEF Takes
<1>8. header' \in [Endpoints -> Seq(Nat)] /\ header'[a] = <<>>
      /\ \A e \in Endpoints : e # a => header'[e] = header[e]
  BY <1>1, <1>3, <1>4 DEF Takes
<1>9. /\ activity' \in [Endpoints -> {"app", "writing", "reading", "closed"}]
      /\ activity'[a] = "app"
      /\ \A e \in Endpoints : e # a => activity'[e] = activity[e]
  BY <1>1, <1>3 DEF Takes
<1>10. since' \in [Endpoints -> 0..MaxTime]
  BY <1>1, <1>3, <1>4 DEF Takes
<1> QED
  BY <1>1, <1>5, <1>6, <1>7, <1>8, <1>9, <1>10

LEMMA TakesCounts ==
  ASSUME ConnectionInv, NEW a, NEW t, NEW m, NEW b, Takes(a, t, m, b)
  PROVE  \A e \in Endpoints : CountsInv(e)' /\ SentInv(e)'
<1>1. /\ a \in Endpoints /\ session'[a] = t /\ surfaced'[a] = Append(surfaced[a], m)
      /\ activity'[a] = "app"
      /\ \A e \in Endpoints : e # a =>
           /\ session'[e] = session[e] /\ surfaced'[e] = surfaced[e] /\ activity'[e] = activity[e]
  BY TakesTypes
<1>2. sent' = sent
  BY DEF Takes
<1> SUFFICES ASSUME NEW e \in Endpoints PROVE CountsInv(e)' /\ SentInv(e)'
  OBVIOUS
<1>3. CASE e # a
  BY <1>1, <1>2, <1>3 DEF ConnectionInv, CountsInv, SentInv
<1>4. CASE e = a
  <2> DEFINE s == session[a]
  <2>1. Received(s, t, m, Len(b)) /\ EnsureBudget(s, Len(b)) /\ m \in Readable
    BY DEF Takes, Accepts
  <2>2. CountsInv(a) /\ SentInv(a) /\ s \in Sessions /\ surfaced[a] \in Seq(Readable)
    BY <1>1 DEF ConnectionInv, ConnectionTypes
  <2>3. Len(Append(surfaced[a], m)) = Len(surfaced[a]) + 1
    BY <2>1, <2>2, AppendProperties
  <2>4. activity[a] = "reading"
    BY DEF Takes
  <2>5. CountsInv(a)'
    BY <1>1, <1>2, <2>1, <2>2, <2>3, <2>4 DEF CountsInv, Received, EnsureBudget, Sessions
  <2>6. t.local = s.local /\ (s.remote # <<>> => t.remote # <<>>)
    BY <2>1 DEF Received
  <2>7. SentInv(a)'
    BY <1>1, <1>2, <2>2, <2>6 DEF SentInv
  <2> QED
    BY <1>4, <2>5, <2>7
<1> QED
  BY <1>3, <1>4

(* What a takes is the message p sent next.                                *)
LEMMA TakenWasSent ==
  ASSUME ConnectionInv, NEW a, NEW t, NEW m, NEW b, Takes(a, t, m, b),
         NEW p, p = Other(a), "cell" \notin faults[p]
  PROVE  LET i == Len(surfaced[a]) + 1
         IN  /\ i \in 1..Len(sent[p]) /\ m = sent[p][i] /\ m \in Sendable
             /\ Len(b) = FrameSize[m] /\ FrameSize[m] \in Nat
             /\ m.kind = Kinds.Hello => m.body = session[p].local
                                        /\ Compatible(session[a].local, session[p].local)
             /\ m.kind # Kinds.Hello => session[a].remote # <<>>
<1> DEFINE s == session[a]
           d == DecodePeerFrame(b, HelloNetwork(s.local))
<1>1. /\ a \in Endpoints /\ p \in Endpoints /\ activity[a] = "reading" /\ header[a] # <<>>
      /\ Len(stream[a]) >= header[a][6]
      /\ b = header[a] \o SubSeq(stream[a], 1, header[a][6])
      /\ Accepts(s, t, m, b)
  BY TwoEnds DEF Takes
<1>2. PICK i \in 1..Len(sent[p]) : b = EncodePeerFrame(i - 1, sent[p][i]).val
  <2>1. PICK n : n = header[a][6]
    OBVIOUS
  <2>2. b = header[a] \o SubSeq(stream[a], 1, n)
    BY <1>1, <2>1
  <2>3. Len(stream[a]) >= n
    BY <1>1, <2>1
  <2>4. FrameAhead(a, p, n)
    BY <1>1, <2>1, <2>3, NextFrame
  <2> QED
    BY <2>2, <2>4 DEF FrameAhead
<1>3. /\ i - 1 \in Nat /\ sent[p][i] \in Sendable /\ \E j : EncodePeerFrame(j, sent[p][i]).ok
      /\ s.local \in AllHellos /\ CountsInv(a) /\ SentInv(p)
  BY <1>1, SentFrames DEF ConnectionInv, ConnectionTypes, Sessions
<1>4. d.ok /\ d.val.seq = s.inSeq /\ d.val.msg = m
  BY <1>1 DEF Accepts
<1>5. /\ d.val.seq = i - 1 /\ d.val.msg = sent[p][i]
      /\ sent[p][i].kind = Kinds.Hello => HelloNetwork(sent[p][i].body) = HelloNetwork(s.local)
  <2> HIDE DEF s
  <2>1. d = DecodePeerFrame(EncodePeerFrame(i - 1, sent[p][i]).val, HelloNetwork(s.local))
    BY <1>2
  <2> QED
    BY <1>3, <1>4, <2>1, FrameRead
<1>6. i = Len(surfaced[a]) + 1 /\ m = sent[p][i]
  BY <1>3, <1>4, <1>5 DEF CountsInv
<1>7. Len(b) = FrameSize[m] /\ FrameSize[m] \in Nat
  <2>1. EncodePeerFrame(i - 1, m).ok
    BY <1>3, <1>6, FrameForm
  <2> QED
    BY <1>2, <1>3, <1>6, <2>1, FrameSizeIs
<1>8. ASSUME m.kind = Kinds.Hello
      PROVE  m.body = session[p].local /\ Compatible(s.local, session[p].local)
  <2>1. m.body = session[p].local
    BY <1>3, <1>6, <1>8 DEF SentInv
  <2>2. /\ HelloFingerprint(m.body) = HelloFingerprint(s.local)
        /\ HelloNonce(m.body) # HelloNonce(s.local)
    BY <1>1, <1>8 DEF Accepts
  <2>3. HelloNetwork(m.body) = HelloNetwork(s.local)
    BY <1>5, <1>6, <1>8
  <2> QED
    BY <2>1, <2>2, <2>3 DEF Compatible
<1>9. m.kind # Kinds.Hello => s.remote # <<>>
  BY <1>1 DEF Accepts
<1> HIDE DEF d
<1> QED
  BY <1>2, <1>3, <1>6, <1>7, <1>8, <1>9

(* Sizes of what has been sent and taken.                                  *)
LEMMA SentSize ==
  ASSUME ConnectionInv, NEW p \in Endpoints
  PROVE  /\ FramesSize(sent[p]) \in Nat
         /\ \A i \in 1..Len(sent[p]) : FrameSize[sent[p][i]] \in Nat
<1>1. \A i \in 1..Len(sent[p]) : FrameSize[sent[p][i]] \in Nat
  <2> SUFFICES ASSUME NEW i \in 1..Len(sent[p]) PROVE FrameSize[sent[p][i]] \in Nat
    OBVIOUS
  <2>1. 0 \in Nat /\ sent[p][i] \in Sendable /\ EncodePeerFrame(0, sent[p][i]).ok
    BY SentFrames
  <2> QED
    BY <2>1, FrameSizeIs
<1>2. Len(sent[p]) \in Nat
  BY SentFrames
<1> QED
  BY <1>1, <1>2, FramesSizeNat

LEMMA HeardSize ==
  ASSUME ConnectionInv, NEW a \in Endpoints, NEW p, p = Other(a), "cell" \notin faults[p]
  PROVE  FramesSize(surfaced[a]) \in Nat
<1>1. p \in Endpoints /\ surfaced[a] \in Seq(Readable)
  BY TwoEnds DEF ConnectionInv, ConnectionTypes
<1>2. /\ Len(surfaced[a]) \in Nat /\ Len(surfaced[a]) <= Len(sent[p]) /\ Len(sent[p]) \in Nat
      /\ \A i \in 1..Len(surfaced[a]) : surfaced[a][i] = sent[p][i]
  BY <1>1, LenProperties, SentFrames DEF ConnectionInv, HeardInv
<1>3. \A i \in 1..Len(surfaced[a]) : FrameSize[surfaced[a][i]] \in Nat
  <2> SUFFICES ASSUME NEW i \in 1..Len(surfaced[a]) PROVE FrameSize[surfaced[a][i]] \in Nat
    OBVIOUS
  <2>1. i \in 1..Len(sent[p]) /\ surfaced[a][i] = sent[p][i]
    BY <1>2
  <2> QED
    BY <1>1, <2>1, SentSize
<1> QED
  BY <1>2, <1>3, FramesSizeNat

LEMMA TakesHeard ==
  ASSUME ConnectionInv, NEW a, NEW t, NEW m, NEW b, Takes(a, t, m, b)
  PROVE  \A e \in Endpoints : HeardInv(e)'
<1> DEFINE p == Other(a)
<1>1. /\ a \in Endpoints /\ session'[a] = t /\ surfaced'[a] = Append(surfaced[a], m)
      /\ \A e \in Endpoints : e # a => session'[e] = session[e] /\ surfaced'[e] = surfaced[e]
  BY TakesTypes
<1>2. /\ p \in Endpoints /\ p # a /\ Other(p) = a /\ p' = p /\ Other(p)' = a
      /\ \A e \in Endpoints : e = a \/ e = p
  BY <1>1, TwoEnds DEF Other
<1>3. sent' = sent /\ faults' = faults
  BY DEF Takes
<1>4. Received(session[a], t, m, Len(b)) /\ m \in Readable
  BY DEF Takes, Accepts
<1>5. session'[a].local = session[a].local
  BY <1>1, <1>4 DEF Received
<1>6. HeardInv(p)'
  <2>1. HeardInv(p) /\ session'[p] = session[p] /\ surfaced'[p] = surfaced[p]
    BY <1>1, <1>2 DEF ConnectionInv
  <2> QED
    BY <1>2, <1>3, <1>5, <2>1 DEF HeardInv
<1>7. HeardInv(a)'
  <2> SUFFICES ASSUME "cell" \notin faults[p]
               PROVE  LET s == session'[a]
                          q == surfaced'[a]
                      IN  /\ Len(q) <= Len(sent[p])
                          /\ \A i \in 1..Len(q) : q[i] = sent[p][i]
                          /\ s.remote # <<>> => s.remote = <<session[p].local>>
                                                /\ Compatible(s.local, session[p].local)
                          /\ \A i \in 1..Len(q) : q[i].kind # Kinds.Hello => s.remote # <<>>
                          /\ s.outSeq = Len(sent[a])
                                => s.bytes = FramesSize(sent[a]) + FramesSize(q)
    BY <1>1, <1>2, <1>3 DEF HeardInv
  <2> DEFINE s == session[a]
             q == surfaced[a]
  <2>1. /\ Len(q) + 1 \in 1..Len(sent[p]) /\ m = sent[p][Len(q) + 1] /\ m \in Sendable
        /\ Len(b) = FrameSize[m] /\ FrameSize[m] \in Nat
        /\ m.kind = Kinds.Hello => m.body = session[p].local
                                   /\ Compatible(s.local, session[p].local)
        /\ m.kind # Kinds.Hello => s.remote # <<>>
    BY TakenWasSent
  <2>2. /\ q \in Seq(Readable) /\ Len(q) \in Nat /\ Len(surfaced'[a]) = Len(q) + 1
        /\ surfaced'[a][Len(q) + 1] = m
        /\ \A i \in 1..Len(q) : surfaced'[a][i] = q[i]
    <3>1. q \in Seq(Readable)
      BY <1>1 DEF ConnectionInv, ConnectionTypes
    <3> QED
      BY <1>1, <1>4, <3>1, AppendProperties, LenProperties
  <2>3. HeardInv(a)
    BY <1>1 DEF ConnectionInv
  <2>4. /\ Len(q) <= Len(sent[p])
        /\ \A i \in 1..Len(q) : q[i] = sent[p][i]
        /\ s.remote # <<>> => s.remote = <<session[p].local>> /\ Compatible(s.local, session[p].local)
        /\ \A i \in 1..Len(q) : q[i].kind # Kinds.Hello => s.remote # <<>>
        /\ s.outSeq = Len(sent[a]) => s.bytes = FramesSize(sent[a]) + FramesSize(q)
    BY <2>3 DEF HeardInv
  <2>5. /\ t.local = s.local /\ t.outSeq = s.outSeq /\ t.bytes = s.bytes + Len(b)
        /\ m.kind = Kinds.Hello => t.remote = <<m.body>>
        /\ m.kind # Kinds.Hello => t.remote = s.remote
    BY <1>4 DEF Received
  <2>6. FramesSize(surfaced'[a]) = FramesSize(q) + FrameSize[m]
    BY <1>1, <1>4, <2>2, FramesSizeAppend
  <2>7. FramesSize(q) \in Nat /\ FramesSize(sent[a]) \in Nat
    BY <1>1, HeardSize, SentSize
  <2>8. \A i \in 1..Len(surfaced'[a]) : i \in 1..Len(q) \/ i = Len(q) + 1
    BY <2>2
  <2> HIDE DEF s, q, p
  <2>9. Len(surfaced'[a]) <= Len(sent[p])
    BY <2>1, <2>2
  <2>10. \A i \in 1..Len(surfaced'[a]) : surfaced'[a][i] = sent[p][i]
    BY <2>1, <2>2, <2>4, <2>8
  <2>11. t.remote # <<>> => t.remote = <<session[p].local>> /\ Compatible(t.local, session[p].local)
    BY <2>1, <2>4, <2>5
  <2>12. t.remote # <<>>
    <3>1. <<m.body>> # <<>>
      OBVIOUS
    <3> QED
      BY <2>1, <2>5, <3>1
  <2>13. t.outSeq = Len(sent[a]) => t.bytes = FramesSize(sent[a]) + FramesSize(surfaced'[a])
    BY <2>1, <2>4, <2>5, <2>6, <2>7
  <2> QED
    BY <1>1, <2>9, <2>10, <2>11, <2>12, <2>13
<1> QED
  BY <1>2, <1>6, <1>7

LEMMA TakesFlow ==
  ASSUME ConnectionInv, NEW a, NEW t, NEW m, NEW b, Takes(a, t, m, b)
  PROVE  \A e \in Endpoints : FlowInv(e)'
<1>1. PICK p : p = Other(a)
  OBVIOUS
<1>2. /\ a \in Endpoints /\ header'[a] = <<>> /\ activity'[a] = "app"
      /\ stream'[a] = SubSeq(stream[a], header[a][6] + 1, Len(stream[a]))
      /\ \A e \in Endpoints : e # a =>
           /\ stream'[e] = stream[e] /\ header'[e] = header[e] /\ activity'[e] = activity[e]
  BY TakesTypes
<1>3. /\ p \in Endpoints /\ p # a /\ Other(p) = a /\ Other(a)' = p
      /\ \A e \in Endpoints : e = a \/ e = p
  BY <1>1, <1>2, TwoEnds DEF Other
<1>4. UNCHANGED <<outbox, sent, cut, faults>> /\ activity[a] = "reading" /\ header[a] # <<>>
      /\ Len(stream[a]) >= header[a][6]
  BY DEF Takes
<1>5. FlowInv(p)'
  <2>1. Reads(p)
    BY <1>2, <1>3 DEF Reads
  <2>2. Idles(a)
    BY <1>2, <1>4 DEF Idles
  <2> QED
    BY <1>3, <2>1, <2>2, FlowKept
<1>6. FlowInv(a)'
  <2> SUFFICES ASSUME "cell" \notin faults[p]
               PROVE  \E u, g \in Seq(Nat) : /\ header'[a] \o stream'[a] = u \o g
                                             /\ Whole(Frames(p), u)'
                                             /\ PartWritten(p, g)'
    BY <1>3, <1>4 DEF FlowInv
  <2>1. PICK n : n = header[a][6]
    OBVIOUS
  <2>2. Len(stream[a]) >= n
    BY <1>4, <2>1
  <2>3. FrameAhead(a, p, n)
    BY <1>1, <1>2, <1>4, <2>1, <2>2, NextFrame
  <2>4. PICK u \in Seq(Nat), g \in Seq(Nat) :
          SubSeq(stream[a], n + 1, Len(stream[a])) = u \o g /\ Whole(Frames(p), u) /\ PartWritten(p, g)
    BY <2>3 DEF FrameAhead
  <2>5. header'[a] \o stream'[a] = u \o g
    <3>1. stream'[a] = u \o g
      BY <1>2, <2>1, <2>4
    <3> QED
      BY <1>2, <2>4, <3>1, ConcatCells
  <2>6. Whole(Frames(p), u)'
    <3>1. Frames(p)' = Frames(p)
      BY <1>4 DEF Frames
    <3> QED
      BY <2>4, <3>1 DEF Whole, Closed
  <2>7. PartWritten(p, g)'
    <3>1. activity'[p] = activity[p]
      BY <1>2, <1>3
    <3> QED
      BY <1>4, <2>4, <3>1, PartKept
  <2> QED
    BY <2>5, <2>6, <2>7
<1> QED
  BY <1>3, <1>5, <1>6

LEMMA TakesEnds ==
  ASSUME ConnectionInv, NEW a, NEW t, NEW m, NEW b, Takes(a, t, m, b)
  PROVE  \A e \in Endpoints : EndsInv(e)'
<1> SUFFICES ASSUME NEW e \in Endpoints PROVE EndsInv(e)'
  OBVIOUS
<1> DEFINE p == Other(e)
<1>1. a \in Endpoints /\ activity'[a] = "app" /\ \A z \in Endpoints : z # a => activity'[z] = activity[z]
  BY TakesTypes
<1>2. UNCHANGED <<ended, now, outbox, cut, faults>> /\ activity[a] = "reading"
  BY DEF Takes
<1>3. p \in Endpoints /\ p' = p
  BY TwoEnds DEF Other
<1>4. EndsInv(e)
  BY DEF ConnectionInv
<1>5. activity'[e] \in {"reading", "writing"} => activity'[e] = activity[e]
  BY <1>1
<1>6. activity[e] \in {"writing", "closed"} => activity'[e] = activity[e]
  BY <1>1, <1>2
<1>7. activity[p] = "closed" => activity'[p] = "closed"
  BY <1>1, <1>2, <1>3
<1> QED
  BY <1>2, <1>3, <1>4, <1>5, <1>6, <1>7 DEF EndsInv

LEMMA TakesKeeps ==
  ASSUME ConnectionInv, NEW a, NEW t, NEW m, NEW b, Takes(a, t, m, b)
  PROVE  ConnectionInv'
<1>1. /\ a \in Endpoints
      /\ session' \in [Endpoints -> Sessions] /\ session'[a] = t
      /\ surfaced' \in [Endpoints -> Seq(Readable)]
      /\ stream' \in [Endpoints -> Seq(Nat)]
      /\ header' \in [Endpoints -> Seq(Nat)] /\ header'[a] = <<>>
      /\ activity' \in [Endpoints -> {"app", "writing", "reading", "closed"}]
      /\ activity'[a] = "app"
      /\ since' \in [Endpoints -> 0..MaxTime]
      /\ \A e \in Endpoints : e # a =>
           session'[e] = session[e] /\ header'[e] = header[e] /\ activity'[e] = activity[e]
  BY TakesTypes
<1>2. UNCHANGED <<ended, now, outbox, sent, cut, faults>> /\ activity[a] = "reading"
  BY DEF Takes
<1>3. \A e \in Endpoints : CountsInv(e)' /\ SentInv(e)'
  BY TakesCounts
<1>4. ConnectionTypes
  BY DEF ConnectionInv
<1>5. ASSUME NEW e \in Endpoints
      PROVE  /\ session'[e].outSeq \in 0..MaxMessages /\ session'[e].inSeq \in 0..MaxMessages
             /\ header'[e] # <<>> => HeaderValid(header'[e]) /\ activity'[e] = "reading"
             /\ header'[e] # <<>> => Len(header'[e]) = PeerHeaderCells
             /\ (outbox'[e] # <<>>) = (activity'[e] = "writing")
             /\ (ended'[e] = "") = (activity'[e] # "closed")
  <2>1. session'[e].outSeq \in 0..MaxMessages /\ session'[e].inSeq \in 0..MaxMessages
    <3>1. session'[e] \in Sessions
      BY <1>1
    <3>2. session'[e].messages = session'[e].outSeq + session'[e].inSeq
          /\ session'[e].messages <= MaxMessages
      BY <1>3 DEF CountsInv
    <3>3. session'[e].outSeq \in Nat /\ session'[e].inSeq \in Nat /\ MaxMessages \in Nat
      BY <3>1, SessionAssumption DEF Sessions
    <3> QED
      BY <3>2, <3>3
  <2>2. CASE e = a
    <3>1. outbox[a] = <<>> /\ ended[a] = ""
      BY <1>1, <1>2, <1>4 DEF ConnectionTypes, SessionTypeOK
    <3> QED
      BY <1>1, <1>2, <2>1, <2>2, <3>1
  <2>3. CASE e # a
    <3>1. header'[e] = header[e] /\ activity'[e] = activity[e]
      BY <1>1, <2>3
    <3>2. /\ header[e] # <<>> => HeaderValid(header[e]) /\ activity[e] = "reading"
          /\ header[e] # <<>> => Len(header[e]) = PeerHeaderCells
          /\ (outbox[e] # <<>>) = (activity[e] = "writing")
          /\ (ended[e] = "") = (activity[e] # "closed")
      BY <1>4 DEF ConnectionTypes, SessionTypeOK
    <3> QED
      BY <1>2, <2>1, <3>1, <3>2
  <2> QED
    BY <2>2, <2>3
<1>6. ConnectionTypes'
  BY <1>1, <1>2, <1>4, <1>5 DEF ConnectionTypes, SessionTypeOK, HeaderValid
<1> QED
  BY <1>3, <1>6, TakesHeard, TakesFlow, TakesEnds DEF ConnectionInv

LEMMA ReadPayloadKeeps ==
  ASSUME ConnectionInv, NEW a \in Endpoints, ReadPayload(a)
  PROVE  ConnectionInv'
<1> DEFINE b == header[a] \o SubSeq(stream[a], 1, header[a][6])
           s == session[a]
           r == AcceptInbound(s, b)
<1>1. activity[a] = "reading" /\ header[a] # <<>> /\ Len(stream[a]) >= header[a][6]
  BY DEF ReadPayload
<1>2. b \in Seq(Nat) /\ Len(b) >= PeerHeaderCells /\ s \in Sessions
  BY <1>1, PayloadRead DEF ConnectionInv, ConnectionTypes
<1> HIDE DEF b, s
<1>3. /\ r.ok =>
              LET d == DecodePeerFrame(b, HelloNetwork(s.local))
                  m == d.val.msg
              IN  /\ d.ok /\ d.val.seq = s.inSeq
                  /\ m \in Readable
                  /\ EnsureBudget(s, Len(b))
                  /\ r.val.msg = m /\ Received(s, r.val.session, m, Len(b))
                  /\ m.kind = Kinds.Hello =>
                       /\ HelloFingerprint(m.body) = HelloFingerprint(s.local)
                       /\ HelloNonce(m.body) # HelloNonce(s.local)
                  /\ m.kind # Kinds.Hello => s.remote # <<>>
      /\ ~r.ok => Refused(r)
  BY <1>2, Inbound
<1> HIDE DEF r
<1>4. \/ /\ r.ok
         /\ session' = [session EXCEPT ![a] = r.val.session]
         /\ surfaced' = [surfaced EXCEPT ![a] = Append(@, r.val.msg)]
         /\ stream' = [stream EXCEPT ![a] = SubSeq(@, header[a][6] + 1, Len(@))]
         /\ header' = [header EXCEPT ![a] = <<>>]
         /\ activity' = [activity EXCEPT ![a] = "app"]
         /\ since' = [since EXCEPT ![a] = 0]
         /\ UNCHANGED <<ended, now>>
      \/ /\ ~r.ok
         /\ EndConnection(a, r.err)
         /\ stream' = [stream EXCEPT ![a] = <<>>]
         /\ UNCHANGED <<session, surfaced>>
  BY DEF ReadPayload, r, b, s
<1>5. UNCHANGED <<outbox, sent, cut, faults>>
  BY DEF ReadPayload
<1>6. CASE r.ok
  <2>1. Accepts(s, r.val.session, r.val.msg, b)
    BY <1>3, <1>6 DEF Accepts
  <2>2. Takes(a, r.val.session, r.val.msg, b)
    BY <1>1, <1>4, <1>5, <1>6, <2>1 DEF Takes, b, s
  <2> QED
    BY <2>2, TakesKeeps
<1>7. CASE ~r.ok
  <2>1. r.err # "" /\ r.err # "PeerClosed"
    BY <1>3, <1>7 DEF Refused
  <2>2. Ending(a)
    BY <1>1, <1>4, <1>5, <1>7, <2>1, EndingIs
  <2> QED
    BY <1>4, <1>7, <2>2, ClosingKeeps
<1> QED
  BY <1>6, <1>7
-----------------------------------------------------------------------------
(* Send.                                                                   *)

(* a's session is charged for a frame that then never leaves.              *)
LEMMA ChargedKeeps ==
  ASSUME ConnectionInv, NEW a, Ending(a), NEW t, NEW n \in Nat,
         Sent(session[a], t, n), EnsureBudget(session[a], n),
         session' = [session EXCEPT ![a] = t]
  PROVE  ConnectionInv'
<1> DEFINE s == session[a]
           p == Other(a)
<1>1. /\ a \in Endpoints /\ p \in Endpoints /\ p # a /\ Other(p) = a /\ p' = p /\ Other(p)' = a
      /\ \A e \in Endpoints : e = a \/ e = p
  <2>1. a \in Endpoints
    BY DEF Ending
  <2> QED
    BY <2>1, TwoEnds DEF Other
<1>2. /\ session' \in [Endpoints -> Sessions] /\ session'[a] = t /\ s \in Sessions
      /\ t \in Sessions /\ session'[p] = session[p]
  BY <1>1 DEF Sent, ConnectionInv, ConnectionTypes
<1>3. /\ UNCHANGED <<sent, surfaced, faults>> /\ activity'[a] = "closed"
      /\ \A e \in Endpoints : e # a => activity'[e] = activity[e]
  BY EndingEnds DEF Ending
<1>4. /\ t.local = s.local /\ t.remote = s.remote /\ t.outSeq = s.outSeq + 1
      /\ t.inSeq = s.inSeq /\ t.messages = s.messages + 1 /\ t.bytes = s.bytes + n
  BY DEF Sent
<1>5. /\ CountsInv(a) /\ CountsInv(p) /\ SentInv(a) /\ SentInv(p) /\ HeardInv(a) /\ HeardInv(p)
  BY <1>1 DEF ConnectionInv
<1>6. s.messages + 1 <= MaxMessages /\ s.bytes + n <= MaxBytes
  BY DEF EnsureBudget
<1>7. Len(sent[a]) \in Nat /\ s.outSeq \in Nat /\ s.inSeq \in Nat /\ Len(sent[a]) <= s.outSeq
  BY <1>1, <1>2, <1>5, SentFrames DEF CountsInv, Sessions
<1>8. CountsInv(a)'
  BY <1>2, <1>3, <1>4, <1>5, <1>6, <1>7 DEF CountsInv
<1>9. CountsInv(p)'
  BY <1>1, <1>2, <1>3, <1>5 DEF CountsInv
<1>10. SentInv(a)' /\ SentInv(p)'
  BY <1>2, <1>3, <1>4, <1>5 DEF SentInv
<1>11. HeardInv(a)'
  <2>1. t.outSeq # Len(sent[a])
    BY <1>4, <1>7
  <2> QED
    BY <1>1, <1>2, <1>3, <1>4, <1>5, <2>1 DEF HeardInv
<1>12. HeardInv(p)'
  BY <1>1, <1>2, <1>3, <1>4, <1>5 DEF HeardInv
<1>13. ASSUME NEW e \in Endpoints
       PROVE  session'[e].outSeq \in 0..MaxMessages /\ session'[e].inSeq \in 0..MaxMessages
  <2>1. session'[e] \in Sessions /\ CountsInv(e)'
    BY <1>1, <1>2, <1>8, <1>9
  <2>2. /\ session'[e].outSeq \in Nat /\ session'[e].inSeq \in Nat /\ MaxMessages \in Nat
        /\ session'[e].messages = session'[e].outSeq + session'[e].inSeq
        /\ session'[e].messages <= MaxMessages
    BY <2>1, SessionAssumption DEF CountsInv, Sessions
  <2> QED
    BY <2>2
<1>14. ConnectionTypes' /\ \A e \in Endpoints : FlowInv(e)' /\ EndsInv(e)'
  BY <1>2, <1>13, EndingKeeps
<1> HIDE DEF s, p
<1>15. \A e \in Endpoints : CountsInv(e)' /\ SentInv(e)' /\ HeardInv(e)'
  BY <1>1, <1>8, <1>9, <1>10, <1>11, <1>12
<1> QED
  BY <1>14, <1>15 DEF ConnectionInv

(* a hands frame f of message m to the writer, and its session becomes t.  *)
Leaves(s, t, m, f) ==
    /\ m \in Sendable
    /\ EncodePeerFrame(s.outSeq, m).ok /\ f = EncodePeerFrame(s.outSeq, m).val
    /\ EnsureBudget(s, Len(f)) /\ Sent(s, t, Len(f))
    /\ m.kind = Kinds.Hello => m.body = s.local
    /\ m.kind # Kinds.Hello => s.remote # <<>>

Gives(a, t, m, f) ==
    /\ a \in Endpoints /\ activity[a] = "app" /\ now < TotalTimeout
    /\ Leaves(session[a], t, m, f)
    /\ session' = [session EXCEPT ![a] = t]
    /\ outbox' = [outbox EXCEPT ![a] = f]
    /\ sent' = [sent EXCEPT ![a] = Append(@, m)]
    /\ activity' = [activity EXCEPT ![a] = "writing"]
    /\ since' = [since EXCEPT ![a] = now]
    /\ UNCHANGED <<header, now, ended, stream, surfaced, cut, faults>>

LEMMA GivesTypes ==
  ASSUME ConnectionInv, NEW a, NEW t, NEW m, NEW f, Gives(a, t, m, f)
  PROVE  /\ a \in Endpoints /\ m \in Sendable
         /\ f \in Seq(Nat) /\ Len(f) \in Nat /\ Len(f) >= PeerHeaderCells /\ f # <<>>
         /\ Len(f) = FrameSize[m] /\ FrameSize[m] \in Nat /\ EncodePeerFrame(0, m).ok
         /\ session' \in [Endpoints -> Sessions] /\ session'[a] = t
         /\ outbox' \in [Endpoints -> Seq(Nat)] /\ outbox'[a] = f
         /\ sent' \in [Endpoints -> Seq(Sendable)] /\ sent'[a] = Append(sent[a], m)
         /\ activity' \in [Endpoints -> {"app", "writing", "reading", "closed"}]
         /\ activity'[a] = "writing"
         /\ since' \in [Endpoints -> 0..MaxTime]
         /\ \A e \in Endpoints : e # a =>
              /\ session'[e] = session[e] /\ sent'[e] = sent[e]
              /\ outbox'[e] = outbox[e] /\ activity'[e] = activity[e]
<1>1. /\ a \in Endpoints /\ t \in Sessions /\ m \in Sendable
      /\ EncodePeerFrame(session[a].outSeq, m).ok
      /\ f = EncodePeerFrame(session[a].outSeq, m).val
  BY DEF Gives, Leaves, Sent
<1>2. /\ session \in [Endpoints -> Sessions] /\ outbox \in [Endpoints -> Seq(Nat)]
      /\ sent \in [Endpoints -> Seq(Sendable)] /\ now \in 0..MaxTime
      /\ activity \in [Endpoints -> {"app", "writing", "reading", "closed"}]
      /\ since \in [Endpoints -> 0..MaxTime]
  BY DEF ConnectionInv, ConnectionTypes, SessionTypeOK
<1>3. session[a].outSeq \in Nat
  BY <1>1, <1>2 DEF Sessions
<1>4. \E j : EncodePeerFrame(j, m).ok
  BY <1>1
<1>5. f \in Seq(Nat) /\ Len(f) = PeerHeaderCells + f[6] /\ f[6] \in Nat
  BY <1>1, <1>3, <1>4, FrameFields
<1>6. Len(f) \in Nat /\ Len(f) >= PeerHeaderCells /\ f # <<>>
  <2>1. Len(f) \in Nat /\ Len(f) >= 6
    BY <1>5 DEF PeerHeaderCells
  <2>2. Len(<<>>) = 0
    OBVIOUS
  <2> QED
    BY <2>1, <2>2 DEF PeerHeaderCells
<1>7. Len(f) = FrameSize[m] /\ FrameSize[m] \in Nat
  BY <1>1, <1>3, FrameSizeIs
<1>8. EncodePeerFrame(0, m).ok
  BY <1>1, <1>4, FrameForm
<1>9. Append(sent[a], m) \in Seq(Sendable)
  BY <1>1, <1>2, AppendProperties
<1>10. /\ session' \in [Endpoints -> Sessions] /\ session'[a] = t
       /\ \A e \in Endpoints : e # a => session'[e] = session[e]
  BY <1>1, <1>2 DEF Gives
<1>11. /\ outbox' \in [Endpoints -> Seq(Nat)] /\ outbox'[a] = f
       /\ \A e \in Endpoints : e # a => outbox'[e] = outbox[e]
  BY <1>1, <1>2, <1>5 DEF Gives
<1>12. /\ sent' \in [Endpoints -> Seq(Sendable)] /\ sent'[a] = Append(sent[a], m)
       /\ \A e \in Endpoints : e # a => sent'[e] = sent[e]
  BY <1>1, <1>2, <1>9 DEF Gives
<1>13. /\ activity' \in [Endpoints -> {"app", "writing", "reading", "closed"}]
       /\ activity'[a] = "writing" /\ since' \in [Endpoints -> 0..MaxTime]
       /\ \A e \in Endpoints : e # a => activity'[e] = activity[e]
  BY <1>1, <1>2 DEF Gives
<1> QED
  BY <1>1, <1>5, <1>6, <1>7, <1>8, <1>10, <1>11, <1>12, <1>13

LEMMA GivesSessions ==
  ASSUME ConnectionInv, NEW a, NEW t, NEW m, NEW f, Gives(a, t, m, f)
  PROVE  \A e \in Endpoints : CountsInv(e)' /\ SentInv(e)' /\ HeardInv(e)'
<1> DEFINE s == session[a]
           p == Other(a)
           w == sent[a]
<1>1. /\ a \in Endpoints /\ m \in Sendable
      /\ Len(f) \in Nat /\ Len(f) = FrameSize[m] /\ FrameSize[m] \in Nat
      /\ EncodePeerFrame(0, m).ok
      /\ session'[a] = t /\ sent'[a] = Append(w, m) /\ activity'[a] = "writing"
      /\ \A e \in Endpoints : e # a =>
           session'[e] = session[e] /\ sent'[e] = sent[e] /\ activity'[e] = activity[e]
  BY GivesTypes
<1>2. /\ p \in Endpoints /\ p # a /\ Other(p) = a /\ p' = p /\ Other(p)' = a
      /\ \A e \in Endpoints : e = a \/ e = p
  BY <1>1, TwoEnds DEF Other
<1>3. UNCHANGED <<surfaced, faults>> /\ activity[a] = "app" /\ Leaves(s, t, m, f)
  BY DEF Gives
<1>4. /\ t.local = s.local /\ t.remote = s.remote /\ t.outSeq = s.outSeq + 1
      /\ t.inSeq = s.inSeq /\ t.messages = s.messages + 1 /\ t.bytes = s.bytes + Len(f)
      /\ s.messages + 1 <= MaxMessages /\ s.bytes + Len(f) <= MaxBytes
      /\ m.kind = Kinds.Hello => m.body = s.local
      /\ m.kind # Kinds.Hello => s.remote # <<>>
  BY <1>3 DEF Leaves, Sent, EnsureBudget
<1>5. CountsInv(a) /\ SentInv(a) /\ HeardInv(a) /\ CountsInv(p) /\ SentInv(p) /\ HeardInv(p)
  BY <1>1, <1>2 DEF ConnectionInv
<1>6. /\ w \in Seq(Sendable) /\ Len(w) \in Nat /\ Len(sent'[a]) = Len(w) + 1
      /\ \A i \in 1..Len(w) : sent'[a][i] = w[i]
      /\ sent'[a][Len(w) + 1] = m
  <2>1. w \in Seq(Sendable)
    BY <1>1 DEF ConnectionInv, ConnectionTypes
  <2> QED
    BY <1>1, <2>1, AppendProperties, LenProperties
<1>7. s \in Sessions /\ Len(w) = s.outSeq
  BY <1>1, <1>3, <1>5 DEF CountsInv, ConnectionInv, ConnectionTypes
<1>8. CountsInv(a)'
  BY <1>1, <1>3, <1>4, <1>5, <1>6, <1>7 DEF CountsInv, Sessions
<1>9. CountsInv(p)' /\ SentInv(p)'
  BY <1>1, <1>2, <1>3, <1>5 DEF CountsInv, SentInv
<1>10. SentInv(a)'
  <2> SUFFICES ASSUME NEW i \in 1..Len(sent'[a])
               PROVE  LET z == sent'[a][i]
                      IN  /\ EncodePeerFrame(0, z).ok
                          /\ z.kind = Kinds.Hello => z.body = t.local
                          /\ z.kind # Kinds.Hello => t.remote # <<>>
    BY <1>1 DEF SentInv
  <2>1. CASE i = Len(w) + 1
    BY <1>1, <1>4, <1>6, <2>1
  <2>2. CASE i # Len(w) + 1
    <3>1. i \in 1..Len(w)
      BY <1>6, <2>2
    <3> QED
      BY <1>4, <1>5, <1>6, <3>1 DEF SentInv
  <2> QED
    BY <2>1, <2>2
<1>11. HeardInv(a)'
  <2> SUFFICES ASSUME "cell" \notin faults[p]
               PROVE  LET q == surfaced[a]
                      IN  /\ Len(q) <= Len(sent[p])
                          /\ \A i \in 1..Len(q) : q[i] = sent[p][i]
                          /\ t.remote # <<>> => t.remote = <<session[p].local>>
                                                /\ Compatible(t.local, session[p].local)
                          /\ \A i \in 1..Len(q) : q[i].kind # Kinds.Hello => t.remote # <<>>
                          /\ t.outSeq = Len(sent'[a])
                                => t.bytes = FramesSize(sent'[a]) + FramesSize(q)
    BY <1>1, <1>2, <1>3 DEF HeardInv
  <2>1. FramesSize(sent'[a]) = FramesSize(w) + FrameSize[m]
    BY <1>1, <1>6, FramesSizeAppend
  <2>2. FramesSize(w) \in Nat /\ FramesSize(surfaced[a]) \in Nat
    BY <1>1, HeardSize, SentSize
  <2>3. s.bytes = FramesSize(w) + FramesSize(surfaced[a])
    BY <1>5, <1>7 DEF HeardInv
  <2>4. t.bytes = FramesSize(sent'[a]) + FramesSize(surfaced[a])
    BY <1>1, <1>4, <2>1, <2>2, <2>3
  <2> QED
    BY <1>4, <1>5, <2>4 DEF HeardInv
<1>12. HeardInv(p)'
  <2> SUFFICES ASSUME "cell" \notin faults[a]
               PROVE  LET z == session[p]
                          q == surfaced[p]
                      IN  /\ Len(q) <= Len(sent'[a])
                          /\ \A i \in 1..Len(q) : q[i] = sent'[a][i]
                          /\ z.remote # <<>> => z.remote = <<t.local>>
                                                /\ Compatible(z.local, t.local)
                          /\ \A i \in 1..Len(q) : q[i].kind # Kinds.Hello => z.remote # <<>>
                          /\ z.outSeq = Len(sent[p])
                                => z.bytes = FramesSize(sent[p]) + FramesSize(q)
    BY <1>1, <1>2, <1>3 DEF HeardInv
  <2>1. /\ Len(surfaced[p]) <= Len(w) /\ Len(surfaced[p]) \in Nat
        /\ \A i \in 1..Len(surfaced[p]) : surfaced[p][i] = w[i]
    <3>1. surfaced[p] \in Seq(Readable)
      BY <1>2 DEF ConnectionInv, ConnectionTypes
    <3> QED
      BY <1>2, <1>5, <3>1, LenProperties DEF HeardInv
  <2>2. Len(surfaced[p]) <= Len(sent'[a])
    BY <1>6, <2>1
  <2>3. \A i \in 1..Len(surfaced[p]) : surfaced[p][i] = sent'[a][i]
    BY <1>6, <2>1
  <2> QED
    BY <1>2, <1>4, <1>5, <2>2, <2>3 DEF HeardInv
<1> HIDE DEF p
<1> QED
  BY <1>2, <1>8, <1>9, <1>10, <1>11, <1>12

LEMMA GivesFlow ==
  ASSUME ConnectionInv, NEW a, NEW t, NEW m, NEW f, Gives(a, t, m, f)
  PROVE  \A e \in Endpoints : FlowInv(e)'
<1>1. PICK p : p = Other(a)
  OBVIOUS
<1>2. /\ a \in Endpoints /\ f \in Seq(Nat) /\ f # <<>> /\ outbox'[a] = f
      /\ sent'[a] = Append(sent[a], m) /\ activity'[a] = "writing"
      /\ sent' \in [Endpoints -> Seq(Sendable)]
      /\ \A e \in Endpoints : e # a =>
           sent'[e] = sent[e] /\ outbox'[e] = outbox[e] /\ activity'[e] = activity[e]
  BY GivesTypes
<1>3. /\ p \in Endpoints /\ p # a /\ Other(p) = a /\ Other(a) = p /\ Other(p)' = a
      /\ \A e \in Endpoints : e = a \/ e = p
  BY <1>1, <1>2, TwoEnds DEF Other
<1>4. UNCHANGED <<header, stream, cut, faults>> /\ activity[a] = "app"
      /\ Leaves(session[a], t, m, f)
  BY DEF Gives
<1>5. FlowInv(a)'
  <2>1. Reads(a)
    BY <1>2, <1>4 DEF Reads
  <2>2. Idles(p)
    BY <1>2, <1>3, <1>4 DEF Idles
  <2> QED
    BY <1>2, <1>3, <2>1, <2>2, FlowKept
<1>6. FlowInv(p)'
  <2> SUFFICES ASSUME activity[p] # "closed", "cell" \notin faults[a]
               PROVE  \E u, g \in Seq(Nat) : /\ header[p] \o stream[p] = u \o g
                                             /\ Whole(Frames(a), u)'
                                             /\ PartWritten(a, g)'
    BY <1>2, <1>3, <1>4 DEF FlowInv
  <2>1. PICK u \in Seq(Nat), g \in Seq(Nat) :
          header[p] \o stream[p] = u \o g /\ Whole(Frames(a), u) /\ PartWritten(a, g)
    BY <1>3 DEF ConnectionInv, FlowInv
  <2>2. g = <<>> /\ (faults[a] = {} => (cut[a] <=> g # <<>>))
    BY <1>4, <2>1 DEF PartWritten
  <2>3. Frames(a) \subseteq Frames(a)' /\ f \in Frames(a)'
    <3> DEFINE w == sent[a]
    <3>1. /\ Len(w) \in Nat /\ Len(sent'[a]) = Len(w) + 1
          /\ \A i \in 1..Len(w) : sent'[a][i] = w[i]
          /\ sent'[a][Len(w) + 1] = m
      <4>1. w \in Seq(Sendable) /\ m \in Sendable
        BY <1>2, <1>4 DEF ConnectionInv, ConnectionTypes, Leaves
      <4> QED
        BY <1>2, <4>1, AppendProperties, LenProperties
    <3>2. Len(w) = session[a].outSeq
      BY <1>2, <1>4 DEF ConnectionInv, CountsInv
    <3>3. f = EncodePeerFrame((Len(w) + 1) - 1, m).val
      <4>1. (Len(w) + 1) - 1 = session[a].outSeq
        BY <3>1, <3>2
      <4> QED
        BY <1>4, <4>1 DEF Leaves
    <3>4. Len(w) + 1 \in 1..Len(sent'[a])
      BY <3>1
    <3>5. f \in Frames(a)'
      BY <3>1, <3>3, <3>4 DEF Frames
    <3>6. Frames(a) \subseteq Frames(a)'
      <4> SUFFICES ASSUME NEW i \in 1..Len(w)
                   PROVE  EncodePeerFrame(i - 1, w[i]).val \in Frames(a)'
        BY DEF Frames
      <4>1. i \in 1..Len(sent'[a]) /\ sent'[a][i] = w[i]
        BY <3>1
      <4> QED
        BY <4>1 DEF Frames
    <3> QED
      BY <3>5, <3>6
  <2>4. Frames(a)' \subseteq Seq(Nat)
    <3> SUFFICES ASSUME NEW i \in 1..Len(sent'[a])
                 PROVE  EncodePeerFrame(i - 1, sent'[a][i]).val \in Seq(Nat)
      BY DEF Frames
    <3>1. SentInv(a)' /\ sent'[a] \in Seq(Sendable)
      BY <1>2, GivesSessions
    <3>2. i - 1 \in Nat /\ sent'[a][i] \in Sendable /\ EncodePeerFrame(0, sent'[a][i]).ok
      BY <3>1, ElementOfSeq, LenProperties DEF SentInv
    <3>3. \E j : EncodePeerFrame(j, sent'[a][i]).ok
      BY <3>2
    <3> QED
      BY <3>2, <3>3, FrameFields
  <2>5. Whole(Frames(a), u)'
    BY <2>1, <2>3, WholeMore
  <2>6. PartWritten(a, g)'
    <3>1. faults[a] = {} => <<>> \o f \in Frames(a)'
      BY <1>2, <2>3, ConcatCells
    <3>2. Whole(Frames(a)', f)
      BY <2>3, <2>4, WholeOne
    <3>3. Whole(Frames(a), f)'
      BY <3>2
    <3> QED
      BY <1>2, <1>4, <2>2, <3>1, <3>3 DEF PartWritten
  <2> QED
    BY <2>1, <2>5, <2>6
<1> QED
  BY <1>3, <1>5, <1>6

LEMMA GivesKeeps ==
  ASSUME ConnectionInv, NEW a, NEW t, NEW m, NEW f, Gives(a, t, m, f)
  PROVE  ConnectionInv'
<1>1. /\ a \in Endpoints /\ Len(f) >= PeerHeaderCells /\ f # <<>>
      /\ session' \in [Endpoints -> Sessions]
      /\ outbox' \in [Endpoints -> Seq(Nat)] /\ outbox'[a] = f
      /\ sent' \in [Endpoints -> Seq(Sendable)]
      /\ activity' \in [Endpoints -> {"app", "writing", "reading", "closed"}]
      /\ activity'[a] = "writing"
      /\ since' \in [Endpoints -> 0..MaxTime]
      /\ \A e \in Endpoints : e # a =>
           session'[e] = session[e] /\ outbox'[e] = outbox[e] /\ activity'[e] = activity[e]
  BY GivesTypes
<1>2. /\ UNCHANGED <<header, now, ended, stream, surfaced, cut, faults>>
      /\ activity[a] = "app" /\ now < TotalTimeout
  BY DEF Gives
<1>3. \A e \in Endpoints : CountsInv(e)' /\ SentInv(e)' /\ HeardInv(e)'
  BY GivesSessions
<1>4. ConnectionTypes
  BY DEF ConnectionInv
<1>5. ASSUME NEW e \in Endpoints
      PROVE  /\ session'[e].outSeq \in 0..MaxMessages /\ session'[e].inSeq \in 0..MaxMessages
             /\ header'[e] # <<>> => HeaderValid(header'[e]) /\ activity'[e] = "reading"
             /\ (outbox'[e] # <<>>) = (activity'[e] = "writing")
             /\ (ended'[e] = "") = (activity'[e] # "closed")
  <2>1. session'[e].outSeq \in 0..MaxMessages /\ session'[e].inSeq \in 0..MaxMessages
    <3>1. session'[e] \in Sessions
      BY <1>1
    <3>2. session'[e].messages = session'[e].outSeq + session'[e].inSeq
          /\ session'[e].messages <= MaxMessages
      BY <1>3 DEF CountsInv
    <3>3. session'[e].outSeq \in Nat /\ session'[e].inSeq \in Nat /\ MaxMessages \in Nat
      BY <3>1, SessionAssumption DEF Sessions
    <3> QED
      BY <3>2, <3>3
  <2>2. CASE e = a
    <3>1. header[a] = <<>> /\ ended[a] = ""
      BY <1>1, <1>2, <1>4 DEF ConnectionTypes, SessionTypeOK
    <3> QED
      BY <1>1, <1>2, <2>1, <2>2, <3>1
  <2>3. CASE e # a
    <3>1. outbox'[e] = outbox[e] /\ activity'[e] = activity[e]
      BY <1>1, <2>3
    <3>2. /\ header[e] # <<>> => HeaderValid(header[e]) /\ activity[e] = "reading"
          /\ (outbox[e] # <<>>) = (activity[e] = "writing")
          /\ (ended[e] = "") = (activity[e] # "closed")
      BY <1>4 DEF ConnectionTypes, SessionTypeOK
    <3> QED
      BY <1>2, <2>1, <3>1, <3>2
  <2> QED
    BY <2>2, <2>3
<1>6. ConnectionTypes'
  BY <1>1, <1>2, <1>4, <1>5 DEF ConnectionTypes, SessionTypeOK, HeaderValid
<1>7. ASSUME NEW e \in Endpoints
      PROVE  EndsInv(e)'
  <2> DEFINE p == Other(e)
  <2>1. p \in Endpoints /\ p' = p /\ EndsInv(e)
    BY TwoEnds DEF Other, ConnectionInv
  <2>2. now <= TotalTimeout
    <3>1. now \in 0..MaxTime /\ MaxTime \in Nat /\ TotalTimeout \in Nat
      BY <1>4, SessionAssumption DEF ConnectionTypes, SessionTypeOK
    <3> QED
      BY <1>2, <3>1
  <2>3. activity[e] = "closed" => activity'[e] = "closed"
    BY <1>1, <1>2
  <2>4. activity[p] = "closed" => activity'[p] = "closed"
    BY <1>1, <1>2, <2>1
  <2>5. activity[e] = "writing" => activity'[e] = "writing"
    BY <1>1, <1>2
  <2>6. activity'[e] = "writing" => \/ Len(outbox'[e]) >= PeerHeaderCells
                                    \/ activity[e] = "writing" /\ outbox'[e] = outbox[e]
    BY <1>1, <1>2
  <2> QED
    BY <1>2, <2>1, <2>2, <2>3, <2>4, <2>5, <2>6 DEF EndsInv
<1> QED
  BY <1>3, <1>6, <1>7, GivesFlow DEF ConnectionInv

LEMMA SendKeeps ==
  ASSUME ConnectionInv, NEW a \in Endpoints, NEW m \in Sendable, Send(a, m)
  PROVE  ConnectionInv'
<1> DEFINE s == session[a]
           r == EncodeOutbound(s, m)
           f == EncodePeerFrame(s.outSeq, m).val
<1>1. s \in Sessions
  BY DEF ConnectionInv, ConnectionTypes
<1> HIDE DEF s
<1>2. /\ r.ok => /\ EncodePeerFrame(s.outSeq, m).ok
                 /\ EnsureBudget(s, Len(f))
                 /\ r.val.frame = f /\ Sent(s, r.val.session, Len(f))
                 /\ m.kind = Kinds.Hello => m.body = s.local
                 /\ m.kind # Kinds.Hello => s.remote # <<>>
      /\ ~r.ok => Refused(r)
  BY <1>1, Outbound
<1> HIDE DEF r
<1>3. activity[a] = "app" /\ UNCHANGED <<stream, surfaced, cut, faults>>
  BY DEF Send
<1>4. \/ /\ ~r.ok
         /\ EndConnection(a, r.err)
         /\ UNCHANGED <<session, outbox, sent>>
      \/ /\ r.ok /\ now >= TotalTimeout
         /\ session' = [session EXCEPT ![a] = r.val.session]
         /\ EndConnection(a, "TotalTimeout")
         /\ UNCHANGED <<outbox, sent>>
      \/ /\ r.ok /\ now < TotalTimeout
         /\ session' = [session EXCEPT ![a] = r.val.session]
         /\ outbox' = [outbox EXCEPT ![a] = r.val.frame]
         /\ sent' = [sent EXCEPT ![a] = Append(@, m)]
         /\ activity' = [activity EXCEPT ![a] = "writing"]
         /\ since' = [since EXCEPT ![a] = now]
         /\ UNCHANGED <<header, now, ended>>
  BY DEF Send, r, s
<1>5. CASE ~r.ok
  <2>1. r.err # "" /\ r.err # "PeerClosed"
    BY <1>2, <1>5 DEF Refused
  <2>2. EndConnection(a, r.err) /\ UNCHANGED <<session, outbox, sent>>
    BY <1>4, <1>5
  <2>3. Ending(a)
    BY <1>3, <2>1, <2>2, EndingIs
  <2> QED
    BY <2>2, <2>3, ClosingKeeps
<1>6. CASE r.ok /\ now >= TotalTimeout /\ EndConnection(a, "TotalTimeout")
           /\ UNCHANGED <<outbox, sent>> /\ session' = [session EXCEPT ![a] = r.val.session]
  <2>1. Ending(a)
    BY <1>3, <1>6, EndingIs
  <2>2. Len(f) \in Nat
    <3>1. s.outSeq \in Nat /\ EncodePeerFrame(s.outSeq, m).ok
      BY <1>1, <1>2, <1>6 DEF Sessions
    <3> QED
      BY <3>1, FrameSizeIs
  <2>3. Sent(session[a], r.val.session, Len(f)) /\ EnsureBudget(session[a], Len(f))
    BY <1>2, <1>6 DEF s
  <2> HIDE DEF f
  <2> QED
    BY <1>6, <2>1, <2>2, <2>3, ChargedKeeps
<1>7. CASE /\ r.ok /\ now < TotalTimeout
           /\ session' = [session EXCEPT ![a] = r.val.session]
           /\ outbox' = [outbox EXCEPT ![a] = r.val.frame]
           /\ sent' = [sent EXCEPT ![a] = Append(@, m)]
           /\ activity' = [activity EXCEPT ![a] = "writing"]
           /\ since' = [since EXCEPT ![a] = now]
           /\ UNCHANGED <<header, now, ended>>
  <2>1. Leaves(s, r.val.session, m, f)
    BY <1>2, <1>7 DEF Leaves
  <2>2. r.val.frame = f
    BY <1>2, <1>7
  <2> HIDE DEF f
  <2>3. Gives(a, r.val.session, m, f)
    BY <1>3, <1>7, <2>1, <2>2 DEF Gives, s
  <2> QED
    BY <2>3, GivesKeeps
<1> QED
  BY <1>4, <1>5, <1>6, <1>7
-----------------------------------------------------------------------------
(* The writer's steps.                                                     *)

(* One write puts x, of what a has to write, on the stream and leaves y.   *)
Writes(a, x, y) ==
    /\ a \in Endpoints /\ activity[a] = "writing"
    /\ x \in Seq(Nat) /\ y \in Seq(Nat) /\ x \o y = outbox[a]
    /\ y # <<>> => x # <<>> /\ faults[a] = {}
    /\ outbox' = [outbox EXCEPT ![a] = y]
    /\ stream' = IF ended[Other(a)] = "" THEN [stream EXCEPT ![Other(a)] = @ \o x] ELSE stream
    /\ since' \in [Endpoints -> 0..MaxTime]
    /\ activity' = [activity EXCEPT ![a] = IF y = <<>> THEN "app" ELSE @]
    /\ cut' = [cut EXCEPT ![a] = y # <<>>]
    /\ UNCHANGED <<session, header, now, sent, surfaced, ended, faults>>

LEMMA WriteSomeIs ==
  ASSUME ConnectionInv, NEW a \in Endpoints, WriteSome(a)
  PROVE  \E x, y : Writes(a, x, y)
<1> DEFINE o == outbox[a]
           p == Other(a)
<1>1. PICK n \in {Len(o)} \cup {k \in PieceSizes : faults[a] = {} /\ k < Len(o)} :
        /\ outbox' = [outbox EXCEPT ![a] = SubSeq(@, n + 1, Len(@))]
        /\ stream' = IF ended[p] = ""
                     THEN [stream EXCEPT ![p] = @ \o SubSeq(o, 1, n)]
                     ELSE stream
        /\ since' = [since EXCEPT ![a] = IF n = Len(o) THEN 0 ELSE now,
                                  ![p] = IF activity[p] = "reading" THEN now ELSE @]
        /\ activity' = [activity EXCEPT ![a] = IF n = Len(o) THEN "app" ELSE @]
        /\ cut' = [cut EXCEPT ![a] = n < Len(o)]
  BY DEF WriteSome
<1>2. /\ outbox \in [Endpoints -> Seq(Nat)] /\ o \in Seq(Nat) /\ Len(o) \in Nat
      /\ since \in [Endpoints -> 0..MaxTime] /\ now \in 0..MaxTime /\ 0 \in 0..MaxTime
      /\ p \in Endpoints
  <2>1. outbox \in [Endpoints -> Seq(Nat)] /\ o \in Seq(Nat)
        /\ since \in [Endpoints -> 0..MaxTime] /\ now \in 0..MaxTime
    BY DEF ConnectionInv, ConnectionTypes, SessionTypeOK
  <2>2. 0 \in 0..MaxTime /\ p \in Endpoints
    BY SessionAssumption, TwoEnds
  <2> QED
    BY <2>1, <2>2, LenProperties
<1> DEFINE x == SubSeq(o, 1, n)
           y == SubSeq(o, n + 1, Len(o))
<1>3. n \in 0..Len(o) /\ (n = Len(o) \/ (n >= 1 /\ n < Len(o) /\ faults[a] = {}))
  <2>1. CASE n = Len(o)
    BY <1>2, <2>1
  <2>2. CASE n \in {1, 6} /\ faults[a] = {} /\ n < Len(o)
    <3>1. n \in Nat /\ n >= 1
      BY <2>2
    <3>2. n \in 0..Len(o)
      BY <1>2, <2>2, <3>1
    <3> QED
      BY <2>2, <3>1, <3>2
  <2>3. n = Len(o) \/ (n \in {1, 6} /\ faults[a] = {} /\ n < Len(o))
    BY <1>1 DEF PieceSizes, PeerHeaderCells
  <2> QED
    BY <2>1, <2>2, <2>3
<1>4. /\ x \in Seq(Nat) /\ Len(x) = n /\ y \in Seq(Nat) /\ Len(y) = Len(o) - n
      /\ x \o y = o
  BY <1>2, <1>3, CellsSplit
<1>5. (y = <<>> <=> n = Len(o)) /\ (x = <<>> <=> n = 0)
  <2>1. (y = <<>> <=> Len(y) = 0) /\ (x = <<>> <=> Len(x) = 0)
    BY <1>4, ConcatCells
  <2> DEFINE lo == Len(o)  ly == Len(y)
  <2>2. lo \in Nat /\ n \in 0..lo /\ ly = lo - n /\ Len(x) = n
    BY <1>2, <1>3, <1>4
  <2> HIDE DEF lo, ly
  <2>3. ly = 0 <=> n = lo
    BY <2>2
  <2> QED
    BY <2>1, <2>2, <2>3 DEF lo, ly
<1>6. y # <<>> => x # <<>> /\ faults[a] = {}
  <2>1. y # <<>> => n # Len(o)
    BY <1>5
  <2>2. n # Len(o) => n # 0 /\ faults[a] = {}
    BY <1>3
  <2> QED
    BY <1>5, <2>1, <2>2
<1>7. (n < Len(o)) = (y # <<>>)
  <2>1. n < Len(o) <=> n # Len(o)
    BY <1>2, <1>3
  <2> QED
    BY <1>5, <2>1
<1>8. since' \in [Endpoints -> 0..MaxTime]
  BY <1>1, <1>2
<1>9. outbox' = [outbox EXCEPT ![a] = y]
  BY <1>1
<1>10. stream' = IF ended[p] = "" THEN [stream EXCEPT ![p] = @ \o x] ELSE stream
  BY <1>1
<1> HIDE DEF x, y, o
<1>11. activity' = [activity EXCEPT ![a] = IF y = <<>> THEN "app" ELSE @]
  BY <1>1, <1>5
<1>12. cut' = [cut EXCEPT ![a] = y # <<>>]
  BY <1>1, <1>7
<1>13. activity[a] = "writing" /\ UNCHANGED <<session, header, now, sent, surfaced, ended, faults>>
  BY DEF WriteSome
<1>14. x \in Seq(Nat) /\ y \in Seq(Nat) /\ x \o y = outbox[a]
  BY <1>4 DEF o
<1>15. Writes(a, x, y)
  BY <1>6, <1>8, <1>9, <1>10, <1>11, <1>12, <1>13, <1>14 DEF Writes
<1> QED
  BY <1>15

LEMMA WritesTypes ==
  ASSUME ConnectionInv, NEW a, NEW x, NEW y, Writes(a, x, y)
  PROVE  /\ a \in Endpoints /\ y \in Seq(Nat)
         /\ outbox' \in [Endpoints -> Seq(Nat)] /\ outbox'[a] = y
         /\ stream' \in [Endpoints -> Seq(Nat)]
         /\ activity[Other(a)] # "closed" => stream'[Other(a)] = stream[Other(a)] \o x
         /\ activity' \in [Endpoints -> {"app", "writing", "reading", "closed"}]
         /\ activity'[a] = IF y = <<>> THEN "app" ELSE "writing"
         /\ cut' \in [Endpoints -> BOOLEAN] /\ (cut'[a] <=> y # <<>>)
         /\ \A e \in Endpoints : e # Other(a) => stream'[e] = stream[e]
         /\ \A e \in Endpoints : e # a =>
              cut'[e] = cut[e] /\ outbox'[e] = outbox[e] /\ activity'[e] = activity[e]
<1> DEFINE p == Other(a)
<1>1. /\ a \in Endpoints /\ p \in Endpoints /\ x \in Seq(Nat) /\ y \in Seq(Nat)
  BY TwoEnds DEF Writes
<1>2. /\ outbox \in [Endpoints -> Seq(Nat)] /\ stream \in [Endpoints -> Seq(Nat)]
      /\ activity \in [Endpoints -> {"app", "writing", "reading", "closed"}]
      /\ cut \in [Endpoints -> BOOLEAN]
      /\ (ended[p] = "") = (activity[p] # "closed")
  BY <1>1 DEF ConnectionInv, ConnectionTypes, SessionTypeOK
<1>3. stream[p] \o x \in Seq(Nat)
  <2>1. stream[p] \in Seq(Nat)
    BY <1>1, <1>2
  <2> QED
    BY <1>1, <2>1, ConcatCells
<1> HIDE DEF p
<1>4. /\ stream' \in [Endpoints -> Seq(Nat)]
      /\ activity[p] # "closed" => stream'[p] = stream[p] \o x
      /\ \A e \in Endpoints : e # p => stream'[e] = stream[e]
  <2>1. stream' = IF ended[p] = "" THEN [stream EXCEPT ![p] = @ \o x] ELSE stream
    BY DEF Writes, p
  <2>2. CASE ended[p] = ""
    BY <1>1, <1>2, <1>3, <2>1, <2>2
  <2>3. CASE ended[p] # ""
    BY <1>1, <1>2, <2>1, <2>3
  <2> QED
    BY <2>2, <2>3
<1>5. /\ outbox' \in [Endpoints -> Seq(Nat)] /\ outbox'[a] = y
      /\ \A e \in Endpoints : e # a => outbox'[e] = outbox[e]
  BY <1>1, <1>2 DEF Writes
<1>6. /\ activity' \in [Endpoints -> {"app", "writing", "reading", "closed"}]
      /\ activity'[a] = IF y = <<>> THEN "app" ELSE "writing"
      /\ \A e \in Endpoints : e # a => activity'[e] = activity[e]
  BY <1>1, <1>2 DEF Writes
<1>7. /\ cut' \in [Endpoints -> BOOLEAN] /\ (cut'[a] <=> y # <<>>)
      /\ \A e \in Endpoints : e # a => cut'[e] = cut[e]
  <2>1. (y # <<>>) \in BOOLEAN
    OBVIOUS
  <2>2. cut' = [cut EXCEPT ![a] = y # <<>>]
    BY DEF Writes
  <2> DEFINE v == y # <<>>
  <2> HIDE DEF v
  <2>3. cut' = [cut EXCEPT ![a] = v] /\ v \in BOOLEAN
    BY <2>1, <2>2 DEF v
  <2>4. /\ cut' \in [Endpoints -> BOOLEAN] /\ cut'[a] = v
        /\ \A e \in Endpoints : e # a => cut'[e] = cut[e]
    BY <1>1, <1>2, <2>3
  <2> QED
    BY <2>4 DEF v
<1> QED
  BY <1>1, <1>4, <1>5, <1>6, <1>7 DEF p

LEMMA WritesFlow ==
  ASSUME ConnectionInv, NEW a, NEW x, NEW y, Writes(a, x, y)
  PROVE  \A e \in Endpoints : FlowInv(e)'
<1>1. PICK p : p = Other(a)
  OBVIOUS
<1>2. /\ a \in Endpoints /\ outbox'[a] = y
      /\ activity[p] # "closed" => stream'[p] = stream[p] \o x
      /\ activity'[a] = IF y = <<>> THEN "app" ELSE "writing"
      /\ (cut'[a] <=> y # <<>>)
      /\ \A e \in Endpoints : e # p => stream'[e] = stream[e]
      /\ \A e \in Endpoints : e # a =>
           cut'[e] = cut[e] /\ outbox'[e] = outbox[e] /\ activity'[e] = activity[e]
  <2>1. a \in Endpoints /\ outbox'[a] = y
    BY WritesTypes
  <2>2. activity[p] # "closed" => stream'[p] = stream[p] \o x
    BY <1>1, WritesTypes
  <2>3. activity'[a] = IF y = <<>> THEN "app" ELSE "writing"
    BY WritesTypes
  <2>4. (cut'[a] <=> y # <<>>)
    BY WritesTypes
  <2>5. \A e \in Endpoints : e # p => stream'[e] = stream[e]
    BY <1>1, WritesTypes
  <2>6. \A e \in Endpoints : e # a =>
             cut'[e] = cut[e] /\ outbox'[e] = outbox[e] /\ activity'[e] = activity[e]
    BY WritesTypes
  <2> QED
    BY <2>1, <2>2, <2>3, <2>4, <2>5, <2>6
<1>3. /\ p \in Endpoints /\ p # a /\ Other(p) = a /\ Other(a) = p /\ Other(p)' = a
      /\ \A e \in Endpoints : e = a \/ e = p
  BY <1>1, <1>2, TwoEnds DEF Other
<1>4. /\ UNCHANGED <<header, sent, faults>> /\ activity[a] = "writing"
      /\ x \in Seq(Nat) /\ y \in Seq(Nat) /\ x \o y = outbox[a]
      /\ y # <<>> => x # <<>> /\ faults[a] = {}
  BY DEF Writes
<1>5. FlowInv(a)'
  <2>1. Reads(a)
    BY <1>2, <1>3, <1>4 DEF Reads
  <2>2. Idles(p)
    BY <1>2, <1>3, <1>4 DEF Idles
  <2> QED
    BY <1>2, <1>3, <2>1, <2>2, FlowKept
<1>6. FlowInv(p)'
  <2> SUFFICES ASSUME activity[p] # "closed", "cell" \notin faults[a]
               PROVE  \E u, g \in Seq(Nat) : /\ header[p] \o stream'[p] = u \o g
                                             /\ Whole(Frames(a), u)'
                                             /\ PartWritten(a, g)'
    BY <1>2, <1>3, <1>4 DEF FlowInv
  <2>1. PICK u \in Seq(Nat), g \in Seq(Nat) :
          header[p] \o stream[p] = u \o g /\ Whole(Frames(a), u) /\ PartWritten(a, g)
    BY <1>3 DEF ConnectionInv, FlowInv
  <2>2. Frames(a)' = Frames(a) /\ Frames(a) \subseteq Seq(Nat)
    <3>1. Frames(a)' = Frames(a)
      BY <1>4 DEF Frames
    <3>2. Frames(a) \subseteq Seq(Nat)
      BY <1>2, SentFrames
    <3> QED
      BY <3>1, <3>2
  <2>3. IF faults[a] = {} THEN g \o outbox[a] \in Frames(a)
        ELSE g = <<>> /\ Whole(Frames(a), outbox[a])
    BY <1>4, <2>1 DEF PartWritten
  <2>4. /\ header[p] \in Seq(Nat) /\ stream[p] \in Seq(Nat)
        /\ stream'[p] = stream[p] \o x
    BY <1>2, <1>3 DEF ConnectionInv, ConnectionTypes
  <2>5. /\ g \o x \in Seq(Nat) /\ u \o (g \o x) \in Seq(Nat) /\ <<>> \in Seq(Nat)
        /\ header[p] \o stream'[p] = u \o (g \o x)
    <3> DEFINE h == header[p]  s == stream[p]
    <3>1. h \in Seq(Nat) /\ s \in Seq(Nat) /\ stream'[p] = s \o x
      BY <2>4
    <3> HIDE DEF h, s
    <3>2. (h \o s) \o x = h \o (s \o x) /\ (u \o g) \o x = u \o (g \o x)
      <4>1. x \in Seq(Nat)
        BY <1>4
      <4>2. (h \o s) \o x = h \o (s \o x)
        BY <3>1, <4>1, CellsAssociate, Zenon
      <4>3. (u \o g) \o x = u \o (g \o x)
        BY <4>1, CellsAssociate, Zenon
      <4> QED
        BY <4>2, <4>3
    <3>3. g \o x \in Seq(Nat) /\ <<>> \in Seq(Nat)
      BY <1>4, ConcatCells
    <3>4. u \o (g \o x) \in Seq(Nat)
      BY <3>3, ConcatCells
    <3>5. h \o s = u \o g
      BY <2>1 DEF h, s
    <3>6. h \o stream'[p] = u \o (g \o x)
      BY <3>1, <3>2, <3>5
    <3> QED
      BY <3>3, <3>4, <3>6 DEF h
  <2>6. CASE y = <<>>
    <3>1. x = outbox[a]
      BY <1>4, <2>6, ConcatCells
    <3>2. Whole(Frames(a), g \o x)
      <4>1. CASE faults[a] = {}
        <5>1. g \o x \in Frames(a)
          BY <2>3, <3>1, <4>1
        <5> QED
          BY <2>2, <5>1, WholeOne
      <4>2. CASE faults[a] # {}
        <5>1. g \o x = x /\ Whole(Frames(a), x)
          BY <1>4, <2>3, <3>1, <4>2, ConcatCells
        <5> QED
          BY <5>1
      <4> QED
        BY <4>1, <4>2
    <3>3. Whole(Frames(a), u \o (g \o x))
      BY <2>1, <2>2, <3>2, WholeConcat
    <3>4. Whole(Frames(a), u \o (g \o x))'
      BY <2>2, <3>3, <1>2, <1>4 DEF Whole, Closed, Frames
    <3>5. PartWritten(a, <<>>)'
      BY <1>2, <2>6 DEF PartWritten
    <3>6. (u \o (g \o x)) \o <<>> = u \o (g \o x)
      BY <2>5, ConcatCells
    <3> QED
      BY <2>5, <3>4, <3>5, <3>6
  <2>7. CASE y # <<>>
    <3>1. /\ x # <<>> /\ faults[a] = {} /\ g \o outbox[a] \in Frames(a)
      BY <1>4, <2>3, <2>7
    <3>2. (g \o x) \o y = g \o (x \o y)
      BY <1>4, CellsAssociate
    <3>3. (g \o x) \o y \in Frames(a)
      BY <1>4, <3>1, <3>2
    <3>4. g \o x # <<>>
      BY <1>4, <3>1, ConcatCells
    <3>5. PartWritten(a, g \o x)'
      <4>1. activity'[a] = "writing" /\ cut'[a] /\ faults'[a] = {}
        BY <1>2, <1>4, <2>7, <3>1
      <4>2. (g \o x) \o outbox'[a] \in Frames(a)'
        BY <1>2, <2>2, <3>3
      <4>3. \E w \in Seq(Nat) : w # <<>> /\ (g \o x) \o w \in Frames(a)'
        BY <1>4, <2>2, <2>7, <3>3
      <4> QED
        BY <3>4, <4>1, <4>2, <4>3 DEF PartWritten
    <3>6. Whole(Frames(a), u)'
      BY <2>1, <2>2 DEF Whole, Closed
    <3> QED
      BY <2>5, <3>5, <3>6
  <2> QED
    BY <2>6, <2>7
<1> QED
  BY <1>3, <1>5, <1>6

LEMMA WritesKeeps ==
  ASSUME ConnectionInv, NEW a, NEW x, NEW y, Writes(a, x, y)
  PROVE  ConnectionInv'
<1>1. /\ a \in Endpoints
      /\ outbox' \in [Endpoints -> Seq(Nat)] /\ outbox'[a] = y
      /\ stream' \in [Endpoints -> Seq(Nat)]
      /\ activity' \in [Endpoints -> {"app", "writing", "reading", "closed"}]
      /\ activity'[a] = IF y = <<>> THEN "app" ELSE "writing"
      /\ cut' \in [Endpoints -> BOOLEAN] /\ (cut'[a] <=> y # <<>>)
      /\ \A e \in Endpoints : e # a =>
           cut'[e] = cut[e] /\ outbox'[e] = outbox[e] /\ activity'[e] = activity[e]
  BY WritesTypes
<1>2. /\ UNCHANGED <<session, header, now, sent, surfaced, ended, faults>>
      /\ activity[a] = "writing" /\ since' \in [Endpoints -> 0..MaxTime]
  BY DEF Writes
<1>3. ConnectionTypes
  BY DEF ConnectionInv
<1>4. ASSUME NEW e \in Endpoints
      PROVE  /\ session'[e].outSeq \in 0..MaxMessages /\ session'[e].inSeq \in 0..MaxMessages
             /\ header'[e] # <<>> => HeaderValid(header'[e]) /\ activity'[e] = "reading"
             /\ (outbox'[e] # <<>>) = (activity'[e] = "writing")
             /\ (ended'[e] = "") = (activity'[e] # "closed")
  <2>1. /\ session[e].outSeq \in 0..MaxMessages /\ session[e].inSeq \in 0..MaxMessages
        /\ header[e] # <<>> => HeaderValid(header[e]) /\ activity[e] = "reading"
        /\ (outbox[e] # <<>>) = (activity[e] = "writing")
        /\ (ended[e] = "") = (activity[e] # "closed")
    BY <1>3 DEF ConnectionTypes, SessionTypeOK
  <2>2. CASE e = a
    <3>1. header[e] = <<>> /\ ended[e] = ""
      BY <1>2, <2>1, <2>2
    <3> QED
      BY <1>1, <1>2, <2>1, <2>2, <3>1
  <2>3. CASE e # a
    <3>1. outbox'[e] = outbox[e] /\ activity'[e] = activity[e]
      BY <1>1, <2>3
    <3> QED
      BY <1>2, <2>1, <3>1
  <2> QED
    BY <2>2, <2>3
<1>5. ConnectionTypes'
  BY <1>1, <1>2, <1>3, <1>4 DEF ConnectionTypes, SessionTypeOK, HeaderValid
<1>6. \A e \in Endpoints : CountsInv(e)' /\ SentInv(e)' /\ HeardInv(e)'
  <2>1. \A e \in Endpoints : /\ "cell" \in faults[e] => "cell" \in faults'[e]
                             /\ activity[e] = "closed" => activity'[e] = "closed"
    BY <1>1, <1>2
  <2> QED
    BY <1>2, <2>1, SessionsKept
<1>7. ASSUME NEW e \in Endpoints
      PROVE  EndsInv(e)'
  <2> DEFINE p == Other(e)
  <2>1. p \in Endpoints /\ p' = p /\ EndsInv(e) /\ EndsInv(a)
    BY <1>1, TwoEnds DEF Other, ConnectionInv
  <2>2. activity'[e] \in {"reading", "writing"} => activity'[e] = activity[e]
    BY <1>1, <1>2
  <2>3. cut'[e] => activity'[e] \in {"writing", "closed"}
    <3>1. CASE e = a
      BY <1>1, <3>1
    <3>2. CASE e # a
      BY <1>1, <2>1, <3>2 DEF EndsInv
    <3> QED
      BY <3>1, <3>2
  <2>4. activity'[e] = "writing" /\ ~cut'[e] /\ faults[e] = {} => Len(outbox'[e]) >= PeerHeaderCells
    <3>1. CASE e = a
      BY <1>1, <3>1
    <3>2. CASE e # a
      <4>1. activity'[e] = activity[e] /\ cut'[e] = cut[e] /\ outbox'[e] = outbox[e]
        BY <1>1, <3>2
      <4> QED
        BY <2>1, <4>1 DEF EndsInv
    <3> QED
      BY <3>1, <3>2
  <2>5. activity[p] = "closed" => activity'[p] = "closed" /\ (cut'[p] <=> cut[p])
    BY <1>1, <1>2, <2>1
  <2> HIDE DEF p
  <2>6. activity'[e] \in {"reading", "writing"} => now' <= TotalTimeout
    BY <1>2, <2>1, <2>2 DEF EndsInv
  <2>7. ended'[e] = "PeerClosed" => activity'[p] = "closed" /\ (faults'[p] = {} => ~cut'[p])
    BY <1>2, <2>1, <2>5 DEF EndsInv, p
  <2> QED
    BY <1>2, <2>1, <2>3, <2>4, <2>6, <2>7 DEF EndsInv, p
<1> QED
  BY <1>5, <1>6, <1>7, WritesFlow DEF ConnectionInv

LEMMA WriteSomeKeeps ==
  ASSUME ConnectionInv, NEW a \in Endpoints, WriteSome(a)
  PROVE  ConnectionInv'
<1>1. PICK x, y : Writes(a, x, y)
  BY WriteSomeIs
<1> QED
  BY <1>1, WritesKeeps
-----------------------------------------------------------------------------
(* What the other side cannot tell from a peer that does not follow the    *)
(* protocol.                                                               *)
Tampers(a) ==
    /\ a \in Endpoints /\ activity[a] = "writing" /\ ~cut[a] /\ faults[a] = {}
    /\ outbox' \in [Endpoints -> Seq(Nat)]
    /\ activity' \in [Endpoints -> {"app", "writing", "reading", "closed"}]
    /\ faults' \in [Endpoints -> SUBSET {"cell", "frame"}] /\ faults'[a] # {}
    /\ activity'[a] \in {"app", "writing"}
    /\ outbox'[a] # <<>> <=> activity'[a] = "writing"
    /\ "cell" \notin faults'[a] /\ activity'[a] = "writing" => outbox'[a] = outbox[a] \o outbox[a]
    /\ \A e \in Endpoints : e # a => /\ outbox'[e] = outbox[e] /\ activity'[e] = activity[e]
                                     /\ faults'[e] = faults[e]
    /\ UNCHANGED <<session, stream, header, since, now, sent, surfaced, ended, cut>>

(* Cells changed, left out or added leave a word that is not empty.        *)
LEMMA SpoiltCells ==
  ASSUME NEW o \in Seq(Nat), Len(o) >= PeerHeaderCells, NEW i \in 1..Len(o)
  PROVE  /\ Raised(o, i) \in Seq(Nat) /\ Raised(o, i) # <<>>
         /\ [o EXCEPT ![i] = 0] \in Seq(Nat) /\ [o EXCEPT ![i] = 0] # <<>>
         /\ SubSeq(o, 1, i - 1) \o SubSeq(o, i + 1, Len(o)) \in Seq(Nat)
         /\ SubSeq(o, 1, i - 1) \o SubSeq(o, i + 1, Len(o)) # <<>>
         /\ Append(Raised(o, PeerHeaderCells), 0) \in Seq(Nat)
         /\ Append(Raised(o, PeerHeaderCells), 0) # <<>>
<1>1. /\ Len(o) \in Nat /\ Len(o) >= 6 /\ \A k \in 1..Len(o) : o[k] \in Nat
      /\ o \in [1..Len(o) -> Nat]
  BY LenProperties, ElementOfSeq DEF PeerHeaderCells
<1>2. ASSUME NEW k \in 1..Len(o), NEW c \in Nat
      PROVE  [o EXCEPT ![k] = c] \in Seq(Nat) /\ Len([o EXCEPT ![k] = c]) = Len(o)
  BY <1>1, ExceptSeq
<1>3. \A s \in Seq(Nat) : Len(s) = Len(o) => s # <<>>
  <2>1. Len(<<>>) = 0
    OBVIOUS
  <2> QED
    BY <1>1, <2>1
<1>4. o[i] + 1 \in Nat /\ 6 \in 1..Len(o) /\ o[6] + 1 \in Nat
  BY <1>1
<1>5. Raised(o, i) \in Seq(Nat) /\ Raised(o, i) # <<>>
  BY <1>2, <1>3, <1>4 DEF Raised
<1>6. [o EXCEPT ![i] = 0] \in Seq(Nat) /\ [o EXCEPT ![i] = 0] # <<>>
  BY <1>2, <1>3
<1>7. Append(Raised(o, PeerHeaderCells), 0) \in Seq(Nat)
      /\ Append(Raised(o, PeerHeaderCells), 0) # <<>>
  <2> DEFINE w == Raised(o, 6)
  <2>1. w \in Seq(Nat)
    BY <1>2, <1>4 DEF Raised
  <2> HIDE DEF w
  <2>2. Append(w, 0) \in Seq(Nat) /\ Append(w, 0) # <<>>
    BY <2>1, AppendProperties
  <2> QED
    BY <2>2 DEF w, PeerHeaderCells
<1>8. SubSeq(o, 1, i - 1) \o SubSeq(o, i + 1, Len(o)) \in Seq(Nat)
      /\ SubSeq(o, 1, i - 1) \o SubSeq(o, i + 1, Len(o)) # <<>>
  <2> DEFINE v == SubSeq(o, 1, i - 1)
             w == SubSeq(o, i + 1, Len(o))
  <2>1. v \in Seq(Nat) /\ Len(v) = i - 1
    <3>1. i - 1 \in 0..Len(o)
      BY <1>1
    <3> QED
      BY <3>1, CellsSplit
  <2>2. w \in Seq(Nat) /\ Len(w) = Len(o) - i
    <3>1. i \in 0..Len(o)
      BY <1>1
    <3> QED
      BY <3>1, CellsSplit
  <2> HIDE DEF v, w
  <2>3. v \o w \in Seq(Nat) /\ Len(v \o w) = Len(v) + Len(w)
    BY <2>1, <2>2, ConcatCells
  <2>4. Len(v \o w) # 0
    BY <1>1, <2>1, <2>2, <2>3
  <2>5. Len(<<>>) = 0
    OBVIOUS
  <2> QED
    BY <2>3, <2>4, <2>5 DEF v, w
<1> QED
  BY <1>5, <1>6, <1>7, <1>8

LEMMA TamperIs ==
  ASSUME ConnectionInv, NEW a \in Endpoints, Tamper(a)
  PROVE  Tampers(a)
<1> DEFINE o == outbox[a]
<1>1. /\ activity[a] = "writing" /\ ~cut[a] /\ faults[a] = {}
      /\ UNCHANGED <<session, stream, header, since, now, sent, surfaced, ended, cut>>
  BY DEF Tamper, WholeFrame
<1>2. /\ outbox \in [Endpoints -> Seq(Nat)] /\ o \in Seq(Nat)
      /\ activity \in [Endpoints -> {"app", "writing", "reading", "closed"}]
      /\ faults \in [Endpoints -> SUBSET {"cell", "frame"}]
      /\ o # <<>> /\ Len(o) >= PeerHeaderCells
  BY <1>1 DEF ConnectionInv, ConnectionTypes, SessionTypeOK, EndsInv
<1>3. ASSUME NEW w \in Seq(Nat), outbox' = [outbox EXCEPT ![a] = w],
             NEW c \in {"cell", "frame"}, faults' = [faults EXCEPT ![a] = {c}],
             \/ activity' = activity /\ w # <<>>
             \/ activity' = [activity EXCEPT ![a] = "app"] /\ w = <<>>,
             c = "frame" /\ w # <<>> => w = o \o o
      PROVE  Tampers(a)
  <2>1. /\ outbox' \in [Endpoints -> Seq(Nat)] /\ outbox'[a] = w
        /\ \A e \in Endpoints : e # a => outbox'[e] = outbox[e]
    BY <1>2, <1>3
  <2>2. {c} \in SUBSET {"cell", "frame"}
    OBVIOUS
  <2>3. /\ faults' \in [Endpoints -> SUBSET {"cell", "frame"}] /\ faults'[a] = {c}
        /\ \A e \in Endpoints : e # a => faults'[e] = faults[e]
    BY <1>2, <1>3, <2>2
  <2>4. /\ activity' \in [Endpoints -> {"app", "writing", "reading", "closed"}]
        /\ \A e \in Endpoints : e # a => activity'[e] = activity[e]
        /\ \/ activity'[a] = "writing" /\ w # <<>>
           \/ activity'[a] = "app" /\ w = <<>>
    BY <1>1, <1>2, <1>3
  <2>5. "cell" \notin faults'[a] /\ activity'[a] = "writing" => outbox'[a] = o \o o
    BY <1>3, <2>1, <2>3, <2>4
  <2> QED
    BY <1>1, <2>1, <2>3, <2>4, <2>5 DEF Tampers
<1> HIDE DEF o
<1>4. ASSUME NEW i \in 1..Len(o),
             \/ outbox' = [outbox EXCEPT ![a] = Raised(@, i)]
             \/ outbox' = [outbox EXCEPT ![a] = [@ EXCEPT ![i] = 0]]
             \/ outbox' = [outbox EXCEPT ![a] = SubSeq(@, 1, i - 1) \o SubSeq(@, i + 1, Len(@))],
             faults' = [faults EXCEPT ![a] = {"cell"}], activity' = activity
      PROVE  Tampers(a)
  <2>1. PICK w \in Seq(Nat) : outbox' = [outbox EXCEPT ![a] = w] /\ w # <<>>
    <3>1. CASE outbox' = [outbox EXCEPT ![a] = Raised(@, i)]
      <4> DEFINE w == Raised(o, i)
      <4>1. w \in Seq(Nat) /\ w # <<>>
        BY <1>2, SpoiltCells
      <4>2. outbox' = [outbox EXCEPT ![a] = w]
        BY <3>1 DEF o
      <4> QED
        BY <4>1, <4>2
    <3>2. CASE outbox' = [outbox EXCEPT ![a] = [@ EXCEPT ![i] = 0]]
      <4> DEFINE w == [o EXCEPT ![i] = 0]
      <4>1. w \in Seq(Nat) /\ w # <<>>
        BY <1>2, SpoiltCells
      <4>2. outbox' = [outbox EXCEPT ![a] = w]
        BY <3>2 DEF o
      <4> QED
        BY <4>1, <4>2
    <3>3. CASE outbox' = [outbox EXCEPT ![a] = SubSeq(@, 1, i - 1) \o SubSeq(@, i + 1, Len(@))]
      <4> DEFINE w == SubSeq(o, 1, i - 1) \o SubSeq(o, i + 1, Len(o))
      <4>1. w \in Seq(Nat) /\ w # <<>>
        BY <1>2, SpoiltCells
      <4>2. outbox' = [outbox EXCEPT ![a] = w]
        BY <3>3 DEF o
      <4> QED
        BY <4>1, <4>2
    <3> QED
      BY <1>4, <3>1, <3>2, <3>3
  <2> QED
    BY <1>3, <1>4, <2>1
<1>5. CASE /\ outbox' = [outbox EXCEPT ![a] = Append(Raised(@, PeerHeaderCells), 0)]
           /\ faults' = [faults EXCEPT ![a] = {"cell"}]
           /\ UNCHANGED activity
  <2> DEFINE w == Append(Raised(o, PeerHeaderCells), 0)
  <2>1. 1 \in 1..Len(o)
    BY <1>2, LenProperties DEF PeerHeaderCells
  <2>2. w \in Seq(Nat) /\ w # <<>>
    BY <1>2, <2>1, SpoiltCells
  <2>3. outbox' = [outbox EXCEPT ![a] = w]
    BY <1>5 DEF o
  <2> HIDE DEF w
  <2> QED
    BY <1>3, <1>5, <2>2, <2>3
<1>6. CASE /\ outbox' = [outbox EXCEPT ![a] = @ \o @]
           /\ faults' = [faults EXCEPT ![a] = {"frame"}]
           /\ UNCHANGED activity
  <2> DEFINE w == o \o o
  <2>2. w \in Seq(Nat) /\ w # <<>>
    BY <1>2, ConcatCells
  <2>3. outbox' = [outbox EXCEPT ![a] = w]
    BY <1>6 DEF o
  <2>4. w = o \o o
    OBVIOUS
  <2> HIDE DEF w
  <2> QED
    BY <1>3, <1>6, <2>2, <2>3, <2>4
<1>7. CASE /\ outbox' = [outbox EXCEPT ![a] = <<>>]
           /\ faults' = [faults EXCEPT ![a] = {"frame"}]
           /\ activity' = [activity EXCEPT ![a] = "app"]
  <2>1. <<>> \in Seq(Nat)
    BY EmptySeq
  <2> QED
    BY <1>3, <1>7, <2>1
<1> QED
  BY <1>4, <1>5, <1>6, <1>7 DEF Tamper, o

LEMMA TampersFlow ==
  ASSUME ConnectionInv, NEW a, Tampers(a)
  PROVE  \A e \in Endpoints : FlowInv(e)'
<1>1. PICK p : p = Other(a)
  OBVIOUS
<1>2. /\ a \in Endpoints /\ activity[a] = "writing" /\ ~cut[a] /\ faults[a] = {} /\ faults'[a] # {}
      /\ activity'[a] \in {"app", "writing"}
      /\ "cell" \notin faults'[a] /\ activity'[a] = "writing"
            => outbox'[a] = outbox[a] \o outbox[a]
      /\ \A e \in Endpoints : e # a => /\ outbox'[e] = outbox[e] /\ activity'[e] = activity[e]
                                       /\ faults'[e] = faults[e]
      /\ UNCHANGED <<session, stream, header, since, now, sent, surfaced, ended, cut>>
  BY DEF Tampers
<1>3. /\ p \in Endpoints /\ p # a /\ Other(p) = a /\ Other(a) = p /\ Other(p)' = a
      /\ \A e \in Endpoints : e = a \/ e = p
  BY <1>1, <1>2, TwoEnds DEF Other
<1>4. FlowInv(a)'
  <2>1. Reads(a)
    BY <1>2 DEF Reads
  <2>2. Idles(p)
    BY <1>2, <1>3 DEF Idles
  <2> QED
    BY <1>2, <1>3, <2>1, <2>2, FlowKept
<1>5. FlowInv(p)'
  <2> SUFFICES ASSUME activity[p] # "closed", "cell" \notin faults'[a]
               PROVE  \E u, g \in Seq(Nat) : /\ header[p] \o stream[p] = u \o g
                                             /\ Whole(Frames(a), u)'
                                             /\ PartWritten(a, g)'
    BY <1>2, <1>3 DEF FlowInv
  <2>1. PICK u \in Seq(Nat), g \in Seq(Nat) :
          header[p] \o stream[p] = u \o g /\ Whole(Frames(a), u) /\ PartWritten(a, g)
    BY <1>2, <1>3 DEF ConnectionInv, FlowInv
  <2>2. g = <<>> /\ g \o outbox[a] \in Frames(a)
    BY <1>2, <2>1 DEF PartWritten
  <2>3. Frames(a)' = Frames(a) /\ Frames(a) \subseteq Seq(Nat)
    <3>1. Frames(a)' = Frames(a)
      BY <1>2 DEF Frames
    <3>2. Frames(a) \subseteq Seq(Nat)
      BY <1>2, SentFrames
    <3> QED
      BY <3>1, <3>2
  <2>4. outbox[a] \in Frames(a)
    <3>1. outbox[a] \in Seq(Nat)
      BY <1>2 DEF ConnectionInv, ConnectionTypes
    <3> QED
      BY <2>2, <3>1, ConcatCells
  <2>5. Whole(Frames(a), outbox[a] \o outbox[a])
    BY <2>3, <2>4, WholeOne, WholeConcat
  <2>6. Whole(Frames(a), u)' /\ Whole(Frames(a), outbox[a] \o outbox[a])
    BY <2>1, <2>3, <2>5 DEF Whole, Closed
  <2>7. activity'[a] = "writing" => Whole(Frames(a)', outbox'[a])
    BY <1>2, <2>3, <2>5
  <2>8. PartWritten(a, g)'
    <3>1. activity'[a] = "writing" => Whole(Frames(a), outbox[a])'
      BY <2>7
    <3> QED
      BY <1>2, <2>2, <3>1 DEF PartWritten
  <2> QED
    BY <2>1, <2>6, <2>8
<1> QED
  BY <1>3, <1>4, <1>5

LEMMA TamperKeeps ==
  ASSUME ConnectionInv, NEW a \in Endpoints, Tamper(a)
  PROVE  ConnectionInv'
<1>0. Tampers(a)
  BY TamperIs
<1>1. /\ activity[a] = "writing" /\ ~cut[a] /\ faults[a] = {} /\ faults'[a] # {}
      /\ outbox' \in [Endpoints -> Seq(Nat)]
      /\ activity' \in [Endpoints -> {"app", "writing", "reading", "closed"}]
      /\ faults' \in [Endpoints -> SUBSET {"cell", "frame"}]
      /\ activity'[a] \in {"app", "writing"}
      /\ (outbox'[a] # <<>> <=> activity'[a] = "writing")
      /\ \A e \in Endpoints : e # a => /\ outbox'[e] = outbox[e] /\ activity'[e] = activity[e]
                                       /\ faults'[e] = faults[e]
      /\ UNCHANGED <<session, stream, header, since, now, sent, surfaced, ended, cut>>
  BY <1>0 DEF Tampers
<1>2. ConnectionTypes
  BY DEF ConnectionInv
<1>3. ASSUME NEW e \in Endpoints
      PROVE  /\ session'[e].outSeq \in 0..MaxMessages /\ session'[e].inSeq \in 0..MaxMessages
             /\ header'[e] # <<>> => HeaderValid(header'[e]) /\ activity'[e] = "reading"
             /\ (outbox'[e] # <<>>) = (activity'[e] = "writing")
             /\ (ended'[e] = "") = (activity'[e] # "closed")
  <2>1. /\ session[e].outSeq \in 0..MaxMessages /\ session[e].inSeq \in 0..MaxMessages
        /\ header[e] # <<>> => HeaderValid(header[e]) /\ activity[e] = "reading"
        /\ (outbox[e] # <<>>) = (activity[e] = "writing")
        /\ (ended[e] = "") = (activity[e] # "closed")
    BY <1>2 DEF ConnectionTypes, SessionTypeOK
  <2>2. CASE e = a
    <3>1. header[e] = <<>> /\ ended[e] = ""
      BY <1>1, <2>1, <2>2
    <3> QED
      BY <1>1, <2>1, <2>2, <3>1
  <2>3. CASE e # a
    <3>1. outbox'[e] = outbox[e] /\ activity'[e] = activity[e]
      BY <1>1, <2>3
    <3> QED
      BY <1>1, <2>1, <3>1
  <2> QED
    BY <2>2, <2>3
<1>4. ConnectionTypes'
  BY <1>1, <1>2, <1>3 DEF ConnectionTypes, SessionTypeOK, HeaderValid
<1>5. \A e \in Endpoints : CountsInv(e)' /\ SentInv(e)' /\ HeardInv(e)'
  <2>1. \A e \in Endpoints : /\ "cell" \in faults[e] => "cell" \in faults'[e]
                             /\ activity[e] = "closed" => activity'[e] = "closed"
    BY <1>1
  <2> QED
    BY <1>1, <2>1, SessionsKept
<1>6. ASSUME NEW e \in Endpoints
      PROVE  EndsInv(e)'
  <2> DEFINE p == Other(e)
  <2>1. p \in Endpoints /\ p' = p /\ EndsInv(e)
    BY TwoEnds DEF Other, ConnectionInv
  <2>2. activity'[e] \in {"reading", "writing"} => activity'[e] = activity[e]
    BY <1>1
  <2>3. cut[e] => activity'[e] \in {"writing", "closed"}
    <3>1. CASE e = a
      BY <1>1, <3>1
    <3>2. CASE e # a
      BY <1>1, <2>1, <3>2 DEF EndsInv
    <3> QED
      BY <3>1, <3>2
  <2>4. activity'[e] = "writing" /\ ~cut[e] /\ faults'[e] = {} => Len(outbox'[e]) >= PeerHeaderCells
    <3>1. CASE e = a
      BY <1>1, <3>1
    <3>2. CASE e # a
      <4>1. activity'[e] = activity[e] /\ outbox'[e] = outbox[e] /\ faults'[e] = faults[e]
        BY <1>1, <3>2
      <4> QED
        BY <2>1, <4>1 DEF EndsInv
    <3> QED
      BY <3>1, <3>2
  <2>5. activity[p] = "closed" => activity'[p] = "closed" /\ faults'[p] = faults[p]
    BY <1>1, <2>1
  <2> HIDE DEF p
  <2>6. activity'[e] \in {"reading", "writing"} => now' <= TotalTimeout
    BY <1>1, <2>1, <2>2 DEF EndsInv
  <2>7. ended'[e] = "PeerClosed" => activity'[p] = "closed" /\ (faults'[p] = {} => ~cut'[p])
    BY <1>1, <2>1, <2>5 DEF EndsInv, p
  <2> QED
    BY <1>1, <2>1, <2>3, <2>4, <2>6, <2>7 DEF EndsInv, p
<1> QED
  BY <1>0, <1>4, <1>5, <1>6, TampersFlow DEF ConnectionInv

LEMMA TickKeeps ==
  ASSUME ConnectionInv, Tick
  PROVE  ConnectionInv'
<1>1. /\ UNCHANGED <<session, activity, outbox, stream, header, since, sent, surfaced,
                     ended, cut, faults>>
      /\ now < MaxTime /\ now' = now + 1
      /\ \A e \in Endpoints : activity[e] \in {"reading", "writing"} => now < IoLimit(e)
  BY DEF Tick
<1>2. /\ now \in 0..MaxTime /\ MaxTime \in Nat /\ TotalTimeout \in Nat /\ IdleTimeout \in Nat
      /\ since \in [Endpoints -> 0..MaxTime]
  BY SessionAssumption DEF ConnectionInv, ConnectionTypes, SessionTypeOK
<1>3. now' \in 0..MaxTime
  BY <1>1, <1>2
<1>4. ConnectionTypes'
  BY <1>1, <1>3 DEF ConnectionInv, ConnectionTypes, SessionTypeOK, HeaderValid
<1>5. \A e \in Endpoints : CountsInv(e)' /\ SentInv(e)' /\ HeardInv(e)'
  <2>1. \A e \in Endpoints : /\ "cell" \in faults[e] => "cell" \in faults'[e]
                             /\ activity[e] = "closed" => activity'[e] = "closed"
    BY <1>1
  <2> QED
    BY <1>1, <2>1, SessionsKept
<1>6. ASSUME NEW e \in Endpoints PROVE FlowInv(e)' /\ EndsInv(e)'
  <2>1. Other(e) \in Endpoints /\ Other(e)' = Other(e)
    BY TwoEnds DEF Other
  <2>2. FlowInv(e)'
    <3>1. Reads(e) /\ Idles(Other(e))
      BY <1>1 DEF Reads, Idles
    <3> QED
      BY <3>1, FlowKept
  <2>3. activity[e] \in {"reading", "writing"} => now' <= TotalTimeout
    <3>1. activity[e] \in {"reading", "writing"} => now < IoLimit(e)
      BY <1>1
    <3>2. IoLimit(e) <= TotalTimeout /\ IoLimit(e) \in Nat
      BY <1>2 DEF IoLimit
    <3> QED
      BY <1>1, <1>2, <3>1, <3>2
  <2>4. EndsInv(e)
    BY DEF ConnectionInv
  <2> HIDE DEF IoLimit
  <2> QED
    BY <1>1, <2>1, <2>2, <2>3, <2>4 DEF EndsInv
<1> QED
  BY <1>4, <1>5, <1>6 DEF ConnectionInv

LEMMA StillKeeps ==
  ASSUME ConnectionInv, UNCHANGED svars
  PROVE  ConnectionInv'
<1>1. UNCHANGED <<session, activity, outbox, stream, header, since, now, sent, surfaced, ended,
                  cut, faults>>
  BY DEF svars
<1>2. ConnectionTypes'
  BY <1>1 DEF ConnectionInv, ConnectionTypes, SessionTypeOK, HeaderValid
<1>3. \A e \in Endpoints : CountsInv(e)' /\ SentInv(e)' /\ HeardInv(e)'
  <2>1. \A e \in Endpoints : /\ "cell" \in faults[e] => "cell" \in faults'[e]
                             /\ activity[e] = "closed" => activity'[e] = "closed"
    BY <1>1
  <2> QED
    BY <1>1, <2>1, SessionsKept
<1>4. ASSUME NEW e \in Endpoints PROVE FlowInv(e)' /\ EndsInv(e)'
  <2>1. Other(e)' = Other(e)
    BY DEF Other
  <2>2. Reads(e) /\ Idles(Other(e))
    BY <1>1 DEF Reads, Idles
  <2>3. EndsInv(e)
    BY DEF ConnectionInv
  <2>4. EndsInv(e)'
    BY <1>1, <2>1, <2>3 DEF EndsInv
  <2> QED
    BY <2>2, <2>4, FlowKept
<1> QED
  BY <1>2, <1>3, <1>4 DEF ConnectionInv
-----------------------------------------------------------------------------
LEMMA ConnectionInitially == SessionInit => ConnectionInv
<1> SUFFICES ASSUME SessionInit PROVE ConnectionInv
  OBVIOUS
<1>1. PICK h \in [Endpoints -> AllHellos] :
        session = [e \in Endpoints |-> NewSession(h[e])]
  BY DEF SessionInit
<1>2. /\ activity = [e \in Endpoints |-> "app"] /\ outbox = [e \in Endpoints |-> <<>>]
      /\ stream = [e \in Endpoints |-> <<>>] /\ header = [e \in Endpoints |-> <<>>]
      /\ since = [e \in Endpoints |-> 0] /\ now = 0 /\ sent = [e \in Endpoints |-> <<>>]
      /\ surfaced = [e \in Endpoints |-> <<>>] /\ ended = [e \in Endpoints |-> ""]
      /\ cut = [e \in Endpoints |-> FALSE] /\ faults = [e \in Endpoints |-> {}]
  BY DEF SessionInit
<1>3. /\ MaxTime \in Nat /\ MaxMessages \in Nat /\ MaxBytes \in Nat /\ TotalTimeout \in Nat
  BY SessionAssumption
<1>4. ASSUME NEW e \in Endpoints
      PROVE  /\ session[e] \in Sessions /\ session[e].local = h[e] /\ session[e].remote = <<>>
             /\ session[e].outSeq = 0 /\ session[e].inSeq = 0
             /\ session[e].messages = 0 /\ session[e].bytes = 0
  BY <1>1 DEF NewSession, Sessions
<1>5. \A e \in Endpoints :
        /\ activity[e] = "app" /\ outbox[e] = <<>> /\ stream[e] = <<>> /\ header[e] = <<>>
        /\ since[e] = 0 /\ sent[e] = <<>> /\ surfaced[e] = <<>> /\ ended[e] = ""
        /\ cut[e] = FALSE /\ faults[e] = {}
  BY <1>2
<1>6. <<>> \in Seq(Nat) /\ <<>> \in Seq(Sendable) /\ <<>> \in Seq(Readable) /\ Len(<<>>) = 0
  BY EmptySeq
<1>7. ConnectionTypes
  <2>1. session \in [Endpoints -> Sessions]
    BY <1>1, <1>4
  <2>2. SessionTypeOK
    <3>1. /\ activity \in [Endpoints -> {"app", "writing", "reading", "closed"}]
          /\ now \in 0..MaxTime /\ since \in [Endpoints -> 0..MaxTime]
          /\ cut \in [Endpoints -> BOOLEAN]
      <4>1. activity \in [Endpoints -> {"app", "writing", "reading", "closed"}]
        BY <1>2
      <4>2. 0 \in 0..MaxTime
        BY <1>3
      <4>3. now \in 0..MaxTime /\ since \in [Endpoints -> 0..MaxTime]
        BY <1>2, <4>2
      <4>4. cut \in [Endpoints -> BOOLEAN]
        BY <1>2
      <4> QED
        BY <4>1, <4>3, <4>4
    <3>2. ASSUME NEW e \in Endpoints
          PROVE  /\ session[e].outSeq \in 0..MaxMessages /\ session[e].inSeq \in 0..MaxMessages
                 /\ header[e] = <<>>
                 /\ (outbox[e] # <<>>) = (activity[e] = "writing")
                 /\ (ended[e] = "") = (activity[e] # "closed")
      <4>1. session[e].outSeq \in 0..MaxMessages /\ session[e].inSeq \in 0..MaxMessages
        BY <1>3, <1>4
      <4>2. /\ header[e] = <<>>
            /\ (outbox[e] # <<>>) = (activity[e] = "writing")
            /\ (ended[e] = "") = (activity[e] # "closed")
        BY <1>5
      <4> QED
        BY <4>1, <4>2
    <3> QED
      BY <3>1, <3>2 DEF SessionTypeOK, HeaderValid
  <2> QED
    BY <1>2, <1>6, <2>1, <2>2 DEF ConnectionTypes
<1>8. ASSUME NEW e \in Endpoints
      PROVE  CountsInv(e) /\ SentInv(e) /\ HeardInv(e) /\ FlowInv(e) /\ EndsInv(e)
  <2>1. Other(e) \in Endpoints
    BY TwoEnds
  <2>2. CountsInv(e) /\ SentInv(e)
    <3>1. /\ session[e].outSeq = 0 /\ session[e].inSeq = 0 /\ session[e].messages = 0
          /\ session[e].bytes = 0
      BY <1>4
    <3>2. Len(sent[e]) = 0 /\ Len(surfaced[e]) = 0
      BY <1>6, <1>5
    <3>3. 0 <= MaxMessages /\ 0 <= MaxBytes
      BY <1>3
    <3>4. CountsInv(e)
      BY <3>1, <3>2, <3>3 DEF CountsInv
    <3>5. SentInv(e)
      BY <3>2 DEF SentInv
    <3> QED
      BY <3>4, <3>5
  <2>3. HeardInv(e)
    <3>1. /\ session[e].remote = <<>> /\ session[e].bytes = 0
      BY <1>4
    <3>2. /\ sent[e] = <<>> /\ surfaced[e] = <<>> /\ sent[Other(e)] = <<>> /\ Len(<<>>) = 0
      BY <1>6, <1>5, <2>1
    <3>3. FramesSize(<<>>) = 0
      BY FramesSizeEmpty
    <3> QED
      BY <3>1, <3>2, <3>3 DEF HeardInv
  <2>4. FlowInv(e)
    <3>1. header[e] \o stream[e] = <<>> \o <<>>
      BY <1>2
    <3>2. Whole(Frames(Other(e)), <<>>)
      BY WholeEmpty
    <3>3. PartWritten(Other(e), <<>>)
      BY <1>2, <2>1 DEF PartWritten
    <3> QED
      BY <1>6, <3>1, <3>2, <3>3 DEF FlowInv
  <2>5. EndsInv(e)
    BY <1>2, <1>3, <2>1 DEF EndsInv
  <2> QED
    BY <2>2, <2>3, <2>4, <2>5
<1> QED
  BY <1>7, <1>8 DEF ConnectionInv

LEMMA ConnectionKept == ConnectionInv /\ [SessionNext]_svars => ConnectionInv'
<1> SUFFICES ASSUME ConnectionInv, [SessionNext]_svars PROVE ConnectionInv'
  OBVIOUS
<1>1. ASSUME NEW e \in Endpoints, AppStep(e) PROVE ConnectionInv'
  <2>1. CASE Finish(e)
    BY <2>1, FinishKeeps
  <2>2. CASE BeginReceive(e)
    BY <2>2, BeginReceiveKeeps
  <2>3. CASE Send(e, Hello(session[e].local))
    <3>1. session[e] \in Sessions
      BY DEF ConnectionInv, ConnectionTypes
    <3>2. session[e].local \in AllHellos
      BY <3>1 DEF Sessions
    <3>3. Hello(session[e].local) \in Sendable
      BY <3>2 DEF Sendable
    <3> QED
      BY <2>3, <3>3, SendKeeps
  <2>4. CASE \E m \in Samples[e] : Send(e, m)
    <3>1. PICK m \in Samples[e] : Send(e, m)
      BY <2>4
    <3>2. m \in Sendable
      BY DEF Sendable
    <3> QED
      BY <3>1, <3>2, SendKeeps
  <2> QED
    BY <1>1, <2>1, <2>2, <2>3, <2>4 DEF AppStep
<1>2. ASSUME NEW e \in Endpoints, IoStep(e) PROVE ConnectionInv'
  BY <1>2, WriteSomeKeeps, WriteFailsKeeps, ReadHeaderKeeps, ReadPayloadKeeps, ReadEofKeeps,
     TimeoutKeeps DEF IoStep
<1>3. ASSUME NEW e \in Endpoints, Tamper(e) PROVE ConnectionInv'
  BY <1>3, TamperKeeps
<1>4. CASE Tick
  BY <1>4, TickKeeps
<1>5. CASE Over \/ UNCHANGED svars
  BY <1>5, StillKeeps DEF Over
<1> QED
  BY <1>1, <1>2, <1>3, <1>4, <1>5 DEF SessionNext

(* Whatever is cut, lost, repeated or changed on the way, the counts, the  *)
(* streams and what each end believes keep in step.                        *)
THEOREM ConnectionInvariant == ConnectionSpec => []ConnectionInv
<1>1. SessionInit => ConnectionInv
  BY ConnectionInitially
<1>2. ConnectionInv /\ [SessionNext]_svars => ConnectionInv'
  BY ConnectionKept
<1> QED
  BY <1>1, <1>2, PTL DEF ConnectionSpec

(* Every piece of a connection keeps its shape, and no sequence number     *)
(* passes the message budget.                                              *)
THEOREM SessionTypes == ConnectionSpec => []SessionTypeOK
<1>1. ConnectionInv => SessionTypeOK
  BY DEF ConnectionInv, ConnectionTypes
<1> QED
  BY <1>1, ConnectionInvariant, PTL

LEMMA PrefixIs ==
  ASSUME NEW S, NEW T, NEW s \in Seq(S), NEW t \in Seq(T),
         Len(s) <= Len(t), \A i \in 1..Len(s) : s[i] = t[i]
  PROVE  IsPrefix(s, t)
<1>1. Len(s) \in Nat /\ Len(t) \in Nat
  BY LenProperties
<1>2. SubSeq(s, 1, Len(s)) = SubSeq(t, 1, Len(s))
  BY <1>1
<1> QED
  BY <1>2 DEF IsPrefix

(* What an end is given is a prefix of what the other end sent; a message  *)
(* surfaces only between compatible nodes that have seen each other's      *)
(* hello; and the peer is taken to have closed only between two frames.    *)
THEOREM SessionIsSound == ConnectionSpec => []SessionSound
<1>1. ASSUME ConnectionInv PROVE InOrderDelivery
  <2> SUFFICES ASSUME NEW e \in Endpoints, "cell" \notin faults[Other(e)]
               PROVE  IsPrefix(surfaced[e], sent[Other(e)])
    BY DEF InOrderDelivery
  <2>1. Other(e) \in Endpoints /\ surfaced[e] \in Seq(Readable) /\ HeardInv(e)
    BY <1>1, TwoEnds DEF ConnectionInv, ConnectionTypes
  <2>2. sent[Other(e)] \in Seq(Sendable)
    BY <1>1, <2>1 DEF ConnectionInv, ConnectionTypes
  <2> QED
    BY <2>1, <2>2, PrefixIs DEF HeardInv
<1>2. ASSUME ConnectionInv PROVE MutualHandshake
  <2> SUFFICES ASSUME NEW e \in Endpoints, NEW i \in DOMAIN surfaced[e],
                      surfaced[e][i].kind # Kinds.Hello, "cell" \notin faults[Other(e)]
               PROVE  /\ session[e].remote = <<session[Other(e)].local>>
                      /\ session[Other(e)].remote # <<>>
                      /\ Compatible(session[e].local, session[Other(e)].local)
    BY DEF MutualHandshake, Compatible
  <2>1. Other(e) \in Endpoints /\ surfaced[e] \in Seq(Readable) /\ HeardInv(e)
    BY <1>2, TwoEnds DEF ConnectionInv, ConnectionTypes
  <2>2. SentInv(Other(e)) /\ sent[Other(e)] \in Seq(Sendable)
    BY <1>2, <2>1 DEF ConnectionInv, ConnectionTypes
  <2>3. i \in 1..Len(surfaced[e]) /\ surfaced[e][i] = sent[Other(e)][i]
    BY <2>1, LenProperties DEF HeardInv
  <2>4. i \in 1..Len(sent[Other(e)])
    BY <2>1, <2>2, <2>3, LenProperties DEF HeardInv
  <2> QED
    BY <2>1, <2>2, <2>3, <2>4 DEF HeardInv, SentInv
<1>3. ASSUME ConnectionInv PROVE CleanEndAtBoundary
  BY <1>3 DEF CleanEndAtBoundary, ConnectionInv, EndsInv
<1>4. ConnectionInv => SessionSound
  BY <1>1, <1>2, <1>3 DEF SessionSound
<1> QED
  BY <1>4, ConnectionInvariant, PTL

(* Every frame of both directions is counted exactly once, against budgets *)
(* that are never exceeded, and no read or write outlasts the connection.  *)
THEOREM SessionWithinLimits == ConnectionSpec => []ResourcesBounded
<1>1. ConnectionInv => BudgetsExact
  BY DEF BudgetsExact, ConnectionInv, CountsInv, HeardInv
<1>2. ConnectionInv => LifetimeBounded
  BY DEF LifetimeBounded, ConnectionInv, EndsInv
<1>3. ConnectionInv => ResourcesBounded
  BY <1>1, <1>2 DEF ResourcesBounded
<1> QED
  BY <1>3, ConnectionInvariant, PTL
=============================================================================
