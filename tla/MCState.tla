------------------------------ MODULE MCState -------------------------------
(***************************************************************************)
(* Components whose properties are about states alone, model-checked in    *)
(* one run: the consensus ledger, retargeting along a chain of headers,    *)
(* the wallet, the data directory and the thin miner.  They share no       *)
(* state: one of them runs in a behaviour while the others stay in an      *)
(* initial state.                                                          *)
(***************************************************************************)
EXTENDS MCLedger, Headers, DataDir, Miner

VARIABLES
    part,                                                         \* the component that runs
    utxos, mempool, blocks, fresh, reply                          \* Wallet

W == INSTANCE Wallet WITH
    chain <- blocks, Own <- "own", Foreign <- "foreign", Amounts <- {1, 4}, Fees <- {1, 2},
    Reward <- 2, Maturity <- 1, MaxInputs <- 2, MaxHistory <- 2,
    MaxMempoolTransactions <- 3, MaxMempoolBytes <- 7, MaxBlockInputs <- 4,
    MaxBlockOutputs <- 6, MaxSignatureChecks <- 3, RelayUnit <- 2,
    MaxHeight <- 2, MaxOutpoints <- 11

ASSUME /\ KeysAssumption /\ ProcessesAssumption /\ MinerAssumption
       /\ LedgerAssumption /\ RetargetAssumption

wvars == <<utxos, mempool, blocks, fresh, reply>>

StateInit ==
    /\ Init /\ HeadersInit /\ W!Init /\ DirInit /\ MinerInit
    /\ \/ part = "directory"
       \/ part \in {"ledger", "headers", "wallet", "miner"} /\ meta = "absent"

StateNext ==
    \/ part = "ledger" /\ Next /\ UNCHANGED <<part, headerVars, wvars, dirVars, minerVars>>
    \/ part = "headers" /\ ExtendHeaders /\ UNCHANGED <<part, vars, wvars, dirVars, minerVars>>
    \/ part = "wallet" /\ W!Next /\ UNCHANGED <<part, vars, headerVars, dirVars, minerVars>>
    \/ part = "directory" /\ DirNext /\ UNCHANGED <<part, vars, headerVars, wvars, minerVars>>
    \/ part = "miner" /\ MinerNext /\ UNCHANGED <<part, vars, headerVars, wvars, dirVars>>

StateSpec == StateInit /\ [][StateNext]_<<part, vars, headerVars, wvars, dirVars, minerVars>>
-----------------------------------------------------------------------------
\* Every variable of the component that runs keeps its type; of the data directory,
\* that one process has it open; of the miner's channel, that it keeps its capacity.
StateTypeOK ==
    /\ part = "ledger" => TypeOK
    /\ part = "wallet" => W!TypeOK
    /\ DirTypeOK /\ MinerTypeOK

\* Wallet: the history it shows adds up to what it owns, what it builds is refused by
\* its own node for a limit only and never for its coins, and a refusal for too many
\* inputs holds for every selection.
WalletSound ==
    part = "wallet" => W!HistoryAddsUp /\ W!OwnSendsAdmitted /\ W!InputLimitTruthful
=============================================================================
