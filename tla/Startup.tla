------------------------------ MODULE Startup ------------------------------
(***************************************************************************)
(* Starting the payment service on files that may be fresh, old, or in use *)
(* by an overlapping process: the wallet database is migrated under a lock *)
(* (src/wallet_db.rs), the app schema is created and upgraded, the         *)
(* singleton identity and settings rows are stored or compared (src/db.rs),*)
(* PaymentService::initialize makes its last checks (src/service.rs), and  *)
(* the sync loop (src/wallet_runtime.rs) and the webhook worker            *)
(* (src/webhook_delivery.rs), spawned afterwards, open the files again.    *)
(* Simulated payments are here because what protects real data from them   *)
(* is a check at startup.                                                  *)
(*                                                                         *)
(* A task is one caller: "http" of PaymentService::initialize (a program   *)
(* that embeds the crate may have several), "sync" the sync loop, "worker" *)
(* the webhook worker.  A crew is the set of callers a deployment has.     *)
(* Each statement that reads or commits to a file is one action.           *)
(***************************************************************************)
EXTENDS ServiceConfig, Sequences, FiniteSets

CONSTANTS
    Procs,         \* processes that may overlap on the same files
    Tasks,         \* records [proc, role, id]
    Crews,         \* the sets of tasks that can make up a deployment
    NoTask,
    Envs,          \* per process: environments it can be started with
    FirstEnv,      \* the one an old app file was written under
    NoIdentity,    \* no wallet_identity row
    NoMetadata,    \* no service_metadata row
    NoAccount,     \* the wallet database has no account
    Accounts,      \* accounts a given wallet database can come with
    Schemas,       \* app databases a first start can find: see SchemaNames
    KeyNetwork,    \* the network each decodable UIVK is encoded for
    MaxFailures    \* bound: crashes, busy databases and unreadable accounts

SchemaNames == {"fresh",           \* no file
                "before_mempool",  \* receipts without receipt_kind
                "before_ironwood"} \* pools without ironwood, no array columns

AllEnvs == UNION {Envs[p] : p \in Procs}

ASSUME StartupAssumption ==
    /\ \A t \in Tasks : t.proc \in Procs /\ t.role \in {"http", "sync", "worker"}
    /\ NoTask \notin Tasks
    /\ Crews \subseteq SUBSET Tasks
    /\ FirstEnv \in AllEnvs /\ ConfigAccepted(FirstEnv)
    /\ FirstEnv.startup_uivk # NoUivk /\ FromEnv(FirstEnv).birthday # Unset
    /\ \A e \in AllEnvs : e.numbers \in [Settings -> Nat \cup {Unset, Garbage, Blank}]
    /\ \A a \in Accounts \ {NoAccount} : a.birthday \in Nat
    /\ Schemas \subseteq SchemaNames
    /\ MaxFailures \in Nat

VARIABLES
    crew,       \* the tasks of this deployment (never changes)
    phase,      \* per process: "stopped", "running" or "exited"
    env,        \* per process: its environment
    lock,       \* per process: the holder of the wallet database init lock
    migrated,   \* per process: the wallet path is in the cache
    task,       \* per task: pc, wallet connection, column to add, identity
    wallet,     \* the wallet file: schema migrated?, its account
    schema,     \* the app file: its schema
    identity,   \* the wallet_identity row
    metadata,   \* the service_metadata row
    marker,     \* the simulated_data_marker row
    simulated,  \* simulated receipts are in the ledger
    overlapped, \* history: two processes ran at the same time
    failures    \* how many of MaxFailures happened

files == << wallet, schema, identity, metadata, marker, simulated >>
vars == << crew, phase, env, lock, migrated, task, files, overlapped, failures >>

Config(t) == FromEnv(env[t.proc])

Off == [pc |-> "off", conn |-> FALSE, column |-> "none", ident |-> NoIdentity]

ArrayColumns == << "service_metadata.required_confirmations",
                   "address_totals.received_by_confirmations",
                   "address_totals.last_notified_by_confirmations",
                   "webhook_deliveries.received_by_confirmations" >>

Columns == {ArrayColumns[i] : i \in DOMAIN ArrayColumns}

\* The app file as first found.  An old one has an address with an Orchard
\* receiver and no copy of it for the Ironwood pool.
FoundSchema(name) ==
    [tables |-> name # "fresh", receipt_kind |-> name # "before_mempool",
     columns |-> {}, ironwood |-> name = "fresh",
     orchard |-> name # "fresh", copied |-> FALSE]

Past(t) == task[t].pc \in {"checks", "serving", "simulating", "status", "scanning"}

PcValues == {"off", "wallet", "lock", "migrate", "batch", "pools", "columns",
             "alter", "identity", "identity_insert", "metadata",
             "metadata_insert", "required", "checks", "serving", "simulating",
             "status", "scanning", "delivering"}

Identities == [uivk : {FromEnv(e).startup_uivk : e \in AllEnvs} \cup
                      {a.uivk : a \in Accounts \ {NoAccount}},
               network : {"testnet", "mainnet"}, birthday : Nat,
               path : {e.wallet_db_path : e \in AllEnvs}]

MetadataRows == [version : 1 .. 2, report : Nat, finality : Nat,
                 required : Nat \cup {Unset}, scanned : {0, 1}]

ASSUME RowAssumption == NoIdentity \notin Identities /\ NoMetadata \notin MetadataRows

TaskStates == [pc : PcValues, conn : BOOLEAN, column : Columns \cup {"none"},
               ident : Identities \cup {NoIdentity}]

TypeOK ==
    /\ crew \in Crews
    /\ phase \in [Procs -> {"stopped", "running", "exited"}]
    /\ env \in [Procs -> AllEnvs]
    /\ lock \in [Procs -> Tasks \cup {NoTask}]
    /\ migrated \in [Procs -> BOOLEAN]
    /\ task \in [Tasks -> TaskStates]
    /\ wallet \in [ready : BOOLEAN, account : Accounts]
    /\ schema \in [tables : BOOLEAN, receipt_kind : BOOLEAN,
                   columns : SUBSET Columns, ironwood : BOOLEAN,
                   orchard : BOOLEAN, copied : BOOLEAN]
    /\ identity \in Identities \cup {NoIdentity}
    /\ metadata \in MetadataRows \cup {NoMetadata}
    /\ marker \in BOOLEAN /\ simulated \in BOOLEAN /\ overlapped \in BOOLEAN
    /\ failures \in 0 .. MaxFailures

IdentityOf(c, uivk, birthday) ==
    [uivk |-> uivk, network |-> c.network, birthday |-> birthday,
     path |-> c.wallet_db_path]

NewMetadata(c, version) ==
    [version |-> version, report |-> c.report, finality |-> c.finality,
     required |-> Unset, scanned |-> 0]

Init ==
    /\ crew \in Crews
    /\ phase = [p \in Procs |-> "stopped"]
    /\ env = [p \in Procs |-> FirstEnv]
    /\ lock = [p \in Procs |-> NoTask]
    /\ migrated = [p \in Procs |-> FALSE]
    /\ task = [t \in Tasks |-> Off]
    /\ \E a \in Accounts : wallet = [ready |-> a # NoAccount, account |-> a]
    /\ LET c == FromEnv(FirstEnv)
       IN  \E name \in Schemas :
            /\ schema = FoundSchema(name)
            /\ identity = IF name = "fresh" THEN NoIdentity
                          ELSE IdentityOf(c, c.startup_uivk, c.birthday)
            /\ metadata = IF name = "fresh" THEN NoMetadata ELSE NewMetadata(c, 1)
    /\ marker = FALSE /\ simulated = FALSE /\ overlapped = FALSE
    /\ failures = 0

-----------------------------------------------------------------------------
(* Steps of a task, and how it fails.                                      *)

Goto(t, pc) == task' = [task EXCEPT ![t] = [@ EXCEPT !.pc = pc, !.column = "none"]]

\* The process is gone: its tasks, its locks and its cache of migrated paths.
Exit(p) ==
    /\ phase' = [phase EXCEPT ![p] = "exited"]
    /\ task' = [t \in Tasks |-> IF t.proc = p THEN Off ELSE task[t]]
    /\ lock' = [lock EXCEPT ![p] = NoTask]
    /\ migrated' = [migrated EXCEPT ![p] = FALSE]

\* An error: initialize returns it from main, which ends the process; the sync
\* loop begins its next iteration; the worker opens the database again
\* (retry_open).  A guard and a connection are dropped on the way.
Fails(t) ==
    \/ /\ t.role = "http"
       /\ Exit(t.proc)
    \/ /\ t.role # "http"
       /\ task' = [task EXCEPT ![t] =
            [Off EXCEPT !.pc = IF t.role = "sync" THEN "wallet" ELSE "batch"]]
       /\ lock' = [lock EXCEPT ![t.proc] = IF @ = t THEN NoTask ELSE @]
       /\ UNCHANGED << phase, migrated >>

Memory == << phase, lock, migrated >>
Rest == << crew, env, overlapped >>

\* Config::from_env, then the initializers begin.
Start(p, e) ==
    /\ \E t \in crew : t.proc = p
    /\ phase[p] # "running"
    /\ \/ /\ ~ConfigAccepted(e)
          /\ phase' = [phase EXCEPT ![p] = "stopped"]
          /\ UNCHANGED << env, task, overlapped >>
       \/ /\ ConfigAccepted(e)
          /\ phase' = [phase EXCEPT ![p] = "running"]
          /\ env' = [env EXCEPT ![p] = e]
          /\ task' = [t \in Tasks |->
                IF t \in crew /\ t.proc = p /\ t.role = "http" THEN [Off EXCEPT !.pc = "wallet"]
                ELSE task[t]]
          /\ overlapped' = (overlapped \/ \E q \in Procs : phase[q] = "running")
    /\ UNCHANGED << crew, lock, migrated, files, failures >>

\* A supervisor starts an exited process again.
Restart(p) == phase[p] = "exited" /\ Start(p, env[p])

Crash(p) ==
    /\ phase[p] = "running"
    /\ failures < MaxFailures
    /\ failures' = failures + 1
    /\ Exit(p)
    /\ UNCHANGED << files, Rest >>

\* SQLite gives up waiting for a lock another connection holds; a deferred
\* transaction that has already read does not even wait.
DatabaseBusy(t) ==
    /\ task[t].pc \in {"migrate", "batch", "pools", "alter", "identity",
                       "identity_insert", "metadata_insert", "required", "status"}
    /\ failures < MaxFailures
    /\ failures' = failures + 1
    /\ Fails(t)
    /\ UNCHANGED << files, Rest >>

-----------------------------------------------------------------------------
(* open_migrated_wallet_db.                                                *)

\* Mutant: the connection is opened before the lock is taken.
ConnectThenLook(t) ==
    /\ task[t].pc = "wallet"
    /\ task' = [task EXCEPT ![t].pc = IF migrated[t.proc] THEN "batch" ELSE "lock",
                            ![t].conn = ~migrated[t.proc]]
    /\ UNCHANGED << Memory, files, Rest, failures >>

LookInCache(t) ==
    /\ task[t].pc = "wallet"
    /\ Goto(t, IF migrated[t.proc] THEN "batch" ELSE "lock")
    /\ UNCHANGED << Memory, files, Rest, failures >>

\* The lock is free: look again, and only then connect to the wallet file.
TakeInitLock(t) ==
    /\ task[t].pc = "lock"
    /\ lock[t.proc] = NoTask
    /\ \/ /\ migrated[t.proc]
          /\ task' = [task EXCEPT ![t].pc = "batch", ![t].conn = FALSE]
          /\ UNCHANGED lock
       \/ /\ ~migrated[t.proc]
          /\ task' = [task EXCEPT ![t].pc = "migrate", ![t].conn = TRUE]
          /\ lock' = [lock EXCEPT ![t.proc] = t]
    /\ UNCHANGED << phase, migrated, files, Rest, failures >>

\* init_wallet_db.  Schema changes need the wallet file for themselves: two
\* migrations are serialised by SQLite, a connection that is kept open by a
\* task that waits for something else keeps the migration out.
MigrateWalletDb(t) ==
    /\ task[t].pc = "migrate"
    /\ \A u \in Tasks : task[u].conn => task[u].pc = "migrate"
    /\ wallet' = [wallet EXCEPT !.ready = TRUE]
    /\ migrated' = [migrated EXCEPT ![t.proc] = TRUE]
    /\ lock' = [lock EXCEPT ![t.proc] = NoTask]
    /\ task' = [task EXCEPT ![t].pc = "batch", ![t].conn = FALSE]
    /\ UNCHANGED << phase, schema, identity, metadata, marker, simulated, Rest,
                    failures >>

-----------------------------------------------------------------------------
(* AppDb::open, initialize_schema.                                         *)

\* CREATE TABLE and CREATE INDEX IF NOT EXISTS.  The index over receipt_kind
\* is created here, before the step that would add the column to an older
\* table, so an app file from before that column is refused; any other has
\* both mempool columns and that step finds nothing to do.
ExecuteBatch(t) ==
    /\ task[t].pc = "batch"
    /\ \/ /\ schema.tables /\ ~schema.receipt_kind
          /\ Fails(t)
          /\ UNCHANGED schema
       \/ /\ schema.receipt_kind
          /\ schema' = [schema EXCEPT !.tables = TRUE]
          /\ Goto(t, "pools")
          /\ UNCHANGED Memory
    /\ UNCHANGED << wallet, identity, metadata, marker, simulated, Rest, failures >>

\* Mutant: tables are rebuilt and the receivers are not copied.
RebuildPoolsOnly(t) ==
    /\ task[t].pc = "pools"
    /\ schema' = [schema EXCEPT !.ironwood = TRUE]
    /\ Goto(t, "columns")
    /\ UNCHANGED << Memory, wallet, identity, metadata, marker, simulated, Rest,
                    failures >>

\* ensure_ironwood_pool_support: rebuild the tables whose CHECK lacks the
\* pool, copy every Orchard receiver, raise the schema version; one transaction.
EnsureIronwoodPoolSupport(t) ==
    /\ task[t].pc = "pools"
    /\ schema' = [schema EXCEPT !.ironwood = TRUE, !.copied = schema.orchard]
    /\ metadata' = IF metadata = NoMetadata THEN NoMetadata
                   ELSE [metadata EXCEPT !.version = 2]
    /\ Goto(t, "columns")
    /\ UNCHANGED << Memory, wallet, identity, marker, simulated, Rest, failures >>

MissingColumns == {i \in DOMAIN ArrayColumns : ArrayColumns[i] \notin schema.columns}

\* Mutant: the first column is added without looking.
AssumeColumnMissing(t) ==
    /\ task[t].pc = "columns"
    /\ task' = [task EXCEPT ![t].pc = "alter", ![t].column = ArrayColumns[1]]
    /\ UNCHANGED << Memory, files, Rest, failures >>

\* ensure_received_by_confirmations_columns: look for the columns in order, up
\* to the first that is missing.  The worker only opens the database.
LookForColumn(t) ==
    /\ task[t].pc = "columns"
    /\ \/ /\ MissingColumns = {}
          /\ Goto(t, IF t.role = "worker" THEN "delivering" ELSE "identity")
       \/ \E i \in MissingColumns :
            /\ \A j \in MissingColumns : i <= j
            /\ task' = [task EXCEPT ![t].pc = "alter", ![t].column = ArrayColumns[i]]
    /\ UNCHANGED << Memory, files, Rest, failures >>

\* ALTER TABLE ADD COLUMN, an error if another connection was faster.
AddColumn(t) ==
    /\ task[t].pc = "alter"
    /\ \/ /\ task[t].column \in schema.columns
          /\ Fails(t)
          /\ UNCHANGED schema
       \/ /\ task[t].column \notin schema.columns
          /\ schema' = [schema EXCEPT !.columns = @ \cup {task[t].column}]
          /\ Goto(t, "columns")
          /\ UNCHANGED Memory
    /\ UNCHANGED << wallet, identity, metadata, marker, simulated, Rest, failures >>

-----------------------------------------------------------------------------
(* ensure_wallet_identity.                                                 *)

\* The environment and the wallet account agree with a stored identity.
Agrees(c, account, row) ==
    /\ account # NoAccount =>
            account.uivk = row.uivk /\ account.birthday = row.birthday
    /\ c.startup_uivk \in {NoUivk, row.uivk}
    /\ c.network = row.network
    /\ c.birthday \in {Unset, row.birthday}

\* What a first start stores: the environment's values, or the account's.
Proposed(c, account) ==
    IdentityOf(c,
        IF c.startup_uivk # NoUivk THEN c.startup_uivk ELSE account.uivk,
        IF c.birthday # Unset THEN c.birthday ELSE account.birthday)

Proposable(c, account) ==
    IF account = NoAccount THEN c.startup_uivk # NoUivk /\ c.birthday # Unset
    ELSE c.startup_uivk \in {NoUivk, account.uivk}

\* read_wallet_db_identity takes a busy wallet file for one without account.
ReadAccount(account) ==
    \/ account = wallet.account /\ UNCHANGED failures
    \/ /\ wallet.account # NoAccount
       /\ account = NoAccount
       /\ failures < MaxFailures
       /\ failures' = failures + 1

ReadIdentity(t) ==
    /\ task[t].pc = "identity"
    /\ \E account \in {wallet.account, NoAccount} :
        /\ ReadAccount(account)
        /\ \/ /\ identity # NoIdentity
              /\ Agrees(Config(t), account, identity)
              /\ task' = [task EXCEPT ![t].pc = "metadata", ![t].ident = identity]
              /\ UNCHANGED Memory
           \/ /\ identity = NoIdentity
              /\ Proposable(Config(t), account)
              /\ task' = [task EXCEPT ![t].pc = "identity_insert",
                                      ![t].ident = Proposed(Config(t), account)]
              /\ UNCHANGED Memory
           \/ /\ IF identity # NoIdentity THEN ~Agrees(Config(t), account, identity)
                 ELSE ~Proposable(Config(t), account)
              /\ Fails(t)
    /\ UNCHANGED << files, Rest >>

\* Mutant: INSERT OR REPLACE.
ReplaceIdentity(t) ==
    /\ task[t].pc = "identity_insert"
    /\ identity' = task[t].ident
    /\ Goto(t, "metadata")
    /\ UNCHANGED << Memory, wallet, schema, metadata, marker, simulated, Rest,
                    failures >>

\* The insert wins, or meets a row to compare with.
InsertIdentity(t) ==
    /\ task[t].pc = "identity_insert"
    /\ \/ /\ identity \in {NoIdentity, task[t].ident}
          /\ identity' = task[t].ident
          /\ Goto(t, "metadata")
          /\ UNCHANGED Memory
       \/ /\ identity \notin {NoIdentity, task[t].ident}
          /\ Fails(t)
          /\ UNCHANGED identity
    /\ UNCHANGED << wallet, schema, metadata, marker, simulated, Rest, failures >>

-----------------------------------------------------------------------------
(* ensure_service_metadata.                                                *)

SameSettings(c) == metadata.report = c.report /\ metadata.finality = c.finality

ReadMetadata(t) ==
    /\ task[t].pc = "metadata"
    /\ \/ /\ metadata = NoMetadata
          /\ Goto(t, "metadata_insert")
          /\ UNCHANGED Memory
       \/ /\ metadata # NoMetadata
          /\ SameSettings(Config(t))
          /\ Goto(t, "required")
          /\ UNCHANGED Memory
       \/ /\ metadata # NoMetadata
          /\ ~SameSettings(Config(t))
          /\ Fails(t)
    /\ UNCHANGED << files, Rest, failures >>

\* Mutant: a conflicting insert is taken for success.
InsertMetadataUnchecked(t) ==
    /\ task[t].pc = "metadata_insert"
    /\ metadata' = IF metadata = NoMetadata THEN NewMetadata(Config(t), 2) ELSE metadata
    /\ Goto(t, "required")
    /\ UNCHANGED << Memory, wallet, schema, identity, marker, simulated, Rest,
                    failures >>

InsertMetadata(t) ==
    /\ task[t].pc = "metadata_insert"
    /\ \/ /\ metadata = NoMetadata
          /\ metadata' = NewMetadata(Config(t), 2)
          /\ Goto(t, "required")
          /\ UNCHANGED Memory
       \/ /\ metadata # NoMetadata
          /\ UNCHANGED metadata
          /\ \/ SameSettings(Config(t)) /\ Goto(t, "required") /\ UNCHANGED Memory
             \/ ~SameSettings(Config(t)) /\ Fails(t)
    /\ UNCHANGED << wallet, schema, identity, marker, simulated, Rest, failures >>

\* apply_required_confirmations: stored, and every array rebuilt, when changed.
ApplyRequiredConfirmations(t) ==
    /\ task[t].pc = "required"
    /\ metadata' = [metadata EXCEPT !.required = Config(t).required]
    /\ Goto(t, IF t.role = "http" THEN "checks" ELSE "status")
    /\ UNCHANGED << Memory, wallet, schema, identity, marker, simulated, Rest,
                    failures >>

-----------------------------------------------------------------------------
(* The rest of PaymentService::initialize, and what is spawned after it.   *)

\* WalletView::decode (external): a well-formed key of this network with
\* Orchard and Sapling receivers.
Decodes(uivk, network) == uivk \in DOMAIN KeyNetwork /\ KeyNetwork[uivk] = network

\* Mutant: simulated data is not looked for.
PassesWithoutMarker(t, account) ==
    /\ Decodes(task[t].ident.uivk, task[t].ident.network)
    /\ ~(Config(t).dev /\ Config(t).lightwalletd)
    /\ account # NoAccount => account.uivk = task[t].ident.uivk

PassesChecks(t, account) ==
    /\ Decodes(task[t].ident.uivk, task[t].ident.network)
    /\ ~(Config(t).dev /\ Config(t).lightwalletd)
    /\ ~(Config(t).lightwalletd /\ marker)
    /\ account # NoAccount => account.uivk = task[t].ident.uivk

CheckAndServe(t) ==
    /\ task[t].pc = "checks"
    /\ \E account \in {wallet.account, NoAccount} :
        /\ ReadAccount(account)
        /\ \/ PassesChecks(t, account) /\ Goto(t, "serving") /\ UNCHANGED Memory
           \/ ~PassesChecks(t, account) /\ Fails(t)
    /\ UNCHANGED << files, Rest >>

\* spawn_wallet_sync_worker and spawn_webhook_delivery_worker, after an
\* initialize has returned; the worker needs a webhook URL and a secret.
Spawn(t) ==
    /\ t \in crew
    /\ task[t].pc = "off"
    /\ \E u \in Tasks : u.proc = t.proc /\ u.role = "http" /\
            task[u].pc \in {"serving", "simulating"}
    /\ \/ t.role = "sync" /\ Goto(t, "wallet")
       \/ t.role = "worker" /\ Config(t).webhook /\ Goto(t, "batch")
    /\ UNCHANGED << Memory, files, Rest, failures >>

\* sync_once: without a key or an endpoint there is nothing to scan, and the
\* recorded height goes back to 0 (record_sync_status with a blocked state).
SyncOnce(t) ==
    /\ task[t].pc = "status"
    /\ \/ /\ Config(t).startup_uivk = NoUivk \/ ~Config(t).lightwalletd
          /\ metadata' = [metadata EXCEPT !.scanned = 0]
          /\ Goto(t, "wallet")
       \/ /\ Config(t).startup_uivk # NoUivk /\ Config(t).lightwalletd
          /\ Goto(t, "scanning")
          /\ UNCHANGED metadata
    /\ UNCHANGED << Memory, wallet, schema, identity, marker, simulated, Rest,
                    failures >>

\* sync_with_lightwalletd, in ChainSync; here only that it makes progress.
Scan(t) ==
    /\ task[t].pc = "scanning"
    /\ metadata' = [metadata EXCEPT !.scanned = 1]
    /\ Goto(t, "wallet")
    /\ UNCHANGED << Memory, wallet, schema, identity, marker, simulated, Rest,
                    failures >>

\* POST /dev/simulate-payment: the marker, then the receipt.
MarkSimulatedData(t) ==
    /\ task[t].pc = "serving"
    /\ Config(t).dev /\ task[t].ident.network = "testnet"
    /\ marker' = TRUE
    /\ Goto(t, "simulating")
    /\ UNCHANGED << Memory, wallet, schema, identity, metadata, simulated, Rest,
                    failures >>

ApplySimulatedReceipt(t) ==
    /\ task[t].pc = "simulating"
    /\ simulated' = TRUE
    /\ Goto(t, "serving")
    /\ UNCHANGED << Memory, wallet, schema, identity, metadata, marker, Rest, failures >>

-----------------------------------------------------------------------------
Step(t) ==
    \/ LookInCache(t) \/ TakeInitLock(t) \/ MigrateWalletDb(t)
    \/ ExecuteBatch(t) \/ EnsureIronwoodPoolSupport(t)
    \/ LookForColumn(t) \/ AddColumn(t)
    \/ ReadIdentity(t) \/ InsertIdentity(t)
    \/ ReadMetadata(t) \/ InsertMetadata(t) \/ ApplyRequiredConfirmations(t)
    \/ CheckAndServe(t) \/ Spawn(t) \/ SyncOnce(t) \/ Scan(t)
    \/ ApplySimulatedReceipt(t)

Next ==
    \/ \E p \in Procs : (\E e \in Envs[p] : Start(p, e)) \/ Restart(p) \/ Crash(p)
    \/ \E t \in Tasks : Step(t) \/ DatabaseBusy(t) \/ MarkSimulatedData(t)

\* Tasks run, and a supervisor restarts a process that exited.
Spec ==
    /\ Init /\ [][Next]_vars
    /\ \A t \in Tasks : WF_vars(Step(t))
    /\ \A p \in Procs : WF_vars(Restart(p))

-----------------------------------------------------------------------------
(* Properties.                                                             *)

\* IdentityAgreed: every task that got past the identity check holds the row
\* that is stored, and runs with an environment that agrees with it, also when
\* two processes with different keys, networks or birthdays made their first
\* start at once; and unless the wallet file was unreadable at some point the
\* key is that of the wallet account.
IdentityAgreed ==
    \A t \in Tasks : Past(t) =>
        /\ task[t].ident = identity
        /\ Agrees(Config(t), NoAccount, identity)
        /\ (failures = 0 /\ wallet.account # NoAccount) =>
                wallet.account.uivk = identity.uivk

\* SettingsAgreed: the stored confirmation settings are those of every task
\* that runs on them, and a stored REQUIRED_CONFIRMATIONS is one that the
\* stored settings allow (0 is the report depth, and the array stays inside
\* the reorganisation window), whichever process stored which of them.
SettingsAgreed ==
    /\ \A t \in Tasks : Past(t) => metadata # NoMetadata /\ SameSettings(Config(t))
    /\ metadata # NoMetadata =>
            ~RequiredRefused(metadata.required, metadata.report, metadata.finality)

\* SchemaComplete: a task that has opened the app database finds every column
\* and pool, and an Ironwood receiver for every old Orchard one, although
\* another process may be upgrading, or have died upgrading, the same file.
SchemaComplete ==
    \A t \in Tasks : (Past(t) \/ task[t].pc = "delivering") =>
        /\ schema.columns = Columns
        /\ schema.ironwood
        /\ schema.orchard => schema.copied
        /\ metadata # NoMetadata => metadata.version = 2

\* SiblingsKeepOut: while a task migrates the wallet file no other task of its
\* process is connected to it, so the migration cannot be locked out from
\* within (the lock is taken before connecting).
SiblingsKeepOut ==
    \A t, u \in Tasks :
        (t # u /\ t.proc = u.proc /\ task[t].pc = "migrate") => ~task[u].conn

\* ScansRealOnly: with one process at a time, the chain is never scanned into
\* a database that holds simulated payments, whatever the process was
\* restarted with and wherever it died.
ScansRealOnly ==
    \A t \in Tasks : (task[t].pc = "scanning" /\ ~overlapped) => ~simulated

\* The files accept configuration c: they can be opened, their rows agree with
\* it or can be made from it, and the key can be used.
FilesAccept(c) ==
    LET row == IF identity # NoIdentity THEN identity ELSE Proposed(c, wallet.account)
    IN  /\ schema.receipt_kind
        /\ identity = NoIdentity => Proposable(c, wallet.account)
        /\ Agrees(c, wallet.account, row)
        /\ Decodes(row.uivk, row.network)
        /\ metadata # NoMetadata => SameSettings(c)
        /\ ~(c.lightwalletd /\ marker)

Reached(t) ==
    CASE t.role = "http"   -> task[t].pc \in {"serving", "simulating"}
      [] t.role = "sync"   -> task[t].pc = "status"
      [] t.role = "worker" -> task[t].pc = "delivering" \/ ~Config(t).webhook

\* EventuallyUp: a process whose environment the files accept comes up,
\* serves and keeps scanning, although it competes with another process for
\* locks, columns and singleton rows, and although first starts may fail.
EventuallyUp ==
    \A t \in Tasks :
        <>[](/\ t \in crew
             /\ phase[t.proc] \in {"running", "exited"}
             /\ FilesAccept(Config(t)))
            => []<>Reached(t)

-----------------------------------------------------------------------------
(* What holds between any two steps, the inductive invariant behind the    *)
(* safety properties: what task t may rely on at each of its steps.        *)

EnvsAccepted == \A p \in Procs : ConfigAccepted(env[p])

\* A process that does not run has no task, no guard and no cached path.
StoppedIsOff == \A t \in Tasks : phase[t.proc] # "running" => task[t] = Off

\* Only the holder of the initialisation lock is connected to the wallet file.
LockHeld(t) ==
    /\ task[t].pc = "migrate" => lock[t.proc] = t
    /\ task[t].conn => task[t].pc = "migrate"

Settled == {"required", "checks", "serving", "simulating", "status", "scanning"}
Known == {"metadata", "metadata_insert"} \cup Settled
Opened == {"identity", "identity_insert", "delivering"} \cup Known
Upgraded == {"columns", "alter"} \cup Opened

SchemaSeen(t) ==
    /\ task[t].pc = "alter" => task[t].column \in Columns
    /\ task[t].pc \in Opened => schema.columns = Columns
    /\ task[t].pc \in Upgraded =>
        /\ schema.ironwood
        /\ schema.orchard => schema.copied
        /\ metadata # NoMetadata => metadata.version = 2

\* A row that task t may run on: its environment's and the wallet account's.
Belongs(t, row) ==
    /\ row \in Identities
    /\ Agrees(Config(t), NoAccount, row)
    /\ (failures = 0 /\ wallet.account # NoAccount) => wallet.account.uivk = row.uivk

IdentityHeld(t) ==
    /\ task[t].pc = "identity_insert" => Belongs(t, task[t].ident)
    /\ task[t].pc \in Known => identity = task[t].ident /\ Belongs(t, task[t].ident)

SettingsHeld(t) ==
    task[t].pc \in Settled => metadata # NoMetadata /\ SameSettings(Config(t))

RequiredAllowed ==
    metadata # NoMetadata =>
        ~RequiredRefused(metadata.required, metadata.report, metadata.finality)

RoleHeld(t) ==
    /\ task[t].pc \in {"status", "scanning"} => t.role # "http"
    /\ task[t].pc = "scanning" => Config(t).lightwalletd
    /\ task[t].pc = "simulating" => marker

\* Task t runs behind the check for simulated data.
Checked(t) ==
    IF t.role = "http" THEN task[t].pc \in {"serving", "simulating"}
    ELSE task[t].pc # "off"

MarkerKept ==
    /\ simulated => marker
    /\ ~overlapped =>
        /\ \A p, q \in Procs : phase[p] = "running" /\ phase[q] = "running" => p = q
        /\ \A t \in Tasks : Checked(t) /\ Config(t).lightwalletd => ~marker

TaskHeld(t) == SchemaSeen(t) /\ IdentityHeld(t) /\ SettingsHeld(t) /\ RoleHeld(t)

StartupInv ==
    /\ TypeOK
    /\ EnvsAccepted
    /\ StoppedIsOff
    /\ \A t \in Tasks : LockHeld(t) /\ TaskHeld(t)
    /\ RequiredAllowed
    /\ MarkerKept
=============================================================================
