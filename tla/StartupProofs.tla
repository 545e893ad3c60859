---------------------------- MODULE StartupProofs ----------------------------
(***************************************************************************)
(* Proofs about Startup: its safety properties hold for any number of      *)
(* processes and tasks, any environments, accounts and app files, and any  *)
(* number of failures.                                                     *)
(*                                                                         *)
(* The inductive invariant is StartupInv.  Most of it says what one task   *)
(* may rely on, so a step is looked at in two ways: it keeps what the      *)
(* other tasks rely on, because the files only grow (KeepsFiles) and the   *)
(* other tasks stay or fall back to the start (KeepsTask, Idle); and it    *)
(* establishes what its own task relies on next.                           *)
(***************************************************************************)
EXTENDS Startup, TLAPS

-----------------------------------------------------------------------------
(* Configurations.                                                         *)

\* What an accepted environment guarantees of its configuration.
Sound(c) ==
    /\ c.network \in {"testnet", "mainnet"}
    /\ c.birthday \in Nat \cup {Unset}
    /\ c.report \in Nat /\ c.finality \in Nat
    /\ c.required \in Nat \cup {Unset}
    /\ ~RequiredRefused(c.required, c.report, c.finality)
    /\ c.dev => ~c.lightwalletd

\* A number that is not refused is a natural number, or its default.
LEMMA NumberAccepted ==
    ASSUME NEW s \in Settings, NEW v \in Nat \cup {Unset, Garbage, Blank},
           ~NumberRefused(s, v)
    PROVE  /\ NumberOf(s, v) \in Nat \cup {Defaults[s]}
           /\ s # "required_confirmations" => v \in Nat \cup {Unset}
BY DEF NumberRefused, NumberOf, Unset, Garbage, Blank

\* An environment that Config::from_env accepts makes a sound configuration.
LEMMA AcceptedIsSound ==
    ASSUME NEW e \in AllEnvs, ConfigAccepted(e)
    PROVE  Sound(FromEnv(e))
<1> DEFINE n == e.numbers
<1> DEFINE names == {"birthday_height", "webhook_report_confirmations",
                     "finality_confirmations", "required_confirmations"}
<1>1. n \in [Settings -> Nat \cup {Unset, Garbage, Blank}]
  BY StartupAssumption
<1>2. names \subseteq Settings
  BY DEF Settings, Defaults
<1>3. /\ Defaults["webhook_report_confirmations"] \in Nat
      /\ Defaults["finality_confirmations"] \in Nat
      /\ Defaults["required_confirmations"] = Unset
  BY DEF Defaults
<1>4. \A s \in names : ~NumberRefused(s, n[s]) /\ n[s] \in Nat \cup {Unset, Garbage, Blank}
  BY <1>1, <1>2 DEF ConfigAccepted, NumbersRefused
<1> HIDE DEF n
<1>5. n["birthday_height"] \in Nat \cup {Unset}
  BY <1>2, <1>4, NumberAccepted
<1>6. NumberOf("webhook_report_confirmations", n["webhook_report_confirmations"]) \in Nat
  BY <1>2, <1>3, <1>4, NumberAccepted
<1>7. NumberOf("finality_confirmations", n["finality_confirmations"]) \in Nat
  BY <1>2, <1>3, <1>4, NumberAccepted
<1>8. NumberOf("required_confirmations", n["required_confirmations"]) \in Nat \cup {Unset}
  BY <1>2, <1>3, <1>4, NumberAccepted
<1> DEFINE c == FromEnv(e)
<1>9. /\ c.network = NetworkOf(e)
      /\ c.birthday = n["birthday_height"]
      /\ c.report = NumberOf("webhook_report_confirmations", n["webhook_report_confirmations"])
      /\ c.finality = NumberOf("finality_confirmations", n["finality_confirmations"])
      /\ c.required = NumberOf("required_confirmations", n["required_confirmations"])
  BY DEF FromEnv, n
<1>10. /\ ~RequiredRefused(c.required, c.report, c.finality)
       /\ c.dev => ~DevRefused(c.network, c.lightwalletd)
       /\ ~PlacesRefused(e)
  BY DEF ConfigAccepted
<1> HIDE DEF c
<1> QED
  BY <1>5, <1>6, <1>7, <1>8, <1>9, <1>10 DEF Sound, PlacesRefused, DevRefused, c

\* What a first start proposes to store is a row of its environment, and of
\* the wallet account it has read.
LEMMA ProposedRow ==
    ASSUME NEW e \in AllEnvs, ConfigAccepted(e),
           NEW account \in Accounts \cup {NoAccount},
           Proposable(FromEnv(e), account)
    PROVE  LET row == Proposed(FromEnv(e), account)
           IN  /\ row \in Identities
               /\ Agrees(FromEnv(e), NoAccount, row)
               /\ account # NoAccount => account.uivk = row.uivk
<1> DEFINE c == FromEnv(e)
<1> DEFINE uivk == IF c.startup_uivk # NoUivk THEN c.startup_uivk ELSE account.uivk
<1> DEFINE birthday == IF c.birthday # Unset THEN c.birthday ELSE account.birthday
<1>1. Sound(c)
  BY AcceptedIsSound
<1>2. c.wallet_db_path = e.wallet_db_path /\ c.startup_uivk = e.startup_uivk
  BY DEF FromEnv
<1> HIDE DEF c
<1>3. birthday \in Nat
  BY <1>1, StartupAssumption DEF Proposable, Sound, c
<1>4. uivk \in {FromEnv(f).startup_uivk : f \in AllEnvs} \cup
               {a.uivk : a \in Accounts \ {NoAccount}}
  BY DEF Proposable, c
<1>5. Proposed(c, account) = IdentityOf(c, uivk, birthday)
  BY DEF Proposed
<1>6. IdentityOf(c, uivk, birthday) \in Identities
  <2> HIDE DEF uivk, birthday
  <2> QED BY <1>1, <1>2, <1>3, <1>4 DEF Identities, IdentityOf, Sound
<1>7. Agrees(c, NoAccount, IdentityOf(c, uivk, birthday))
  BY DEF Agrees, IdentityOf
<1>8. account # NoAccount => account.uivk = uivk
  BY DEF Proposable, c
<1> QED BY <1>5, <1>6, <1>7, <1>8 DEF IdentityOf, c

-----------------------------------------------------------------------------
(* Types.                                                                  *)

\* The part of TypeOK about the processes and their tasks.
MemoryOK ==
    /\ phase \in [Procs -> {"stopped", "running", "exited"}]
    /\ lock \in [Procs -> Tasks \cup {NoTask}]
    /\ migrated \in [Procs -> BOOLEAN]
    /\ task \in [Tasks -> TaskStates]

\* A task that goes to another step is a task.
LEMMA GotoType ==
    ASSUME MemoryOK, NEW t \in Tasks, NEW pc \in PcValues, Goto(t, pc), UNCHANGED Memory
    PROVE  MemoryOK'
BY DEF MemoryOK, Memory, Goto, TaskStates

\* A task that looks for a column, or holds an identity, is a task.
LEMMA OffType == Off \in TaskStates
BY DEF Off, TaskStates, PcValues

\* A process that ends leaves no task, guard or cache.
LEMMA ExitType ==
    ASSUME MemoryOK, NEW p \in Procs, Exit(p)
    PROVE  MemoryOK'
BY OffType, StartupAssumption DEF MemoryOK, Exit

\* A task that fails ends its process or begins again.
LEMMA FailsType ==
    ASSUME MemoryOK, NEW t \in Tasks, Fails(t)
    PROVE  MemoryOK'
<1>1. t.proc \in Procs
  BY StartupAssumption
<1>2. CASE Exit(t.proc)
  BY <1>1, <1>2, ExitType
<1>3. CASE /\ task' = [task EXCEPT ![t] =
                 [Off EXCEPT !.pc = IF t.role = "sync" THEN "wallet" ELSE "batch"]]
           /\ lock' = [lock EXCEPT ![t.proc] = IF @ = t THEN NoTask ELSE @]
           /\ UNCHANGED << phase, migrated >>
  <2>1. [Off EXCEPT !.pc = IF t.role = "sync" THEN "wallet" ELSE "batch"] \in TaskStates
    BY DEF Off, TaskStates, PcValues
  <2> QED BY <1>1, <1>3, <2>1 DEF MemoryOK
<1> QED BY <1>2, <1>3 DEF Fails

\* The row that a task proposes, inserts or has compared is an identity.
LEMMA TaskRow ==
    ASSUME StartupInv, NEW t \in Tasks
    PROVE  /\ t.proc \in Procs
           /\ env[t.proc] \in AllEnvs /\ ConfigAccepted(env[t.proc])
           /\ Sound(Config(t))
           /\ phase[t.proc] # "running" => task[t] = Off
<1>1. t.proc \in Procs
  BY StartupAssumption
<1>2. env[t.proc] \in AllEnvs /\ ConfigAccepted(env[t.proc])
  BY <1>1 DEF StartupInv, TypeOK, EnvsAccepted
<1> QED BY <1>1, <1>2, AcceptedIsSound DEF Config, StartupInv, StoppedIsOff

\* The steps of a task on the wallet file, the app file and its rows.
LEMMA MemoryStep ==
    ASSUME StartupInv, NEW t \in Tasks, Step(t) \/ DatabaseBusy(t) \/ MarkSimulatedData(t)
    PROVE  MemoryOK'
<1>1. MemoryOK /\ t.proc \in Procs
  BY TaskRow DEF StartupInv, TypeOK, MemoryOK
<1>2. Fails(t) => MemoryOK'
  BY <1>1, FailsType
<1>3. ASSUME NEW pc \in PcValues, Goto(t, pc), UNCHANGED Memory
      PROVE  MemoryOK'
  BY <1>1, <1>3, GotoType
<1>4. CASE LookInCache(t)
  <2>1. CASE migrated[t.proc]
    BY <1>3, <1>4, <2>1 DEF LookInCache, PcValues
  <2>2. CASE ~migrated[t.proc]
    BY <1>3, <1>4, <2>2 DEF LookInCache, PcValues
  <2> QED BY <2>1, <2>2
<1> DEFINE Connected(pc, conn) == [task EXCEPT ![t].pc = pc, ![t].conn = conn]
<1>a. Connected("batch", FALSE) \in [Tasks -> TaskStates]
  <2>1. \A r \in TaskStates : [r EXCEPT !.pc = "batch", !.conn = FALSE] \in TaskStates
    BY DEF TaskStates, PcValues
  <2> QED BY <1>1, <2>1 DEF MemoryOK
<1>b. Connected("migrate", TRUE) \in [Tasks -> TaskStates]
  <2>1. \A r \in TaskStates : [r EXCEPT !.pc = "migrate", !.conn = TRUE] \in TaskStates
    BY DEF TaskStates, PcValues
  <2> QED BY <1>1, <2>1 DEF MemoryOK
<1>5. CASE TakeInitLock(t)
  BY <1>1, <1>5, <1>a, <1>b DEF TakeInitLock, MemoryOK
<1>6. CASE MigrateWalletDb(t)
  BY <1>1, <1>6, <1>a DEF MigrateWalletDb, MemoryOK
<1>7. CASE ExecuteBatch(t)
  BY <1>2, <1>3, <1>7 DEF ExecuteBatch, PcValues
<1>8. CASE EnsureIronwoodPoolSupport(t)
  BY <1>3, <1>8 DEF EnsureIronwoodPoolSupport, PcValues
<1>9. CASE LookForColumn(t)
  <2>1. CASE Goto(t, IF t.role = "worker" THEN "delivering" ELSE "identity")
    BY <1>3, <1>9, <2>1 DEF LookForColumn, PcValues
  <2>2. CASE \E i \in MissingColumns :
                task' = [task EXCEPT ![t].pc = "alter", ![t].column = ArrayColumns[i]]
    <3>1. PICK c \in Columns :
                task' = [task EXCEPT ![t].pc = "alter", ![t].column = c]
      BY <2>2 DEF MissingColumns, Columns
    <3>2. \A r \in TaskStates : [r EXCEPT !.pc = "alter", !.column = c] \in TaskStates
      BY DEF TaskStates, PcValues
    <3>3. task' \in [Tasks -> TaskStates]
      BY <1>1, <3>1, <3>2 DEF MemoryOK
    <3>4. UNCHANGED Memory
      BY <1>9 DEF LookForColumn
    <3> QED BY <1>1, <3>3, <3>4 DEF MemoryOK, Memory
  <2> QED BY <1>9, <2>1, <2>2 DEF LookForColumn
<1>10. CASE AddColumn(t)
  BY <1>2, <1>3, <1>10 DEF AddColumn, PcValues
<1>11. CASE ReadIdentity(t)
  <2>1. PICK account \in {wallet.account, NoAccount} :
           \/ /\ identity # NoIdentity
              /\ task' = [task EXCEPT ![t].pc = "metadata", ![t].ident = identity]
              /\ UNCHANGED Memory
           \/ /\ identity = NoIdentity
              /\ Proposable(Config(t), account)
              /\ task' = [task EXCEPT ![t].pc = "identity_insert",
                                      ![t].ident = Proposed(Config(t), account)]
              /\ UNCHANGED Memory
           \/ Fails(t)
    BY <1>11 DEF ReadIdentity
  <2>2. account \in Accounts \cup {NoAccount} /\ identity \in Identities \cup {NoIdentity}
    BY DEF StartupInv, TypeOK
  <2>3. Proposable(Config(t), account) => Proposed(Config(t), account) \in Identities
    BY <2>2, TaskRow, ProposedRow DEF Config
  <2> QED BY <1>1, <1>2, <2>1, <2>2, <2>3 DEF MemoryOK, Memory, TaskStates, PcValues
<1>12. CASE InsertIdentity(t)
  BY <1>2, <1>3, <1>12 DEF InsertIdentity, PcValues
<1>13. CASE ReadMetadata(t)
  BY <1>2, <1>3, <1>13 DEF ReadMetadata, PcValues
<1>14. CASE InsertMetadata(t)
  BY <1>2, <1>3, <1>14 DEF InsertMetadata, PcValues
<1>15. CASE ApplyRequiredConfirmations(t)
  BY <1>3, <1>15 DEF ApplyRequiredConfirmations, PcValues
<1>16. CASE CheckAndServe(t)
  BY <1>2, <1>3, <1>16 DEF CheckAndServe, PcValues
<1>17. CASE Spawn(t)
  BY <1>3, <1>17 DEF Spawn, PcValues
<1>18. CASE SyncOnce(t)
  BY <1>3, <1>18 DEF SyncOnce, PcValues
<1>19. CASE Scan(t)
  BY <1>3, <1>19 DEF Scan, PcValues
<1>20. CASE ApplySimulatedReceipt(t)
  BY <1>3, <1>20 DEF ApplySimulatedReceipt, PcValues
<1>21. CASE DatabaseBusy(t)
  BY <1>2, <1>21 DEF DatabaseBusy
<1>22. CASE MarkSimulatedData(t)
  BY <1>3, <1>22 DEF MarkSimulatedData, PcValues
<1> QED
  BY <1>4, <1>5, <1>6, <1>7, <1>8, <1>9, <1>10, <1>11, <1>12, <1>13, <1>14, <1>15,
     <1>16, <1>17, <1>18, <1>19, <1>20, <1>21, <1>22 DEF Step

-----------------------------------------------------------------------------
(* The files only grow.                                                    *)

\* The part of TypeOK about the files, and the bound on failures.
FilesOK ==
    /\ wallet \in [ready : BOOLEAN, account : Accounts]
    /\ schema \in [tables : BOOLEAN, receipt_kind : BOOLEAN,
                   columns : SUBSET Columns, ironwood : BOOLEAN,
                   orchard : BOOLEAN, copied : BOOLEAN]
    /\ identity \in Identities \cup {NoIdentity}
    /\ metadata \in MetadataRows \cup {NoMetadata}
    /\ marker \in BOOLEAN /\ simulated \in BOOLEAN
    /\ failures \in 0 .. MaxFailures

\* What no step takes back: the account, a column, a pool and its receivers,
\* a row once it is there, the marker; a failure is never forgotten.
KeepsWallet == wallet'.account = wallet.account /\ (failures' = 0 => failures = 0)

KeepsSchema ==
    /\ schema.columns = Columns => schema'.columns = Columns
    /\ schema.ironwood => schema'.ironwood
    /\ (schema.orchard => schema.copied) => (schema'.orchard => schema'.copied)

KeepsIdentity == identity # NoIdentity => identity' = identity

KeepsMetadata ==
    /\ metadata # NoMetadata =>
        /\ metadata' # NoMetadata
        /\ metadata'.report = metadata.report
        /\ metadata'.finality = metadata.finality
    /\ (metadata # NoMetadata => metadata.version = 2) =>
            (metadata' # NoMetadata => metadata'.version = 2)

KeepsFiles ==
    KeepsWallet /\ KeepsSchema /\ KeepsIdentity /\ KeepsMetadata /\ (marker => marker')

\* Files that no step touches are kept.
LEMMA FilesUnchanged ==
    ASSUME FilesOK, UNCHANGED files, failures' \in 0 .. MaxFailures, failures' >= failures
    PROVE  FilesOK' /\ KeepsFiles
<1>1. failures' = 0 => failures = 0
  BY DEF FilesOK
<1>2. wallet' = wallet /\ schema' = schema /\ identity' = identity /\ metadata' = metadata
      /\ marker' = marker /\ simulated' = simulated
  BY DEF files
<1> QED
  BY <1>1, <1>2 DEF FilesOK, KeepsFiles, KeepsWallet, KeepsSchema, KeepsIdentity,
                    KeepsMetadata

\* Each statement that writes to a file writes well-formed data and keeps
\* what was there.
LEMMA FilesStep ==
    ASSUME StartupInv, NEW t \in Tasks, Step(t) \/ DatabaseBusy(t) \/ MarkSimulatedData(t)
    PROVE  FilesOK' /\ KeepsFiles
<1>1. FilesOK
  BY DEF StartupInv, TypeOK, FilesOK
<1>2. ASSUME UNCHANGED << files, failures >>
      PROVE  FilesOK' /\ KeepsFiles
  <2>1. failures' \in 0 .. MaxFailures /\ failures' >= failures
    BY <1>1, <1>2, StartupAssumption DEF FilesOK
  <2> QED BY <1>1, <1>2, <2>1, FilesUnchanged
<1>3. ASSUME UNCHANGED files, failures < MaxFailures, failures' = failures + 1
      PROVE  FilesOK' /\ KeepsFiles
  <2>1. failures' \in 0 .. MaxFailures /\ failures' >= failures
    BY <1>1, <1>3, StartupAssumption DEF FilesOK
  <2> QED BY <1>1, <1>3, <2>1, FilesUnchanged
<1>4. Sound(Config(t))
  BY TaskRow
<1>5. CASE LookInCache(t) \/ TakeInitLock(t) \/ LookForColumn(t) \/ ReadMetadata(t) \/ Spawn(t)
  BY <1>2, <1>5 DEF LookInCache, TakeInitLock, LookForColumn, ReadMetadata, Spawn
<1>6. CASE ReadIdentity(t)
  BY <1>2, <1>3, <1>6 DEF ReadIdentity, ReadAccount
<1>7. CASE CheckAndServe(t)
  BY <1>2, <1>3, <1>7 DEF CheckAndServe, ReadAccount
<1>8. CASE DatabaseBusy(t)
  BY <1>3, <1>8 DEF DatabaseBusy
<1>9. CASE MigrateWalletDb(t)
  BY <1>1, <1>9 DEF MigrateWalletDb, FilesOK,
                    KeepsFiles, KeepsWallet, KeepsSchema, KeepsIdentity, KeepsMetadata, Rest
<1>10. CASE ExecuteBatch(t)
  BY <1>1, <1>10 DEF ExecuteBatch, FilesOK,
                    KeepsFiles, KeepsWallet, KeepsSchema, KeepsIdentity, KeepsMetadata, Rest
<1>11. CASE EnsureIronwoodPoolSupport(t)
  <2>1. metadata' \in MetadataRows \cup {NoMetadata} /\ KeepsMetadata
    BY <1>1, <1>11, RowAssumption DEF EnsureIronwoodPoolSupport, FilesOK, KeepsMetadata,
                                      MetadataRows
  <2>2. /\ schema' = [schema EXCEPT !.ironwood = TRUE, !.copied = schema.orchard]
        /\ UNCHANGED << wallet, identity, marker, simulated, failures >>
    BY <1>11 DEF EnsureIronwoodPoolSupport
  <2>3. /\ schema' \in [tables : BOOLEAN, receipt_kind : BOOLEAN,
                        columns : SUBSET Columns, ironwood : BOOLEAN,
                        orchard : BOOLEAN, copied : BOOLEAN]
        /\ schema'.columns = schema.columns
        /\ schema'.ironwood
        /\ schema'.orchard = schema.orchard /\ schema'.copied = schema.orchard
    BY <1>1, <2>2 DEF FilesOK
  <2> QED
    BY <1>1, <2>1, <2>2, <2>3 DEF FilesOK, KeepsFiles, KeepsWallet, KeepsSchema,
                                  KeepsIdentity
<1>12. CASE AddColumn(t)
  <2>1. task[t].pc = "alter" => task[t].column \in Columns
    BY DEF StartupInv, TaskHeld, SchemaSeen
  <2> QED
    BY <1>1, <1>12, <2>1 DEF AddColumn, FilesOK,
                    KeepsFiles, KeepsWallet, KeepsSchema, KeepsIdentity, KeepsMetadata, Rest
<1>13. CASE InsertIdentity(t)
  <2>1. task[t].pc = "identity_insert" => task[t].ident \in Identities
    BY DEF StartupInv, TaskHeld, IdentityHeld, Belongs
  <2> QED
    BY <1>1, <1>13, <2>1 DEF InsertIdentity, FilesOK,
                    KeepsFiles, KeepsWallet, KeepsSchema, KeepsIdentity, KeepsMetadata, Rest
<1>14. CASE InsertMetadata(t)
  <2>1. NewMetadata(Config(t), 2) \in MetadataRows /\ NewMetadata(Config(t), 2).version = 2
    BY <1>4 DEF NewMetadata, MetadataRows, Sound, Unset
  <2> QED
    BY <1>1, <1>14, <2>1, RowAssumption DEF InsertMetadata, FilesOK,
                    KeepsFiles, KeepsWallet, KeepsSchema, KeepsIdentity, KeepsMetadata, Rest
<1>15. CASE ApplyRequiredConfirmations(t)
  <2>1. metadata # NoMetadata
    BY <1>15 DEF ApplyRequiredConfirmations, StartupInv, TaskHeld, SettingsHeld, Settled
  <2> QED
    BY <1>1, <1>4, <1>15, <2>1, RowAssumption DEF ApplyRequiredConfirmations, FilesOK,
                    KeepsFiles, KeepsWallet, KeepsSchema, KeepsIdentity, KeepsMetadata,
                    Rest, MetadataRows, Sound
<1>16. CASE SyncOnce(t)
  <2>1. metadata # NoMetadata
    BY <1>16 DEF SyncOnce, StartupInv, TaskHeld, SettingsHeld, Settled
  <2> QED
    BY <1>1, <1>16, <2>1, RowAssumption DEF SyncOnce, FilesOK,
                    KeepsFiles, KeepsWallet, KeepsSchema, KeepsIdentity, KeepsMetadata,
                    Rest, MetadataRows
<1>17. CASE Scan(t)
  <2>1. metadata # NoMetadata
    BY <1>17 DEF Scan, StartupInv, TaskHeld, SettingsHeld, Settled
  <2> QED
    BY <1>1, <1>17, <2>1, RowAssumption DEF Scan, FilesOK,
                    KeepsFiles, KeepsWallet, KeepsSchema, KeepsIdentity, KeepsMetadata,
                    Rest, MetadataRows
<1>18. CASE ApplySimulatedReceipt(t) \/ MarkSimulatedData(t)
  BY <1>1, <1>18 DEF ApplySimulatedReceipt, MarkSimulatedData, FilesOK, KeepsFiles,
                    KeepsWallet, KeepsSchema, KeepsIdentity, KeepsMetadata, Rest
<1> QED
  BY <1>5, <1>6, <1>7, <1>8, <1>9, <1>10, <1>11, <1>12, <1>13, <1>14, <1>15, <1>16,
     <1>17, <1>18 DEF Step

-----------------------------------------------------------------------------
(* What tasks rely on.                                                     *)

\* A task at the beginning relies on nothing.
Idle(u) == task[u].pc \in {"off", "wallet", "batch"} /\ task[u].conn = FALSE

\* A task that is off, or opens a database, holds nothing it could lose.
LEMMA IdleHeld ==
    ASSUME NEW u \in Tasks, Idle(u)'
    PROVE  TaskHeld(u)'
BY DEF Idle, TaskHeld, SchemaSeen, IdentityHeld, SettingsHeld, RoleHeld, Settled, Known,
       Opened, Upgraded

\* What a task relies on survives every step that leaves the task alone and
\* keeps the files.
LEMMA HeldKept ==
    ASSUME StartupInv, NEW u \in Tasks, KeepsFiles,
           env'[u.proc] = env[u.proc], task'[u] = task[u]
    PROVE  TaskHeld(u)'
<1>1. TaskHeld(u)
  BY DEF StartupInv
<1>2. Config(u)' = Config(u)
  BY DEF Config
<1>3. SchemaSeen(u)'
  BY <1>1 DEF TaskHeld, SchemaSeen, KeepsFiles, KeepsSchema, KeepsMetadata, Settled, Known,
              Opened, Upgraded
<1>4. IdentityHeld(u)'
  <2>1. ASSUME Belongs(u, task[u].ident)
        PROVE  Belongs(u, task[u].ident)'
    BY <1>2, <2>1 DEF Belongs, Agrees, KeepsFiles, KeepsWallet
  <2>2. task[u].pc \in Known => identity # NoIdentity
    BY <1>1, RowAssumption DEF TaskHeld, IdentityHeld, Belongs
  <2>3. CASE task[u].pc = "identity_insert"
    BY <1>1, <2>1, <2>3 DEF TaskHeld, IdentityHeld, Known, Settled
  <2>4. CASE task[u].pc \in Known
    BY <1>1, <2>1, <2>2, <2>4 DEF TaskHeld, IdentityHeld, KeepsFiles, KeepsIdentity, Known,
                                  Settled
  <2> QED BY <2>3, <2>4 DEF IdentityHeld
<1>5. SettingsHeld(u)'
  BY <1>1, <1>2 DEF TaskHeld, SettingsHeld, SameSettings, KeepsFiles, KeepsMetadata
<1>6. RoleHeld(u)'
  BY <1>1, <1>2 DEF TaskHeld, RoleHeld, KeepsFiles
<1> QED BY <1>3, <1>4, <1>5, <1>6 DEF TaskHeld

\* A failing task leaves the other tasks alone or takes them down with its
\* process, and is idle afterwards.
LEMMA FailsIdle ==
    ASSUME StartupInv, NEW t \in Tasks, Fails(t)
    PROVE  /\ \A u \in Tasks \ {t} : task'[u] = task[u] \/ task'[u] = Off
           /\ Idle(t)'
<1>1. task \in [Tasks -> TaskStates]
  BY DEF StartupInv, TypeOK
<1>2. CASE Exit(t.proc)
  BY <1>2 DEF Exit, Idle, Off
<1>3. CASE task' = [task EXCEPT ![t] =
              [Off EXCEPT !.pc = IF t.role = "sync" THEN "wallet" ELSE "batch"]]
  BY <1>1, <1>3 DEF Idle, Off
<1> QED BY <1>2, <1>3 DEF Fails

\* Whatever a task does, every other task stays where it is or is off.
LEMMA OthersStay ==
    ASSUME StartupInv, NEW t \in Tasks, Step(t) \/ DatabaseBusy(t) \/ MarkSimulatedData(t),
           NEW u \in Tasks, u # t
    PROVE  task'[u] = task[u] \/ task'[u] = Off
<1>1. task \in [Tasks -> TaskStates]
  BY DEF StartupInv, TypeOK
<1>2. Fails(t) => task'[u] = task[u] \/ task'[u] = Off
  BY FailsIdle
<1>3. ASSUME NEW pc, Goto(t, pc)
      PROVE  task'[u] = task[u]
  BY <1>1, <1>3 DEF Goto
<1>4. CASE LookInCache(t) \/ TakeInitLock(t) \/ MigrateWalletDb(t) \/ SyncOnce(t) \/ Scan(t)
           \/ Spawn(t) \/ ApplyRequiredConfirmations(t) \/ EnsureIronwoodPoolSupport(t)
           \/ ApplySimulatedReceipt(t) \/ MarkSimulatedData(t) \/ LookForColumn(t)
  BY <1>1, <1>4 DEF LookInCache, TakeInitLock, MigrateWalletDb, SyncOnce, Scan, Spawn,
        ApplyRequiredConfirmations, EnsureIronwoodPoolSupport, ApplySimulatedReceipt,
        MarkSimulatedData, LookForColumn, Goto
<1>5. CASE ExecuteBatch(t) \/ AddColumn(t) \/ InsertIdentity(t) \/ ReadMetadata(t)
           \/ InsertMetadata(t) \/ CheckAndServe(t) \/ DatabaseBusy(t)
  BY <1>2, <1>3, <1>5 DEF ExecuteBatch, AddColumn, InsertIdentity, ReadMetadata,
        InsertMetadata, CheckAndServe, DatabaseBusy
<1>6. CASE ReadIdentity(t)
  BY <1>1, <1>2, <1>6 DEF ReadIdentity
<1> QED BY <1>4, <1>5, <1>6 DEF Step

\* No step of a task changes an environment or the history of overlaps, and a
\* process whose phase it changes is gone.
LEMMA ProcessesStay ==
    ASSUME StartupInv, NEW t \in Tasks, Step(t) \/ DatabaseBusy(t) \/ MarkSimulatedData(t)
    PROVE  /\ UNCHANGED Rest
           /\ \/ UNCHANGED phase
              \/ Exit(t.proc)
<1>1. CASE LookInCache(t) \/ TakeInitLock(t) \/ MigrateWalletDb(t) \/ SyncOnce(t) \/ Scan(t)
           \/ Spawn(t) \/ ApplyRequiredConfirmations(t) \/ EnsureIronwoodPoolSupport(t)
           \/ ApplySimulatedReceipt(t) \/ MarkSimulatedData(t) \/ LookForColumn(t)
  BY <1>1 DEF LookInCache, TakeInitLock, MigrateWalletDb, SyncOnce, Scan, Spawn,
        ApplyRequiredConfirmations, EnsureIronwoodPoolSupport, ApplySimulatedReceipt,
        MarkSimulatedData, LookForColumn, Memory
<1>2. CASE ExecuteBatch(t) \/ AddColumn(t) \/ InsertIdentity(t) \/ ReadMetadata(t)
           \/ InsertMetadata(t) \/ CheckAndServe(t) \/ DatabaseBusy(t) \/ ReadIdentity(t)
  BY <1>2 DEF ExecuteBatch, AddColumn, InsertIdentity, ReadMetadata, InsertMetadata,
        CheckAndServe, DatabaseBusy, ReadIdentity, Fails, Memory
<1> QED BY <1>1, <1>2 DEF Step

\* A task before the upgrade of the app file relies on nothing.
LEMMA FreeHeld ==
    ASSUME NEW t \in Tasks, task'[t].pc \notin Upgraded
    PROVE  TaskHeld(t)'
BY DEF TaskHeld, SchemaSeen, IdentityHeld, SettingsHeld, RoleHeld, Settled, Known, Opened,
       Upgraded

\* A task that goes on with a complete schema still finds it complete.
LEMMA SchemaKept ==
    ASSUME StartupInv, NEW t \in Tasks, KeepsFiles,
           task[t].pc \in Opened, task'[t].pc \in Opened
    PROVE  SchemaSeen(t)'
<1>1. SchemaSeen(t)
  BY DEF StartupInv, TaskHeld
<1> QED BY <1>1 DEF SchemaSeen, KeepsFiles, KeepsSchema, KeepsMetadata, Settled, Known, Opened,
                    Upgraded

\* A row that belongs to a task belongs to it after every step of a task.
LEMMA BelongsKept ==
    ASSUME NEW t \in Tasks, KeepsFiles, UNCHANGED env, NEW row, Belongs(t, row)
    PROVE  Agrees(Config(t), NoAccount, row)' /\ Belongs(t, row)'
<1>1. Config(t)' = Config(t)
  BY DEF Config
<1> QED BY <1>1 DEF Belongs, Agrees, KeepsFiles, KeepsWallet

\* A task that goes on with its identity still holds the stored one.
LEMMA IdentityKept ==
    ASSUME StartupInv, NEW t \in Tasks, KeepsFiles, UNCHANGED env,
           task[t].pc \in Known, task'[t].pc \in Known, task'[t].ident = task[t].ident
    PROVE  IdentityHeld(t)'
<1>1. identity = task[t].ident /\ Belongs(t, task[t].ident)
  BY DEF StartupInv, TaskHeld, IdentityHeld
<1>2. identity # NoIdentity
  BY <1>1, RowAssumption DEF Belongs
<1>3. identity' = identity
  BY <1>2 DEF KeepsFiles, KeepsIdentity
<1>4. PICK row : row = identity
  OBVIOUS
<1>5. Belongs(t, row)'
  BY <1>1, <1>4, BelongsKept
<1> QED BY <1>1, <1>3, <1>4, <1>5 DEF IdentityHeld, Known, Settled, Belongs, Agrees

\* A task that goes on with the stored settings still agrees with them.
LEMMA SettingsKept ==
    ASSUME StartupInv, NEW t \in Tasks, KeepsFiles, UNCHANGED env, task[t].pc \in Settled
    PROVE  SettingsHeld(t)'
<1>1. metadata # NoMetadata /\ SameSettings(Config(t))
  BY DEF StartupInv, TaskHeld, SettingsHeld
<1> QED BY <1>1 DEF SettingsHeld, SameSettings, Config, KeepsFiles, KeepsMetadata

\* The steps up to the upgrade of the app file.
LEMMA OwnSchemaStep ==
    ASSUME StartupInv, FilesOK', KeepsFiles, UNCHANGED env, NEW t \in Tasks,
           \/ LookInCache(t) \/ TakeInitLock(t) \/ MigrateWalletDb(t) \/ ExecuteBatch(t)
           \/ EnsureIronwoodPoolSupport(t) \/ LookForColumn(t) \/ AddColumn(t)
    PROVE  TaskHeld(t)'
<1>1. task \in [Tasks -> TaskStates] /\ FilesOK
  BY DEF StartupInv, TypeOK, FilesOK
<1>2. Fails(t) => TaskHeld(t)'
  BY FailsIdle, IdleHeld
<1>3. ASSUME NEW pc, Goto(t, pc)
      PROVE  task'[t].pc = pc
  BY <1>1, <1>3 DEF Goto, TaskStates
<1>4. CASE LookInCache(t)
  <2>1. task'[t].pc \in {"batch", "lock"}
    BY <1>1, <1>4 DEF LookInCache, Goto, TaskStates
  <2> QED BY <2>1, FreeHeld DEF Upgraded, Opened, Known, Settled
<1>5. CASE TakeInitLock(t) \/ MigrateWalletDb(t)
  <2>1. task'[t].pc \in {"batch", "migrate"}
    BY <1>1, <1>5 DEF TakeInitLock, MigrateWalletDb, TaskStates
  <2> QED BY <2>1, FreeHeld DEF Upgraded, Opened, Known, Settled
<1>6. CASE ExecuteBatch(t)
  <2>1. ASSUME Goto(t, "pools")
        PROVE  TaskHeld(t)'
    BY <1>3, <2>1, FreeHeld DEF Upgraded, Opened, Known, Settled
  <2> QED BY <1>2, <1>6, <2>1 DEF ExecuteBatch
<1>7. CASE EnsureIronwoodPoolSupport(t)
  <2>1. task'[t].pc = "columns"
    BY <1>3, <1>7 DEF EnsureIronwoodPoolSupport
  <2>2. schema'.ironwood /\ (schema'.orchard => schema'.copied)
    BY <1>1, <1>7 DEF EnsureIronwoodPoolSupport, FilesOK
  <2>3. metadata' # NoMetadata => metadata'.version = 2
    BY <1>1, <1>7 DEF EnsureIronwoodPoolSupport, FilesOK, MetadataRows
  <2> QED
    BY <2>1, <2>2, <2>3 DEF TaskHeld, SchemaSeen, IdentityHeld, SettingsHeld, RoleHeld,
                            Upgraded, Opened, Known, Settled
<1>8. CASE LookForColumn(t)
  <2>1. task[t].pc = "columns" /\ UNCHANGED files
    BY <1>8 DEF LookForColumn
  <2>2. /\ schema'.ironwood
        /\ schema'.orchard => schema'.copied
        /\ metadata' # NoMetadata => metadata'.version = 2
    BY <2>1 DEF StartupInv, TaskHeld, SchemaSeen, Upgraded, files
  <2>3. CASE /\ MissingColumns = {}
             /\ Goto(t, IF t.role = "worker" THEN "delivering" ELSE "identity")
    <3>1. Columns \subseteq schema.columns
      BY <2>3 DEF MissingColumns, Columns
    <3>2. schema'.columns = Columns
      BY <1>1, <2>1, <3>1 DEF FilesOK, files
    <3>3. task'[t].pc \in {"delivering", "identity"}
      BY <1>1, <2>3 DEF Goto, TaskStates
    <3> QED
      BY <2>2, <3>2, <3>3 DEF TaskHeld, SchemaSeen, IdentityHeld, SettingsHeld, RoleHeld,
                              Upgraded, Opened, Known, Settled
  <2>4. CASE \E i \in MissingColumns :
                task' = [task EXCEPT ![t].pc = "alter", ![t].column = ArrayColumns[i]]
    <3>1. PICK c \in Columns : task' = [task EXCEPT ![t].pc = "alter", ![t].column = c]
      BY <2>4 DEF MissingColumns, Columns
    <3>2. task'[t].pc = "alter" /\ task'[t].column \in Columns
      BY <1>1, <3>1 DEF TaskStates
    <3> QED
      BY <2>2, <3>2 DEF TaskHeld, SchemaSeen, IdentityHeld, SettingsHeld, RoleHeld,
                        Upgraded, Opened, Known, Settled
  <2> QED BY <1>8, <2>3, <2>4 DEF LookForColumn
<1>9. CASE AddColumn(t)
  <2>1. ASSUME Goto(t, "columns")
        PROVE  TaskHeld(t)'
    <3>1. task[t].pc = "alter"
      BY <1>9 DEF AddColumn
    <3>2. /\ schema'.ironwood
          /\ schema'.orchard => schema'.copied
          /\ metadata' # NoMetadata => metadata'.version = 2
      BY <3>1 DEF StartupInv, TaskHeld, SchemaSeen, Upgraded, KeepsFiles, KeepsSchema,
                  KeepsMetadata
    <3>3. task'[t].pc = "columns"
      BY <1>3, <2>1
    <3> QED
      BY <3>2, <3>3 DEF TaskHeld, SchemaSeen, IdentityHeld, SettingsHeld, RoleHeld,
                        Upgraded, Opened, Known, Settled
  <2> QED BY <1>2, <1>9, <2>1 DEF AddColumn
<1> QED BY <1>4, <1>5, <1>6, <1>7, <1>8, <1>9

\* ensure_wallet_identity: what is read, proposed or inserted belongs to the
\* task, and is the stored row from then on.
LEMMA OwnIdentityStep ==
    ASSUME StartupInv, FilesOK', KeepsFiles, UNCHANGED env, NEW t \in Tasks,
           ReadIdentity(t) \/ InsertIdentity(t)
    PROVE  TaskHeld(t)'
<1>1. task \in [Tasks -> TaskStates] /\ FilesOK
  BY DEF StartupInv, TypeOK, FilesOK
<1>2. Fails(t) => TaskHeld(t)'
  BY FailsIdle, IdleHeld
<1>3. Config(t)' = Config(t) /\ Config(t) = FromEnv(env[t.proc])
  BY DEF Config
<1>4. wallet'.account = wallet.account
  BY DEF KeepsFiles, KeepsWallet
<1>5. CASE ReadIdentity(t)
  <2>1. PICK account \in {wallet.account, NoAccount} :
           /\ ReadAccount(account)
           /\ \/ /\ identity # NoIdentity
                 /\ Agrees(Config(t), account, identity)
                 /\ task' = [task EXCEPT ![t].pc = "metadata", ![t].ident = identity]
              \/ /\ Proposable(Config(t), account)
                 /\ task' = [task EXCEPT ![t].pc = "identity_insert",
                                         ![t].ident = Proposed(Config(t), account)]
              \/ Fails(t)
    BY <1>5 DEF ReadIdentity
  <2>2. task[t].pc = "identity" /\ identity' = identity
    BY <1>5 DEF ReadIdentity, files
  <2>3. failures' = 0 => account = wallet.account
    <3>1. failures \in Nat
      BY <1>1, StartupAssumption DEF FilesOK
    <3> QED BY <2>1, <3>1 DEF ReadAccount
  <2>4. CASE /\ identity # NoIdentity
             /\ Agrees(Config(t), account, identity)
             /\ task' = [task EXCEPT ![t].pc = "metadata", ![t].ident = identity]
    <3>1. task'[t].pc = "metadata" /\ task'[t].ident = identity
      BY <1>1, <2>4 DEF TaskStates
    <3>2. identity \in Identities /\ Agrees(Config(t), NoAccount, identity)
      BY <1>1, <2>4 DEF FilesOK, Agrees
    <3>3. (failures' = 0 /\ wallet.account # NoAccount) => wallet.account.uivk = identity.uivk
      BY <2>3, <2>4 DEF Agrees
    <3>4. SchemaSeen(t)'
      BY <2>2, <3>1, SchemaKept DEF Opened, Known
    <3>5. IdentityHeld(t)'
      BY <1>3, <1>4, <2>2, <3>1, <3>2, <3>3 DEF IdentityHeld, Belongs, Agrees, Known, Settled
    <3> QED BY <3>1, <3>4, <3>5 DEF TaskHeld, SettingsHeld, RoleHeld, Settled
  <2>5. CASE /\ Proposable(Config(t), account)
             /\ task' = [task EXCEPT ![t].pc = "identity_insert",
                                     ![t].ident = Proposed(Config(t), account)]
    <3>1. PICK row : row = Proposed(Config(t), account)
      OBVIOUS
    <3>2. task'[t].pc = "identity_insert" /\ task'[t].ident = row
      BY <1>1, <2>5, <3>1 DEF TaskStates
    <3>3. account \in Accounts \cup {NoAccount}
      BY <1>1 DEF FilesOK
    <3>4. /\ row \in Identities
          /\ Agrees(Config(t), NoAccount, row)
          /\ account # NoAccount => account.uivk = row.uivk
      BY <1>3, <2>5, <3>1, <3>3, TaskRow, ProposedRow
    <3>5. (failures' = 0 /\ wallet.account # NoAccount) => wallet.account.uivk = row.uivk
      BY <2>3, <3>4
    <3>6. SchemaSeen(t)'
      BY <2>2, <3>2, SchemaKept DEF Opened, Known
    <3>7. IdentityHeld(t)'
      BY <1>3, <1>4, <3>2, <3>4, <3>5 DEF IdentityHeld, Belongs, Agrees, Known, Settled
    <3> QED BY <3>2, <3>6, <3>7 DEF TaskHeld, SettingsHeld, RoleHeld, Settled
  <2> QED BY <1>2, <2>1, <2>4, <2>5
<1>6. CASE InsertIdentity(t)
  <2>1. ASSUME identity' = task[t].ident, Goto(t, "metadata")
        PROVE  TaskHeld(t)'
    <3>1. task[t].pc = "identity_insert"
      BY <1>6 DEF InsertIdentity
    <3>2. task'[t].pc = "metadata" /\ task'[t].ident = task[t].ident
      BY <1>1, <2>1 DEF Goto, TaskStates
    <3>3. PICK row : row = task[t].ident
      OBVIOUS
    <3>4. Belongs(t, row)
      BY <3>1, <3>3 DEF StartupInv, TaskHeld, IdentityHeld
    <3>5. Belongs(t, row)'
      BY <3>4, BelongsKept
    <3>6. SchemaSeen(t)'
      BY <3>1, <3>2, SchemaKept DEF Opened, Known
    <3>7. IdentityHeld(t)'
      BY <2>1, <3>2, <3>3, <3>5 DEF IdentityHeld, Known, Settled, Belongs, Agrees
    <3> QED BY <3>2, <3>6, <3>7 DEF TaskHeld, SettingsHeld, RoleHeld, Settled
  <2> QED BY <1>2, <1>6, <2>1 DEF InsertIdentity
<1> QED BY <1>5, <1>6

\* The steps of a task that has its identity: the settings row, the last
\* checks, the sync loop's status, simulated payments.
LEMMA OwnServiceStep ==
    ASSUME StartupInv, FilesOK', KeepsFiles, UNCHANGED env, NEW t \in Tasks,
           \/ ReadMetadata(t) \/ InsertMetadata(t) \/ ApplyRequiredConfirmations(t)
           \/ CheckAndServe(t) \/ Spawn(t) \/ SyncOnce(t) \/ Scan(t)
           \/ ApplySimulatedReceipt(t) \/ MarkSimulatedData(t)
    PROVE  TaskHeld(t)'
<1>1. task \in [Tasks -> TaskStates] /\ FilesOK /\ RoleHeld(t)
  BY DEF StartupInv, TypeOK, FilesOK, TaskHeld
<1>2. Fails(t) => TaskHeld(t)'
  BY FailsIdle, IdleHeld
<1>3. Config(t)' = Config(t)
  BY DEF Config
<1>4. ASSUME NEW pc, Goto(t, pc)
      PROVE  task'[t].pc = pc /\ task'[t].ident = task[t].ident
  BY <1>1, <1>4 DEF Goto, TaskStates
<1>5. ASSUME NEW pc \in Known, Goto(t, pc), task[t].pc \in Known
      PROVE  SchemaSeen(t)' /\ IdentityHeld(t)'
  BY <1>4, <1>5, SchemaKept, IdentityKept DEF Opened
<1>6. CASE ReadMetadata(t)
  <2>1. task[t].pc = "metadata" /\ metadata' = metadata
    BY <1>6 DEF ReadMetadata, files
  <2>2. CASE Goto(t, "metadata_insert")
    BY <1>4, <1>5, <2>1, <2>2 DEF TaskHeld, SettingsHeld, RoleHeld, Known, Settled
  <2>3. CASE metadata # NoMetadata /\ SameSettings(Config(t)) /\ Goto(t, "required")
    BY <1>3, <1>4, <1>5, <2>1, <2>3 DEF TaskHeld, SettingsHeld, RoleHeld, SameSettings, Known,
                                        Settled
  <2> QED BY <1>2, <1>6, <2>2, <2>3 DEF ReadMetadata
<1>7. CASE InsertMetadata(t)
  <2>1. task[t].pc = "metadata_insert"
    BY <1>7 DEF InsertMetadata
  <2>2. CASE /\ metadata = NoMetadata
             /\ metadata' = NewMetadata(Config(t), 2)
             /\ Goto(t, "required")
    <3>1. metadata' # NoMetadata
      <4>1. NewMetadata(Config(t), 2) \in MetadataRows
        BY TaskRow DEF NewMetadata, MetadataRows, Sound, Unset
      <4> QED BY <2>2, <4>1, RowAssumption
    <3>2. metadata'.report = Config(t).report /\ metadata'.finality = Config(t).finality
      BY <2>2 DEF NewMetadata
    <3>3. SettingsHeld(t)'
      BY <1>3, <3>1, <3>2 DEF SettingsHeld, SameSettings
    <3> QED BY <1>4, <1>5, <2>1, <2>2, <3>3 DEF TaskHeld, RoleHeld, Known, Settled
  <2>3. CASE /\ metadata # NoMetadata /\ UNCHANGED metadata
             /\ SameSettings(Config(t)) /\ Goto(t, "required")
    BY <1>3, <1>4, <1>5, <2>1, <2>3 DEF TaskHeld, SettingsHeld, RoleHeld, SameSettings, Known,
                                        Settled
  <2> QED BY <1>2, <1>7, <2>2, <2>3 DEF InsertMetadata
<1>8. CASE ApplyRequiredConfirmations(t)
  <2>1. task[t].pc = "required"
    BY <1>8 DEF ApplyRequiredConfirmations
  <2>2. SettingsHeld(t)'
    BY <2>1, SettingsKept DEF Settled
  <2>3. CASE t.role = "http"
    <3>1. Goto(t, "checks")
      BY <1>8, <2>3 DEF ApplyRequiredConfirmations
    <3> QED BY <1>4, <1>5, <2>1, <2>2, <3>1 DEF TaskHeld, RoleHeld, Known, Settled
  <2>4. CASE t.role # "http"
    <3>1. Goto(t, "status")
      BY <1>8, <2>4 DEF ApplyRequiredConfirmations
    <3> QED BY <1>4, <1>5, <2>1, <2>2, <2>4, <3>1 DEF TaskHeld, RoleHeld, Known, Settled
  <2> QED BY <2>3, <2>4
<1>9. CASE CheckAndServe(t)
  <2>1. task[t].pc = "checks"
    BY <1>9 DEF CheckAndServe
  <2>2. SettingsHeld(t)'
    BY <2>1, SettingsKept DEF Settled
  <2>3. ASSUME Goto(t, "serving")
        PROVE  TaskHeld(t)'
    BY <1>4, <1>5, <2>1, <2>2, <2>3 DEF TaskHeld, RoleHeld, Known, Settled
  <2> QED BY <1>2, <1>9, <2>3 DEF CheckAndServe
<1>10. CASE Spawn(t)
  <2>1. task'[t].pc \in {"wallet", "batch"}
    BY <1>4, <1>10 DEF Spawn
  <2> QED BY <2>1, FreeHeld DEF Upgraded, Opened, Known, Settled
<1>11. CASE SyncOnce(t)
  <2>1. task[t].pc = "status"
    BY <1>11 DEF SyncOnce
  <2>2. CASE Goto(t, "wallet")
    BY <1>4, <2>2, FreeHeld DEF Upgraded, Opened, Known, Settled
  <2>3. CASE Config(t).lightwalletd /\ Goto(t, "scanning")
    <3>1. SettingsHeld(t)'
      BY <2>1, SettingsKept DEF Settled
    <3>2. RoleHeld(t)'
      BY <1>1, <1>3, <1>4, <2>1, <2>3 DEF RoleHeld
    <3> QED BY <1>4, <1>5, <2>1, <2>3, <3>1, <3>2 DEF TaskHeld, Known, Settled
  <2> QED BY <1>11, <2>2, <2>3 DEF SyncOnce
<1>12. CASE Scan(t)
  BY <1>4, <1>12, FreeHeld DEF Scan, Upgraded, Opened, Known, Settled
<1>13. CASE ApplySimulatedReceipt(t)
  <2>1. task[t].pc = "simulating" /\ Goto(t, "serving")
    BY <1>13 DEF ApplySimulatedReceipt
  <2>2. SettingsHeld(t)'
    BY <2>1, SettingsKept DEF Settled
  <2> QED BY <1>4, <1>5, <2>1, <2>2 DEF TaskHeld, RoleHeld, Known, Settled
<1>14. CASE MarkSimulatedData(t)
  <2>1. task[t].pc = "serving" /\ Goto(t, "simulating") /\ marker'
    BY <1>14 DEF MarkSimulatedData
  <2>2. SettingsHeld(t)'
    BY <2>1, SettingsKept DEF Settled
  <2> QED BY <1>4, <1>5, <2>1, <2>2 DEF TaskHeld, RoleHeld, Known, Settled
<1> QED BY <1>6, <1>7, <1>8, <1>9, <1>10, <1>11, <1>12, <1>13, <1>14

\* After a step of a task every task has what it relies on.
LEMMA TaskStepHeld ==
    ASSUME StartupInv, NEW t \in Tasks, Step(t) \/ DatabaseBusy(t) \/ MarkSimulatedData(t),
           NEW u \in Tasks
    PROVE  TaskHeld(u)'
<1>1. FilesOK' /\ KeepsFiles
  BY FilesStep
<1>2. UNCHANGED env
  BY ProcessesStay DEF Rest
<1>3. CASE u # t
  <2>1. task'[u] = task[u] \/ Idle(u)'
    BY <1>3, OthersStay DEF Idle, Off
  <2> QED BY <1>1, <1>2, <2>1, HeldKept, IdleHeld
<1>4. CASE u = t
  <2>1. CASE DatabaseBusy(t)
    <3>1. Idle(t)'
      BY <2>1, FailsIdle DEF DatabaseBusy
    <3> QED BY <1>4, <3>1, IdleHeld
  <2> QED
    BY <1>1, <1>2, <1>4, <2>1, OwnSchemaStep, OwnIdentityStep, OwnServiceStep DEF Step
<1> QED BY <1>3, <1>4

-----------------------------------------------------------------------------
(* Processes, the initialisation lock, the settings row and the marker.    *)

\* Only a task of a running process takes a step.
LEMMA ActiveRuns ==
    ASSUME StartupInv, NEW t \in Tasks, Step(t) \/ DatabaseBusy(t) \/ MarkSimulatedData(t)
    PROVE  phase[t.proc] = "running"
<1>1. ASSUME NEW u \in Tasks, u.proc = t.proc, task[u].pc # "off"
      PROVE  phase[t.proc] = "running"
  BY <1>1 DEF StartupInv, StoppedIsOff, Off
<1>2. CASE Spawn(t)
  BY <1>1, <1>2 DEF Spawn
<1>3. CASE ~Spawn(t)
  BY <1>1, <1>3 DEF Step, DatabaseBusy, MarkSimulatedData, LookInCache, TakeInitLock,
        MigrateWalletDb, ExecuteBatch, EnsureIronwoodPoolSupport, LookForColumn, AddColumn,
        ReadIdentity, InsertIdentity, ReadMetadata, InsertMetadata,
        ApplyRequiredConfirmations, CheckAndServe, SyncOnce, Scan, ApplySimulatedReceipt
<1> QED BY <1>2, <1>3

\* A process that stops has no task left.
LEMMA StoppedStep ==
    ASSUME StartupInv, NEW t \in Tasks, Step(t) \/ DatabaseBusy(t) \/ MarkSimulatedData(t)
    PROVE  StoppedIsOff'
<1> SUFFICES ASSUME NEW u \in Tasks, phase'[u.proc] # "running"
             PROVE  task'[u] = Off
  BY DEF StoppedIsOff
<1>1. CASE u.proc = t.proc
  <2>1. Exit(t.proc)
    BY <1>1, ActiveRuns, ProcessesStay
  <2> QED BY <1>1, <2>1 DEF Exit
<1>2. CASE u.proc # t.proc
  <2>1. phase[u.proc] = phase'[u.proc]
    <3>1. u.proc \in Procs /\ phase \in [Procs -> {"stopped", "running", "exited"}]
      BY StartupAssumption DEF StartupInv, TypeOK
    <3> QED BY <1>2, <3>1, ProcessesStay DEF Exit
  <2>2. task[u] = Off
    BY <2>1 DEF StartupInv, StoppedIsOff
  <2> QED BY <1>2, <2>2, OthersStay
<1> QED BY <1>1, <1>2

\* The lock is taken before connecting, released after, and dropped on the way
\* when a task fails, by its holder only.
LEMMA LockStep ==
    ASSUME StartupInv, NEW t \in Tasks, Step(t) \/ DatabaseBusy(t) \/ MarkSimulatedData(t),
           NEW u \in Tasks
    PROVE  LockHeld(u)'
<1>1. /\ task \in [Tasks -> TaskStates]
      /\ lock \in [Procs -> Tasks \cup {NoTask}]
      /\ NoTask \notin Tasks
      /\ t.proc \in Procs /\ u.proc \in Procs
      /\ LockHeld(t) /\ LockHeld(u)
  BY StartupAssumption DEF StartupInv, TypeOK
<1>2. Off.pc = "off" /\ Off.conn = FALSE
  BY DEF Off
<1>3. ASSUME UNCHANGED lock, task[t].pc # "migrate",
             task'[t].pc # "migrate", task'[t].conn = task[t].conn
      PROVE  LockHeld(u)'
  BY <1>1, <1>2, <1>3, OthersStay DEF LockHeld
<1>4. ASSUME NEW pc, pc # "migrate", Goto(t, pc), UNCHANGED lock, task[t].pc # "migrate"
      PROVE  LockHeld(u)'
  BY <1>1, <1>3, <1>4 DEF Goto, TaskStates
<1>5. ASSUME Fails(t)
      PROVE  LockHeld(u)'
  <2>1. CASE u = t
    <3>1. task'[t].pc # "migrate" /\ ~task'[t].conn
      BY <1>5, FailsIdle DEF Idle
    <3> QED BY <2>1, <3>1 DEF LockHeld
  <2>2. CASE u # t /\ task'[u] = Off
    BY <1>2, <2>2 DEF LockHeld
  <2>3. CASE u # t /\ task'[u] # Off
    <3>1. task'[u] = task[u]
      BY <1>5, <2>3, FailsIdle
    <3>2. CASE lock' = [lock EXCEPT ![t.proc] = IF @ = t THEN NoTask ELSE @]
      BY <1>1, <2>3, <3>1, <3>2 DEF LockHeld
    <3>3. CASE Exit(t.proc)
      BY <1>1, <2>3, <3>1, <3>3 DEF LockHeld, Exit
    <3> QED BY <1>5, <3>2, <3>3 DEF Fails
  <2> QED BY <2>1, <2>2, <2>3
<1>6. CASE LookInCache(t)
  <2>1. /\ task[t].pc = "wallet" /\ UNCHANGED lock
        /\ task'[t].pc # "migrate" /\ task'[t].conn = task[t].conn
    BY <1>1, <1>6 DEF LookInCache, Goto, Memory, TaskStates
  <2> QED BY <1>3, <2>1
<1>7. CASE TakeInitLock(t)
  <2>1. CASE UNCHANGED lock /\ task' = [task EXCEPT ![t].pc = "batch", ![t].conn = FALSE]
    BY <1>1, <2>1 DEF LockHeld, TaskStates
  <2>2. CASE /\ task' = [task EXCEPT ![t].pc = "migrate", ![t].conn = TRUE]
             /\ lock' = [lock EXCEPT ![t.proc] = t]
    <3>1. lock[t.proc] = NoTask
      BY <1>7 DEF TakeInitLock
    <3>2. CASE u = t
      BY <1>1, <2>2, <3>2 DEF LockHeld, TaskStates
    <3>3. CASE u # t
      BY <1>1, <2>2, <3>1, <3>3 DEF LockHeld
    <3> QED BY <3>2, <3>3
  <2> QED BY <1>7, <2>1, <2>2 DEF TakeInitLock
<1>8. CASE MigrateWalletDb(t)
  <2>1. /\ task' = [task EXCEPT ![t].pc = "batch", ![t].conn = FALSE]
        /\ lock' = [lock EXCEPT ![t.proc] = NoTask]
        /\ task[t].pc = "migrate"
    BY <1>8 DEF MigrateWalletDb
  <2>2. CASE u = t
    BY <1>1, <2>1, <2>2 DEF LockHeld, TaskStates
  <2>3. CASE u # t
    BY <1>1, <2>1, <2>3 DEF LockHeld
  <2> QED BY <2>2, <2>3
<1>9. CASE LookForColumn(t)
  <2>1. task[t].pc = "columns" /\ UNCHANGED lock
    BY <1>9 DEF LookForColumn, Memory
  <2>2. CASE Goto(t, IF t.role = "worker" THEN "delivering" ELSE "identity")
    BY <1>4, <2>1, <2>2
  <2>3. CASE \E i \in MissingColumns :
                task' = [task EXCEPT ![t].pc = "alter", ![t].column = ArrayColumns[i]]
    <3>1. PICK c : task' = [task EXCEPT ![t].pc = "alter", ![t].column = c]
      BY <2>3
    <3>2. task'[t].pc = "alter" /\ task'[t].conn = task[t].conn
      BY <1>1, <3>1 DEF TaskStates
    <3> QED BY <1>3, <2>1, <3>2
  <2> QED BY <1>9, <2>2, <2>3 DEF LookForColumn
<1>10. CASE ReadIdentity(t)
  <2>1. task[t].pc = "identity"
    BY <1>10 DEF ReadIdentity
  <2>2. ASSUME NEW pc, pc # "migrate", NEW row, UNCHANGED lock,
               task' = [task EXCEPT ![t].pc = pc, ![t].ident = row]
        PROVE  LockHeld(u)'
    <3>1. task'[t].pc = pc /\ task'[t].conn = task[t].conn
      BY <1>1, <2>2 DEF TaskStates
    <3> QED BY <1>3, <2>1, <2>2, <3>1
  <2>3. \/ \E pc \in {"metadata", "identity_insert"}, row \in {identity} \cup Identities :
              UNCHANGED lock /\ task' = [task EXCEPT ![t].pc = pc, ![t].ident = row]
        \/ Fails(t)
    <3>1. \A account \in {wallet.account, NoAccount} : Proposable(Config(t), account) =>
              Proposed(Config(t), account) \in Identities
      BY TaskRow, ProposedRow DEF Config, StartupInv, TypeOK
    <3> QED BY <1>10, <3>1 DEF ReadIdentity, Memory
  <2> QED BY <1>5, <2>2, <2>3
<1>11. CASE \/ ExecuteBatch(t) \/ EnsureIronwoodPoolSupport(t) \/ AddColumn(t)
            \/ InsertIdentity(t) \/ ReadMetadata(t) \/ InsertMetadata(t)
            \/ CheckAndServe(t) \/ Spawn(t) \/ SyncOnce(t) \/ Scan(t)
            \/ ApplySimulatedReceipt(t) \/ DatabaseBusy(t) \/ MarkSimulatedData(t)
  BY <1>4, <1>5, <1>11 DEF ExecuteBatch, EnsureIronwoodPoolSupport, AddColumn,
        InsertIdentity, ReadMetadata, InsertMetadata, CheckAndServe, Spawn, SyncOnce, Scan,
        ApplySimulatedReceipt, DatabaseBusy, MarkSimulatedData, Memory
<1>12. CASE ApplyRequiredConfirmations(t)
  BY <1>4, <1>12 DEF ApplyRequiredConfirmations, Memory
<1> QED BY <1>6, <1>7, <1>8, <1>9, <1>10, <1>11, <1>12 DEF Step

\* The settings row is inserted without REQUIRED_CONFIRMATIONS, and gets it
\* from a task whose environment has the row's depths and was accepted.
LEMMA RequiredStep ==
    ASSUME StartupInv, NEW t \in Tasks, Step(t) \/ DatabaseBusy(t) \/ MarkSimulatedData(t)
    PROVE  RequiredAllowed'
<1>1. RequiredAllowed /\ metadata \in MetadataRows \cup {NoMetadata}
  BY DEF StartupInv, TypeOK
<1>2. ASSUME UNCHANGED metadata
      PROVE  RequiredAllowed'
  BY <1>1, <1>2 DEF RequiredAllowed
<1>3. ASSUME metadata # NoMetadata,
             metadata'.required = metadata.required,
             metadata'.report = metadata.report,
             metadata'.finality = metadata.finality
      PROVE  RequiredAllowed'
  BY <1>1, <1>3 DEF RequiredAllowed
<1>4. CASE EnsureIronwoodPoolSupport(t)
  <2>1. CASE metadata = NoMetadata
    BY <1>2, <1>4, <2>1 DEF EnsureIronwoodPoolSupport
  <2>2. CASE metadata # NoMetadata
    BY <1>1, <1>3, <1>4, <2>2 DEF EnsureIronwoodPoolSupport, MetadataRows
  <2> QED BY <2>1, <2>2
<1>5. CASE InsertMetadata(t)
  <2>1. CASE metadata' = NewMetadata(Config(t), 2)
    BY <2>1 DEF RequiredAllowed, RequiredRefused, NewMetadata
  <2> QED BY <1>2, <1>5, <2>1 DEF InsertMetadata
<1>6. CASE ApplyRequiredConfirmations(t)
  <2>1. /\ task[t].pc = "required"
        /\ metadata' = [metadata EXCEPT !.required = Config(t).required]
    BY <1>6 DEF ApplyRequiredConfirmations
  <2>2. metadata # NoMetadata /\ SameSettings(Config(t))
    BY <2>1 DEF StartupInv, TaskHeld, SettingsHeld, Settled
  <2>3. /\ metadata'.required = Config(t).required
        /\ metadata'.report = Config(t).report
        /\ metadata'.finality = Config(t).finality
    BY <1>1, <2>1, <2>2 DEF MetadataRows, SameSettings
  <2> QED BY <2>3, TaskRow DEF RequiredAllowed, Sound
<1>7. CASE SyncOnce(t) \/ Scan(t)
  <2>1. task[t].pc \in {"status", "scanning"}
    BY <1>7 DEF SyncOnce, Scan
  <2>2. metadata # NoMetadata
    BY <2>1 DEF StartupInv, TaskHeld, SettingsHeld, Settled
  <2>3. CASE UNCHANGED metadata
    BY <1>2, <2>3
  <2>4. CASE \E h \in {0, 1} : metadata' = [metadata EXCEPT !.scanned = h]
    BY <1>1, <1>3, <2>2, <2>4 DEF MetadataRows
  <2> QED BY <1>7, <2>3, <2>4 DEF SyncOnce, Scan
<1>8. CASE \/ LookInCache(t) \/ TakeInitLock(t) \/ MigrateWalletDb(t) \/ ExecuteBatch(t)
           \/ LookForColumn(t) \/ AddColumn(t) \/ ReadIdentity(t) \/ InsertIdentity(t)
           \/ ReadMetadata(t) \/ CheckAndServe(t) \/ Spawn(t) \/ ApplySimulatedReceipt(t)
           \/ DatabaseBusy(t) \/ MarkSimulatedData(t)
  BY <1>2, <1>8 DEF LookInCache, TakeInitLock, MigrateWalletDb, ExecuteBatch, LookForColumn,
        AddColumn, ReadIdentity, InsertIdentity, ReadMetadata, CheckAndServe, Spawn,
        ApplySimulatedReceipt, DatabaseBusy, MarkSimulatedData, files
<1> QED BY <1>4, <1>5, <1>6, <1>7, <1>8 DEF Step

\* A task gets behind the check only by passing it, or with a sibling that has.
LEMMA CheckedStep ==
    ASSUME StartupInv, ~overlapped,
           NEW t \in Tasks, Step(t) \/ DatabaseBusy(t) \/ MarkSimulatedData(t),
           NEW u \in Tasks, Checked(u)', Config(u).lightwalletd
    PROVE  ~marker
<1>1. ASSUME NEW v \in Tasks, Checked(v), Config(v).lightwalletd
      PROVE  ~marker
  BY <1>1 DEF StartupInv, MarkerKept
<1>2. task \in [Tasks -> TaskStates] /\ t.role \in {"http", "sync", "worker"}
  BY StartupAssumption DEF StartupInv, TypeOK
<1>3. CASE u # t
  BY <1>1, <1>3, OthersStay DEF Checked, Off
<1>4. CASE u = t /\ Spawn(t)
  <2>1. PICK v \in Tasks : /\ v.proc = t.proc /\ v.role = "http"
                           /\ task[v].pc \in {"serving", "simulating"}
    BY <1>4 DEF Spawn
  <2> QED BY <1>1, <1>4, <2>1 DEF Checked, Config
<1>5. CASE u = t /\ ~Spawn(t) /\ t.role # "http"
  <2>1. task[t].pc # "off"
    BY <1>5 DEF Step, DatabaseBusy, MarkSimulatedData, LookInCache, TakeInitLock,
        MigrateWalletDb, ExecuteBatch, EnsureIronwoodPoolSupport, LookForColumn, AddColumn,
        ReadIdentity, InsertIdentity, ReadMetadata, InsertMetadata,
        ApplyRequiredConfirmations, CheckAndServe, SyncOnce, Scan, ApplySimulatedReceipt
  <2> QED BY <1>1, <1>5, <2>1 DEF Checked
<1>6. CASE u = t /\ t.role = "http" /\ task[t].pc \in {"serving", "simulating"}
  BY <1>1, <1>6 DEF Checked
<1>7. CASE u = t /\ t.role = "http" /\ task[t].pc \notin {"serving", "simulating"}
  <2>1. task'[t].pc \in {"serving", "simulating"}
    BY <1>7 DEF Checked
  <2>2. ~Fails(t)
    BY <2>1, FailsIdle DEF Idle
  <2>3. ASSUME NEW pc, Goto(t, pc)
        PROVE  pc \in {"serving", "simulating"}
    BY <1>2, <2>1, <2>3 DEF Goto, TaskStates
  <2>4. ~(LookInCache(t) \/ ExecuteBatch(t) \/ EnsureIronwoodPoolSupport(t) \/ AddColumn(t))
    BY <2>2, <2>3 DEF LookInCache, ExecuteBatch, EnsureIronwoodPoolSupport, AddColumn
  <2>5. ~(InsertIdentity(t) \/ ReadMetadata(t) \/ InsertMetadata(t)
          \/ ApplyRequiredConfirmations(t) \/ SyncOnce(t) \/ Scan(t))
    BY <2>2, <2>3 DEF InsertIdentity, ReadMetadata, InsertMetadata,
          ApplyRequiredConfirmations, SyncOnce, Scan
  <2>6. ~(TakeInitLock(t) \/ MigrateWalletDb(t))
    BY <1>2, <2>1 DEF TakeInitLock, MigrateWalletDb, TaskStates
  <2>7. ~ReadIdentity(t)
    BY <1>2, <2>1, <2>2 DEF ReadIdentity, TaskStates
  <2>8. ~LookForColumn(t)
    <3>1. ~Goto(t, IF t.role = "worker" THEN "delivering" ELSE "identity")
      BY <2>3
    <3>2. ASSUME NEW c, task' = [task EXCEPT ![t].pc = "alter", ![t].column = c]
          PROVE  FALSE
      BY <1>2, <2>1, <3>2 DEF TaskStates
    <3> QED BY <3>1, <3>2 DEF LookForColumn
  <2>9. ~(Spawn(t) \/ DatabaseBusy(t) \/ ApplySimulatedReceipt(t) \/ MarkSimulatedData(t))
    BY <1>7, <2>2 DEF Spawn, DatabaseBusy, ApplySimulatedReceipt, MarkSimulatedData
  <2>10. CheckAndServe(t)
    BY <2>4, <2>5, <2>6, <2>7, <2>8, <2>9 DEF Step
  <2> QED BY <1>7, <2>2, <2>10 DEF CheckAndServe, PassesChecks
<1> QED BY <1>3, <1>4, <1>5, <1>6, <1>7

\* Simulated data is marked before it is written, and by a process whose
\* environment has no lightwalletd.
LEMMA MarkerStep ==
    ASSUME StartupInv, NEW t \in Tasks, Step(t) \/ DatabaseBusy(t) \/ MarkSimulatedData(t)
    PROVE  MarkerKept'
<1>1. MarkerKept /\ UNCHANGED << env, overlapped >>
  BY ProcessesStay DEF StartupInv, Rest
<1>2. simulated' => marker'
  <2>1. CASE ApplySimulatedReceipt(t)
    <3>1. marker
      BY <2>1 DEF ApplySimulatedReceipt, StartupInv, TaskHeld, RoleHeld
    <3> QED BY <2>1, <3>1 DEF ApplySimulatedReceipt
  <2>2. CASE ~ApplySimulatedReceipt(t)
    <3>1. UNCHANGED simulated
      BY <2>2 DEF Step, DatabaseBusy, MarkSimulatedData, LookInCache, TakeInitLock,
          MigrateWalletDb, ExecuteBatch, EnsureIronwoodPoolSupport, LookForColumn, AddColumn,
          ReadIdentity, InsertIdentity, ReadMetadata, InsertMetadata, Spawn,
          ApplyRequiredConfirmations, CheckAndServe, SyncOnce, Scan, files
    <3>2. marker => marker'
      BY FilesStep DEF KeepsFiles
    <3> QED BY <1>1, <3>1, <3>2 DEF MarkerKept
  <2> QED BY <2>1, <2>2
<1>3. ASSUME ~overlapped, NEW p \in Procs, NEW q \in Procs,
             phase'[p] = "running", phase'[q] = "running"
      PROVE  p = q
  <2>1. phase \in [Procs -> {"stopped", "running", "exited"}] /\ t.proc \in Procs
    BY StartupAssumption DEF StartupInv, TypeOK
  <2>2. phase[p] = "running" /\ phase[q] = "running"
    BY <1>3, <2>1, ProcessesStay DEF Exit
  <2> QED BY <1>1, <1>3, <2>2 DEF MarkerKept
<1>4. ASSUME ~overlapped, NEW u \in Tasks, Checked(u)', Config(u)'.lightwalletd
      PROVE  ~marker'
  <2>1. Config(u)' = Config(u)
    BY <1>1 DEF Config
  <2>2. ~marker
    BY <1>4, <2>1, CheckedStep
  <2>3. CASE MarkSimulatedData(t)
    <3>1. Config(t).dev /\ task[t].pc = "serving"
      BY <2>3 DEF MarkSimulatedData
    <3>2. u.proc # t.proc
      BY <1>4, <2>1, <3>1, TaskRow DEF Sound, Config
    <3>3. task[u].pc # "off"
      BY <1>4, <3>2, OthersStay DEF Checked, Off
    <3>4. phase[u.proc] = "running"
      BY <3>3 DEF StartupInv, StoppedIsOff, Off
    <3>5. phase[t.proc] = "running"
      BY ActiveRuns
    <3> QED BY <1>1, <1>4, <3>2, <3>4, <3>5, TaskRow DEF MarkerKept
  <2>4. CASE ~MarkSimulatedData(t)
    <3>1. UNCHANGED marker
      BY <2>4 DEF Step, DatabaseBusy, ApplySimulatedReceipt, LookInCache, TakeInitLock,
          MigrateWalletDb, ExecuteBatch, EnsureIronwoodPoolSupport, LookForColumn, AddColumn,
          ReadIdentity, InsertIdentity, ReadMetadata, InsertMetadata, Spawn,
          ApplyRequiredConfirmations, CheckAndServe, SyncOnce, Scan, files
    <3> QED BY <2>2, <3>1
  <2> QED BY <2>3, <2>4
<1> QED BY <1>1, <1>2, <1>3, <1>4 DEF MarkerKept

\* A process that starts has only its initializers at work, and an environment
\* that was accepted; whoever it overlaps with is recorded.
LEMMA StartStep ==
    ASSUME StartupInv, NEW p \in Procs, NEW e \in AllEnvs, Start(p, e)
    PROVE  StartupInv'
<1>1. /\ TypeOK /\ MemoryOK /\ FilesOK
      /\ UNCHANGED << crew, lock, migrated, files, failures >>
      /\ phase[p] # "running"
  BY DEF StartupInv, TypeOK, MemoryOK, FilesOK, Start
<1>2. failures' \in 0 .. MaxFailures /\ failures' >= failures
  BY <1>1, StartupAssumption DEF FilesOK
<1>3. FilesOK' /\ KeepsFiles
  BY <1>1, <1>2, FilesUnchanged
<1>4. RequiredAllowed' /\ (simulated' => marker') /\ marker' = marker
  BY <1>1 DEF StartupInv, RequiredAllowed, MarkerKept, files
<1>5. CASE phase' = [phase EXCEPT ![p] = "stopped"] /\ UNCHANGED << env, task, overlapped >>
  <2>1. TypeOK'
    BY <1>1, <1>3, <1>5 DEF TypeOK, MemoryOK, FilesOK
  <2>2. EnvsAccepted'
    BY <1>5 DEF StartupInv, EnvsAccepted
  <2>3. StoppedIsOff'
    BY <1>1, <1>5, StartupAssumption DEF StartupInv, StoppedIsOff, MemoryOK
  <2>4. ASSUME NEW u \in Tasks
        PROVE  LockHeld(u)' /\ TaskHeld(u)'
    <3>1. LockHeld(u)'
      BY <1>1, <1>5 DEF StartupInv, LockHeld
    <3> QED BY <1>3, <1>5, <3>1, HeldKept
  <2>5. MarkerKept'
    <3>1. \A q \in Procs : phase'[q] = "running" => phase[q] = "running"
      BY <1>1, <1>5 DEF MemoryOK
    <3>2. MarkerKept
      BY DEF StartupInv
    <3> QED BY <1>4, <1>5, <3>1, <3>2 DEF MarkerKept, Checked, Config
  <2> QED BY <1>4, <2>1, <2>2, <2>3, <2>4, <2>5 DEF StartupInv
<1>6. CASE /\ ConfigAccepted(e)
           /\ phase' = [phase EXCEPT ![p] = "running"]
           /\ env' = [env EXCEPT ![p] = e]
           /\ task' = [t \in Tasks |->
                 IF t \in crew /\ t.proc = p /\ t.role = "http" THEN [Off EXCEPT !.pc = "wallet"]
                 ELSE task[t]]
           /\ overlapped' = (overlapped \/ \E q \in Procs : phase[q] = "running")
  <2>1. [Off EXCEPT !.pc = "wallet"] \in TaskStates
    BY DEF Off, TaskStates, PcValues
  <2>2. TypeOK'
    <3>1. overlapped' \in BOOLEAN
      BY <1>6
    <3>2. env' \in [Procs -> AllEnvs]
      BY <1>1, <1>6 DEF TypeOK
    <3>3. MemoryOK'
      BY <1>1, <1>6, <2>1 DEF MemoryOK
    <3> QED BY <1>1, <1>3, <3>1, <3>2, <3>3 DEF TypeOK, MemoryOK, FilesOK
  <2>3. EnvsAccepted'
    BY <1>1, <1>6 DEF StartupInv, EnvsAccepted, TypeOK
  <2>4. \A u \in Tasks : u.proc = p =>
            /\ task[u] = Off
            /\ \/ task'[u] = Off
               \/ u.role = "http" /\ task'[u] = [Off EXCEPT !.pc = "wallet"]
    BY <1>1, <1>6 DEF StartupInv, StoppedIsOff
  <2>5. \A u \in Tasks : u.proc # p => task'[u] = task[u]
    BY <1>6
  <2>6. StoppedIsOff'
    BY <1>1, <1>6, <2>5, StartupAssumption DEF StartupInv, StoppedIsOff, MemoryOK
  <2>7. ASSUME NEW u \in Tasks
        PROVE  LockHeld(u)' /\ TaskHeld(u)'
    <3>1. CASE u.proc = p
      <4>1. Idle(u)' /\ task'[u].pc # "migrate"
        BY <2>4, <3>1 DEF Idle, Off
      <4> QED BY <4>1, IdleHeld DEF LockHeld, Idle
    <3>2. CASE u.proc # p
      <4>1. LockHeld(u)'
        BY <1>1, <2>5, <3>2 DEF StartupInv, LockHeld
      <4>2. env'[u.proc] = env[u.proc]
        BY <1>1, <1>6, <3>2, StartupAssumption DEF TypeOK
      <4> QED BY <1>3, <2>5, <3>2, <4>1, <4>2, HeldKept
    <3> QED BY <3>1, <3>2
  <2>8. MarkerKept'
    <3> SUFFICES ASSUME ~overlapped'
                 PROVE  /\ \A q, r \in Procs : phase'[q] = "running" /\ phase'[r] = "running" => q = r
                        /\ \A u \in Tasks : ~Checked(u)'
      BY <1>4 DEF MarkerKept
    <3>1. \A q \in Procs : phase[q] # "running"
      BY <1>6
    <3>2. \A q \in Procs : phase'[q] = "running" => q = p
      BY <1>1, <1>6, <3>1 DEF MemoryOK
    <3>3. \A u \in Tasks : task[u] = Off
      BY <3>1, StartupAssumption DEF StartupInv, StoppedIsOff
    <3>4. ASSUME NEW u \in Tasks
          PROVE  ~Checked(u)'
      BY <2>4, <2>5, <3>3 DEF Checked, Off
    <3> QED BY <3>2, <3>4
  <2> QED BY <1>4, <2>2, <2>3, <2>6, <2>7, <2>8 DEF StartupInv
<1> QED BY <1>5, <1>6 DEF Start

\* A process that dies leaves the files.
LEMMA CrashStep ==
    ASSUME StartupInv, NEW p \in Procs, Crash(p)
    PROVE  StartupInv'
<1>1. /\ TypeOK /\ MemoryOK /\ FilesOK
      /\ UNCHANGED << files, crew, env, overlapped >>
      /\ Exit(p)
  BY DEF StartupInv, TypeOK, MemoryOK, FilesOK, Crash, Rest
<1>2. failures' \in 0 .. MaxFailures /\ failures' >= failures
  BY <1>1, StartupAssumption DEF FilesOK, Crash
<1>3. FilesOK' /\ KeepsFiles
  BY <1>1, <1>2, FilesUnchanged
<1>4. MemoryOK'
  BY <1>1, ExitType
<1>5. TypeOK'
  BY <1>1, <1>3, <1>4 DEF TypeOK, MemoryOK, FilesOK
<1>6. EnvsAccepted' /\ RequiredAllowed'
  BY <1>1 DEF StartupInv, EnvsAccepted, RequiredAllowed, files
<1>7. \A u \in Tasks : task'[u] = IF u.proc = p THEN Off ELSE task[u]
  BY <1>1 DEF Exit
<1>8. \A q \in Procs : phase'[q] = IF q = p THEN "exited" ELSE phase[q]
  BY <1>1 DEF Exit, MemoryOK
<1>9. StoppedIsOff'
  BY <1>7, <1>8, StartupAssumption DEF StartupInv, StoppedIsOff
<1>10. ASSUME NEW u \in Tasks
       PROVE  LockHeld(u)' /\ TaskHeld(u)'
  <2>1. CASE u.proc = p
    <3>1. Idle(u)' /\ task'[u].pc # "migrate"
      BY <1>7, <2>1 DEF Idle, Off
    <3> QED BY <3>1, IdleHeld DEF LockHeld, Idle
  <2>2. CASE u.proc # p
    <3>1. LockHeld(u)'
      BY <1>1, <1>7, <2>2, StartupAssumption DEF StartupInv, LockHeld, Exit, MemoryOK
    <3> QED BY <1>1, <1>3, <1>7, <2>2, <3>1, HeldKept
  <2> QED BY <2>1, <2>2
<1>11. MarkerKept'
  <2>1. MarkerKept
    BY DEF StartupInv
  <2>2. ASSUME NEW u \in Tasks, Checked(u)'
        PROVE  Checked(u)
    BY <1>7, <2>2 DEF Checked, Off
  <2>3. \A u \in Tasks : Config(u)' = Config(u)
    BY <1>1 DEF Config
  <2> QED BY <1>1, <1>8, <2>1, <2>2, <2>3 DEF MarkerKept, files
<1> QED BY <1>5, <1>6, <1>9, <1>10, <1>11 DEF StartupInv

-----------------------------------------------------------------------------
(* The theorems.                                                           *)

\* The invariant holds when nothing runs yet, whatever app file is found.
LEMMA InitHeld == Init => StartupInv
<1> SUFFICES ASSUME Init PROVE StartupInv
  OBVIOUS
<1> DEFINE c == FromEnv(FirstEnv)
<1>1. FirstEnv \in AllEnvs /\ ConfigAccepted(FirstEnv) /\ Sound(c)
  BY StartupAssumption, AcceptedIsSound
<1>2. MemoryOK
  BY OffType DEF Init, MemoryOK
<1>3. IdentityOf(c, c.startup_uivk, c.birthday) \in Identities
  <2>1. c.startup_uivk = FirstEnv.startup_uivk /\ c.wallet_db_path = FirstEnv.wallet_db_path
    BY DEF FromEnv
  <2>2. c.birthday \in Nat /\ c.network \in {"testnet", "mainnet"}
    BY <1>1, StartupAssumption DEF Sound
  <2>3. c.startup_uivk \in {FromEnv(f).startup_uivk : f \in AllEnvs}
    BY <1>1
  <2>4. c.wallet_db_path \in {f.wallet_db_path : f \in AllEnvs}
    BY <1>1, <2>1
  <2> HIDE DEF c
  <2> QED BY <2>2, <2>3, <2>4 DEF IdentityOf, Identities
<1>4. NewMetadata(c, 1) \in MetadataRows
  BY <1>1 DEF NewMetadata, MetadataRows, Sound, Unset
<1>5. /\ identity \in Identities \cup {NoIdentity}
      /\ metadata \in MetadataRows \cup {NoMetadata}
      /\ metadata # NoMetadata => metadata.required = Unset
  <2>1. NewMetadata(c, 1).required = Unset
    BY DEF NewMetadata
  <2> HIDE DEF c
  <2> QED BY <1>3, <1>4, <2>1 DEF Init, c
<1>6. schema \in [tables : BOOLEAN, receipt_kind : BOOLEAN,
                 columns : SUBSET Columns, ironwood : BOOLEAN,
                 orchard : BOOLEAN, copied : BOOLEAN]
  BY DEF Init, FoundSchema
<1>7. wallet \in [ready : BOOLEAN, account : Accounts]
  BY DEF Init
<1>8. failures \in 0 .. MaxFailures
  BY StartupAssumption DEF Init
<1>9. TypeOK
  BY <1>1, <1>2, <1>5, <1>6, <1>7, <1>8 DEF Init, TypeOK, MemoryOK
<1>10. EnvsAccepted
  BY <1>1 DEF Init, EnvsAccepted
<1>11. \A t \in Tasks : task[t] = Off
  BY DEF Init
<1>12. \A t \in Tasks : LockHeld(t) /\ TaskHeld(t) /\ ~Checked(t)
  BY <1>11 DEF Off, LockHeld, TaskHeld, SchemaSeen, IdentityHeld, SettingsHeld, RoleHeld,
               Settled, Known, Opened, Upgraded, Checked
<1>13. StoppedIsOff
  BY <1>11 DEF StoppedIsOff
<1>14. RequiredAllowed
  BY <1>5 DEF RequiredAllowed, RequiredRefused
<1>15. MarkerKept
  BY <1>12 DEF Init, MarkerKept
<1> QED BY <1>9, <1>10, <1>12, <1>13, <1>14, <1>15 DEF StartupInv

\* The invariant is kept by every step of every task and process.
LEMMA StartupStep == StartupInv /\ [Next]_vars => StartupInv'
<1> SUFFICES ASSUME StartupInv, [Next]_vars PROVE StartupInv'
  OBVIOUS
<1>1. ASSUME NEW t \in Tasks, Step(t) \/ DatabaseBusy(t) \/ MarkSimulatedData(t)
      PROVE  StartupInv'
  <2>1. MemoryOK'
    BY <1>1, MemoryStep
  <2>2. FilesOK'
    BY <1>1, FilesStep
  <2>3. UNCHANGED << crew, env, overlapped >>
    BY <1>1, ProcessesStay DEF Rest
  <2>4. TypeOK'
    BY <2>1, <2>2, <2>3 DEF StartupInv, TypeOK, MemoryOK, FilesOK
  <2>5. EnvsAccepted'
    BY <2>3 DEF StartupInv, EnvsAccepted
  <2>6. StoppedIsOff'
    BY <1>1, StoppedStep
  <2>7. \A u \in Tasks : LockHeld(u)' /\ TaskHeld(u)'
    BY <1>1, LockStep, TaskStepHeld
  <2>8. RequiredAllowed'
    BY <1>1, RequiredStep
  <2>9. MarkerKept'
    BY <1>1, MarkerStep
  <2> QED BY <2>4, <2>5, <2>6, <2>7, <2>8, <2>9 DEF StartupInv
<1>2. ASSUME NEW p \in Procs, NEW e \in Envs[p], Start(p, e)
      PROVE  StartupInv'
  <2>1. e \in AllEnvs
    BY <1>2 DEF AllEnvs
  <2> QED BY <1>2, <2>1, StartStep
<1>3. ASSUME NEW p \in Procs, Restart(p)
      PROVE  StartupInv'
  <2>1. PICK e \in AllEnvs : e = env[p]
    BY DEF StartupInv, TypeOK
  <2>2. Start(p, e)
    BY <1>3, <2>1 DEF Restart, Start
  <2> QED BY <2>2, StartStep
<1>4. ASSUME NEW p \in Procs, Crash(p)
      PROVE  StartupInv'
  BY <1>4, CrashStep
<1>5. CASE UNCHANGED vars
  BY <1>5 DEF vars, files, StartupInv, TypeOK, EnvsAccepted, StoppedIsOff, LockHeld, TaskHeld,
        SchemaSeen, IdentityHeld, SettingsHeld, RoleHeld, Belongs, Agrees, SameSettings,
        RequiredAllowed, MarkerKept, Checked, Config
<1> QED BY <1>1, <1>2, <1>3, <1>4, <1>5 DEF Next

\* StartupInvariance: what the code of each step of every task may rely on,
\* for any number of overlapping processes, tasks and failures.
THEOREM StartupInvariance == Spec => []StartupInv
<1>1. Init => StartupInv
  BY InitHeld
<1>2. StartupInv /\ [Next]_vars => StartupInv'
  BY StartupStep
<1> QED BY <1>1, <1>2, PTL DEF Spec

\* IdentityTheorem: whoever stored the singleton identity row, every task past
\* the identity check runs with that row and with an environment that agrees
\* with it (ensure_wallet_identity).
THEOREM IdentityTheorem == Spec => []IdentityAgreed
<1>1. StartupInv => IdentityAgreed
  BY DEF StartupInv, TaskHeld, IdentityHeld, Belongs, IdentityAgreed, Past, Known, Settled
<1> QED BY <1>1, StartupInvariance, PTL

\* SettingsTheorem: the stored depths are those of every task that runs on
\* them, and allow the stored REQUIRED_CONFIRMATIONS (ensure_service_metadata,
\* apply_required_confirmations).
THEOREM SettingsTheorem == Spec => []SettingsAgreed
<1>1. StartupInv => SettingsAgreed
  BY DEF StartupInv, TaskHeld, SettingsHeld, RequiredAllowed, SettingsAgreed, Past, Settled
<1> QED BY <1>1, StartupInvariance, PTL

\* SchemaTheorem: whoever has opened the app database finds its schema complete
\* (initialize_schema).
THEOREM SchemaTheorem == Spec => []SchemaComplete
<1>1. StartupInv => SchemaComplete
  BY DEF StartupInv, TaskHeld, SchemaSeen, SchemaComplete, Past, Upgraded, Opened, Known,
         Settled
<1> QED BY <1>1, StartupInvariance, PTL

\* SiblingsTheorem: no other task of its process is connected to the wallet
\* file while a task migrates it (open_migrated_wallet_db).
THEOREM SiblingsTheorem == Spec => []SiblingsKeepOut
<1>1. StartupInv => SiblingsKeepOut
  BY DEF StartupInv, LockHeld, SiblingsKeepOut
<1> QED BY <1>1, StartupInvariance, PTL

\* RealTheorem: without overlapping processes the chain is never scanned into a
\* database with simulated payments (PaymentService::initialize).
THEOREM RealTheorem == Spec => []ScansRealOnly
<1>1. ASSUME StartupInv, NEW t \in Tasks, task[t].pc = "scanning", ~overlapped
      PROVE  ~simulated
  <2>1. RoleHeld(t) /\ MarkerKept
    BY <1>1 DEF StartupInv, TaskHeld
  <2>2. Checked(t) /\ Config(t).lightwalletd
    BY <1>1, <2>1 DEF RoleHeld, Checked
  <2> QED BY <1>1, <2>1, <2>2 DEF MarkerKept
<1>2. StartupInv => ScansRealOnly
  BY <1>1 DEF ScansRealOnly
<1> QED BY <1>2, StartupInvariance, PTL
=============================================================================
