# A verification project for ops-snmpd

`ops-snmpd` is the SNMP daemon of OpenSwitch: a Net-SNMP subagent that answers
from the switch database (OVSDB), the commands of `vtysh` that configure SNMP, a
library with which other daemons send notifications, and a compiler that turns a
MIB and a mapping file into the C code of a plugin of the subagent.  This
directory holds TLA+ models of these parts, the instances TLC checks, and proofs
that hold for every instance.

    tlc -workers 2 -config SnmpdConf.cfg MCSnmpdConf.tla    # a run
    tlapm OpsSnmpd_proofs.tla                               # a proof

`PROJECT.json` lists the runs, the lines of source behind each definition, the
variants of the code (the definitions marked "Variant") that each property
refutes, the hazards and the findings.

## 1. The system

### Parts, state and operations

| Part | Source | State | Operations |
|---|---|---|---|
| OVSDB thread | `src/src/snmp_ovsdb_if.c` | the IDL's replica and its sequence number, `snmp_idl_seqno`, `system_configured`, `/etc/snmp/snmpd.conf` | `snmp_run`, `snmp_reconfigure`, `generate_snmpd_conf`, `restart_snmpd`, `snmpd_ovsdb_init` |
| process, plugin loader | `src/src/ops_subagent.c`, `snmp_plugins.c` | `keep_running`, `exiting`, loaded libraries, registered handlers | `main`, `stop_server`, `ops_snmpd_exit`, `plugins_*` |
| SNMP commands of vtysh | `src/src/cli/snmp_vty.c` | a replica and the counter `trap_count` of each session; the OVSDB rows | receivers, users, communities, the settings of `other_config` |
| show running-config | `src/src/cli/vtysh_ovsdb_snmp_context.c` | the local flags of the function | prints the lines |
| trap sender | `src/src/snmptrap/snmptrap_lib.c`, `send_<trap>` out of `netsnmp.py:2966-3130` | the cached engine ID and community, the network namespace, a PDU | session, user, `setns`, `snmp_send` |
| generated handlers | text out of `codegen/netsnmp.py:1412-2946` | cache, container, row contexts of a table | load, free, lookup, shutdown |
| MIB compiler | `pysmi/compiler.py` | `mibsToParse`, `parsedMibs`, `failedMibs`, `borrowedMibs`, `builtMibs`, `processed`, what is stored | the stages of `compile`, `buildIndex` |
| symbol table generator | `codegen/symtable.py` | `_out`, `_symsOrder`, `_postponedSyms`, `_importMap` | `genCode`, `regSym`, `regPostponedSyms` |
| C code generator | `codegen/netsnmp.py` | `_out`, `tables`, `tableRows`, `scalarSymbols`, `notificationSymbols`, `customTypes`, `importMap`, the generated files | `genCode`: the visits of the clauses, then `genCFile`, `genPluginFile`, `genCTableFiles`, `genTrapFiles`, `genJsonFile` |
| readers, searchers, borrowers, writers; `mibdump`, `ops-snmpgen` | `reader/`, `searcher/`, `borrower/`, `writer/`, `scripts/` | files and their times in the sources, the packages and the destination directory | `getData`, `fileExists`, `putData`, `fileWrite` |

### How they interact

    vtysh sessions --transactions--> OVSDB --updates--> replica in ops-snmpd
                                                          |            |
                                 OVSDB thread: snmpd.conf, |            | agent's thread:
                                 restart of snmpd          v            v generated handlers
                                                       snmpd <--AgentX-- subagent
    other daemons --send_<trap>--> receivers of the SNMP_Trap table
    MIB + mapping file --ops-snmpgen--> plugin library --dlopen--> subagent

The database is the only channel between vtysh and the daemon.  Inside the
daemon two threads share the IDL and two plain globals.  Only
`snmp_ovsdb_if.c` takes `SNMP_OVSDB_LOCK`; the generated handlers do not.

### What is hard

* *Coalesced and stale changes.*  The OVSDB thread compares sequence numbers; a
  change may arrive with others, before the system is configured, or again after
  a reconnection, and a failed `fopen` or `systemctl` is not retried.
* *Check, then transaction.*  A command checks its session's replica and its
  transaction is applied later, among those of other sessions.
* *Two threads.*  An exit command is answered in one and stops the other; the
  replica changes in the middle of a table load.
* *A step of several fails.*  A plugin lacks a symbol after it was loaded; a call
  fails after the namespace was switched; a load is given up between two rows; a
  MIB fails in one source and not in the next, or in the writer.
* *Names.*  The C code generator collects what it meets by name alone, across the
  MIB it is asked for and all those that are handed over.
* *A shared directory.*  Runs of the compiler read what others store; the MIB is
  edited, a run is killed or the disk fills up between two system calls, and all that
  tells old from new is a time in seconds, compared with `>=`.
* *State that outlives its item.*  The flags of `show running-config`, the static
  community buffer of the trap library, the keys of the report of `compile`.
* *Order.*  Rows in any order, clauses in any order, and the order of a dict.

### What makes each part correct

* the agent runs with one committed configuration, moves forward through the
  commits, and ends with the last one;
* a session cannot break the tables by itself, and limits survive interleaving;
* the printed configuration, entered again, configures nothing else;
* handlers are called only while loaded; a stop ends the process;
* each receiver hears from its own row, whatever happens to another one; the
  daemon is back in its namespace afterwards;
* an answer is not mixed from two loads and not older than the cache's timeout;
* the report of `compile` is true, no import is forgotten, and it ends;
* a symbol comes after its parents, and a module that is accepted is complete;
* generated code has the type and OID its own MIB gives an object, what is called is
  defined, and a MIB that is in order is generated;
* a file under its final name is whole, and an edit is never taken for up to date.

`PROJECT.json` lists under `hazards` where each of these can go wrong.

## 2. Plan

The order of the modules: the OVSDB thread first, since every configuration goes
through it; then what feeds it (the commands), what shows it, the process around
it, the senders, the handlers and the compiler that makes them.

| Step | Modules | State |
|---|---|---|
| 1 | `SnmpdConf`, abstract `ServedConfig`, refinement, proofs | done |
| 2 | `SnmpCommands` (shared operators), `SnmpCli`, `RunningConfig` | done |
| 3 | `Subagent`, `TrapSender` | done |
| 4 | `SymbolTable` with proofs, `MibCompiler` with proofs | done |
| 5 | `TableCache`, abstract `CachedTable`, refinement, proofs | done |
| 6 | proofs for `TrapSender`, `Subagent` and `SnmpCli` | done |
| 7 | `NetSnmpCodeGen` (the resolution of OIDs and types included) | done |
| 8 | `MibStore` | done |
| 9 | proofs for `MibStore` and `RunningConfig` | done |
| 10 | proofs for `NetSnmpCodeGen`: first what needs no walk over chains of names, then types, which do, then that a job in order is generated | done |
| 11 | `SnmpdConf` driven by the sessions of `SnmpCli`: the invariants of both carry over, since `SnmpdConf` admits every commit | later, if a property needs it |

Modules that are proved about declare no RECURSIVE operator.  `SnmpCli` and
`RunningConfig` both extend `SnmpCommands`, so that what a line of the running
configuration does is what the command does.

## 3. The modules

**SnmpdConf.**  OVSDB is the sequence `history` of its committed contents; the
replica is a position in it.  `Commit(new)` with the actions of the clients
appends; `pending` collects what the IDL has to deliver.  `SnmpRun` is one turn of
the loop up to the call of `snmp_reconfigure`; `SkipReconfigure`, `OpenConf`,
`OpenConfFails`, `WriteConf`, `RestartSnmpd` and `RestartSnmpdFails` are what
follows, split where the process can be stopped: `Restart` may come between any two,
and leaves any prefix of the file behind when it comes during the writing.
`WriteConfShort` is a write on a full disk: nobody looks at the results of `fprintf` and `fclose`, so that the agent is
restarted with what there is, and `short` (history) tells which of the two has such a file.
`Reconnect` delivers every column as changed.  A configuration is a record of
sections; each is the set of lines it consists of, for the order inside a section
carries no meaning for snmpd.  `ServedConfig` is what the thread promises about
the agent, in two variables.

**SnmpCommands, SnmpCli.**  Operators for the checks of a command (`HostRefused`,
`CommunityRefused`, `UserIsReceiver`) and for the transaction it computes
(`HostConfigured`, ...).  A transaction says which rows are deleted, which are
inserted, and what whole column is written.  In `SnmpCli` a command reads the
session's `replica` and sends; `Committed` applies it to `db` as it is by then,
`Failed` drops it, `Refresh` brings the replica up to date, `Reopen` replaces the
session by a new process with a zero `trap_count`.  The author of a row (`by`) is
history that only properties read.

**RunningConfig.**  `PrintSystem`, `PrintTrap` and `PrintUser` print the lines, one
row at a time in any order, with the function's flags that are never reset.
`Enter` enters a line as the parser of vtysh would read it on a fresh switch, with the
checks of `SnmpCommands`; a line that no longer is a command does nothing.

**Subagent.**  `main` and the OVSDB thread as two program counters.  A plugin is
loaded, its two symbols are looked up (`RefusedPlugin` or `OpenPlugin`), it
registers handlers; `AskExit` and `Signal` come at any moment, `AnswerExit` runs in the
OVSDB thread.

**TrapSender.**  The loop over the receivers (`NextRow` ... `RowDone`) with the library it
calls.  Every Net-SNMP call and both `setns` have an action for success and one for
failure.  The session points into `global_trap_community`, so that the message
carries what is in the buffer when it is built; an empty name leaves the buffer alone and points to
"public" (`Community`).  `PduFreedOnce` counts both ways: a PDU freed twice and one left behind.

**TableCache.**  A request asks the cache helper (`Request`), which clears and reloads
the container (`FirstFails`, `First`, then `SkipRow`, `AllocateFails`, `IndexesFail`
or `InsertRow` for each row) and answers from it (`Serve`).  `Commit` is the OVSDB
thread: between two rows it may change or delete any row and rehash the map, so the
loop's rest (`ahead`) becomes any set of rows.  A deleted row under the cursor makes
what is read arbitrary, and the step to the next row undefined behaviour
(`pc = "undefined"`, where the model stops).  The rows of the other tables a column is read from (`joined`) are fetched
once, before the loop, and used for all of its rows; when the OVSDB thread frees one (`lost`), what is read of it is arbitrary too.  `live` counts allocated contexts.
`CachedTable` is what the managers are promised, in five variables: the rows an answer is made
of appear all at once (`Refill`), are used within the timeout (`Hit`) and are given up
(`Expire`); under the mapping (`Promised`) the container is empty while a load is at work on it.

**MibCompiler.**  One action for each outcome of each stage of `compile`.  A file is the
modules it declares, with their imports, and whether an error follows them.
Searchers, borrowers, generator and writer answer at will: a writer stores all of the text, part of it
(`Written`), fails with an error `compile` expects (`StoreFails`) or with one it does not (`StoreRaises`).  `Tools` tells the two
callers apart: under `ops-snmpgen` the generator writes its files itself and
`putData` does nothing; under `mibdump` `putData` writes.  `BuildIndex` follows the
report if the command line asks for it.

**SymbolTable.**  `VisitClause` takes the clauses in any order; `Register`, `Postpone`
and `Duplicate` are `regSym`; `Reconsider` and `PassDone` are the one pass of
`regPostponedSyms` over a dict in arbitrary order; `Finish` is the end of `genCode`.
A clause is reduced to its name, its syntax, what it augments, its invented index columns
and the symbols its OID names.

**NetSnmpCodeGen.**  A *job* is the input of `genCode`: the main MIB, the clauses of each module
in the order of the text, what it imports, the order of the dict of modules, the modules that
are handed over, the mapping file and `--jsonTables`.  `GenImports`, then `Visit` clause by clause (an
operator for each kind of clause) fill collections that are keyed by name; `GenScalar`,
`GenPlugin`, `GenTable`, `GenTrap` and `GenJsonFile` emit from them.  Of the C text there remains
of which object it is (`emitted`: with type and OID) and which functions are defined,
declared and called.  What the code looks up by name (`BaseType`, `TypeOf`) stands beside
what the text of the MIB means (`Lexical`, `Scope`), which only properties read.  The search
ends as it does in the code: "done", "failed" (a PySmiError), "crash" (another exception) or
"loop" (no end).  A default value fits or does not, or lists bits, which is a crash even where it fits.  Chains of names are followed with recursive functions of bounded depth (`Trail`).

**MibStore.**  One system call an action.  A run stats and reads the MIB (`Stat`, `Open`): `Chosen`, `Dates` and `OpenFails` have
what the three readers do differently, which name they settle on, how they date the MIB and what a failure leads to.
`time.time()` has a fraction, which compares with whole seconds as the next second does (`Clock`).  A run then asks the
searchers in their order (`SearchBytecode`, `SearchSource`, `SearchElsewhere`), generates or borrows, and
stores: `PyFileWriter` through `MakeTemp`, `WriteTemp`, `RenameSource`, `CompileSource`, `WriteBytecode`;
`CFileWriter` through `CheckFile`, `RemoveFile`, `RenameFile`, and once more for what clang-format makes of the file
(`Format`).  A dry run ends at `CheckDirectory` under `mibdump` alone.  Two runs share the directory;
`Edit`, `Tick` and `Kill` come at any moment.  Texts carry the version they are from, where and when
it was read, and whether they are whole; `full`, `installed` and `torn` are history.  The files
are laid out as under Python 2.

## 4. The runs

| Run | Bounds | Shows |
|---|---|---|
| `SnmpdConf` | 2 commits after the first content, 2 faults (reconnections, restarts, full disks), 2 users, 1 community, 3 contents of `other_config`, 2 versions, 2 MACs | `AgentServesOneCommit`, `SettledAgentServesReplica`, `CommittedConfigIsServed` (liveness), and `AgentMovesForward`: the refinement of `ServedConfig` |
| `SnmpdConfDeletedUser` | as above | violation: deleting the last user does not regenerate the file |
| `SnmpCli` | 2 sessions, 4 transactions, 1 reopening, limits of 1, v2c and v3 receivers of type trap and inform | `SameReceiverDifferentSessions`, `CommunitiesWithinLimit`, `SessionTrapLimit`, `UpToDateIsConsistent` |
| `RunningConfig` | up to 2 receivers of 5 kinds, up to 2 users, descriptions that do and do not begin with the version | `ReplayInventsNothing`, `ReceiversComeBack`, `RestComesBack` |
| `Subagent` | 2 plugins, 2 signals | `HandlersAreResident`, `ThreadEndsWithMain`, `StopIsObeyed` (liveness) |
| `TrapSender` | 4 receivers (v1 trap with an empty community, v2c inform, v3 inform, v3 trap), 2 users, 2 MACs | `SentAsConfigured`, `EveryReceiverIsServed`, `NamespaceRestored`, `PduFreedOnce` |
| `SymbolTable` | 8 clauses (a chain of three types that may close to a circle, a table with its rows), every subset in every order, 2 import lists | `OrderIsTopological`, `AcceptedIsComplete` |
| `MibCompiler` | 4 MIBs in an import cycle, 2 sources, 9 files, every option, both tools | `NoImportIsForgotten`, `ReportedIsStored`, `RefusedReportsNoSuccess`, `OriginalIsReported`, `Terminates` (liveness) |
| `TableCache` | 2 rows of 5 contents, timeouts -1, 0, 1 with a default of 2, time to 2, 2 commits, 3 loads | `ServesCachedTable` (the refinement of `CachedTable`), `ServedIsFresh`, `ContainerIsTheTable`, `NoOtherContextIsLost` |
| `NetSnmpCodeGen` | 11 texts of the main MIB, 11 of another one, 3 orders of the dict of modules, with and without the MIB of types among those handed over, 3 mapping files, with and without `--jsonTables`; chains of names up to 7 | `TypesAsDeclared`, `OidsAsDeclared`, `TrapsCarryTheirObjects`, `PluginIsOfMain`, `GettersLink`, `TidyJobIsGenerated`, `GenerationEnds` (liveness) |
| `NetSnmpCodeGenUnmapped` | as above | violation: the plugin calls `init_<name>` of a scalar that is not mapped, and nothing defines it |
| `MibStore` | 2 runs, 2 places, 3 sites (directory with a package, HTTP with an egg, FTP), 4, 2 and 2 command lines for them, time to 2, 1 edit, 2 starts, 1 kill | `WholeUnderFinalName`, `OnlyRacingEditsAreMissed`, `UnchangedIsFound`, `CFileIsReplaced` |

Why the bounds are enough for the cases that matter:

* `SnmpdConf`: three contents admit a change that is coalesced with another, one that
  is undone and one that comes while the file is written; two faults admit a restart
  in the middle of a write followed by a reconnection.  The values of a column are
  interchangeable, so the first content takes the first of each.
* `SnmpCli`: four transactions are two for each session, the least for a check and an
  insertion to interleave with the other's; limits of one are met and exceeded.
  The sessions are symmetric, and the run has no liveness property.
* `RunningConfig`: two receivers show every carry-over of a flag from one row to the next.
* `TrapSender`: one receiver of each path, among them one whose community falls back to "public"; the notification may be sent any number of times.
* `SymbolTable`: three symbols are the shortest chain for which one pass is not enough.
* `MibCompiler`: a failing source followed by a good one, a file with two modules, with a
  module of another name, with none, and one no source has.  The runs take files whose
  wrongly named modules do not import the name they were found under; with such a
  file `compile` reads it over and over (`compiler.py:196,217`), so that `Terminates`
  states that cycles among properly named MIBs end.
* `TableCache`: two rows are a first and a next one with equal or different indexes; two
  commits change a row under the loop and another before it; three loads are one
  that succeeds, one that is given up, and one after it.  `MaxLoads` only stops
  requests that would reload.

* `NetSnmpCodeGen`: the texts hold each kind of clause, a type over an imported one, an
  augmented row, an index of another MIB, names declared twice (node, type, scalar, trap), an object that
  only the other MIB imports, a default that lists bits, a type that is used as a parent, and each clause that is missing or too late; of the orders of the dict each module comes first once.
  The MIBs of a job have at most seven type declarations between them: no chain of types can go on for more steps than
  `Depth` = 7 without coming round (`TypesAssumption`, on which the proofs rest), and no chain of OIDs is longer than 5.
* `MibStore`: two runs are the least that race, and the second start is also the run that
  comes after; one edit and two seconds admit a text stored in the second of the edit, before
  and after it.  The command lines are those that matter at each site: dry runs of both tools, rebuilding with and
  without bytecode.  The runs are symmetric, and there is no liveness property.

The runs say `CHECK_DEADLOCK FALSE` where the model ends: at its bound of commits,
commands or loads, or where the program does (`compile` returns, the process exits).
`TrapSender` never stops and is checked for deadlock.

### Fairness

* `SnmpdConf`: weak fairness of the OVSDB thread.  It loops without waiting for anything
  but the IDL's poll, and the updates of the database wake it.  Nothing is assumed
  of the clients, of faults, or of the outcome of `fopen` and `systemctl`;
  `CommittedConfigIsServed` excuses a regeneration that failed, for the code does not repeat it.
* `Subagent`: weak fairness of each thread.  `agent_check_and_process` returns since
  the AgentX session keeps an alarm that pings the master.  Nothing of signals or commands.
* `MibCompiler`, `NetSnmpCodeGen`: weak fairness of `Next`: sequential programs that go on.
* The other modules state safety only.

Type invariants are not among the runs' properties where they are proved (section 5).

## 5. What is proved

All proofs hold for every value of the constants that satisfies the named
assumption of the module, and every bound.  Where two modules have their proofs in one,
that extends both, which is why the specifications of `Subagent` and `TrapSender` have names of their own
(`SubagentSpec`, `TrapSpec`); neither proof uses the other module.

**OpsSnmpd_proofs**, the OVSDB thread (assumes `SnmpdConfAssumption`).  `IInv` is `TypeOK` with:
`PendingCovers` (what the IDL still has to deliver marks every watched difference
between the replica and the database), `ConfiguredForGood`, `ThreadKnows` (what a
program counter implies of the sequence numbers), `FilesKnown` (what the file was
rendered from, unless a full disk cut it short), `AgentServesOneCommit`, and `DifferencesAreNews`: where the agent differs from
the replica in a section, an item of that section changed after the last sequence
number processed.  `SettledAgentServesReplica` alone is not inductive: it says
nothing while a change is under way, or after one whose file was cut short, and `DifferencesAreNews` is what it becomes then.
The lemma `CoveredTransitive` carries the marks over several commits.
Results: `TypeCorrect`, `OneCommit`, `SettledServes`, and `MovesForward`, the
refinement of `ServedConfig` (`ServedInit`, `ServedNext`).

**SymbolTable_proofs** (`SymbolTableAssumption`).  The invariant relates the
queue of the current clause, the postponed symbols, the table and the order: a
registered symbol had its parents registered, imported or built in at that moment,
and none of these is ever taken back.  Results: `TypeCorrect`, `Topological`,
`Complete`.

**MibCompiler_proofs** (`MibCompilerAssumption`).  `IInv` is `TypeOK` with `Search`
(every name mentioned is tried or waits to be), `Built` (what may be in `builtMibs` at
each stage), `Reported` (a status of success has its file, whole or as far as the disk had room, or its entry in `builtMibs`) and `OriginalIsKept`
(the first MIB is in the report or about to get there).  One lemma per conjunct, one
step per action.  Results: `TypeCorrect`, `NoImportForgotten`, `ReportedStored`,
`RefusedNoSuccess`, `OriginalReported`.

**GeneratedCode_proofs**, the handlers (`TableCacheAssumption`).  The conjuncts of `IInv` say at each program counter
what the container, the cache's flags and the loop's rest say of each other: `AtRow` (the loop is at a row
of the table unless it was freed), `EmptyUnlessValid` (a container that is not valid is
empty, unless a load is at work), `Dated` (when its rows were read, and in which load) and `MadeSoFar` (the rows the
loop has left behind are in it, while nothing changes).  `MadeByAdvance` carries `MadeSoFar` over a
step of the loop, whatever row comes next.  Results: `ImplementsCachedTable`, the refinement
(`PromisedInit`, `PromisedNext`; `LoadEnds` is the step at which a load becomes visible),
`Fresh`, `ContainerIsTable` (until the replica changes: of a load that was interrupted it says nothing),
`OthersAreNotLost`, `Typed`.

**SnmpCli_proofs** (`SnmpCommandsAssumption`, `SnmpCliAssumption`), for any number of sessions and any
limits.  No check of a command is inductive about `db`: it is made on a replica.  `IInv` says what
survives until the transaction is applied: `OwnAreSeen` (a session's own rows
are in its replica), `TransactionsAnnounced` (a transaction inserts one row, for a receiver its replica lacks, below
the limit of the session's count), `Counted` (the count is at least the number of its rows), `CommunitiesKept`
(the limit holds in every replica and transaction as well), `UuidsAreFresh` and `TransactionsHarmless`.  `CommandSends`
shows that every command sends such a transaction; one lemma per action shows that it keeps `IInv`.
Results: `OwnReceiversDiffer` (of one session's rows; two sessions may each have configured the same receiver), `CommunityLimit`, `TrapLimit`, `UpToDate`, `Typed`.

**GeneratedCode_proofs**, the senders (`TrapSenderAssumption`), and **OpsSnmpd_proofs**, `main` and the
plugins.  The invariants tie the program counter to what is allocated, open and registered; `RowsInTurn` adds that the
receivers before the present one are done with, `PduKept` who is left to free the PDU: nobody where no session was made
or an inform failed before it was sent, and both where `setns` back fails after a trap was sent.  `ThreadEnds` excepts an exit command that is answered before `main` sets `keep_running`.
Results: `MessagesAreConfigured`, `ReceiversAreServed`, `NamespaceIsRestored`, `PduIsFreedOnce`,
`TrapTyped`; `HandlersResident`, `ThreadEnds`, `SubagentTyped`.

**RunningConfig_proofs** (`SnmpCommandsAssumption`, `RunningConfigAssumption`), for any number of rows up
to the limits.  The assumption `Configurable` says what databases are shown: those that the commands of one session
can configure.  Its conjuncts are the checks of `SnmpCommands`: no receiver twice, a user for every
v3 receiver, no bad address, at most `MAX_ALLOWED_SNMP_TRAPS` + 1 receivers and `MAX_ALLOWED_SNMP_COMMUNITIES`
communities.  `IInv` follows the session that enters the lines.  `LinesAreOfRows` (every line is of a row that was passed,
whatever the flags left over from others made of it), `RowsHaveLines` (every such row has its line) and `FlagsAreOfRows` (`is_v3`
is set only where there is a v3 receiver) are of the printing; `SettingsEntered`, `CommunitiesEntered`, `UsersEntered` and `TrapsEntered` say of the switch
what the lines before `entered` have made of it, no more and no less.  A receiver comes back only if no check refuses
it, which `RoomIsLeft` settles by counting: those the switch has are receivers of other rows, and no two of them
are the same, so that there is room for one more.  No induction over the lines is needed, for each
conjunct says it of all lines below `entered`.
Results: `NothingIsInvented`, `AllReceiversComeBack`, `AllTheRestComesBack`.

**MibStore_proofs** (`MibStoreAssumption`), for any number of runs, places, edits, starts and kills.  `IInv` has:
`SeenBefore` and `HasSeen` (what a run has seen of the MIB was there, and is dated no later than the clock's lag allows),
`AllExplained` (for every text in a file or in a run's hands: where the MIB is of a later version, that is by an edit made
since the text was read, and where it is of the same, by one made no later), `StoredLater` (a file is dated no earlier than its text was read), `JudgedNew` (a text that was judged new is dated no earlier than the MIB is, and is explained), `Whole` (what has a final name was renamed whole from a temporary file, unless the disk was full)
and `CFileIsReplaced`.
`OnlyRacingEditsAreMissed` is about the answer a run stops with, and is not inductive: the answer follows from a file
that may be replaced before the run stops, so `JudgedNew` keeps what the file was like.
`UnchangedIsFound` compares the date of a file with that of the MIB a later run sees, which `StoredLater` and the second half
of `AllExplained` relate by way of the time the text was read; it is about local MIBs, since a date a server gives may be the clock's.
Results: `FinalNamesAreWhole`, `EditsAreNoticed`, `UnchangedIsNotMadeAgain`, `CFilesAreReplaced`.

**NetSnmpCodeGen_proofs** (`NetSnmpCodeGenAssumption`, `TypesAssumption`), for any jobs.  The assumption says what reaches the
generator: the symbol table is made first, and refuses a MIB that declares a name twice
(`symtable.py:423`) or an OID whose parent it neither declares nor imports (`symtable.py:756`); the stubs, which define the
C types, are handed over by nobody.  `IInv` counts what was visited (`Visited`, by the program counter, the MIBs
that are left and the next clause): the scalars are those of the main MIB so far
(`ScalarsOfMain`), the traps those of all MIBs so far, each once if its name is one MIB's (`TrapsOfAll`); `Entries` says that what is kept under a
name is of a clause with that name, with that clause's OID, and `ImportsKnown` that `importMap` has what the present MIB
imports, whatever it has of others.  `PluginKnown`, `GettersKnown`, `EmittedKnown` and
`SendersKnown` say what is generated at each stage.  The lemma `SoleUser` makes the step from a name to its module:
where two MIBs mean the same name, it is one module's.

`TypesAsDeclared` needs chains of names followed to their ends, on both sides: by the text, from module to module
(`Chain`, `Lexical`), and by the code, by name alone (`BaseType` through the dict of modules, `TypeOf` through `customTypes` and `_out`).
`TypesAssumption` adds what else the symbol table refuses: a syntax that is no C type and that the MIB neither declares
nor imports (`symtable.py:410`, `422`), and two kinds of names that look alike (types are capitalised: `parser/smi.py:251`, `356`);
and it relates the bound of the model to the job: no fewer steps than there are types.  The walks are recursive functions over
the natural numbers; what the library's induction theorems cannot be used for is done with the
least element of a set (`LeastNumber`, from `WFMin`): `Induction`, `Walk` (a function can be followed within any set it does not leave) and
`SameSteps`.  `ChainIsClosed` is by the pigeonhole principle: of more steps than types two
are at one type, and from there the chain comes round, so that a chain of `Depth` steps has met all it will meet.
`ChainMeans`: where the names of a chain have one user each, whatever declares one of them declares what the chain means by it.
Hence the searches by name stay on the chain (`BaseTypeIsOnChain`, `TypeStepStays`), and a C type that is on it is its end
(`ChainEndsAtCType`).  The strengthening is `CustomTypesKnown`: what `customTypes` has for a name, whichever MIB it was kept of, is on
every such chain that has the name.

`TidyJobIsGenerated` says that nothing fails, so that every look-up of every handler must be seen to succeed.  Its strengthening is
`TidyJobKnown`: if the job is in order (`TidyJob`), then generation has not ended badly, in an endless loop either, and
(`InOrder`) the present MIB's imports are those of `importMap` while its clauses are visited, whatever MIB was visited before
(`ImportsInForce`); of each clause that was visited, all is kept that a later one or a file asks for (`AllIsKept`: the entry, the table's row, the row,
the column under its row, the base type of an import); and there is nothing in the collections that is not of a clause (`NothingElse`).
Nothing is lost: a table or a row that was visited could only be reset by a second declaration of its name, and
what a visited clause comes after (`Before`) is declared (`NotAgain`, `KeptStays`).  Then, one lemma per way to fail (`DeadEnds` lists them), it does not happen:
`ImportsEndWell` (`BaseTypeFound`: the loop over the dict walks along the chain, step by step), `ClauseEndsWell`, `ScalarEndsWell`,
`TableEndsWell`, `TrapEndsWell`, `TemplateEndsWell`.  The last four rest on `TypeFound`, that `getObjTypeString` comes to a C type: when all
MIBs were visited, each call of it goes at least one step ahead on the chain, or to its end (`GoesAhead`), and
there are no more steps than calls.  `TypesAssumption` is used once more: a column made up for an INDEX has a name that no
clause has (`pysmiFakeCol<n>`, `netsnmp.py:979`; the model names it by its type), and a default value is absent, fits its object's type, lists bits, or does not fit.

What the code gets wrong is excepted by name in each theorem: `OidsAsDeclared` lets a scalar of the main MIB carry the OID of
another MIB's where that MIB declares the name too, `TrapsCarryTheirObjects` leaves out names two MIBs use and objects only another MIB imports,
and a job in order (`TidyJob`) has no default that lists bits.

Results: `ThePluginIsOfTheMainMib`, `EveryGetterLinks`, `OidsAreTheMibsOwn`, `EveryTrapIsSentOnce`, `TypesAreTheMibsOwn`,
`TidyJobsAreGenerated`.

Attempting the proofs corrected three conditions that the runs had not told apart: an imported type that is
itself a C type is looked up too (`netsnmp.py:553`; `ImportsAreTyped`), the OID that must resolve is that of the parent
the clause names, in the MIB that name means (`TidyClause`), and what a row augments must be a row (`TidyRow`).

**Only model-checked.**  Liveness (`CommittedConfigIsServed`, `StopIsObeyed`,
`Terminates`, `GenerationEnds`), which needs fairness and `ENABLED`, out of the prover's reach.  Every safety property
of the passing runs is a theorem.

## 6. Where the code and its documents disagree

With a run that shows it:

* `snmp_ovsdb_if.c:226`: deleting the last SNMPv3 user changes nothing in snmpd.conf.
* `netsnmp.py:1625`: the plugin initialises a scalar that is not mapped, for which there is no code.

Met while modelling, the behaviour is in the models:

* `snmp_plugins.c:133`: "Destroyed all plugins" is logged, and none was.
* `symtable.py:432`: a module is rejected for unknown parents that are registered.
* `snmp_vty.c:53`: a session configures one trap receiver more than
  `MAX_ALLOWED_SNMP_TRAPS` (`SessionTrapLimit` allows for it); the counter is never
  counted down, so a session that adds and removes receivers is refused in the end.
* `vtysh_ovsdb_snmp_context.c:68`: a description that begins with the text of the version is not shown
  (the exception in `RestComesBack`).
* `netsnmp.py:2143`: a `CacheTimeout` of 0 means 30 seconds.
* `netsnmp.py:1784`: a row whose index the container has is lost with its context.
* `netsnmp.py:1469`: a scalar dereferences the missing first row of its table.
* `netsnmp.py:1722`: a table load iterates over the replica while the OVSDB thread may
  change it.
* `compiler.py:286`: only the first of the MIBs named is generated; 287: a
  `KeyError` if it is missing, failed or up to date; 424: a MIB that failed in one
  source and succeeded in the next is stored and reported failed; 196, 217: endless
  reading of a file that declares other modules that import its name.
* `compiler.py:454`: the index `--build-index` asks for never has an entry.
* `netsnmp.py:449`: a dry run of `ops-snmpgen` writes all generated files.
* `netsnmp.py:573`: a scalar of the main MIB is generated as whatever another MIB declares under its name, OID and all
  (the exception in `OidsAsDeclared`); 571: names of several MIBs collide (the exceptions with `Sole`); 688: an object that only
  another MIB imports is taken for that MIB's (the exception with `Declares` in `TrapsCarryTheirObjects`); 511: a type nobody
  declares is looked for forever; 946: a default that lists bits, and 589: a parent that is a type, end in a KeyError; 1200, 1216, 1427, 1801: inputs that end in an exception
  nobody catches (the conditions of `TidyJob`); 2172: a getter is generated for the first
  of several tables that map a column differently; 1647, 1926, 2967: a header that declares another function,
  a minimal column that is not, files for no traps.
* `searcher/pyfile.py:55`: a transformed MIB that is too old ends the run with a TypeError;
  `writer/pyfile.py:52`: a text that is cut short gets its final name; 58: the handler of a failed
  `mkstemp` fails; 74: old bytecode outlives the text; `writer/cfile.py:35`: the old file is removed
  first; `reader/ftpclient.py:76`, `httpclient.py:68`: dates that are not used (so that the MIB is as new as
  the run, by a fraction of a second newer than a file stored within it), or of another time zone;
  `httpclient.py:75`: the body is read outside of the `try`;
  `searcher/pypackage.py:57`: one search changes the name of the package for the next.
* `snmptrap_lib.c:306`: the PDU is freed twice when `setns` back fails after a send; 293: it is left
  behind, and a success reported, when `snmp_add` fails.
* `snmp_ovsdb_if.c:206`: a file a full disk cut short is what snmpd is restarted with.
* `snmp_vty.c:410`: two sessions that set different keys of `other_config` lose one update.
* the engine ID, in snmpd.conf and in the trap library, does not follow `system_mac`.

## 7. What is not modelled

* The layout of the generated C text, of headers and of JSON templates, constraints and labels of types;
  the conversion of column values (`ovsdb_get_*`), which is reduced to the value; the generated SET
  hooks, which change nothing in OVSDB.
* The grammar and lexer of SMI (PLY): what they yield, the clauses of a file or an error, is the input of
  `SymbolTable`, `NetSnmpCodeGen` and `MibCompiler`.
* The generator of Python MIBs (`codegen/pysnmp.py`), which makes none of the daemon's code: it turns the
  same clauses into text clause by clause, and its outcomes are those of `Generate` in `MibCompiler`.
* Subdirectories a reader cannot list, and the callback reader and writer, which nothing uses.
* Option parsing, logging, `show` commands of vtysh other than the running configuration.
* Net-SNMP, the IDL and the server of OVSDB, libltdl, systemd, the operating system: external; the
  definitions that stand for them are marked so in `PROJECT.json`.
* The lock around `ovsdb_idl_run`: no other code of this repository takes it.
