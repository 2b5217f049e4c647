----------------------------- MODULE SnmpdConf -----------------------------
(***************************************************************************)
(* The OVSDB thread of ops-snmpd (src/src/snmp_ovsdb_if.c) as the writer   *)
(* of /etc/snmp/snmpd.conf.  The thread keeps a replica of the System row  *)
(* and of the SNMPv3_User table, compares change sequence numbers with the *)
(* one it processed last, regenerates the whole file when something it     *)
(* watches changed, and restarts the master agent snmpd.                   *)
(*                                                                         *)
(* OVSDB is the sequence of its committed contents; the replica is one of  *)
(* them, named by its position (0: nothing received yet).                  *)
(***************************************************************************)
EXTENDS Naturals, Sequences, FiniteSets

CONSTANTS
  Communities,     \* community names an operator may configure
  Settings,        \* values of the SNMP keys of System.other_config
  Unset,           \* the key is absent from other_config
  OtherConfigs,    \* the contents other_config takes, as far as its SNMP keys go
  Versions,        \* values of System.switch_version
  Macs,            \* values of System.system_mac
  Users,           \* SNMPv3 user names
  UserRows,        \* contents of a SNMPv3_User row besides its name
  NoRow,           \* the user has no row
  MaxCommits,      \* bound: transactions committed to OVSDB
  MaxFaults        \* bound: reconnections, process restarts and full disks together

SnmpKeys == {"snmp_agent_port", "system_description", "system_contact", "system_location"}

ASSUME SnmpdConfAssumption ==
  /\ NoRow \notin UserRows
  /\ OtherConfigs \subseteq [SnmpKeys -> Settings \cup {Unset}]
  /\ UserRows \subseteq [auth: {"none", "md5", "sha"}, priv: {"none", "aes", "des"}]
  /\ MaxCommits \in Nat
  /\ MaxFaults \in Nat

VARIABLES
  history,         \* the committed contents of OVSDB, oldest first
  faults,          \* reconnections, restarts and full disks so far
  pending,         \* what changed in the updates the replica has not seen
  replica,         \* position in history of the replica, 0 before the first update
  idl_seqno,       \* ovsdb_idl_get_seqno(idl)
  changed_at,      \* per watched item, the seqno of its last change
  snmp_idl_seqno,  \* the seqno of the last change processed
  system_configured,
  pc,              \* where the thread stands in its loop
  conf,            \* /etc/snmp/snmpd.conf
  conf_of,         \* ghost: position in history conf was generated from
  agent,           \* the configuration snmpd runs with
  agent_of,        \* ghost: position in history agent was generated from
  short,           \* ghost: which of "conf" and "agent" a full disk has cut short
  lost             \* ghost: the last regeneration failed, or was cut short, and nothing recalls it

database == <<history, faults, pending>>
idl      == <<replica, idl_seqno, changed_at>>
files    == <<conf, conf_of, agent, agent_of, short>>
vars     == <<database, idl, snmp_idl_seqno, system_configured, pc, files, lost>>

-----------------------------------------------------------------------------
(* The rows of the database and what the IDL tells about their changes.    *)

UserTable == [Users -> UserRows \cup {NoRow}]

Contents == [cur_cfg: {0, 1}, snmp_communities: SUBSET Communities,
             other_config: OtherConfigs, switch_version: Versions,
             system_mac: Macs, users: UserTable]

NoUsers == [u \in Users |-> NoRow]

TableChanges == {"rows_modified", "rows_deleted", "rows_inserted"}
ColumnChanges == {"snmp_communities", "other_config", "switch_version"}
Watched == TableChanges \cup ColumnChanges

\* OVSREC_IDL_ANY_TABLE_ROWS_*: some row of SNMPv3_User changed this way.
RowsChanged(how, old, new) ==
  \E u \in Users :
    CASE how = "rows_inserted" -> old[u] = NoRow /\ new[u] # NoRow
      [] how = "rows_deleted"  -> old[u] # NoRow /\ new[u] = NoRow
      [] how = "rows_modified" -> old[u] # NoRow /\ new[u] # NoRow /\ old[u] # new[u]

\* The watched items in which two committed contents differ.
ChangedItems(old, new) ==
  {w \in TableChanges : RowsChanged(w, old.users, new.users)}
    \cup (IF old.snmp_communities # new.snmp_communities
            THEN {"snmp_communities"} ELSE {})
    \cup (IF old.other_config # new.other_config THEN {"other_config"} ELSE {})
    \cup (IF old.switch_version # new.switch_version THEN {"switch_version"} ELSE {})

Latest == history[Len(history)]

-----------------------------------------------------------------------------
(* The file: the lines of each kind that generate_snmpd_conf prints.       *)

Sections == {"agentAddress", "system", "rocommunity", "rouser", "engineID"}

SectionOrder == <<"agentAddress", "system", "rocommunity", "rouser", "engineID">>

\* One createUser and one rouser line: protocols are printed, and the level
\* asked of the user follows them; without protocols none is printed.
UserLine(row) ==
  IF row.auth = "none"
    THEN [auth |-> "none", priv |-> "none", level |-> "default"]
    ELSE IF row.priv = "none"
           THEN [auth |-> row.auth, priv |-> "none", level |-> "auth"]
           ELSE [auth |-> row.auth, priv |-> row.priv, level |-> "priv"]

UserLines(users) ==
  {<<u, UserLine(users[u])>> : u \in {v \in Users : users[v] # NoRow}}

Setting(db, key, default) ==
  IF db.other_config[key] = Unset THEN default ELSE db.other_config[key]

\* The lines of each section for the contents db.
Rendered(db) ==
  [agentAddress |-> {Setting(db, "snmp_agent_port", "161")},
   system       |-> {<<"sysDescr", Setting(db, "system_description", db.switch_version)>>,
                     <<"sysContact", Setting(db, "system_contact", "")>>,
                     <<"sysLocation", Setting(db, "system_location", "")>>},
   rocommunity  |-> IF db.snmp_communities = {} THEN {"public"}
                                                ELSE db.snmp_communities,
   rouser       |-> UserLines(db.users),
   engineID     |-> {db.system_mac}]

Truncated == [s \in Sections |-> {}]

\* The file when only the first n sections reached the disk.
Prefix(full, n) ==
  [s \in Sections |-> IF \E i \in 1 .. n : SectionOrder[i] = s THEN full[s] ELSE {}]

-----------------------------------------------------------------------------
(* OVSDB and its clients: the CLI of src/src/cli/snmp_vty.c and the        *)
(* daemons that own the other columns of System.                           *)

Commit(new) ==
  /\ Len(history) <= MaxCommits
  /\ new # Latest
  /\ history' = Append(history, new)
  /\ pending' = pending \cup ChangedItems(Latest, new)
  /\ UNCHANGED <<faults, idl, snmp_idl_seqno, system_configured, pc, files, lost>>

SystemConfigured == Commit([Latest EXCEPT !.cur_cfg = 1])

ConfigureCommunities ==
  \E cs \in SUBSET Communities : Commit([Latest EXCEPT !.snmp_communities = cs])

ConfigureOther == \E o \in OtherConfigs : Commit([Latest EXCEPT !.other_config = o])

UpgradeVersion == \E v \in Versions : Commit([Latest EXCEPT !.switch_version = v])

AssignMac == \E m \in Macs : Commit([Latest EXCEPT !.system_mac = m])

ConfigureUser ==
  \E u \in Users, row \in UserRows \cup {NoRow} :
    Commit([Latest EXCEPT !.users[u] = row])

\* The session with ovsdb-server breaks and ovsdb_idl_enable_reconnect lets
\* the IDL fetch everything again: every row is deleted and inserted.
Reconnect ==
  /\ faults < MaxFaults
  /\ faults' = faults + 1
  /\ pending' = Watched
  /\ UNCHANGED <<history, idl, snmp_idl_seqno, system_configured, pc, files, lost>>

-----------------------------------------------------------------------------
(* The OVSDB thread.                                                       *)

\* Variants: the threshold is off by one; the check is missing.
IsConfiguredOffByOne(position) ==
  system_configured \/ (position > 0 /\ history[position].cur_cfg > 1)

IsConfiguredAtOnce(position) == position > 0

\* ops_snmpd_system_is_configured, whose answer TRUE is cached for ever.
IsConfigured(position) ==
  system_configured \/ (position > 0 /\ history[position].cur_cfg > 0)

\* snmp_run up to the call of snmp_reconfigure: ovsdb_idl_run brings the
\* replica up to date, if an update arrived, under a new sequence number.
\* Nothing else happens until the system has been configured.
SnmpRun ==
  /\ pc = "run"
  /\ \/ UNCHANGED <<idl, pending>>
     \/ /\ replica < Len(history) \/ pending # {}
        /\ replica' = Len(history)
        /\ idl_seqno' = idl_seqno + 1
        /\ changed_at' = [w \in Watched |->
                            IF w \in pending THEN idl_seqno + 1 ELSE changed_at[w]]
        /\ pending' = {}
  /\ system_configured' = IsConfigured(replica')
  /\ pc' = IF system_configured' /\ idl_seqno' # snmp_idl_seqno
             THEN "reconfigure" ELSE "run"
  /\ UNCHANGED <<history, faults, snmp_idl_seqno, files, lost>>

IsModified(w) == changed_at[w] > snmp_idl_seqno

\* Variant: deleted rows are not asked about.
ModifiedButForDeletions ==
  \/ /\ \E u \in Users : history[replica].users[u] # NoRow
     /\ \E w \in TableChanges \ {"rows_deleted"} : IsModified(w)
  \/ \E w \in ColumnChanges : IsModified(w)

\* The decision of snmp_reconfigure.  The row macros are reached through the
\* first row of the table only.
Modified ==
  \/ /\ \E u \in Users : history[replica].users[u] # NoRow
     /\ \E w \in TableChanges : IsModified(w)
  \/ \E w \in ColumnChanges : IsModified(w)

\* The back end of snmp_run: the change counts as processed, whatever
\* became of the file.
Processed ==
  /\ snmp_idl_seqno' = idl_seqno
  /\ pc' = "run"

\* snmp_reconfigure finds no System row, or nothing it watches changed.
SkipReconfigure ==
  /\ pc = "reconfigure"
  /\ replica = 0 \/ ~Modified
  /\ Processed
  /\ UNCHANGED <<database, idl, system_configured, files, lost>>

\* Variant: snmpd is restarted before the file is written.
OpenConfRestarting ==
  /\ pc = "reconfigure"
  /\ replica > 0 /\ Modified
  /\ pc' = "write"
  /\ conf' = Truncated
  /\ conf_of' = 0
  /\ agent' = conf'
  /\ agent_of' = conf_of'
  /\ short' = {}
  /\ UNCHANGED <<database, idl, snmp_idl_seqno, system_configured, lost>>

\* generate_snmpd_conf: fopen(..., "w") truncates the file, or fails.
OpenConf ==
  /\ pc = "reconfigure"
  /\ replica > 0 /\ Modified
  /\ pc' = "write"
  /\ conf' = Truncated
  /\ conf_of' = 0
  /\ short' = short \ {"conf"}
  /\ UNCHANGED <<database, idl, snmp_idl_seqno, system_configured, agent, agent_of, lost>>

\* fopen fails: the function logs and returns, and the change counts as processed.
OpenConfFails ==
  /\ pc = "reconfigure"
  /\ replica > 0 /\ Modified
  /\ Processed
  /\ lost' = TRUE
  /\ UNCHANGED <<database, idl, system_configured, files>>

\* All the fprintf calls and fclose.
WriteConf ==
  /\ pc = "write"
  /\ conf' = Rendered(history[replica])
  /\ conf_of' = replica
  /\ pc' = "restart"
  /\ UNCHANGED <<database, idl, snmp_idl_seqno, system_configured, agent, agent_of, short, lost>>

\* The disk fills up: nobody looks at what fprintf and fclose return.
WriteConfShort ==
  /\ pc = "write" /\ faults < MaxFaults
  /\ faults' = faults + 1
  /\ \E n \in 0 .. Len(SectionOrder) - 1 : conf' = Prefix(Rendered(history[replica]), n)
  /\ conf_of' = replica
  /\ short' = short \cup {"conf"}
  /\ pc' = "restart"
  /\ UNCHANGED <<history, pending, idl, snmp_idl_seqno, system_configured, agent, agent_of, lost>>

\* restart_snmpd: systemctl restarts the agent, which reads the file ...
RestartSnmpd ==
  /\ pc = "restart"
  /\ agent' = conf
  /\ agent_of' = conf_of
  /\ short' = IF "conf" \in short THEN {"conf", "agent"} ELSE {}
  /\ lost' = ("conf" \in short)
  /\ Processed
  /\ UNCHANGED <<database, idl, system_configured, conf, conf_of>>

\* ... or it does not; the status is at most logged.
RestartSnmpdFails ==
  /\ pc = "restart"
  /\ lost' = TRUE
  /\ Processed
  /\ UNCHANGED <<database, idl, system_configured, files>>

\* snmpd_ovsdb_init: a fresh replica and a fresh seqno.
OvsdbInit ==
  /\ replica' = 0
  /\ idl_seqno' = 0
  /\ changed_at' = [w \in Watched |-> 0]
  /\ snmp_idl_seqno' = 0
  /\ system_configured' = FALSE
  /\ pc' = "run"
  /\ lost' = FALSE
  /\ pending' = Watched

\* ops-snmpd stops at any point and is started again.  main() leaves without
\* waiting for this thread, so that it may stop half way through the file.
Restart ==
  /\ faults < MaxFaults
  /\ faults' = faults + 1
  /\ IF pc = "write"
       THEN \E n \in 0 .. Len(SectionOrder) :
              conf' = Prefix(Rendered(history[replica]), n)
       ELSE UNCHANGED conf
  /\ OvsdbInit
  /\ UNCHANGED <<history, conf_of, agent, agent_of, short>>

-----------------------------------------------------------------------------

Init ==
  /\ history \in {<<db>> : db \in Contents}
  /\ faults = 0
  /\ pending = Watched
  /\ replica = 0
  /\ idl_seqno = 0
  /\ changed_at = [w \in Watched |-> 0]
  /\ snmp_idl_seqno = 0
  /\ system_configured = FALSE
  /\ pc = "run"
  /\ conf = Truncated
  /\ conf_of = 0
  /\ agent = Truncated
  /\ agent_of = 0
  /\ short = {}
  /\ lost = FALSE

Clients ==
  \/ SystemConfigured
  \/ ConfigureCommunities
  \/ ConfigureOther
  \/ UpgradeVersion
  \/ AssignMac
  \/ ConfigureUser

Thread ==
  \/ SnmpRun
  \/ SkipReconfigure
  \/ OpenConf
  \/ OpenConfFails
  \/ WriteConf
  \/ WriteConfShort
  \/ RestartSnmpd
  \/ RestartSnmpdFails

Next == Clients \/ Reconnect \/ Thread \/ Restart

Spec == Init /\ [][Next]_vars

\* The thread is scheduled and OVSDB answers it; nothing is assumed of the
\* clients, of the faults, or of the outcome of fopen, fprintf and systemctl.
FairSpec == Spec /\ WF_vars(Thread)

-----------------------------------------------------------------------------
(* Properties.                                                             *)

TypeOK ==
  /\ history \in Seq(Contents) /\ Len(history) > 0
  /\ faults \in 0 .. MaxFaults
  /\ pending \subseteq Watched
  /\ replica \in 0 .. Len(history)
  /\ idl_seqno \in Nat
  /\ changed_at \in [Watched -> 0 .. idl_seqno]
  /\ snmp_idl_seqno \in 0 .. idl_seqno
  /\ system_configured \in BOOLEAN
  /\ pc \in {"run", "reconfigure", "write", "restart"}
  /\ DOMAIN conf = Sections /\ DOMAIN agent = Sections
  /\ conf_of \in 0 .. Len(history)
  /\ agent_of \in 0 .. Len(history)
  /\ short \subseteq {"conf", "agent"}
  /\ lost \in BOOLEAN

\* What snmpd runs with is, in every section, the rendering of one and the
\* same committed content, and of one in which the system was configured
\* ("Nothing to do until system has been configured"): a file cut short by
\* a stop of ops-snmpd, or mixed from two contents, is never loaded.  One cut
\* short by a full disk is, since nobody looks whether the lines were written;
\* what is left of it is still of one content.
AgentServesOneCommit ==
  IF agent_of = 0
    THEN agent = Truncated
    ELSE /\ history[agent_of].cur_cfg > 0
         /\ "agent" \notin short => agent = Rendered(history[agent_of])
         /\ \A s \in Sections : agent[s] \in {Rendered(history[agent_of])[s], {}}

\* The sections of the agent that the decision of snmp_reconfigure covers
\* say what db says.  A section is left out where the code does not look:
\* the users once the table is empty, and the engine ID.
Serves(db) ==
  /\ \A s \in {"agentAddress", "system", "rocommunity"} : agent[s] = Rendered(db)[s]
  /\ db.users # NoUsers => agent.rouser = UserLines(db.users)

\* Once every change is processed and the last regeneration succeeded, the
\* agent serves the replica: no change the code looks for is skipped by the
\* comparison of sequence numbers, not even one that arrived before the
\* system was configured, with other changes, or across a restart.
SettledAgentServesReplica ==
  pc = "run" /\ system_configured /\ snmp_idl_seqno = idl_seqno /\ ~lost
    => Serves(history[replica])

\* The configuration the clients committed last reaches the agent, unless a
\* regeneration failed or wrote less than the file: then nothing is promised
\* until the next change.
CommittedConfigIsServed == []<>(Latest.cur_cfg = 0 \/ lost \/ Serves(Latest))

\* The agent moves from commit to commit as ServedConfig says.
Served == INSTANCE ServedConfig WITH commits <- Len(history), served <- agent_of

AgentMovesForward == Served!Spec

\* A user whose row was deleted is not accepted by the agent once the
\* deletion is processed (the code asks for deleted rows to this end).
DeletedUserIsRefused ==
  pc = "run" /\ system_configured /\ snmp_idl_seqno = idl_seqno /\ ~lost
    => \A line \in agent.rouser : history[replica].users[line[1]] # NoRow
=============================================================================
