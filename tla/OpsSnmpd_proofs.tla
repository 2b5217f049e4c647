--------------------------- MODULE OpsSnmpd_proofs ---------------------------
(***************************************************************************)
(* Proofs about the process ops-snmpd: its OVSDB thread (SnmpdConf) for    *)
(* every set of communities, users and values and every bound - type       *)
(* correctness, the two safety invariants of the run, and that the thread  *)
(* implements ServedConfig - and its main() (Subagent) for every set of    *)
(* plugins and of signals: the handlers of plugins are called only while   *)
(* their libraries are loaded, and the OVSDB thread does not end under a   *)
(* subagent that goes on.                                                  *)
(***************************************************************************)
EXTENDS SnmpdConf, Subagent, TLAPS

\* A change of the user table between two contents is in the set marks.
UsersCovered(old, new, marks) ==
  old.users # new.users => \E w \in TableChanges : w \in marks

\* Every watched difference between two contents is in the set marks.
Covered(old, new, marks) ==
  /\ UsersCovered(old, new, marks)
  /\ old.snmp_communities # new.snmp_communities => "snmp_communities" \in marks
  /\ old.other_config # new.other_config => "other_config" \in marks
  /\ old.switch_version # new.switch_version => "switch_version" \in marks

\* What the IDL still has to deliver covers the distance to the database.
PendingCovers ==
  IF replica = 0 THEN pending = Watched
                 ELSE Covered(history[replica], Latest, pending)

\* A system that is configured stays configured.
ConfiguredForGood ==
  \A i, j \in 1 .. Len(history) : i <= j => history[i].cur_cfg <= history[j].cur_cfg

\* What the thread knows about its replica where it stands.
ThreadKnows ==
  /\ replica = 0 =>
       /\ snmp_idl_seqno = 0 /\ idl_seqno = 0 /\ pc = "run" /\ ~system_configured
  /\ system_configured => replica > 0 /\ history[replica].cur_cfg > 0
  /\ pc # "run" => system_configured
  /\ replica = 0 \/ agent_of <= replica

\* What the files hold.
FilesKnown ==
  /\ conf_of > 0 => /\ history[conf_of].cur_cfg > 0
                    /\ "conf" \notin short => conf = Rendered(history[conf_of])
                    /\ \A s \in Sections : conf[s] \in {Rendered(history[conf_of])[s], {}}
  /\ pc = "write" => conf_of = 0
  /\ pc = "restart" => conf_of = replica

\* The agent differs from the replica in a section only when a watched item
\* of the section changed after the last sequence number processed.
DifferencesAreNews ==
  replica > 0 /\ ~lost =>
    /\ agent.agentAddress # Rendered(history[replica]).agentAddress
         => IsModified("other_config")
    /\ agent.system # Rendered(history[replica]).system
         => IsModified("other_config") \/ IsModified("switch_version")
    /\ agent.rocommunity # Rendered(history[replica]).rocommunity
         => IsModified("snmp_communities")
    /\ history[replica].users # NoUsers /\ agent.rouser # UserLines(history[replica].users)
         => \E w \in TableChanges : IsModified(w)

IInv ==
  /\ TypeOK
  /\ PendingCovers
  /\ ConfiguredForGood
  /\ ThreadKnows
  /\ FilesKnown
  /\ AgentServesOneCommit
  /\ DifferencesAreNews

-----------------------------------------------------------------------------
(* Facts about the data.                                                   *)

\* The marks of a transaction cover the distance it makes.
LEMMA ChangedItemsCover ==
  ASSUME NEW old \in Contents, NEW new \in Contents
  PROVE  Covered(old, new, ChangedItems(old, new)) /\ ChangedItems(old, new) \subseteq Watched
<1>1. UsersCovered(old, new, ChangedItems(old, new))
  <2> SUFFICES ASSUME old.users # new.users
               PROVE  \E w \in TableChanges : RowsChanged(w, old.users, new.users)
    BY DEF UsersCovered, ChangedItems, TableChanges
  <2>1. PICK u \in Users : old.users[u] # new.users[u]
    BY DEF Contents, UserTable
  <2>2. CASE old.users[u] = NoRow
    BY <2>1, <2>2 DEF RowsChanged, TableChanges
  <2>3. CASE old.users[u] # NoRow /\ new.users[u] = NoRow
    BY <2>1, <2>3 DEF RowsChanged, TableChanges
  <2>4. CASE old.users[u] # NoRow /\ new.users[u] # NoRow
    BY <2>1, <2>4 DEF RowsChanged, TableChanges
  <2> QED BY <2>2, <2>3, <2>4
<1>2. ChangedItems(old, new) \subseteq Watched
  BY DEF ChangedItems, Watched, ColumnChanges
<1> QED BY <1>1, <1>2 DEF Covered, ChangedItems

\* Distances add up.
LEMMA CoveredTransitive ==
  ASSUME NEW a, NEW b, NEW c, NEW M, NEW N, Covered(a, b, M), Covered(b, c, N)
  PROVE  Covered(a, c, M \cup N)
BY DEF Covered, UsersCovered

\* The contents a client commits are contents, and a configured system
\* stays configured.
LEMMA ClientsCommit ==
  ASSUME TypeOK, Clients
  PROVE  \E new \in Contents : Commit(new) /\ new.cur_cfg >= Latest.cur_cfg
<1>1. Latest \in Contents
  BY DEF TypeOK, Latest
<1>2. CASE SystemConfigured
  BY <1>1, <1>2 DEF SystemConfigured, Contents
<1>3. CASE ConfigureCommunities
  BY <1>1, <1>3 DEF ConfigureCommunities, Contents
<1>4. CASE ConfigureOther
  BY <1>1, <1>4 DEF ConfigureOther, Contents
<1>5. CASE UpgradeVersion
  BY <1>1, <1>5 DEF UpgradeVersion, Contents
<1>6. CASE AssignMac
  BY <1>1, <1>6 DEF AssignMac, Contents
<1>7. CASE ConfigureUser
  BY <1>1, <1>7 DEF ConfigureUser, Contents, UserTable
<1> QED BY <1>2, <1>3, <1>4, <1>5, <1>6, <1>7 DEF Clients

-----------------------------------------------------------------------------
(* Every action preserves the inductive invariant.                         *)

LEMMA InitIInv == Init => IInv
<1> SUFFICES ASSUME Init PROVE IInv
  OBVIOUS
<1>1. PICK db \in Contents : history = <<db>>
  BY DEF Init
<1>2. history \in Seq(Contents) /\ Len(history) = 1
  BY <1>1
<1>3. TypeOK
  <2>1. changed_at \in [Watched -> 0 .. idl_seqno]
    BY DEF Init
  <2>2. DOMAIN conf = Sections /\ DOMAIN agent = Sections
    BY DEF Init, Truncated
  <2>3. faults \in 0 .. MaxFaults
    BY SnmpdConfAssumption DEF Init
  <2>4. /\ pending \subseteq Watched
        /\ replica \in 0 .. Len(history) /\ idl_seqno \in Nat /\ snmp_idl_seqno \in 0 .. idl_seqno
        /\ conf_of \in 0 .. Len(history) /\ agent_of \in 0 .. Len(history)
    BY <1>2 DEF Init
  <2>5. /\ system_configured \in BOOLEAN /\ lost \in BOOLEAN /\ short \subseteq {"conf", "agent"}
        /\ pc \in {"run", "reconfigure", "write", "restart"}
    BY DEF Init
  <2> QED BY <1>2, <2>1, <2>2, <2>3, <2>4, <2>5 DEF TypeOK
<1>4. ConfiguredForGood
  BY <1>1, <1>2 DEF ConfiguredForGood, Contents
<1> QED BY <1>3, <1>4 DEF Init, IInv, PendingCovers, ThreadKnows, FilesKnown,
                          AgentServesOneCommit, DifferencesAreNews

LEMMA CommitIInv ==
  ASSUME IInv, NEW new \in Contents, Commit(new), new.cur_cfg >= Latest.cur_cfg
  PROVE  IInv'
<1> USE DEF IInv
<1>1. /\ history' \in Seq(Contents)
      /\ Len(history') = Len(history) + 1
      /\ \A i \in 1 .. Len(history) : history'[i] = history[i]
      /\ history'[Len(history')] = new
      /\ Latest \in Contents
  BY DEF TypeOK, Commit, Latest
<1>2. /\ UNCHANGED <<faults, replica, idl_seqno, changed_at, snmp_idl_seqno>>
      /\ UNCHANGED <<system_configured, pc, conf, conf_of, agent, agent_of, short, lost>>
      /\ pending' = pending \cup ChangedItems(Latest, new)
  BY DEF Commit, idl, files
<1>3. Covered(Latest, new, ChangedItems(Latest, new)) /\ ChangedItems(Latest, new) \subseteq Watched
  BY <1>1, ChangedItemsCover
<1>4. TypeOK'
  <2>1. conf_of' \in 0 .. Len(history') /\ agent_of' \in 0 .. Len(history')
    BY <1>1, <1>2 DEF TypeOK
  <2>2. replica' \in 0 .. Len(history')
    BY <1>1, <1>2 DEF TypeOK
  <2>3. pending' \subseteq Watched
    BY <1>2, <1>3 DEF TypeOK
  <2> QED BY <1>1, <1>2, <2>1, <2>2, <2>3 DEF TypeOK
<1>5. PendingCovers'
  <2>1. CASE replica = 0
    BY <2>1, <1>2, <1>3 DEF PendingCovers
  <2>2. CASE replica # 0
    <3>1. Covered(history[replica], new, pending')
      BY <2>2, <1>2, <1>3, CoveredTransitive DEF PendingCovers
    <3>2. history'[replica'] = history[replica] /\ Latest' = new
      BY <2>2, <1>1, <1>2 DEF TypeOK, Latest
    <3> QED BY <3>1, <3>2, <2>2, <1>2 DEF PendingCovers
  <2> QED BY <2>1, <2>2
<1>6. ConfiguredForGood'
  <2> SUFFICES ASSUME NEW i \in 1 .. Len(history'), NEW j \in 1 .. Len(history'), i <= j
               PROVE  history'[i].cur_cfg <= history'[j].cur_cfg
    BY DEF ConfiguredForGood
  <2>1. CASE j <= Len(history)
    BY <2>1, <1>1 DEF ConfiguredForGood, TypeOK
  <2>2. CASE j = Len(history) + 1 /\ i = j
    BY <2>2, <1>1 DEF Contents
  <2>3. CASE j = Len(history) + 1 /\ i # j
    <3>1. history[i].cur_cfg <= Latest.cur_cfg
      BY <2>3, <1>1 DEF ConfiguredForGood, Latest, TypeOK
    <3>2. history[i] \in Contents
      BY <2>3, <1>1 DEF TypeOK
    <3>3. history[i].cur_cfg \in Nat /\ Latest.cur_cfg \in Nat /\ new.cur_cfg \in Nat
      BY <3>2, <1>1 DEF Contents
    <3> QED BY <3>1, <3>3, <2>3, <1>1
  <2> QED BY <2>1, <2>2, <2>3, <1>1
<1>7. ThreadKnows'
  BY <1>1, <1>2 DEF ThreadKnows, TypeOK
<1>8. FilesKnown'
  BY <1>1, <1>2 DEF FilesKnown, TypeOK
<1>9. AgentServesOneCommit'
  BY <1>1, <1>2 DEF AgentServesOneCommit, TypeOK
<1>10. DifferencesAreNews'
  <2>1. replica > 0 => history'[replica'] = history[replica]
    BY <1>1, <1>2 DEF TypeOK
  <2> QED BY <2>1, <1>2 DEF DifferencesAreNews, IsModified
<1> QED BY <1>4, <1>5, <1>6, <1>7, <1>8, <1>9, <1>10

LEMMA ReconnectIInv ==
  ASSUME IInv, Reconnect
  PROVE  IInv'
<1>1. /\ UNCHANGED <<history, replica, idl_seqno, changed_at, snmp_idl_seqno>>
      /\ UNCHANGED <<system_configured, pc, conf, conf_of, agent, agent_of, short, lost>>
      /\ pending' = Watched
      /\ faults' = faults + 1 /\ faults < MaxFaults
  BY DEF Reconnect, idl, files
<1>2. TypeOK'
  BY <1>1, SnmpdConfAssumption DEF IInv, TypeOK
<1>3. PendingCovers'
  BY <1>1 DEF IInv, PendingCovers, Covered, UsersCovered, Latest, Watched, ColumnChanges,
              TableChanges
<1>4. ConfiguredForGood' /\ ThreadKnows' /\ FilesKnown' /\ AgentServesOneCommit'
  BY <1>1 DEF IInv, ConfiguredForGood, ThreadKnows, FilesKnown, AgentServesOneCommit
<1>5. DifferencesAreNews'
  BY <1>1 DEF IInv, DifferencesAreNews, IsModified
<1> QED BY <1>2, <1>3, <1>4, <1>5 DEF IInv

LEMMA SnmpRunIInv ==
  ASSUME IInv, SnmpRun
  PROVE  IInv'
<1> USE DEF IInv
<1>1. /\ UNCHANGED <<history, faults, snmp_idl_seqno, conf, conf_of, agent, agent_of, short, lost>>
      /\ pc = "run" /\ pc' \in {"run", "reconfigure"}
      /\ system_configured' = IsConfigured(replica')
      /\ pc' = "reconfigure" => system_configured'
  BY DEF SnmpRun, files
<1>2. system_configured' \in BOOLEAN
  BY <1>1 DEF IsConfigured, TypeOK
<1>3. CASE UNCHANGED <<idl, pending>>
  <2>1. UNCHANGED <<replica, idl_seqno, changed_at, pending>>
    BY <1>3 DEF idl
  <2>2. TypeOK'
    BY <1>1, <1>2, <2>1 DEF TypeOK
  <2>3. PendingCovers' /\ ConfiguredForGood' /\ AgentServesOneCommit'
    BY <1>1, <2>1 DEF PendingCovers, ConfiguredForGood, AgentServesOneCommit, Latest
  <2>4. replica = 0 => ~system_configured' /\ pc' = "run"
    <3> SUFFICES ASSUME replica = 0 PROVE ~system_configured' /\ pc' = "run"
      OBVIOUS
    <3>1. ~IsConfigured(replica')
      BY <2>1 DEF IsConfigured, ThreadKnows
    <3> QED BY <3>1, <1>1
  <2>5. ThreadKnows'
    BY <1>1, <2>1, <2>4 DEF ThreadKnows, IsConfigured, TypeOK
  <2>6. FilesKnown' /\ DifferencesAreNews'
    BY <1>1, <2>1 DEF FilesKnown, DifferencesAreNews, IsModified
  <2> QED BY <2>2, <2>3, <2>5, <2>6
<1>4. CASE ~ UNCHANGED <<idl, pending>>
  <2>1. /\ replica' = Len(history)
        /\ idl_seqno' = idl_seqno + 1
        /\ changed_at' = [w \in Watched |->
                            IF w \in pending THEN idl_seqno + 1 ELSE changed_at[w]]
        /\ pending' = {}
    BY <1>4 DEF SnmpRun
  <2>2. Len(history) \in Nat /\ Len(history) > 0 /\ history[Len(history)] \in Contents
    BY DEF TypeOK
  <2>3. TypeOK'
    <3>1. changed_at' \in [Watched -> 0 .. idl_seqno']
      BY <2>1 DEF TypeOK
    <3>2. snmp_idl_seqno' \in 0 .. idl_seqno' /\ idl_seqno' \in Nat
      BY <1>1, <2>1 DEF TypeOK
    <3> QED BY <1>1, <1>2, <2>1, <2>2, <3>1, <3>2 DEF TypeOK
  <2>4. PendingCovers'
    BY <1>1, <2>1, <2>2 DEF PendingCovers, Covered, UsersCovered, Latest
  <2>5. ConfiguredForGood' /\ AgentServesOneCommit'
    BY <1>1 DEF ConfiguredForGood, AgentServesOneCommit
  <2>6. system_configured' => history[replica'].cur_cfg > 0
    <3>1. CASE system_configured
      <4>1. replica \in 1 .. Len(history) /\ history[replica].cur_cfg > 0
        BY <3>1 DEF ThreadKnows, TypeOK
      <4>2. history[replica].cur_cfg <= history[Len(history)].cur_cfg
        BY <4>1, <2>2 DEF ConfiguredForGood
      <4>3. history[replica].cur_cfg \in Nat /\ history[Len(history)].cur_cfg \in Nat
        <5>1. history[replica] \in Contents
          BY <4>1 DEF TypeOK
        <5> QED BY <5>1, <2>2 DEF Contents
      <4>4. history[Len(history)].cur_cfg > 0
        BY <4>1, <4>2, <4>3
      <4> QED BY <4>4, <2>1
    <3>2. CASE ~system_configured
      BY <3>2, <1>1 DEF IsConfigured
    <3> QED BY <3>1, <3>2
  <2>7. ThreadKnows'
    BY <1>1, <2>1, <2>2, <2>6 DEF ThreadKnows, TypeOK
  <2>8. FilesKnown'
    BY <1>1 DEF FilesKnown
  <2>9. \A w \in Watched : /\ w \in pending => IsModified(w)'
                           /\ IsModified(w) => IsModified(w)'
    BY <1>1, <2>1 DEF IsModified, TypeOK
  <2>10. DifferencesAreNews'
    <3> SUFFICES ASSUME ~lost PROVE DifferencesAreNews'
      BY <1>1 DEF DifferencesAreNews
    <3>1. CASE replica = 0
      <4>1. pending = Watched
        BY <3>1 DEF PendingCovers
      <4> QED BY <4>1, <2>9 DEF DifferencesAreNews, Watched, TableChanges, ColumnChanges
    <3>2. CASE replica # 0
      <4>1. Covered(history[replica], history[replica'], pending) /\ replica > 0
        BY <3>2, <2>1 DEF PendingCovers, Latest, TypeOK
      <4>2. TableChanges \subseteq Watched /\ ColumnChanges \subseteq Watched
        BY DEF Watched
      <4>3. agent.agentAddress # Rendered(history[replica']).agentAddress
              => IsModified("other_config")'
        BY <4>1, <4>2, <2>9 DEF DifferencesAreNews, Covered, Rendered, Setting, ColumnChanges
      <4>4. agent.system # Rendered(history[replica']).system
              => IsModified("other_config")' \/ IsModified("switch_version")'
        BY <4>1, <4>2, <2>9 DEF DifferencesAreNews, Covered, Rendered, Setting, ColumnChanges
      <4>5. agent.rocommunity # Rendered(history[replica']).rocommunity
              => IsModified("snmp_communities")'
        BY <4>1, <4>2, <2>9 DEF DifferencesAreNews, Covered, Rendered, ColumnChanges
      <4>6. history[replica'].users # NoUsers /\ agent.rouser # UserLines(history[replica'].users)
              => \E w \in TableChanges : IsModified(w)'
        BY <4>1, <4>2, <2>9 DEF DifferencesAreNews, Covered, UsersCovered
      <4> QED BY <1>1, <4>3, <4>4, <4>5, <4>6 DEF DifferencesAreNews
    <3> QED BY <3>1, <3>2
  <2> QED BY <2>3, <2>4, <2>5, <2>7, <2>8, <2>10
<1> QED BY <1>3, <1>4

\* When nothing is modified, the agent serves the replica already.
LEMMA UnmodifiedIsServed ==
  ASSUME TypeOK, DifferencesAreNews, replica > 0, ~lost, ~Modified
  PROVE  Serves(history[replica])
<1>1. history[replica] \in Contents
  BY DEF TypeOK
<1>2. history[replica].users # NoUsers => \E u \in Users : history[replica].users[u] # NoRow
  BY <1>1 DEF Contents, UserTable, NoUsers
<1>3. \A w \in ColumnChanges : ~IsModified(w)
  BY DEF Modified
<1>4. history[replica].users # NoUsers => agent.rouser = UserLines(history[replica].users)
  BY <1>2 DEF Modified, DifferencesAreNews
<1> QED BY <1>3, <1>4 DEF Serves, DifferencesAreNews, ColumnChanges

LEMMA SkipReconfigureIInv ==
  ASSUME IInv, SkipReconfigure
  PROVE  IInv'
<1> USE DEF IInv
<1>1. /\ UNCHANGED <<history, faults, pending, replica, idl_seqno, changed_at>>
      /\ UNCHANGED <<system_configured, conf, conf_of, agent, agent_of, short, lost>>
      /\ snmp_idl_seqno' = idl_seqno /\ pc = "reconfigure" /\ pc' = "run"
  BY DEF SkipReconfigure, Processed, database, idl, files
<1>2. system_configured /\ replica > 0 /\ ~Modified
  BY <1>1 DEF ThreadKnows, SkipReconfigure, TypeOK
<1>3. TypeOK'
  BY <1>1 DEF TypeOK
<1>4. PendingCovers' /\ ConfiguredForGood' /\ AgentServesOneCommit' /\ FilesKnown'
  BY <1>1 DEF PendingCovers, ConfiguredForGood, AgentServesOneCommit, FilesKnown, Latest
<1>5. ThreadKnows'
  BY <1>1, <1>2 DEF ThreadKnows
<1>6. DifferencesAreNews'
  <2> SUFFICES ASSUME ~lost PROVE DifferencesAreNews'
    BY <1>1 DEF DifferencesAreNews
  <2>1. Serves(history[replica])
    BY <1>2, UnmodifiedIsServed
  <2> QED BY <2>1, <1>1 DEF Serves, DifferencesAreNews
<1> QED BY <1>3, <1>4, <1>5, <1>6

LEMMA OpenConfIInv ==
  ASSUME IInv, OpenConf \/ OpenConfFails
  PROVE  IInv'
<1> USE DEF IInv
<1>1. /\ UNCHANGED <<history, faults, pending, replica, idl_seqno, changed_at>>
      /\ UNCHANGED <<system_configured, agent, agent_of>>
      /\ pc = "reconfigure" /\ replica > 0
  BY DEF OpenConf, OpenConfFails, database, idl, files
<1>2. \/ /\ pc' = "write" /\ conf' = Truncated /\ conf_of' = 0
         /\ short' = short \ {"conf"} /\ UNCHANGED <<snmp_idl_seqno, lost>>
      \/ /\ pc' = "run" /\ lost' = TRUE /\ snmp_idl_seqno' = idl_seqno
         /\ UNCHANGED <<conf, conf_of, short>>
  BY DEF OpenConf, OpenConfFails, Processed, files
<1>3. TypeOK'
  <2>1. DOMAIN conf' = Sections /\ conf_of' \in 0 .. Len(history)
    BY <1>2 DEF TypeOK, Truncated
  <2>2. snmp_idl_seqno' \in 0 .. idl_seqno
    BY <1>2 DEF TypeOK
  <2>3. short' \subseteq {"conf", "agent"}
    BY <1>2 DEF TypeOK
  <2>4. lost' \in BOOLEAN /\ pc' \in {"run", "reconfigure", "write", "restart"}
    BY <1>2, Zenon DEF TypeOK
  <2> QED BY <1>1, <2>1, <2>2, <2>3, <2>4 DEF TypeOK
<1>4. "agent" \in short' <=> "agent" \in short
  BY <1>2
<1>5. PendingCovers' /\ ConfiguredForGood' /\ AgentServesOneCommit'
  BY <1>1, <1>4 DEF PendingCovers, ConfiguredForGood, AgentServesOneCommit, Latest
<1>6. FilesKnown'
  BY <1>1, <1>2 DEF FilesKnown
<1>7. ThreadKnows'
  BY <1>1, <1>2 DEF ThreadKnows
<1>8. DifferencesAreNews'
  BY <1>1, <1>2 DEF DifferencesAreNews, IsModified
<1> QED BY <1>3, <1>5, <1>6, <1>7, <1>8

LEMMA WriteConfIInv ==
  ASSUME IInv, WriteConf \/ WriteConfShort
  PROVE  IInv'
<1> USE DEF IInv
<1>1. /\ UNCHANGED <<history, pending, replica, idl_seqno, changed_at>>
      /\ UNCHANGED <<snmp_idl_seqno, system_configured, agent, agent_of, lost>>
      /\ pc = "write" /\ pc' = "restart" /\ conf_of' = replica
  BY DEF WriteConf, WriteConfShort, database, idl
<1>2. system_configured /\ replica > 0 /\ history[replica].cur_cfg > 0
  BY <1>1 DEF ThreadKnows
<1>3. \/ conf' = Rendered(history[replica]) /\ UNCHANGED <<faults, short>>
      \/ /\ \E n \in 0 .. Len(SectionOrder) - 1 : conf' = Prefix(Rendered(history[replica]), n)
         /\ short' = short \cup {"conf"} /\ faults < MaxFaults /\ faults' = faults + 1
  BY DEF WriteConf, WriteConfShort, database
<1>4. /\ DOMAIN conf' = Sections
      /\ "conf" \notin short' => conf' = Rendered(history[replica])
      /\ \A s \in Sections : conf'[s] \in {Rendered(history[replica])[s], {}}
  <2>1. CASE conf' = Rendered(history[replica])
    BY <2>1 DEF Rendered, Sections
  <2>2. ASSUME NEW n \in 0 .. Len(SectionOrder) - 1, conf' = Prefix(Rendered(history[replica]), n)
        PROVE  DOMAIN conf' = Sections /\ \A s \in Sections : conf'[s] \in {Rendered(history[replica])[s], {}}
    BY <2>2 DEF Prefix
  <2> QED BY <1>3, <2>1, <2>2
<1>5. faults' \in 0 .. MaxFaults /\ short' \subseteq {"conf", "agent"}
  <2>1. faults' = faults \/ (faults < MaxFaults /\ faults' = faults + 1)
    BY <1>3
  <2>2. faults \in 0 .. MaxFaults /\ short \subseteq {"conf", "agent"}
    BY DEF TypeOK
  <2>3. short' \subseteq {"conf", "agent"}
    BY <1>3, <2>2
  <2> QED BY <2>1, <2>2, <2>3, SnmpdConfAssumption
<1>6. "agent" \in short' <=> "agent" \in short
  BY <1>3
<1>7. TypeOK'
  BY <1>1, <1>4, <1>5 DEF TypeOK
<1>8. PendingCovers' /\ ConfiguredForGood' /\ AgentServesOneCommit'
  BY <1>1, <1>6 DEF PendingCovers, ConfiguredForGood, AgentServesOneCommit, Latest
<1>9. FilesKnown'
  BY <1>1, <1>2, <1>4 DEF FilesKnown
<1>10. ThreadKnows' /\ DifferencesAreNews'
  BY <1>1, <1>2 DEF ThreadKnows, DifferencesAreNews, IsModified
<1> QED BY <1>7, <1>8, <1>9, <1>10

LEMMA RestartSnmpdIInv ==
  ASSUME IInv, RestartSnmpd \/ RestartSnmpdFails
  PROVE  IInv'
<1> USE DEF IInv
<1>1. /\ UNCHANGED <<history, faults, pending, replica, idl_seqno, changed_at>>
      /\ UNCHANGED <<system_configured, conf, conf_of>>
      /\ pc = "restart" /\ pc' = "run" /\ snmp_idl_seqno' = idl_seqno
  BY DEF RestartSnmpd, RestartSnmpdFails, Processed, database, idl, files
<1>2. /\ system_configured /\ replica > 0 /\ conf_of = replica /\ history[replica].cur_cfg > 0
      /\ "conf" \notin short => conf = Rendered(history[replica])
      /\ \A s \in Sections : conf[s] \in {Rendered(history[replica])[s], {}}
  BY <1>1 DEF ThreadKnows, FilesKnown
<1>3. \/ /\ agent' = conf /\ agent_of' = replica
         /\ short' = (IF "conf" \in short THEN {"conf", "agent"} ELSE {})
         /\ lost' = ("conf" \in short)
      \/ UNCHANGED <<agent, agent_of, short>> /\ lost' = TRUE
  BY <1>2 DEF RestartSnmpd, RestartSnmpdFails, files
<1>4. TypeOK'
  <2>1. DOMAIN agent' = Sections /\ agent_of' \in 0 .. Len(history)
    BY <1>3 DEF TypeOK
  <2>2. lost' \in BOOLEAN
    <3>1. ("conf" \in short) \in BOOLEAN /\ TRUE \in BOOLEAN
      OBVIOUS
    <3> QED BY <1>3, <3>1, Zenon
  <2>3. short' \subseteq {"conf", "agent"}
    BY <1>3 DEF TypeOK
  <2> QED BY <1>1, <2>1, <2>2, <2>3 DEF TypeOK
<1>5. PendingCovers' /\ ConfiguredForGood'
  BY <1>1 DEF PendingCovers, ConfiguredForGood, Latest
<1>6. AgentServesOneCommit'
  BY <1>1, <1>2, <1>3 DEF AgentServesOneCommit
<1>7. ThreadKnows' /\ FilesKnown'
  <2>1. "conf" \in short' <=> "conf" \in short
    BY <1>3
  <2> QED BY <1>1, <1>2, <1>3, <2>1 DEF ThreadKnows, FilesKnown, TypeOK
<1>8. Rendered(history[replica]).rouser = UserLines(history[replica].users)
  BY DEF Rendered
<1>9. DifferencesAreNews'
  BY <1>1, <1>2, <1>3, <1>8 DEF DifferencesAreNews
<1> QED BY <1>4, <1>5, <1>6, <1>7, <1>9

LEMMA RestartIInv ==
  ASSUME IInv, Restart
  PROVE  IInv'
<1> USE DEF IInv
<1>1. /\ UNCHANGED <<history, conf_of, agent, agent_of, short>>
      /\ faults < MaxFaults /\ faults' = faults + 1
      /\ replica' = 0 /\ idl_seqno' = 0 /\ snmp_idl_seqno' = 0 /\ pending' = Watched
      /\ changed_at' = [w \in Watched |-> 0]
      /\ system_configured' = FALSE /\ pc' = "run" /\ lost' = FALSE
  BY DEF Restart, OvsdbInit
<1>2. DOMAIN conf' = Sections /\ (pc # "write" => conf' = conf)
  BY DEF Restart, Prefix, TypeOK
<1>3. TypeOK'
  <2>1. changed_at' \in [Watched -> 0 .. idl_seqno']
    BY <1>1
  <2>2. faults' \in 0 .. MaxFaults
    BY <1>1, SnmpdConfAssumption DEF TypeOK
  <2>3. /\ pending' \subseteq Watched
        /\ replica' \in 0 .. Len(history) /\ idl_seqno' \in Nat /\ snmp_idl_seqno' \in 0 .. idl_seqno'
    BY <1>1 DEF TypeOK
  <2> QED BY <1>1, <1>2, <2>1, <2>2, <2>3 DEF TypeOK
<1>4. PendingCovers' /\ ConfiguredForGood' /\ AgentServesOneCommit'
  BY <1>1 DEF PendingCovers, ConfiguredForGood, AgentServesOneCommit
<1>5. ThreadKnows' /\ DifferencesAreNews'
  BY <1>1 DEF ThreadKnows, DifferencesAreNews
<1>6. pc = "write" => conf_of = 0
  BY DEF FilesKnown
<1>7. FilesKnown'
  BY <1>1, <1>2, <1>6 DEF FilesKnown
<1> QED BY <1>3, <1>4, <1>5, <1>7
LEMMA NextIInv == IInv /\ [Next]_vars => IInv'
<1> SUFFICES ASSUME IInv, [Next]_vars PROVE IInv'
  OBVIOUS
<1>1. CASE Clients
  <2>1. PICK new \in Contents : Commit(new) /\ new.cur_cfg >= Latest.cur_cfg
    BY <1>1, ClientsCommit DEF IInv
  <2> QED BY <2>1, CommitIInv
<1>2. CASE Reconnect
  BY <1>2, ReconnectIInv
<1>3. CASE Thread
  BY <1>3, SnmpRunIInv, SkipReconfigureIInv, OpenConfIInv, WriteConfIInv, RestartSnmpdIInv
  DEF Thread
<1>4. CASE Restart
  BY <1>4, RestartIInv
<1>5. CASE UNCHANGED vars
  BY <1>5 DEF vars, database, idl, files, IInv, TypeOK, PendingCovers, Latest, ConfiguredForGood,
              ThreadKnows, FilesKnown, AgentServesOneCommit, DifferencesAreNews, IsModified
<1> QED BY <1>1, <1>2, <1>3, <1>4, <1>5 DEF Next

-----------------------------------------------------------------------------
(* The theorems.                                                           *)

\* The inductive invariant holds in every reachable state: each part of the
\* OVSDB thread's loop (snmp_run and what it calls) re-establishes it.
THEOREM Invariant == Spec => []IInv
<1> QED BY InitIInv, NextIInv, PTL DEF Spec

\* The state of the OVSDB thread is well typed: the sequence number it
\* processed last and those of the columns never run ahead of the IDL's.
THEOREM TypeCorrect == Spec => []TypeOK
<1>1. IInv => TypeOK
  BY DEF IInv
<1> QED BY <1>1, Invariant, PTL

\* Whatever the agent runs with was rendered by generate_snmpd_conf from one
\* committed content of a configured system, over stops and restarts, and all
\* of it is there unless a full disk has cut the file short.
THEOREM OneCommit == Spec => []AgentServesOneCommit
<1>1. IInv => AgentServesOneCommit
  BY DEF IInv
<1> QED BY <1>1, Invariant, PTL

\* Comparing sequence numbers, as snmp_run and snmp_reconfigure do, loses no
\* change of what snmp_reconfigure looks at, whatever the clients commit.
THEOREM SettledServes == Spec => []SettledAgentServesReplica
<1>1. IInv => SettledAgentServesReplica
  <2> SUFFICES ASSUME IInv, system_configured, snmp_idl_seqno = idl_seqno, ~lost
               PROVE  Serves(history[replica])
    BY DEF SettledAgentServesReplica
  <2>1. \A w \in Watched : ~IsModified(w)
    BY DEF IInv, TypeOK, IsModified
  <2>2. replica > 0
    BY DEF IInv, ThreadKnows
  <2>3. TableChanges \subseteq Watched /\ ColumnChanges \subseteq Watched
    BY DEF Watched
  <2>4. ~Modified
    BY <2>1, <2>3 DEF Modified
  <2> QED BY <2>2, <2>4, UnmodifiedIsServed DEF IInv
<1> QED BY <1>1, Invariant, PTL

\* Initial states of the thread are initial states of ServedConfig.
LEMMA ServedInit == Init => Served!Init
BY DEF Init, Served!Init

\* A step of the system commits, makes the agent serve a later commit, or
\* changes neither: the agent loads the file generated from the replica,
\* which is never older than what it serves.
LEMMA ServedNext == IInv /\ [Next]_vars => [Served!Next]_<<Len(history), agent_of>>
<1> SUFFICES ASSUME IInv, [Next]_vars PROVE [Served!Next]_<<Len(history), agent_of>>
  OBVIOUS
<1> USE DEF IInv
<1>1. CASE Clients
  <2>1. PICK new \in Contents : Commit(new)
    BY <1>1, ClientsCommit
  <2>2. Len(history') = Len(history) + 1 /\ agent_of' = agent_of
    BY <2>1 DEF Commit, files, TypeOK
  <2> QED BY <2>2 DEF Served!Next, Served!Commit
<1>2. CASE RestartSnmpd
  <2>1. /\ agent_of' = replica /\ history' = history
        /\ replica \in 0 .. Len(history) /\ agent_of \in 0 .. Len(history)
        /\ replica = 0 \/ agent_of <= replica
    BY <1>2 DEF RestartSnmpd, database, FilesKnown, ThreadKnows, TypeOK
  <2>2. replica # 0
    BY <1>2 DEF RestartSnmpd, ThreadKnows
  <2>3. agent_of' = agent_of \/ agent_of' \in (agent_of + 1) .. Len(history)
    BY <2>1, <2>2
  <2> QED BY <2>1, <2>3 DEF Served!Next, Served!Serve
<1>3. CASE UNCHANGED <<history, agent_of>>
  BY <1>3
<1>4. CASE Thread /\ ~RestartSnmpd
  BY <1>4, <1>3 DEF Thread, SnmpRun, SkipReconfigure, OpenConf, OpenConfFails, WriteConf,
                    WriteConfShort, RestartSnmpdFails, database, files
<1>5. CASE Reconnect \/ Restart \/ UNCHANGED vars
  BY <1>5, <1>3 DEF Reconnect, Restart, vars, database, files
<1> QED BY <1>1, <1>2, <1>4, <1>5 DEF Next

\* The OVSDB thread implements ServedConfig: the agent moves from commit to
\* commit in the order of the database, never back to an older one.
THEOREM MovesForward == Spec => AgentMovesForward
<1> QED BY ServedInit, ServedNext, Invariant, PTL DEF Spec, AgentMovesForward, Served!Spec

-----------------------------------------------------------------------------
(* main() and the plugins.                                                 *)

\* Before main() has entered its loop.
Starting == {"init", "plugins", "create", "enable"}

\* Libraries are unloaded only after the last request.
Resident == main \notin {"shutdown", "exited"} => registered \subseteq resident

\* What starts when: the thread after the plugins, the handlers after the thread.
StartedInOrder ==
  /\ main \in {"init", "plugins", "create"} => thread = "none"
  /\ main \in Starting => handled = {}

\* What an exit command leaves: exiting is set once the thread runs, with
\* keep_running FALSE, and keep_running is set again only by an enable after it.
ExitIsKept ==
  /\ thread \in {"none", "start"} => ~exiting
  /\ thread = "ended" => exiting
  /\ exiting /\ (keep_running \/ main = "enable") => stop = "early"

\* Nothing attaches a plugin_class to its handle, so no ops_snmp_destroy is called.
NothingAttached == caller_data = {}

SubagentIInv == SubagentTypeOK /\ NothingAttached /\ Resident /\ StartedInOrder /\ ExitIsKept

-----------------------------------------------------------------------------

LEMMA SubagentInitIInv == SubagentInit => SubagentIInv
BY DEF SubagentInit, SubagentIInv, SubagentTypeOK, NothingAttached, Resident, StartedInOrder,
       ExitIsKept, Starting

\* The types, one action at a time.
LEMMA SubagentTypesKept ==
  ASSUME SubagentTypeOK, NothingAttached, [SubagentNext]_subagent_vars
  PROVE  SubagentTypeOK' /\ NothingAttached'
<1> USE DEF plugin_vars, stop_vars
<1>1. CASE Main
  <2> USE DEF SubagentTypeOK, NothingAttached
  <2>1. CASE BeginPlugins \/ SkipPlugins \/ PluginsDone \/ CreateThread \/ CreateThreadFails
    BY <2>1 DEF BeginPlugins, SkipPlugins, PluginsDone, CreateThread, CreateThreadFails
  <2>2. CASE \E p \in Plugins : RefusedPlugin(p) \/ OpenPlugin(p)
    BY <2>2 DEF RefusedPlugin, OpenPlugin
  <2>3. CASE Enable
    BY <2>3 DEF Enable
  <2>4. CASE \E sig \in Signals : InstallHandler(sig)
    BY <2>4 DEF InstallHandler
  <2>5. CASE CheckAndProcess \/ RequestsProcessed \/ LeaveLoop \/ Shutdown
    BY <2>5 DEF CheckAndProcess, RequestsProcessed, LeaveLoop, Shutdown
  <2>6. CASE DestroyPlugins
    BY <2>6 DEF DestroyPlugins
  <2>7. QED
    BY <1>1, <2>1, <2>2, <2>3, <2>4, <2>5, <2>6 DEF Main
<1>2. CASE OvsdbThread
  BY <1>2 DEF SubagentTypeOK, NothingAttached, OvsdbThread, StartThread, RunAndBlock, Wake, AnswerExit,
              EndThread
<1>3. CASE Outside
  BY <1>3 DEF SubagentTypeOK, NothingAttached, Outside, AskExit, Signal
<1>4. CASE UNCHANGED subagent_vars
  BY <1>4 DEF SubagentTypeOK, NothingAttached, subagent_vars
<1>5. QED
  BY <1>1, <1>2, <1>3, <1>4 DEF SubagentNext

\* The strengthening of both invariants is inductive.
LEMMA SubagentStep ==
  ASSUME SubagentIInv, [SubagentNext]_subagent_vars
  PROVE  SubagentIInv'
<1> USE DEF plugin_vars, stop_vars
<1>1. SubagentTypeOK' /\ NothingAttached'
  BY SubagentTypesKept DEF SubagentIInv
<1>2. Resident'
  <2> USE DEF SubagentIInv, SubagentTypeOK, Resident
  <2>1. CASE Main
    <3>1. CASE \E p \in Plugins : RefusedPlugin(p) \/ OpenPlugin(p)
      BY <3>1 DEF RefusedPlugin, OpenPlugin
    <3>2. CASE ~\E p \in Plugins : RefusedPlugin(p) \/ OpenPlugin(p)
      BY <2>1, <3>2 DEF Main, BeginPlugins, SkipPlugins, PluginsDone, CreateThread, CreateThreadFails,
                        Enable, InstallHandler, CheckAndProcess, RequestsProcessed, LeaveLoop,
                        DestroyPlugins, Shutdown
    <3>3. QED
      BY <3>1, <3>2
  <2>2. CASE OvsdbThread
    BY <2>2 DEF OvsdbThread, StartThread, RunAndBlock, Wake, AnswerExit, EndThread
  <2>3. CASE Outside
    BY <2>3 DEF Outside, AskExit, Signal
  <2>4. CASE UNCHANGED subagent_vars
    BY <2>4 DEF subagent_vars
  <2>5. QED
    BY <2>1, <2>2, <2>3, <2>4 DEF SubagentNext
<1>3. StartedInOrder'
  <2> USE DEF SubagentIInv, SubagentTypeOK, StartedInOrder, Starting
  <2>1. CASE Main
    BY <2>1 DEF Main, BeginPlugins, SkipPlugins, PluginsDone, RefusedPlugin, OpenPlugin, CreateThread,
                CreateThreadFails, Enable, InstallHandler, CheckAndProcess, RequestsProcessed, LeaveLoop,
                DestroyPlugins, Shutdown
  <2>2. CASE OvsdbThread
    BY <2>2 DEF OvsdbThread, Alive, StartThread, RunAndBlock, Wake, AnswerExit, EndThread
  <2>3. CASE Outside
    BY <2>3 DEF Outside, AskExit, Signal
  <2>4. CASE UNCHANGED subagent_vars
    BY <2>4 DEF subagent_vars
  <2>5. QED
    BY <2>1, <2>2, <2>3, <2>4 DEF SubagentNext
<1>4. ExitIsKept'
  <2> USE DEF SubagentIInv, SubagentTypeOK, StartedInOrder, Starting, ExitIsKept
  <2>1. CASE Main
    BY <2>1 DEF Main, BeginPlugins, SkipPlugins, PluginsDone, RefusedPlugin, OpenPlugin, CreateThread,
                CreateThreadFails, Enable, InstallHandler, CheckAndProcess, RequestsProcessed, LeaveLoop,
                DestroyPlugins, Shutdown
  <2>2. CASE OvsdbThread
    BY <2>2 DEF OvsdbThread, Alive, StartThread, RunAndBlock, Wake, AnswerExit, EndThread
  <2>3. CASE Outside
    BY <2>3 DEF Outside, AskExit, Signal
  <2>4. CASE UNCHANGED subagent_vars
    BY <2>4 DEF subagent_vars
  <2>5. QED
    BY <2>1, <2>2, <2>3, <2>4 DEF SubagentNext
<1>5. QED
  BY <1>1, <1>2, <1>3, <1>4 DEF SubagentIInv

LEMMA SubagentAlways == SubagentSpec => []SubagentIInv
<1>1. SubagentIInv /\ [SubagentNext]_subagent_vars => SubagentIInv'
  BY SubagentStep
<1>2. QED
  BY SubagentInitIInv, <1>1, PTL DEF SubagentSpec

-----------------------------------------------------------------------------

\* Every state of the subagent is typed: in particular a plugin has its library
\* loaded when it has a class attached, and was initialised when it is destroyed.
THEOREM SubagentTyped == SubagentSpec => []SubagentTypeOK
<1>1. SubagentIInv => SubagentTypeOK
  BY DEF SubagentIInv
<1>2. QED
  BY SubagentAlways, <1>1, PTL

\* A handler is called only while the library it lives in is loaded, for any
\* number of plugins and whichever of them are refused.
THEOREM HandlersResident == SubagentSpec => []HandlersAreResident
<1>1. SubagentIInv => HandlersAreResident
  BY DEF SubagentIInv, Resident, HandlersAreResident
<1>2. QED
  BY SubagentAlways, <1>1, PTL

\* Whenever the exit command is answered and whatever signals arrive, the thread
\* does not end under a subagent that goes on, unless main() had not set
\* keep_running yet.
THEOREM ThreadEnds == SubagentSpec => []ThreadEndsWithMain
<1>1. SubagentIInv => ThreadEndsWithMain
  BY DEF SubagentIInv, ExitIsKept, ThreadEndsWithMain
<1>2. QED
  BY SubagentAlways, <1>1, PTL
=============================================================================
