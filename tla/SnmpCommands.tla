---------------------------- MODULE SnmpCommands ----------------------------
(***************************************************************************)
(* What each configuration command of src/src/cli/snmp_vty.c does with the *)
(* replica of OVSDB it reads: when it is refused without a transaction,    *)
(* and the transaction it sends otherwise.  No command verifies what it    *)
(* read, so that the transaction is applied to whatever the database holds *)
(* by then.                                                                *)
(***************************************************************************)
EXTENDS Naturals, FiniteSets

CONSTANTS
  Receivers,        \* trap receivers: address, UDP port, version, type
  BadAddresses,     \* addresses is_valid_ip_address refuses
  UserNames,        \* SNMPv3 user names
  Securities,       \* authentication and privacy protocols of a user
  CommunityNames,   \* community names
  SettingKeys,      \* the keys of System.other_config the commands set
  Values,           \* values an operator may give them
  Unset,            \* the key is absent
  Keep,             \* the transaction leaves the column alone
  switch_version,   \* System.switch_version
  MAX_ALLOWED_SNMP_COMMUNITIES,
  MAX_ALLOWED_SNMP_TRAPS

ASSUME SnmpCommandsAssumption ==
  /\ Securities \subseteq [auth: {"none", "md5", "sha"}, priv: {"none", "aes", "des"}]
  /\ \A security \in Securities : security.auth = "none" => security.priv = "none"
  /\ MAX_ALLOWED_SNMP_COMMUNITIES \in Nat
  /\ MAX_ALLOWED_SNMP_TRAPS \in Nat
  /\ \A o \in [SettingKeys -> Values \cup {Unset, switch_version}] : o # Keep
  /\ \A c \in SUBSET CommunityNames : c # Keep

-----------------------------------------------------------------------------
(* Contents of the database and transactions.                              *)

\* Rows carry the uuid the insertion gave them, and the session they are
\* charged to in the count of traps, if it still runs.
TrapRows(Uuids, Authors) ==
  [uuid: Uuids, receiver: Receivers, name: UserNames \cup CommunityNames, by: Authors]

UserRows(Uuids) == [uuid: Uuids, name: UserNames, security: Securities]

OtherConfigs == [SettingKeys -> Values \cup {Unset, switch_version}]

NoChange == [deleted |-> {}, traps |-> {}, users |-> {},
             other_config |-> Keep, snmp_communities |-> Keep]

\* Deleting a row that is gone already is no error.
Applied(txn, db) ==
  [traps            |-> {t \in db.traps : t.uuid \notin txn.deleted} \cup txn.traps,
   users            |-> {u \in db.users : u.uuid \notin txn.deleted} \cup txn.users,
   other_config     |-> IF txn.other_config = Keep THEN db.other_config
                                                   ELSE txn.other_config,
   snmp_communities |-> IF txn.snmp_communities = Keep THEN db.snmp_communities
                                                       ELSE txn.snmp_communities]

-----------------------------------------------------------------------------
(* Trap receivers.                                                         *)

snmp_v3_user_exists(db, user) == \E u \in db.users : u.name = user

\* snmp_server_host_config refuses: too many traps configured by this
\* session, an invalid address, a v3 user that does not exist, or a row with
\* the same address, port, version and type, whatever its community.
HostRefused(db, trap_count, receiver, name) ==
  \/ trap_count > MAX_ALLOWED_SNMP_TRAPS
  \/ receiver.address \in BadAddresses
  \/ receiver.version = "v3" /\ ~snmp_v3_user_exists(db, name)
  \/ \E t \in db.traps : t.receiver = receiver

\* The name is a user for version 3 and a community otherwise.
NamesFor(receiver) == IF receiver.version = "v3" THEN UserNames ELSE CommunityNames

HostConfigured(uuid, receiver, name, session) ==
  [NoChange EXCEPT !.traps = {[uuid |-> uuid, receiver |-> receiver, name |-> name,
                               by |-> session]}]

\* snmp_server_host_unconfig deletes every such row; the community it is
\* given does not count.
HostUnconfigured(db, receiver) ==
  [NoChange EXCEPT !.deleted = {t.uuid : t \in {r \in db.traps : r.receiver = receiver}}]

-----------------------------------------------------------------------------
(* The keys of other_config: the whole map is written back.                *)

Setting(db, key, value) ==
  [NoChange EXCEPT !.other_config = [db.other_config EXCEPT ![key] = value]]

\* "no": the description becomes the version of the switch, the other keys
\* are removed.
Reset(key) == IF key = "system_description" THEN switch_version ELSE Unset

-----------------------------------------------------------------------------
(* Communities: the whole set is written back.                             *)

\* Variant: the limit is off by one.
CommunityRefusedOffByOne(db, community) ==
  \/ Cardinality(db.snmp_communities) > MAX_ALLOWED_SNMP_COMMUNITIES
  \/ community \in db.snmp_communities

\* configure_community_name refuses at the limit, and a community it has.
CommunityRefused(db, community) ==
  \/ Cardinality(db.snmp_communities) = MAX_ALLOWED_SNMP_COMMUNITIES
  \/ community \in db.snmp_communities

CommunityConfigured(db, community) ==
  [NoChange EXCEPT !.snmp_communities = db.snmp_communities \cup {community}]

\* remove_community_name, when the community is configured.
CommunityRemoved(db, community) ==
  [NoChange EXCEPT !.snmp_communities = db.snmp_communities \ {community}]

-----------------------------------------------------------------------------
(* SNMPv3 users.                                                           *)

\* configure_snmpv3_user; protocols that are not given are "none".
UserConfigured(uuid, user, security) ==
  [NoChange EXCEPT !.users = {[uuid |-> uuid, name |-> user, security |-> security]}]

\* Variant: nothing keeps the user of a receiver.
UserIsNotChecked(db, user) == FALSE

\* unconfigure_snmpv3_user refuses while a trap row holds the name, be it a
\* user's name or a community's.
UserIsReceiver(db, user) == \E t \in db.traps : t.name = user

UserUnconfigured(db, user) ==
  [NoChange EXCEPT !.deleted = {u.uuid : u \in {r \in db.users : r.name = user}}]
=============================================================================
