------------------------------- MODULE Schema -------------------------------
(***************************************************************************)
(* How opening the event store brings a database to the current schema.    *)
(* A database carries a version; while it is too old, the migration of its *)
(* version runs, statement by statement.  The early migrations are         *)
(* transactions; the later ones, and the creation of a fresh database, are *)
(* statements SQLite commits one at a time, the version stamp last.  The   *)
(* process can be killed between any two commits.                          *)
(*                                                                         *)
(* An object is a table, an index the code tests for, or a column a        *)
(* migration tests for; the indexes created IF NOT EXISTS beside their     *)
(* table go with it.                                                       *)
(***************************************************************************)
EXTENDS Integers, Sequences, FiniteSets, SequencesExt

CONSTANT FirstVersions   \* versions of the database the server is first started on

VARIABLES
    user_version,   \* the version stamped in the file
    objects,        \* what the file contains
    migrating, at   \* the migration in progress and its next statement

schemaVars == <<user_version, objects, migrating, at>>

SCHEMA_VERSION == 13

ASSUME SchemaAssumption == FirstVersions \subseteq {0, 1, 2, 3, SCHEMA_VERSION}

NoStamp == -1

(* One commit: what it drops and creates, whether creating what is there   *)
(* already is an error, and the version it stamps.                         *)
Commit(drop, make, plain, stamp) == [drop |-> drop, make |-> make, plain |-> plain, stamp |-> stamp]
Create(object) == Commit({}, {object}, TRUE, NoStamp)
Ensure(object) == Commit({}, {object}, FALSE, NoStamp)
Stamp(version) == Commit({}, {}, FALSE, version)

EventTables == {"persistent_events", "routing", "idx_persistent_events_created_at"}
ConsumerTables == {"consumers", "consumer_topics", "consumer_event_state"}
StateIndexes == {"idxCES_ack", "idxCES_consumer"}

(* The order in which a fresh database gets its tables.                    *)
AlertTables == <<"alerts">>
ProductTables == <<"instruments", "watchlists", "watchlist_items", "market_alerts">>
HistoryTables == <<"alert_trigger_history">>
ConditionTables == <<"condition_alerts", "condition_runtime_state">>

Each(Statement(_), names) == [i \in 1..Len(names) |-> Statement(names[i])]

create_v7_schema ==
    <<Commit({}, {"persistent_events", "routing"}, TRUE, NoStamp)>>
    \o Each(Create, <<"consumers", "consumer_topics", "consumer_event_state",
                      "consumer_checkpoints", "idx_persistent_events_created_at", "idxCES_ack",
                      "idxCES_consumer", "source_state", "source_seen_items",
                      "idx_seen_source_seen_at">>)
    \o Each(Ensure, AlertTables \o <<"recent_events", "secrets">> \o ProductTables
                    \o HistoryTables \o ConditionTables)

create_v3_schema_partial == EventTables \cup ConsumerTables \cup StateIndexes

migrate_v1_to_v3 == <<Commit(EventTables, create_v3_schema_partial, TRUE, 3)>>

migrate_v2_to_v3 ==
    Each(Ensure, <<"routing", "consumers", "consumer_topics", "consumer_event_state">>)
    \o <<Stamp(3)>>

(* The rows' old sequence column decides whether the table is rebuilt.     *)
migrate_v3_to_v4 ==
    IF "sequence" \in objects
    THEN <<Commit({"sequence", "consumer_event_state"} \cup StateIndexes,
                  {"consumer_event_state"}, TRUE, 4)>>
    ELSE <<Stamp(4)>>

EnsureIndexes == Each(Ensure, <<"idxCES_ack", "idxCES_consumer">>)

migrate_v4_to_v5 == <<Commit({}, {"consumer_checkpoints"}, TRUE, 5)>> \o EnsureIndexes
migrate_v5_to_v6 == <<Commit({}, {"source_state"}, TRUE, 6)>>
migrate_v6_to_v7 == <<Commit({}, {"source_seen_items", "idx_seen_source_seen_at"}, TRUE, 7)>>

(* mutants *)
AddsStampedFirst(tables, version) == <<Stamp(version)>> \o Each(Ensure, tables)
AddsPlainly(tables, version) == Each(Create, tables) \o <<Stamp(version)>>

(* A later migration: its tables, each if it is missing, then the stamp.   *)
Adds(tables, version) == Each(Ensure, tables) \o <<Stamp(version)>>

migrate_v7_to_v8 == Adds(AlertTables, 8)
migrate_v8_to_v9 == Adds(<<"recent_events">>, 9)
migrate_v9_to_v10 == Adds(<<"secrets">>, 10)
migrate_v10_to_v11 == Adds(ProductTables, 11)
migrate_v11_to_v12 == Adds(HistoryTables, 12)
migrate_v12_to_v13 == Adds(ConditionTables, 13)

Statements ==
    CASE migrating = 0 -> create_v7_schema \o <<Stamp(SCHEMA_VERSION)>>
      [] migrating = 1 -> migrate_v1_to_v3
      [] migrating = 2 -> migrate_v2_to_v3
      [] migrating = 3 -> migrate_v3_to_v4
      [] migrating = 4 -> migrate_v4_to_v5
      [] migrating = 5 -> migrate_v5_to_v6
      [] migrating = 6 -> migrate_v6_to_v7
      [] migrating = 7 -> migrate_v7_to_v8
      [] migrating = 8 -> migrate_v8_to_v9
      [] migrating = 9 -> migrate_v9_to_v10
      [] migrating = 10 -> migrate_v10_to_v11
      [] migrating = 11 -> migrate_v11_to_v12
      [] migrating = 12 -> migrate_v12_to_v13
      [] OTHER -> EnsureIndexes

(* The tables a version brought (for a database that has it or a later     *)
(* one).                                                                   *)
Introduced(version) ==
    CASE version = 1 -> {"persistent_events"}
      [] version = 3 -> {"routing"} \cup ConsumerTables
      [] version = 5 -> {"consumer_checkpoints"}
      [] version = 6 -> {"source_state"}
      [] version = 7 -> {"source_seen_items"}
      [] version = 8 -> ToSet(AlertTables)
      [] version = 9 -> {"recent_events"}
      [] version = 10 -> {"secrets"}
      [] version = 11 -> ToSet(ProductTables)
      [] version = 12 -> ToSet(HistoryTables)
      [] version = 13 -> ToSet(ConditionTables)
      [] OTHER -> {}

Tables(version) == UNION {Introduced(v) : v \in 1..version}

(* What a database of a first version contains: version 2 has no routing   *)
(* column yet, version 3 still has the sequence column.                    *)
Content(version) ==
    CASE version = 0 -> {}
      [] version = 1 -> {"persistent_events"}
      [] version = 2 -> {"persistent_events"}
      [] version = 3 -> create_v3_schema_partial \cup {"sequence"}
      [] OTHER -> Tables(SCHEMA_VERSION) \cup EventTables \cup StateIndexes
                  \cup {"idx_seen_source_seen_at"}

SchemaInit ==
    /\ user_version \in FirstVersions
    /\ objects = Content(user_version)
    /\ migrating = user_version /\ at = 1

(* The store is opened: the version decides what runs first.               *)
OpenSchema ==
    /\ migrating' = user_version /\ at' = 1
    /\ UNCHANGED <<user_version, objects>>

Refused(statement) == statement.plain /\ statement.make \cap (objects \ statement.drop) # {}

(* The next statement commits.                                             *)
MigrateStep ==
    /\ at <= Len(Statements) /\ ~Refused(Statements[at])
    /\ LET next == Statements[at] IN
       /\ objects' = (objects \ next.drop) \cup next.make
       /\ user_version' = IF next.stamp = NoStamp THEN user_version ELSE next.stamp
       /\ IF at = Len(Statements)
          THEN IF user_version' = SCHEMA_VERSION
               THEN migrating' = SCHEMA_VERSION /\ at' = Len(EnsureIndexes) + 1
               ELSE migrating' = user_version' /\ at' = 1
          ELSE at' = at + 1 /\ UNCHANGED migrating

(* SQLite refuses it: the store, and with it the server, does not open.    *)
MigrateFails ==
    /\ at <= Len(Statements) /\ Refused(Statements[at])
    /\ UNCHANGED schemaVars

SchemaReady == migrating = SCHEMA_VERSION /\ at > Len(EnsureIndexes)
=============================================================================
