---------------------------- MODULE HiveUpgrade ----------------------------
(***************************************************************************)
(* The schema of the database file, on top of the sessions of HiveDb.      *)
(* Every process migrates what it loads (runMigrations), in memory; the    *)
(* schema reaches the file with the next save.  Processes of an older hive *)
(* run beside those of a newer one: the manager lives on over an upgrade.  *)
(* A read-only command migrates its own copy, without lock and save.       *)
(*                                                                         *)
(* A table is the sequence of its columns; `holds' is the column whose     *)
(* values the rows have there that were written before the last upgrade.   *)
(* Indexes, checks and the tables no migration changes are left out.       *)
(***************************************************************************)
EXTENDS HiveDb, Sequences

CONSTANTS
  Reader,       \* processes of read-only commands
  VersionOf,    \* how many entries of MIGRATIONS the hive of a process has
  Made          \* the same, for the hive that may have made the file

MIGRATIONS ==
  <<"001-initial", "002-add-agent-model", "003-fix-pull-requests", "004-add-messages",
    "005-add-agent-last-seen", "006-add-agent-worktree", "007-add-indexes", "008-add-godmode",
    "009-add-pr-sync-indexes", "010-add-target-branch", "006-integrations",
    "011-generic-integration-fields", "012-sprint-tracking", "013-feature-testing-support",
    "014-auditor-agent-type", "007-backfill-story-points", "015-add-story-markdown-path",
    "016-token-usage-tracking">>

ASSUME UpgradeAssumption ==
  /\ Reader \cap Proc = {} /\ Made \subseteq 1 .. Len(MIGRATIONS)
  /\ VersionOf \in [Proc \cup Reader -> 1 .. Len(MIGRATIONS)]

VARIABLES
  memSchema, tmpSchema, fileSchema    \* the schema of mem, tmp and file

schemaVars == <<memSchema, tmpSchema, fileSchema>>
uvars == <<vars, schemaVars>>

-----------------------------------------------------------------------------
(* Tables. *)
Columns(t) == {t[i].column : i \in DOMAIN t}
Created(columns) == [i \in DOMAIN columns |-> [column |-> columns[i], holds |-> columns[i]]]

\* ALTER TABLE ADD COLUMN, where the table does not have the column.
WithColumn(t, c) == IF c \in Columns(t) THEN t ELSE t \o Created(<<c>>)
WithColumns(t, columns) ==
  LET added[i \in 0 .. Len(columns)] ==
        IF i = 0 THEN t ELSE WithColumn(added[i - 1], columns[i])
  IN  added[Len(columns)]

\* INSERT INTO new SELECT * FROM old: the n-th column goes to the n-th.
CopiedByPosition(t, columns) ==
  [i \in DOMAIN columns |-> [column |-> columns[i], holds |-> t[i].holds]]

\* INSERT INTO new (columns) SELECT columns FROM old.
CopiedByName(t, columns) ==
  [i \in DOMAIN columns |->
     [column |-> columns[i], holds |-> t[CHOOSE j \in DOMAIN t : t[j].column = columns[i]].holds]]

AgentsOfInitial ==
  <<"id", "type", "team_id", "tmux_session", "model", "status", "current_story_id",
    "memory_state", "created_at", "updated_at">>
AgentsOf013 ==
  <<"id", "type", "team_id", "tmux_session", "model", "status", "current_story_id",
    "memory_state", "last_seen", "worktree_path", "created_at", "updated_at">>

RequirementsOfInitial ==
  <<"id", "title", "description", "submitted_by", "status", "created_at">>
FaultyRequirementsOf013 ==      \* a column forgotten
  <<"id", "title", "description", "submitted_by", "status", "godmode", "feature_branch",
    "jira_epic_key", "jira_epic_id", "external_epic_key", "external_epic_id",
    "external_provider", "created_at">>
RequirementsOf013 ==
  <<"id", "title", "description", "submitted_by", "status", "godmode", "target_branch",
    "feature_branch", "jira_epic_key", "jira_epic_id", "external_epic_key",
    "external_epic_id", "external_provider", "created_at">>

StoriesOfInitial == <<"id", "status", "story_points">>

-----------------------------------------------------------------------------
(* What a migration does to each table. *)
UpAgents(m, t) ==
  CASE m = "001-initial" -> Created(AgentsOfInitial)
    [] m = "002-add-agent-model" -> WithColumn(t, "model")
    [] m = "005-add-agent-last-seen" -> WithColumn(t, "last_seen")
    [] m = "006-add-agent-worktree" -> WithColumn(t, "worktree_path")
    [] m \in {"013-feature-testing-support", "014-auditor-agent-type"} ->
         CopiedByPosition(t, AgentsOf013)
    [] OTHER -> t

UpRequirements(m, t) ==
  CASE m = "001-initial" -> Created(RequirementsOfInitial)
    [] m = "008-add-godmode" -> WithColumn(t, "godmode")
    [] m = "010-add-target-branch" -> WithColumn(t, "target_branch")
    [] m = "006-integrations" -> WithColumns(t, <<"jira_epic_key", "jira_epic_id">>)
    [] m = "011-generic-integration-fields" ->
         WithColumns(t, <<"external_epic_key", "external_epic_id", "external_provider">>)
    [] m = "013-feature-testing-support" ->
         CopiedByName(WithColumn(t, "feature_branch"), RequirementsOf013)
    [] OTHER -> t

UpStories(m, t) ==
  CASE m = "001-initial" -> Created(StoriesOfInitial)
    [] m = "006-integrations" ->
         WithColumns(t, <<"jira_issue_key", "jira_issue_id", "jira_project_key",
                          "jira_subtask_key", "jira_subtask_id">>)
    [] m = "011-generic-integration-fields" ->
         WithColumns(t, <<"external_issue_key", "external_issue_id", "external_project_key",
                          "external_subtask_key", "external_subtask_id", "external_provider">>)
    [] m = "012-sprint-tracking" -> WithColumn(t, "in_sprint")
    [] m = "015-add-story-markdown-path" -> t \o Created(<<"markdown_path">>)
    [] OTHER -> t

EmptyDatabase == [applied |-> {}, agents |-> <<>>, requirements |-> <<>>, stories |-> <<>>]

FaultyApply(d, m) ==        \* the record is forgotten
  [applied |-> d.applied \cup ({m} \ {"015-add-story-markdown-path"}), agents |-> UpAgents(m, d.agents),
   requirements |-> UpRequirements(m, d.requirements), stories |-> UpStories(m, d.stories)]
Apply(d, m) ==
  [applied |-> d.applied \cup {m}, agents |-> UpAgents(m, d.agents),
   requirements |-> UpRequirements(m, d.requirements), stories |-> UpStories(m, d.stories)]

runMigrations(d, version) ==
  LET upTo[i \in 0 .. version] ==
        IF i = 0 THEN d
        ELSE IF MIGRATIONS[i] \in d.applied THEN upTo[i - 1]
        ELSE Apply(upTo[i - 1], MIGRATIONS[i])
  IN  upTo[version]

\* Adding a column twice fails: 015 does not look whether it is there.
MigrationsFail(d, version) ==
  /\ "015-add-story-markdown-path" \in {MIGRATIONS[i] : i \in 1 .. version} \ d.applied
  /\ "markdown_path" \in Columns(d.stories)

-----------------------------------------------------------------------------
(* Sessions. *)
\* Rows are written by the names of the columns.
WithRows(d) ==
  [d EXCEPT !.agents = Created([i \in DOMAIN d.agents |-> d.agents[i].column])]

UpgradeInit ==
  /\ Init
  /\ \E version \in Made : fileSchema = WithRows(runMigrations(EmptyDatabase, version))
  /\ memSchema = [p \in Proc |-> EmptyDatabase] /\ tmpSchema = EmptyDatabase

\* createDatabase: load, then migrate in memory.
LoadAndMigrate(p) ==
  /\ Load(p) /\ ~MigrationsFail(fileSchema, VersionOf[p])
  /\ memSchema' = [memSchema EXCEPT ![p] = runMigrations(fileSchema, VersionOf[p])]
  /\ UNCHANGED <<tmpSchema, fileSchema>>

\* The schema in memory goes with the database there.
KeepLoaded ==
  memSchema' = [p \in Proc |-> IF mem'[p] = Closed THEN EmptyDatabase ELSE memSchema[p]]

\* A database is written with the schema it has in memory ...
WriteSchema(p) ==
  /\ BeginSave(p) \/ BeginClose(p)
  /\ tmpSchema' = memSchema[p]
  /\ UNCHANGED <<memSchema, fileSchema>>

\* ... or with the one another session has written to the temporary file since.
RenameSchema(p) ==
  /\ EndSave(p) \/ EndClose(p)
  /\ fileSchema' = tmpSchema /\ tmpSchema' = EmptyDatabase /\ KeepLoaded

OtherStep(p) ==
  /\ LockStep(p) \/ LoadThrows(p) \/ Change(p) \/ Begin(p) \/ Rollback(p)
     \/ SaveThrows(p) \/ CloseThrows(p) \/ Exit(p) \/ Crash(p)
  /\ KeepLoaded /\ UNCHANGED <<tmpSchema, fileSchema>>

UpgradeNext ==
  \/ GoesStale /\ UNCHANGED schemaVars
  \/ \E p \in Proc : LoadAndMigrate(p) \/ WriteSchema(p) \/ RenameSchema(p) \/ OtherStep(p)

\* The fairness of HiveDb.
UpgradeSpec == UpgradeInit /\ [][UpgradeNext]_uvars /\ Fairness

-----------------------------------------------------------------------------
(* Properties. *)

\* getReadOnlyDatabase: what a reader works with; nothing of it is kept.
ReadOnlyCopy(r) == runMigrations(fileSchema, VersionOf[r])

\* No copy of the database is ever one that some hive fails to migrate, and so
\* takes for corrupted, though sessions are interrupted, break into each other
\* and write older schemas over newer ones (runMigrations, execution order).
EveryHiveOpensIt ==
  \A p \in Proc \cup Reader, d \in {fileSchema, tmpSchema} : ~MigrationsFail(d, VersionOf[p])

IsInPlace(t) == \A i \in DOMAIN t : t[i].column = t[i].holds
KeepsValues(d) == IsInPlace(d.requirements) /\ IsInPlace(d.stories)

ColumnsOf(d) == [agents |-> Columns(d.agents), requirements |-> Columns(d.requirements),
                 stories |-> Columns(d.stories)]
Asked == [version \in 0 .. Len(MIGRATIONS) |-> ColumnsOf(runMigrations(EmptyDatabase, version))]

\* What was written to a column of the requirements or the stories is found in
\* that column after every upgrade, and a session finds every column its hive
\* asks for, whichever hive has written the file before it (migration 013).
ValuesStayInTheirColumns ==
  /\ KeepsValues(fileSchema) /\ KeepsValues(tmpSchema)
  /\ \A r \in Reader : KeepsValues(ReadOnlyCopy(r))
  /\ \A p \in Proc : pc[p] \in Loaded =>
       /\ KeepsValues(memSchema[p])
       /\ \A table \in {"agents", "requirements", "stories"} :
            Asked[VersionOf[p]][table] \subseteq Columns(memSchema[p][table])

-----------------------------------------------------------------------------
(* What the repository says of upgrades and the code does not do. *)
\* client.ts: migrations 013 and 014 recreate the agents "with updated type
\* CHECK constraint"; what the rows hold goes to other columns.
AgentsKeepTheirValues == IsInPlace(fileSchema.agents)
=============================================================================
