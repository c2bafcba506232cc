--------------------------- MODULE MCHiveUpgrade ---------------------------
(* A manager of the hive that was there before an upgrade, a command and a  *)
(* read-only command of the one that came with it, and a file of any age.   *)
EXTENDS HiveUpgrade, TLC

CONSTANTS manager, newCommand, reader, change1, change2

OldManager == {manager}
Processes == {manager, newCommand}
Readers == {reader}
Versions == (manager :> 12) @@ (newCommand :> 18) @@ (reader :> 16)
TwoChanges == {change1, change2}
SomeVersions == {1, 12, 18}
=============================================================================
