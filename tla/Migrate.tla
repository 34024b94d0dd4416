------------------------------ MODULE Migrate ------------------------------
(***************************************************************************)
(* scripts/migrate.py: applying the SQL files that are not recorded yet.   *)
(*                                                                         *)
(* Several migrators may run at a time, each may be killed or lose its     *)
(* connection at any step, and files are added between runs.  PostgreSQL   *)
(* runs a transaction's statements on what is committed, makes an INSERT   *)
(* of a key another open transaction inserted wait for that one to end,    *)
(* and drops what an open transaction did when its connection goes.        *)
(***************************************************************************)
EXTENDS Integers, Sequences, FiniteSets, SequencesExt, Lists

CONSTANTS
    Migrators,
    SqlFiles,       \* the numbered files, as a sequence in lexical order
    MaxStarts       \* bound on how often a migrator is started

ASSUME MigrateAssumption == SqlFiles \in Seq(ToSet(SqlFiles))

VARIABLES
    present,        \* the files in the directory
    effects,        \* file -> how often its statements were committed by a migrator
    recorded,       \* the rows of _migrations
    doing,          \* migrator -> "off", "reading", "deciding", "applying", "recorded"
    found,          \* migrator -> the rows it read at its start
    discovered,     \* migrator -> the files it saw
    plan,           \* migrator -> those it has left, in order
    pending,        \* migrator -> [effects, rows] of its open transaction
    starts

migrateVars == <<present, effects, recorded, doing, found, discovered, plan, pending, starts>>

None == [ran |-> {}, rows |-> {}]

MigrateStart(files) ==
    /\ present = files
    /\ effects = [f \in ToSet(SqlFiles) |-> 0] /\ recorded = {}
    /\ doing = [m \in Migrators |-> "off"] /\ found = [m \in Migrators |-> {}]
    /\ discovered = [m \in Migrators |-> {}]
    /\ plan = [m \in Migrators |-> <<>>] /\ pending = [m \in Migrators |-> None]
    /\ starts = 0

MigrateInit == \E files \in SUBSET ToSet(SqlFiles) \ {{}} : MigrateStart(files)

\* discover: the files in lexical order; and a connection.
Discover(m) ==
    /\ doing[m] = "off" /\ starts < MaxStarts
    /\ starts' = starts + 1
    /\ discovered' = [discovered EXCEPT ![m] = present]
    /\ plan' = [plan EXCEPT ![m] = Filtered(SqlFiles, ToSet(SqlFiles) \ present)]
    /\ doing' = [doing EXCEPT ![m] = "reading"]
    /\ UNCHANGED <<present, effects, recorded, found, pending>>

ReadRecorded(m) ==
    /\ doing[m] = "reading"
    /\ found' = [found EXCEPT ![m] = recorded]
    /\ doing' = [doing EXCEPT ![m] = "deciding"]
    /\ UNCHANGED <<present, effects, recorded, discovered, plan, pending, starts>>

SkipFile(m) ==
    /\ doing[m] = "deciding" /\ plan[m] # <<>> /\ Head(plan[m]) \in found[m]
    /\ plan' = [plan EXCEPT ![m] = Tail(@)]
    /\ UNCHANGED <<present, effects, recorded, doing, found, discovered, pending, starts>>

\* The file's statements, in a transaction of its own.
ApplyFile(m) ==
    /\ doing[m] = "deciding" /\ plan[m] # <<>> /\ Head(plan[m]) \notin found[m]
    /\ pending' = [pending EXCEPT ![m] = [ran |-> {Head(plan[m])}, rows |-> {}]]
    /\ doing' = [doing EXCEPT ![m] = "applying"]
    /\ UNCHANGED <<present, effects, recorded, found, discovered, plan, starts>>

\* What a commit makes of the open transaction.
Committed(m) ==
    /\ effects' = [f \in DOMAIN effects |-> effects[f] + (IF f \in pending[m].ran THEN 1 ELSE 0)]
    /\ recorded' = recorded \cup pending[m].rows

\* Mutant: the statements are committed before the row is inserted.
OnItsOwn(m) ==
    /\ effects' = [f \in DOMAIN effects |-> effects[f] + (IF f \in pending[m].ran THEN 1 ELSE 0)]
    /\ pending' = [pending EXCEPT ![m] = [ran |-> {}, rows |-> {Head(plan[m])}]]
\* The row goes into the transaction of the statements.
SameTransaction(m) ==
    /\ pending' = [pending EXCEPT ![m] = [ran |-> pending[m].ran, rows |-> {Head(plan[m])}]]
    /\ UNCHANGED effects

\* INSERT INTO _migrations, which waits while another open transaction has the row.
RecordFile(m) ==
    /\ doing[m] = "applying"
    /\ Head(plan[m]) \notin recorded
    /\ \A other \in Migrators : Head(plan[m]) \notin pending[other].rows
    /\ SameTransaction(m)
    /\ doing' = [doing EXCEPT ![m] = "recorded"]
    /\ UNCHANGED <<present, recorded, found, discovered, plan, starts>>

CommitFile(m) ==
    /\ doing[m] = "recorded"
    /\ Committed(m)
    /\ pending' = [pending EXCEPT ![m] = None]
    /\ plan' = [plan EXCEPT ![m] = Tail(@)]
    /\ doing' = [doing EXCEPT ![m] = "deciding"]
    /\ UNCHANGED <<present, found, discovered, starts>>

\* The script ends: all files done, the row was already there, a statement that
\* failed, a kill, a lost connection.  Its open transaction is rolled back.
Leave(m) ==
    /\ doing[m] # "off"
    /\ doing' = [doing EXCEPT ![m] = "off"]
    /\ pending' = [pending EXCEPT ![m] = None]
    /\ plan' = [plan EXCEPT ![m] = <<>>] /\ found' = [found EXCEPT ![m] = {}]
    /\ discovered' = [discovered EXCEPT ![m] = {}]
    /\ UNCHANGED <<present, effects, recorded, starts>>

AddFile ==
    /\ \E f \in ToSet(SqlFiles) \ present : present' = present \cup {f}
    /\ UNCHANGED <<effects, recorded, doing, found, discovered, plan, pending, starts>>

MigrateNext ==
    \/ AddFile
    \/ \E m \in Migrators : \/ Discover(m) \/ ReadRecorded(m) \/ SkipFile(m) \/ ApplyFile(m)
                            \/ RecordFile(m) \/ CommitFile(m) \/ Leave(m)

----------------------------------------------------------------------------

\* Running it twice is a no-op and running it after adding a file applies only the
\* new one, migrators running at the same time and killed at any point included: no
\* file's statements are committed twice, and a file is recorded exactly when they
\* are (migrate.py:3-6).  A migrator has every file it saw either still ahead of it or
\* applied.
MigratedOnce ==
    /\ \A f \in DOMAIN effects : effects[f] = (IF f \in recorded THEN 1 ELSE 0)
    /\ \A m \in Migrators : \A f \in discovered[m] : f \in recorded \/ Contains(plan[m], f)
=============================================================================
