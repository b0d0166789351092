-------------------------- MODULE FileTransaction --------------------------
(***************************************************************************)
(* The journaled direct writes of one Stage-4 test case:                   *)
(* services/direct_file_transaction.py.  A process holds a                 *)
(* FileChangeJournal in memory (mem) and persists it as journal.json       *)
(* (disk) around every mutation of the framework (fs, dirs).  One action   *)
(* is what happens between two durable writes, so that Crash may fall on   *)
(* every write boundary; an editor (ExternalEdit) is not the transaction.  *)
(* A SHA-256 is the content it is the hash of; a preimage's file name is   *)
(* its attempt and the position of its entry.                              *)
(***************************************************************************)
EXTENDS Naturals, Sequences, FiniteSets

CONSTANTS
  TestPaths,    \* roles test and robot: create-only
  InitPaths,    \* role init: create-only, kept as found when present
  SharedPaths,  \* roles wrapper and helper: may be replaced
  Contents, Absent,
  Dirs,         \* directories of the framework that may be missing
  Above,        \* Above[x]: the directories of Dirs above the path or dir x
  MaxEntries, MaxAttempts, MaxEdits, MaxFailures   \* bounds

Paths == TestPaths \cup InitPaths \cup SharedPaths
Bytes == Contents \cup {Absent}
Status == {"NONE", "OPEN", "SEALED", "ROLLED_BACK"}   \* NONE: no journal.json
Pcs == {"down", "ready", "intent", "replace", "verify", "undo", "restore",
        "sealing", "restarting", "failed"}
Errors == {"none", "write_drift", "rollback_drift", "refused", "mismatch",
           "not_final", "archive_exists", "io"}

Names == (1 .. MaxAttempts) \X (1 .. MaxEntries)

Entry == [path: Paths, original: Bytes, expected: Contents, applied: BOOLEAN]
Journal == [status: Status, attempt: Nat \ {0}, entries: Seq(Entry), dirs: SUBSET Dirs]

ASSUME ConstantsAssumption ==
  /\ Absent \notin Contents
  /\ Paths \cap Dirs = {}
  /\ TestPaths \cap (InitPaths \cup SharedPaths) = {}
  /\ InitPaths \cap SharedPaths = {}
  /\ Above \in [Paths \cup Dirs -> SUBSET Dirs]
  /\ {MaxEntries, MaxEdits, MaxFailures} \subseteq Nat
  /\ MaxAttempts \in Nat \ {0}

\* Directories are a tree: what is above a directory is above its children.
ASSUME TreeAssumption ==
  /\ IsFiniteSet(Dirs)
  /\ \A x \in Dirs : \A d \in Above[x] : d \notin Above[d] /\ Above[d] \subseteq Above[x]

VARIABLES
  fs,         \* what each path of the framework holds
  dirs,       \* the directories of Dirs that exist
  litter,     \* directories in which a crash left a temporary file
  disk,       \* journal.json
  preimages,  \* preimages/<attempt, position>
  archives,   \* attempts that have a journal.attempt-N.json
  pc, mem, pos, sweep, error,            \* the process: lost in a crash
  user,       \* history: every content the editor ever gave a path
  touched,    \* history: paths edited while the current write or rollback runs
  edits, failures                        \* counters of the bounds

frame == <<fs, dirs, litter>>
store == <<disk, preimages, archives>>
proc == <<pc, mem, pos, sweep, error>>
hist == <<user, touched, edits, failures>>
vars == <<frame, store, proc, hist>>

Fresh(n) == [status |-> "OPEN", attempt |-> n, entries |-> <<>>, dirs |-> {}]
Created(e) == e.original = Absent
Slots(j, p) == {i \in DOMAIN j.entries : j.entries[i].path = p}
Latest(j, p) == CHOOSE i \in Slots(j, p) : \A k \in Slots(j, p) : k <= i
Mentions(j, p) == Slots(j, p) # {}

\* created_files / _open_journal_created_path: the case made the test file itself.
OwnsCreate(j, p) ==
  p \in TestPaths /\ \E i \in Slots(j, p) : Created(j.entries[i])

IsReplay(j, p, c) ==
  Mentions(j, p) /\ j.entries[Latest(j, p)].expected = c /\ fs[p] = c

OwnedRewrite(j, p) ==
  Mentions(j, p) =>
    LET e == j.entries[Latest(j, p)] IN
      fs[p] = e.expected \/ (~e.applied /\ fs[p] = e.original)

ExpectedState(j) ==
  \A p \in Paths : Mentions(j, p) => fs[p] = j.entries[Latest(j, p)].expected

\* any(directory.iterdir()): something below d keeps it from being removed.
Occupied(d) ==
  \/ d \in litter
  \/ \E p \in Paths : fs[p] # Absent /\ d \in Above[p]
  \/ \E x \in dirs : d \in Above[x]

Init ==
  /\ fs \in [Paths -> Bytes]
  /\ \A p \in TestPaths : fs[p] = Absent
  /\ dirs = UNION {Above[p] : p \in {q \in Paths : fs[q] # Absent}}
  /\ litter = {}
  /\ disk = [Fresh(1) EXCEPT !.status = "NONE"]
  /\ preimages = [n \in Names |-> Absent]
  /\ archives = {}
  /\ pc = "down" /\ mem = disk /\ pos = 0 /\ sweep = {} /\ error = "none"
  /\ user = [p \in Paths |-> {fs[p]}]
  /\ touched = {} /\ edits = 0 /\ failures = 0
-----------------------------------------------------------------------------
Raise(e) == pc' = "failed" /\ error' = e

\* An operation of the filesystem that raises OSError instead of taking effect.
Fault == failures < MaxFailures /\ failures' = failures + 1 /\ Raise("io")

\* FileChangeJournal.persist of the journal j: memory has changed already, the
\* file changes atomically or, if the write fails, not at all.
Persist(j, next) ==
  /\ mem' = j
  /\ \/ disk' = j /\ pc' = next /\ UNCHANGED <<error, failures>>
     \/ UNCHANGED disk /\ Fault

\* __init__ and begin -> load_or_init.
Begin ==
  /\ pc = "down"
  /\ LET j == IF disk.status = "NONE" THEN Fresh(1) ELSE disk IN
       disk' = j /\ mem' = j
  /\ pc' = "ready" /\ error' = "none"
  /\ UNCHANGED <<frame, preimages, archives, pos, sweep, hist>>

Writable(p) == pc = "ready" /\ mem.status = "OPEN" /\ p \in Paths

\* The bytes to write are those of the latest entry and are in place already.
WriteReplay(p, c) ==
  /\ Writable(p) /\ IsReplay(mem, p, c)
  /\ error' = "none"
  /\ UNCHANGED <<frame, store, pc, mem, pos, sweep, hist>>

\* _require_owned_rewrite_state.
WriteDrift(p, c) ==
  /\ Writable(p) /\ ~IsReplay(mem, p, c) /\ ~OwnedRewrite(mem, p)
  /\ Raise("write_drift")
  /\ UNCHANGED <<frame, store, mem, pos, sweep, hist>>

UnscopedName == <<1, Len(mem.entries) + 1>>   \* mutant: the name has no attempt

\* Where store_preimage puts the next preimage: the name has the attempt.
PreimageName == <<mem.attempt, Len(mem.entries) + 1>>

Base(p, c) ==
  /\ Writable(p) /\ ~IsReplay(mem, p, c) /\ OwnedRewrite(mem, p)
  /\ Len(mem.entries) < MaxEntries

WriteRefused(p, c) ==
  /\ Base(p, c) /\ p \in TestPaths /\ fs[p] # Absent /\ ~OwnsCreate(mem, p)
  /\ Raise("refused")
  /\ UNCHANGED <<frame, store, mem, pos, sweep, hist>>

\* store_preimage, then the entry and its missing directories in memory.  An
\* initializer that is there is recorded as found, and never replaced.
WriteIntent(p, c) ==
  /\ Base(p, c)
  /\ p \in TestPaths => fs[p] = Absent \/ OwnsCreate(mem, p)
  /\ LET keep == p \in InitPaths /\ fs[p] # Absent
         e == [path |-> p, original |-> fs[p],
               expected |-> IF keep THEN fs[p] ELSE c, applied |-> keep]
     IN mem' = [mem EXCEPT !.entries = Append(@, e), !.dirs = @ \cup (Above[p] \ dirs)]
  /\ preimages' = IF fs[p] = Absent THEN preimages
                  ELSE [preimages EXCEPT ![PreimageName] = fs[p]]
  /\ pc' = "intent" /\ error' = "none" /\ touched' = {}
  /\ UNCHANGED <<frame, disk, archives, pos, sweep, user, edits, failures>>

Newest == mem.entries[Len(mem.entries)]

PersistIntentLate ==   \* mutant: the file is replaced before the intent is durable
  /\ pc = "intent" /\ mem' = mem /\ pc' = IF Newest.applied THEN "ready" ELSE "replace"
  /\ UNCHANGED <<frame, store, pos, sweep, error, hist>>

PersistIntent ==
  /\ pc = "intent"
  /\ Persist(mem, IF Newest.applied THEN "ready" ELSE "replace")
  /\ UNCHANGED <<frame, preimages, archives, pos, sweep, user, touched, edits>>

\* The missing parents are made from the top down.
MakeDir(d) ==
  /\ pc = "replace" /\ d \in Above[Newest.path] \ dirs /\ Above[d] \subseteq dirs
  /\ dirs' = dirs \cup {d}
  /\ UNCHANGED <<fs, litter, store, proc, hist>>

Replace ==
  /\ pc = "replace" /\ Above[Newest.path] \subseteq dirs
  /\ \/ fs' = [fs EXCEPT ![Newest.path] = Newest.expected]
        /\ pc' = "verify" /\ UNCHANGED <<error, failures>>
     \/ Fault /\ UNCHANGED fs
  /\ UNCHANGED <<dirs, litter, store, mem, pos, sweep, user, touched, edits>>

\* The read-back, then applied = True is persisted.
VerifyWrite ==
  /\ pc = "verify"
  /\ \/ /\ fs[Newest.path] = Newest.expected
        /\ Persist([mem EXCEPT !.entries[Len(mem.entries)].applied = TRUE], "ready")
     \/ /\ fs[Newest.path] # Newest.expected
        /\ Raise("mismatch") /\ UNCHANGED <<mem, disk, failures>>
  /\ UNCHANGED <<frame, preimages, archives, pos, sweep, user, touched, edits>>
-----------------------------------------------------------------------------
RollbackShort ==   \* mutant: the newest entry is forgotten
  /\ pc \in {"ready", "failed"} /\ mem.status = "OPEN"
  /\ pc' = "undo" /\ pos' = IF mem.entries = <<>> THEN 0 ELSE Len(mem.entries) - 1
  /\ sweep' = mem.dirs /\ error' = "none" /\ touched' = {}
  /\ UNCHANGED <<frame, store, mem, user, edits, failures>>

\* rollback(): called on an OPEN journal, by the caller or by whoever handles
\* the exception a call raised (__exit__, _rollback_open).
Rollback ==
  /\ pc \in {"ready", "failed"} /\ mem.status = "OPEN"
  /\ pc' = "undo" /\ pos' = Len(mem.entries) /\ sweep' = mem.dirs
  /\ error' = "none" /\ touched' = {}
  /\ UNCHANGED <<frame, store, mem, user, edits, failures>>

Undoing == mem.entries[pos]

UndoSkip ==
  /\ pc = "undo" /\ pos > 0 /\ fs[Undoing.path] = Undoing.original
  /\ pos' = pos - 1
  /\ UNCHANGED <<frame, store, pc, mem, sweep, error, hist>>

UndoDrift ==
  /\ pc = "undo" /\ pos > 0
  /\ fs[Undoing.path] \notin {Undoing.original, Undoing.expected}
  /\ Raise("rollback_drift")
  /\ UNCHANGED <<frame, store, mem, pos, sweep, hist>>

UndoOwnedBlind ==   \* mutant: the hash of the target is not compared
  /\ pc = "undo" /\ pos > 0 /\ fs[Undoing.path] # Undoing.original
  /\ pc' = "restore"
  /\ UNCHANGED <<frame, store, mem, pos, sweep, error, hist>>

\* The hash of the target has been compared; the deletion or the restoration
\* is a later system call.
UndoOwned ==
  /\ pc = "undo" /\ pos > 0 /\ fs[Undoing.path] = Undoing.expected
  /\ fs[Undoing.path] # Undoing.original
  /\ pc' = "restore"
  /\ UNCHANGED <<frame, store, mem, pos, sweep, error, hist>>

\* The code also looks at the file after its restoration or deletion; as nothing but an
\* edit at that instant can fail it, the look is left out and the undo goes on.
Restore ==
  /\ pc = "restore"
  /\ \/ /\ fs' = [fs EXCEPT ![Undoing.path] =
                     IF Created(Undoing) THEN Absent ELSE preimages[<<mem.attempt, pos>>]]
        /\ dirs' = IF Created(Undoing) THEN dirs ELSE dirs \cup Above[Undoing.path]
        /\ pc' = "undo" /\ pos' = pos - 1 /\ UNCHANGED <<error, failures>>
     \/ Fault /\ UNCHANGED <<fs, dirs, pos>>
  /\ UNCHANGED <<litter, store, mem, sweep, user, touched, edits>>

RemoveDirTopDown(d) ==   \* mutant: a parent is swept before its child
  /\ pc = "undo" /\ pos = 0 /\ d \in sweep
  /\ \A x \in sweep : Cardinality(Above[x]) >= Cardinality(Above[d])
  /\ sweep' = sweep \ {d}
  /\ dirs' = IF Occupied(d) THEN dirs ELSE dirs \ {d}
  /\ UNCHANGED <<fs, litter, store, pc, mem, pos, error, hist>>

\* The directories this attempt found missing, deepest first, if empty.
RemoveDir(d) ==
  /\ pc = "undo" /\ pos = 0 /\ d \in sweep
  /\ \A x \in sweep : Cardinality(Above[x]) <= Cardinality(Above[d])
  /\ sweep' = sweep \ {d}
  /\ dirs' = IF Occupied(d) THEN dirs ELSE dirs \ {d}
  /\ UNCHANGED <<fs, litter, store, pc, mem, pos, error, hist>>

CloseRollback ==
  /\ pc = "undo" /\ pos = 0 /\ sweep = {}
  /\ Persist([mem EXCEPT !.status = "ROLLED_BACK"], "ready")
  /\ UNCHANGED <<frame, preimages, archives, pos, sweep, user, touched, edits>>
-----------------------------------------------------------------------------
\* seal(): _verify_expected_state, then SEALED is persisted.
Seal ==
  /\ pc = "ready" /\ mem.status = "OPEN"
  /\ IF ExpectedState(mem) THEN pc' = "sealing" /\ error' = "none" ELSE Raise("not_final")
  /\ UNCHANGED <<frame, store, mem, pos, sweep, hist>>

PersistSeal ==
  /\ pc = "sealing"
  /\ Persist([mem EXCEPT !.status = "SEALED"], "ready")
  /\ UNCHANGED <<frame, preimages, archives, pos, sweep, user, touched, edits>>

RestartUnguarded ==   \* mutant: a sealed journal may start another attempt
  /\ pc = "ready" /\ mem.status # "OPEN" /\ mem.attempt < MaxAttempts
  /\ mem.attempt \notin archives
  /\ pc' = "restarting" /\ error' = "none" /\ archives' = archives \cup {mem.attempt}
  /\ UNCHANGED <<frame, disk, preimages, mem, pos, sweep, hist>>

\* restart(): archive the journal file, then persist an empty next attempt.
Restart ==
  /\ pc = "ready" /\ mem.status = "ROLLED_BACK" /\ mem.attempt < MaxAttempts
  /\ IF mem.attempt \in archives
     THEN Raise("archive_exists") /\ UNCHANGED archives
     ELSE pc' = "restarting" /\ error' = "none" /\ archives' = archives \cup {mem.attempt}
  /\ UNCHANGED <<frame, disk, preimages, mem, pos, sweep, hist>>

PersistRestart ==
  /\ pc = "restarting"
  /\ Persist(Fresh(mem.attempt + 1), "ready")
  /\ UNCHANGED <<frame, preimages, archives, pos, sweep, user, touched, edits>>
-----------------------------------------------------------------------------
Forget == pc' = "down" /\ mem' = disk /\ pos' = 0 /\ sweep' = {} /\ error' = "none"

\* The caller is done with the transaction object, or let the exception go.
Abandon ==
  /\ pc \in {"ready", "failed"}
  /\ Forget
  /\ UNCHANGED <<frame, store, hist>>

\* The process dies.  If it dies inside _atomic_replace_bytes of a framework
\* file, the temporary file stays in the target's directory.
Crash ==
  /\ pc # "down" /\ failures < MaxFailures
  /\ failures' = failures + 1
  /\ \/ UNCHANGED litter
     \/ /\ pc \in {"replace", "restore"}
        /\ LET p == IF pc = "replace" THEN Newest.path ELSE Undoing.path IN
             /\ Above[p] \subseteq dirs
             /\ \E d \in Above[p] :
                  /\ \A x \in Above[p] : Cardinality(Above[x]) <= Cardinality(Above[d])
                  /\ litter' = litter \cup {d}
  /\ Forget
  /\ UNCHANGED <<fs, dirs, store, user, touched, edits>>

\* A person, or another tool, edits the framework.
ExternalEdit(p, c) ==
  /\ edits < MaxEdits /\ c # fs[p]
  /\ edits' = edits + 1
  /\ fs' = [fs EXCEPT ![p] = c]
  /\ dirs' = IF c = Absent THEN dirs ELSE dirs \cup Above[p]
  /\ user' = [user EXCEPT ![p] = @ \cup {c}]
  /\ touched' = IF pc \in {"down", "ready", "failed"} THEN touched ELSE touched \cup {p}
  /\ UNCHANGED <<litter, store, proc, failures>>

Write(p, c) ==
  WriteReplay(p, c) \/ WriteDrift(p, c) \/ WriteRefused(p, c) \/ WriteIntent(p, c)

UndoStep == UndoSkip \/ UndoDrift \/ UndoOwned \/ Restore \/ (\E d \in Dirs : RemoveDir(d))
              \/ CloseRollback

Transaction ==
  \/ Begin
  \/ \E p \in Paths, c \in Contents : Write(p, c)
  \/ PersistIntent \/ (\E d \in Dirs : MakeDir(d)) \/ Replace \/ VerifyWrite
  \/ Rollback \/ UndoStep
  \/ Seal \/ PersistSeal \/ Restart \/ PersistRestart
  \/ Abandon

Next ==
  \/ Transaction
  \/ Crash
  \/ \E p \in Paths, c \in Bytes : ExternalEdit(p, c)

Spec == Init /\ [][Next]_vars
-----------------------------------------------------------------------------
TypeOK ==
  /\ fs \in [Paths -> Bytes] /\ dirs \subseteq Dirs /\ litter \subseteq Dirs
  /\ disk \in Journal /\ mem \in Journal
  /\ preimages \in [Names -> Bytes] /\ archives \subseteq 1 .. MaxAttempts
  /\ pc \in Pcs /\ pos \in Nat /\ sweep \subseteq Dirs /\ error \in Errors
  /\ user \in [Paths -> SUBSET Bytes] /\ touched \subseteq Paths
  /\ edits \in Nat /\ failures \in Nat

Journaled(p) == {disk.entries[i].expected : i \in Slots(disk, p)}

\* "Recovery remains safe across process termination at every write boundary":
\* whatever the crash, a byte that nobody but the transaction wrote is the
\* target of an entry of the durable journal, and a rolled-back case leaves none.
OnlyAccountedBytes ==
  \A p \in Paths :
    \/ fs[p] \in user[p]
    \/ disk.status \in {"OPEN", "SEALED"} /\ fs[p] \in Journaled(p)

\* Every entry of the durable journal that replaced a file can be undone: its
\* preimage is on disk and is the content the entry replaced (read_preimage).
PreimagesKept ==
  \A i \in DOMAIN disk.entries :
    ~Created(disk.entries[i]) =>
      preimages[<<disk.attempt, i>>] = disk.entries[i].original

\* A completed rollback left every journaled path, unless somebody edited it
\* meanwhile, as the attempt's first entry for the path found it.
RollbackRestores ==
  [][ (disk.status = "OPEN" /\ disk'.status = "ROLLED_BACK") =>
        \A p \in Paths \ touched : \A i \in Slots(disk', p) :
          (\A k \in Slots(disk', p) : i <= k) => fs[p] = disk'.entries[i].original ]_vars

\* A directory the attempt recorded as missing survives a completed rollback
\* that nobody interfered with only if something is in it: a crash leaves no
\* empty directory behind, and a child is swept before its parent.
RollbackSweeps ==
  [][ (disk.status = "OPEN" /\ disk'.status = "ROLLED_BACK" /\ touched = {}) =>
        \A d \in disk'.dirs \cap dirs : Occupied(d) ]_vars

\* "Undo only bytes that still belong to this transaction", and its dual for
\* write: unless they appear while the call runs (the comparison of hashes and
\* the replacement are two system calls), bytes of the user are replaced or
\* deleted only when they are what an entry wrote, or when their preimage and
\* the entry that names it are on disk.
UserBytesKept ==
  [][ \A p \in Paths \ touched :
        (fs'[p] # fs[p] /\ fs[p] # Absent /\ edits' = edits) =>
          \E i \in Slots(mem, p) :
            \/ fs[p] = mem.entries[i].expected
            \/ fs[p] = preimages[<<mem.attempt, i>>] /\ i \in DOMAIN disk.entries ]_vars

\* What the module's docstring promises without that exception.
RecoverableAtEveryBoundary == error = "rollback_drift" => edits > 0
-----------------------------------------------------------------------------
\* The durable journal and the framework, seen as an all-or-nothing case.
outcome ==
  CASE disk.status = "SEALED" -> "kept"
    [] disk.status = "ROLLED_BACK" -> "undone"
    [] OTHER -> "open"
leftovers == {p \in Paths : fs[p] \notin user[p]}

Outcome == INSTANCE CaseOutcome

\* The journal protocol implements the abstract case.
AllOrNothing == Outcome!Spec
=============================================================================
