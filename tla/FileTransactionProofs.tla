----------------------- MODULE FileTransactionProofs -----------------------
(***************************************************************************)
(* Proofs, for every set of paths, contents and directories and for every  *)
(* bound, that a journal accounts for every byte the case wrote, keeps the *)
(* preimages it needs, restores what it found when a rollback completes,   *)
(* never reopens an accepted case, and so implements CaseOutcome - with an *)
(* editor who may act between any two steps.                               *)
(***************************************************************************)
EXTENDS FileTransaction, FiniteSetTheorems, TLAPS

Targets(j, p, n) == {j.entries[i].expected : i \in {k \in Slots(j, p) : k <= n}}

\* The journal in memory, against the one on disk: it is ahead by at most the
\* entry whose persist is under way or failed, or is an attempt that never got
\* to disk.
Ahead ==
  IF mem.attempt = disk.attempt
  THEN /\ Len(disk.entries) <= Len(mem.entries)
       /\ Len(mem.entries) <= Len(disk.entries) + 1
       /\ \A i \in DOMAIN disk.entries :
            /\ disk.entries[i].path = mem.entries[i].path
            /\ disk.entries[i].original = mem.entries[i].original
            /\ disk.entries[i].expected = mem.entries[i].expected
       /\ mem.status = "OPEN" => disk.status = "OPEN"
  ELSE mem.entries = <<>> /\ disk.status = "ROLLED_BACK"

Control ==
  /\ Len(mem.entries) <= MaxEntries /\ mem.attempt <= MaxAttempts
  /\ Len(disk.entries) <= MaxEntries /\ disk.attempt <= MaxAttempts
  /\ pc \in {"down", "ready", "replace", "verify", "sealing", "restarting"} => mem = disk
  /\ pc # "down" => mem.status # "NONE"
  /\ pc \in {"intent", "replace", "verify", "undo", "restore", "sealing"} =>
       mem.status = "OPEN"
  /\ pc \in {"intent", "replace", "verify"} => Len(mem.entries) > 0
  /\ pc = "restarting" => mem.status = "ROLLED_BACK" /\ mem.attempt < MaxAttempts
  /\ pc \in {"undo", "restore"} => pos <= Len(mem.entries)
  /\ pc = "restore" => pos > 0
  /\ disk.status = "SEALED" => mem = disk
  /\ disk.status = "NONE" => disk.entries = <<>> /\ pc = "down"

\* What an entry replaced was the user's, or the target of an earlier entry.
Originals ==
  disk.status = "OPEN" =>
    \A i \in DOMAIN mem.entries :
      mem.entries[i].original \in
        user[mem.entries[i].path] \cup Targets(mem, mem.entries[i].path, i - 1)

MemPreimages ==
  \A i \in DOMAIN mem.entries :
    ~Created(mem.entries[i]) => preimages[<<mem.attempt, i>>] = mem.entries[i].original

\* What the rollback has passed is the user's again.
Undone ==
  pc \in {"undo", "restore"} =>
    \A p \in Paths : fs[p] \in user[p] \cup Targets(mem, p, pos)

\* ... and is what the earliest entry passed so far found.
UndoneExactly ==
  pc \in {"undo", "restore"} =>
    \A p \in Paths \ touched : \A i \in Slots(mem, p) :
      (i > pos /\ \A k \in Slots(mem, p) : k < i => k <= pos)
        => fs[p] = mem.entries[i].original

IInv ==
  /\ TypeOK /\ Ahead /\ Control
  /\ OnlyAccountedBytes /\ PreimagesKept
  /\ Originals /\ MemPreimages /\ Undone /\ UndoneExactly
-----------------------------------------------------------------------------
LEMMA FreshTypes ==
  ASSUME NEW n \in Nat \ {0} PROVE Fresh(n) \in Journal
<1>1. <<>> \in Seq(Entry)
  OBVIOUS
<1> QED
  BY <1>1 DEF Fresh, Journal, Status

LEMMA JournalTypes ==
  ASSUME NEW j \in Journal
  PROVE  /\ j.status \in Status /\ j.attempt \in Nat \ {0} /\ j.dirs \subseteq Dirs
         /\ j.entries \in Seq(Entry) /\ Len(j.entries) \in Nat
         /\ DOMAIN j.entries = 1 .. Len(j.entries)
         /\ \A i \in 1 .. Len(j.entries) :
              /\ j.entries[i] \in Entry
              /\ j.entries[i].path \in Paths /\ j.entries[i].original \in Bytes
              /\ j.entries[i].expected \in Contents /\ j.entries[i].applied \in BOOLEAN
<1>1. j.status \in Status /\ j.attempt \in Nat \ {0} /\ j.dirs \subseteq Dirs
      /\ j.entries \in Seq(Entry)
  BY DEF Journal
<1>2. Len(j.entries) \in Nat /\ DOMAIN j.entries = 1 .. Len(j.entries)
      /\ \A i \in 1 .. Len(j.entries) : j.entries[i] \in Entry
  BY <1>1
<1> QED
  BY <1>1, <1>2 DEF Entry

LEMMA InitTypes ==
  ASSUME Init PROVE TypeOK
<1>1. fs \in [Paths -> Bytes] /\ litter \subseteq Dirs
  BY DEF Init
<1>2. dirs \subseteq Dirs
  <2>1. \A p \in Paths : Above[p] \subseteq Dirs
    BY ConstantsAssumption
  <2> QED
    BY <2>1 DEF Init
<1>3. disk \in Journal /\ mem \in Journal
  <2>1. Fresh(1) \in Journal
    BY FreshTypes
  <2> QED
    BY <2>1 DEF Init, Journal, Status
<1>4. preimages \in [Names -> Bytes]
  BY DEF Bytes, Init
<1>5. user \in [Paths -> SUBSET Bytes]
  BY <1>1 DEF Init
<1>6. /\ archives \subseteq 1 .. MaxAttempts /\ pc \in Pcs /\ pos \in Nat
      /\ sweep \subseteq Dirs /\ error \in Errors /\ touched \subseteq Paths
      /\ edits \in Nat /\ failures \in Nat
  BY DEF Pcs, Errors, Init
<1> QED
  BY <1>1, <1>2, <1>3, <1>4, <1>5, <1>6 DEF TypeOK

LEMMA InitInv == Init => IInv
<1> SUFFICES ASSUME Init PROVE IInv
  OBVIOUS
<1>1. TypeOK
  BY InitTypes
<1>2. Ahead /\ Control
  BY ConstantsAssumption DEF Init, Ahead, Control, Fresh
<1>3. OnlyAccountedBytes /\ PreimagesKept
  BY DEF Init, OnlyAccountedBytes, PreimagesKept, Fresh, Paths
<1>4. Originals /\ MemPreimages /\ Undone /\ UndoneExactly
  BY DEF Init, Originals, MemPreimages, Undone, UndoneExactly, Fresh
<1> QED
  BY <1>1, <1>2, <1>3, <1>4 DEF IInv

\* Nothing but the control of the process changes: the step ends a call or
\* starts one that only reads.
LEMMA ControlStep ==
  ASSUME IInv, UNCHANGED <<fs, disk, preimages, mem, user, touched, pos>>,
         TypeOK', Control',
         pc' \in {"undo", "restore"} => pc \in {"undo", "restore"}
  PROVE  IInv'
<1>1. Ahead' /\ OnlyAccountedBytes' /\ PreimagesKept' /\ Originals' /\ MemPreimages'
  BY DEF IInv, Ahead, OnlyAccountedBytes, PreimagesKept, Originals, MemPreimages,
         Journaled, Targets, Slots, Created
<1>2. Undone' /\ UndoneExactly'
  BY DEF IInv, Undone, UndoneExactly, Targets, Slots
<1> QED
  BY <1>1, <1>2 DEF IInv

LEMMA BeginStep == IInv /\ Begin => IInv'
<1> SUFFICES ASSUME IInv, Begin PROVE IInv'
  OBVIOUS
<1> USE DEF Begin, frame, hist
<1>1. TypeOK'
  BY DEF IInv, TypeOK, Fresh, Journal, Entry, Status, Pcs, Errors
<1>2. Ahead' /\ Control'
  BY <1>1, ConstantsAssumption DEF IInv, TypeOK, Ahead, Control, Fresh, Journal
<1>3. mem'.entries = disk.entries /\ disk'.entries = disk.entries /\ mem = disk
  BY DEF IInv, Control, Fresh
<1>4. disk.status # "NONE" => disk' = disk
  OBVIOUS
<1>5. OnlyAccountedBytes' /\ PreimagesKept'
  BY <1>3, <1>4 DEF IInv, OnlyAccountedBytes, PreimagesKept, Journaled, Slots, Control, Fresh
<1>6. Originals' /\ MemPreimages' /\ Undone' /\ UndoneExactly'
  BY <1>3, <1>4 DEF IInv, Originals, MemPreimages, Undone, UndoneExactly, Targets, Slots,
       Control, Fresh, Created
<1> QED
  BY <1>1, <1>2, <1>5, <1>6 DEF IInv
LEMMA ReadingSteps ==
  ASSUME IInv,
         \/ \E p \in Paths, c \in Contents :
              WriteReplay(p, c) \/ WriteDrift(p, c) \/ WriteRefused(p, c)
         \/ \E d \in Dirs : MakeDir(d) \/ RemoveDir(d)
         \/ UndoDrift \/ UndoOwned \/ Seal \/ Restart
  PROVE  IInv'
<1>1. CASE \E p \in Paths, c \in Contents :
             WriteReplay(p, c) \/ WriteDrift(p, c) \/ WriteRefused(p, c)
  <2>1. TypeOK'
    BY <1>1 DEF IInv, TypeOK, WriteReplay, WriteDrift, WriteRefused, Raise, Pcs, Errors,
         frame, store, hist
  <2>2. Control' /\ pc' \in {"ready", "failed"}
    BY <1>1 DEF IInv, Control, WriteReplay, WriteDrift, WriteRefused, Writable, Base, Raise,
         frame, store, hist
  <2> QED
    BY <1>1, <2>1, <2>2, ControlStep DEF WriteReplay, WriteDrift, WriteRefused, frame,
         store, hist
<1>2. CASE \E d \in Dirs : MakeDir(d) \/ RemoveDir(d)
  <2>1. TypeOK'
    BY <1>2 DEF IInv, TypeOK, MakeDir, RemoveDir, proc, store, hist
  <2>2. Control' /\ pc' = pc
    BY <1>2 DEF IInv, Control, MakeDir, RemoveDir, proc, store, hist
  <2> QED
    BY <1>2, <2>1, <2>2, ControlStep DEF MakeDir, RemoveDir, proc, store, hist
<1>3. CASE UndoDrift \/ UndoOwned
  <2>1. TypeOK'
    BY <1>3 DEF IInv, TypeOK, UndoDrift, UndoOwned, Raise, Pcs, Errors, frame, store, hist
  <2>2. Control' /\ pc = "undo"
    BY <1>3 DEF IInv, Control, UndoDrift, UndoOwned, Raise, frame, store, hist
  <2> QED
    BY <1>3, <2>1, <2>2, ControlStep DEF UndoDrift, UndoOwned, frame, store, hist
<1>4. CASE Seal \/ Restart
  <2>1. TypeOK'
    <3>1. mem.attempt < MaxAttempts => mem.attempt \in 1 .. MaxAttempts
      BY JournalTypes, ConstantsAssumption DEF IInv, TypeOK
    <3> QED
      BY <1>4, <3>1 DEF IInv, TypeOK, Seal, Restart, Raise, Pcs, Errors, frame, hist, store
  <2>2. Control' /\ pc' \in {"sealing", "restarting", "failed"}
    BY <1>4 DEF IInv, TypeOK, Control, Seal, Restart, Raise, Journal, frame, hist, store
  <2> QED
    BY <1>4, <2>1, <2>2, ControlStep DEF Seal, Restart, frame, hist, store
<1> QED
  BY <1>1, <1>2, <1>3, <1>4

\* The process is gone: what memory had beyond the disk is lost.
LEMMA ForgetStep ==
  ASSUME IInv, Abandon \/ Crash PROVE IInv'
<1>1. /\ pc' = "down" /\ mem' = disk /\ disk' = disk /\ preimages' = preimages
      /\ fs' = fs /\ user' = user /\ disk.status # "NONE"
  BY DEF IInv, Control, Abandon, Crash, Forget, frame, store, hist
<1>2. TypeOK'
  <2>1. litter' \subseteq Dirs
    <3>1. \A p \in Paths : Above[p] \subseteq Dirs
      BY ConstantsAssumption
    <3>2. CASE Crash /\ pc \in {"replace", "restore"}
      <4>1. pc = "replace" => Newest.path \in Paths
        BY JournalTypes DEF IInv, TypeOK, Control, Newest
      <4>2. pc = "restore" => Undoing.path \in Paths
        BY JournalTypes DEF IInv, TypeOK, Control, Undoing
      <4> QED
        BY <3>1, <3>2, <4>1, <4>2 DEF IInv, TypeOK, Crash
    <3> QED
      BY <3>2 DEF IInv, TypeOK, Abandon, Crash, frame
  <2>2. /\ pos' = 0 /\ sweep' = {} /\ error' = "none" /\ archives' = archives
        /\ dirs' = dirs /\ touched' = touched /\ edits' = edits /\ failures' \in Nat
    BY DEF IInv, TypeOK, Abandon, Crash, Forget, frame, store, hist
  <2> QED
    BY <1>1, <2>1, <2>2 DEF IInv, TypeOK, Pcs, Errors
<1>3. Control'
  BY <1>1 DEF IInv, TypeOK, Control, Journal
<1>4. Ahead'
  BY <1>1 DEF IInv, TypeOK, Ahead, Journal
<1>5. OnlyAccountedBytes' /\ PreimagesKept' /\ MemPreimages'
  BY <1>1 DEF IInv, OnlyAccountedBytes, PreimagesKept, MemPreimages, Journaled, Slots, Created
<1>6. Originals'
  <2> SUFFICES ASSUME disk.status = "OPEN", NEW i \in DOMAIN disk.entries
               PROVE  disk.entries[i].original \in
                        user[disk.entries[i].path]
                          \cup Targets(disk, disk.entries[i].path, i - 1)
    BY <1>1 DEF Originals, Targets, Slots
  <2>1. /\ DOMAIN disk.entries \subseteq DOMAIN mem.entries
        /\ \A k \in DOMAIN disk.entries :
             /\ disk.entries[k].path = mem.entries[k].path
             /\ disk.entries[k].original = mem.entries[k].original
             /\ disk.entries[k].expected = mem.entries[k].expected
    BY DEF IInv, Ahead, TypeOK, Journal
  <2>2. DOMAIN disk.entries = 1 .. Len(disk.entries) /\ Len(disk.entries) \in Nat
    BY DEF IInv, TypeOK, Journal
  <2>3. \A p \in Paths : Targets(mem, p, i - 1) \subseteq Targets(disk, p, i - 1)
    <3> SUFFICES ASSUME NEW p \in Paths, NEW k \in DOMAIN mem.entries,
                        mem.entries[k].path = p, k <= i - 1
                 PROVE  mem.entries[k].expected \in Targets(disk, p, i - 1)
      BY DEF Targets, Slots
    <3>1. k \in DOMAIN disk.entries
      BY <2>2, JournalTypes DEF IInv, TypeOK
    <3> QED
      BY <2>1, <3>1 DEF Targets, Slots
  <2>4. disk.entries[i].path \in Paths
    BY JournalTypes, <2>2 DEF IInv, TypeOK
  <2>5. mem.entries[i].original \in
          user[mem.entries[i].path] \cup Targets(mem, mem.entries[i].path, i - 1)
    BY <2>1 DEF IInv, Originals
  <2> QED
    BY <2>1, <2>3, <2>4, <2>5
<1> QED
  BY <1>1, <1>2, <1>3, <1>4, <1>5, <1>6 DEF IInv, Undone, UndoneExactly

-----------------------------------------------------------------------------
\* A step that leaves the journal in memory and changes the framework or the
\* user's history of one path.
LEMMA EditStep ==
  ASSUME IInv, NEW p \in Paths, NEW c \in Bytes, ExternalEdit(p, c) PROVE IInv'
<1>1. \A q \in Paths : /\ user[q] \subseteq user'[q] /\ (q # p => fs'[q] = fs[q])
                       /\ fs'[p] \in user'[p]
                       /\ touched \subseteq touched' /\ touched' \subseteq Paths
                       /\ pc \in {"undo", "restore"} => p \in touched'
  BY DEF IInv, TypeOK, ExternalEdit
<1>2. UNCHANGED <<disk, preimages, mem, pc, pos>>
  BY DEF ExternalEdit, store, proc
<1>3. TypeOK'
  <2>1. dirs' \subseteq Dirs
    BY ConstantsAssumption DEF IInv, TypeOK, ExternalEdit
  <2> QED
    BY <2>1 DEF IInv, TypeOK, ExternalEdit, store, proc
<1>4. Ahead' /\ Control' /\ PreimagesKept' /\ MemPreimages'
  BY <1>2 DEF IInv, Ahead, Control, PreimagesKept, MemPreimages, Created
<1>5. OnlyAccountedBytes'
  BY <1>1, <1>2 DEF IInv, OnlyAccountedBytes, Journaled, Slots
<1>6. Originals'
  BY <1>1, <1>2, JournalTypes DEF IInv, TypeOK, Originals, Targets, Slots
<1>7. Undone' /\ UndoneExactly'
  BY <1>1, <1>2 DEF IInv, Undone, UndoneExactly, Targets, Slots
<1> QED
  BY <1>3, <1>4, <1>5, <1>6, <1>7 DEF IInv

LEMMA ReplaceStep ==
  ASSUME IInv, Replace PROVE IInv'
<1> DEFINE n == Len(mem.entries)
           e == mem.entries[n]
<1>1. /\ mem = disk /\ mem.status = "OPEN" /\ n \in DOMAIN mem.entries
      /\ e.path \in Paths /\ e.expected \in Contents
  BY JournalTypes DEF IInv, TypeOK, Control, Replace
<1>2. /\ fs' = fs \/ fs' = [fs EXCEPT ![e.path] = e.expected]
      /\ pc' \in {"verify", "failed"} /\ error' \in {error, "io"} /\ failures' \in Nat
      /\ UNCHANGED <<dirs, litter, store, mem, pos, sweep, user, touched, edits>>
  BY DEF IInv, TypeOK, Replace, Newest, Fault, Raise
<1>3. TypeOK'
  BY <1>1, <1>2 DEF IInv, TypeOK, Bytes, Pcs, Errors, store
<1>4. Ahead' /\ PreimagesKept' /\ MemPreimages' /\ Originals' /\ Undone' /\ UndoneExactly'
  BY <1>2 DEF IInv, Ahead, PreimagesKept, MemPreimages, Originals, Undone, UndoneExactly,
       Targets, Slots, Created, store
<1>5. Control'
  BY <1>1, <1>2 DEF IInv, Control, store, Replace
<1>6. OnlyAccountedBytes'
  <2>1. e.expected \in Journaled(e.path)
    BY <1>1 DEF Journaled, Slots
  <2> QED
    BY <1>1, <1>2, <2>1 DEF IInv, TypeOK, OnlyAccountedBytes, Journaled, Slots, store
<1> QED
  BY <1>3, <1>4, <1>5, <1>6 DEF IInv

-----------------------------------------------------------------------------
LEMMA WriteIntentStep ==
  ASSUME IInv, NEW p \in Paths, NEW c \in Contents, WriteIntent(p, c) PROVE IInv'
<1> DEFINE n == Len(mem.entries)
           e == mem'.entries[n + 1]
<1>1. /\ mem = disk /\ mem.status = "OPEN" /\ n \in Nat /\ n < MaxEntries
      /\ mem.entries \in Seq(Entry) /\ mem \in Journal
      /\ DOMAIN mem.entries = 1 .. n
  BY JournalTypes DEF IInv, TypeOK, Control, WriteIntent, Base, Writable
<1>2. PICK new \in Entry :
        /\ new.path = p /\ new.original = fs[p]
        /\ mem' = [mem EXCEPT !.entries = Append(@, new), !.dirs = @ \cup (Above[p] \ dirs)]
  <2> DEFINE keep == p \in InitPaths /\ fs[p] # Absent
             new == [path |-> p, original |-> fs[p],
                     expected |-> IF keep THEN fs[p] ELSE c, applied |-> keep]
  <2>1. new \in Entry
    BY DEF IInv, TypeOK, Entry, Bytes
  <2> QED
    BY <2>1 DEF WriteIntent
<1>3. /\ mem'.entries = Append(mem.entries, new) /\ mem'.status = "OPEN"
      /\ mem'.attempt = mem.attempt /\ mem' \in Journal
  <2>1. Above[p] \subseteq Dirs
    BY ConstantsAssumption
  <2>2. Append(mem.entries, new) \in Seq(Entry)
    BY <1>1
  <2> QED
    BY <1>1, <1>2, <2>1, <2>2 DEF Journal
<1>4. /\ DOMAIN mem'.entries = 1 .. n + 1 /\ Len(mem'.entries) = n + 1 /\ e = new
      /\ \A i \in 1 .. n : mem'.entries[i] = mem.entries[i]
  BY <1>1, <1>3
<1>5. /\ UNCHANGED <<fs, dirs, litter, disk, archives, pos, sweep, user, edits, failures>>
      /\ pc' = "intent" /\ error' = "none" /\ touched' = {}
  BY DEF WriteIntent, frame
<1>6. /\ preimages' \in [Names -> Bytes]
      /\ \A i \in 1 .. n : preimages'[<<mem.attempt, i>>] = preimages[<<mem.attempt, i>>]
      /\ fs[p] # Absent => preimages'[<<mem.attempt, n + 1>>] = fs[p]
  <2>1. <<mem.attempt, n + 1>> \in Names
    BY <1>1, ConstantsAssumption, JournalTypes DEF IInv, TypeOK, Control, Names
  <2>2. fs[p] \in Bytes
    BY DEF IInv, TypeOK
  <2>3. preimages' = IF fs[p] = Absent THEN preimages
                     ELSE [preimages EXCEPT ![<<mem.attempt, n + 1>>] = fs[p]]
    BY DEF WriteIntent, PreimageName
  <2>4. \A i \in 1 .. n : <<mem.attempt, i>> # <<mem.attempt, n + 1>>
    BY <1>1
  <2>5. \A i \in 1 .. n : <<mem.attempt, i>> \in Names
    BY <1>1, ConstantsAssumption, JournalTypes DEF IInv, TypeOK, Control, Names
  <2>6. preimages \in [Names -> Bytes]
    BY DEF IInv, TypeOK
  <2> QED
    BY <2>1, <2>2, <2>3, <2>4, <2>5, <2>6
<1>7. TypeOK'
  BY <1>3, <1>5, <1>6 DEF IInv, TypeOK, Pcs, Errors, hist
<1>8. Ahead'
  BY <1>1, <1>3, <1>4, <1>5 DEF Ahead
<1>9. Control'
  BY <1>1, <1>3, <1>4, <1>5, ConstantsAssumption DEF IInv, Control
<1>10. OnlyAccountedBytes'
  BY <1>5 DEF IInv, OnlyAccountedBytes, Journaled, Slots, hist
<1>11. PreimagesKept' /\ MemPreimages'
  BY <1>1, <1>2, <1>3, <1>4, <1>5, <1>6 DEF IInv, PreimagesKept, MemPreimages, Created
<1>12. Originals'
  <2>1. \A i \in 1 .. n + 1 : \A q \in Paths :
          Targets(mem', q, i - 1) = Targets(mem, q, i - 1)
    <3> SUFFICES ASSUME NEW i \in 1 .. n + 1, NEW q \in Paths
                 PROVE  Targets(mem', q, i - 1) = Targets(mem, q, i - 1)
      OBVIOUS
    <3>1. {k \in Slots(mem', q) : k <= i - 1} = {k \in Slots(mem, q) : k <= i - 1}
      BY <1>1, <1>4 DEF Slots
    <3>2. \A k \in {m \in Slots(mem, q) : m <= i - 1} :
            mem'.entries[k].expected = mem.entries[k].expected
      BY <1>1, <1>4 DEF Slots
    <3> QED
      BY <3>1, <3>2 DEF Targets
  <2>2. fs[p] \in user[p] \cup Targets(mem, p, n)
    BY <1>1 DEF IInv, OnlyAccountedBytes, Journaled, Targets, Slots
  <2>3. \A i \in 1 .. n : mem.entries[i].original \in
          user[mem.entries[i].path] \cup Targets(mem, mem.entries[i].path, i - 1)
    BY <1>1 DEF IInv, Originals
  <2>4. \A i \in 1 .. n : mem.entries[i].path \in Paths
    BY <1>1, JournalTypes
  <2>5. \A i \in 1 .. n + 1 : mem'.entries[i].original \in
          user[mem'.entries[i].path] \cup Targets(mem', mem'.entries[i].path, i - 1)
    <3> SUFFICES ASSUME NEW i \in 1 .. n + 1
                 PROVE  mem'.entries[i].original \in
                     user[mem'.entries[i].path] \cup Targets(mem', mem'.entries[i].path, i - 1)
      OBVIOUS
    <3>1. CASE i = n + 1
      <4>1. mem'.entries[i].original = fs[p] /\ mem'.entries[i].path = p
        BY <3>1, <1>2, <1>4
      <4>2. Targets(mem', p, i - 1) = Targets(mem, p, n)
        BY <3>1, <1>1, <2>1
      <4> QED
        BY <4>1, <4>2, <2>2
    <3>2. CASE i \in 1 .. n
      BY <3>2, <1>4, <2>1, <2>3, <2>4
    <3> QED
      BY <3>1, <3>2, <1>1
  <2> QED
    BY <1>4, <1>5, <2>5 DEF Originals, hist
<1>13. Undone' /\ UndoneExactly'
  BY <1>5 DEF Undone, UndoneExactly
<1> QED
  BY <1>7, <1>8, <1>9, <1>10, <1>11, <1>12, <1>13 DEF IInv

-----------------------------------------------------------------------------
\* Two journals whose entries differ in applied only.
SameIntents(j, k) ==
  /\ j.attempt = k.attempt /\ Len(j.entries) = Len(k.entries)
  /\ \A i \in 1 .. Len(k.entries) :
       /\ j.entries[i].path = k.entries[i].path
       /\ j.entries[i].original = k.entries[i].original
       /\ j.entries[i].expected = k.entries[i].expected

LEMMA SameTargets ==
  ASSUME NEW j \in Journal, NEW k \in Journal, SameIntents(j, k), NEW p \in Paths, NEW n
  PROVE  Targets(j, p, n) = Targets(k, p, n) /\ Slots(j, p) = Slots(k, p)
<1>1. Slots(j, p) = Slots(k, p) /\ \A i \in Slots(k, p) : i \in 1 .. Len(k.entries)
  BY JournalTypes DEF SameIntents, Slots
<1> QED
  BY <1>1 DEF SameIntents, Targets

LEMMA PersistStep ==
  ASSUME IInv, mem.status = "OPEN", pc # "down",
         NEW j \in Journal, NEW next \in {"ready", "replace"},
         Persist(j, next), SameIntents(j, mem),
         UNCHANGED <<fs, dirs, litter, preimages, archives, pos, sweep, user, touched,
                     edits>>,
         \/ j.status = "OPEN" /\ Len(mem.entries) > 0
         \/ j.status = "SEALED" /\ mem = disk /\ next = "ready"
         \/ j.status = "ROLLED_BACK" /\ pc = "undo" /\ pos = 0 /\ next = "ready"
  PROVE  IInv'
<1>1. /\ mem' = j
      /\ \/ disk' = j /\ pc' = next /\ error' = error /\ failures' = failures
         \/ disk' = disk /\ pc' = "failed" /\ error' = "io" /\ failures' \in Nat
  BY DEF IInv, TypeOK, Persist, Fault, Raise
<1>2. TypeOK'
  BY <1>1 DEF IInv, TypeOK, Pcs, Errors
<1>3. Ahead'
  <2>1. CASE disk' = j
    <3>1. Len(j.entries) \in Nat
      BY JournalTypes
    <3> QED
      BY <1>1, <2>1, <3>1 DEF Ahead
  <2>2. CASE disk' = disk /\ mem.attempt = disk.attempt
    <3>1. DOMAIN disk.entries = 1 .. Len(disk.entries) /\ Len(disk.entries) \in Nat
          /\ Len(mem.entries) \in Nat
      BY JournalTypes DEF IInv, TypeOK
    <3>2. /\ Len(disk.entries) <= Len(mem.entries)
          /\ Len(mem.entries) <= Len(disk.entries) + 1 /\ disk.status = "OPEN"
          /\ \A i \in DOMAIN disk.entries :
               /\ disk.entries[i].path = mem.entries[i].path
               /\ disk.entries[i].original = mem.entries[i].original
               /\ disk.entries[i].expected = mem.entries[i].expected
      BY <2>2 DEF IInv, Ahead
    <3> QED
      BY <1>1, <2>2, <3>1, <3>2 DEF Ahead, SameIntents
  <2>3. CASE disk' = disk /\ mem.attempt # disk.attempt
    <3>1. j.entries = <<>>
      BY <2>3, JournalTypes DEF IInv, Ahead, SameIntents
    <3> QED
      BY <1>1, <2>3, <3>1 DEF IInv, Ahead, SameIntents
  <2> QED
    BY <1>1, <2>1, <2>2, <2>3
<1>4. Control'
  BY <1>1 DEF IInv, TypeOK, Control, SameIntents, Ahead
<1>5. \A p \in Paths : \A n : Targets(mem', p, n) = Targets(mem, p, n)
                              /\ Slots(mem', p) = Slots(mem, p)
  BY <1>1, SameTargets DEF IInv, TypeOK
<1>6. \A i \in DOMAIN mem'.entries :
        /\ i \in DOMAIN mem.entries /\ mem.entries[i].path \in Paths
        /\ mem'.entries[i].path = mem.entries[i].path
        /\ mem'.entries[i].original = mem.entries[i].original
  BY <1>1, JournalTypes DEF IInv, TypeOK, SameIntents
<1>7. MemPreimages' /\ PreimagesKept'
  BY <1>1, <1>6 DEF IInv, MemPreimages, PreimagesKept, Created, SameIntents
<1>8. Originals'
  <2>1. disk'.status = "OPEN" => disk.status = "OPEN" \/ mem.entries = <<>>
    BY <1>1 DEF IInv, Ahead
  <2> QED
    BY <1>1, <1>5, <1>6, <2>1 DEF IInv, Originals
<1>9. OnlyAccountedBytes'
  <2>1. CASE disk' = disk
    BY <2>1 DEF IInv, OnlyAccountedBytes, Journaled, Slots
  <2>2. CASE disk' = j /\ j.status = "ROLLED_BACK"
    <3>1. \A p \in Paths : Targets(mem, p, 0) = {}
      BY JournalTypes DEF IInv, TypeOK, Targets, Slots
    <3>2. \A p \in Paths : fs[p] \in user[p]
      BY <2>2, <3>1 DEF IInv, Undone
    <3> QED
      BY <3>2 DEF OnlyAccountedBytes
  <2>3. CASE disk' = j /\ j.status # "ROLLED_BACK"
    <3>1. \A p \in Paths : Journaled(p) \subseteq Journaled(p)'
      <4> SUFFICES ASSUME NEW p \in Paths, NEW i \in DOMAIN disk.entries,
                          disk.entries[i].path = p
                   PROVE  disk.entries[i].expected \in Journaled(p)'
        BY DEF Journaled, Slots
      <4>1. i \in 1 .. Len(mem.entries) /\ mem.entries[i].path = p
            /\ mem.entries[i].expected = disk.entries[i].expected
        BY <2>3, JournalTypes DEF IInv, TypeOK, Ahead
      <4>2. i \in DOMAIN j.entries /\ j.entries[i].path = p
            /\ j.entries[i].expected = disk.entries[i].expected
        BY <4>1, JournalTypes DEF SameIntents
      <4> QED
        BY <2>3, <4>2 DEF Journaled, Slots
    <3> QED
      BY <2>3, <3>1 DEF IInv, OnlyAccountedBytes
  <2> QED
    BY <1>1, <2>1, <2>2, <2>3
<1> QED
  BY <1>1, <1>2, <1>3, <1>4, <1>7, <1>8, <1>9 DEF IInv, Undone, UndoneExactly

LEMMA PersistingSteps ==
  ASSUME IInv, PersistIntent \/ VerifyWrite \/ CloseRollback \/ PersistSeal PROVE IInv'
<1>1. /\ mem \in Journal /\ Len(mem.entries) \in Nat /\ mem.status \in Status
      /\ pc \in {"intent", "verify", "undo", "sealing"} => mem.status = "OPEN"
  BY JournalTypes DEF IInv, TypeOK, Control
<1>2. CASE PersistIntent
  <2>1. SameIntents(mem, mem) /\ Len(mem.entries) > 0
    BY <1>2 DEF IInv, Control, SameIntents, PersistIntent
  <2>2. PICK next \in {"ready", "replace"} : Persist(mem, next)
    BY <1>2 DEF PersistIntent
  <2> QED
    BY <1>1, <1>2, <2>1, <2>2, PersistStep DEF PersistIntent, frame
<1>3. CASE VerifyWrite
  <2> DEFINE n == Len(mem.entries)
             j == [mem EXCEPT !.entries[n].applied = TRUE]
  <2>1. n > 0 /\ n \in 1 .. n /\ DOMAIN mem.entries = 1 .. n /\ mem.entries \in Seq(Entry)
        /\ mem.entries[n] \in Entry
    BY <1>1, <1>3, JournalTypes DEF IInv, Control, VerifyWrite
  <2>2. [mem.entries[n] EXCEPT !.applied = TRUE] \in Entry
    BY <2>1 DEF Entry
  <2>3. [mem.entries EXCEPT ![n].applied = TRUE] \in Seq(Entry)
    BY <2>1, <2>2
  <2>4. j \in Journal /\ j.status = mem.status
    BY <1>1, <2>3 DEF Journal
  <2>5. SameIntents(j, mem)
    BY <1>1, <2>1 DEF SameIntents, Journal, Entry
  <2>6. CASE Persist(j, "ready")
    BY <1>1, <1>3, <2>1, <2>4, <2>5, <2>6, PersistStep DEF VerifyWrite, frame
  <2>7. CASE Raise("mismatch") /\ UNCHANGED <<mem, disk, failures>>
    <3>1. TypeOK'
      BY <1>3, <2>7 DEF IInv, TypeOK, VerifyWrite, Raise, Pcs, Errors, frame
    <3>2. Control'
      BY <1>3, <2>7 DEF IInv, Control, VerifyWrite, Raise, frame
    <3> QED
      BY <1>3, <2>7, <3>1, <3>2, ControlStep DEF VerifyWrite, Raise, frame
  <2> QED
    BY <1>3, <2>6, <2>7 DEF VerifyWrite
<1>4. CASE CloseRollback
  <2> DEFINE j == [mem EXCEPT !.status = "ROLLED_BACK"]
  <2>1. j \in Journal /\ SameIntents(j, mem) /\ j.status = "ROLLED_BACK"
    BY <1>1 DEF Journal, Status, SameIntents
  <2> QED
    BY <1>1, <1>4, <2>1, PersistStep DEF CloseRollback, frame
<1>5. CASE PersistSeal
  <2> DEFINE j == [mem EXCEPT !.status = "SEALED"]
  <2>1. j \in Journal /\ SameIntents(j, mem) /\ j.status = "SEALED" /\ mem = disk
    BY <1>1, <1>5 DEF Journal, Status, SameIntents, IInv, Control, PersistSeal
  <2> QED
    BY <1>1, <1>5, <2>1, PersistStep DEF PersistSeal, frame
<1> QED
  BY <1>2, <1>3, <1>4, <1>5

LEMMA PersistRestartStep ==
  ASSUME IInv, PersistRestart PROVE IInv'
<1> DEFINE j == Fresh(mem.attempt + 1)
<1>1. /\ mem = disk /\ mem.status = "ROLLED_BACK" /\ mem.attempt < MaxAttempts
      /\ mem.attempt \in Nat \ {0} /\ mem.attempt + 1 \in Nat \ {0}
  BY JournalTypes DEF IInv, TypeOK, Control, PersistRestart
<1>2. j \in Journal /\ j.entries = <<>> /\ j.attempt = mem.attempt + 1 /\ j.status = "OPEN"
  BY <1>1, FreshTypes DEF Fresh
<1>3. /\ mem' = j
      /\ \/ disk' = j /\ pc' = "ready" /\ error' = error /\ failures' = failures
         \/ disk' = disk /\ pc' = "failed" /\ error' = "io" /\ failures' \in Nat
      /\ UNCHANGED <<fs, dirs, litter, preimages, archives, pos, sweep, user, touched,
                     edits>>
  BY DEF IInv, TypeOK, PersistRestart, Persist, Fault, Raise, frame
<1>4. TypeOK'
  BY <1>2, <1>3 DEF IInv, TypeOK, Pcs, Errors
<1>5. Ahead'
  BY <1>1, <1>2, <1>3 DEF Ahead
<1>6. Control'
  BY <1>1, <1>2, <1>3, ConstantsAssumption DEF IInv, Control
<1>7. OnlyAccountedBytes' /\ PreimagesKept'
  BY <1>1, <1>2, <1>3 DEF IInv, OnlyAccountedBytes, PreimagesKept, Journaled, Slots, Created
<1>8. Originals' /\ MemPreimages' /\ Undone' /\ UndoneExactly'
  BY <1>2, <1>3 DEF Originals, MemPreimages, Undone, UndoneExactly
<1> QED
  BY <1>4, <1>5, <1>6, <1>7, <1>8 DEF IInv

-----------------------------------------------------------------------------
LEMMA RollbackStep ==
  ASSUME IInv, Rollback PROVE IInv'
<1>1. /\ pc' = "undo" /\ pos' = Len(mem.entries) /\ mem.status = "OPEN" /\ touched' = {}
      /\ sweep' = mem.dirs /\ error' = "none" /\ pc # "down"
      /\ UNCHANGED <<frame, store, mem, user, edits, failures>>
  BY DEF Rollback
<1>2. TypeOK'
  BY <1>1, JournalTypes DEF IInv, TypeOK, Pcs, Errors, frame, store
<1>3. Ahead' /\ PreimagesKept' /\ MemPreimages' /\ Originals' /\ OnlyAccountedBytes'
  BY <1>1 DEF IInv, Ahead, PreimagesKept, MemPreimages, Originals, OnlyAccountedBytes,
       Targets, Journaled, Slots, Created, frame, store
<1>4. Control'
  BY <1>1, JournalTypes DEF IInv, TypeOK, Control, store
<1>5. Undone'
  <2> SUFFICES ASSUME NEW p \in Paths
               PROVE  fs[p] \in user[p] \cup Targets(mem, p, Len(mem.entries))
    BY <1>1 DEF Undone, Targets, Slots, frame
  <2>1. CASE mem.attempt = disk.attempt
    <3>1. Journaled(p) \subseteq Targets(mem, p, Len(mem.entries))
      BY <2>1, JournalTypes DEF IInv, TypeOK, Ahead, Journaled, Targets, Slots
    <3> QED
      BY <3>1 DEF IInv, OnlyAccountedBytes
  <2>2. CASE mem.attempt # disk.attempt
    BY <2>2 DEF IInv, Ahead, OnlyAccountedBytes
  <2> QED
    BY <2>1, <2>2
<1>6. UndoneExactly'
  <2>1. \A p \in Paths : \A i \in Slots(mem, p) : i <= Len(mem.entries)
    BY JournalTypes DEF IInv, TypeOK, Slots
  <2> QED
    BY <1>1, <2>1, JournalTypes DEF IInv, TypeOK, UndoneExactly, Slots, frame
<1> QED
  BY <1>2, <1>3, <1>4, <1>5, <1>6 DEF IInv

\* The rollback has dealt with the entry at pos, whose path now holds what the
\* entry replaced.
LEMMA UndoAdvances ==
  ASSUME IInv, pc \in {"undo", "restore"}, pos > 0,
         fs'[Undoing.path] = Undoing.original,
         \A p \in Paths \ {Undoing.path} : fs'[p] = fs[p],
         pos' = pos - 1, pc' = "undo",
         UNCHANGED <<disk, mem, preimages, user, touched>>, TypeOK', Control'
  PROVE  IInv'
<1> DEFINE e == mem.entries[pos]
<1>1. /\ pos \in 1 .. Len(mem.entries) /\ Len(mem.entries) \in Nat /\ e.path \in Paths
      /\ DOMAIN mem.entries = 1 .. Len(mem.entries) /\ Undoing = e
      /\ mem.status = "OPEN" /\ pos \in Nat
  BY JournalTypes DEF IInv, TypeOK, Control, Undoing
<1>2. /\ mem.attempt = disk.attempt /\ disk.status = "OPEN"
      /\ DOMAIN disk.entries = 1 .. Len(disk.entries) /\ Len(disk.entries) \in Nat
      /\ Len(mem.entries) <= Len(disk.entries) + 1
      /\ \A i \in 1 .. Len(disk.entries) :
           /\ disk.entries[i].path = mem.entries[i].path
           /\ disk.entries[i].expected = mem.entries[i].expected
  BY <1>1, JournalTypes DEF IInv, TypeOK, Ahead
<1>3. \A p \in Paths : fs'[p] \in user[p] \cup Targets(mem, p, pos - 1)
  <2> SUFFICES ASSUME NEW p \in Paths
               PROVE  fs'[p] \in user[p] \cup Targets(mem, p, pos - 1)
    OBVIOUS
  <2>1. CASE p = e.path
    BY <1>1, <1>2, <2>1 DEF IInv, Originals
  <2>2. CASE p # e.path
    <3>1. fs[p] \in user[p] \cup Targets(mem, p, pos)
      BY DEF IInv, Undone
    <3>2. Targets(mem, p, pos) \subseteq Targets(mem, p, pos - 1)
      BY <1>1, <2>2 DEF Targets, Slots
    <3> QED
      BY <1>1, <2>2, <3>1, <3>2
  <2> QED
    BY <2>1, <2>2
<1>4. Undone'
  BY <1>3 DEF Undone, Targets, Slots
<1>5. OnlyAccountedBytes'
  <2>1. \A p \in Paths : Targets(mem, p, pos - 1) \subseteq Journaled(p)
    BY <1>1, <1>2 DEF Targets, Journaled, Slots
  <2> QED
    BY <1>2, <1>3, <2>1 DEF OnlyAccountedBytes, Journaled, Slots
<1>6. UndoneExactly'
  <2> SUFFICES ASSUME NEW p \in Paths \ touched, NEW i \in Slots(mem, p), i > pos - 1,
                      \A k \in Slots(mem, p) : k < i => k <= pos - 1
               PROVE  fs'[p] = mem.entries[i].original
    BY DEF UndoneExactly, Slots
  <2>1. i \in Nat /\ mem.entries[i].path = p
    BY <1>1 DEF Slots
  <2>2. CASE i = pos
    BY <1>1, <2>1, <2>2
  <2>3. CASE i > pos
    <3>1. p # e.path
      BY <1>1, <2>1, <2>3 DEF Slots
    <3>2. \A k \in Slots(mem, p) : k < i => k <= pos
      BY <1>1 DEF Slots
    <3> QED
      BY <1>1, <2>3, <3>1, <3>2 DEF IInv, UndoneExactly
  <2> QED
    BY <1>1, <2>1, <2>2, <2>3
<1>7. Ahead' /\ PreimagesKept' /\ MemPreimages' /\ Originals'
  BY DEF IInv, Ahead, PreimagesKept, MemPreimages, Originals, Targets, Slots, Created
<1> QED
  BY <1>4, <1>5, <1>6, <1>7 DEF IInv

LEMMA UndoingSteps ==
  ASSUME IInv, UndoSkip \/ Restore PROVE IInv'
<1>1. /\ pos > 0 /\ pos \in 1 .. Len(mem.entries) /\ Undoing.path \in Paths
      /\ Undoing.original \in Bytes /\ mem.entries[pos] = Undoing
      /\ pos \in DOMAIN mem.entries
  BY JournalTypes DEF IInv, TypeOK, Control, Undoing, UndoSkip, Restore
<1>2. CASE UndoSkip
  <2>1. TypeOK'
    BY <1>2 DEF IInv, TypeOK, UndoSkip, frame, store, hist
  <2>2. Control'
    BY <1>1, <1>2 DEF IInv, Control, UndoSkip, store
  <2> QED
    BY <1>1, <1>2, <2>1, <2>2, UndoAdvances DEF UndoSkip, frame, store, hist
<1>3. CASE Restore
  <2> DEFINE value == IF Created(Undoing) THEN Absent ELSE preimages[<<mem.attempt, pos>>]
  <2>1. value = Undoing.original
    BY <1>1 DEF IInv, MemPreimages, Created
  <2>2. Above[Undoing.path] \subseteq Dirs
    BY <1>1, ConstantsAssumption
  <2>3. CASE fs' = [fs EXCEPT ![Undoing.path] = value] /\ pc' = "undo" /\ pos' = pos - 1
    <3>1. TypeOK'
      BY <1>1, <1>3, <2>1, <2>2, <2>3 DEF IInv, TypeOK, Restore, Fault, Raise, Pcs, Errors, store
    <3>2. Control'
      BY <1>1, <1>3, <2>3 DEF IInv, Control, Restore, store
    <3> QED
      BY <1>1, <1>3, <2>1, <2>3, <3>1, <3>2, UndoAdvances DEF IInv, TypeOK, Restore, store
  <2>4. CASE Fault /\ UNCHANGED <<fs, dirs, pos>>
    <3>1. TypeOK'
      BY <1>3, <2>4 DEF IInv, TypeOK, Restore, Fault, Raise, Pcs, Errors, store
    <3>2. Control'
      BY <1>3, <2>4 DEF IInv, Control, Restore, Fault, Raise, store
    <3> QED
      BY <1>3, <2>4, <3>1, <3>2, ControlStep DEF Restore, Fault, Raise, store
  <2> QED
    BY <1>3, <2>3, <2>4 DEF Restore
<1> QED
  BY <1>2, <1>3

-----------------------------------------------------------------------------
LEMMA NextInv == IInv /\ [Next]_vars => IInv'
<1> SUFFICES ASSUME IInv, [Next]_vars PROVE IInv'
  OBVIOUS
<1>1. CASE Begin
  BY <1>1, BeginStep
<1>2. CASE \E p \in Paths, c \in Contents : Write(p, c)
  BY <1>2, ReadingSteps, WriteIntentStep DEF Write
<1>3. CASE \E d \in Dirs : MakeDir(d)
  BY <1>3, ReadingSteps
<1>4. CASE Replace
  BY <1>4, ReplaceStep
<1>5. CASE PersistIntent \/ VerifyWrite \/ PersistSeal
  BY <1>5, PersistingSteps
<1>6. CASE Rollback
  BY <1>6, RollbackStep
<1>7. CASE UndoStep
  BY <1>7, UndoingSteps, ReadingSteps, PersistingSteps DEF UndoStep
<1>8. CASE Seal \/ Restart
  BY <1>8, ReadingSteps
<1>9. CASE PersistRestart
  BY <1>9, PersistRestartStep
<1>10. CASE Abandon \/ Crash
  BY <1>10, ForgetStep
<1>11. CASE \E p \in Paths, c \in Bytes : ExternalEdit(p, c)
  BY <1>11, EditStep
<1>12. CASE UNCHANGED vars
  <2>1. TypeOK'
    BY <1>12 DEF IInv, TypeOK, vars, frame, store, proc, hist
  <2>2. Control'
    BY <1>12 DEF IInv, Control, vars, frame, store, proc, hist
  <2> QED
    BY <1>12, <2>1, <2>2, ControlStep DEF vars, frame, store, proc, hist
<1> QED
  BY <1>1, <1>2, <1>3, <1>4, <1>5, <1>6, <1>7, <1>8, <1>9, <1>10, <1>11, <1>12
     DEF Next, Transaction

THEOREM Invariance == Spec => []IInv
  BY InitInv, NextInv, PTL DEF Spec

\* Every value the protocol keeps, in memory and on disk, has its type.
THEOREM TypeCorrect == Spec => []TypeOK
  BY Invariance, PTL DEF IInv

\* Whatever the crashes, faults and edits: the bytes of the case are the targets
\* of durable entries, and a rolled-back case leaves none.
THEOREM BytesAccounted == Spec => []OnlyAccountedBytes
  BY Invariance, PTL DEF IInv

\* read_preimage never fails on an entry the durable journal wants undone.
THEOREM PreimagesSurvive == Spec => []PreimagesKept
  BY Invariance, PTL DEF IInv

\* Only the last step of a rollback records ROLLED_BACK.
LEMMA RollbackIsClosed ==
  ASSUME IInv, [Next]_vars, disk.status = "OPEN", disk'.status = "ROLLED_BACK"
  PROVE  CloseRollback
<1>1. mem.status = "OPEN" \/ pc \notin {"intent", "verify"}
  BY DEF IInv, Control
<1>2. CASE Transaction
  <2>1. ~Begin /\ ~PersistRestart
    BY DEF Begin, PersistRestart, Persist, Fresh, IInv, Control
  <2>2. ~PersistIntent
    BY <1>1 DEF PersistIntent, Persist, IInv, Control
  <2>3. ~VerifyWrite
    <3>1. mem \in Journal
      BY DEF IInv, TypeOK
    <3> QED
      BY <1>1, <3>1 DEF VerifyWrite, Persist, Raise, IInv, Control, Journal
  <2>4. ~PersistSeal
    <3>1. mem \in Journal
      BY DEF IInv, TypeOK
    <3> QED
      BY <3>1 DEF PersistSeal, Persist, Journal
  <2> QED
    BY <1>2, <2>1, <2>2, <2>3, <2>4
       DEF Transaction, Write, WriteReplay, WriteDrift, WriteRefused, WriteIntent, MakeDir,
           Replace, Rollback, UndoStep, UndoSkip, UndoDrift, UndoOwned, Restore, RemoveDir,
           Seal, Restart, Abandon, store
<1> QED
  BY <1>2 DEF Next, Crash, ExternalEdit, store, vars

LEMMA RollbackRestoresStep ==
  ASSUME IInv, [Next]_vars,
         disk.status = "OPEN", disk'.status = "ROLLED_BACK",
         NEW p \in Paths \ touched, NEW i \in Slots(disk', p),
         \A k \in Slots(disk', p) : i <= k
  PROVE  fs[p] = disk'.entries[i].original
<1>1. CloseRollback
  BY RollbackIsClosed
<1>2. /\ pc = "undo" /\ pos = 0 /\ mem \in Journal
      /\ disk'.entries = mem.entries
  <2>1. mem \in Journal
    BY DEF IInv, TypeOK
  <2> QED
    BY <1>1, <2>1 DEF CloseRollback, Persist, Journal
<1>3. i \in Slots(mem, p) /\ \A k \in Slots(mem, p) : i <= k
  BY <1>2 DEF Slots
<1>4. \A k \in Slots(mem, p) : k \in Nat \ {0}
  BY <1>2, JournalTypes DEF Slots
<1> QED
  BY <1>2, <1>3, <1>4 DEF IInv, UndoneExactly

\* A rollback that completes has restored every path nobody edited meanwhile,
\* also when it is the last of several interrupted ones.
THEOREM RollbackExact == Spec => RollbackRestores
<1>1. IInv /\ [Next]_vars =>
        [ (disk.status = "OPEN" /\ disk'.status = "ROLLED_BACK") =>
            \A p \in Paths \ touched : \A i \in Slots(disk', p) :
              (\A k \in Slots(disk', p) : i <= k) => fs[p] = disk'.entries[i].original ]_vars
  BY RollbackRestoresStep
<1> QED
  BY <1>1, Invariance, PTL DEF Spec, RollbackRestores

-----------------------------------------------------------------------------
\* Between the comparison of a path and its replacement the path is what it was
\* compared with, unless somebody edits it in between.
Compared ==
  /\ pc \in {"intent", "replace"} /\ Newest.path \notin touched =>
       fs[Newest.path] = Newest.original
  /\ pc = "restore" /\ Undoing.path \notin touched => fs[Undoing.path] = Undoing.expected

LEMMA ComparedStep == IInv /\ Compared /\ [Next]_vars => Compared'
<1> SUFFICES ASSUME IInv, Compared, [Next]_vars PROVE Compared'
  OBVIOUS
<1>1. CASE \E p \in Paths, c \in Contents : WriteIntent(p, c)
  <2>1. PICK p \in Paths, c \in Contents : WriteIntent(p, c)
    BY <1>1
  <2> DEFINE keep == p \in InitPaths /\ fs[p] # Absent
             new == [path |-> p, original |-> fs[p],
                     expected |-> IF keep THEN fs[p] ELSE c, applied |-> keep]
  <2>2. mem' = [mem EXCEPT !.entries = Append(@, new), !.dirs = @ \cup (Above[p] \ dirs)]
    BY <2>1 DEF WriteIntent
  <2>3. mem \in Journal /\ mem.entries \in Seq(Entry)
    BY JournalTypes DEF IInv, TypeOK
  <2>4. mem'.entries = Append(mem.entries, new)
    BY <2>2, <2>3 DEF Journal
  <2>5. mem'.entries[Len(mem'.entries)] = new
    BY <2>3, <2>4
  <2>6. pc' = "intent" /\ fs' = fs
    BY <2>1 DEF WriteIntent, frame
  <2> QED
    BY <2>2, <2>5, <2>6 DEF Compared, Newest
<1>2. CASE PersistIntent
  BY <1>2 DEF Compared, PersistIntent, Persist, Fault, Raise, Newest, frame
<1>3. CASE \E d \in Dirs : MakeDir(d) \/ RemoveDir(d)
  BY <1>3 DEF Compared, MakeDir, RemoveDir, Newest, Undoing, store, proc, hist
<1>4. CASE UndoOwned
  BY <1>4 DEF Compared, UndoOwned, Newest, Undoing, frame, store, hist
<1>5. CASE \E p \in Paths, c \in Bytes : ExternalEdit(p, c)
  <2>1. PICK p \in Paths, c \in Bytes : ExternalEdit(p, c)
    BY <1>5
  <2>2. /\ UNCHANGED <<pc, mem, pos>> /\ \A q \in Paths \ {p} : fs'[q] = fs[q]
        /\ pc \in {"intent", "replace", "restore"} => touched' = touched \cup {p}
    BY <2>1 DEF ExternalEdit, store, proc, IInv, TypeOK
  <2>3. pc \in {"intent", "replace"} => Newest.path \in Paths
    BY JournalTypes DEF IInv, TypeOK, Control, Newest
  <2>4. pc = "restore" => Undoing.path \in Paths
    BY JournalTypes DEF IInv, TypeOK, Control, Undoing
  <2> QED
    BY <2>2, <2>3, <2>4 DEF Compared, Newest, Undoing
<1>6. CASE \/ Begin \/ Replace \/ VerifyWrite \/ Rollback \/ UndoSkip \/ UndoDrift \/ Restore
           \/ CloseRollback \/ Seal \/ PersistSeal \/ Restart \/ PersistRestart
           \/ Abandon \/ Crash
  <2>1. pc' \notin {"intent", "replace", "restore"}
    BY <1>6 DEF Begin, Replace, VerifyWrite, Rollback, UndoSkip, UndoDrift, Restore,
         CloseRollback, Seal, PersistSeal, Restart, PersistRestart, Persist, Fault, Raise,
         Abandon, Crash, Forget
  <2> QED
    BY <2>1 DEF Compared
<1>7. CASE \/ \E p \in Paths, c \in Contents :
                WriteReplay(p, c) \/ WriteDrift(p, c) \/ WriteRefused(p, c)
           \/ UNCHANGED vars
  BY <1>7 DEF Compared, WriteReplay, WriteDrift, WriteRefused, Writable, Base, Raise, Newest,
       Undoing, vars, frame, store, proc, hist
<1> QED
  BY <1>1, <1>2, <1>3, <1>4, <1>5, <1>6, <1>7 DEF Next, Transaction, Write, UndoStep

LEMMA KeptStep ==
  ASSUME IInv, Compared, [Next]_vars, NEW p \in Paths \ touched,
         fs'[p] # fs[p], fs[p] # Absent, edits' = edits
  PROVE  \E i \in Slots(mem, p) :
            \/ fs[p] = mem.entries[i].expected
            \/ fs[p] = preimages[<<mem.attempt, i>>] /\ i \in DOMAIN disk.entries
<1>1. ~ \E q \in Paths, c \in Bytes : ExternalEdit(q, c)
  BY DEF ExternalEdit, IInv, TypeOK
<1>2. Replace \/ Restore
  BY <1>1 DEF Next, Transaction, Write, UndoStep, Begin, WriteReplay, WriteDrift, WriteRefused,
       WriteIntent, PersistIntent, MakeDir, VerifyWrite, Rollback, UndoSkip, UndoDrift,
       UndoOwned, RemoveDir, CloseRollback, Seal, PersistSeal, Restart, PersistRestart,
       Abandon, Crash, vars, frame
<1>3. CASE Replace
  <2>1. p = Newest.path /\ pc = "replace"
    BY <1>3 DEF Replace, IInv, TypeOK
  <2>2. mem = disk /\ Len(mem.entries) \in Slots(mem, p)
    BY <2>1, JournalTypes DEF IInv, TypeOK, Control, Slots, Newest
  <2>3. fs[p] = Newest.original
    BY <2>1 DEF Compared
  <2>4. fs[p] = preimages[<<mem.attempt, Len(mem.entries)>>]
    BY <2>2, <2>3 DEF IInv, MemPreimages, Created, Newest, Slots
  <2> QED
    BY <2>2, <2>4 DEF Slots
<1>4. CASE Restore
  <2>1. p = Undoing.path /\ pc = "restore"
    BY <1>4 DEF Restore, IInv, TypeOK
  <2>2. pos \in Slots(mem, p)
    BY <2>1, JournalTypes DEF IInv, TypeOK, Control, Slots, Undoing
  <2> QED
    BY <2>1, <2>2 DEF Compared, Undoing
<1> QED
  BY <1>2, <1>3, <1>4

\* Bytes of the user that were there before a call began are overwritten or
\* deleted only when an entry wrote them or a durable entry can restore them.
THEOREM UserKept == Spec => UserBytesKept
<1>1. Init => Compared
  BY DEF Init, Compared
<1>2. IInv /\ Compared /\ [Next]_vars =>
        [ \A p \in Paths \ touched :
            (fs'[p] # fs[p] /\ fs[p] # Absent /\ edits' = edits) =>
              \E i \in Slots(mem, p) :
                \/ fs[p] = mem.entries[i].expected
                \/ fs[p] = preimages[<<mem.attempt, i>>] /\ i \in DOMAIN disk.entries ]_vars
  BY KeptStep
<1> QED
  BY <1>1, <1>2, ComparedStep, Invariance, PTL DEF Spec, UserBytesKept

-----------------------------------------------------------------------------
\* The sweep of a rollback: what was swept is no higher in the tree than what is
\* left to sweep, and is gone or occupied unless somebody edited meanwhile.
Sweeping ==
  pc \in {"undo", "restore"} =>
    /\ sweep \subseteq mem.dirs
    /\ pos > 0 => sweep = mem.dirs
    /\ \A d \in mem.dirs \ sweep, x \in sweep : Cardinality(Above[x]) <= Cardinality(Above[d])
    /\ touched = {} => \A d \in (mem.dirs \cap dirs) \ sweep : Occupied(d)

LEMMA AboveIsLower ==
  ASSUME NEW x \in Dirs, NEW d \in Above[x]
  PROVE  Cardinality(Above[d]) < Cardinality(Above[x])
<1>1. Above[x] \in SUBSET Dirs /\ Above[d] \in SUBSET Above[x] /\ Above[d] # Above[x]
  BY ConstantsAssumption, TreeAssumption
<1>2. IsFiniteSet(Above[x])
  BY <1>1, TreeAssumption, FS_Subset
<1>3. IsFiniteSet(Above[d]) /\ Cardinality(Above[d]) <= Cardinality(Above[x])
      /\ Cardinality(Above[d]) # Cardinality(Above[x])
  BY <1>1, <1>2, FS_Subset
<1>4. Cardinality(Above[d]) \in Nat /\ Cardinality(Above[x]) \in Nat
  BY <1>2, <1>3, FS_CardinalityType
<1> QED
  BY <1>3, <1>4

LEMMA RemoveDirSweeps ==
  ASSUME IInv, Sweeping, NEW d \in Dirs, RemoveDir(d) PROVE Sweeping'
<1>1. /\ pc = "undo" /\ pos = 0 /\ d \in sweep /\ sweep' = sweep \ {d}
      /\ \A x \in sweep : Cardinality(Above[x]) <= Cardinality(Above[d])
      /\ dirs' = IF Occupied(d) THEN dirs ELSE dirs \ {d}
      /\ UNCHANGED <<fs, litter, mem, pc, pos, touched>>
  BY DEF RemoveDir, store, hist
<1>2. sweep' \subseteq mem'.dirs /\ ~(pos' > 0)
  BY <1>1 DEF Sweeping
<1>3. \A z \in mem.dirs \ sweep', x \in sweep' :
        Cardinality(Above[x]) <= Cardinality(Above[z])
  BY <1>1 DEF Sweeping
<1>4. ASSUME touched = {}, NEW z \in (mem.dirs \cap dirs') \ sweep' PROVE Occupied(z)'
  <2>1. CASE z = d
    BY <1>1, <1>4, <2>1 DEF Occupied
  <2>2. CASE z # d
    <3>1. z \in (mem.dirs \cap dirs) \ sweep
      BY <1>1, <1>4, <2>2
    <3>2. Occupied(z) /\ Cardinality(Above[d]) <= Cardinality(Above[z])
      BY <1>1, <1>4, <3>1 DEF Sweeping
    <3>3. z \notin Above[d]
      <4> SUFFICES ASSUME z \in Above[d] PROVE FALSE
        OBVIOUS
      <4>1. z \in Dirs
        BY <3>1 DEF IInv, TypeOK
      <4>2. Cardinality(Above[z]) < Cardinality(Above[d])
        BY AboveIsLower
      <4>3. Cardinality(Above[z]) \in Nat /\ Cardinality(Above[d]) \in Nat
        BY <4>1, ConstantsAssumption, TreeAssumption, FS_Subset, FS_CardinalityType
      <4> QED
        BY <3>2, <4>2, <4>3
    <3> QED
      BY <1>1, <3>2, <3>3 DEF Occupied
  <2> QED
    BY <2>1, <2>2
<1> QED
  BY <1>1, <1>2, <1>3, <1>4 DEF Sweeping

LEMMA SweepingStep == IInv /\ Sweeping /\ [Next]_vars => Sweeping'
<1> SUFFICES ASSUME IInv, Sweeping, [Next]_vars PROVE Sweeping'
  OBVIOUS
<1>1. CASE Rollback
  BY <1>1 DEF Sweeping, Rollback
<1>2. CASE UndoSkip \/ UndoOwned
  <2>1. sweep = mem.dirs /\ pos > 0 /\ pos \in Nat
    BY <1>2 DEF Sweeping, UndoSkip, UndoOwned, IInv, TypeOK
  <2> QED
    BY <1>2, <2>1 DEF Sweeping, UndoSkip, UndoOwned, store
<1>3. CASE Restore
  <2>1. sweep = mem.dirs
    BY <1>3 DEF Sweeping, Restore, IInv, Control
  <2> QED
    BY <1>3, <2>1 DEF Sweeping, Restore, Fault, Raise, store
<1>4. CASE \E d \in Dirs : RemoveDir(d)
  BY <1>4, RemoveDirSweeps
<1>5. CASE \E p \in Paths, c \in Bytes : ExternalEdit(p, c)
  <2>1. UNCHANGED <<pc, pos, sweep, mem>> /\ (pc \in {"undo", "restore"} => touched' # {})
    BY <1>5 DEF ExternalEdit, store, proc
  <2> QED
    BY <2>1 DEF Sweeping
<1>6. CASE \/ Begin \/ (\E p \in Paths, c \in Contents : Write(p, c)) \/ PersistIntent
           \/ (\E d \in Dirs : MakeDir(d)) \/ Replace \/ VerifyWrite \/ UndoDrift
           \/ CloseRollback \/ Seal \/ PersistSeal \/ Restart \/ PersistRestart
           \/ Abandon \/ Crash
  <2>1. pc' \notin {"undo", "restore"}
    BY <1>6 DEF Begin, Write, WriteReplay, WriteDrift, WriteRefused, WriteIntent, Writable, Base,
         PersistIntent, MakeDir, Replace, VerifyWrite, UndoDrift, CloseRollback, Seal,
         PersistSeal, Restart, PersistRestart, Persist, Fault, Raise, Abandon, Crash, Forget,
         store, proc
  <2> QED
    BY <2>1 DEF Sweeping
<1>7. CASE UNCHANGED vars
  BY <1>7 DEF Sweeping, Occupied, vars, frame, store, proc, hist
<1> QED
  BY <1>1, <1>2, <1>3, <1>4, <1>5, <1>6, <1>7 DEF Next, Transaction, UndoStep

LEMMA SweptStep ==
  ASSUME IInv, Sweeping, [Next]_vars, disk.status = "OPEN", disk'.status = "ROLLED_BACK",
         touched = {}, NEW d \in disk'.dirs \cap dirs
  PROVE  Occupied(d)
<1>1. CloseRollback
  BY RollbackIsClosed
<1>2. pc = "undo" /\ sweep = {} /\ disk'.dirs = mem.dirs
  BY <1>1 DEF CloseRollback, Persist, IInv, TypeOK, Journal
<1> QED
  BY <1>2 DEF Sweeping

\* A rollback that completes undisturbed leaves none of the directories the
\* attempt found missing, but for one that holds something.
THEOREM Swept == Spec => RollbackSweeps
<1>1. Init => Sweeping
  BY DEF Init, Sweeping
<1>2. IInv /\ Sweeping /\ [Next]_vars =>
        [ (disk.status = "OPEN" /\ disk'.status = "ROLLED_BACK" /\ touched = {}) =>
            \A d \in disk'.dirs \cap dirs : Occupied(d) ]_vars
  BY SweptStep
<1> QED
  BY <1>1, <1>2, SweepingStep, Invariance, PTL DEF Spec, RollbackSweeps

-----------------------------------------------------------------------------
\* How one step moves the status of the durable journal, and with it the bytes.
LEMMA StatusSteps ==
  ASSUME IInv, [Next]_vars
  PROVE  \/ disk'.status = disk.status /\ (disk.status \in {"NONE", "OPEN"}
                                             \/ leftovers' \subseteq leftovers)
         \/ disk.status = "NONE" /\ disk'.status = "OPEN" /\ leftovers' = leftovers
         \/ disk.status = "OPEN" /\ disk'.status = "SEALED" /\ leftovers' = leftovers
         \/ disk.status = "OPEN" /\ disk'.status = "ROLLED_BACK" /\ leftovers' = leftovers
         \/ disk.status = "ROLLED_BACK" /\ disk'.status = "OPEN" /\ leftovers' = leftovers
<1>1. /\ mem \in Journal /\ disk \in Journal
      /\ mem.status = "OPEN" /\ mem.entries # <<>> => disk.status = "OPEN"
  BY DEF IInv, TypeOK, Ahead
<1>2. CASE Begin
  BY <1>2 DEF Begin, Fresh, frame, hist, leftovers
<1>3. CASE PersistIntent \/ VerifyWrite
  <2>1. mem.status = "OPEN" /\ mem.entries # <<>>
    BY <1>3 DEF IInv, Control, PersistIntent, VerifyWrite
  <2>2. disk'.status = disk.status
    BY <1>1, <1>3, <2>1 DEF PersistIntent, VerifyWrite, Persist, Journal
  <2> QED
    BY <1>1, <2>1, <2>2
<1>4. CASE CloseRollback
  <2>1. leftovers' = leftovers /\ mem.status = "OPEN"
    BY <1>4 DEF CloseRollback, frame, leftovers, IInv, Control
  <2>2. disk.status \in {"OPEN", "ROLLED_BACK"}
    BY <2>1 DEF IInv, Ahead
  <2> QED
    BY <1>1, <1>4, <2>1, <2>2 DEF CloseRollback, Persist, Journal
<1>5. CASE PersistSeal
  BY <1>1, <1>5 DEF PersistSeal, Persist, Journal, frame, leftovers, IInv, Control
<1>6. CASE PersistRestart
  BY <1>6 DEF PersistRestart, Persist, Fresh, frame, leftovers, IInv, Control
<1>7. CASE Replace \/ Restore
  <2>1. mem.status = "OPEN" /\ mem.entries # <<>>
    BY <1>1, <1>7, JournalTypes DEF IInv, TypeOK, Control, Replace, Restore
  <2> QED
    BY <1>1, <1>7, <2>1 DEF Replace, Restore, store
<1>8. CASE \/ \E p \in Paths, c \in Contents : Write(p, c)
           \/ \E d \in Dirs : MakeDir(d) \/ RemoveDir(d)
           \/ Rollback \/ UndoSkip \/ UndoDrift \/ UndoOwned \/ Seal \/ Restart
           \/ Abandon \/ Crash \/ UNCHANGED vars
  <2>1. UNCHANGED <<disk, fs, user>>
    BY <1>8 DEF Write, WriteReplay, WriteDrift, WriteRefused, WriteIntent, MakeDir, RemoveDir,
         Rollback, UndoSkip, UndoDrift, UndoOwned, Seal, Restart, Abandon, Crash, vars, frame,
         store, hist
  <2> QED
    BY <2>1 DEF leftovers
<1>9. CASE \E p \in Paths, c \in Bytes : ExternalEdit(p, c)
  <2>1. disk' = disk /\ leftovers' \subseteq leftovers
    BY <1>9 DEF ExternalEdit, store, leftovers, IInv, TypeOK
  <2> QED
    BY <2>1
<1> QED
  BY <1>2, <1>3, <1>4, <1>5, <1>6, <1>7, <1>8, <1>9 DEF Next, Transaction, UndoStep

\* The journal protocol implements the all-or-nothing case of CaseOutcome: an
\* accepted case is final and an undone one has no bytes of its own left.
THEOREM Refinement == Spec => AllOrNothing
<1>1. Init => Outcome!Init
  BY DEF Init, Fresh, Outcome!Init, outcome, leftovers, Paths
<1>2. IInv /\ [Next]_vars => [Outcome!Next]_<<outcome, leftovers>>
  <2> SUFFICES ASSUME IInv, IInv', [Next]_vars
               PROVE  [Outcome!Next]_<<outcome, leftovers>>
    BY NextInv
  <2>1. leftovers' \in SUBSET Paths
    BY DEF leftovers
  <2>2. disk.status = "ROLLED_BACK" => leftovers = {}
    BY DEF IInv, OnlyAccountedBytes, leftovers
  <2>3. disk'.status = "ROLLED_BACK" => leftovers' = {}
    BY DEF IInv, OnlyAccountedBytes, leftovers
  <2>4. disk.status \in Status
    BY JournalTypes DEF IInv, TypeOK
  <2> QED
    BY <2>1, <2>2, <2>3, <2>4, StatusSteps
       DEF outcome, Status, Outcome!Next, Outcome!Work, Outcome!Keep, Outcome!Undo,
           Outcome!Retry, Outcome!Adopt
<1> QED
  BY <1>1, <1>2, Invariance, PTL DEF Spec, AllOrNothing, Outcome!Spec
=============================================================================
