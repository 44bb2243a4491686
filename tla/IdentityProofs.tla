------------------------ MODULE IdentityProofs ------------------------
(***************************************************************************)
(* Any number of processes, users, phones, numbers, challenges and times:  *)
(* SavesAreUnions of the identity store, GuessesAreBounded of the phone    *)
(* verification.                                                           *)
(*                                                                         *)
(* What a process has in memory holds the snapshot it last saw, from the   *)
(* moment it boots: loading keeps the rows it read, a route only adds, and *)
(* a merge takes in what is missing.  As long as nobody else has renamed a *)
(* snapshot since, that is the one on the disk, and it is what the next    *)
(* rename replaces.                                                        *)
(***************************************************************************)
EXTENDS IdentityStore, PhoneVerification, FiniteSetTheorems, TLAPS

SavingType == [at : {"down", "loading", "serving", "stat", "adopting", "writing", "renamed"},
               edit : UserIds \cup {0}, deferred : BOOLEAN]

\* The type of what the argument reads; the bounds do not matter to it.
Typed ==
    /\ memory \in [Processes -> SnapshotType]
    /\ disk \in [snapshot : SnapshotType, stamp : Nat]
    /\ seen \in [Processes -> Nat]
    /\ saving \in [Processes -> SavingType]

\* Every snapshot there is, is well formed.
AllWellFormed == WellFormed(disk.snapshot) /\ \A p \in Processes : WellFormed(memory[p])

\* Nobody has seen what is not written yet, and who has seen the last snapshot holds it.
SeenIsHeld ==
    \A p \in Processes :
       /\ seen[p] <= disk.stamp
       /\ ~IsAt(p, "down") /\ seen[p] = disk.stamp => Holds(memory[p], disk.snapshot)

\* A process that serves has the seed, and the edit it saves is as it made it.
EditStands ==
    \A p \in Processes :
       /\ saving[p].at \notin {"down", "loading"} => Seeded \subseteq Known(memory[p])
       /\ saving[p].at \in {"down", "loading", "serving"} => saving[p].edit = 0
       /\ saving[p].edit # 0 => memory[p].users[saving[p].edit] \in {"created", p}

StoreInv == Typed /\ AllWellFormed /\ SeenIsHeld /\ EditStands

----------------------------------------------------------------------------
(* The operators on snapshots. *)

\* Nobody is a process, and no process is nobody.
LEMMA Marks == /\ "absent" # "created"
               /\ \A p \in Processes : p # "absent" /\ p # "created"
BY IdentityAssumption

\* People who are there can be joined: nothing is lost, nobody appears.
LEMMA Joining ==
    ASSUME NEW m \in SnapshotType, WellFormed(m), NEW ids, ids \subseteq Known(m)
    PROVE /\ JoinEveryone(m, ids) \in SnapshotType
          /\ WellFormed(JoinEveryone(m, ids)) /\ Holds(JoinEveryone(m, ids), m)
          /\ JoinEveryone(m, ids).users = m.users
BY DEF JoinEveryone, SnapshotType, WellFormed, Holds, Known

\* A user who is added with a number is there, and so is everyone else.
LEMMA Adding ==
    ASSUME NEW m \in SnapshotType, WellFormed(m), NEW u \in UserIds, NEW n \in Phones
    PROVE /\ AddUser(m, u, n) \in SnapshotType
          /\ WellFormed(AddUser(m, u, n)) /\ Holds(AddUser(m, u, n), m)
          /\ AddUser(m, u, n).users = [m.users EXCEPT ![u] = "created"]
          /\ u \in Known(AddUser(m, u, n))
BY Marks, IdentityAssumption DEF AddUser, SnapshotType, WellFormed, Holds, Known

\* So nobody is lost by a welcome.
LEMMA Welcoming ==
    ASSUME NEW m \in SnapshotType, WellFormed(m), NEW u, Seeded \cup {u} \subseteq Known(m)
    PROVE /\ Welcome(m, u) \in SnapshotType
          /\ WellFormed(Welcome(m, u)) /\ Holds(Welcome(m, u), m)
          /\ Welcome(m, u).users = m.users
<1> DEFINE met == JoinEveryone(m, Seeded \cup {u})
           friends == {u} \cup (Companions \cap Known(met))
<1>1. /\ met \in SnapshotType /\ WellFormed(met) /\ Holds(met, m) /\ met.users = m.users
  BY Joining
<1>2. friends \subseteq Known(met) /\ Welcome(m, u) = JoinEveryone(met, friends)
  BY <1>1 DEF Welcome, Known
<1> HIDE DEF met, friends
<1>3. /\ JoinEveryone(met, friends) \in SnapshotType
      /\ WellFormed(JoinEveryone(met, friends)) /\ Holds(JoinEveryone(met, friends), met)
      /\ JoinEveryone(met, friends).users = met.users
  BY <1>1, <1>2, Joining
<1>. QED
  BY <1>1, <1>2, <1>3 DEF Holds

\* An edited profile is there as before, and everyone else.
LEMMA Editing ==
    ASSUME NEW m \in SnapshotType, WellFormed(m), NEW u \in Known(m), NEW p \in Processes
    PROVE /\ EditUser(m, u, p) \in SnapshotType
          /\ WellFormed(EditUser(m, u, p)) /\ Holds(EditUser(m, u, p), m)
          /\ EditUser(m, u, p).users[u] = p
BY Marks DEF EditUser, SnapshotType, WellFormed, Holds, Known

\* The seed is well formed, and everyone of it is there.
LEMMA Seed ==
    /\ NoIdentities \in SnapshotType /\ WellFormed(NoIdentities)
    /\ SeedIdentities \in SnapshotType /\ WellFormed(SeedIdentities)
    /\ Seeded \subseteq Known(SeedIdentities)
<1> DEFINE bare == [NoIdentities EXCEPT !.users = [u \in UserIds |-> IF u \in Seeded THEN "created"
                                                                     ELSE "absent"]]
<1>1. NoIdentities \in SnapshotType /\ WellFormed(NoIdentities)
  BY DEF NoIdentities, SnapshotType, WellFormed
<1>2. bare \in SnapshotType /\ WellFormed(bare)
  BY DEF NoIdentities, SnapshotType, WellFormed
<1>3. Seeded \subseteq Known(bare)
  BY IdentityAssumption, Marks DEF NoIdentities, Known
<1>4. SeedIdentities = JoinEveryone(bare, Seeded)
  BY DEF SeedIdentities
<1> HIDE DEF bare
<1>. QED
  BY <1>1, <1>2, <1>3, <1>4, Joining DEF Known

\* A merge keeps what there was, and takes in all of a snapshot that is well formed.
LEMMA Merging ==
    ASSUME NEW m \in SnapshotType, NEW s \in SnapshotType, WellFormed(m), WellFormed(s)
    PROVE /\ MergeMissing(m, s) \in SnapshotType /\ WellFormed(MergeMissing(m, s))
          /\ Holds(MergeMissing(m, s), m) /\ Holds(MergeMissing(m, s), s)
          /\ \A u \in UserIds : m.users[u] # "absent" => MergeMissing(m, s).users[u] = m.users[u]
BY DEF MergeMissing, SnapshotType, WellFormed, Holds, Known

\* So does a snapshot applied to memory, whose rows win.
LEMMA Applying ==
    ASSUME NEW m \in SnapshotType, NEW s \in SnapshotType, WellFormed(m), WellFormed(s)
    PROVE /\ ApplySnapshot(m, s) \in SnapshotType /\ WellFormed(ApplySnapshot(m, s))
          /\ Holds(ApplySnapshot(m, s), m) /\ Holds(ApplySnapshot(m, s), s)
BY DEF ApplySnapshot, SnapshotType, WellFormed, Holds, Known

\* Everyone of the file meets the seed.
LEMMA Grid ==
    ASSUME NEW m \in SnapshotType, WellFormed(m), Seeded \subseteq Known(m)
    PROVE /\ JoinGrid(m) \in SnapshotType /\ WellFormed(JoinGrid(m))
          /\ Holds(JoinGrid(m), m) /\ JoinGrid(m).users = m.users
<1> DEFINE new == UNION {JoinEveryone(NoIdentities, Seeded \cup {u}).contacts :
                           u \in Known(m) \ Seeded}
<1>1. \A pair \in new : /\ pair \in UserIds \X UserIds
                        /\ pair[1] \in Known(m) /\ pair[2] \in Known(m)
                        /\ <<pair[2], pair[1]>> \in new
  <2> SUFFICES ASSUME NEW pair \in new
               PROVE /\ pair \in UserIds \X UserIds
                     /\ pair[1] \in Known(m) /\ pair[2] \in Known(m)
                     /\ <<pair[2], pair[1]>> \in new
    OBVIOUS
  <2>1. PICK u \in Known(m) \ Seeded :
          pair \in JoinEveryone(NoIdentities, Seeded \cup {u}).contacts
    OBVIOUS
  <2>2. JoinEveryone(NoIdentities, Seeded \cup {u}).contacts
          = {q \in (Seeded \cup {u}) \X (Seeded \cup {u}) : q[1] # q[2]}
    BY DEF JoinEveryone, NoIdentities
  <2>3. Known(m) \subseteq UserIds
    BY DEF Known
  <2>4. /\ pair \in (Seeded \cup {u}) \X (Seeded \cup {u}) /\ pair[1] # pair[2]
    BY <2>1, <2>2
  <2>5. <<pair[2], pair[1]>> \in JoinEveryone(NoIdentities, Seeded \cup {u}).contacts
    BY <2>2, <2>4
  <2>. QED
    BY <2>3, <2>4, <2>5
<1>2. JoinGrid(m) = [m EXCEPT !.contacts = @ \cup new]
  BY DEF JoinGrid
<1> HIDE DEF new
<1>. QED
  BY <1>1, <1>2 DEF SnapshotType, WellFormed, Holds, Known

----------------------------------------------------------------------------
(* The invariant. *)

\* No file, or one of before everyone was joined.
LEMMA StoreStarts == IdentityInit => StoreInv
<1> SUFFICES ASSUME IdentityInit PROVE StoreInv
  OBVIOUS
<1>1. disk \in [snapshot : SnapshotType, stamp : Nat] /\ WellFormed(disk.snapshot)
  <2>1. CASE disk = [snapshot |-> NoIdentities, stamp |-> 0]
    BY <2>1, Seed
  <2>2. CASE \E n \in Phones : LET u == CHOOSE u \in UserIds : u \notin Seeded IN
                disk = [stamp |-> 1, snapshot |-> AddUser(SeedIdentities, u, n)]
    <3> DEFINE u == CHOOSE u \in UserIds : u \notin Seeded
    <3>1. u \in UserIds
      BY IdentityAssumption
    <3>2. PICK n \in Phones : disk = [stamp |-> 1, snapshot |-> AddUser(SeedIdentities, u, n)]
      BY <2>2
    <3> HIDE DEF u
    <3>. QED
      BY <3>1, <3>2, Seed, Adding
  <2>. QED
    BY <2>1, <2>2 DEF IdentityInit
<1>2. Typed
  BY <1>1, Seed DEF IdentityInit, Typed, SavingType, Down, Ready
<1>3. AllWellFormed
  BY <1>1, Seed DEF IdentityInit, AllWellFormed
<1>4. SeenIsHeld
  BY <1>1 DEF IdentityInit, SeenIsHeld, Down, Ready, IsAt
<1>5. EditStands
  BY DEF IdentityInit, EditStands, Down, Ready
<1>. QED
  BY <1>2, <1>3, <1>4, <1>5 DEF StoreInv

\* A step of p that leaves it with a memory that holds what it has seen, with the seed in
\* it and the edit in hand as it was made; the disk is as it was.
Grows(p, m, row, stamp) ==
    /\ UNCHANGED disk
    /\ memory' = [memory EXCEPT ![p] = m] /\ m \in SnapshotType /\ WellFormed(m)
    /\ saving' = [saving EXCEPT ![p] = row] /\ row \in SavingType
    /\ seen' = [seen EXCEPT ![p] = stamp] /\ stamp \in Nat /\ stamp <= disk.stamp
    /\ stamp = disk.stamp => Holds(m, disk.snapshot)
    /\ row.at \notin {"down", "loading"} /\ Seeded \subseteq Known(m)
    /\ row.at = "serving" => row.edit = 0
    /\ row.edit # 0 => m.users[row.edit] \in {"created", p}

LEMMA GrowingKeeps ==
    ASSUME StoreInv, NEW p \in Processes, NEW m, NEW row, NEW stamp, Grows(p, m, row, stamp)
    PROVE StoreInv'
<1>1. Typed'
  BY DEF StoreInv, Typed, Grows
<1>2. AllWellFormed'
  BY DEF StoreInv, Typed, AllWellFormed, Grows
<1>3. SeenIsHeld'
  BY DEF StoreInv, Typed, SeenIsHeld, IsAt, Grows
<1>4. EditStands'
  BY DEF StoreInv, Typed, EditStands, Grows
<1>. QED
  BY <1>1, <1>2, <1>3, <1>4 DEF StoreInv

\* Held stays held in a memory that holds the one before.
LEMMA HoldsOn ==
    ASSUME NEW a, NEW b, NEW c, Holds(a, b), Holds(b, c) PROVE Holds(a, c)
BY DEF Holds

LEMMA BootKeeps ==
    ASSUME StoreInv, NEW p \in Processes, Boot(p) PROVE StoreInv'
<1>1. Holds(disk.snapshot, disk.snapshot)
  BY DEF Holds
<1>2. Typed'
  BY DEF StoreInv, Typed, SavingType, Boot, Turns
<1>3. AllWellFormed'
  BY DEF StoreInv, Typed, AllWellFormed, Boot
<1>4. SeenIsHeld'
  BY <1>1 DEF StoreInv, Typed, SeenIsHeld, Boot, Turns, IsAt
<1>5. EditStands'
  BY DEF StoreInv, Typed, EditStands, Boot, Turns, IsAt
<1>. QED
  BY <1>2, <1>3, <1>4, <1>5 DEF StoreInv

\* What was read is in what is loaded, with the seed.
LEMMA LoadKeeps ==
    ASSUME StoreInv, NEW p \in Processes, Load(p) PROVE StoreInv'
<1> DEFINE applied == ApplySnapshot(SeedIdentities, memory[p])
           joined == IF seen[p] = 0 THEN applied ELSE JoinGrid(applied)
           at == IF joined.contacts # applied.contacts THEN "stat" ELSE "serving"
           row == [saving[p] EXCEPT !.at = at]
<1>1. memory[p] \in SnapshotType /\ WellFormed(memory[p])
  BY DEF StoreInv, Typed, AllWellFormed
<1>2. /\ applied \in SnapshotType /\ WellFormed(applied)
      /\ Holds(applied, SeedIdentities) /\ Holds(applied, memory[p])
  BY <1>1, Seed, Applying
<1>3. Seeded \subseteq Known(applied)
  BY <1>2, Seed DEF Holds
<1>4. /\ joined \in SnapshotType /\ WellFormed(joined) /\ Holds(joined, applied)
      /\ Seeded \subseteq Known(joined)
  <2> HIDE DEF applied
  <2>1. Holds(applied, applied)
    BY DEF Holds
  <2>. QED
    BY <1>2, <1>3, <2>1, Grid DEF Known
<1>5. Holds(joined, memory[p])
  BY <1>2, <1>4, HoldsOn
<1>6. seen[p] = disk.stamp => Holds(joined, disk.snapshot)
  BY <1>5, HoldsOn DEF Load, IsAt, StoreInv, SeenIsHeld
<1>7. /\ saving[p].edit = 0 /\ saving[p] \in SavingType
      /\ seen[p] \in Nat /\ seen[p] <= disk.stamp /\ seen' = [seen EXCEPT ![p] = seen[p]]
  BY DEF Load, IsAt, StoreInv, Typed, EditStands, SeenIsHeld
<1>8. /\ row \in SavingType /\ row.edit = 0 /\ row.at \in {"stat", "serving"}
  BY <1>7 DEF SavingType
<1>9. /\ memory' = [memory EXCEPT ![p] = joined] /\ UNCHANGED disk
      /\ saving' = [saving EXCEPT ![p] = row]
  BY DEF Load, Turns
<1> HIDE DEF joined, row
<1>10. Grows(p, joined, row, seen[p])
  BY <1>4, <1>6, <1>7, <1>8, <1>9 DEF Grows
<1>. QED
  BY <1>10, GrowingKeeps

----------------------------------------------------------------------------
(* What the routes do. *)

\* A process that is up: its memory is well formed, has the seed, and holds what it saw.
LEMMA Up ==
    ASSUME StoreInv, NEW p \in Processes, saving[p].at \notin {"down", "loading"}
    PROVE /\ memory[p] \in SnapshotType /\ WellFormed(memory[p])
          /\ Seeded \subseteq Known(memory[p])
          /\ seen[p] \in Nat /\ seen[p] <= disk.stamp /\ seen = [seen EXCEPT ![p] = seen[p]]
          /\ seen[p] = disk.stamp => Holds(memory[p], disk.snapshot)
          /\ saving[p] \in SavingType
          /\ saving[p].at = "serving" => saving[p].edit = 0
          /\ memory = [memory EXCEPT ![p] = memory[p]]
          /\ saving[p].edit # 0 => memory[p].users[saving[p].edit] \in {"created", p}
BY DEF StoreInv, Typed, AllWellFormed, SeenIsHeld, EditStands, IsAt

LEMMA CreateKeeps ==
    ASSUME StoreInv, NEW p \in Processes, NEW n \in Phones, CreateUserFromPhone(p, n)
    PROVE StoreInv'
<1> DEFINE added == AddUser(memory[p], NewId, n)
           m == Welcome(added, NewId)
           row == [saving[p] EXCEPT !.at = "stat", !.edit = NewId]
<1>1. NewId \in UserIds
  BY DEF CreateUserFromPhone, NewId, Unused
<1>2. saving[p].at = "serving"
  BY DEF CreateUserFromPhone, Changes, IsAt
<1>3. /\ added \in SnapshotType /\ WellFormed(added) /\ Holds(added, memory[p])
      /\ added.users = [memory[p].users EXCEPT ![NewId] = "created"]
      /\ NewId \in Known(added)
  <2>1. memory[p] \in SnapshotType /\ WellFormed(memory[p])
    BY <1>2, Up
  <2>. QED
    BY <1>1, <2>1, Adding
<1>4. Seeded \cup {NewId} \subseteq Known(added) /\ added.users[NewId] = "created"
  BY <1>1, <1>2, <1>3, Up DEF Holds, SnapshotType
<1>5. /\ m \in SnapshotType /\ WellFormed(m) /\ Holds(m, added) /\ m.users = added.users
  <2> HIDE DEF added
  <2>. QED
    BY <1>3, <1>4, Welcoming
<1>6. /\ Seeded \subseteq Known(m) /\ m.users[NewId] \in {"created", p}
      /\ seen[p] = disk.stamp => Holds(m, disk.snapshot)
  BY <1>2, <1>3, <1>4, <1>5, Up, HoldsOn DEF Known
<1>7. row \in SavingType /\ row.at = "stat" /\ row.edit = NewId
  BY <1>1, <1>2, Up DEF SavingType
<1>8. /\ memory' = [memory EXCEPT ![p] = m] /\ UNCHANGED disk
      /\ saving' = [saving EXCEPT ![p] = row] /\ UNCHANGED seen
  BY DEF CreateUserFromPhone, Saves
<1> HIDE DEF m, row
<1>9. Grows(p, m, row, seen[p])
  BY <1>2, <1>5, <1>6, <1>7, <1>8, Up DEF Grows
<1>. QED
  BY <1>9, GrowingKeeps

LEMMA UpdateKeeps ==
    ASSUME StoreInv, NEW p \in Processes, NEW u \in UserIds, UpdateUser(p, u) PROVE StoreInv'
<1> DEFINE m == EditUser(memory[p], u, p)
           row == [saving[p] EXCEPT !.at = "stat", !.edit = u]
<1>1. saving[p].at = "serving" /\ u \in Known(memory[p])
  BY DEF UpdateUser, Changes, IsAt
<1>2. m \in SnapshotType /\ WellFormed(m) /\ Holds(m, memory[p]) /\ m.users[u] = p
  BY <1>1, Up, Editing
<1>3. /\ Seeded \subseteq Known(m)
      /\ seen[p] = disk.stamp => Holds(m, disk.snapshot)
  BY <1>1, <1>2, Up, HoldsOn DEF Holds
<1>4. row \in SavingType /\ row.at = "stat" /\ row.edit = u
  BY <1>1, Up DEF SavingType
<1>5. /\ memory' = [memory EXCEPT ![p] = m] /\ UNCHANGED disk
      /\ saving' = [saving EXCEPT ![p] = row] /\ UNCHANGED seen
  BY DEF UpdateUser, Saves
<1> HIDE DEF m, row
<1>6. Grows(p, m, row, seen[p])
  BY <1>1, <1>2, <1>3, <1>4, <1>5, Up DEF Grows
<1>. QED
  BY <1>6, GrowingKeeps

LEMMA LinkKeeps ==
    ASSUME StoreInv, NEW p \in Processes, NEW pair, NEW persist, LinkContactPair(p, pair, persist)
    PROVE StoreInv'
<1> DEFINE m == JoinEveryone(memory[p], pair)
<1>1. saving[p].at = "serving" /\ pair \subseteq Known(memory[p])
  BY DEF LinkContactPair, Changes, IsAt
<1>2. m \in SnapshotType /\ WellFormed(m) /\ Holds(m, memory[p])
  BY <1>1, Up, Joining
<1>3. /\ Seeded \subseteq Known(m)
      /\ seen[p] = disk.stamp => Holds(m, disk.snapshot)
  BY <1>1, <1>2, Up, HoldsOn DEF Holds
<1>4. memory' = [memory EXCEPT ![p] = m] /\ UNCHANGED disk /\ UNCHANGED seen
  BY DEF LinkContactPair
<1>5. PICK row \in SavingType : /\ saving' = [saving EXCEPT ![p] = row]
                                /\ row.at \in {"serving", "stat"} /\ row.edit = 0
  <2>1. CASE persist = "now"
    <3> DEFINE row == [saving[p] EXCEPT !.at = "stat", !.edit = 0]
    <3>1. /\ row \in SavingType /\ row.edit \in {0, saving[p].edit}
          /\ row.at = "stat" /\ row.edit = 0
      BY <2>1, <1>1, Up DEF SavingType
    <3>2. saving' = [saving EXCEPT ![p] = row]
      BY <2>1 DEF LinkContactPair, Saves
    <3> HIDE DEF row
    <3>. QED
      BY <3>1, <3>2, <1>1
  <2>2. CASE persist # "now"
    <3> DEFINE row == [saving[p] EXCEPT !.deferred = TRUE]
    <3>1. /\ row \in SavingType /\ row.edit \in {0, saving[p].edit}
          /\ row.at = "serving" /\ row.edit = 0
      BY <2>2, <1>1, Up DEF SavingType
    <3>2. saving' = [saving EXCEPT ![p] = row]
      BY <2>2 DEF LinkContactPair
    <3> HIDE DEF row
    <3>. QED
      BY <3>1, <3>2, <1>1
  <2>. QED
    BY <2>1, <2>2
<1> HIDE DEF m
<1>6. Grows(p, m, row, seen[p])
  BY <1>1, <1>2, <1>3, <1>4, <1>5, Up DEF Grows
<1>. QED
  BY <1>6, GrowingKeeps

----------------------------------------------------------------------------
(* saveIdentities. *)

\* The steps that only go on to the next line.
LEMMA TurnsKeep ==
    ASSUME StoreInv, NEW p \in Processes,
           SaveDeferred(p) \/ StatSnapshot(p) \/ StampSnapshot(p) \/ SaveFails(p)
    PROVE StoreInv'
<1>1. saving[p].at \notin {"down", "loading"}
  BY DEF SaveDeferred, StatSnapshot, StampSnapshot, SaveFails, IsAt
<1>2. UNCHANGED <<memory, disk, seen>>
  BY DEF SaveDeferred, StatSnapshot, StampSnapshot, SaveFails
<1>3. PICK row \in SavingType : /\ saving' = [saving EXCEPT ![p] = row]
                                /\ row.at \in {"serving", "stat", "adopting", "writing"}
                                /\ row.edit \in {0, saving[p].edit}
                                /\ row.at = "serving" => row.edit = 0
  <2>1. CASE SaveDeferred(p)
    <3> DEFINE row == [saving[p] EXCEPT !.at = "stat", !.deferred = FALSE]
    <3>1. /\ row \in SavingType /\ row.edit \in {0, saving[p].edit}
          /\ row.at = "stat"
      BY <2>1, <1>1, Up DEF SavingType
    <3>2. saving' = [saving EXCEPT ![p] = row]
      BY <2>1 DEF SaveDeferred
    <3> HIDE DEF row
    <3>. QED
      BY <3>1, <3>2, <1>1
  <2>2. CASE StatSnapshot(p)
    <3> DEFINE row == [saving[p] EXCEPT !.at = IF disk.stamp \in {0, lastWritten[p]} THEN "writing"
                                          ELSE "adopting"]
    <3>1. /\ row \in SavingType /\ row.edit \in {0, saving[p].edit}
          /\ row.at \in {"writing", "adopting"}
      BY <2>2, <1>1, Up DEF SavingType
    <3>2. saving' = [saving EXCEPT ![p] = row]
      BY <2>2 DEF StatSnapshot, Turns
    <3> HIDE DEF row
    <3>. QED
      BY <3>1, <3>2, <1>1
  <2>3. CASE StampSnapshot(p)
    <3> DEFINE row == [saving[p] EXCEPT !.at = "serving", !.edit = 0]
    <3>1. /\ row \in SavingType /\ row.edit \in {0, saving[p].edit}
          /\ row.at = "serving" /\ row.edit = 0
      BY <2>3, <1>1, Up DEF SavingType
    <3>2. saving' = [saving EXCEPT ![p] = row]
      BY <2>3 DEF StampSnapshot, Returns
    <3> HIDE DEF row
    <3>. QED
      BY <3>1, <3>2, <1>1
  <2>4. CASE SaveFails(p)
    <3> DEFINE row == [saving[p] EXCEPT !.at = "serving", !.edit = 0]
    <3>1. /\ row \in SavingType /\ row.edit \in {0, saving[p].edit}
          /\ row.at = "serving" /\ row.edit = 0
      BY <2>4, <1>1, Up DEF SavingType
    <3>2. saving' = [saving EXCEPT ![p] = row]
      BY <2>4 DEF SaveFails, Returns
    <3> HIDE DEF row
    <3>. QED
      BY <3>1, <3>2, <1>1
  <2>. QED
    BY <2>1, <2>2, <2>3, <2>4
<1>4. Grows(p, memory[p], row, seen[p])
  BY <1>1, <1>2, <1>3, Up DEF Grows
<1>. QED
  BY <1>4, GrowingKeeps

\* The merge has seen the snapshot and holds it; the edit is a row that is not missing.
LEMMA AdoptKeeps ==
    ASSUME StoreInv, NEW p \in Processes, AdoptForeignWrites(p) PROVE StoreInv'
<1> DEFINE merged == MergeMissing(memory[p], disk.snapshot)
           row == [saving[p] EXCEPT !.at = "writing"]
<1>1. /\ saving[p].at = "adopting" /\ disk.stamp \in Nat
      /\ disk.snapshot \in SnapshotType /\ WellFormed(disk.snapshot)
  BY DEF AdoptForeignWrites, IsAt, StoreInv, Typed, AllWellFormed
<1>2. /\ merged \in SnapshotType /\ WellFormed(merged)
      /\ Holds(merged, memory[p]) /\ Holds(merged, disk.snapshot)
      /\ \A u \in UserIds : memory[p].users[u] # "absent" => merged.users[u] = memory[p].users[u]
  BY <1>1, Up, Merging
<1>3. /\ Seeded \subseteq Known(merged)
      /\ saving[p].edit # 0 => merged.users[saving[p].edit] \in {"created", p}
  BY <1>1, <1>2, Up, Marks DEF Holds, SavingType
<1>4. /\ UNCHANGED disk /\ saving' = [saving EXCEPT ![p] = row]
      /\ row \in SavingType /\ row.at = "writing" /\ row.edit = saving[p].edit
  BY <1>1, Up DEF AdoptForeignWrites, Turns, SavingType
<1>5. \/ memory' = [memory EXCEPT ![p] = merged] /\ seen' = [seen EXCEPT ![p] = disk.stamp]
      \/ UNCHANGED <<memory, seen>>
  BY DEF AdoptForeignWrites
<1> HIDE DEF merged, row
<1>6. CASE memory' = [memory EXCEPT ![p] = merged] /\ seen' = [seen EXCEPT ![p] = disk.stamp]
  <2>1. Grows(p, merged, row, disk.stamp)
    BY <1>1, <1>2, <1>3, <1>4, <1>6 DEF Grows
  <2>. QED
    BY <2>1, GrowingKeeps
<1>7. CASE UNCHANGED <<memory, seen>>
  <2>1. Grows(p, memory[p], row, seen[p])
    BY <1>1, <1>4, <1>7, Up DEF Grows
  <2>. QED
    BY <2>1, GrowingKeeps
<1>. QED
  BY <1>5, <1>6, <1>7

\* Nobody else has seen the snapshot that is new.
LEMMA RenameKeeps ==
    ASSUME StoreInv, NEW p \in Processes, RenameSnapshot(p) PROVE StoreInv'
<1>1. /\ saving[p].at = "writing" /\ UNCHANGED memory
      /\ disk' = [snapshot |-> memory[p], stamp |-> disk.stamp + 1]
      /\ seen' = [seen EXCEPT ![p] = disk.stamp + 1]
  BY DEF RenameSnapshot, IsAt
<1>2. Holds(memory[p], memory[p])
  BY DEF Holds
<1>3. Typed'
  BY <1>1 DEF StoreInv, Typed, SavingType, RenameSnapshot, Turns
<1>4. AllWellFormed'
  BY <1>1 DEF StoreInv, Typed, AllWellFormed
<1>5. SeenIsHeld'
  BY <1>1, <1>2 DEF StoreInv, Typed, SeenIsHeld, RenameSnapshot, Turns, IsAt
<1>6. EditStands'
  BY <1>1 DEF StoreInv, Typed, EditStands, RenameSnapshot, Turns
<1>. QED
  BY <1>3, <1>4, <1>5, <1>6 DEF StoreInv

LEMMA DiesKeeps ==
    ASSUME StoreInv, NEW p \in Processes, Dies(p) PROVE StoreInv'
<1>1. Typed'
  BY Seed DEF StoreInv, Typed, SavingType, Dies, Down, Ready
<1>2. AllWellFormed'
  BY Seed DEF StoreInv, Typed, AllWellFormed, Dies
<1>3. SeenIsHeld'
  BY DEF StoreInv, Typed, SeenIsHeld, Dies, Down, Ready, IsAt
<1>4. EditStands'
  BY DEF StoreInv, Typed, EditStands, Dies, Down, Ready
<1>. QED
  BY <1>1, <1>2, <1>3, <1>4 DEF StoreInv

LEMMA StoreSteps == StoreInv /\ [IdentityNext]_identityVars => StoreInv'
<1> SUFFICES ASSUME StoreInv, [IdentityNext]_identityVars PROVE StoreInv'
  OBVIOUS
<1>1. CASE UNCHANGED identityVars
  BY <1>1 DEF identityVars, StoreInv, Typed, AllWellFormed, SeenIsHeld, EditStands, IsAt
<1>2. CASE IdentityNext
  BY <1>2, BootKeeps, LoadKeeps, DiesKeeps, CreateKeeps, UpdateKeeps, LinkKeeps, TurnsKeep,
     AdoptKeeps, RenameKeeps DEF IdentityNext
<1>. QED
  BY <1>1, <1>2

----------------------------------------------------------------------------
(* The owner of a number: all else but a registration copies a row, so a number has one    *)
(* owner until somebody registers it a second time.                                        *)

Agree(s, t, n) == s.phones[n] # 0 /\ t.phones[n] # 0 => s.phones[n] = t.phones[n]

OwnersAgree ==
    \A n \in Phones \ doubled :
       \A p \in Processes : /\ Agree(memory[p], disk.snapshot, n)
                            /\ \A q \in Processes : Agree(memory[p], memory[q], n)

LEMMA OwnersStart == IdentityInit => OwnersAgree
BY DEF IdentityInit, OwnersAgree, Agree, NoIdentities

\* Every row that is new somewhere was somewhere before.
LEMMA CopyingAgrees ==
    ASSUME OwnersAgree, NEW n \in Phones \ doubled,
           \A q \in Processes : \/ memory'[q].phones[n] \in {0, disk.snapshot.phones[n]}
                                \/ \E o \in Processes : memory'[q].phones[n] = memory[o].phones[n],
           \/ disk'.snapshot.phones[n] = disk.snapshot.phones[n]
           \/ \E o \in Processes : disk'.snapshot.phones[n] = memory[o].phones[n]
    PROVE  \A p \in Processes : /\ Agree(memory'[p], disk'.snapshot, n)
                                /\ \A q \in Processes : Agree(memory'[p], memory'[q], n)
BY DEF OwnersAgree, Agree

\* Nobody is welcomed with a number, and nobody is seeded with one.
LEMMA OwnersUntouched ==
    /\ \A m \in SnapshotType : \A ids : JoinEveryone(m, ids).phones = m.phones
    /\ \A m \in SnapshotType : \A u : WellFormed(m) /\ Seeded \cup {u} \subseteq Known(m) =>
                                    Welcome(m, u).phones = m.phones
    /\ \A m \in SnapshotType : JoinGrid(m).phones = m.phones
    /\ \A m \in SnapshotType, u \in UserIds : \A p : EditUser(m, u, p).phones = m.phones
    /\ \A n \in Phones : SeedIdentities.phones[n] = 0 /\ NoIdentities.phones[n] = 0
<1>1. \A m \in SnapshotType : \A ids : JoinEveryone(m, ids).phones = m.phones
  BY DEF JoinEveryone, SnapshotType
<1>2. ASSUME NEW m \in SnapshotType, NEW u, WellFormed(m), Seeded \cup {u} \subseteq Known(m)
      PROVE  Welcome(m, u).phones = m.phones
  <2> DEFINE met == JoinEveryone(m, Seeded \cup {u})
  <2>1. met \in SnapshotType /\ met.phones = m.phones
    BY <1>1, <1>2, Joining
  <2>2. Welcome(m, u) = JoinEveryone(met, {u} \cup (Companions \cap Known(met)))
    BY DEF Welcome
  <2> HIDE DEF met
  <2> QED BY <1>1, <2>1, <2>2
<1>3. \A m \in SnapshotType : JoinGrid(m).phones = m.phones
  BY DEF JoinGrid, SnapshotType
<1>4. \A m \in SnapshotType, u \in UserIds : \A p : EditUser(m, u, p).phones = m.phones
  BY DEF EditUser, SnapshotType
<1>5. \A n \in Phones : SeedIdentities.phones[n] = 0 /\ NoIdentities.phones[n] = 0
  BY DEF SeedIdentities, JoinEveryone, NoIdentities
<1> QED BY <1>1, <1>2, <1>3, <1>4, <1>5

LEMMA CreatingAgrees ==
    ASSUME StoreInv, OwnersAgree, NEW p \in Processes, NEW n \in Phones, CreateUserFromPhone(p, n)
    PROVE  OwnersAgree'
<1>1. /\ saving[p].at = "serving" /\ UNCHANGED disk /\ NewId \in UserIds
      /\ memory' = [memory EXCEPT ![p] = Welcome(AddUser(memory[p], NewId, n), NewId)]
      /\ doubled' = IF disk.snapshot.phones[n] = 0 /\ \A q \in Processes : memory[q].phones[n] = 0
                    THEN doubled ELSE doubled \cup {n}
  BY DEF CreateUserFromPhone, Changes, IsAt, NewId, Unused
<1> DEFINE added == AddUser(memory[p], NewId, n)
<1>2. /\ memory \in [Processes -> SnapshotType] /\ WellFormed(memory[p])
      /\ Seeded \subseteq Known(memory[p])
  BY <1>1, Up DEF StoreInv, Typed
<1>3. /\ added \in SnapshotType /\ WellFormed(added) /\ Holds(added, memory[p])
      /\ NewId \in Known(added)
  BY <1>1, <1>2, Adding
<1>4. \A m \in Phones : m # n => added.phones[m] = memory[p].phones[m]
  BY <1>1, <1>2 DEF AddUser, SnapshotType
<1> HIDE DEF added
<1>5. Seeded \cup {NewId} \subseteq Known(added)
  BY <1>2, <1>3 DEF Holds
<1>6. memory'[p].phones = added.phones /\ \A q \in Processes \ {p} : memory'[q] = memory[q]
  BY <1>1, <1>2, <1>3, <1>5, OwnersUntouched DEF added
<1> SUFFICES ASSUME NEW m \in Phones \ doubled'
             PROVE  \A o \in Processes : /\ Agree(memory'[o], disk'.snapshot, m)
                                         /\ \A q \in Processes : Agree(memory'[o], memory'[q], m)
  BY DEF OwnersAgree
<1>7. CASE m = n
  <2>1. disk'.snapshot.phones[n] = 0 /\ \A q \in Processes \ {p} : memory'[q].phones[n] = 0
    BY <1>1, <1>6, <1>7
  <2> QED BY <1>7, <2>1 DEF Agree
<1>8. CASE m # n
  <2>1. m \in Phones \ doubled
    BY <1>1
  <2>2. \A q \in Processes : memory'[q].phones[m] = memory[q].phones[m]
    BY <1>4, <1>6, <1>8
  <2> QED BY <1>1, <2>1, <2>2, CopyingAgrees
<1> QED BY <1>7, <1>8

LEMMA OwnersKept == StoreInv /\ OwnersAgree /\ [IdentityNext]_identityVars => OwnersAgree'
<1> SUFFICES ASSUME StoreInv, OwnersAgree, [IdentityNext]_identityVars PROVE OwnersAgree'
  OBVIOUS
<1>1. memory \in [Processes -> SnapshotType] /\ disk.snapshot \in SnapshotType
  BY DEF StoreInv, Typed
<1>2. ASSUME doubled' = doubled, UNCHANGED disk, NEW p \in Processes, NEW m,
             memory' = [memory EXCEPT ![p] = m],
             \A n \in Phones : m.phones[n] \in {0, memory[p].phones[n], disk.snapshot.phones[n]}
      PROVE  OwnersAgree'
  <2> SUFFICES ASSUME NEW n \in Phones \ doubled
               PROVE  \A o \in Processes : /\ Agree(memory'[o], disk'.snapshot, n)
                                           /\ \A q \in Processes : Agree(memory'[o], memory'[q], n)
    BY <1>2 DEF OwnersAgree
  <2>1. \A q \in Processes : \/ memory'[q].phones[n] \in {0, disk.snapshot.phones[n]}
                             \/ \E o \in Processes : memory'[q].phones[n] = memory[o].phones[n]
    BY <1>1, <1>2
  <2> QED BY <1>2, <2>1, CopyingAgrees
<1>3. CASE UNCHANGED <<memory, disk, doubled>>
  BY <1>3 DEF OwnersAgree
<1>4. ASSUME NEW p \in Processes, Boot(p) PROVE OwnersAgree'
  BY <1>2, <1>4 DEF Boot
<1>5. ASSUME NEW p \in Processes, Load(p) PROVE OwnersAgree'
  <2> DEFINE applied == ApplySnapshot(SeedIdentities, memory[p])
             joined == IF seen[p] = 0 THEN applied ELSE JoinGrid(applied)
  <2>1. memory' = [memory EXCEPT ![p] = joined] /\ UNCHANGED <<disk, doubled>>
    BY <1>5 DEF Load
  <2>2. applied \in SnapshotType
    BY <1>1, Seed, Applying DEF StoreInv, AllWellFormed
  <2>3. \A n \in Phones : applied.phones[n] \in {0, memory[p].phones[n]}
    BY <1>1, OwnersUntouched DEF ApplySnapshot
  <2> HIDE DEF applied
  <2>4. joined.phones = applied.phones
    BY <2>2, OwnersUntouched
  <2> HIDE DEF joined
  <2>5. \A n \in Phones : joined.phones[n] \in {0, memory[p].phones[n], disk.snapshot.phones[n]}
    BY <2>3, <2>4
  <2>6. /\ doubled' = doubled /\ UNCHANGED disk /\ memory' = [memory EXCEPT ![p] = joined]
    BY <2>1
  <2> QED BY <1>2, <2>5, <2>6
<1>6. ASSUME NEW p \in Processes, NEW u \in UserIds, UpdateUser(p, u) PROVE OwnersAgree'
  <2>1. EditUser(memory[p], u, p).phones = memory[p].phones
    BY <1>1, OwnersUntouched
  <2> QED BY <1>2, <1>6, <2>1 DEF UpdateUser
<1>7. ASSUME NEW p \in Processes, NEW pair, NEW persist, LinkContactPair(p, pair, persist)
      PROVE  OwnersAgree'
  <2>1. JoinEveryone(memory[p], pair).phones = memory[p].phones
    BY <1>1, OwnersUntouched
  <2> QED BY <1>2, <1>7, <2>1 DEF LinkContactPair
<1>8. ASSUME NEW p \in Processes, AdoptForeignWrites(p) PROVE OwnersAgree'
  <2>1. \A n \in Phones : MergeMissing(memory[p], disk.snapshot).phones[n]
                             \in {0, memory[p].phones[n], disk.snapshot.phones[n]}
    BY DEF MergeMissing
  <2>2. \/ memory' = [memory EXCEPT ![p] = MergeMissing(memory[p], disk.snapshot)]
        \/ UNCHANGED memory
    BY <1>8 DEF AdoptForeignWrites
  <2>3. UNCHANGED <<disk, doubled>>
    BY <1>8 DEF AdoptForeignWrites
  <2> QED BY <1>2, <1>3, <2>1, <2>2, <2>3
<1>9. ASSUME NEW p \in Processes, RenameSnapshot(p) PROVE OwnersAgree'
  <2>1. UNCHANGED <<memory, doubled>> /\ disk'.snapshot = memory[p]
    BY <1>9 DEF RenameSnapshot
  <2> SUFFICES ASSUME NEW n \in Phones \ doubled
               PROVE  \A o \in Processes : /\ Agree(memory'[o], disk'.snapshot, n)
                                           /\ \A q \in Processes : Agree(memory'[o], memory'[q], n)
    BY <2>1 DEF OwnersAgree
  <2>2. \A q \in Processes : \E o \in Processes : memory'[q].phones[n] = memory[o].phones[n]
    BY <2>1
  <2>3. \E o \in Processes : disk'.snapshot.phones[n] = memory[o].phones[n]
    BY <2>1
  <2> QED BY <2>2, <2>3, CopyingAgrees
<1>10. ASSUME NEW p \in Processes, Dies(p) PROVE OwnersAgree'
  <2>1. \A n \in Phones : NoIdentities.phones[n] \in {0, memory[p].phones[n], disk.snapshot.phones[n]}
    BY OwnersUntouched
  <2>2. doubled' = doubled /\ UNCHANGED disk /\ memory' = [memory EXCEPT ![p] = NoIdentities]
    BY <1>10 DEF Dies
  <2> QED BY <1>2, <2>1, <2>2
<1>11. ASSUME NEW p \in Processes, SaveDeferred(p) \/ StatSnapshot(p) \/ StampSnapshot(p) \/ SaveFails(p)
       PROVE  OwnersAgree'
  BY <1>3, <1>11 DEF SaveDeferred, StatSnapshot, StampSnapshot, SaveFails
<1>12. CASE UNCHANGED identityVars
  BY <1>3, <1>12 DEF identityVars
<1> QED
  BY <1>4, <1>5, <1>6, <1>7, <1>8, <1>9, <1>10, <1>11, <1>12, CreatingAgrees DEF IdentityNext

----------------------------------------------------------------------------
(* The theorem. *)

\* A snapshot is replaced by one that holds its profiles and contacts, if its writer has seen
\* it, and a number registered once keeps its owner; the edit in hand is in it, and so is
\* everybody its numbers and contacts are of: store.ts, adoptForeignWrites and mergeMissing.
THEOREM SavesReplaceNothing == IdentitySpec => SavesAreUnions
<1> DEFINE Saved(p) ==
             /\ seen[p] = disk.stamp => /\ Holds(disk'.snapshot, disk.snapshot)
                                       /\ \A n \in Phones \ doubled :
                                            KeepsOwner(disk'.snapshot, disk.snapshot, n)
             /\ saving[p].edit # 0 => disk'.snapshot.users[saving[p].edit] \in {"created", p}
             /\ WellFormed(disk'.snapshot)
<1>1. StoreInv /\ OwnersAgree /\ [IdentityNext]_identityVars
        => [\A p \in Processes : IsAt(p, "writing") /\ disk' # disk /\ saving'[p].at = "renamed" =>
              Saved(p)]_identityVars
  <2> SUFFICES ASSUME StoreInv, OwnersAgree, IdentityNext, NEW p \in Processes, IsAt(p, "writing"),
                      disk' # disk, saving'[p].at = "renamed"
               PROVE Saved(p)
    BY DEF identityVars
  <2>1. PICK q \in Processes : RenameSnapshot(q)
    BY DEF IdentityNext, Boot, Load, CreateUserFromPhone, UpdateUser, LinkContactPair, SaveDeferred,
           StatSnapshot, AdoptForeignWrites, StampSnapshot, SaveFails, Dies
  <2>2. q = p
    BY <2>1 DEF RenameSnapshot, Turns, IsAt, StoreInv, Typed
  <2>3. disk'.snapshot = memory[p] /\ saving[p].at = "writing"
    BY <2>1, <2>2 DEF RenameSnapshot, IsAt
  <2>4. ASSUME seen[p] = disk.stamp, NEW n \in Phones \ doubled
        PROVE  KeepsOwner(disk'.snapshot, disk.snapshot, n)
    <3>1. disk.snapshot.phones[n] # 0 => memory[p].phones[n] # 0
      BY <2>3, <2>4, Up DEF Holds
    <3>2. Agree(memory[p], disk.snapshot, n)
      BY DEF OwnersAgree
    <3> QED
      BY <2>3, <3>1, <3>2 DEF Agree, KeepsOwner
  <2>. QED
    BY <2>3, <2>4, Up
<1>. QED
  BY <1>1, StoreStarts, StoreSteps, OwnersStart, OwnersKept, PTL DEF IdentitySpec, SavesAreUnions

\* The counters of the store stay within their bounds.
CountersOK ==
    /\ disk.stamp \in 0 .. MaxWrites /\ lastWritten \in [Processes -> 0 .. MaxWrites]
    /\ changes \in 0 .. MaxChanges /\ restarts \in 0 .. MaxRestarts
    /\ doubled \subseteq Phones

LEMMA CountersStart == IdentityInit => CountersOK
<1> SUFFICES ASSUME IdentityInit PROVE CountersOK
  OBVIOUS
<1>1. disk.stamp \in {0, 1}
  BY DEF IdentityInit
<1>2. /\ MaxWrites \in Nat /\ MaxWrites >= 1 /\ 0 \in 0 .. MaxWrites
      /\ 0 \in 0 .. MaxChanges /\ 0 \in 0 .. MaxRestarts
  BY IdentityAssumption
<1> QED BY <1>1, <1>2 DEF IdentityInit, CountersOK

LEMMA CountersKept == CountersOK /\ [IdentityNext]_identityVars => CountersOK'
<1> SUFFICES ASSUME CountersOK, [IdentityNext]_identityVars PROVE CountersOK'
  OBVIOUS
<1>1. /\ MaxWrites \in Nat /\ MaxChanges \in Nat /\ MaxRestarts \in Nat /\ 0 \in 0 .. MaxWrites
  BY IdentityAssumption
<1>2. CASE UNCHANGED identityVars
  BY <1>2 DEF identityVars, CountersOK
<1>3. ASSUME NEW p \in Processes,
             \/ Boot(p) \/ Load(p) \/ SaveDeferred(p) \/ StatSnapshot(p) \/ AdoptForeignWrites(p)
             \/ StampSnapshot(p) \/ SaveFails(p)
      PROVE  CountersOK'
  BY <1>3 DEF CountersOK, Boot, Load, SaveDeferred, StatSnapshot, AdoptForeignWrites, StampSnapshot,
              SaveFails
<1>4. ASSUME NEW p \in Processes, RenameSnapshot(p) PROVE CountersOK'
  BY <1>1, <1>4 DEF CountersOK, RenameSnapshot
<1>5. ASSUME NEW p \in Processes, Dies(p) PROVE CountersOK'
  BY <1>1, <1>5 DEF CountersOK, Dies
<1>6. ASSUME NEW p \in Processes, Changes(p), UNCHANGED <<disk, lastWritten, restarts>>,
             doubled' \subseteq Phones
      PROVE  CountersOK'
  BY <1>1, <1>6 DEF CountersOK, Changes
<1>7. ASSUME NEW p \in Processes, NEW n \in Phones, CreateUserFromPhone(p, n) PROVE CountersOK'
  <2>1. doubled' \subseteq Phones
    BY <1>7 DEF CreateUserFromPhone, CountersOK
  <2>2. Changes(p) /\ UNCHANGED <<disk, lastWritten, restarts>>
    BY <1>7 DEF CreateUserFromPhone
  <2> QED BY <1>6, <2>1, <2>2
<1>8. ASSUME NEW p \in Processes,
             \/ \E u \in UserIds : UpdateUser(p, u)
             \/ \E pair, persist : LinkContactPair(p, pair, persist)
      PROVE  CountersOK'
  <2>1. Changes(p) /\ UNCHANGED <<disk, lastWritten, restarts, doubled>>
    BY <1>8 DEF UpdateUser, LinkContactPair
  <2>2. doubled' \subseteq Phones
    BY <2>1 DEF CountersOK
  <2> QED BY <1>6, <2>1, <2>2
<1> QED
  BY <1>2, <1>3, <1>4, <1>5, <1>7, <1>8 DEF IdentityNext

LEMMA StoreIsTyped == StoreInv /\ CountersOK => IdentityTypeOK
<1> SUFFICES ASSUME StoreInv, CountersOK PROVE IdentityTypeOK
  OBVIOUS
<1>1. \A p \in Processes : seen[p] \in 0 .. MaxWrites
  BY IdentityAssumption DEF StoreInv, Typed, SeenIsHeld, CountersOK
<1>2. disk \in [snapshot : SnapshotType, stamp : 0 .. MaxWrites]
  BY DEF StoreInv, Typed, CountersOK
<1> QED BY <1>1, <1>2 DEF StoreInv, Typed, SavingType, CountersOK, IdentityTypeOK

\* Whatever processes write, die and adopt from each other, what each has in memory and what
\* is on the disk are snapshots, and no stamp is ahead of the renames.
THEOREM StoreTypes == IdentitySpec => []IdentityTypeOK
<1>1. StoreInv /\ CountersOK /\ [IdentityNext]_identityVars => StoreInv' /\ CountersOK'
  BY StoreSteps, CountersKept
<1> QED BY <1>1, StoreStarts, CountersStart, StoreIsTyped, PTL DEF IdentitySpec

----------------------------------------------------------------------------
\* The budget of a number.

\* The times there are, and one past the last.
Ends == 0 .. MaxNow + 1

\* How many guesses there were at a number before each time.
Guessed(n) == [t \in Ends |-> GuessesBefore(n, t)]

\* Guesses are counted from the start on, up to the present.
CountOK(g, t) ==
    /\ g \in [Ends -> Nat]
    /\ \A x, y \in Ends : x <= y => g[x] <= g[y]
    /\ \A x \in Ends : x > t => g[x] = g[t + 1]

\* A window begins with a guess, has as many as the budget says, and none after its end; and
\* what ended before it leaves less than a budget to any stretch that meets both.
WindowOK(g, start, used, t) ==
    /\ start \in 0 .. t /\ g[t + 1] - g[start] = used /\ g[start + 1] > g[start]
    /\ \A x \in Ends : x >= start + AttemptWindow => g[x] = g[t + 1]
    /\ \A x \in Ends : x > start - AttemptWindow => g[start] - g[x] < AttemptsPerPhone

\* Without a window a stretch that ends now has less than a budget, and nothing of it now.
RestOK(g, t) ==
    /\ g[t] = g[t + 1]
    /\ \A x \in Ends : x > t - AttemptWindow => g[t + 1] - g[x] < AttemptsPerPhone

StretchOK(g) ==
    \A x \in 0 .. MaxNow + 1 - AttemptWindow :
      g[x + AttemptWindow] - g[x] < 2 * AttemptsPerPhone

BudgetOK(g, b, t) ==
    /\ CountOK(g, t) /\ StretchOK(g)
    /\ b \in [start : Times, used : 0 .. AttemptsPerPhone]
    /\ IF b.used = 0 THEN RestOK(g, t) ELSE WindowOK(g, b.start, b.used, t)

RunOut(b, t) == t - b.start >= AttemptWindow

LEMMA Numbers3 ==
    /\ AttemptWindow \in Nat /\ AttemptWindow > 0 /\ AttemptsPerPhone \in Nat
    /\ AttemptsPerPhone > 0 /\ MaxNow \in Nat
  BY VerificationAssumption

\* A window that is over leaves the number at rest.
LEMMA WindowCloses ==
    ASSUME NEW g, NEW b, NEW t \in Times, BudgetOK(g, b, t), b.used = 0 \/ RunOut(b, t)
    PROVE  RestOK(g, t)
<1>0. /\ t \in Nat /\ t + 1 \in Ends /\ t \in Ends /\ t <= MaxNow
      /\ \A x \in Ends : x \in Nat /\ g[x] \in Nat
  BY Numbers3 DEF Times, Ends, BudgetOK, CountOK
<1>1. CASE b.used = 0
  BY <1>1 DEF BudgetOK
<1>2. CASE b.used # 0
  <2> DEFINE s == b.start
  <2>1. /\ WindowOK(g, s, b.used, t) /\ s \in Nat /\ s + AttemptWindow <= t
        /\ b.used \in Nat /\ b.used <= AttemptsPerPhone /\ s \in Ends /\ s + 1 \in Ends
    BY <1>0, <1>2, Numbers3 DEF BudgetOK, RunOut, Times, Ends
  <2> HIDE DEF s
  <2>2. g[t] = g[t + 1]
    BY <1>0, <2>1 DEF WindowOK
  <2>3. \A x \in Ends : x > t - AttemptWindow => g[s + 1] <= g[x]
    BY <1>0, <2>1, Numbers3 DEF BudgetOK, CountOK
  <2>4. g[t + 1] - g[s] = b.used /\ g[s + 1] > g[s]
    BY <2>1 DEF WindowOK
  <2>5. \A x \in Ends : x > t - AttemptWindow => g[t + 1] - g[x] < AttemptsPerPhone
    <3> TAKE x \in Ends
    <3> HAVE x > t - AttemptWindow
    <3>1. g[s + 1] <= g[x] /\ g[x] \in Nat /\ g[s] \in Nat /\ g[s + 1] \in Nat /\ g[t + 1] \in Nat
      BY <1>0, <2>1, <2>3
    <3> QED BY <2>1, <2>4, <3>1, Numbers3
  <2> QED BY <2>2, <2>5 DEF RestOK
<1> QED BY <1>1, <1>2

LEMMA TimeGoesOn ==
    ASSUME NEW g, NEW b, NEW t \in Times, t < MaxNow, BudgetOK(g, b, t)
    PROVE  BudgetOK(g, b, t + 1)
<1>0. /\ t \in Nat /\ t + 1 \in Ends /\ (t + 1) + 1 \in Ends /\ g[(t + 1) + 1] = g[t + 1]
      /\ \A x \in Ends : x \in Nat /\ g[x] \in Nat
  BY Numbers3 DEF Times, Ends, BudgetOK, CountOK
<1>1. CountOK(g, t + 1)
  BY <1>0 DEF BudgetOK, CountOK
<1>2. RestOK(g, t) => RestOK(g, t + 1)
  BY <1>0, Numbers3 DEF RestOK
<1>3. ASSUME NEW s \in Nat, NEW u, WindowOK(g, s, u, t) PROVE WindowOK(g, s, u, t + 1)
  BY <1>0, <1>3, Numbers3 DEF WindowOK
<1>4. b.start \in Nat
  BY DEF BudgetOK, Times
<1> QED BY <1>1, <1>2, <1>3, <1>4 DEF BudgetOK

\* A guess within the budget.
LEMMA GuessFits ==
    ASSUME NEW g, NEW b, NEW t \in Times, BudgetOK(g, b, t),
           b.used = 0 \/ RunOut(b, t) \/ b.used < AttemptsPerPhone,
           NEW h, h = [x \in Ends |-> g[x] + IF x <= t THEN 0 ELSE 1]
    PROVE  BudgetOK(h, IF b.used = 0 \/ RunOut(b, t) THEN [start |-> t, used |-> 1]
                       ELSE [b EXCEPT !.used = b.used + 1], t)
<1>0. /\ t \in Nat /\ t + 1 \in Ends /\ t \in Ends /\ t <= MaxNow
      /\ \A x \in Ends : x \in Nat /\ g[x] \in Nat /\ h[x] \in Nat
      /\ \A x \in Ends : x <= t => h[x] = g[x]
      /\ \A x \in Ends : x > t => h[x] = g[x] + 1 /\ g[x] = g[t + 1]
      /\ \A x, y \in Ends : x <= y => g[x] <= g[y]
  BY Numbers3 DEF Times, Ends, BudgetOK, CountOK
<1>1. CountOK(h, t)
  <2>1. h \in [Ends -> Nat]
    BY <1>0
  <2>2. \A x, y \in Ends : x <= y => h[x] <= h[y]
    <3> TAKE x, y \in Ends
    <3> HAVE x <= y
    <3>1. g[x] <= g[y] /\ g[x] \in Nat /\ g[y] \in Nat /\ x \in Nat /\ y \in Nat
      BY <1>0
    <3>2. CASE y <= t
      BY <1>0, <3>1, <3>2
    <3>3. CASE y > t
      BY <1>0, <3>1, <3>3
    <3> QED BY <1>0, <3>1, <3>2, <3>3
  <2>3. \A x \in Ends : x > t => h[x] = h[t + 1]
    BY <1>0
  <2> QED BY <2>1, <2>2, <2>3 DEF CountOK
<1>2. CASE b.used = 0 \/ RunOut(b, t)
  <2>1. RestOK(g, t)
    BY <1>2, WindowCloses
  <2>2. WindowOK(h, t, 1, t)
    <3>1. t \in 0 .. t /\ h[t + 1] - h[t] = 1
      BY <1>0, <2>1 DEF RestOK
    <3>2. \A x \in Ends : x >= t + AttemptWindow => h[x] = h[t + 1]
      BY <1>0, Numbers3
    <3>3. \A x \in Ends : x > t - AttemptWindow => h[t] - h[x] < AttemptsPerPhone
      <4> TAKE x \in Ends
      <4> HAVE x > t - AttemptWindow
      <4>1. g[t] = g[t + 1] /\ g[t + 1] - g[x] < AttemptsPerPhone
        BY <2>1 DEF RestOK
      <4>2. h[t] = g[t] /\ h[x] >= g[x] /\ h[x] \in Nat /\ g[x] \in Nat /\ g[t] \in Nat
        BY <1>0
      <4> QED BY <4>1, <4>2, Numbers3
    <3>4. h[t + 1] > h[t]
      BY <1>0, <3>1
    <3> QED BY <3>1, <3>2, <3>3, <3>4 DEF WindowOK
  <2>3. StretchOK(h)
    <3> SUFFICES ASSUME NEW x \in 0 .. MaxNow + 1 - AttemptWindow
                 PROVE  h[x + AttemptWindow] - h[x] < 2 * AttemptsPerPhone
      BY DEF StretchOK
    <3> DEFINE y == x + AttemptWindow
    <3>1. x \in Ends /\ y \in Ends /\ x \in Nat /\ y \in Nat
      BY Numbers3 DEF Ends
    <3>2. g[y] - g[x] < 2 * AttemptsPerPhone
      BY DEF BudgetOK, StretchOK
    <3>3. y > t /\ x <= t => x > t - AttemptWindow
      BY <1>0, <3>1, Numbers3
    <3>4. y > t /\ x <= t => g[y] - g[x] < AttemptsPerPhone
      <4> HAVE y > t /\ x <= t
      <4>1. g[y] = g[t + 1]
        BY <1>0, <3>1
      <4> HIDE DEF y
      <4>2. x > t - AttemptWindow
        BY <3>3
      <4> QED BY <2>1, <3>1, <4>1, <4>2 DEF RestOK
    <3> HIDE DEF y
    <3>5. /\ g[x] \in Nat /\ g[y] \in Nat
          /\ h[x] = IF x <= t THEN g[x] ELSE g[x] + 1
          /\ h[y] = IF y <= t THEN g[y] ELSE g[y] + 1
      BY <1>0, <3>1
    <3>6. h[y] - h[x] < 2 * AttemptsPerPhone
      BY <1>0, <3>1, <3>2, <3>4, <3>5, Numbers3
    <3> QED BY <3>6 DEF y
  <2>4. [start |-> t, used |-> 1] \in [start : Times, used : 0 .. AttemptsPerPhone]
    BY Numbers3
  <2> QED BY <1>1, <1>2, <2>2, <2>3, <2>4 DEF BudgetOK
<1>3. CASE ~(b.used = 0 \/ RunOut(b, t))
  <2> DEFINE s == b.start
             u == b.used
  <2>1. /\ WindowOK(g, s, u, t) /\ s \in Nat /\ t < s + AttemptWindow /\ s <= t
        /\ u \in Nat /\ u < AttemptsPerPhone /\ s \in Ends /\ s + 1 \in Ends
    <3>1. b.start \in Nat /\ b.used \in Nat /\ WindowOK(g, s, u, t)
      BY <1>3 DEF BudgetOK, Times
    <3>2. s \in Nat /\ s <= t /\ u \in Nat
      BY <1>0, <3>1 DEF WindowOK
    <3>3. ~(t - s >= AttemptWindow) /\ u < AttemptsPerPhone
      BY <1>3 DEF RunOut
    <3> HIDE DEF s, u
    <3> QED BY <1>0, <3>1, <3>2, <3>3, Numbers3 DEF Ends
  <2> HIDE DEF s, u
  <2>2. WindowOK(h, s, u + 1, t)
    <3>0. /\ g[t + 1] - g[s] = u /\ g[s + 1] > g[s] /\ h[s] = g[s] /\ h[t + 1] = g[t + 1] + 1
          /\ h[s + 1] >= g[s + 1] /\ g[s] \in Nat /\ g[s + 1] \in Nat /\ h[s + 1] \in Nat
          /\ g[t + 1] \in Nat /\ \A x \in Ends : h[x] >= g[x]
      BY <1>0, <2>1 DEF WindowOK
    <3>1. s \in 0 .. t /\ h[t + 1] - h[s] = u + 1 /\ h[s + 1] > h[s]
      BY <1>0, <2>1, <3>0
    <3>2. \A x \in Ends : x >= s + AttemptWindow => h[x] = h[t + 1]
      BY <1>0, <2>1, Numbers3
    <3>3. \A x \in Ends : x > s - AttemptWindow => h[s] - h[x] < AttemptsPerPhone
      <4> TAKE x \in Ends
      <4> HAVE x > s - AttemptWindow
      <4>1. g[s] - g[x] < AttemptsPerPhone
        BY <2>1 DEF WindowOK
      <4>2. g[x] \in Nat /\ h[x] \in Nat /\ h[x] >= g[x]
        BY <1>0, <3>0
      <4> QED BY <3>0, <4>1, <4>2, Numbers3
    <3> QED BY <3>1, <3>2, <3>3 DEF WindowOK
  <2>3. StretchOK(h)
    <3> SUFFICES ASSUME NEW x \in 0 .. MaxNow + 1 - AttemptWindow
                 PROVE  h[x + AttemptWindow] - h[x] < 2 * AttemptsPerPhone
      BY DEF StretchOK
    <3> DEFINE y == x + AttemptWindow
    <3>1. x \in Ends /\ y \in Ends /\ x \in Nat /\ y \in Nat
      BY Numbers3 DEF Ends
    <3>2. g[y] - g[x] < 2 * AttemptsPerPhone
      BY DEF BudgetOK, StretchOK
    <3>3. y > t => x > s - AttemptWindow
      BY <1>0, <2>1, <3>1, Numbers3
    <3>4. y > t => g[y] - g[s] < AttemptsPerPhone /\ g[s] - g[x] < AttemptsPerPhone
      <4> HAVE y > t
      <4>1. g[y] = g[t + 1]
        BY <1>0, <3>1
      <4> HIDE DEF y
      <4>2. x > s - AttemptWindow
        BY <3>3
      <4> QED BY <2>1, <3>1, <4>1, <4>2 DEF WindowOK
    <3> HIDE DEF y
    <3>5. /\ g[x] \in Nat /\ g[y] \in Nat /\ g[s] \in Nat
          /\ h[x] = IF x <= t THEN g[x] ELSE g[x] + 1
          /\ h[y] = IF y <= t THEN g[y] ELSE g[y] + 1
      BY <1>0, <2>1, <3>1
    <3>6. h[y] - h[x] < 2 * AttemptsPerPhone
      BY <1>0, <2>1, <3>1, <3>2, <3>4, <3>5, Numbers3
    <3> QED BY <3>6 DEF y
  <2>4. /\ [b EXCEPT !.used = b.used + 1] \in [start : Times, used : 0 .. AttemptsPerPhone]
        /\ [b EXCEPT !.used = b.used + 1].used = u + 1
        /\ [b EXCEPT !.used = b.used + 1].start = s
    BY <2>1, Numbers3 DEF BudgetOK, s, u
  <2> QED BY <1>1, <1>3, <2>1, <2>2, <2>3, <2>4 DEF BudgetOK
<1> QED BY <1>2, <1>3

----------------------------------------------------------------------------
\* Challenges and their proofs.

\* Challenges are numbered in order.
OrderOK == \E k \in 0 .. MaxChallenges : DOMAIN started = 1 .. k

\* A challenge is guessed, proved or used up: one of them, and used once.
ProofsOK ==
    \A c \in ChallengeIds :
      /\ c \in DOMAIN verified => c \notin DOMAIN challenges /\ registered[c] = 0
      /\ c \notin DOMAIN started => registered[c] = 0
      /\ registered[c] <= 1 /\ (registered[c] = 1 => c \notin DOMAIN challenges)

BudgetsOK == \A n \in Numbers : BudgetOK(Guessed(n), budgets[n], now)

PhoneInv == VerificationTypeOK /\ OrderOK /\ ProofsOK /\ BudgetsOK

LEMMA PhoneStarts == VerificationInit => PhoneInv
<1> SUFFICES ASSUME VerificationInit PROVE PhoneInv
  OBVIOUS
<1>1. 0 \in Times /\ NoBudget \in [start : Times, used : 0 .. AttemptsPerPhone] /\ NoBudget.used = 0
  BY Numbers3 DEF Times, NoBudget
<1>2. VerificationTypeOK
  BY <1>1 DEF VerificationInit, VerificationTypeOK
<1>3. OrderOK
  <2>1. DOMAIN started = 1 .. 0 /\ 0 \in 0 .. MaxChallenges
    BY VerificationAssumption DEF VerificationInit
  <2> QED BY <2>1 DEF OrderOK
<1>4. ProofsOK
  BY DEF VerificationInit, ProofsOK
<1>5. ASSUME NEW n \in Numbers PROVE BudgetOK(Guessed(n), budgets[n], now)
  <2> DEFINE g == Guessed(n)
  <2>1. now = 0 /\ budgets[n] = NoBudget
    BY DEF VerificationInit
  <2>2. \A t \in Ends : g[t] = 0
    <3> TAKE t \in Ends
    <3>1. t # 0 => t - 1 \in Times
      BY Numbers3 DEF Ends, Times
    <3> QED BY <3>1 DEF Guessed, GuessesBefore, VerificationInit
  <2>3. g \in [Ends -> Nat]
    <3>1. g = [t \in Ends |-> g[t]]
      BY DEF Guessed
    <3> HIDE DEF g
    <3> QED BY <2>2, <3>1
  <2> HIDE DEF g
  <2>4. 0 \in Ends /\ 0 + 1 \in Ends
    BY Numbers3 DEF Ends
  <2>5. CountOK(g, 0)
    BY <2>2, <2>3, <2>4 DEF CountOK
  <2>6. StretchOK(g)
    <3>1. \A x \in 0 .. MaxNow + 1 - AttemptWindow : x \in Ends /\ x + AttemptWindow \in Ends
      BY Numbers3 DEF Ends
    <3> QED BY <2>2, <3>1, Numbers3 DEF StretchOK
  <2>7. RestOK(g, 0)
    BY <2>2, <2>4, Numbers3 DEF RestOK
  <2> QED BY <1>1, <2>1, <2>5, <2>6, <2>7 DEF BudgetOK, g
<1> QED BY <1>2, <1>3, <1>4, <1>5 DEF PhoneInv, BudgetsOK

\* What becomes of the guesses with a step is seen in the counts.
LEMMA GuessedStays ==
    ASSUME UNCHANGED guesses, NEW n \in Numbers PROVE Guessed(n)' = Guessed(n)
  BY DEF Guessed, GuessesBefore

LEMMA GuessedGrows ==
    ASSUME NEW n \in Numbers, VerificationTypeOK,
           guesses' = [guesses EXCEPT ![n] = [t \in Times |-> guesses[n][t] + IF t < now THEN 0 ELSE 1]]
    PROVE  /\ Guessed(n)' = [x \in Ends |-> Guessed(n)[x] + IF x <= now THEN 0 ELSE 1]
           /\ \A m \in Numbers : m # n => Guessed(m)' = Guessed(m)
<1>1. /\ guesses \in [Numbers -> [Times -> Nat]] /\ now \in Nat
      /\ \A m \in Numbers : m # n => guesses'[m] = guesses[m]
      /\ guesses'[n] = [t \in Times |-> guesses[n][t] + IF t < now THEN 0 ELSE 1]
  BY DEF VerificationTypeOK, Times
<1>2. \A x \in Ends : x # 0 => x - 1 \in Times /\ (x <= now <=> x - 1 < now)
  BY <1>1, Numbers3 DEF Ends, Times
<1>3. ASSUME NEW x \in Ends
      PROVE  GuessesBefore(n, x)' = GuessesBefore(n, x) + IF x <= now THEN 0 ELSE 1
  <2>1. CASE x = 0
    BY <1>1, <2>1 DEF GuessesBefore
  <2>2. CASE x # 0
    <3>1. GuessesBefore(n, x)' = guesses'[n][x - 1] /\ GuessesBefore(n, x) = guesses[n][x - 1]
      BY <2>2 DEF GuessesBefore
    <3> QED BY <1>1, <1>2, <2>2, <3>1
  <2> QED BY <2>1, <2>2
<1>4. \A m \in Numbers : m # n => Guessed(m)' = Guessed(m)
  BY <1>1 DEF Guessed, GuessesBefore
<1>5. Guessed(n)' = [x \in Ends |-> Guessed(n)[x] + IF x <= now THEN 0 ELSE 1]
  BY <1>3 DEF Guessed
<1> QED BY <1>4, <1>5

LEMMA PhoneTicks == PhoneInv /\ TimePasses => PhoneInv'
<1> SUFFICES ASSUME PhoneInv, TimePasses PROVE PhoneInv'
  OBVIOUS
<1>1. /\ now \in Times /\ now < MaxNow /\ now' = now + 1 /\ now' \in Times
      /\ UNCHANGED <<started, challenges, verified, budgets, guesses, registered>>
  BY Numbers3 DEF TimePasses, PhoneInv, VerificationTypeOK, Times
<1>2. VerificationTypeOK' /\ OrderOK' /\ ProofsOK'
  BY <1>1 DEF PhoneInv, VerificationTypeOK, OrderOK, ProofsOK
<1>3. BudgetsOK'
  <2> SUFFICES ASSUME NEW n \in Numbers PROVE BudgetOK(Guessed(n)', budgets'[n], now')
    BY DEF BudgetsOK
  <2>1. BudgetOK(Guessed(n), budgets[n], now + 1)
    BY <1>1, TimeGoesOn DEF PhoneInv, BudgetsOK
  <2> QED BY <1>1, <2>1, GuessedStays
<1> QED BY <1>2, <1>3 DEF PhoneInv

LEMMA PhoneIsAsked == ASSUME NEW n \in Numbers PROVE PhoneInv /\ StartPhoneVerification(n) => PhoneInv'
<1> SUFFICES ASSUME PhoneInv, StartPhoneVerification(n) PROVE PhoneInv'
  OBVIOUS
<1>1. PICK k \in 0 .. MaxChallenges : DOMAIN started = 1 .. k
  BY DEF PhoneInv, OrderOK
<1>2. Cardinality(DOMAIN started) = k /\ k < MaxChallenges /\ k \in Nat
  <2>1. k \in Nat
    BY VerificationAssumption
  <2>2. Cardinality(1 .. k) = IF 1 > k THEN 0 ELSE k - 1 + 1
    BY <2>1, FS_Interval
  <2>3. Cardinality(DOMAIN started) = k
    BY <1>1, <2>1, <2>2
  <2> QED BY <2>1, <2>3 DEF StartPhoneVerification
<1> DEFINE new == k + 1
           kept == {c \in DOMAIN challenges : challenges[c].expires > now} \cup {new}
           asked == With(started, new, n)
           issued == With(challenges, new, [expires |-> now + CodeTtl, left |-> AttemptsPerCode])
           Newer(c) == {d \in kept : asked[d] = n /\ d > c}
           stay == {c \in kept : asked[c] = n => Cardinality(Newer(c)) < MaxLive}
<1>3. /\ started' = asked /\ challenges' = Restrict(issued, stay)
      /\ verified' = Restrict(verified, {c \in DOMAIN verified : verified[c] > now})
      /\ budgets' = SweepBudgets /\ UNCHANGED <<now, guesses, registered>>
  BY <1>2 DEF StartPhoneVerification
<1> HIDE DEF stay
<1>4. stay \subseteq kept
  BY DEF stay
<1>5. /\ new \in ChallengeIds /\ new \notin DOMAIN started /\ DOMAIN asked = 1 .. new /\ asked[new] = n
      /\ \A c \in DOMAIN started : asked[c] = started[c]
  BY <1>1, <1>2, VerificationAssumption DEF ChallengeIds, With
<1>6. /\ DOMAIN issued = DOMAIN challenges \cup {new}
      /\ \A c \in DOMAIN challenges : c # new => issued[c] = challenges[c]
      /\ issued[new] = [expires |-> now + CodeTtl, left |-> AttemptsPerCode]
  BY DEF With
<1>7. DOMAIN challenges' = stay /\ \A c \in stay : challenges'[c] = issued[c]
  BY <1>3 DEF Restrict
<1>8. /\ DOMAIN verified' \subseteq DOMAIN verified
      /\ \A c \in DOMAIN verified' : verified'[c] = verified[c]
  BY <1>3 DEF Restrict
<1> HIDE DEF asked, issued
<1>9. now \in Times /\ now \in Nat /\ CodeTtl \in Nat /\ CodeTtl > 0 /\ AttemptsPerCode \in Nat
      /\ AttemptsPerCode > 0
  BY VerificationAssumption DEF PhoneInv, VerificationTypeOK, Times
<1>10. issued[new] \in [expires : 1 .. MaxNow + CodeTtl, left : 1 .. AttemptsPerCode]
  BY <1>6, <1>9, Numbers3 DEF Times
<1>11. DOMAIN started' = DOMAIN started \cup {new}
  BY <1>1, <1>2, <1>3, <1>5
<1>12. budgets' \in [Numbers -> [start : Times, used : 0 .. AttemptsPerPhone]]
  BY <1>3, Numbers3 DEF SweepBudgets, NoBudget, PhoneInv, VerificationTypeOK, Times
<1>13. VerificationTypeOK'
  <2>1. /\ DOMAIN started' \subseteq ChallengeIds
        /\ \A c \in DOMAIN started' : started'[c] \in Numbers
    BY <1>3, <1>5, <1>11 DEF PhoneInv, VerificationTypeOK
  <2>2. DOMAIN challenges' \subseteq DOMAIN started' /\ DOMAIN verified' \subseteq DOMAIN started'
    BY <1>4, <1>7, <1>8, <1>11 DEF PhoneInv, VerificationTypeOK
  <2>3. \A c \in DOMAIN verified' : verified'[c] \in 1 .. MaxNow + VerifiedTtl
    BY <1>8 DEF PhoneInv, VerificationTypeOK
  <2>4. ASSUME NEW c \in DOMAIN challenges'
        PROVE  challenges'[c] \in [expires : 1 .. MaxNow + CodeTtl, left : 1 .. AttemptsPerCode]
    <3>1. c \in stay /\ c \in kept /\ challenges'[c] = issued[c]
      BY <1>4, <1>7
    <3>2. CASE c = new
      BY <1>10, <3>1, <3>2
    <3>3. CASE c # new
      <4>1. c \in DOMAIN challenges /\ issued[c] = challenges[c]
        BY <1>6, <3>1, <3>3
      <4> QED BY <3>1, <4>1 DEF PhoneInv, VerificationTypeOK
    <3> QED BY <3>2, <3>3
  <2>5. /\ now' \in Times /\ guesses' \in [Numbers -> [Times -> Nat]]
        /\ registered' \in [ChallengeIds -> Nat]
    BY <1>3 DEF PhoneInv, VerificationTypeOK
  <2> QED BY <1>12, <2>1, <2>2, <2>3, <2>4, <2>5 DEF VerificationTypeOK
<1>14. OrderOK'
  BY <1>2, <1>3, <1>5, VerificationAssumption DEF OrderOK
<1>15. ProofsOK'
  <2>1. new \notin DOMAIN verified /\ registered[new] = 0 /\ registered' = registered
    BY <1>3, <1>5 DEF PhoneInv, VerificationTypeOK, ProofsOK
  <2>2. DOMAIN challenges' \subseteq DOMAIN challenges \cup {new}
    BY <1>4, <1>7
  <2> HIDE DEF new
  <2> QED BY <1>8, <1>11, <2>1, <2>2 DEF PhoneInv, ProofsOK
<1>16. BudgetsOK'
  <2> SUFFICES ASSUME NEW m \in Numbers PROVE BudgetOK(Guessed(m)', budgets'[m], now')
    BY DEF BudgetsOK
  <2>1. Guessed(m)' = Guessed(m) /\ now' = now
    BY <1>3, GuessedStays
  <2>2. BudgetOK(Guessed(m), budgets[m], now)
    BY DEF PhoneInv, BudgetsOK
  <2>3. CASE WindowOver(m)
    <3>1. budgets'[m] = NoBudget
      BY <1>3, <2>3 DEF SweepBudgets
    <3>2. RestOK(Guessed(m), now)
      BY <1>9, <2>2, <2>3, WindowCloses DEF WindowOver, RunOut
    <3>3. NoBudget.used = 0 /\ NoBudget \in [start : Times, used : 0 .. AttemptsPerPhone]
      BY Numbers3 DEF NoBudget, Times
    <3> QED BY <2>1, <2>2, <3>1, <3>2, <3>3 DEF BudgetOK
  <2>4. CASE ~WindowOver(m)
    <3>1. budgets'[m] = budgets[m]
      BY <1>3, <2>4 DEF SweepBudgets
    <3> QED BY <2>1, <2>2, <3>1
  <2> QED BY <2>3, <2>4
<1> QED BY <1>13, <1>14, <1>15, <1>16 DEF PhoneInv

\* A code that is compared is paid for.
LEMMA BudgetsSpend ==
    ASSUME PhoneInv, NEW n \in Numbers, SpendAttempt(n), UNCHANGED now
    PROVE  /\ BudgetsOK' /\ budgets' \in [Numbers -> [start : Times, used : 0 .. AttemptsPerPhone]]
           /\ guesses' \in [Numbers -> [Times -> Nat]]
<1> DEFINE b == budgets[n]
           next == IF b.used = 0 \/ RunOut(b, now) THEN [start |-> now, used |-> 1]
                   ELSE [b EXCEPT !.used = b.used + 1]
<1>1. /\ budgets \in [Numbers -> [start : Times, used : 0 .. AttemptsPerPhone]] /\ now \in Times
      /\ guesses \in [Numbers -> [Times -> Nat]] /\ VerificationTypeOK
  BY DEF PhoneInv, VerificationTypeOK
<1>2. /\ guesses' = [guesses EXCEPT ![n] = [t \in Times |-> guesses[n][t] + IF t < now THEN 0 ELSE 1]]
      /\ budgets' = [budgets EXCEPT ![n] = next]
  BY DEF SpendAttempt, WindowOver, RunOut
<1>3. b.used = 0 \/ RunOut(b, now) \/ b.used < AttemptsPerPhone
  BY DEF SpendAttempt, CanSpend, WindowOver, RunOut
<1>4. guesses' \in [Numbers -> [Times -> Nat]]
  <2>1. [t \in Times |-> guesses[n][t] + IF t < now THEN 0 ELSE 1] \in [Times -> Nat]
    <3>1. \A t \in Times : guesses[n][t] \in Nat
      BY <1>1
    <3> QED BY <3>1
  <2> QED BY <1>1, <1>2, <2>1
<1>5. BudgetOK(Guessed(n)', next, now)
  <2>1. BudgetOK(Guessed(n), b, now)
    BY DEF PhoneInv, BudgetsOK
  <2> DEFINE h == Guessed(n)'
  <2>2. h = [x \in Ends |-> Guessed(n)[x] + IF x <= now THEN 0 ELSE 1]
    BY <1>1, <1>2, GuessedGrows
  <2> HIDE DEF h
  <2>3. BudgetOK(h, next, now)
    BY <1>1, <1>3, <2>1, <2>2, GuessFits
  <2> QED BY <2>3 DEF h
<1>6. next \in [start : Times, used : 0 .. AttemptsPerPhone]
  BY <1>5 DEF BudgetOK
<1> HIDE DEF next
<1>7. budgets' \in [Numbers -> [start : Times, used : 0 .. AttemptsPerPhone]]
  BY <1>1, <1>2, <1>6
<1>8. ASSUME NEW m \in Numbers PROVE BudgetOK(Guessed(m)', budgets'[m], now')
  <2>1. CASE m = n
    BY <1>1, <1>2, <1>5, <2>1
  <2>2. CASE m # n
    <3>1. budgets'[m] = budgets[m]
      BY <1>1, <1>2, <2>2
    <3>2. Guessed(m)' = Guessed(m)
      BY <1>1, <1>2, <2>2, GuessedGrows
    <3> QED BY <3>1, <3>2 DEF PhoneInv, BudgetsOK
  <2> QED BY <2>1, <2>2
<1> QED BY <1>4, <1>7, <1>8 DEF BudgetsOK

LEMMA CodesAreTried ==
    ASSUME PhoneInv, NEW c \in DOMAIN started,
           RefuseCode(c) \/ WrongCode(c) \/ RightCode(c) \/ ConsumeVerifiedPhone(c)
    PROVE  PhoneInv'
<1>1. /\ UNCHANGED <<now, started>> /\ c \in ChallengeIds /\ started[c] \in Numbers
      /\ now \in Times /\ now \in Nat /\ VerifiedTtl \in Nat /\ VerifiedTtl > 0
  BY VerificationAssumption
  DEF RefuseCode, WrongCode, RightCode, ConsumeVerifiedPhone, PhoneInv, VerificationTypeOK, Times
<1>2. /\ DOMAIN Without(challenges, c) = DOMAIN challenges \ {c}
      /\ \A d \in DOMAIN challenges \ {c} : Without(challenges, c)[d] = challenges[d]
      /\ DOMAIN Without(verified, c) = DOMAIN verified \ {c}
      /\ \A d \in DOMAIN verified \ {c} : Without(verified, c)[d] = verified[d]
  BY DEF Without, Restrict
<1>3. ASSUME UNCHANGED <<budgets, guesses>>
      PROVE  /\ BudgetsOK' /\ budgets' \in [Numbers -> [start : Times, used : 0 .. AttemptsPerPhone]]
             /\ guesses' \in [Numbers -> [Times -> Nat]]
  <2> SUFFICES ASSUME NEW n \in Numbers PROVE BudgetOK(Guessed(n)', budgets'[n], now')
    BY <1>3 DEF BudgetsOK, PhoneInv, VerificationTypeOK
  <2> QED BY <1>1, <1>3, GuessedStays DEF PhoneInv, BudgetsOK
<1>4. /\ BudgetsOK' /\ budgets' \in [Numbers -> [start : Times, used : 0 .. AttemptsPerPhone]]
      /\ guesses' \in [Numbers -> [Times -> Nat]]
  <2>1. CASE RefuseCode(c) \/ ConsumeVerifiedPhone(c)
    BY <1>3, <2>1 DEF RefuseCode, ConsumeVerifiedPhone
  <2>2. CASE WrongCode(c) \/ RightCode(c)
    <3>1. SpendAttempt(started[c])
      BY <2>2 DEF WrongCode, RightCode
    <3> QED BY <1>1, <3>1, BudgetsSpend
  <2> QED BY <2>1, <2>2
<1>5. OrderOK'
  BY <1>1 DEF PhoneInv, OrderOK
<1>6. /\ DOMAIN challenges' \subseteq DOMAIN challenges
      /\ \A d \in DOMAIN challenges' :
           challenges'[d] \in [expires : 1 .. MaxNow + CodeTtl, left : 1 .. AttemptsPerCode]
  <2>1. CASE challenges' = Without(challenges, c)
    BY <1>2, <2>1 DEF PhoneInv, VerificationTypeOK
  <2>2. CASE challenges' = challenges
    BY <2>2 DEF PhoneInv, VerificationTypeOK
  <2>3. CASE WrongCode(c) /\ challenges[c].left # 1
    <3>1. c \in DOMAIN challenges /\ challenges' = [challenges EXCEPT ![c].left = @ - 1]
      BY <2>3 DEF WrongCode, Valid
    <3> DEFINE e == challenges[c]
    <3>2. e \in [expires : 1 .. MaxNow + CodeTtl, left : 1 .. AttemptsPerCode]
      BY <3>1 DEF PhoneInv, VerificationTypeOK
    <3>3. e.left \in 1 .. AttemptsPerCode /\ e.left - 1 \in 1 .. AttemptsPerCode
      BY <2>3, <3>2, VerificationAssumption
    <3>4. [e EXCEPT !.left = e.left - 1] \in [expires : 1 .. MaxNow + CodeTtl, left : 1 .. AttemptsPerCode]
      BY <3>2, <3>3
    <3>5. challenges' = [challenges EXCEPT ![c] = [e EXCEPT !.left = e.left - 1]]
      BY <3>1
    <3> HIDE DEF e
    <3> QED BY <3>1, <3>4, <3>5 DEF PhoneInv, VerificationTypeOK
  <2> QED BY <2>1, <2>2, <2>3 DEF RefuseCode, WrongCode, RightCode, ConsumeVerifiedPhone
<1>7. /\ DOMAIN verified' \subseteq DOMAIN verified \cup {c}
      /\ \A d \in DOMAIN verified' : verified'[d] \in 1 .. MaxNow + VerifiedTtl
  <2>1. CASE verified' = Without(verified, c)
    BY <1>2, <2>1 DEF PhoneInv, VerificationTypeOK
  <2>2. CASE verified' = verified
    BY <2>2 DEF PhoneInv, VerificationTypeOK
  <2>3. CASE verified' = With(verified, c, now + VerifiedTtl)
    <3>1. /\ DOMAIN verified' = DOMAIN verified \cup {c} /\ verified'[c] = now + VerifiedTtl
          /\ \A d \in DOMAIN verified : d # c => verified'[d] = verified[d]
      BY <2>3 DEF With
    <3>2. now + VerifiedTtl \in 1 .. MaxNow + VerifiedTtl
      BY <1>1, Numbers3 DEF Times
    <3> QED BY <3>1, <3>2 DEF PhoneInv, VerificationTypeOK
  <2> QED BY <2>1, <2>2, <2>3 DEF RefuseCode, WrongCode, RightCode, ConsumeVerifiedPhone
<1>8. registered' \in [ChallengeIds -> Nat]
  <2>1. CASE ConsumeVerifiedPhone(c)
    <3>1. registered' \in {registered, [registered EXCEPT ![c] = registered[c] + 1]}
      BY <2>1 DEF ConsumeVerifiedPhone
    <3> QED BY <1>1, <3>1 DEF PhoneInv, VerificationTypeOK
  <2>2. CASE UNCHANGED registered
    BY <2>2 DEF PhoneInv, VerificationTypeOK
  <2> QED BY <2>1, <2>2 DEF RefuseCode, WrongCode, RightCode
<1>9. VerificationTypeOK'
  BY <1>1, <1>4, <1>6, <1>7, <1>8 DEF PhoneInv, VerificationTypeOK
<1>10. ProofsOK'
  <2>1. CASE RefuseCode(c) \/ WrongCode(c)
    <3>1. UNCHANGED <<verified, registered>>
      BY <2>1 DEF RefuseCode, WrongCode
    <3> QED BY <1>1, <1>6, <3>1 DEF PhoneInv, ProofsOK
  <2>2. CASE RightCode(c)
    <3>1. /\ UNCHANGED registered /\ DOMAIN challenges' = DOMAIN challenges \ {c} /\ c \in DOMAIN challenges
      BY <1>2, <2>2 DEF RightCode, Valid
    <3>2. registered[c] = 0
      <4>1. registered[c] \in Nat /\ registered[c] <= 1 /\ registered[c] # 1
        BY <1>1, <3>1 DEF PhoneInv, ProofsOK, VerificationTypeOK
      <4> QED BY <4>1
    <3> QED BY <1>1, <1>7, <3>1, <3>2 DEF PhoneInv, ProofsOK
  <2>3. CASE ConsumeVerifiedPhone(c)
    <3>1. /\ c \in DOMAIN verified /\ DOMAIN verified' = DOMAIN verified \ {c}
          /\ challenges' = challenges
          /\ registered' \in {registered, [registered EXCEPT ![c] = registered[c] + 1]}
      BY <1>2, <2>3 DEF ConsumeVerifiedPhone
    <3>2. registered[c] = 0 /\ c \notin DOMAIN challenges
      BY <1>1, <3>1 DEF PhoneInv, ProofsOK
    <3>3. registered'[c] \in {0, 1} /\ \A d \in ChallengeIds : d # c => registered'[d] = registered[d]
      BY <1>1, <3>1, <3>2 DEF PhoneInv, VerificationTypeOK
    <3> QED BY <1>1, <3>1, <3>2, <3>3 DEF PhoneInv, ProofsOK
  <2> QED BY <2>1, <2>2, <2>3
<1> QED BY <1>4, <1>5, <1>9, <1>10 DEF PhoneInv

LEMMA PhoneSteps == PhoneInv /\ [VerificationNext]_verificationVars => PhoneInv'
<1> SUFFICES ASSUME PhoneInv, [VerificationNext]_verificationVars PROVE PhoneInv'
  OBVIOUS
<1>1. CASE UNCHANGED verificationVars
  BY <1>1 DEF verificationVars, PhoneInv, VerificationTypeOK, OrderOK, ProofsOK, BudgetsOK,
              Guessed, GuessesBefore
<1> QED BY <1>1, PhoneTicks, PhoneIsAsked, CodesAreTried DEF VerificationNext

\* Challenges, proofs and budgets keep their types: no time is past the end of what it limits.
THEOREM PhoneTypes == VerificationSpec => []VerificationTypeOK
<1>1. PhoneInv => VerificationTypeOK
  BY DEF PhoneInv
<1> QED BY <1>1, PhoneSteps, PhoneStarts, PTL DEF VerificationSpec

\* However many codes are asked for, and whenever, the guesses at a number in any stretch of
\* one window are less than two budgets; and a code that is guessed proves its number once
\* (phoneVerification.ts spendAttempt, sweepExpired, consumeVerifiedPhone).
THEOREM GuessesStayBounded == VerificationSpec => []GuessesAreBounded
<1>1. PhoneInv => GuessesAreBounded
  <2> SUFFICES ASSUME PhoneInv PROVE GuessesAreBounded
    OBVIOUS
  <2>1. ASSUME NEW n \in Numbers, NEW x \in 0 .. MaxNow + 1 - AttemptWindow
        PROVE  GuessesWithin(n, x) < 2 * AttemptsPerPhone
    <3>1. x \in Ends /\ x + AttemptWindow \in Ends
      BY Numbers3 DEF Ends
    <3>2. Guessed(n)[x + AttemptWindow] - Guessed(n)[x] < 2 * AttemptsPerPhone
      BY DEF PhoneInv, BudgetsOK, BudgetOK, StretchOK
    <3> QED BY <3>1, <3>2 DEF GuessesWithin, Guessed
  <2> QED BY <2>1 DEF GuessesAreBounded, PhoneInv, ProofsOK
<1> QED BY <1>1, PhoneSteps, PhoneStarts, PTL DEF VerificationSpec
============================================================================
