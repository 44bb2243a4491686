--------------------------- MODULE IdentityStore ---------------------------
(***************************************************************************)
(* The identity half of store.ts: users, the phone index and contacts in   *)
(* the memory of each backend process, and the snapshot they share in one  *)
(* IDENTITY_DIR.                                                           *)
(*                                                                         *)
(* A process is synchronous, but another one may run between two of its    *)
(* system calls, so loading and saving are cut at these.  A row is whoever *)
(* wrote it last; a contact is its pair, its settings are left out, as an  *)
(* edit of them is saved like an edit of a profile.                        *)
(***************************************************************************)
EXTENDS Integers, FiniteSets

CONSTANTS
    Processes,          \* backends on the directory
    Seeded,             \* stage0TestIdentityIds, as numbers
    UserIds,            \* bound: the ids there may be, Seeded among them
    Companions,         \* COMPANION_IDS, who need not be registered here
    Phones,             \* the numbers people register with
    MaxWrites,          \* bound: renames of the snapshot
    MaxChanges,         \* bound: what routes change
    MaxRestarts         \* bound: processes that die

ASSUME IdentityAssumption ==
    UserIds \subseteq Nat \ {0} /\ Seeded \subseteq UserIds /\ UserIds # Seeded
    /\ Companions \subseteq UserIds
    /\ MaxWrites \in Nat \ {0} /\ MaxChanges \in Nat /\ MaxRestarts \in Nat
    /\ Processes \cap {"absent", "created"} = {}

VARIABLES
    memory,     \* users, phones and contacts of each process; while it loads, what it read
    disk,       \* the snapshot and its stamp, 0 for no file
    lastWritten,\* the stamp each process takes for its own
    saving,     \* where each process is in loadIdentityStore or saveIdentities
    seen,       \* the stamp of the snapshot each process has read or written last
    changes,    \* changes so far
    restarts,   \* deaths so far
    doubled     \* numbers registered where they were unknown, with a profile elsewhere

identityVars == <<memory, disk, lastWritten, saving, seen, changes, restarts, doubled>>

SnapshotType == [users : [UserIds -> {"absent", "created"} \cup Processes],
                 phones : [Phones -> UserIds \cup {0}],
                 contacts : SUBSET (UserIds \X UserIds)]

\* joinEveryone: each is a contact of each other.
JoinEveryone(m, ids) ==
    [m EXCEPT !.contacts = @ \cup {pair \in ids \X ids : pair[1] # pair[2]}]

Known(m) == {u \in UserIds : m.users[u] # "absent"}

NoIdentities == [users |-> [u \in UserIds |-> "absent"], phones |-> [n \in Phones |-> 0],
                 contacts |-> {}]

SeedIdentities ==
    JoinEveryone([NoIdentities EXCEPT !.users = [u \in UserIds |-> IF u \in Seeded THEN "created"
                                                                  ELSE "absent"]], Seeded)

AddUser(m, u, n) == [m EXCEPT !.users = [@ EXCEPT ![u] = "created"],
                              !.phones = [@ EXCEPT ![n] = u]]

EditUser(m, u, p) == [m EXCEPT !.users = [@ EXCEPT ![u] = p]]

Ready == [at |-> "serving", edit |-> 0, deferred |-> FALSE]
Down == [Ready EXCEPT !.at = "down"]

\* No file yet, or one of a version that joined nobody to the seed.
IdentityInit ==
    /\ memory = [p \in Processes |-> NoIdentities]
    /\ lastWritten = [p \in Processes |-> 0] /\ seen = [p \in Processes |-> 0]
    /\ saving = [p \in Processes |-> Down] /\ changes = 0 /\ restarts = 0 /\ doubled = {}
    /\ \/ disk = [snapshot |-> NoIdentities, stamp |-> 0]
       \/ \E n \in Phones :
            LET u == CHOOSE u \in UserIds : u \notin Seeded IN
            disk = [stamp |-> 1, snapshot |-> AddUser(SeedIdentities, u, n)]

IsAt(p, where) == saving[p].at = where
Turns(p, where) == saving' = [saving EXCEPT ![p] = [@ EXCEPT !.at = where]]
Saves(p, edit) == saving' = [saving EXCEPT ![p] = [@ EXCEPT !.at = "stat", !.edit = edit]]
Returns(p) == saving' = [saving EXCEPT ![p] = [@ EXCEPT !.at = "serving", !.edit = 0]]

----------------------------------------------------------------------------
(* loadIdentityStore. *)

\* The rows of the file win; one that points at nobody is dropped.
ApplySnapshot(m, s) ==
    LET users == [u \in UserIds |-> IF s.users[u] # "absent" THEN s.users[u] ELSE m.users[u]]
    IN [users |-> users,
        phones |-> [n \in Phones |-> IF s.phones[n] # 0 /\ users[s.phones[n]] # "absent"
                                     THEN s.phones[n] ELSE m.phones[n]],
        contacts |-> m.contacts \cup {pair \in s.contacts : users[pair[1]] # "absent"
                                                         /\ users[pair[2]] # "absent"}]

\* Each real user meets the seed, and no other.
JoinGrid(m) ==
    [m EXCEPT !.contacts = @ \cup UNION {JoinEveryone(NoIdentities, Seeded \cup {u}).contacts :
                                           u \in Known(m) \ Seeded}]

Boot(p) ==
    /\ IsAt(p, "down")
    /\ memory' = [memory EXCEPT ![p] = disk.snapshot]
    /\ seen' = [seen EXCEPT ![p] = disk.stamp]
    /\ Turns(p, "loading")
    /\ UNCHANGED <<disk, lastWritten, changes, restarts, doubled>>

\* The stamp is taken after the file was read.
Load(p) ==
    LET applied == ApplySnapshot(SeedIdentities, memory[p])
        joined == IF seen[p] = 0 THEN applied ELSE JoinGrid(applied)
    IN /\ IsAt(p, "loading")
       /\ memory' = [memory EXCEPT ![p] = joined]
       /\ lastWritten' = [lastWritten EXCEPT ![p] = disk.stamp]
       /\ Turns(p, IF joined.contacts # applied.contacts THEN "stat" ELSE "serving")
       /\ UNCHANGED <<disk, seen, changes, restarts, doubled>>

----------------------------------------------------------------------------
(* What the routes do to it. *)

Changes(p) == IsAt(p, "serving") /\ changes < MaxChanges /\ changes' = changes + 1

\* A random id is nobody else's; which of these it is makes no difference.
Unused == UserIds \ (Known(disk.snapshot) \cup UNION {Known(memory[p]) : p \in Processes})
NewId == CHOOSE u \in Unused : TRUE

\* Whoever is new meets the seed, and the companions there are.
Welcome(m, u) == LET met == JoinEveryone(m, Seeded \cup {u})
                 IN JoinEveryone(met, {u} \cup (Companions \cap Known(met)))

\* A number that is known logs its owner in, and writes nothing.
CreateUserFromPhone(p, n) ==
    /\ Changes(p) /\ memory[p].phones[n] = 0
    /\ Unused # {}
    /\ memory' = [memory EXCEPT ![p] = Welcome(AddUser(@, NewId, n), NewId)]
    /\ doubled' = IF disk.snapshot.phones[n] = 0 /\ \A q \in Processes : memory[q].phones[n] = 0
                  THEN doubled ELSE doubled \cup {n}
    /\ Saves(p, NewId)
    /\ UNCHANGED <<disk, lastWritten, seen, restarts>>

UpdateUser(p, u) ==
    /\ Changes(p) /\ u \in Known(memory[p])
    /\ memory' = [memory EXCEPT ![p] = EditUser(@, u, p)]
    /\ Saves(p, u)
    /\ UNCHANGED <<disk, lastWritten, seen, restarts, doubled>>

LinkContactPair(p, pair, persist) ==
    /\ Changes(p) /\ pair \subseteq Known(memory[p])
    /\ memory' = [memory EXCEPT ![p] = JoinEveryone(@, pair)]
    /\ IF persist = "now" THEN Saves(p, 0)
       ELSE saving' = [saving EXCEPT ![p] = [@ EXCEPT !.deferred = TRUE]]
    /\ UNCHANGED <<disk, lastWritten, seen, restarts, doubled>>

\* setImmediate; two that are pending find the same memory to save, and are one here.
SaveDeferred(p) ==
    /\ IsAt(p, "serving") /\ saving[p].deferred
    /\ saving' = [saving EXCEPT ![p] = [@ EXCEPT !.at = "stat", !.deferred = FALSE]]
    /\ UNCHANGED <<memory, disk, lastWritten, seen, changes, restarts, doubled>>

----------------------------------------------------------------------------
(* saveIdentities. *)

\* Mutant: the contacts are looked at before the users they need have come.
MergeMissingContactsFirst(m, s) ==
    [users |-> [u \in UserIds |-> IF m.users[u] # "absent" THEN m.users[u] ELSE s.users[u]],
     phones |-> [n \in Phones |-> IF m.phones[n] # 0 THEN m.phones[n] ELSE s.phones[n]],
     contacts |-> m.contacts \cup {pair \in s.contacts : {pair[1], pair[2]} \subseteq Known(m)}]

\* Only what is missing is taken in; users first.
MergeMissing(m, s) ==
    LET users == [u \in UserIds |-> IF m.users[u] # "absent" THEN m.users[u] ELSE s.users[u]]
    IN [users |-> users,
        phones |-> [n \in Phones |-> IF m.phones[n] = 0 /\ s.phones[n] # 0
                                        /\ users[s.phones[n]] # "absent"
                                     THEN s.phones[n] ELSE m.phones[n]],
        contacts |-> m.contacts \cup {pair \in s.contacts : users[pair[1]] # "absent"
                                                         /\ users[pair[2]] # "absent"}]

StatSnapshot(p) ==
    /\ IsAt(p, "stat")
    /\ Turns(p, IF disk.stamp \in {0, lastWritten[p]} THEN "writing" ELSE "adopting")
    /\ UNCHANGED <<memory, disk, lastWritten, seen, changes, restarts, doubled>>

\* A file that cannot be read is overwritten.
AdoptForeignWrites(p) ==
    /\ IsAt(p, "adopting")
    /\ Turns(p, "writing")
    /\ \/ /\ memory' = [memory EXCEPT ![p] = MergeMissing(@, disk.snapshot)]
          /\ seen' = [seen EXCEPT ![p] = disk.stamp]
       \/ UNCHANGED <<memory, seen>>
    /\ UNCHANGED <<disk, lastWritten, changes, restarts, doubled>>

RenameSnapshot(p) ==
    /\ IsAt(p, "writing") /\ disk.stamp < MaxWrites
    /\ disk' = [snapshot |-> memory[p], stamp |-> disk.stamp + 1]
    /\ seen' = [seen EXCEPT ![p] = disk'.stamp]
    /\ Turns(p, "renamed")
    /\ UNCHANGED <<memory, lastWritten, changes, restarts, doubled>>

StampSnapshot(p) ==
    /\ IsAt(p, "renamed")
    /\ lastWritten' = [lastWritten EXCEPT ![p] = disk.stamp]
    /\ Returns(p)
    /\ UNCHANGED <<memory, disk, seen, changes, restarts, doubled>>

\* A warning in the log, and the process goes on.
SaveFails(p) ==
    /\ saving[p].at \in {"stat", "writing"}
    /\ Returns(p)
    /\ UNCHANGED <<memory, disk, lastWritten, seen, changes, restarts, doubled>>

Dies(p) ==
    /\ ~IsAt(p, "down") /\ restarts < MaxRestarts /\ restarts' = restarts + 1
    /\ memory' = [memory EXCEPT ![p] = NoIdentities]
    /\ lastWritten' = [lastWritten EXCEPT ![p] = 0] /\ seen' = [seen EXCEPT ![p] = 0]
    /\ saving' = [saving EXCEPT ![p] = Down]
    /\ UNCHANGED <<disk, changes, doubled>>

IdentityNext ==
    \E p \in Processes :
       \/ Boot(p) \/ Load(p) \/ Dies(p)
       \/ \E n \in Phones : CreateUserFromPhone(p, n)
       \/ \E u \in UserIds : UpdateUser(p, u)
       \/ \E u, v \in UserIds \ Seeded, persist \in {"now", "deferred"} :
             u < v /\ LinkContactPair(p, {u, v}, persist)
       \/ SaveDeferred(p) \/ StatSnapshot(p) \/ AdoptForeignWrites(p) \/ RenameSnapshot(p)
       \/ StampSnapshot(p) \/ SaveFails(p)

IdentitySpec == IdentityInit /\ [][IdentityNext]_identityVars

----------------------------------------------------------------------------
(* Properties. *)

IdentityTypeOK ==
    /\ memory \in [Processes -> SnapshotType]
    /\ disk \in [snapshot : SnapshotType, stamp : 0 .. MaxWrites]
    /\ changes \in 0 .. MaxChanges /\ restarts \in 0 .. MaxRestarts /\ doubled \subseteq Phones
    /\ lastWritten \in [Processes -> 0 .. MaxWrites] /\ seen \in [Processes -> 0 .. MaxWrites]
    /\ saving \in [Processes -> [at : {"down", "loading", "serving", "stat", "adopting", "writing",
                                       "renamed"},
                                 edit : UserIds \cup {0}, deferred : BOOLEAN]]

\* Whoever is in the old snapshot is in s with their contacts, and a number that had an owner
\* has one, maybe another.
Holds(s, old) == /\ Known(old) \subseteq Known(s) /\ old.contacts \subseteq s.contacts
                 /\ \A n \in Phones : old.phones[n] # 0 => s.phones[n] # 0

\* A number has the owner it had.
KeepsOwner(s, old, n) == old.phones[n] \in {0, s.phones[n]}

\* Numbers and contacts are of users there are, and contacts go both ways.
WellFormed(s) == /\ \A n \in Phones : s.phones[n] # 0 => s.phones[n] \in Known(s)
                 /\ \A pair \in s.contacts : /\ pair[1] \in Known(s) /\ pair[2] \in Known(s)
                                             /\ <<pair[2], pair[1]>> \in s.contacts

\* "The write that follows is a union instead of a replacement": a process that has seen the
\* snapshot it overwrites takes no profile and no contact off the disk, whoever wrote it and
\* however the two restart.  A number stays with its owner, unless a process registered it
\* while another, or the disk, had a profile for it that it had not read: then there are two
\* profiles, and each writer puts its own owner of the number in the place of the other's.
\* The edit that is being saved is not reverted by its own save; and what is written points
\* at nobody who is not there.
SavesAreUnions ==
    [][\A p \in Processes : IsAt(p, "writing") /\ disk' # disk /\ saving'[p].at = "renamed" =>
         /\ seen[p] = disk.stamp => /\ Holds(disk'.snapshot, disk.snapshot)
                                   /\ \A n \in Phones \ doubled :
                                        KeepsOwner(disk'.snapshot, disk.snapshot, n)
         /\ saving[p].edit # 0 => disk'.snapshot.users[saving[p].edit] \in {"created", p}
         /\ WellFormed(disk'.snapshot)]_identityVars
=============================================================================
