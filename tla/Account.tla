------------------------------- MODULE Account -------------------------------
(***************************************************************************)
(* Accounts on disk and the processes that use them (account/, main.rs):   *)
(* the list in users.json, the encrypted files and the pid file of each    *)
(* account, registration, login, the session that saves settings and       *)
(* rooms, the change of the password and the deletion of an account.       *)
(*                                                                         *)
(* Every write of a file is a step of its own, at which the process may    *)
(* fail or die; a process that dies is replaced by a new one.  A salt is   *)
(* the number of the registration that drew it.  friends.enc is saved and  *)
(* loaded as rooms.enc is, and left out.                                   *)
(***************************************************************************)
EXTENDS Integers, Sequences, FiniteSets

CONSTANTS
    Procs,              \* processes of the program on one machine
    Ids,                \* ids of accounts
    NoId,
    Passwords,
    Rooms,              \* rooms ever created
    NoKey,              \* no file, no session
    Stale,              \* a pid file that names a process that is gone
    Fallible,           \* processes that may be killed and whose writes may fail
    MaxRegistrations    \* bound: registrations in all

ASSUME AccountAssumption ==
    /\ NoId \notin Ids
    /\ Fallible \subseteq Procs
    /\ NoKey \notin Procs /\ Stale \notin Procs /\ NoKey # Stale
    /\ NoKey \notin Passwords \X Nat
    /\ MaxRegistrations \in Nat

VARIABLES
    (* disk *)
    users,          \* users.json: the salt of each listed account, 0 when unlisted
    dir,            \* whether users/<id> exists
    file,           \* the .enc files of each account
    tmp,            \* the .enc.tmp files of each account
    pid,            \* filetalk.pid of each account
    (* processes *)
    at,             \* how far each process is
    account,        \* the account it works on
    key,            \* enc_key of its session
    rooms,          \* its room_store
    op,             \* the operation under way
    todo,           \* the steps that are left of it
    list,           \* users.json as the operation read it
    (* history *)
    registrations,  \* number of registrations begun
    password,       \* the password last set for each account
    dropped,        \* rooms removed by a user
    spoilt          \* what went wrong with each account since it was registered

disk == <<users, dir, file, tmp, pid>>
work == <<op, todo, list>>
session == <<at, account, key, rooms>>
history == <<registrations, password, dropped, spoilt>>
vars == <<disk, session, work, history>>
-----------------------------------------------------------------------------
(* Values *)

Files  == {"identity", "config", "rooms"}
Keys   == Passwords \X Nat          \* derive_key of a password and a salt
File   == [key : Keys \cup {NoKey}, rooms : SUBSET Rooms]
NoFile == [key |-> NoKey, rooms |-> {}]
Stages == {"Out", "Recover", "CheckPid", "WritePid", "Load", "In", "Leaving"}
Ops    == {"none", "register", "delete", "change", "config", "nickname", "rooms"}
Causes == {"raced",         \* two processes worked on the account at once
           "cut",           \* a change or a deletion stopped halfway
           "old key",       \* config.enc was saved under a superseded key
           "unreadable"}    \* a session could not decrypt rooms.enc

\* One write: of a temporary file, of its renaming, of the directory or the list.
Write(do, f, k, rs) == [do |-> do, file |-> f, key |-> k, rooms |-> rs]
Writes == [do : {"tmp", "rename", "rmdir", "read", "store"}, file : Files,
           key : Keys \cup {NoKey}, rooms : SUBSET Rooms]

\* save_enc: a temporary file that is then renamed.
Save(f, k, rs) == <<Write("tmp", f, k, rs), Write("rename", f, k, rs)>>
Unread == [i \in Ids |-> 0]
OnDisk(do) == Write(do, "config", NoKey, {})

Init ==
    /\ users = [i \in Ids |-> 0]
    /\ dir = [i \in Ids |-> FALSE]
    /\ file = [i \in Ids |-> [f \in Files |-> NoFile]]
    /\ tmp = [i \in Ids |-> [f \in Files |-> NoFile]]
    /\ pid = [i \in Ids |-> NoKey]
    /\ at = [p \in Procs |-> "Out"]
    /\ account = [p \in Procs |-> NoId]
    /\ key = [p \in Procs |-> NoKey]
    /\ rooms = [p \in Procs |-> {}]
    /\ op = [p \in Procs |-> "none"]
    /\ todo = [p \in Procs |-> <<>>]
    /\ list = [p \in Procs |-> Unread]
    /\ registrations = 0
    /\ password = [i \in Ids |-> NoKey]
    /\ dropped = {}
    /\ spoilt = [i \in Ids |-> {}]
-----------------------------------------------------------------------------
(* Operations *)

Idle(p, stage) == at[p] = stage /\ todo[p] = <<>>
Others(p, i) == {q \in Procs \ {p} : account[q] = i}
Spoil(i, cause, when) ==
    spoilt' = IF when THEN [spoilt EXCEPT ![i] = @ \cup {cause}] ELSE spoilt

\* login: both files decrypt under the password.
Opens(i, w) ==
    /\ users[i] # 0
    /\ \A f \in {"identity", "config"} : file[i][f].key = <<w, users[i]>>

Begin(p, i, what, steps) ==
    /\ account' = [account EXCEPT ![p] = i]
    /\ op' = [op EXCEPT ![p] = what]
    /\ todo' = [todo EXCEPT ![p] = steps]

\* register, after the directory of the account is made; a duplicate stops there.
Register(p, i, w) ==
    LET k == <<w, registrations + 1>> IN
    /\ Idle(p, "Out")
    /\ dir' = [dir EXCEPT ![i] = TRUE]
    /\ \/ /\ users[i] # 0
          /\ UNCHANGED <<account, work, registrations, spoilt>>
       \/ /\ users[i] = 0 /\ registrations < MaxRegistrations
          /\ registrations' = registrations + 1
          /\ list' = [list EXCEPT ![p] = users]
          /\ Begin(p, i, "register", Save("identity", k, {}) \o Save("config", k, {})
                                        \o <<Write("store", "config", k, {})>>)
          /\ spoilt' = [spoilt EXCEPT ![i] = IF Others(p, i) = {} THEN {} ELSE {"raced"}]
    /\ UNCHANGED <<users, file, tmp, pid, at, key, rooms, password, dropped>>

\* delete_account.  Nothing tells whether the account is in use.
Delete(p, i, w) ==
    /\ Idle(p, "Out")
    /\ Opens(i, w)
    /\ Begin(p, i, "delete", <<OnDisk("rmdir"), OnDisk("read"), OnDisk("store")>>)
    /\ UNCHANGED <<disk, at, key, rooms, list, history>>

\* change_password: the files that open the account, and no other, under a new key.
IdentityOnly(k) == Save("identity", k, {})          \* mutant: config.enc forgotten
ChangedFiles(k) == Save("identity", k, {}) \o Save("config", k, {})

ChangePassword(p, old, new) ==
    LET i == account[p] IN
    /\ Idle(p, "In")
    /\ Opens(i, old)
    /\ Begin(p, i, "change", ChangedFiles(<<new, users[i]>>))
    /\ UNCHANGED <<disk, at, key, rooms, list, history>>

SaveConfig(p) ==
    LET i == account[p] IN
    /\ Idle(p, "In")
    /\ \/ Begin(p, i, "config", Save("config", key[p], {}))
       \/ Begin(p, i, "nickname",
                Save("config", key[p], {}) \o <<OnDisk("read"), OnDisk("store")>>)
    /\ Spoil(i, "old key", file[i]["config"].key # key[p])
    /\ UNCHANGED <<disk, at, key, rooms, list, registrations, password, dropped>>

\* create_room, or the rest of the handlers that change the rooms and save them.
SaveRooms(p, rs) ==
    /\ rooms' = [rooms EXCEPT ![p] = rs]
    /\ Begin(p, account[p], "rooms", Save("rooms", key[p], rs))

CreateRoom(p, r) ==
    /\ Idle(p, "In")
    /\ r \notin dropped
    /\ \A q \in Procs : r \notin rooms[q]
    /\ \A i \in Ids : r \notin file[i]["rooms"].rooms
    /\ SaveRooms(p, rooms[p] \cup {r})
    /\ UNCHANGED <<disk, at, key, list, history>>

DeleteRoom(p, r) ==
    /\ Idle(p, "In")
    /\ r \in rooms[p]
    /\ dropped' = dropped \cup {r}
    /\ SaveRooms(p, rooms[p] \ {r})
    /\ UNCHANGED <<disk, at, key, list, registrations, password, spoilt>>
-----------------------------------------------------------------------------
(* Their writes *)

\* An operation of the login screens leaves the process without an account.
AccountStays(p) == account[p]                       \* mutant
AccountAfter(p) == IF at[p] = "Out" THEN NoId ELSE account[p]

Advance(p) ==
    LET over == Len(todo[p]) = 1 IN
    /\ todo' = [todo EXCEPT ![p] = Tail(@)]
    /\ op' = [op EXCEPT ![p] = IF over THEN "none" ELSE @]
    /\ account' = [account EXCEPT ![p] = IF over THEN AccountAfter(p) ELSE @]
    /\ list' = [list EXCEPT ![p] = IF over THEN Unread
                                   ELSE IF Head(todo[p]).do = "read" THEN users ELSE @]
    /\ UNCHANGED <<at, key, rooms>>

Following(p, do) == todo[p] # <<>> /\ Head(todo[p]).do = do

WriteTmp(p) ==
    LET i == account[p]  w == Head(todo[p]) IN
    /\ Following(p, "tmp")
    /\ dir[i]
    /\ tmp' = [tmp EXCEPT ![i][w.file] = [key |-> w.key, rooms |-> w.rooms]]
    /\ Advance(p)
    /\ UNCHANGED <<users, dir, file, pid, history>>

Rename(p) ==
    LET i == account[p]  f == Head(todo[p]).file IN
    /\ Following(p, "rename")
    /\ tmp[i][f] # NoFile
    /\ file' = [file EXCEPT ![i][f] = tmp[i][f]]
    /\ tmp' = [tmp EXCEPT ![i][f] = NoFile]
    /\ password' = IF op[p] = "change" /\ Len(todo[p]) = 1
                   THEN [password EXCEPT ![i] = Head(todo[p]).key[1]] ELSE password
    /\ Advance(p)
    /\ UNCHANGED <<users, dir, pid, registrations, dropped, spoilt>>

RemoveDir(p) ==
    LET i == account[p] IN
    /\ Following(p, "rmdir")
    /\ dir' = [dir EXCEPT ![i] = FALSE]
    /\ file' = [file EXCEPT ![i] = [f \in Files |-> NoFile]]
    /\ tmp' = [tmp EXCEPT ![i] = [f \in Files |-> NoFile]]
    /\ pid' = [pid EXCEPT ![i] = NoKey]
    /\ Spoil(i, "raced", Others(p, i) # {})
    /\ Advance(p)
    /\ UNCHANGED <<users, registrations, password, dropped>>

ReadList(p) ==
    /\ Following(p, "read")
    /\ Advance(p)
    /\ UNCHANGED <<disk, history>>

\* UserStore::save: the whole list is written, as it was read but for one account.
\* An account that is no longer in it is an error, and nothing is written.
Stored(p) ==
    LET i == account[p]  read == list[p] IN
    CASE op[p] = "register" -> [read EXCEPT ![i] = Head(todo[p]).key[2]]
      [] read[i] = 0        -> users
      [] op[p] = "nickname" -> read
      [] op[p] = "delete"   -> [read EXCEPT ![i] = 0]

StoreList(p) ==
    LET i == account[p] IN
    /\ Following(p, "store")
    /\ users' = Stored(p)
    /\ password' = IF op[p] = "register"
                   THEN [password EXCEPT ![i] = Head(todo[p]).key[1]] ELSE password
    /\ spoilt' = [j \in Ids |-> IF users[j] # list[p][j]
                                THEN spoilt[j] \cup {"raced"} ELSE spoilt[j]]
    /\ Advance(p)
    /\ UNCHANGED <<dir, file, tmp, pid, registrations, dropped>>

\* One of the two files of a change is replaced, or the directory is gone and the
\* account is still listed.
Half(p) ==
    \/ /\ op[p] = "change"
       /\ \A n \in 1..Len(todo[p]) : todo[p][n].file # "identity"
    \/ /\ op[p] = "delete"
       /\ \A n \in 1..Len(todo[p]) : todo[p][n].do # "rmdir"

Blocked(p) ==
    \/ Following(p, "tmp") /\ ~dir[account[p]]
    \/ Following(p, "rename") /\ tmp[account[p]][Head(todo[p]).file] = NoFile

\* A write fails, and the operation ends with an error.
Fail(p) ==
    /\ todo[p] # <<>>
    /\ p \in Fallible \/ Blocked(p)
    /\ todo' = [todo EXCEPT ![p] = <<>>]
    /\ op' = [op EXCEPT ![p] = "none"]
    /\ account' = [account EXCEPT ![p] = AccountAfter(p)]
    /\ list' = [list EXCEPT ![p] = Unread]
    /\ Spoil(account[p], "cut", Half(p))
    /\ UNCHANGED <<disk, at, key, rooms, registrations, password, dropped>>
-----------------------------------------------------------------------------
(* Sessions *)

Login(p, i, w) ==
    /\ Idle(p, "Out")
    /\ Opens(i, w)
    /\ at' = [at EXCEPT ![p] = "Recover"]
    /\ account' = [account EXCEPT ![p] = i]
    /\ key' = [key EXCEPT ![p] = <<w, users[i]>>]
    /\ UNCHANGED <<disk, rooms, work, history>>

\* recover_stale_tmp, before the pid file is looked at.
Recover(p) ==
    LET i == account[p] IN
    /\ at[p] = "Recover"
    /\ tmp' = [tmp EXCEPT ![i]["identity"] = NoFile, ![i]["config"] = NoFile]
    /\ at' = [at EXCEPT ![p] = "CheckPid"]
    /\ UNCHANGED <<users, dir, file, pid, account, key, rooms, work, history>>

Gone(p) ==
    /\ at' = [at EXCEPT ![p] = "Out"]
    /\ account' = [account EXCEPT ![p] = NoId]
    /\ key' = [key EXCEPT ![p] = NoKey]
    /\ rooms' = [rooms EXCEPT ![p] = {}]
    /\ op' = [op EXCEPT ![p] = "none"]
    /\ todo' = [todo EXCEPT ![p] = <<>>]
    /\ list' = [list EXCEPT ![p] = Unread]

\* is_process_alive, as it is on Unix.
AliveUnknown(i) == FALSE                            \* mutant: as it is elsewhere
Alive(i) == pid[i] \in Procs

\* PidLock::acquire finds the pid file of a living process: the program ends.
AlreadyRunning(p) ==
    /\ at[p] = "CheckPid"
    /\ Alive(account[p])
    /\ Gone(p)
    /\ UNCHANGED <<disk, history>>

\* It finds none, or that of a dead process, which it removes.  Two starts are told
\* apart only by what this step sees.
CheckPid(p) ==
    LET i == account[p] IN
    /\ at[p] = "CheckPid"
    /\ ~Alive(i)
    /\ pid' = [pid EXCEPT ![i] = NoKey]
    /\ at' = [at EXCEPT ![p] = "WritePid"]
    /\ Spoil(i, "raced", \E q \in Others(p, i) : at[q] \in {"WritePid", "Leaving"})
    /\ UNCHANGED <<users, dir, file, tmp, account, key, rooms, work, registrations,
                   password, dropped>>

WritePid(p) ==
    LET i == account[p] IN
    /\ at[p] = "WritePid"
    /\ dir' = [dir EXCEPT ![i] = TRUE]
    /\ pid' = [pid EXCEPT ![i] = p]
    /\ at' = [at EXCEPT ![p] = "Load"]
    /\ UNCHANGED <<users, file, tmp, account, key, rooms, work, history>>

\* RoomStore::load; a file that does not decrypt counts as no rooms.
RoomsForgotten(p) == {}                             \* mutant: always a new store
RoomsRead(p) ==
    LET f == file[account[p]]["rooms"] IN IF f.key = key[p] THEN f.rooms ELSE {}

Load(p) ==
    LET i == account[p] IN
    /\ at[p] = "Load"
    /\ rooms' = [rooms EXCEPT ![p] = RoomsRead(p)]
    /\ at' = [at EXCEPT ![p] = "In"]
    /\ Spoil(i, "unreadable", file[i]["rooms"].key \notin {NoKey, key[p]})
    /\ UNCHANGED <<disk, account, key, work, registrations, password, dropped>>

\* build_swarm fails: the lock is dropped.
StartFails(p) ==
    /\ at[p] = "Load"
    /\ pid' = [pid EXCEPT ![account[p]] = NoKey]
    /\ Gone(p)
    /\ UNCHANGED <<users, dir, file, tmp, history>>

\* The lock is dropped, whoever's pid is in it, and AppCore saves while the process
\* ends.
Quit(p) ==
    LET i == account[p] IN
    /\ Idle(p, "In")
    /\ pid' = [pid EXCEPT ![i] = NoKey]
    /\ at' = [at EXCEPT ![p] = "Leaving"]
    /\ Begin(p, i, "rooms", Save("rooms", key[p], rooms[p]))
    /\ UNCHANGED <<users, dir, file, tmp, key, rooms, list, history>>

\* The process ends, or is killed; another may start in its place.
Die(p) ==
    /\ at[p] # "Out" \/ todo[p] # <<>>
    /\ p \in Fallible \/ at[p] = "Leaving"
    /\ pid' = [i \in Ids |-> IF pid[i] = p THEN Stale ELSE pid[i]]
    /\ Spoil(account[p], "cut", Half(p))
    /\ Gone(p)
    /\ UNCHANGED <<users, dir, file, tmp, registrations, password, dropped>>
-----------------------------------------------------------------------------
BeforeLogin(p) ==
    \E i \in Ids, w \in Passwords : Register(p, i, w) \/ Delete(p, i, w) \/ Login(p, i, w)

Starting(p) ==
    \/ Recover(p) \/ AlreadyRunning(p) \/ CheckPid(p) \/ WritePid(p)
    \/ Load(p) \/ StartFails(p)

Command(p) ==
    \/ \E old, new \in Passwords : ChangePassword(p, old, new)
    \/ \E r \in Rooms : CreateRoom(p, r) \/ DeleteRoom(p, r)
    \/ SaveConfig(p) \/ Quit(p)

Writing(p) ==
    WriteTmp(p) \/ Rename(p) \/ RemoveDir(p) \/ ReadList(p) \/ StoreList(p) \/ Fail(p)

Next == \E p \in Procs :
    BeforeLogin(p) \/ Starting(p) \/ Command(p) \/ Writing(p) \/ Die(p)

Spec == Init /\ [][Next]_vars
-----------------------------------------------------------------------------
(* Properties *)

\* A process has a key, rooms and an account only from its login to its end, an
\* operation exactly while it has steps left, and every file is under a key.
TypeOK ==
    /\ users \in [Ids -> 0..MaxRegistrations]
    /\ dir \in [Ids -> BOOLEAN]
    /\ file \in [Ids -> [Files -> File]]
    /\ tmp \in [Ids -> [Files -> File]]
    /\ pid \in [Ids -> Procs \cup {NoKey, Stale}]
    /\ at \in [Procs -> Stages]
    /\ account \in [Procs -> Ids \cup {NoId}]
    /\ key \in [Procs -> Keys \cup {NoKey}]
    /\ rooms \in [Procs -> SUBSET Rooms]
    /\ op \in [Procs -> Ops]
    /\ todo \in [Procs -> Seq(Writes)]
    /\ list \in [Procs -> [Ids -> 0..MaxRegistrations]]
    /\ registrations \in 0..MaxRegistrations
    /\ password \in [Ids -> Passwords \cup {NoKey}]
    /\ dropped \subseteq Rooms
    /\ spoilt \in [Ids -> SUBSET Causes]
    /\ \A p \in Procs :
        /\ op[p] = "none" <=> todo[p] = <<>>
        /\ account[p] = NoId <=> Idle(p, "Out")
        /\ key[p] = NoKey <=> at[p] = "Out"
        /\ at[p] \notin {"Out", "In", "Leaving"} => todo[p] = <<>>

\* A process past the check of the pid file owns it, so that nobody else can get
\* past the check: only starts that overlap (also with an exit), or the deletion of
\* the account, may break this.
SessionsHoldThePid ==
    \A p \in Procs : at[p] \in {"Load", "In"} =>
        pid[account[p]] = p \/ "raced" \in spoilt[account[p]]

\* An account that nothing writes to opens with the password last set for it, after
\* any registrations, changes, saves, crashes and failed writes, unless two processes
\* raced for it, a change or deletion was cut, or a session saved config.enc after
\* its password was changed.
AtRest(i) == \A p \in Procs : account[p] = i => todo[p] = <<>>

OpensWithItsPassword ==
    \A i \in Ids :
        users[i] # 0 /\ AtRest(i) /\ spoilt[i] \subseteq {"unreadable"} => Opens(i, password[i])

\* Whatever a session loads and saves, a room leaves rooms.enc only when its user
\* removed it, the account goes, two processes raced for the account, or a session
\* could not decrypt the file.
RoomsKept ==
    [][\A i \in Ids : \A r \in file[i]["rooms"].rooms :
          \/ r \in file'[i]["rooms"].rooms
          \/ r \in dropped
          \/ ~dir'[i]
          \/ spoilt[i] \cap {"raced", "unreadable"} # {}]_vars

\* What the documents say of a change of password: an account that nothing writes to
\* opens with some password.
PasswordOpens ==
    \A i \in Ids : users[i] # 0 /\ AtRest(i) => \E w \in Passwords : Opens(i, w)
=============================================================================
