----------------------------- MODULE AccountKeys -----------------------------
(***************************************************************************)
(* An account opens with its password, for every set of processes,         *)
(* accounts and passwords and any number of registrations.                 *)
(***************************************************************************)
EXTENDS AccountProofs

-----------------------------------------------------------------------------
(* The steps left of an operation *)

\* The operations on the two files that open an account, or on the list.
KeyOps == {"register", "change", "config", "nickname", "delete"}

\* The n-th step from the end of an operation with key k.
StepFromEnd(w, what, n, k) ==
    \/ /\ what = "register" /\ w.key = k
       /\ \/ n = 5 /\ w.do = "tmp" /\ w.file = "identity"
          \/ n = 4 /\ w.do = "rename" /\ w.file = "identity"
          \/ n = 3 /\ w.do = "tmp" /\ w.file = "config"
          \/ n = 2 /\ w.do = "rename" /\ w.file = "config"
          \/ n = 1 /\ w.do = "store"
    \/ /\ what = "change" /\ w.key = k
       /\ \/ n = 4 /\ w.do = "tmp" /\ w.file = "identity"
          \/ n = 3 /\ w.do = "rename" /\ w.file = "identity"
          \/ n = 2 /\ w.do = "tmp" /\ w.file = "config"
          \/ n = 1 /\ w.do = "rename" /\ w.file = "config"
    \/ /\ what = "config" /\ w.key = k /\ w.file = "config"
       /\ \/ n = 2 /\ w.do = "tmp"
          \/ n = 1 /\ w.do = "rename"
    \/ /\ what = "nickname"
       /\ \/ n = 4 /\ w.do = "tmp" /\ w.file = "config" /\ w.key = k
          \/ n = 3 /\ w.do = "rename" /\ w.file = "config" /\ w.key = k
          \/ n = 2 /\ w.do = "read"
          \/ n = 1 /\ w.do = "store"
    \/ /\ what = "delete"
       /\ \/ n = 3 /\ w.do = "rmdir"
          \/ n = 2 /\ w.do = "read"
          \/ n = 1 /\ w.do = "store"

\* The steps s are the last ones of an operation with key k.
Planned(s, what, k) ==
    \A n \in 1..Len(s) : StepFromEnd(s[n], what, Len(s) - n + 1, k)

LEMMA FirstPlanned ==
    ASSUME NEW s \in Seq(Writes), s # <<>>, NEW what, NEW k, Planned(s, what, k)
    PROVE  StepFromEnd(Head(s), what, Len(s), k)
<1>1. Len(s) \in Nat \ {0}
  BY EmptySeq
<1>2. 1 \in 1..Len(s) /\ Len(s) - 1 + 1 = Len(s)
  BY <1>1
<1> QED BY <1>2, Head(s) = s[1] DEF Planned

LEMMA TailPlanned ==
    ASSUME NEW s \in Seq(Writes), s # <<>>, NEW what, NEW k, Planned(s, what, k)
    PROVE  Planned(Tail(s), what, k) /\ Len(Tail(s)) = Len(s) - 1
<1>1. Len(s) \in Nat \ {0}
  BY EmptySeq
<1>2. Len(Tail(s)) = Len(s) - 1 /\ \A n \in 1..Len(Tail(s)) : Tail(s)[n] = s[n + 1]
  BY HeadTailProperties
<1>3. ASSUME NEW n \in 1..Len(Tail(s))
      PROVE  StepFromEnd(Tail(s)[n], what, Len(Tail(s)) - n + 1, k)
  <2>1. n + 1 \in 1..Len(s) /\ Len(s) - (n + 1) + 1 = Len(Tail(s)) - n + 1
    BY <1>1, <1>2
  <2> QED BY <1>2, <2>1 DEF Planned
<1> QED BY <1>2, <1>3 DEF Planned

\* A change is half done from the renaming of identity.enc on, a deletion from the
\* removal of the directory on: when two steps are left.
LEMMA HalfPlanned ==
    ASSUME NEW s \in Seq(Writes), NEW what \in {"change", "delete"}, NEW k,
           Planned(s, what, k)
    PROVE  /\ what = "change" =>
                ((\A n \in 1..Len(s) : s[n].file # "identity") <=> Len(s) <= 2)
           /\ what = "delete" =>
                ((\A n \in 1..Len(s) : s[n].do # "rmdir") <=> Len(s) <= 2)
<1>1. Len(s) \in Nat
  BY LenProperties
<1>2. CASE Len(s) <= 2
  <2>1. \A n \in 1..Len(s) : Len(s) - n + 1 \in {1, 2}
    BY <1>1, <1>2
  <2> QED BY <1>2, <2>1 DEF Planned, StepFromEnd
<1>3. CASE Len(s) > 2
  <2>1. Len(s) - 2 \in 1..Len(s) /\ Len(s) - (Len(s) - 2) + 1 = 3
    BY <1>1, <1>3
  <2>2. StepFromEnd(s[Len(s) - 2], what, 3, k)
    BY <2>1 DEF Planned
  <2>3. /\ what = "change" => s[Len(s) - 2].file = "identity"
        /\ what = "delete" => s[Len(s) - 2].do = "rmdir"
    BY <2>2 DEF StepFromEnd
  <2> QED BY <1>1, <1>3, <2>1, <2>3
<1> QED BY <1>1, <1>2, <1>3

LEMMA SavePlanned ==
    ASSUME NEW k \in Keys, NEW f \in Files
    PROVE  LET s == Save(f, k, {}) IN
           /\ s \in Seq(Writes) /\ Len(s) = 2
           /\ s[1].do = "tmp" /\ s[1].file = f /\ s[1].key = k
           /\ s[2].do = "rename" /\ s[2].file = f /\ s[2].key = k
BY DEF Save, Write, Writes

LEMMA Concat ==
    ASSUME NEW s \in Seq(Writes), NEW t \in Seq(Writes)
    PROVE  /\ s \o t \in Seq(Writes) /\ Len(s \o t) = Len(s) + Len(t)
           /\ \A n \in 1..Len(s) : (s \o t)[n] = s[n]
           /\ \A n \in 1..Len(t) : (s \o t)[Len(s) + n] = t[n]
<1>1. Len(s) \in Nat /\ Len(t) \in Nat
  BY LenProperties
<1>2. /\ s \o t \in Seq(Writes) /\ Len(s \o t) = Len(s) + Len(t)
      /\ \A n \in 1..Len(s) + Len(t) :
            (s \o t)[n] = IF n <= Len(s) THEN s[n] ELSE t[n - Len(s)]
  BY ConcatProperties
<1>3. ASSUME NEW n \in 1..Len(t) PROVE (s \o t)[Len(s) + n] = t[n]
  <2>1. Len(s) + n \in 1..Len(s) + Len(t) /\ ~(Len(s) + n <= Len(s))
        /\ Len(s) + n - Len(s) = n
    BY <1>1
  <2> QED BY <1>2, <2>1
<1> QED BY <1>1, <1>2, <1>3

LEMMA PlannedAtFirst ==
    ASSUME NEW k \in Keys
    PROVE  LET both == Save("identity", k, {}) \o Save("config", k, {}) IN
           /\ Planned(both \o <<Write("store", "config", k, {})>>, "register", k)
           /\ Planned(ChangedFiles(k), "change", k)
           /\ Planned(Save("config", k, {}), "config", k)
           /\ Planned(Save("config", k, {}) \o <<OnDisk("read"), OnDisk("store")>>,
                      "nickname", k)
           /\ Planned(<<OnDisk("rmdir"), OnDisk("read"), OnDisk("store")>>, "delete", k)
           /\ Len(both \o <<Write("store", "config", k, {})>>) = 5
           /\ Len(ChangedFiles(k)) = 4
           /\ Len(Save("config", k, {}) \o <<OnDisk("read"), OnDisk("store")>>) = 4
           /\ Len(Save("config", k, {})) = 2
<1> DEFINE a == Save("identity", k, {})
           b == Save("config", k, {})
           c == <<OnDisk("read"), OnDisk("store")>>
           d == <<Write("store", "config", k, {})>>
<1>1. /\ a \in Seq(Writes) /\ Len(a) = 2 /\ b \in Seq(Writes) /\ Len(b) = 2
      /\ a[1].do = "tmp" /\ a[1].file = "identity" /\ a[1].key = k
      /\ a[2].do = "rename" /\ a[2].file = "identity" /\ a[2].key = k
      /\ b[1].do = "tmp" /\ b[1].file = "config" /\ b[1].key = k
      /\ b[2].do = "rename" /\ b[2].file = "config" /\ b[2].key = k
  BY SavePlanned DEF Files
<1>2. /\ c \in Seq(Writes) /\ Len(c) = 2 /\ c[1].do = "read" /\ c[2].do = "store"
      /\ d \in Seq(Writes) /\ Len(d) = 1 /\ d[1].do = "store" /\ d[1].key = k
  BY DEF OnDisk, Write, Writes, Files
<1> HIDE DEF a, b, c, d
<1>3. /\ a \o b \in Seq(Writes) /\ Len(a \o b) = 4
      /\ (a \o b)[1] = a[1] /\ (a \o b)[2] = a[2]
      /\ (a \o b)[3] = b[1] /\ (a \o b)[4] = b[2]
  <2>1. a \o b \in Seq(Writes)
    BY <1>1, Concat
  <2>2. /\ Len(a \o b) = 2 + 2
        /\ \A n \in 1..2 : (a \o b)[n] = a[n]
        /\ \A n \in 1..2 : (a \o b)[2 + n] = b[n]
    <3>1. /\ Len(a \o b) = Len(a) + Len(b)
          /\ \A n \in 1..Len(a) : (a \o b)[n] = a[n]
          /\ \A n \in 1..Len(b) : (a \o b)[Len(a) + n] = b[n]
      BY <1>1, Concat, Zenon
    <3>2. Len(a) = 2 /\ Len(b) = 2
      BY <1>1
    <3> QED BY <3>1, <3>2, Zenon
  <2> QED BY <2>1, <2>2, 1 \in 1..2, 2 \in 1..2, 2 + 1 = 3, 2 + 2 = 4
<1>4. /\ Len(b \o c) = 4
      /\ (b \o c)[1] = b[1] /\ (b \o c)[2] = b[2]
      /\ (b \o c)[3] = c[1] /\ (b \o c)[4] = c[2]
  <2>1. /\ Len(b \o c) = 2 + 2
        /\ \A n \in 1..2 : (b \o c)[n] = b[n]
        /\ \A n \in 1..2 : (b \o c)[2 + n] = c[n]
    <3>1. /\ Len(b \o c) = Len(b) + Len(c)
          /\ \A n \in 1..Len(b) : (b \o c)[n] = b[n]
          /\ \A n \in 1..Len(c) : (b \o c)[Len(b) + n] = c[n]
      BY <1>1, <1>2, Concat, Zenon
    <3>2. Len(b) = 2 /\ Len(c) = 2
      BY <1>1, <1>2
    <3> QED BY <3>1, <3>2, Zenon
  <2> QED BY <2>1, 1 \in 1..2, 2 \in 1..2, 2 + 1 = 3, 2 + 2 = 4
<1>5. /\ Len((a \o b) \o d) = 5
      /\ \A n \in 1..4 : ((a \o b) \o d)[n] = (a \o b)[n]
      /\ ((a \o b) \o d)[5] = d[1]
  <2>1. /\ Len((a \o b) \o d) = 4 + 1
        /\ \A n \in 1..4 : ((a \o b) \o d)[n] = (a \o b)[n]
        /\ \A n \in 1..1 : ((a \o b) \o d)[4 + n] = d[n]
    <3>1. a \o b \in Seq(Writes) /\ d \in Seq(Writes) /\ Len(a \o b) = 4 /\ Len(d) = 1
      BY <1>2, <1>3
    <3>2. /\ Len((a \o b) \o d) = Len(a \o b) + Len(d)
          /\ \A n \in 1..Len(a \o b) : ((a \o b) \o d)[n] = (a \o b)[n]
          /\ \A n \in 1..Len(d) : ((a \o b) \o d)[Len(a \o b) + n] = d[n]
      BY <3>1, Concat, Zenon
    <3> QED BY <3>1, <3>2, Zenon
  <2> QED BY <2>1, 1 \in 1..1, 4 + 1 = 5
<1>6. Planned(b, "config", k)
  BY <1>1 DEF Planned, StepFromEnd
<1>7. Planned(a \o b, "change", k)
  BY <1>1, <1>3 DEF Planned, StepFromEnd
<1>8. Planned(b \o c, "nickname", k)
  BY <1>1, <1>2, <1>4 DEF Planned, StepFromEnd
<1>9. Planned((a \o b) \o d, "register", k)
  BY <1>1, <1>2, <1>3, <1>5 DEF Planned, StepFromEnd
<1>10. Planned(<<OnDisk("rmdir"), OnDisk("read"), OnDisk("store")>>, "delete", k)
  BY DEF Planned, StepFromEnd, OnDisk, Write
<1> QED BY <1>1, <1>3, <1>4, <1>5, <1>6, <1>7, <1>8, <1>9, <1>10
    DEF ChangedFiles, a, b, c, d
-----------------------------------------------------------------------------
(* What a step leaves alone of an account at work *)

\* What has gone wrong with an account is kept, or it is raced for, or it is unlisted
\* and registered with nobody at work on it.
LEMMA CausesGrow ==
    ASSUME IInv, NEW p \in Procs, Step(p), NEW i \in Ids
    PROVE  \/ spoilt[i] \subseteq spoilt'[i]
           \/ "raced" \in spoilt'[i]
           \/ users'[i] = 0 /\ \A q \in Procs : account[q] # i
<1>0. ProcTypes /\ HistoryTypes /\ Links
  BY IInvParts
<1>1. CASE \A j \in Ids : spoilt[j] \subseteq spoilt'[j]
  BY <1>1
<1>2. ASSUME NEW j \in Ids, NEW w \in Passwords, Register(p, j, w), spoilt' # spoilt
      PROVE  \/ spoilt[i] \subseteq spoilt'[i]
             \/ "raced" \in spoilt'[i]
             \/ users'[i] = 0 /\ \A q \in Procs : account[q] # i
  <2>1. account[p] # i
    BY <1>0, <1>2, AccountAssumption DEF Register, Links, Linked
  <2>2. /\ spoilt' = [spoilt EXCEPT ![j] = IF Others(p, j) = {} THEN {} ELSE {"raced"}]
        /\ users[j] = 0 /\ users' = users
    BY <1>2 DEF Register
  <2> QED BY <1>0, <2>1, <2>2 DEF Others, HistoryTypes
<1>3. CASE Command(p)
  BY <1>0, <1>1, <1>3, SpoilGrows
  DEF Command, ChangePassword, CreateRoom, DeleteRoom, SaveConfig, Quit, history
<1>4. CASE Starting(p)
  BY <1>0, <1>1, <1>4, SpoilGrows
  DEF Starting, Recover, AlreadyRunning, CheckPid, WritePid, Load, StartFails, history
<1>5. CASE Writing(p)
  BY <1>0, <1>1, <1>5, SpoilGrows
  DEF Writing, WriteTmp, Rename, RemoveDir, ReadList, StoreList, Fail, history, HistoryTypes
<1>6. CASE Die(p)
  BY <1>1, <1>6, SpoilGrows DEF Die
<1>7. CASE BeforeLogin(p)
  BY <1>1, <1>2, <1>7 DEF BeforeLogin, Delete, Login, history
<1> QED BY <1>3, <1>4, <1>5, <1>6, <1>7 DEF Step

LEMMA CausesKept ==
    ASSUME IInv, NEW p \in Procs, Step(p), NEW q \in Procs, NEW i \in Ids, account[q] = i
    PROVE  "raced" \in spoilt'[i] \/ spoilt[i] \subseteq spoilt'[i]
BY CausesGrow

\* A process comes to work on an account by registering it or with its password.
LEMMA Joins ==
    ASSUME IInv, NEW p \in Procs, Step(p), NEW i \in Ids, account'[p] = i, account[p] # i
    PROVE  \/ \E w \in Passwords : Opens(i, w)
           \/ /\ users[i] = 0
              /\ spoilt' = [spoilt EXCEPT ![i] = IF Others(p, i) = {} THEN {} ELSE {"raced"}]
<1>0. ProcTypes
  BY IInvParts
<1>1. CASE BeforeLogin(p)
  BY <1>0, <1>1 DEF BeforeLogin, Register, Delete, Login, Begin, ProcTypes
<1>2. CASE Starting(p)
  BY <1>0, <1>2, AccountAssumption DEF Starting, Recover, AlreadyRunning, CheckPid, WritePid,
     Load, StartFails, Gone, ProcTypes
<1>3. CASE Command(p)
  BY <1>0, <1>3 DEF Command, ChangePassword, CreateRoom, DeleteRoom, SaveRooms, SaveConfig, Quit,
     Begin, ProcTypes
<1>4. CASE Writing(p)
  BY <1>0, <1>4, AccountAssumption DEF Writing, WriteTmp, Rename, RemoveDir, ReadList,
     StoreList, Fail, Advance, AccountAfter, ProcTypes
<1>5. CASE Die(p)
  BY <1>0, <1>5, AccountAssumption DEF Die, Gone, ProcTypes
<1> QED BY <1>1, <1>2, <1>3, <1>4, <1>5 DEF Step

\* The salt of an account in the list changes only by its registration or deletion,
\* or processes race.
LEMMA SaltKept ==
    ASSUME IInv, NEW p \in Procs, Step(p), NEW i \in Ids
    PROVE  \/ users'[i] = users[i]
           \/ "raced" \in spoilt'[i]
           \/ StoreList(p) /\ i = account[p] /\ op[p] \in {"register", "delete"}
<1>0. ProcTypes /\ DiskTypes /\ HistoryTypes
  BY IInvParts
<1>1. CASE StoreList(p)
  <2>1. op[p] \in {"register", "delete", "nickname"} /\ account[p] \in Ids
    BY <1>1, AtWork DEF StoreList, Following, Fits
  <2>2. users' = Stored(p) /\ (users[i] # list[p][i] => "raced" \in spoilt'[i])
    BY <1>1 DEF StoreList
  <2>3. list[p] \in [Ids -> 0..MaxRegistrations]
    BY <1>0 DEF ProcTypes
  <2>4. op[p] = "nickname" => Stored(p) \in {users, list[p]}
    BY DEF Stored
  <2>5. i # account[p] => Stored(p)[i] \in {users[i], list[p][i]}
    BY <2>1, <2>3 DEF Stored
  <2> QED BY <1>1, <2>1, <2>2, <2>4, <2>5
<1>2. CASE users' = users
  BY <1>2
<1> QED BY <1>1, <1>2
    DEF Step, BeforeLogin, Register, Delete, Login, Starting, Recover, AlreadyRunning, CheckPid,
        WritePid, Load, StartFails, Command, ChangePassword, CreateRoom, DeleteRoom, SaveConfig,
        Quit, Writing, WriteTmp, Rename, RemoveDir, ReadList, Fail, Die, disk

\* The password last set for an account changes only by its registration or a change.
LEMMA PasswordKept ==
    ASSUME IInv, NEW p \in Procs, Step(p), NEW i \in Ids
    PROVE  \/ password'[i] = password[i]
           \/ i = account[p] /\ op[p] = "register" /\ StoreList(p)
           \/ i = account[p] /\ op[p] = "change" /\ Rename(p) /\ Len(todo[p]) = 1
<1>0. ProcTypes /\ HistoryTypes
  BY IInvParts
<1>1. CASE StoreList(p) \/ Rename(p)
  <2>1. account[p] \in Ids
    BY <1>1, AtWork DEF StoreList, Rename, Following
  <2> QED BY <1>0, <1>1, <2>1 DEF StoreList, Rename, HistoryTypes
<1>2. CASE password' = password
  BY <1>2
<1> QED BY <1>1, <1>2
    DEF Step, BeforeLogin, Register, Delete, Login, Starting, Recover, AlreadyRunning, CheckPid,
        WritePid, Load, StartFails, Command, ChangePassword, CreateRoom, DeleteRoom, SaveConfig,
        Quit, Writing, WriteTmp, RemoveDir, ReadList, Fail, Die, history

KeyFiles == {"identity", "config"}

\* The files that open an account are touched only by a save of them, by the removal
\* of the directory, and their temporary files by a start.
LEMMA KeyFilesAlone ==
    ASSUME IInv, Saving, NEW p \in Procs, Step(p), NEW i \in Ids, NEW f \in KeyFiles
    PROVE  \/ file'[i][f] = file[i][f] /\ tmp'[i][f] = tmp[i][f]
           \/ file'[i][f] = file[i][f] /\ tmp'[i][f] = NoFile
           \/ /\ RemoveDir(p) /\ i = account[p]
              /\ file'[i][f] = NoFile /\ tmp'[i][f] = NoFile
           \/ /\ WriteTmp(p) /\ i = account[p] /\ op[p] # "rooms" /\ Head(todo[p]).file = f
              /\ file'[i][f] = file[i][f] /\ tmp'[i][f].key = Head(todo[p]).key
           \/ /\ Rename(p) /\ i = account[p] /\ op[p] # "rooms" /\ Head(todo[p]).file = f
              /\ file'[i][f] = tmp[i][f] /\ tmp'[i][f] = NoFile
<1>0. DiskTypes /\ ProcTypes
  BY IInvParts
<1>1. CASE WriteTmp(p) \/ Rename(p)
  <2>1. account[p] \in Ids /\ Head(todo[p]) \in Writes
    BY <1>1, AtWork DEF WriteTmp, Rename, Following
  <2>2. Head(todo[p]).file \in Files
    BY <2>1 DEF Writes
  <2>3. CASE op[p] = "rooms"
    <3>1. Head(todo[p]).file = "rooms"
      <4> PICK k \in Keys :
            \/ Head(todo[p]) = Write("tmp", "rooms", k, rooms[p])
            \/ Head(todo[p]) = Write("rename", "rooms", k, rooms[p])
        BY <2>3, SaveSteps
      <4> QED BY DEF Write
    <3> QED BY <1>0, <1>1, <2>1, <3>1 DEF WriteTmp, Rename, DiskTypes, Files, KeyFiles
  <2>4. CASE op[p] # "rooms" /\ i = account[p] /\ Head(todo[p]).file = f
    BY <1>0, <1>1, <2>1, <2>2, <2>4 DEF WriteTmp, Rename, DiskTypes
  <2>5. CASE i # account[p] \/ Head(todo[p]).file # f
    BY <1>0, <1>1, <2>1, <2>2, <2>5 DEF WriteTmp, Rename, DiskTypes, Files, KeyFiles
  <2> QED BY <2>3, <2>4, <2>5
<1>2. CASE RemoveDir(p)
  <2>1. account[p] \in Ids
    BY <1>2, AtWork DEF RemoveDir, Following
  <2> QED BY <1>0, <1>2, <2>1 DEF RemoveDir, DiskTypes, Files, KeyFiles
<1>3. CASE Recover(p)
  BY <1>0, <1>3 DEF Recover, DiskTypes, Files, KeyFiles
<1>4. CASE file' = file /\ tmp' = tmp
  BY <1>4
<1> QED BY <1>1, <1>2, <1>3, <1>4
    DEF Step, BeforeLogin, Register, Delete, Login, Starting, AlreadyRunning, CheckPid,
        WritePid, Load, StartFails, Command, ChangePassword, CreateRoom, DeleteRoom, SaveConfig,
        Quit, Writing, ReadList, StoreList, Fail, Die, disk
-----------------------------------------------------------------------------
(* The keys of the files *)

\* A temporary file about to be renamed is under the key of the operation, unless a
\* start has removed it.
TmpUnder(i, f, k) == tmp[i][f] = NoFile \/ tmp[i][f].key = k
Under(i, f, k) == file[i][f].key = k

\* What an operation with key k, with n steps left, has done on the account i, if no
\* process has raced it there.
Ready(p, i, n, k) ==
    /\ Head(todo[p]).do = "rename" => TmpUnder(i, Head(todo[p]).file, k)
    /\ op[p] = "register" =>
        /\ Others(p, i) = {} /\ users[i] = 0
        /\ n <= 3 => Under(i, "identity", k)
        /\ n = 1 => Under(i, "config", k)
    /\ op[p] = "change" => k[2] = users[i] /\ (n <= 2 => Under(i, "identity", k))
    /\ op[p] \in {"config", "nickname"} => "old key" \in spoilt[i] \/ Under(i, "config", k)
    /\ op[p] = "delete" /\ n <= 2 => Others(p, i) = {} /\ Under(i, "identity", NoKey)

WorkOf(p, k) ==
    /\ Planned(todo[p], op[p], k)
    /\ Raced(account[p]) \/ Ready(p, account[p], Len(todo[p]), k)

KeyWork(p) ==
    op[p] \in KeyOps =>
        /\ at[p] = IF op[p] \in {"register", "delete"} THEN "Out" ELSE "In"
        /\ \E k \in Keys : WorkOf(p, k)

\* A listed account opens with its password except halfway through a change or a
\* deletion.
KeysRight ==
    \A i \in Ids :
        /\ users[i] # 0 /\ spoilt[i] \subseteq {"unreadable"}
        /\ \A q \in Procs : account[q] = i => ~Half(q)
        => Opens(i, password[i])

KeyInv == KeysRight /\ \A p \in Procs : KeyWork(p)

\* The first of the steps left of an operation on the keys.
LEMMA WorkSteps ==
    ASSUME IInv, NEW p \in Procs, op[p] \in KeyOps, NEW k, WorkOf(p, k)
    PROVE  /\ todo[p] # <<>> /\ todo[p] \in Seq(Writes) /\ Len(todo[p]) \in Nat \ {0}
           /\ account[p] \in Ids
           /\ StepFromEnd(Head(todo[p]), op[p], Len(todo[p]), k)
           /\ Half(p) <=> op[p] \in {"change", "delete"} /\ Len(todo[p]) <= 2
<1>1. todo[p] # <<>> /\ todo[p] \in Seq(Writes)
  BY IInvParts DEF Links, Linked, ProcTypes, KeyOps
<1>2. Half(p) <=> op[p] \in {"change", "delete"} /\ Len(todo[p]) <= 2
  BY <1>1, HalfPlanned DEF WorkOf, Half
<1> QED BY <1>1, <1>2, AtWork, FirstPlanned, EmptySeq DEF WorkOf

\* Two operations that write the keys of an account, or one and a deletion past the
\* removal, have raced.
LEMMA OneWriter ==
    ASSUME IInv, RoomsInv, KeyInv, NEW p \in Procs, NEW q \in Procs, p # q,
           NEW i \in Ids, account[p] = i, account[q] = i, op[q] \in KeyOps,
           op[p] \in KeyOps \ {"delete"}, op[q] = "delete" => Len(todo[q]) <= 2
    PROVE  Raced(i)
<1>1. PICK k \in Keys : WorkOf(p, k)
  BY DEF KeyInv, KeyWork
<1>2. PICK m \in Keys : WorkOf(q, m)
  BY DEF KeyInv, KeyWork
<1>3. Others(p, i) # {} /\ Others(q, i) # {}
  BY DEF Others
<1>4. CASE op[p] = "register" \/ op[q] \in {"register", "delete"}
  BY <1>1, <1>2, <1>3, <1>4 DEF WorkOf, Ready
<1>5. CASE op[p] # "register" /\ op[q] \notin {"register", "delete"}
  BY <1>5 DEF KeyInv, KeyWork, KeyOps, RoomsInv, Apart, Held
<1> QED BY <1>4, <1>5

\* The work of another process on an account stays as it was, or they race.
LEMMA OthersWork ==
    ASSUME IInv, RoomsInv, KeyInv, NEW p \in Procs, Step(p), NEW q \in Procs, q # p,
           op[q] \in KeyOps
    PROVE  KeyWork(q)'
<1> DEFINE i == account[q]
           n == Len(todo[q])
<1>1. /\ at'[q] = at[q] /\ account'[q] = i /\ op'[q] = op[q] /\ todo'[q] = todo[q]
  BY OthersAlone
<1>2. PICK k \in Keys : WorkOf(q, k)
  BY DEF KeyInv, KeyWork
<1>3. i \in Ids /\ StepFromEnd(Head(todo[q]), op[q], n, k)
  BY <1>2, WorkSteps
<1> SUFFICES ASSUME "raced" \notin spoilt'[i]
             PROVE  Ready(q, i, n, k)'
  BY <1>1, <1>2 DEF KeyInv, KeyWork, WorkOf, Raced
<1>4. spoilt[i] \subseteq spoilt'[i] /\ ~Raced(i)
  BY <1>3, CausesKept DEF Raced
<1>5. Ready(q, i, n, k)
  BY <1>2, <1>4 DEF WorkOf
<1>6. q \in Others(p, i)
  BY DEF Others
<1>7. ASSUME op[q] = "delete" => n <= 2, NEW f \in KeyFiles
      PROVE  /\ file'[i][f] = file[i][f]
             /\ tmp'[i][f] = tmp[i][f] \/ tmp'[i][f] = NoFile
  <2>1. ASSUME RemoveDir(p), i = account[p]
        PROVE  FALSE
    BY <1>3, <1>6, <2>1, SpoilGrows DEF RemoveDir
  <2>2. ASSUME WriteTmp(p) \/ Rename(p), i = account[p], op[p] # "rooms"
        PROVE  FALSE
    <3>1. op[p] \in KeyOps /\ todo[p] # <<>>
      BY <2>2, AtWork, IInvParts DEF WriteTmp, Rename, Following, ProcTypes, Ops, KeyOps
    <3>2. op[p] # "delete"
      <4>1. PICK m \in Keys : WorkOf(p, m)
        BY <3>1 DEF KeyInv, KeyWork
      <4> QED BY <2>2, <3>1, <4>1, WorkSteps DEF StepFromEnd, WriteTmp, Rename, Following
    <3> QED BY <1>3, <1>4, <1>7, <2>2, <3>1, <3>2, OneWriter
  <2> QED BY <1>3, <2>1, <2>2, KeyFilesAlone DEF RoomsInv
<1>8. users'[i] = users[i]
  <2>1. ASSUME StoreList(p), i = account[p], op[p] \in {"register", "delete"}
        PROVE  FALSE
    <3>1. PICK m \in Keys : WorkOf(p, m)
      BY <2>1 DEF KeyInv, KeyWork, KeyOps
    <3>2. ASSUME op[p] = "delete" PROVE Len(todo[p]) <= 2
      <4>1. StepFromEnd(Head(todo[p]), "delete", Len(todo[p]), m)
        BY <2>1, <3>1, <3>2, WorkSteps DEF KeyOps
      <4>2. Len(todo[p]) = 1
        BY <2>1, <4>1 DEF StoreList, Following, StepFromEnd
      <4> QED BY <4>2
    <3>3. Others(p, i) = {}
      BY <1>4, <2>1, <3>1, <3>2 DEF WorkOf, Ready
    <3> QED BY <1>6, <3>3
  <2> QED BY <1>3, <2>1, SaltKept
<1>9. ASSUME Others(q, i) = {}, users[i] = 0 \/ Under(i, "identity", NoKey)
      PROVE  Others(q, i)' = {}
  <2>1. account[p] # i
    BY <1>9 DEF Others
  <2>2. account'[p] # i
    <3>1. \A w \in Passwords : ~Opens(i, w)
      <4> SUFFICES ASSUME NEW w \in Passwords, Opens(i, w) PROVE FALSE
        OBVIOUS
      <4>1. <<w, users[i]>> \in Passwords \X Nat
        BY <1>3, IInvParts, AccountAssumption DEF DiskTypes
      <4>2. users[i] # 0 /\ file[i]["identity"].key = <<w, users[i]>>
        BY DEF Opens
      <4> QED BY <1>9, <4>1, <4>2, AccountAssumption DEF Under
    <3>2. ~(spoilt' = [spoilt EXCEPT ![i] = IF Others(p, i) = {} THEN {} ELSE {"raced"}])
      BY <1>3, <1>6, IInvParts DEF HistoryTypes
    <3> QED BY <1>3, <2>1, <3>1, <3>2, Joins
  <2>3. ASSUME NEW r \in Procs \ {q}, account'[r] = i PROVE FALSE
    BY <1>9, <2>2, <2>3, OthersAlone DEF Others
  <2> QED BY <1>1, <2>3 DEF Others
<1>10. Head(todo[q]).do = "rename" =>
         /\ Head(todo[q]).file \in KeyFiles
         /\ op[q] # "delete"
  BY <1>3 DEF StepFromEnd, KeyFiles
<1>11. Head(todo[q]).do = "rename" => TmpUnder(i, Head(todo[q]).file, k)'
  BY <1>1, <1>5, <1>7, <1>10 DEF Ready, TmpUnder
<1>12. op[q] # "delete" =>
         \A f \in KeyFiles : \A m : Under(i, f, m) => Under(i, f, m)'
  BY <1>1, <1>7 DEF Under
<1>13. op[q] = "delete" /\ n <= 2 => Others(q, i)' = {} /\ Under(i, "identity", NoKey)'
  BY <1>1, <1>5, <1>7, <1>9 DEF Ready, Under, KeyFiles
<1>14. op[q] = "register" => Others(q, i)' = {} /\ users'[i] = 0
  BY <1>5, <1>8, <1>9 DEF Ready
<1> QED BY <1>1, <1>4, <1>5, <1>8, <1>11, <1>12, <1>13, <1>14 DEF Ready, KeyFiles

LEMMA NextSteps ==
    ASSUME IInv', NEW p \in Procs, op'[p] \in KeyOps
    PROVE  todo'[p] \in Seq(Writes) /\ todo'[p] # <<>>
BY IInvPartsNext DEF ProcTypes, Links, Linked, KeyOps

LEMMA SaltedKey ==
    ASSUME IInv, NEW i \in Ids, NEW w \in Passwords
    PROVE  <<w, users[i]>> \in Keys /\ <<w, registrations + 1>> \in Keys
BY IInvParts, AccountAssumption DEF DiskTypes, HistoryTypes, Keys

\* A process that begins an operation on an account has done nothing yet.
LEMMA BeginsWork ==
    ASSUME IInv, IInv', RoomsInv, KeyInv, NEW p \in Procs, BeforeLogin(p) \/ Command(p)
    PROVE  KeyWork(p)'
<1>0. ProcTypes /\ DiskTypes /\ HistoryTypes
  BY IInvParts
<1>1. Step(p)
  BY DEF Step
<1>2. ASSUME NEW i \in Ids, NEW w \in Passwords, Register(p, i, w)
      PROVE  KeyWork(p)'
  <2> PICK k \in Keys : k = <<w, registrations + 1>>
    BY SaltedKey
  <2> DEFINE steps == Save("identity", k, {}) \o Save("config", k, {})
                      \o <<Write("store", "config", k, {})>>
  <2>1. CASE UNCHANGED work
    <3>1. op'[p] = "none"
      BY <1>0, <1>2, <2>1, IInvParts DEF Register, Idle, work, Links, Linked
    <3> QED BY <3>1 DEF KeyWork, KeyOps
  <2>2. CASE users[i] = 0 /\ Begin(p, i, "register", steps)
             /\ spoilt' = [spoilt EXCEPT ![i] = IF Others(p, i) = {} THEN {} ELSE {"raced"}]
    <3>2. Planned(steps, "register", k) /\ Len(steps) = 5
      BY PlannedAtFirst
    <3> HIDE DEF steps
    <3>3. /\ account'[p] = i /\ op'[p] = "register" /\ todo'[p] = steps /\ at'[p] = "Out"
          /\ users' = users
      BY <1>0, <1>2, <2>2 DEF Register, Begin, Idle, ProcTypes
    <3>4. steps \in Seq(Writes) /\ steps # <<>>
      BY <3>3, NextSteps DEF KeyOps
    <3>5. StepFromEnd(Head(steps), "register", 5, k)
      BY <3>2, <3>4, FirstPlanned
    <3>6. Others(p, i)' = Others(p, i)
      BY <1>1, <3>3, OthersAlone DEF Others
    <3>7. Others(p, i) = {} \/ Raced(i)'
      BY <1>0, <2>2 DEF HistoryTypes, Raced
    <3>8. Others(p, i) = {} => Ready(p, i, 5, k)'
      BY <2>2, <3>3, <3>5, <3>6 DEF Ready, StepFromEnd
    <3> QED BY <3>2, <3>3, <3>7, <3>8 DEF KeyWork, WorkOf
  <2> QED BY <1>2, <2>1, <2>2 DEF Register
<1>3. ASSUME NEW i \in Ids, NEW w \in Passwords, Delete(p, i, w)
      PROVE  KeyWork(p)'
  <2> DEFINE steps == <<OnDisk("rmdir"), OnDisk("read"), OnDisk("store")>>
  <2>1. PICK k \in Keys : k = <<w, users[i]>>
    BY SaltedKey
  <2>2. /\ account'[p] = i /\ op'[p] = "delete" /\ todo'[p] = steps /\ at'[p] = "Out"
    BY <1>0, <1>3 DEF Delete, Begin, Idle, ProcTypes
  <2>3. Planned(steps, "delete", k) /\ Len(steps) = 3
    BY <2>1, PlannedAtFirst
  <2>4. Head(steps).do = "rmdir"
    BY DEF OnDisk, Write
  <2> HIDE DEF steps
  <2>5. Ready(p, i, 3, k)'
    BY <2>2, <2>4 DEF Ready
  <2> QED BY <2>2, <2>3, <2>5 DEF KeyWork, WorkOf
<1>4. ASSUME NEW i \in Ids, NEW w \in Passwords, Login(p, i, w)
      PROVE  KeyWork(p)'
  <2>1. op'[p] = "none"
    BY <1>0, <1>4, IInvParts DEF Login, Idle, work, Links, Linked
  <2> QED BY <2>1 DEF KeyWork, KeyOps
<1>5. ASSUME NEW old \in Passwords, NEW new \in Passwords, ChangePassword(p, old, new)
      PROVE  KeyWork(p)'
  <2>1. PICK i \in Ids : i = account[p]
    BY <1>5, InSession DEF ChangePassword, Idle
  <2>2. PICK k \in Keys : k = <<new, users[i]>>
    BY SaltedKey
  <2>3. /\ account'[p] = i /\ op'[p] = "change" /\ todo'[p] = ChangedFiles(k)
        /\ at'[p] = "In" /\ users' = users
    BY <1>0, <1>5, <2>1, <2>2 DEF ChangePassword, Begin, Idle, disk, ProcTypes
  <2>4. Planned(ChangedFiles(k), "change", k) /\ Len(ChangedFiles(k)) = 4
    BY PlannedAtFirst
  <2>5. ChangedFiles(k) \in Seq(Writes) /\ ChangedFiles(k) # <<>>
    BY <2>3, NextSteps DEF KeyOps
  <2>6. StepFromEnd(Head(ChangedFiles(k)), "change", 4, k)
    BY <2>4, <2>5, FirstPlanned
  <2>7. Ready(p, i, 4, k)'
    BY <2>2, <2>3, <2>6 DEF Ready, StepFromEnd
  <2> QED BY <2>3, <2>4, <2>7 DEF KeyWork, WorkOf
<1>6. ASSUME SaveConfig(p)
      PROVE  KeyWork(p)'
  <2>1. PICK i \in Ids, k \in Keys : i = account[p] /\ k = key[p]
    BY <1>6, SessionKey DEF SaveConfig, Idle
  <2> DEFINE short == Save("config", k, {})
             long == short \o <<OnDisk("read"), OnDisk("store")>>
  <2>2. /\ account'[p] = i /\ at'[p] = "In" /\ file' = file
        /\ \/ op'[p] = "config" /\ todo'[p] = short
           \/ op'[p] = "nickname" /\ todo'[p] = long
    BY <1>0, <1>6, <2>1 DEF SaveConfig, Begin, Idle, disk, ProcTypes
  <2>3. "old key" \in spoilt'[i] \/ Under(i, "config", k)
    BY <1>6, <2>1, SpoilGrows DEF SaveConfig, Under
  <2>4. /\ Planned(short, "config", k) /\ Len(short) = 2
        /\ Planned(long, "nickname", k) /\ Len(long) = 4
    BY PlannedAtFirst
  <2> HIDE DEF short, long
  <2>5. todo'[p] \in Seq(Writes) /\ todo'[p] # <<>>
    BY <2>2, NextSteps DEF KeyOps
  <2>6. Planned(todo'[p], op'[p], k)
    BY <2>2, <2>4
  <2>7. StepFromEnd(Head(todo'[p]), op'[p], Len(todo'[p]), k)
    BY <2>5, <2>6, FirstPlanned
  <2>8. Head(todo'[p]).do = "tmp"
    BY <2>2, <2>4, <2>7 DEF StepFromEnd
  <2>9. Ready(p, i, Len(todo[p]), k)'
    BY <2>2, <2>3, <2>8 DEF Ready, Under
  <2> QED BY <2>2, <2>6, <2>9 DEF KeyWork, WorkOf
<1>7. ASSUME Quit(p) \/ \E r \in Rooms : CreateRoom(p, r) \/ DeleteRoom(p, r)
      PROVE  KeyWork(p)'
  <2>1. op'[p] = "rooms"
    BY <1>0, <1>7 DEF Quit, CreateRoom, DeleteRoom, SaveRooms, Begin, ProcTypes
  <2> QED BY <2>1 DEF KeyWork, KeyOps
<1> QED BY <1>2, <1>3, <1>4, <1>5, <1>6, <1>7 DEF BeforeLogin, Command

\* A step of an operation, but for the last, leaves the rest of it to be done.
LEMMA AdvanceLeaves ==
    ASSUME IInv, NEW p \in Procs, op[p] \in KeyOps, NEW k, WorkOf(p, k), Advance(p),
           op'[p] \in KeyOps
    PROVE  /\ at'[p] = at[p] /\ account'[p] = account[p] /\ op'[p] = op[p]
           /\ Planned(todo'[p], op[p], k)
           /\ Len(todo'[p]) = Len(todo[p]) - 1 /\ Len(todo[p]) # 1
           /\ StepFromEnd(Head(todo[p]), op[p], Len(todo[p]), k)
           /\ StepFromEnd(Head(todo'[p]), op[p], Len(todo[p]) - 1, k)
<1>0. ProcTypes
  BY IInvParts
<1>1. /\ todo[p] # <<>> /\ todo[p] \in Seq(Writes) /\ Len(todo[p]) \in Nat \ {0}
      /\ StepFromEnd(Head(todo[p]), op[p], Len(todo[p]), k)
  BY WorkSteps
<1>2. /\ at' = at /\ todo'[p] = Tail(todo[p]) /\ Len(todo[p]) # 1
      /\ op'[p] = op[p] /\ account'[p] = account[p]
  BY <1>0 DEF Advance, ProcTypes, KeyOps
<1>3. Planned(Tail(todo[p]), op[p], k) /\ Len(Tail(todo[p])) = Len(todo[p]) - 1
  BY <1>1, TailPlanned DEF WorkOf
<1>4. Tail(todo[p]) \in Seq(Writes) /\ Tail(todo[p]) # <<>>
  BY <1>1, <1>2, IInvParts, FitTail DEF Links, Fit
<1>5. StepFromEnd(Head(Tail(todo[p])), op[p], Len(todo[p]) - 1, k)
  BY <1>3, <1>4, FirstPlanned
<1> QED BY <1>1, <1>2, <1>3, <1>5

LEMMA OwnWork ==
    ASSUME IInv, IInv', RoomsInv, KeyInv, NEW p \in Procs, Step(p)
    PROVE  KeyWork(p)'
<1>0. ProcTypes /\ DiskTypes
  BY IInvParts
<1>1. CASE BeforeLogin(p) \/ Command(p)
  BY <1>1, BeginsWork
<1>2. CASE Starting(p) \/ Fail(p) \/ Die(p)
  <2>1. Starting(p) => op[p] = "none"
    BY IInvParts DEF Starting, Recover, AlreadyRunning, CheckPid, WritePid, Load, StartFails,
       Links, Linked
  <2>2. op'[p] = "none"
    BY <1>0, <1>2, <2>1 DEF Starting, Recover, AlreadyRunning, CheckPid, WritePid, Load,
       StartFails, Fail, Die, Gone, work, ProcTypes
  <2> QED BY <2>2 DEF KeyWork, KeyOps
<1>3. CASE Writing(p) /\ ~Fail(p)
  <2> SUFFICES ASSUME op'[p] \in KeyOps PROVE KeyWork(p)'
    BY DEF KeyWork
  <2>0. Advance(p)
    BY <1>3 DEF Writing, WriteTmp, Rename, RemoveDir, ReadList, StoreList
  <2>1. op[p] \in KeyOps
    BY <1>0, <2>0 DEF Advance, ProcTypes, KeyOps
  <2>2. PICK k \in Keys : WorkOf(p, k)
    BY <2>1 DEF KeyInv, KeyWork
  <2>3. PICK i \in Ids, n \in Nat : i = account[p] /\ n = Len(todo[p])
    BY <2>1, <2>2, WorkSteps
  <2>4. /\ at'[p] = at[p] /\ account'[p] = i /\ op'[p] = op[p]
        /\ Planned(todo'[p], op[p], k)
        /\ Len(todo'[p]) = n - 1 /\ n # 1
        /\ StepFromEnd(Head(todo[p]), op[p], n, k)
        /\ StepFromEnd(Head(todo'[p]), op[p], n - 1, k)
    BY <2>0, <2>1, <2>2, <2>3, AdvanceLeaves
  <2> SUFFICES ASSUME "raced" \notin spoilt'[i]
               PROVE  Ready(p, i, Len(todo[p]), k)'
    BY <2>1, <2>4 DEF KeyInv, KeyWork, WorkOf, Raced
  <2>5. ~Raced(i) /\ spoilt[i] \subseteq spoilt'[i]
    BY <2>3, CausesKept DEF Raced
  <2>6. Ready(p, i, n, k)
    BY <2>2, <2>3, <2>5 DEF WorkOf
  <2>7. Others(p, i)' = Others(p, i)
    BY OthersAlone DEF Others
  <2>8. ~StoreList(p)
    BY <2>4 DEF StoreList, Following, StepFromEnd
  <2>9. users'[i] = users[i]
    BY <2>3, <2>8, SaltKept
  <2>10. ASSUME NEW f \in KeyFiles
         PROVE  \/ file'[i][f] = file[i][f] /\ tmp'[i][f] = tmp[i][f]
                \/ file'[i][f] = file[i][f] /\ tmp'[i][f] = NoFile
                \/ /\ RemoveDir(p) /\ file'[i][f] = NoFile /\ tmp'[i][f] = NoFile
                \/ /\ WriteTmp(p) /\ Head(todo[p]).file = f
                   /\ file'[i][f] = file[i][f] /\ tmp'[i][f].key = Head(todo[p]).key
                \/ /\ Rename(p) /\ Head(todo[p]).file = f
                   /\ file'[i][f] = tmp[i][f] /\ tmp'[i][f] = NoFile
    BY KeyFilesAlone DEF RoomsInv
  <2>11. CASE WriteTmp(p)
    <3>1. Head(todo[p]).do = "tmp"
      BY <2>11 DEF WriteTmp, Following
    <3>2. \A f \in KeyFiles : file'[i][f] = file[i][f]
      BY <2>10, <2>11, <3>1 DEF RemoveDir, Rename, Following
    <3>3. /\ Head(todo'[p]).do = "rename" /\ Head(todo[p]).key = k
          /\ Head(todo'[p]).file = Head(todo[p]).file
          /\ Head(todo[p]).file \in KeyFiles
      BY <2>1, <2>4, <3>1 DEF StepFromEnd, KeyFiles
    <3>4. TmpUnder(i, Head(todo[p]).file, k)'
      <4>1. tmp' = [tmp EXCEPT ![i][Head(todo[p]).file] =
                       [key |-> Head(todo[p]).key, rooms |-> Head(todo[p]).rooms]]
        BY <2>3, <2>11 DEF WriteTmp
      <4>2. tmp'[i][Head(todo[p]).file].key = k
        BY <1>0, <3>3, <4>1 DEF DiskTypes, KeyFiles, Files
      <4> QED BY <3>3, <4>2 DEF TmpUnder
    <3>5. \A g \in KeyFiles : \A m : Under(i, g, m) => file'[i][g].key = m
      BY <3>2 DEF Under
    <3>6. CASE op[p] = "register"
      BY <2>4, <2>6, <2>7, <2>9, <3>1, <3>3, <3>4, <3>5, <3>6
      DEF Ready, Under, KeyFiles, StepFromEnd
    <3>7. CASE op[p] = "change"
      BY <2>4, <2>6, <2>9, <3>1, <3>3, <3>4, <3>5, <3>7
      DEF Ready, Under, KeyFiles, StepFromEnd
    <3>8. CASE op[p] \in {"config", "nickname"}
      BY <2>4, <2>5, <2>6, <3>3, <3>4, <3>5, <3>8 DEF Ready, Under, KeyFiles
    <3> QED BY <2>1, <2>4, <3>1, <3>6, <3>7, <3>8 DEF KeyOps, StepFromEnd
  <2>12. CASE Rename(p)
    <3> DEFINE f == Head(todo[p]).file
    <3>1. Head(todo[p]).do = "rename" /\ tmp[i][f] # NoFile
      BY <2>3, <2>12 DEF Rename, Following
    <3>2. f \in KeyFiles /\ Head(todo'[p]).do # "rename"
      BY <2>1, <2>4, <3>1 DEF StepFromEnd, KeyFiles
    <3>3. file'[i][f].key = k
      <4>1. file' = [file EXCEPT ![i][f] = tmp[i][f]]
        BY <2>3, <2>12 DEF Rename
      <4>2. tmp[i][f].key = k
        BY <2>6, <3>1 DEF Ready, TmpUnder
      <4> QED BY <1>0, <3>2, <4>1, <4>2 DEF DiskTypes, KeyFiles, Files
    <3>4. \A g \in KeyFiles : g # f => file'[i][g] = file[i][g]
      BY <2>10, <2>12, <3>1 DEF RemoveDir, WriteTmp, Following
    <3>5. CASE op[p] = "register"
      BY <2>4, <2>6, <2>7, <2>9, <3>1, <3>2, <3>3, <3>4, <3>5
      DEF Ready, Under, KeyFiles, StepFromEnd
    <3>6. CASE op[p] = "change"
      BY <2>4, <2>6, <2>9, <3>1, <3>2, <3>3, <3>4, <3>6
      DEF Ready, Under, KeyFiles, StepFromEnd
    <3>7. CASE op[p] \in {"config", "nickname"}
      <4>1. f = "config"
        BY <2>4, <3>1, <3>7 DEF StepFromEnd
      <4> QED BY <2>4, <3>2, <3>3, <3>7, <4>1 DEF Ready, Under
    <3> QED BY <2>1, <2>4, <3>1, <3>5, <3>6, <3>7 DEF KeyOps, StepFromEnd
  <2>13. CASE RemoveDir(p)
    <3>1. op[p] = "delete" /\ n = 3 /\ Head(todo'[p]).do # "rename"
      BY <2>1, <2>4, <2>13 DEF RemoveDir, Following, StepFromEnd
    <3>2. Others(p, i) = {}
      BY <2>3, <2>13, SpoilGrows DEF RemoveDir
    <3>3. Under(i, "identity", NoKey)'
      <4>1. file' = [file EXCEPT ![i] = [f \in Files |-> NoFile]]
        BY <2>3, <2>13 DEF RemoveDir
      <4> QED BY <1>0, <4>1 DEF Under, DiskTypes, Files, NoFile
    <3> QED BY <2>4, <2>7, <3>1, <3>2, <3>3 DEF Ready
  <2>14. CASE ReadList(p)
    <3>1. op[p] \in {"nickname", "delete"} /\ n = 2 /\ Head(todo'[p]).do # "rename"
      BY <2>1, <2>4, <2>14 DEF ReadList, Following, StepFromEnd
    <3>2. file' = file
      BY <2>14 DEF ReadList, disk
    <3>3. CASE op[p] = "nickname"
      BY <2>4, <2>5, <2>6, <3>1, <3>2, <3>3 DEF Ready, Under
    <3>4. CASE op[p] = "delete"
      <4>1. Others(p, i) = {} /\ Under(i, "identity", NoKey)
        BY <2>6, <3>1, <3>4 DEF Ready
      <4> QED BY <2>4, <2>7, <3>1, <3>2, <3>4, <4>1 DEF Ready, Under
    <3> QED BY <3>1, <3>3, <3>4
  <2> QED BY <1>3, <2>8, <2>11, <2>12, <2>13, <2>14 DEF Writing
<1> QED BY <1>1, <1>2, <1>3 DEF Step, Writing
-----------------------------------------------------------------------------
(* A listed account opens with its password *)

\* What a step of an operation that is not halfway does to the keys of its account.
LEMMA WritingKeepsOpen ==
    ASSUME IInv, IInv', RoomsInv, KeyInv, NEW p \in Procs, Writing(p), ~Fail(p),
           NEW i \in Ids, i = account[p], op[p] \in KeyOps,
           users'[i] # 0, spoilt[i] \subseteq {"unreadable"}, "raced" \notin spoilt'[i],
           account'[p] = i => ~Half(p)',
           ~Half(p) /\ users[i] # 0 => Opens(i, password[i])
    PROVE  Opens(i, password[i])'
<1>0. ProcTypes /\ DiskTypes /\ HistoryTypes
  BY IInvParts
<1>1. Step(p) /\ Advance(p)
  BY DEF Step, Writing, WriteTmp, Rename, RemoveDir, ReadList, StoreList
<1>2. PICK k \in Keys : WorkOf(p, k)
  BY DEF KeyInv, KeyWork
<1>3. PICK n \in Nat : n = Len(todo[p])
  BY <1>2, WorkSteps
<1>4. /\ StepFromEnd(Head(todo[p]), op[p], n, k)
      /\ Half(p) <=> op[p] \in {"change", "delete"} /\ n <= 2
  BY <1>2, <1>3, WorkSteps
<1>5. Ready(p, i, n, k) /\ "old key" \notin spoilt[i]
  BY <1>2, <1>3 DEF WorkOf, Raced
<1>6. op[p] \in {"change", "delete"} => n = 1 \/ n = 4
  <2> SUFFICES ASSUME op[p] \in {"change", "delete"}, n # 1 PROVE n = 4
    OBVIOUS
  <2>1. op'[p] = op[p] /\ account'[p] = account[p]
    BY <1>0, <1>1, <1>3 DEF Advance, ProcTypes
  <2>2. Planned(todo'[p], op[p], k) /\ Len(todo'[p]) = n - 1
    BY <1>1, <1>2, <1>3, <2>1, AdvanceLeaves
  <2>3. todo'[p] \in Seq(Writes)
    BY <2>1, NextSteps
  <2>4. Len(todo'[p]) <= 2 => Half(p)'
    BY <2>1, <2>2, <2>3, HalfPlanned DEF Half
  <2>5. n \in {1, 2, 3, 4}
    BY <1>4 DEF StepFromEnd
  <2> QED BY <1>4, <2>1, <2>2, <2>4, <2>5 DEF StepFromEnd
<1>7. CASE WriteTmp(p) \/ ReadList(p)
  <2>1. Head(todo[p]).do \in {"tmp", "read"}
    BY <1>7 DEF WriteTmp, ReadList, Following
  <2>2. ~Half(p)
    BY <1>4, <1>6, <2>1 DEF StepFromEnd
  <2>3. file' = file /\ users' = users /\ password' = password
    BY <1>7 DEF WriteTmp, ReadList, disk, history
  <2> QED BY <2>2, <2>3 DEF Opens
<1>8. CASE Rename(p)
  <2> DEFINE f == Head(todo[p]).file
  <2>1. Head(todo[p]).do = "rename" /\ tmp[i][f] # NoFile
    BY <1>8 DEF Rename, Following
  <2>2. /\ users' = users /\ file' = [file EXCEPT ![i][f] = tmp[i][f]]
        /\ password' = IF op[p] = "change" /\ n = 1
                       THEN [password EXCEPT ![i] = Head(todo[p]).key[1]] ELSE password
    BY <1>3, <1>8 DEF Rename
  <2>3. tmp[i][f].key = k
    BY <1>5, <2>1 DEF Ready, TmpUnder
  <2>4. op[p] \notin {"register", "delete"}
    BY <1>4, <1>5, <2>1, <2>2 DEF Ready, StepFromEnd
  <2>5. f = "config" /\ Head(todo[p]).key = k
    BY <1>4, <1>6, <2>1, <2>4 DEF StepFromEnd, KeyOps
  <2>6. /\ file'[i]["config"].key = k
        /\ file'[i]["identity"].key = file[i]["identity"].key
    BY <1>0, <2>2, <2>3, <2>5 DEF DiskTypes, Files
  <2>7. CASE op[p] = "change"
    <3>1. n = 1
      BY <1>4, <2>1, <1>6, <2>7 DEF StepFromEnd
    <3>2. k[2] = users[i] /\ file[i]["identity"].key = k
      <4>1. Ready(p, i, 1, k)
        BY <1>5, <3>1
      <4> QED BY <2>7, <4>1 DEF Ready, Under
    <3>3. password'[i] = k[1]
      BY <1>0, <2>2, <2>5, <2>7, <3>1 DEF HistoryTypes
    <3>4. k = <<k[1], k[2]>>
      BY DEF Keys
    <3> QED BY <2>2, <2>6, <3>2, <3>3, <3>4 DEF Opens
  <2>8. CASE op[p] \in {"config", "nickname"}
    <3>1. file[i]["config"].key = k
      BY <1>5, <2>8 DEF Ready, Under
    <3>2. ~Half(p)
      BY <1>4, <2>8
    <3> QED BY <2>2, <2>6, <2>8, <3>1, <3>2 DEF Opens
  <2> QED BY <2>4, <2>7, <2>8 DEF KeyOps
<1>9. CASE RemoveDir(p)
  BY <1>4, <1>6, <1>9 DEF RemoveDir, Following, StepFromEnd
<1>10. CASE StoreList(p)
  <2>1. /\ n = 1 /\ op[p] \in {"register", "delete", "nickname"}
    BY <1>4, <1>10 DEF StoreList, Following, StepFromEnd
  <2>2. /\ file' = file /\ users' = Stored(p) /\ users[i] = list[p][i]
    BY <1>10 DEF StoreList
  <2>3. list[p] \in [Ids -> 0..MaxRegistrations]
    BY <1>0 DEF ProcTypes
  <2>4. CASE op[p] = "register"
    <3>1. Head(todo[p]).key = k
      BY <1>4, <2>4 DEF StepFromEnd
    <3>2. users'[i] = k[2] /\ password'[i] = k[1]
      BY <1>0, <1>10, <2>2, <2>3, <2>4, <3>1 DEF StoreList, Stored, HistoryTypes
    <3>3. file[i]["identity"].key = k /\ file[i]["config"].key = k
      <4>1. Ready(p, i, 1, k)
        BY <1>5, <2>1
      <4> QED BY <2>4, <4>1 DEF Ready, Under
    <3>4. k = <<k[1], k[2]>>
      BY DEF Keys
    <3> QED BY <2>2, <3>2, <3>3, <3>4 DEF Opens
  <2>5. CASE op[p] = "delete"
    <3>1. users'[i] = 0
      BY <2>2, <2>3, <2>5 DEF Stored
    <3> QED BY <3>1
  <2>6. CASE op[p] = "nickname"
    <3>1. users'[i] = users[i]
      BY <2>2, <2>3, <2>6 DEF Stored
    <3>2. password' = password /\ ~Half(p)
      BY <1>4, <1>10, <2>6 DEF StoreList
    <3> QED BY <2>2, <3>1, <3>2 DEF Opens
  <2> QED BY <2>1, <2>4, <2>5, <2>6
<1> QED BY <1>7, <1>8, <1>9, <1>10 DEF Writing

LEMMA KeysRightStep ==
    ASSUME IInv, IInv', RoomsInv, KeyInv, NEW p \in Procs, Step(p)
    PROVE  KeysRight'
<1>0. ProcTypes /\ DiskTypes /\ HistoryTypes
  BY IInvParts
<1> SUFFICES ASSUME NEW i \in Ids, users'[i] # 0, spoilt'[i] \subseteq {"unreadable"},
                    \A q \in Procs : account'[q] = i => ~Half(q)'
             PROVE  Opens(i, password[i])'
  BY DEF KeysRight
<1>1. "raced" \notin spoilt'[i] /\ "cut" \notin spoilt'[i]
  OBVIOUS
<1>2. spoilt[i] \subseteq {"unreadable"}
  BY <1>1, CausesGrow
<1>3. ASSUME NEW q \in Procs \ {p}, account[q] = i
      PROVE  ~Half(q)
  BY <1>3, OthersAlone DEF Half
<1>4. (account[p] = i => ~Half(p)) /\ users[i] # 0 => Opens(i, password[i])
  BY <1>2, <1>3 DEF KeyInv, KeysRight
<1>5. ASSUME users'[i] = users[i], password'[i] = password[i],
             \A f \in KeyFiles : file'[i][f] = file[i][f],
             account[p] = i => ~Half(p)
      PROVE  Opens(i, password[i])'
  BY <1>4, <1>5 DEF Opens, KeyFiles
<1>6. CASE account[p] # i
  <2>1. users'[i] = users[i] /\ password'[i] = password[i]
    BY <1>1, <1>6, SaltKept, PasswordKept
  <2>2. \A f \in KeyFiles : file'[i][f] = file[i][f]
    BY <1>6, KeyFilesAlone DEF RoomsInv
  <2> QED BY <1>5, <1>6, <2>1, <2>2
<1>7. CASE account[p] = i /\ (Fail(p) \/ Die(p))
  <2>1. ~Half(p)
    BY <1>1, <1>7, SpoilGrows DEF Fail, Die
  <2>2. file' = file /\ users' = users /\ password' = password
    BY <1>7 DEF Fail, Die, disk
  <2> QED BY <1>5, <2>1, <2>2
<1>8. CASE account[p] = i /\ ~Fail(p) /\ (todo[p] = <<>> \/ op[p] = "rooms")
  <2>1. ~Half(p)
    BY <1>8, IInvParts DEF Links, Linked, Half
  <2>2. todo[p] # <<>> => Head(todo[p]).do \in {"tmp", "rename"}
    <3> SUFFICES ASSUME op[p] = "rooms" PROVE Head(todo[p]).do \in {"tmp", "rename"}
      BY <1>8
    <3> PICK k \in Keys : \/ Head(todo[p]) = Write("tmp", "rooms", k, rooms[p])
                          \/ Head(todo[p]) = Write("rename", "rooms", k, rooms[p])
      BY SaveSteps DEF RoomsInv
    <3> QED BY DEF Write
  <2>3. ~RemoveDir(p) /\ ~StoreList(p) /\ (Rename(p) => op[p] = "rooms")
    BY <1>8, <2>2 DEF RemoveDir, StoreList, Rename, Following
  <2>4. users'[i] = users[i] /\ password'[i] = password[i]
    BY <1>1, <2>3, SaltKept, PasswordKept
  <2>5. \A f \in KeyFiles : file'[i][f] = file[i][f]
    BY <2>3, KeyFilesAlone DEF RoomsInv
  <2> QED BY <1>5, <2>1, <2>4, <2>5
<1>9. CASE /\ account[p] = i /\ ~Fail(p) /\ ~Die(p)
           /\ todo[p] # <<>> /\ op[p] # "rooms"
  <2>1. op[p] \in KeyOps
    BY <1>0, <1>9, AtWork DEF ProcTypes, Ops, KeyOps
  <2>2. Writing(p)
    BY <1>9, IInvParts DEF Step, BeforeLogin, Register, Delete, Login, Command, ChangePassword,
       SaveConfig, CreateRoom, DeleteRoom, Quit, Idle, Starting, Recover, AlreadyRunning,
       CheckPid, WritePid, Load, StartFails, Links, Linked
  <2> QED BY <1>1, <1>2, <1>4, <1>9, <2>1, <2>2, WritingKeepsOpen
<1> QED BY <1>6, <1>7, <1>8, <1>9

LEMMA KeyInvInit == Init => KeyInv
BY DEF Init, KeyInv, KeysRight, KeyWork, KeyOps

LEMMA KeyInvStep ==
    IInv /\ IInv' /\ SessionInv /\ RoomsInv /\ KeyInv /\ [Next]_vars => KeyInv'
<1> SUFFICES ASSUME IInv, IInv', RoomsInv, KeyInv, [Next]_vars PROVE KeyInv'
  OBVIOUS
<1>1. CASE UNCHANGED vars
  <2>1. /\ users' = users /\ file' = file /\ tmp' = tmp /\ password' = password
        /\ spoilt' = spoilt /\ at' = at /\ account' = account /\ op' = op /\ todo' = todo
    BY <1>1 DEF vars, disk, session, work, history
  <2>2. KeysRight'
    BY <2>1 DEF KeyInv, KeysRight, Half, Opens
  <2>3. ASSUME NEW q \in Procs PROVE KeyWork(q)'
    <3>1. KeyWork(q)
      BY DEF KeyInv
    <3>2. Others(q, account[q])' = Others(q, account[q])
      BY <2>1 DEF Others
    <3> QED BY <2>1, <3>1, <3>2 DEF KeyWork, WorkOf, Ready, Under, TmpUnder, Raced
  <2> QED BY <2>2, <2>3 DEF KeyInv
<1>2. ASSUME NEW p \in Procs, Step(p) PROVE KeyInv'
  <2>1. ASSUME NEW q \in Procs, q # p, op'[q] \in KeyOps PROVE KeyWork(q)'
    BY <1>2, <2>1, OthersAlone, OthersWork
  <2>2. \A q \in Procs : KeyWork(q)'
    BY <1>2, <2>1, OwnWork DEF KeyWork
  <2> QED BY <1>2, <2>2, KeysRightStep DEF KeyInv
<1> QED BY <1>1, <1>2 DEF Next, Step

\* An account that nothing writes to opens with the password last set for it, for any
\* number of processes, accounts and registrations, after any crashes and failed
\* writes, unless it was raced for, a change or a deletion of it was cut, or its
\* config.enc was saved under a superseded key.
THEOREM AccountsOpen == Spec => []OpensWithItsPassword
<1>1. Init => SessionInv
  BY DEF Init, SessionInv, SessionsHoldThePid, StartsApart
<1>2. Spec => []KeyInv
  BY <1>1, IInvInit, IInvStep, SessionStep, RoomsInvInit, RoomsInvStep, KeyInvInit, KeyInvStep,
     PTL DEF Spec
<1>3. IInv /\ KeyInv => OpensWithItsPassword
  <2> SUFFICES ASSUME IInv, KeyInv, NEW i \in Ids, users[i] # 0, AtRest(i),
                      spoilt[i] \subseteq {"unreadable"}
               PROVE  Opens(i, password[i])
    BY DEF OpensWithItsPassword
  <2>1. \A q \in Procs : account[q] = i => ~Half(q)
    BY IInvParts DEF AtRest, Half, Links, Linked
  <2> QED BY <2>1 DEF KeyInv, KeysRight
<1>4. Spec => []IInv
  BY IInvInit, IInvStep, PTL DEF Spec
<1> QED BY <1>2, <1>3, <1>4, PTL
=============================================================================
