---------------------------- MODULE AccountProofs ----------------------------
(***************************************************************************)
(* Theorems about Account, for every set of processes, accounts, passwords *)
(* and rooms and any number of registrations.                              *)
(***************************************************************************)
EXTENDS Account, SequenceTheorems, TLAPS

-----------------------------------------------------------------------------
(* Steps that are left of an operation *)

\* What the steps left of an operation may be, at the stage its process is in.
Fits(w, what, stage) ==
    /\ w.do = "store" => what \in {"register", "delete", "nickname"}
    /\ w.do = "rmdir" => stage = "Out"
    /\ w.file = "rooms" => what = "rooms"
    /\ what = "register" => w.key \in Passwords \X (0..MaxRegistrations)
    /\ what = "change" => w.key \in Keys

Fit(s, what, stage) ==
    /\ s \in Seq(Writes)
    /\ \A n \in 1..Len(s) : Fits(s[n], what, stage)

IInv == TypeOK /\ \A p \in Procs : Fit(todo[p], op[p], at[p])

LEMMA FitSave ==
    ASSUME NEW f \in Files, NEW k \in Keys \cup {NoKey}, NEW rs \in SUBSET Rooms,
           NEW what, NEW stage, f = "rooms" => what = "rooms",
           what = "register" => k \in Passwords \X (0..MaxRegistrations),
           what = "change" => k \in Keys
    PROVE  Fit(Save(f, k, rs), what, stage) /\ Save(f, k, rs) # <<>>
BY DEF Fit, Fits, Save, Write, Writes

LEMMA FitConcat ==
    ASSUME NEW s, NEW t, NEW what, NEW stage, Fit(s, what, stage), Fit(t, what, stage),
           s # <<>>
    PROVE  Fit(s \o t, what, stage) /\ s \o t # <<>>
<1>1. s \in Seq(Writes) /\ t \in Seq(Writes)
  BY DEF Fit
<1>2. /\ s \o t \in Seq(Writes)
      /\ Len(s \o t) = Len(s) + Len(t)
      /\ \A n \in 1..Len(s) + Len(t) :
            (s \o t)[n] = IF n <= Len(s) THEN s[n] ELSE t[n - Len(s)]
  BY <1>1, ConcatProperties
<1>3. Len(s) \in Nat \ {0} /\ Len(t) \in Nat
  BY <1>1, EmptySeq, LenProperties
<1>4. ASSUME NEW n \in 1..Len(s \o t)
      PROVE  Fits((s \o t)[n], what, stage)
  <2>1. CASE n <= Len(s)
    BY <1>2, <1>3, <2>1 DEF Fit
  <2>2. CASE n > Len(s)
    <3>1. n - Len(s) \in 1..Len(t)
      BY <1>2, <1>3, <2>2
    <3> QED BY <1>2, <1>3, <2>2, <3>1 DEF Fit
  <2> QED BY <1>2, <1>3, <2>1, <2>2
<1>5. s \o t # <<>>
  BY <1>2, <1>3, Len(<<>>) = 0
<1> QED BY <1>2, <1>4, <1>5 DEF Fit

LEMMA FitTail ==
    ASSUME NEW s, NEW what, NEW stage, Fit(s, what, stage), s # <<>>
    PROVE  /\ Head(s) \in Writes /\ Fits(Head(s), what, stage)
           /\ Fit(Tail(s), what, stage)
           /\ Tail(s) = <<>> <=> Len(s) = 1
<1>1. s \in Seq(Writes)
  BY DEF Fit
<1>2. /\ Head(s) \in Writes
      /\ Tail(s) \in Seq(Writes)
      /\ Len(Tail(s)) = Len(s) - 1
      /\ \A n \in 1..Len(Tail(s)) : Tail(s)[n] = s[n + 1]
  BY <1>1, HeadTailProperties
<1>3. Len(s) \in Nat \ {0}
  BY <1>1, EmptySeq
<1>4. Fits(Head(s), what, stage)
  BY <1>1, <1>3, Head(s) = s[1] DEF Fit
<1>5. \A n \in 1..Len(Tail(s)) : Fits(Tail(s)[n], what, stage)
  BY <1>2, <1>3 DEF Fit
<1>6. Tail(s) = <<>> <=> Len(s) = 1
  <2>1. ASSUME Tail(s) = <<>> PROVE Len(s) = 1
    <3>1. Len(Tail(s)) = 0
      BY <2>1, EmptySeq
    <3>2. Len(Tail(s)) = Len(s) - 1
      BY <1>2
    <3>3. Len(s) - 1 = 0
      BY <3>1, <3>2, Zenon
    <3> QED BY <1>3, <3>3
  <2>2. ASSUME Len(s) = 1, Tail(s) # <<>> PROVE FALSE
    <3>1. Len(Tail(s)) \in Nat \ {0}
      BY <1>2, <2>2, EmptySeq
    <3>2. Len(Tail(s)) = 0
      BY <1>2, <2>2
    <3> QED BY <3>1, <3>2
  <2> QED BY <2>1, <2>2
<1> QED BY <1>2, <1>4, <1>5, <1>6 DEF Fit

LEMMA FitEmpty == \A what, stage : Fit(<<>>, what, stage)
BY DEF Fit

LEMMA FitShort ==
    ASSUME NEW what, NEW stage
    PROVE  /\ what \in {"delete", "nickname"} =>
                Fit(<<OnDisk("read"), OnDisk("store")>>, what, stage)
           /\ what = "delete" /\ stage = "Out" =>
                Fit(<<OnDisk("rmdir"), OnDisk("read"), OnDisk("store")>>, what, stage)
           /\ \A k \in Passwords \X (0..MaxRegistrations) : what = "register" =>
                Fit(<<Write("store", "config", k, {})>>, what, stage)
<1>1. OnDisk("read") \in Writes /\ OnDisk("store") \in Writes /\ OnDisk("rmdir") \in Writes
  BY DEF OnDisk, Write, Writes, Files
<1>2. what \in {"delete", "nickname"} =>
         Fit(<<OnDisk("read"), OnDisk("store")>>, what, stage)
  BY <1>1 DEF Fit, Fits, OnDisk, Write
<1>3. what = "delete" /\ stage = "Out" =>
         Fit(<<OnDisk("rmdir"), OnDisk("read"), OnDisk("store")>>, what, stage)
  BY <1>1 DEF Fit, Fits, OnDisk, Write
<1>4. ASSUME NEW k \in Passwords \X (0..MaxRegistrations), what = "register"
      PROVE  Fit(<<Write("store", "config", k, {})>>, what, stage)
  <2>1. k \in Keys
    BY AccountAssumption DEF Keys
  <2>2. Write("store", "config", k, {}) \in Writes
    BY <2>1 DEF Write, Writes, Files
  <2> QED BY <1>4, <2>2 DEF Fit, Fits, Write
<1> QED BY <1>2, <1>3, <1>4

-----------------------------------------------------------------------------
(* Types *)

\* The links between the variables of a process that TypeOK states.
Linked(p) ==
    /\ op[p] = "none" <=> todo[p] = <<>>
    /\ account[p] = NoId <=> Idle(p, "Out")
    /\ key[p] = NoKey <=> at[p] = "Out"
    /\ at[p] \notin {"Out", "In", "Leaving"} => todo[p] = <<>>

DiskTypes ==
    /\ users \in [Ids -> 0..MaxRegistrations]
    /\ dir \in [Ids -> BOOLEAN]
    /\ file \in [Ids -> [Files -> File]]
    /\ tmp \in [Ids -> [Files -> File]]
    /\ pid \in [Ids -> Procs \cup {NoKey, Stale}]

ProcTypes ==
    /\ at \in [Procs -> Stages]
    /\ account \in [Procs -> Ids \cup {NoId}]
    /\ key \in [Procs -> Keys \cup {NoKey}]
    /\ rooms \in [Procs -> SUBSET Rooms]
    /\ op \in [Procs -> Ops]
    /\ todo \in [Procs -> Seq(Writes)]
    /\ list \in [Procs -> [Ids -> 0..MaxRegistrations]]

HistoryTypes ==
    /\ registrations \in 0..MaxRegistrations
    /\ password \in [Ids -> Passwords \cup {NoKey}]
    /\ dropped \subseteq Rooms
    /\ spoilt \in [Ids -> SUBSET Causes]

Links == \A p \in Procs : Linked(p) /\ Fit(todo[p], op[p], at[p])

LEMMA IInvParts == IInv <=> DiskTypes /\ ProcTypes /\ HistoryTypes /\ Links
BY DEF IInv, TypeOK, DiskTypes, ProcTypes, HistoryTypes, Links, Linked

LEMMA IInvPartsNext ==
    IInv' <=> DiskTypes' /\ ProcTypes' /\ HistoryTypes' /\ Links'
BY DEF IInv, TypeOK, DiskTypes, ProcTypes, HistoryTypes, Links, Linked, Idle

\* A process with steps left, and its account.
LEMMA AtWork ==
    ASSUME IInv, NEW p \in Procs, todo[p] # <<>>
    PROVE  /\ account[p] \in Ids
           /\ Head(todo[p]) \in Writes
           /\ Fits(Head(todo[p]), op[p], at[p])
           /\ at[p] \in {"Out", "In", "Leaving"}
           /\ op[p] # "none"
<1>1. Fit(todo[p], op[p], at[p]) /\ Linked(p) /\ ProcTypes
  BY IInvParts DEF Links
<1> QED BY <1>1, FitTail DEF Linked, Idle, ProcTypes

LEMMA AdvanceKeeps ==
    ASSUME IInv, NEW p \in Procs, todo[p] # <<>>, Advance(p)
    PROVE  ProcTypes' /\ Links'
<1>1. Fit(todo[p], op[p], at[p]) /\ Linked(p) /\ ProcTypes /\ DiskTypes
  BY IInvParts DEF Links
<1>2. /\ Fit(Tail(todo[p]), op[p], at[p])
      /\ Tail(todo[p]) = <<>> <=> Len(todo[p]) = 1
      /\ Tail(todo[p]) \in Seq(Writes)
  BY <1>1, FitTail DEF Fit
<1>3. ProcTypes'
  <2>1. list' \in [Procs -> [Ids -> 0..MaxRegistrations]]
    BY <1>1, AccountAssumption DEF ProcTypes, DiskTypes, Advance, Unread
  <2>2. account' \in [Procs -> Ids \cup {NoId}] /\ op' \in [Procs -> Ops]
    BY <1>1 DEF ProcTypes, Advance, AccountAfter, Ops
  <2>3. todo' \in [Procs -> Seq(Writes)]
    BY <1>1, <1>2 DEF ProcTypes, Advance
  <2> QED BY <1>1, <2>1, <2>2, <2>3 DEF ProcTypes, Advance
<1>4. ASSUME NEW q \in Procs PROVE Linked(q)' /\ Fit(todo[q], op[q], at[q])'
  <2>1. Linked(q) /\ Fit(todo[q], op[q], at[q])
    BY IInvParts DEF Links
  <2>2. CASE q # p
    BY <1>1, <2>1, <2>2 DEF Advance, Linked, Idle, ProcTypes
  <2>3. CASE q = p
    <3>1. todo'[p] = Tail(todo[p]) /\ at' = at /\ key' = key
      BY <1>1 DEF Advance, ProcTypes
    <3>2. op'[p] = IF Len(todo[p]) = 1 THEN "none" ELSE op[p]
      BY <1>1 DEF Advance, ProcTypes
    <3>3. account'[p] = IF Len(todo[p]) = 1 THEN AccountAfter(p) ELSE account[p]
      BY <1>1 DEF Advance, ProcTypes
    <3>4. Linked(p)'
      BY <1>1, <1>2, <3>1, <3>2, <3>3, AtWork, AccountAssumption
      DEF Linked, Idle, AccountAfter
    <3>5. Fit(todo'[p], op'[p], at'[p])
      BY <1>2, <3>1, <3>2, FitEmpty
    <3> QED BY <2>3, <3>4, <3>5
  <2> QED BY <2>2, <2>3
<1> QED BY <1>3, <1>4 DEF Links
LEMMA GoneKeeps ==
    ASSUME IInv, NEW p \in Procs, Gone(p)
    PROVE  ProcTypes' /\ Links'
<1>1. ProcTypes /\ Links /\ DiskTypes
  BY IInvParts
<1>2. ProcTypes'
  BY <1>1, AccountAssumption DEF ProcTypes, Gone, Stages, Ops, Unread
<1>3. ASSUME NEW q \in Procs PROVE Linked(q)' /\ Fit(todo[q], op[q], at[q])'
  <2>1. CASE q # p
    BY <1>1, <2>1 DEF Gone, Links, Linked, Idle, ProcTypes
  <2>2. CASE q = p
    BY <1>1, <2>2, FitEmpty DEF Gone, Linked, Idle, ProcTypes
  <2> QED BY <2>1, <2>2
<1> QED BY <1>2, <1>3 DEF Links

\* An operation begins, at a stage at which its process may be at work.
LEMMA BeginKeeps ==
    ASSUME IInv, NEW p \in Procs, NEW i \in Ids, NEW what \in Ops, NEW steps, NEW stage,
           what # "none", Fit(steps, what, stage), steps # <<>>,
           stage \in {"Out", "In", "Leaving"}, stage = "Out" <=> at[p] = "Out",
           at' = [at EXCEPT ![p] = stage], Begin(p, i, what, steps), key' = key,
           rooms' \in [Procs -> SUBSET Rooms],
           list' \in [Procs -> [Ids -> 0..MaxRegistrations]]
    PROVE  ProcTypes' /\ Links'
<1>1. ProcTypes /\ Links
  BY IInvParts
<1>2. ProcTypes'
  BY <1>1 DEF ProcTypes, Begin, Fit, Stages
<1>3. ASSUME NEW q \in Procs PROVE Linked(q)' /\ Fit(todo[q], op[q], at[q])'
  <2>1. CASE q # p
    BY <1>1, <2>1 DEF Begin, Links, Linked, Idle, ProcTypes
  <2>2. CASE q = p
    BY <1>1, <2>2, AccountAssumption DEF Begin, Links, Linked, Idle, ProcTypes
  <2> QED BY <2>1, <2>2
<1> QED BY <1>2, <1>3 DEF Links

\* A process moves on at the start of its session.
LEMMA MoveKeeps ==
    ASSUME IInv, NEW p \in Procs, NEW stage \in Stages \ {"Out"}, NEW k,
           NEW i \in Ids, todo[p] = <<>>, at' = [at EXCEPT ![p] = stage],
           account' = [account EXCEPT ![p] = i],
           k \in Keys, key' = [key EXCEPT ![p] = k],
           rooms' \in [Procs -> SUBSET Rooms], UNCHANGED work
    PROVE  ProcTypes' /\ Links'
<1>1. ProcTypes /\ Links
  BY IInvParts
<1>2. k # NoKey
  BY AccountAssumption DEF Keys
<1>3. ProcTypes'
  BY <1>1 DEF ProcTypes, work
<1>4. ASSUME NEW q \in Procs PROVE Linked(q)' /\ Fit(todo[q], op[q], at[q])'
  <2>1. CASE q # p
    BY <1>1, <2>1 DEF work, Links, Linked, Idle, ProcTypes
  <2>2. CASE q = p
    BY <1>1, <1>2, <2>2, FitEmpty, AccountAssumption
    DEF work, Links, Linked, Idle, ProcTypes
  <2> QED BY <2>1, <2>2
<1> QED BY <1>3, <1>4 DEF Links

LEMMA ProcsUntouched ==
    ASSUME IInv, UNCHANGED <<session, work>>
    PROVE  ProcTypes' /\ Links'
BY IInvParts DEF session, work, ProcTypes, Links, Linked, Idle

LEMMA SpoilKeeps ==
    ASSUME IInv, NEW i \in Ids, NEW c \in Causes, NEW when, Spoil(i, c, when)
    PROVE  spoilt' \in [Ids -> SUBSET Causes]
BY IInvParts DEF HistoryTypes, Spoil

\* The key of a session.
LEMMA SessionKey ==
    ASSUME IInv, NEW p \in Procs, at[p] # "Out"
    PROVE  account[p] \in Ids /\ key[p] \in Keys
BY IInvParts DEF ProcTypes, Links, Linked, Idle
-----------------------------------------------------------------------------
(* One lemma for each group of actions *)

LEMMA BeforeLoginType ==
    ASSUME IInv, NEW p \in Procs, BeforeLogin(p) PROVE IInv'
<1>0. DiskTypes /\ ProcTypes /\ HistoryTypes /\ Links
  BY IInvParts
<1> PICK i \in Ids, w \in Passwords : Register(p, i, w) \/ Delete(p, i, w) \/ Login(p, i, w)
  BY DEF BeforeLogin
<1>1. CASE Register(p, i, w) /\ users[i] # 0 /\ UNCHANGED <<account, work, registrations, spoilt>>
  <2>1. DiskTypes' /\ HistoryTypes'
    BY <1>0, <1>1 DEF Register, DiskTypes, HistoryTypes
  <2>2. UNCHANGED <<session, work>>
    BY <1>1 DEF Register, session
  <2> QED BY <2>1, <2>2, ProcsUntouched, IInvPartsNext
<1>2. CASE Register(p, i, w) /\ users[i] = 0
  <2> DEFINE k == <<w, registrations + 1>>
             first == Save("identity", k, {}) \o Save("config", k, {})
             steps == first \o <<Write("store", "config", k, {})>>
  <2>1. k \in Passwords \X (0..MaxRegistrations) /\ k \in Keys
    BY <1>0, <1>2, AccountAssumption DEF Register, HistoryTypes, Keys
  <2>2. Fit(first, "register", "Out") /\ first # <<>>
    <3>1. /\ Fit(Save("identity", k, {}), "register", "Out")
          /\ Save("identity", k, {}) # <<>>
          /\ Fit(Save("config", k, {}), "register", "Out")
      <4> HIDE DEF k
      <4> QED BY <2>1, FitSave DEF Files
    <3> QED BY <3>1, FitConcat
  <2>3. Fit(<<Write("store", "config", k, {})>>, "register", "Out")
    BY <2>1, FitShort
  <2>4. Fit(steps, "register", "Out") /\ steps # <<>>
    BY <2>2, <2>3, FitConcat
  <2>5. Begin(p, i, "register", steps)
    BY <1>2 DEF Register
  <2>6. DiskTypes' /\ HistoryTypes'
    <3>1. /\ registrations' = registrations + 1 /\ registrations < MaxRegistrations
          /\ spoilt' = [spoilt EXCEPT ![i] = IF Others(p, i) = {} THEN {} ELSE {"raced"}]
          /\ password' = password /\ dropped' = dropped
      BY <1>2 DEF Register
    <3>2. spoilt' \in [Ids -> SUBSET Causes]
      BY <1>0, <3>1 DEF HistoryTypes, Causes
    <3>3. HistoryTypes'
      BY <1>0, <3>1, <3>2, AccountAssumption DEF HistoryTypes
    <3> QED BY <1>0, <1>2, <3>3 DEF Register, DiskTypes
  <2>7. at[p] = "Out" /\ at' = [at EXCEPT ![p] = "Out"]
    BY <1>0, <1>2 DEF Register, Idle, ProcTypes
  <2>8. list' \in [Procs -> [Ids -> 0..MaxRegistrations]] /\ key' = key /\ rooms' = rooms
    BY <1>0, <1>2 DEF Register, ProcTypes, DiskTypes
  <2>9. ProcTypes' /\ Links'
    <3> HIDE DEF steps
    <3> QED BY <1>0, <2>4, <2>5, <2>7, <2>8, BeginKeeps DEF ProcTypes, Ops
  <2> QED BY <2>6, <2>9, IInvPartsNext
<1>3. CASE Delete(p, i, w)
  <2> DEFINE steps == <<OnDisk("rmdir"), OnDisk("read"), OnDisk("store")>>
  <2>1. Fit(steps, "delete", "Out") /\ steps # <<>>
    BY FitShort
  <2>2. at[p] = "Out" /\ at' = [at EXCEPT ![p] = "Out"] /\ Begin(p, i, "delete", steps)
    BY <1>0, <1>3 DEF Delete, Idle, ProcTypes
  <2>3. key' = key /\ rooms' = rooms /\ list' = list
    BY <1>3 DEF Delete
  <2>4. ProcTypes' /\ Links'
    <3> HIDE DEF steps
    <3> QED BY <1>0, <2>1, <2>2, <2>3, BeginKeeps DEF ProcTypes, Ops
  <2>5. DiskTypes' /\ HistoryTypes'
    BY <1>0, <1>3 DEF Delete, disk, history, DiskTypes, HistoryTypes
  <2> QED BY <2>4, <2>5, IInvPartsNext
<1>4. CASE Login(p, i, w)
  <2>1. <<w, users[i]>> \in Keys
    BY <1>0, AccountAssumption DEF DiskTypes, Keys
  <2>2. ProcTypes' /\ Links'
    BY <1>0, <1>4, <2>1, MoveKeeps DEF Login, Idle, ProcTypes, Stages
  <2>3. DiskTypes' /\ HistoryTypes'
    BY <1>0, <1>4 DEF Login, disk, history, DiskTypes, HistoryTypes
  <2> QED BY <2>2, <2>3, IInvPartsNext
<1> QED BY <1>1, <1>2, <1>3, <1>4 DEF Register
LEMMA StartingType ==
    ASSUME IInv, NEW p \in Procs, Starting(p) PROVE IInv'
<1>0. DiskTypes /\ ProcTypes /\ HistoryTypes /\ Links
  BY IInvParts
<1>1. at[p] # "Out"
  BY DEF Starting, Recover, AlreadyRunning, CheckPid, WritePid, Load, StartFails
<1>2. account[p] \in Ids /\ key[p] \in Keys
  BY <1>1, SessionKey
<1>3. /\ account = [account EXCEPT ![p] = account[p]]
      /\ key = [key EXCEPT ![p] = key[p]]
  BY <1>0 DEF ProcTypes
<1>4. todo[p] = <<>> \/ ~(at[p] \in {"Recover", "CheckPid", "WritePid", "Load"})
  BY <1>0 DEF Links, Linked
<1>5. CASE Recover(p)
  <2>1. ProcTypes' /\ Links'
    BY <1>0, <1>2, <1>3, <1>4, <1>5, MoveKeeps DEF Recover, ProcTypes, Stages
  <2>2. NoFile \in File
    BY DEF NoFile, File
  <2>3. DiskTypes' /\ HistoryTypes'
    BY <1>0, <1>2, <1>5, <2>2 DEF Recover, history, DiskTypes, HistoryTypes, Files
  <2> QED BY <2>1, <2>3, IInvPartsNext
<1>6. CASE AlreadyRunning(p)
  <2>1. DiskTypes' /\ HistoryTypes'
    BY <1>0, <1>6 DEF AlreadyRunning, disk, history, DiskTypes, HistoryTypes
  <2> QED BY <1>6, <2>1, GoneKeeps, IInvPartsNext DEF AlreadyRunning
<1>7. CASE CheckPid(p)
  <2>1. ProcTypes' /\ Links'
    BY <1>0, <1>2, <1>3, <1>4, <1>7, MoveKeeps DEF CheckPid, ProcTypes, Stages
  <2>2. spoilt' \in [Ids -> SUBSET Causes]
    BY <1>2, <1>7, SpoilKeeps DEF CheckPid, Causes
  <2>3. DiskTypes' /\ HistoryTypes'
    BY <1>0, <1>2, <1>7, <2>2 DEF CheckPid, DiskTypes, HistoryTypes
  <2> QED BY <2>1, <2>3, IInvPartsNext
<1>8. CASE WritePid(p)
  <2>1. ProcTypes' /\ Links'
    BY <1>0, <1>2, <1>3, <1>4, <1>8, MoveKeeps DEF WritePid, ProcTypes, Stages
  <2>2. DiskTypes' /\ HistoryTypes'
    BY <1>0, <1>2, <1>8 DEF WritePid, history, DiskTypes, HistoryTypes
  <2> QED BY <2>1, <2>2, IInvPartsNext
<1>9. CASE Load(p)
  <2>1. RoomsRead(p) \in SUBSET Rooms
    BY <1>0, <1>2 DEF RoomsRead, DiskTypes, File, Files
  <2>2. ProcTypes' /\ Links'
    BY <1>0, <1>2, <1>3, <1>4, <1>9, <2>1, MoveKeeps DEF Load, ProcTypes, Stages
  <2>3. spoilt' \in [Ids -> SUBSET Causes]
    BY <1>2, <1>9, SpoilKeeps DEF Load, Causes
  <2>4. DiskTypes' /\ HistoryTypes'
    BY <1>0, <1>9, <2>3 DEF Load, disk, DiskTypes, HistoryTypes
  <2> QED BY <2>2, <2>4, IInvPartsNext
<1>10. CASE StartFails(p)
  <2>1. DiskTypes' /\ HistoryTypes'
    BY <1>0, <1>2, <1>10 DEF StartFails, history, DiskTypes, HistoryTypes
  <2> QED BY <1>10, <2>1, GoneKeeps, IInvPartsNext DEF StartFails
<1> QED BY <1>5, <1>6, <1>7, <1>8, <1>9, <1>10 DEF Starting

LEMMA CommandType ==
    ASSUME IInv, NEW p \in Procs, Command(p) PROVE IInv'
<1>0. DiskTypes /\ ProcTypes /\ HistoryTypes /\ Links
  BY IInvParts
<1>1. at[p] = "In"
  BY DEF Command, ChangePassword, CreateRoom, DeleteRoom, SaveConfig, Quit, Idle
<1>2. account[p] \in Ids /\ key[p] \in Keys
  BY <1>1, SessionKey
<1>3. at = [at EXCEPT ![p] = "In"]
  BY <1>0, <1>1 DEF ProcTypes
<1>4. ASSUME NEW rs \in SUBSET Rooms, SaveRooms(p, rs),
             UNCHANGED <<disk, at, key, list>>, HistoryTypes'
      PROVE  IInv'
  <2>1. Fit(Save("rooms", key[p], rs), "rooms", "In") /\ Save("rooms", key[p], rs) # <<>>
    BY <1>2, FitSave DEF Files
  <2>2. ProcTypes' /\ Links'
    BY <1>0, <1>1, <1>2, <1>3, <1>4, <2>1, BeginKeeps DEF SaveRooms, ProcTypes, Ops
  <2>3. DiskTypes'
    BY <1>0, <1>4 DEF disk, DiskTypes
  <2> QED BY <1>4, <2>2, <2>3, IInvPartsNext
<1>5. ASSUME NEW old \in Passwords, NEW new \in Passwords, ChangePassword(p, old, new)
      PROVE  IInv'
  <2> DEFINE i == account[p]
             k == <<new, users[i]>>
  <2>1. k \in Keys
    BY <1>0, <1>2, AccountAssumption DEF DiskTypes, Keys
  <2>2. Fit(ChangedFiles(k), "change", "In") /\ ChangedFiles(k) # <<>>
    <3>1. /\ Fit(Save("identity", k, {}), "change", "In")
          /\ Save("identity", k, {}) # <<>>
          /\ Fit(Save("config", k, {}), "change", "In")
      <4> HIDE DEF k
      <4> QED BY <2>1, FitSave DEF Files
    <3> QED BY <3>1, FitConcat DEF ChangedFiles
  <2>3. Begin(p, i, "change", ChangedFiles(k)) /\ UNCHANGED <<disk, at, key, rooms, list, history>>
    BY <1>5 DEF ChangePassword
  <2>4. ProcTypes' /\ Links'
    <3> HIDE DEF k
    <3> QED BY <1>0, <1>1, <1>2, <1>3, <2>2, <2>3, BeginKeeps DEF ProcTypes, Ops
  <2>5. DiskTypes' /\ HistoryTypes'
    BY <1>0, <2>3 DEF disk, history, DiskTypes, HistoryTypes
  <2> QED BY <2>4, <2>5, IInvPartsNext
<1>6. ASSUME NEW r \in Rooms, CreateRoom(p, r)
      PROVE  IInv'
  <2>1. rooms[p] \cup {r} \in SUBSET Rooms
    BY <1>0 DEF ProcTypes
  <2>2. HistoryTypes'
    BY <1>0, <1>6 DEF CreateRoom, history, HistoryTypes
  <2> QED BY <1>4, <1>6, <2>1, <2>2 DEF CreateRoom
<1>7. ASSUME NEW r \in Rooms, DeleteRoom(p, r)
      PROVE  IInv'
  <2>1. rooms[p] \ {r} \in SUBSET Rooms
    BY <1>0 DEF ProcTypes
  <2>2. HistoryTypes'
    BY <1>0, <1>7 DEF DeleteRoom, HistoryTypes
  <2> QED BY <1>4, <1>7, <2>1, <2>2 DEF DeleteRoom
<1>8. CASE SaveConfig(p)
  <2> DEFINE i == account[p]
             saved == Save("config", key[p], {})
             listed == <<OnDisk("read"), OnDisk("store")>>
  <2>1. Fit(saved, "config", "In") /\ Fit(saved, "nickname", "In") /\ saved # <<>>
    BY <1>2, FitSave DEF Files
  <2>2. Fit(saved \o listed, "nickname", "In") /\ saved \o listed # <<>>
    <3>1. Fit(listed, "nickname", "In")
      BY FitShort
    <3> HIDE DEF saved, listed
    <3> QED BY <2>1, <3>1, FitConcat
  <2>3. Begin(p, i, "config", saved) \/ Begin(p, i, "nickname", saved \o listed)
    BY <1>8 DEF SaveConfig
  <2>4. UNCHANGED <<disk, at, key, rooms, list, registrations, password, dropped>>
    BY <1>8 DEF SaveConfig
  <2>5. ProcTypes' /\ Links'
    <3> HIDE DEF saved, listed
    <3>1. CASE Begin(p, i, "config", saved)
      BY <1>0, <1>1, <1>2, <1>3, <2>1, <2>4, <3>1, BeginKeeps DEF ProcTypes, Ops
    <3>2. CASE Begin(p, i, "nickname", saved \o listed)
      BY <1>0, <1>1, <1>2, <1>3, <2>2, <2>4, <3>2, BeginKeeps DEF ProcTypes, Ops
    <3> QED BY <2>3, <3>1, <3>2
  <2>6. spoilt' \in [Ids -> SUBSET Causes]
    BY <1>2, <1>8, SpoilKeeps DEF SaveConfig, Causes
  <2>7. DiskTypes' /\ HistoryTypes'
    BY <1>0, <2>4, <2>6 DEF disk, DiskTypes, HistoryTypes
  <2> QED BY <2>5, <2>7, IInvPartsNext
<1>9. CASE Quit(p)
  <2> DEFINE steps == Save("rooms", key[p], rooms[p])
  <2>1. Fit(steps, "rooms", "Leaving") /\ steps # <<>>
    <3>1. rooms[p] \in SUBSET Rooms
      BY <1>0 DEF ProcTypes
    <3> QED BY <1>2, <3>1, FitSave DEF Files
  <2>2. Begin(p, account[p], "rooms", steps) /\ at' = [at EXCEPT ![p] = "Leaving"]
    BY <1>9 DEF Quit
  <2>3. UNCHANGED <<users, dir, file, tmp, key, rooms, list, history>>
    BY <1>9 DEF Quit
  <2>4. ProcTypes' /\ Links'
    <3> HIDE DEF steps
    <3> QED BY <1>0, <1>1, <1>2, <2>1, <2>2, <2>3, BeginKeeps DEF ProcTypes, Ops
  <2>5. DiskTypes' /\ HistoryTypes'
    BY <1>0, <1>2, <1>9 DEF Quit, history, DiskTypes, HistoryTypes
  <2> QED BY <2>4, <2>5, IInvPartsNext
<1> QED BY <1>5, <1>6, <1>7, <1>8, <1>9 DEF Command
LEMMA WritingType ==
    ASSUME IInv, NEW p \in Procs, Writing(p) PROVE IInv'
<1> DEFINE i == account[p]
           w == Head(todo[p])
<1>0. DiskTypes /\ ProcTypes /\ HistoryTypes /\ Links
  BY IInvParts
<1>1. todo[p] # <<>>
  BY DEF Writing, WriteTmp, Rename, RemoveDir, ReadList, StoreList, Fail, Following
<1>2. i \in Ids /\ w \in Writes /\ Fits(w, op[p], at[p])
  BY <1>1, AtWork
<1>3. NoFile \in File
  BY DEF NoFile, File
<1>4. Advance(p) => ProcTypes' /\ Links'
  BY <1>1, AdvanceKeeps
<1>5. CASE WriteTmp(p)
  <2>1. [key |-> w.key, rooms |-> w.rooms] \in File /\ w.file \in Files
    BY <1>2 DEF Writes, File
  <2>2. DiskTypes' /\ HistoryTypes'
    BY <1>0, <1>2, <1>5, <2>1 DEF WriteTmp, history, DiskTypes, HistoryTypes
  <2> QED BY <1>4, <1>5, <2>2, IInvPartsNext DEF WriteTmp
<1>6. CASE Rename(p)
  <2>1. w.file \in Files
    BY <1>2 DEF Writes
  <2>2. DiskTypes'
    BY <1>0, <1>2, <1>3, <1>6, <2>1 DEF Rename, DiskTypes
  <2>3. op[p] = "change" => w.key[1] \in Passwords
    BY <1>2 DEF Fits, Keys
  <2>4. password' \in [Ids -> Passwords \cup {NoKey}]
    BY <1>0, <1>2, <1>6, <2>3 DEF Rename, HistoryTypes
  <2>5. HistoryTypes'
    BY <1>0, <1>6, <2>4 DEF Rename, HistoryTypes
  <2> QED BY <1>4, <1>6, <2>2, <2>5, IInvPartsNext DEF Rename
<1>7. CASE RemoveDir(p)
  <2>1. spoilt' \in [Ids -> SUBSET Causes]
    BY <1>2, <1>7, SpoilKeeps DEF RemoveDir, Causes
  <2>2. DiskTypes'
    BY <1>0, <1>2, <1>3, <1>7 DEF RemoveDir, DiskTypes
  <2>3. HistoryTypes'
    BY <1>0, <1>7, <2>1 DEF RemoveDir, HistoryTypes
  <2> QED BY <1>4, <1>7, <2>2, <2>3, IInvPartsNext DEF RemoveDir
<1>8. CASE ReadList(p)
  <2>1. DiskTypes' /\ HistoryTypes'
    BY <1>0, <1>8 DEF ReadList, disk, history, DiskTypes, HistoryTypes
  <2> QED BY <1>4, <1>8, <2>1, IInvPartsNext DEF ReadList
<1>9. CASE StoreList(p)
  <2>1. op[p] \in {"register", "delete", "nickname"}
    BY <1>2, <1>9 DEF StoreList, Following, Fits
  <2>2. op[p] = "register" => w.key[1] \in Passwords /\ w.key[2] \in 0..MaxRegistrations
    BY <1>2 DEF Fits
  <2>3. list[p] \in [Ids -> 0..MaxRegistrations] /\ 0 \in 0..MaxRegistrations
    BY <1>0, AccountAssumption DEF ProcTypes
  <2>4. Stored(p) \in [Ids -> 0..MaxRegistrations]
    BY <1>0, <1>2, <2>1, <2>2, <2>3 DEF Stored, DiskTypes
  <2>5. DiskTypes'
    BY <1>0, <1>9, <2>4 DEF StoreList, DiskTypes
  <2>6. password' \in [Ids -> Passwords \cup {NoKey}]
    BY <1>0, <1>2, <1>9, <2>2 DEF StoreList, HistoryTypes
  <2>7. spoilt' \in [Ids -> SUBSET Causes]
    BY <1>0, <1>9 DEF StoreList, HistoryTypes, Causes
  <2>8. HistoryTypes'
    BY <1>0, <1>9, <2>6, <2>7 DEF StoreList, HistoryTypes
  <2> QED BY <1>4, <1>9, <2>5, <2>8, IInvPartsNext DEF StoreList
<1>10. CASE Fail(p)
  <2>1. ProcTypes'
    BY <1>0, <1>2, <1>10, AccountAssumption
    DEF Fail, ProcTypes, AccountAfter, Unread, Ops
  <2>2. ASSUME NEW q \in Procs PROVE Linked(q)' /\ Fit(todo[q], op[q], at[q])'
    <3>1. CASE q # p
      BY <1>0, <1>10, <3>1 DEF Fail, Links, Linked, Idle, ProcTypes
    <3>2. CASE q = p
      BY <1>0, <1>1, <1>2, <1>10, <3>2, FitEmpty, AtWork, AccountAssumption
      DEF Fail, Links, Linked, Idle, ProcTypes, AccountAfter
    <3> QED BY <3>1, <3>2
  <2>3. spoilt' \in [Ids -> SUBSET Causes]
    BY <1>2, <1>10, SpoilKeeps DEF Fail, Causes
  <2>4. DiskTypes' /\ HistoryTypes'
    BY <1>0, <1>10, <2>3 DEF Fail, disk, DiskTypes, HistoryTypes
  <2> QED BY <2>1, <2>2, <2>4, IInvPartsNext DEF Links
<1> QED BY <1>5, <1>6, <1>7, <1>8, <1>9, <1>10 DEF Writing

LEMMA DieType ==
    ASSUME IInv, NEW p \in Procs, Die(p) PROVE IInv'
<1>0. DiskTypes /\ ProcTypes /\ HistoryTypes /\ Links
  BY IInvParts
<1>1. account[p] \in Ids
  BY SessionKey, AtWork DEF Die
<1>2. spoilt' \in [Ids -> SUBSET Causes]
  BY <1>1, SpoilKeeps DEF Die, Causes
<1>3. DiskTypes' /\ HistoryTypes'
  BY <1>0, <1>2 DEF Die, DiskTypes, HistoryTypes
<1> QED BY <1>3, GoneKeeps, IInvPartsNext DEF Die

LEMMA IInvInit == Init => IInv
<1> SUFFICES ASSUME Init PROVE IInv
  OBVIOUS
<1>1. NoFile \in File
  BY DEF NoFile, File
<1>2. DiskTypes
  BY <1>1, AccountAssumption DEF Init, DiskTypes
<1>3. ProcTypes
  BY AccountAssumption DEF Init, ProcTypes, Stages, Ops, Unread
<1>4. HistoryTypes
  BY AccountAssumption DEF Init, HistoryTypes
<1>5. Links
  BY FitEmpty, AccountAssumption DEF Init, Links, Linked, Idle
<1> QED BY <1>2, <1>3, <1>4, <1>5, IInvParts

LEMMA IInvStep == IInv /\ [Next]_vars => IInv'
<1> SUFFICES ASSUME IInv, [Next]_vars PROVE IInv'
  OBVIOUS
<1>1. CASE UNCHANGED vars
  BY <1>1 DEF vars, disk, session, work, history, IInv, TypeOK, Idle
<1>2. ASSUME NEW p \in Procs,
             BeforeLogin(p) \/ Starting(p) \/ Command(p) \/ Writing(p) \/ Die(p)
      PROVE  IInv'
  BY <1>2, BeforeLoginType, StartingType, CommandType, WritingType, DieType
<1> QED BY <1>1, <1>2 DEF Next

\* Type correctness: files, keys, steps left and processes.
THEOREM TypeCorrect == Spec => []TypeOK
<1>1. Spec => []IInv
  BY IInvInit, IInvStep, PTL DEF Spec
<1> QED BY <1>1, PTL DEF IInv

WritesFit == \A p \in Procs : Fit(todo[p], op[p], at[p])

\* Whatever interrupts an operation, the writes left of it are its own: those of a
\* registration and of a change of password carry keys, the list of users is stored only
\* by an operation that may store it, rooms.enc is written only by a save of rooms, and a
\* directory is removed only before a login.
THEOREM WritesAreOfTheOperation == Spec => []WritesFit
<1>1. Spec => []IInv
  BY IInvInit, IInvStep, PTL DEF Spec
<1>2. IInv => WritesFit
  BY DEF IInv, WritesFit
<1> QED BY <1>1, <1>2, PTL
-----------------------------------------------------------------------------
(* One session for an account *)

Raced(i) == "raced" \in spoilt[i]

\* Two processes between the check of the pid file and the end of a session, one of
\* which is still to write its pid, have raced.
StartsApart ==
    \A p, q \in Procs :
        /\ p # q /\ account[p] = account[q]
        /\ at[p] = "WritePid" /\ at[q] \in {"WritePid", "Load", "In"}
        => Raced(account[p])

SessionInv == SessionsHoldThePid /\ StartsApart

\* What concerns no process in a session or past the check.
LEMMA SessionKept ==
    ASSUME IInv, SessionInv, NEW p \in Procs,
           \A q \in Procs \ {p} : at'[q] = at[q] /\ account'[q] = account[q],
           at'[p] \in {"WritePid", "Load", "In"} => at'[p] = at[p] /\ account'[p] = account[p],
           \A q \in Procs : at'[q] \in {"WritePid", "Load", "In"} =>
               /\ Raced(account[q]) => Raced(account[q])'
               /\ pid[account[q]] = q =>
                    pid'[account[q]] = q \/ Raced(account[q])'
    PROVE  SessionInv'
BY DEF SessionInv, SessionsHoldThePid, StartsApart, Raced

LEMMA InSession ==
    ASSUME IInv, NEW p \in Procs, at[p] # "Out"
    PROVE  account[p] \in Ids
BY SessionKey

LEMMA SpoilGrows ==
    ASSUME IInv, NEW i, NEW c, NEW when, Spoil(i, c, when)
    PROVE  /\ \A j \in Ids : spoilt[j] \subseteq spoilt'[j]
           /\ i \in Ids /\ when => c \in spoilt'[i]
BY IInvParts DEF Spoil, HistoryTypes

LEMMA SessionStep == IInv /\ SessionInv /\ [Next]_vars => SessionInv'
<1> SUFFICES ASSUME IInv, SessionInv, [Next]_vars PROVE SessionInv'
  OBVIOUS
<1>0. DiskTypes /\ ProcTypes /\ HistoryTypes
  BY IInvParts
<1>1. CASE UNCHANGED vars
  BY <1>1 DEF vars, disk, session, work, history, SessionInv, SessionsHoldThePid,
     StartsApart, Raced
<1>2. ASSUME NEW p \in Procs, NEW i \in Ids, NEW w \in Passwords,
             Register(p, i, w) \/ Delete(p, i, w) \/ Login(p, i, w)
      PROVE  SessionInv'
  <2>1. at[p] = "Out" /\ pid' = pid
    BY <1>2 DEF Register, Delete, Login, Idle, disk
  <2>2. \A q \in Procs \ {p} : at'[q] = at[q] /\ account'[q] = account[q]
    BY <1>0, <1>2 DEF Register, Delete, Login, Begin, ProcTypes
  <2>3. at'[p] \in {"Out", "Recover"}
    BY <1>0, <1>2, <2>1 DEF Register, Delete, Login, ProcTypes
  <2>4. ASSUME NEW q \in Procs, at'[q] \in {"WritePid", "Load", "In"}, Raced(account[q])
        PROVE  Raced(account[q])'
    <3>1. q # p /\ at[q] # "Out"
      BY <2>2, <2>3, <2>4
    <3>2. account[q] \in Ids /\ account'[q] = account[q]
      BY <2>2, <3>1, InSession
    <3>3. CASE spoilt' = spoilt
      BY <2>4, <3>2, <3>3 DEF Raced
    <3>4. CASE spoilt' = [spoilt EXCEPT ![i] = IF Others(p, i) = {} THEN {} ELSE {"raced"}]
      BY <1>0, <2>4, <3>1, <3>2, <3>4 DEF Raced, Others, HistoryTypes
    <3> QED BY <1>2, <3>3, <3>4 DEF Register, Delete, Login, history
  <2> QED BY <2>1, <2>2, <2>3, <2>4, SessionKept
<1>3. ASSUME NEW p \in Procs, Recover(p) \/ AlreadyRunning(p) \/ Load(p)
      PROVE  SessionInv'
  <2>1. pid' = pid /\ at[p] # "Out"
    BY <1>3 DEF Recover, AlreadyRunning, Load, disk
  <2>2. \A q \in Procs \ {p} : at'[q] = at[q] /\ account'[q] = account[q]
    BY <1>0, <1>3 DEF Recover, AlreadyRunning, Load, Gone, ProcTypes
  <2>3. \A j \in Ids : spoilt[j] \subseteq spoilt'[j]
    BY <1>0, <1>3, SpoilGrows DEF Recover, AlreadyRunning, Load, history
  <2>4. CASE at'[p] \in {"CheckPid", "Out"}
    BY <2>1, <2>2, <2>3, <2>4, InSession, SessionKept DEF Raced
  <2>5. CASE Load(p)
    <3>1. at[p] = "Load" /\ at'[p] = "In" /\ account' = account
      BY <1>0, <2>5 DEF Load, ProcTypes
    <3>2. \A q \in Procs : at[q] # "Out" /\ Raced(account[q]) =>
             "raced" \in spoilt'[account[q]]
      BY <2>3, InSession DEF Raced
    <3>3. SessionsHoldThePid'
      BY <2>1, <2>2, <3>1, <3>2 DEF SessionInv, SessionsHoldThePid, Raced
    <3>4. StartsApart'
      BY <2>2, <3>1, <3>2 DEF SessionInv, StartsApart, Raced
    <3> QED BY <3>3, <3>4 DEF SessionInv
  <2> QED BY <1>0, <1>3, <2>4, <2>5 DEF Recover, AlreadyRunning, Gone, ProcTypes
<1>4. ASSUME NEW p \in Procs, CheckPid(p)
      PROVE  SessionInv'
  <2> DEFINE i == account[p]
  <2>1. /\ i \in Ids /\ account' = account /\ at' = [at EXCEPT ![p] = "WritePid"]
        /\ pid' = [pid EXCEPT ![i] = NoKey] /\ pid[i] \notin Procs
        /\ at[p] = "CheckPid"
    BY <1>4, InSession DEF CheckPid, Alive
  <2>2. /\ \A j \in Ids : spoilt[j] \subseteq spoilt'[j]
        /\ (\E q \in Others(p, i) : at[q] \in {"WritePid", "Leaving"}) => "raced" \in spoilt'[i]
    BY <1>4, <2>1, SpoilGrows DEF CheckPid
  <2>3. \A q \in Procs : at[q] # "Out" => account[q] \in Ids
    BY InSession
  <2>4. ASSUME NEW q \in Procs, q # p, account[q] = i, at[q] \in {"WritePid", "Load", "In"}
        PROVE  "raced" \in spoilt'[i]
    <3>1. CASE at[q] = "WritePid"
      BY <2>2, <2>4, <3>1 DEF Others
    <3>2. CASE at[q] \in {"Load", "In"}
      BY <2>1, <2>2, <2>4, <3>2 DEF SessionInv, SessionsHoldThePid
    <3> QED BY <2>4, <3>1, <3>2
  <2>5. SessionsHoldThePid'
    <3> SUFFICES ASSUME NEW q \in Procs, at'[q] \in {"Load", "In"}
                 PROVE  pid'[account[q]] = q \/ "raced" \in spoilt'[account[q]]
      BY <2>1 DEF SessionsHoldThePid
    <3>1. q # p /\ at[q] = at'[q]
      BY <1>0, <2>1 DEF ProcTypes
    <3> QED BY <1>0, <2>1, <2>2, <2>3, <2>4, <3>1
        DEF SessionInv, SessionsHoldThePid, DiskTypes
  <2>6. StartsApart'
    <3> SUFFICES ASSUME NEW q1 \in Procs, NEW q2 \in Procs,
                        q1 # q2, account[q1] = account[q2],
                        at'[q1] = "WritePid", at'[q2] \in {"WritePid", "Load", "In"}
                 PROVE  "raced" \in spoilt'[account[q1]]
      BY <2>1 DEF StartsApart, Raced
    <3>1. \A q \in Procs \ {p} : at'[q] = at[q]
      BY <1>0, <2>1 DEF ProcTypes
    <3>2. CASE q1 = p \/ q2 = p
      BY <2>4, <3>1, <3>2
    <3>3. CASE q1 # p /\ q2 # p
      BY <2>2, <2>3, <3>1, <3>3 DEF SessionInv, StartsApart, Raced
    <3> QED BY <3>2, <3>3
  <2> QED BY <2>5, <2>6 DEF SessionInv
<1>5. ASSUME NEW p \in Procs, WritePid(p)
      PROVE  SessionInv'
  <2> DEFINE i == account[p]
  <2>1. /\ i \in Ids /\ account' = account /\ at' = [at EXCEPT ![p] = "Load"]
        /\ pid' = [pid EXCEPT ![i] = p] /\ spoilt' = spoilt /\ at[p] = "WritePid"
    BY <1>5, InSession DEF WritePid, history
  <2>2. \A q \in Procs \ {p} : at[q] \in {"WritePid", "Load", "In"} /\ account[q] = i => Raced(i)
    BY <2>1 DEF SessionInv, StartsApart
  <2>3. \A q \in Procs : at[q] # "Out" => account[q] \in Ids
    BY InSession
  <2>4. SessionsHoldThePid'
    BY <1>0, <2>1, <2>2, <2>3
    DEF SessionInv, SessionsHoldThePid, Raced, DiskTypes, ProcTypes
  <2>5. StartsApart'
    BY <1>0, <2>1, <2>2 DEF SessionInv, StartsApart, Raced, ProcTypes
  <2> QED BY <2>4, <2>5 DEF SessionInv
<1>6. ASSUME NEW p \in Procs, StartFails(p) \/ Quit(p)
      PROVE  SessionInv'
  <2> DEFINE i == account[p]
  <2>1. /\ i \in Ids /\ at[p] \in {"Load", "In"} /\ pid' = [pid EXCEPT ![i] = NoKey]
        /\ spoilt' = spoilt /\ at'[p] \in {"Out", "Leaving"}
    BY <1>0, <1>6, InSession DEF StartFails, Quit, Idle, Gone, history, ProcTypes
  <2>2. \A q \in Procs \ {p} : at'[q] = at[q] /\ account'[q] = account[q]
    BY <1>0, <1>6 DEF StartFails, Quit, Gone, Begin, ProcTypes
  <2>3. pid[i] = p \/ Raced(i)
    BY <2>1 DEF SessionInv, SessionsHoldThePid, Raced
  <2> QED BY <1>0, <2>1, <2>2, <2>3, SessionKept, InSession DEF Raced, DiskTypes
<1>7. ASSUME NEW p \in Procs,
             \/ Writing(p) \/ SaveConfig(p)
             \/ \E old, new \in Passwords : ChangePassword(p, old, new)
             \/ \E r \in Rooms : CreateRoom(p, r) \/ DeleteRoom(p, r)
      PROVE  SessionInv'
  <2>1. at' = at
    BY <1>7 DEF Writing, WriteTmp, Rename, RemoveDir, ReadList, StoreList, Fail, Advance,
       SaveConfig, ChangePassword, CreateRoom, DeleteRoom
  <2>2. \A q \in Procs : at[q] # "Out" \/ q # p => account'[q] = account[q]
    BY <1>0, <1>7
    DEF Writing, WriteTmp, Rename, RemoveDir, ReadList, StoreList, Fail, Advance, AccountAfter,
        SaveConfig, ChangePassword, CreateRoom, DeleteRoom, SaveRooms, Begin, ProcTypes, Idle
  <2>3. \A j \in Ids : spoilt[j] \subseteq spoilt'[j]
    BY <1>0, <1>7, SpoilGrows
    DEF Writing, WriteTmp, Rename, RemoveDir, ReadList, StoreList, Fail, SaveConfig,
        ChangePassword, CreateRoom, DeleteRoom, history, HistoryTypes
  <2>4. ASSUME NEW q \in Procs, at[q] \in {"WritePid", "Load", "In"}, pid[account[q]] = q
        PROVE  pid'[account[q]] = q \/ Raced(account[q])'
    <3>1. CASE pid' = pid
      BY <2>4, <3>1
    <3>2. CASE RemoveDir(p)
      <4>1. at[p] = "Out"
        BY <3>2, AtWork DEF RemoveDir, Following, Fits
      <4>2. account[p] \in Ids /\ pid' = [pid EXCEPT ![account[p]] = NoKey]
        BY <3>2, AtWork DEF RemoveDir, Following
      <4>3. account[q] = account[p] => "raced" \in spoilt'[account[p]]
        BY <2>4, <3>2, <4>1, <4>2, SpoilGrows DEF RemoveDir, Others
      <4> QED BY <1>0, <2>2, <2>4, <4>2, <4>3 DEF Raced, DiskTypes
    <3> QED BY <1>7, <3>1, <3>2
        DEF Writing, WriteTmp, Rename, ReadList, StoreList, Fail, SaveConfig, ChangePassword,
            CreateRoom, DeleteRoom, disk
  <2> QED BY <2>1, <2>2, <2>3, <2>4, SessionKept, InSession DEF Raced
<1>8. ASSUME NEW p \in Procs, Die(p)
      PROVE  SessionInv'
  <2>1. /\ at'[p] = "Out" /\ pid' = [j \in Ids |-> IF pid[j] = p THEN Stale ELSE pid[j]]
        /\ \A q \in Procs \ {p} : at'[q] = at[q] /\ account'[q] = account[q]
    BY <1>0, <1>8 DEF Die, Gone, ProcTypes
  <2>2. \A j \in Ids : spoilt[j] \subseteq spoilt'[j]
    BY <1>8, SpoilGrows DEF Die
  <2> QED BY <2>1, <2>2, SessionKept, InSession DEF Raced
<1> QED BY <1>1, <1>2, <1>3, <1>4, <1>5, <1>6, <1>7, <1>8
    DEF Next, BeforeLogin, Starting, Command

\* A session owns the pid file of its account, whatever processes start, end and die,
\* unless starts overlapped or the account was deleted under it.
THEOREM SessionsAreRight == Spec => []SessionsHoldThePid
<1>1. Init => SessionInv
  BY DEF Init, SessionInv, SessionsHoldThePid, StartsApart
<1>2. Spec => []IInv
  BY IInvInit, IInvStep, PTL DEF Spec
<1>3. Spec => []SessionInv
  BY <1>1, <1>2, SessionStep, PTL DEF Spec
<1> QED BY <1>3, PTL DEF SessionInv

\* Two processes are in a session of one account only if they raced for it.
OneSession ==
    \A p, q \in Procs :
        p # q /\ at[p] = "In" /\ at[q] = "In" /\ account[p] = account[q] => Raced(account[p])

THEOREM OneSessionAtATime == Spec => []OneSession
<1>1. SessionsHoldThePid => OneSession
  BY DEF SessionsHoldThePid, OneSession, Raced
<1> QED BY <1>1, SessionsAreRight, PTL
-----------------------------------------------------------------------------
(* The rooms of an account survive every session, crash and failed write *)

Held == {"WritePid", "Load", "In", "Leaving"}
Lost(i) == spoilt[i] \cap {"raced", "unreadable"} # {}

\* Two processes past the check of one pid file have raced.
Apart ==
    \A p, q \in Procs :
        p # q /\ account[p] = account[q] /\ at[p] \in Held /\ at[q] \in Held
        => Raced(account[p])

\* A missing file holds no rooms.
NoRooms ==
    \A i \in Ids : /\ file[i]["rooms"].key = NoKey => file[i]["rooms"].rooms = {}
                   /\ tmp[i]["rooms"].key = NoKey => tmp[i]["rooms"].rooms = {}

\* Only a session saves rooms, and what it saves is what it has in memory; a
\* temporary file about to be renamed is the one it has written.
Saving ==
    \A p \in Procs : op[p] = "rooms" =>
        /\ at[p] \in {"In", "Leaving"}
        /\ \E k \in Keys :
             \/ todo[p] = Save("rooms", k, rooms[p])
             \/ /\ todo[p] = <<Write("rename", "rooms", k, rooms[p])>>
                /\ \/ tmp[account[p]]["rooms"].rooms = rooms[p]
                   \/ Raced(account[p])

\* A session has in memory every room of the file that no user has removed.
InMemory ==
    \A p \in Procs : at[p] \in {"In", "Leaving"} =>
        \/ Lost(account[p])
        \/ file[account[p]]["rooms"].rooms \subseteq rooms[p] \cup dropped

RoomsInv == Apart /\ NoRooms /\ Saving /\ InMemory

Step(p) == BeforeLogin(p) \/ Starting(p) \/ Command(p) \/ Writing(p) \/ Die(p)
-----------------------------------------------------------------------------
(* What a step leaves alone *)

\* A step of a process leaves the others alone.
LEMMA OthersAlone ==
    ASSUME IInv, NEW p \in Procs, Step(p), NEW q \in Procs, q # p
    PROVE  /\ at'[q] = at[q] /\ account'[q] = account[q] /\ rooms'[q] = rooms[q]
           /\ op'[q] = op[q] /\ todo'[q] = todo[q]
<1>0. ProcTypes
  BY IInvParts
<1>1. CASE BeforeLogin(p)
  BY <1>0, <1>1 DEF BeforeLogin, Register, Delete, Login, Begin, work, ProcTypes
<1>2. CASE Starting(p)
  BY <1>0, <1>2 DEF Starting, Recover, AlreadyRunning, CheckPid, WritePid, Load, StartFails,
     Gone, work, ProcTypes
<1>3. CASE Command(p)
  BY <1>0, <1>3 DEF Command, ChangePassword, CreateRoom, DeleteRoom, SaveRooms, SaveConfig, Quit,
     Begin, ProcTypes
<1>4. CASE Writing(p)
  BY <1>0, <1>4 DEF Writing, WriteTmp, Rename, RemoveDir, ReadList, StoreList, Fail, Advance,
     ProcTypes
<1>5. CASE Die(p)
  BY <1>0, <1>5 DEF Die, Gone, ProcTypes
<1> QED BY <1>1, <1>2, <1>3, <1>4, <1>5 DEF Step

\* What has gone wrong with the account of a session is not forgotten.
LEMMA NotForgotten ==
    ASSUME IInv, NEW p \in Procs, Step(p), NEW q \in Procs, at[q] # "Out"
    PROVE  /\ account[q] \in Ids
           /\ Raced(account[q]) => "raced" \in spoilt'[account[q]]
           /\ Lost(account[q]) => spoilt'[account[q]] \cap {"raced", "unreadable"} # {}
<1>0. ProcTypes /\ HistoryTypes
  BY IInvParts
<1>1. account[q] \in Ids
  BY InSession
<1>2. CASE \A j \in Ids : spoilt[j] \subseteq spoilt'[j]
  BY <1>1, <1>2 DEF Raced, Lost
<1>3. CASE \E i \in Ids, w \in Passwords : Register(p, i, w)
  <2> PICK i \in Ids, w \in Passwords : Register(p, i, w)
    BY <1>3
  <2>1. at[p] = "Out"
    BY DEF Register, Idle
  <2>2. CASE spoilt' = spoilt
    BY <1>1, <2>2 DEF Raced, Lost
  <2>3. CASE spoilt' = [spoilt EXCEPT ![i] = IF Others(p, i) = {} THEN {} ELSE {"raced"}]
    BY <1>0, <1>1, <2>1, <2>3 DEF Raced, Lost, Others, HistoryTypes
  <2> QED BY <2>2, <2>3 DEF Register
<1>4. CASE Command(p)
  BY <1>0, <1>2, <1>4, SpoilGrows
  DEF Command, ChangePassword, CreateRoom, DeleteRoom, SaveConfig, Quit, history
<1>5. CASE Starting(p)
  BY <1>0, <1>2, <1>5, SpoilGrows
  DEF Starting, Recover, AlreadyRunning, CheckPid, WritePid, Load, StartFails, history
<1>6. CASE Writing(p)
  BY <1>0, <1>2, <1>6, SpoilGrows
  DEF Writing, WriteTmp, Rename, RemoveDir, ReadList, StoreList, Fail, history, HistoryTypes
<1>7. CASE Die(p)
  BY <1>2, <1>7, SpoilGrows DEF Die
<1>8. CASE BeforeLogin(p)
  BY <1>2, <1>3, <1>8 DEF BeforeLogin, Delete, Login, history
<1> QED BY <1>4, <1>5, <1>6, <1>7, <1>8 DEF Step

LEMMA DroppedGrows ==
    ASSUME NEW p \in Procs, Step(p) PROVE dropped \subseteq dropped'
BY DEF Step, BeforeLogin, Register, Delete, Login, Starting, Recover, AlreadyRunning, CheckPid,
   WritePid, Load, StartFails, Command, ChangePassword, CreateRoom, DeleteRoom, SaveConfig, Quit,
   Writing, WriteTmp, Rename, RemoveDir, ReadList, StoreList, Fail, Die, history

\* Only a save of the rooms touches rooms.enc and its temporary file, or the removal
\* of the directory.
LEMMA FilesAlone ==
    ASSUME IInv, Saving, NEW p \in Procs, Step(p), NEW i \in Ids
    PROVE  \/ file'[i]["rooms"] = file[i]["rooms"] /\ tmp'[i]["rooms"] = tmp[i]["rooms"]
           \/ /\ RemoveDir(p) /\ i = account[p]
              /\ file'[i]["rooms"] = NoFile /\ tmp'[i]["rooms"] = NoFile
           \/ /\ op[p] = "rooms" /\ i = account[p]
              /\ WriteTmp(p) \/ Rename(p)
<1>0. DiskTypes /\ ProcTypes
  BY IInvParts
<1>1. CASE WriteTmp(p) \/ Rename(p)
  <2>1. account[p] \in Ids /\ Head(todo[p]) \in Writes /\ todo[p] \in Seq(Writes)
        /\ todo[p] # <<>>
    BY <1>0, <1>1, AtWork DEF WriteTmp, Rename, Following, ProcTypes
  <2>2. CASE op[p] = "rooms" /\ i = account[p]
    BY <1>1, <2>2
  <2>3. CASE op[p] # "rooms" \/ i # account[p]
    <3>1. op[p] # "rooms" => Head(todo[p]).file # "rooms"
      BY <2>1, AtWork DEF Fits
    <3>2. Head(todo[p]).file \in Files
      BY <2>1 DEF Writes
    <3> QED BY <1>0, <1>1, <2>1, <2>3, <3>1, <3>2 DEF WriteTmp, Rename, DiskTypes, Files
  <2> QED BY <2>2, <2>3
<1>2. CASE RemoveDir(p)
  <2>1. account[p] \in Ids
    BY <1>2, AtWork DEF RemoveDir, Following
  <2> QED BY <1>0, <1>2, <2>1 DEF RemoveDir, DiskTypes, Files
<1>3. CASE Recover(p)
  BY <1>0, <1>3 DEF Recover, DiskTypes, Files
<1>4. CASE file' = file /\ tmp' = tmp
  BY <1>4
<1> QED BY <1>1, <1>2, <1>3, <1>4
    DEF Step, BeforeLogin, Register, Delete, Login, Starting, AlreadyRunning, CheckPid,
        WritePid, Load, StartFails, Command, ChangePassword, CreateRoom, DeleteRoom, SaveConfig,
        Quit, Writing, ReadList, StoreList, Fail, Die, disk
-----------------------------------------------------------------------------
(* The parts of the invariant, one lemma for each *)

LEMMA ApartStep ==
    ASSUME IInv, SessionInv, Apart, NEW p \in Procs, Step(p) PROVE Apart'
<1>0. ProcTypes
  BY IInvParts
<1>1. ASSUME at'[p] \in Held
      PROVE  CheckPid(p) \/ (at[p] \in Held /\ account'[p] = account[p])
  <2>1. CASE BeforeLogin(p)
    BY <1>0, <1>1, <2>1 DEF BeforeLogin, Register, Delete, Login, Idle, ProcTypes, Held
  <2>2. CASE Starting(p)
    BY <1>0, <1>1, <2>2 DEF Starting, Recover, AlreadyRunning, WritePid, Load, StartFails, Gone,
       ProcTypes, Held
  <2>3. CASE Command(p)
    BY <1>0, <1>1, <2>3 DEF Command, ChangePassword, CreateRoom, DeleteRoom, SaveRooms,
       SaveConfig, Quit, Begin, Idle, ProcTypes, Held
  <2>4. CASE Writing(p)
    BY <1>0, <1>1, <2>4 DEF Writing, WriteTmp, Rename, RemoveDir, ReadList, StoreList, Fail,
       Advance, AccountAfter, ProcTypes, Held
  <2>5. CASE Die(p)
    BY <1>0, <1>1, <2>5 DEF Die, Gone, ProcTypes, Held
  <2> QED BY <2>1, <2>2, <2>3, <2>4, <2>5 DEF Step
<1>2. CheckPid(p) => /\ account'[p] = account[p] /\ account[p] \in Ids
                     /\ pid[account[p]] \notin Procs
  BY InSession DEF CheckPid, Alive
<1>3. ASSUME CheckPid(p), NEW q \in Procs, q # p, account[q] = account[p], at[q] \in Held
      PROVE  "raced" \in spoilt'[account[p]]
  <2>1. CASE at[q] \in {"WritePid", "Leaving"}
    BY <1>2, <1>3, <2>1, SpoilGrows DEF CheckPid, Others
  <2>2. CASE at[q] \in {"Load", "In"}
    BY <1>2, <1>3, <2>2, SpoilGrows DEF CheckPid, SessionInv, SessionsHoldThePid
  <2> QED BY <1>3, <2>1, <2>2 DEF Held
<1>4. \A q \in Procs : at[q] \in Held => at[q] # "Out"
  BY DEF Held
<1> SUFFICES ASSUME NEW q1 \in Procs, NEW q2 \in Procs, q1 # q2, account'[q1] = account'[q2],
                    at'[q1] \in Held, at'[q2] \in Held
             PROVE  "raced" \in spoilt'[account'[q1]]
  BY DEF Apart, Raced
<1>5. CASE q1 # p /\ q2 # p
  BY <1>4, <1>5, OthersAlone, NotForgotten DEF Apart, Raced
<1>6. CASE q1 = p
  BY <1>1, <1>2, <1>3, <1>4, <1>6, OthersAlone, NotForgotten DEF Apart, Raced
<1>7. CASE q2 = p
  BY <1>1, <1>2, <1>3, <1>4, <1>7, OthersAlone, NotForgotten DEF Apart, Raced
<1> QED BY <1>5, <1>6, <1>7

\* What a save of the rooms does, step by step.
LEMMA SaveSteps ==
    ASSUME IInv, Saving, NEW p \in Procs, op[p] = "rooms"
    PROVE  \E k \in Keys :
        \/ /\ todo[p] = Save("rooms", k, rooms[p])
           /\ Head(todo[p]) = Write("tmp", "rooms", k, rooms[p])
           /\ Tail(todo[p]) = <<Write("rename", "rooms", k, rooms[p])>>
           /\ Len(todo[p]) = 2
        \/ /\ todo[p] = <<Write("rename", "rooms", k, rooms[p])>>
           /\ Head(todo[p]) = Write("rename", "rooms", k, rooms[p])
           /\ Tail(todo[p]) = <<>>
           /\ Len(todo[p]) = 1
           /\ tmp[account[p]]["rooms"].rooms = rooms[p] \/ Raced(account[p])
<1>1. PICK k \in Keys :
        \/ todo[p] = Save("rooms", k, rooms[p])
        \/ /\ todo[p] = <<Write("rename", "rooms", k, rooms[p])>>
           /\ \/ tmp[account[p]]["rooms"].rooms = rooms[p]
              \/ Raced(account[p])
  BY DEF Saving
<1>2. CASE todo[p] = Save("rooms", k, rooms[p])
  BY <1>2 DEF Save
<1>3. CASE todo[p] = <<Write("rename", "rooms", k, rooms[p])>>
  <2>1. Save("rooms", k, rooms[p]) # todo[p]
    BY <1>3 DEF Save
  <2> QED BY <1>1, <1>3, <2>1
<1> QED BY <1>1, <1>2, <1>3

LEMMA NoRoomsStep ==
    ASSUME IInv, Saving, NoRooms, NEW p \in Procs, Step(p) PROVE NoRooms'
<1>0. DiskTypes /\ ProcTypes
  BY IInvParts
<1> SUFFICES ASSUME NEW i \in Ids
             PROVE  /\ file'[i]["rooms"].key = NoKey => file'[i]["rooms"].rooms = {}
                    /\ tmp'[i]["rooms"].key = NoKey => tmp'[i]["rooms"].rooms = {}
  BY DEF NoRooms
<1>1. CASE file'[i]["rooms"] = file[i]["rooms"] /\ tmp'[i]["rooms"] = tmp[i]["rooms"]
  BY <1>1 DEF NoRooms
<1>2. CASE file'[i]["rooms"] = NoFile /\ tmp'[i]["rooms"] = NoFile
  BY <1>2 DEF NoFile
<1>3. CASE op[p] = "rooms" /\ i = account[p] /\ (WriteTmp(p) \/ Rename(p))
  <2> PICK k \in Keys :
        \/ Head(todo[p]) = Write("tmp", "rooms", k, rooms[p])
        \/ Head(todo[p]) = Write("rename", "rooms", k, rooms[p])
    BY <1>3, SaveSteps
  <2>1. k # NoKey
    BY AccountAssumption DEF Keys
  <2>2. CASE WriteTmp(p)
    BY <1>0, <1>3, <2>1, <2>2 DEF WriteTmp, Following, Write, NoRooms, DiskTypes, Files
  <2>3. CASE Rename(p)
    <3>1. /\ file' = [file EXCEPT ![i]["rooms"] = tmp[i]["rooms"]]
          /\ tmp' = [tmp EXCEPT ![i]["rooms"] = NoFile]
      <4>1. Head(todo[p]).file = "rooms"
        BY DEF Write
      <4> QED BY <1>3, <2>3, <4>1 DEF Rename
    <3> QED BY <1>0, <3>1 DEF NoRooms, NoFile, DiskTypes, Files
  <2> QED BY <1>3, <2>2, <2>3
<1> QED BY <1>1, <1>2, <1>3, FilesAlone
LEMMA SavingStep ==
    ASSUME IInv, Saving, Apart, NEW p \in Procs, Step(p) PROVE Saving'
<1>0. ProcTypes /\ DiskTypes /\ Links
  BY IInvParts
<1> DEFINE Renaming(q) ==
        \/ tmp[account[q]]["rooms"].rooms = rooms[q]
        \/ Raced(account[q])
           Good(q) ==
        /\ at[q] \in {"In", "Leaving"}
        /\ \E k \in Keys :
             \/ todo[q] = Save("rooms", k, rooms[q])
             \/ /\ todo[q] = <<Write("rename", "rooms", k, rooms[q])>>
                /\ Renaming(q)
<1> SUFFICES ASSUME NEW q \in Procs, op'[q] = "rooms" PROVE Good(q)'
  BY DEF Saving
<1>1. CASE q # p
  <2>1. /\ at'[q] = at[q] /\ account'[q] = account[q] /\ rooms'[q] = rooms[q]
        /\ op[q] = "rooms" /\ todo'[q] = todo[q]
    BY <1>1, OthersAlone
  <2>2. at[q] \in {"In", "Leaving"}
    BY <2>1 DEF Saving
  <2>3. account[q] \in Ids /\ (Raced(account[q]) => "raced" \in spoilt'[account[q]])
    BY <2>2, NotForgotten
  <2>4. \/ tmp'[account[q]]["rooms"] = tmp[account[q]]["rooms"]
        \/ "raced" \in spoilt'[account[q]]
    <3>1. CASE RemoveDir(p) /\ account[q] = account[p]
      BY <1>1, <2>3, <3>1, SpoilGrows DEF RemoveDir, Others
    <3>2. CASE op[p] = "rooms" /\ account[q] = account[p]
      <4>1. at[p] \in {"In", "Leaving"}
        BY <3>2 DEF Saving
      <4> QED BY <1>1, <2>2, <2>3, <3>2, <4>1 DEF Apart, Held
    <3> QED BY <2>3, <3>1, <3>2, FilesAlone
  <2> QED BY <2>1, <2>2, <2>3, <2>4 DEF Saving, Raced
<1>2. ASSUME NEW rs, SaveRooms(p, rs), at[p] = "In", at' = at, key' = key
      PROVE  Good(p)'
  BY <1>0, <1>2, SessionKey DEF SaveRooms, Begin, ProcTypes
<1>3. CASE /\ q = p /\ op[p] = "rooms"
           /\ WriteTmp(p) \/ Rename(p) \/ RemoveDir(p) \/ ReadList(p) \/ StoreList(p)
  <2>1. PICK k \in Keys :
          /\ Head(todo[p]) = Write("tmp", "rooms", k, rooms[p])
          /\ Tail(todo[p]) = <<Write("rename", "rooms", k, rooms[p])>>
          /\ Len(todo[p]) = 2
    <3>1. op'[p] = IF Len(todo[p]) = 1 THEN "none" ELSE op[p]
      BY <1>0, <1>3 DEF WriteTmp, Rename, RemoveDir, ReadList, StoreList, Advance, ProcTypes
    <3> QED BY <1>3, <3>1, SaveSteps
  <2>2. at[p] \in {"In", "Leaving"} /\ account[p] \in Ids
    BY <1>3, InSession DEF Saving
  <2>3. /\ todo'[p] = <<Write("rename", "rooms", k, rooms[p])>>
        /\ at' = at /\ account'[p] = account[p] /\ rooms' = rooms
    BY <1>0, <1>3, <2>1
    DEF WriteTmp, Rename, RemoveDir, ReadList, StoreList, Advance, ProcTypes
  <2>4. Head(todo[p]).do = "tmp" /\ Head(todo[p]).file = "rooms"
        /\ Head(todo[p]).rooms = rooms[p]
    BY <2>1 DEF Write
  <2>5. CASE WriteTmp(p)
    <3>1. tmp' = [tmp EXCEPT ![account[p]]["rooms"] =
                    [key |-> Head(todo[p]).key, rooms |-> rooms[p]]]
      BY <2>4, <2>5 DEF WriteTmp
    <3>2. tmp'[account[p]]["rooms"].rooms = rooms[p]
      BY <1>0, <2>2, <3>1 DEF DiskTypes, Files
    <3> QED BY <1>3, <2>2, <2>3, <3>2
  <2> QED BY <1>3, <2>4, <2>5 DEF Rename, RemoveDir, ReadList, StoreList, Following
<1>4. CASE q = p /\ Command(p)
  <2>1. CASE Quit(p)
    BY <1>0, <1>4, <2>1, SessionKey DEF Quit, Begin, Idle, ProcTypes
  <2>2. CASE \E r \in Rooms : CreateRoom(p, r) \/ DeleteRoom(p, r)
    BY <1>2, <1>4, <2>2 DEF CreateRoom, DeleteRoom, Idle
  <2>3. CASE SaveConfig(p) \/ \E old, new \in Passwords : ChangePassword(p, old, new)
    BY <1>0, <1>4, <2>3 DEF SaveConfig, ChangePassword, Begin, ProcTypes
  <2> QED BY <1>4, <2>1, <2>2, <2>3 DEF Command
<1>5. CASE q = p /\ (BeforeLogin(p) \/ Starting(p) \/ Fail(p) \/ Die(p))
  <2>1. op[p] = "rooms" => at[p] \in {"In", "Leaving"}
    BY DEF Saving
  <2>2. op'[p] # "rooms"
    BY <1>0, <1>5, <2>1
    DEF BeforeLogin, Register, Delete, Login, Begin, Idle, Starting, Recover, AlreadyRunning,
        CheckPid, WritePid, Load, StartFails, Gone, Fail, Die, work, ProcTypes
  <2> QED BY <1>5, <2>2
<1>6. CASE q = p /\ op[p] # "rooms" /\ Writing(p)
  BY <1>0, <1>6
  DEF Writing, WriteTmp, Rename, RemoveDir, ReadList, StoreList, Fail, Advance, ProcTypes
<1> QED BY <1>1, <1>3, <1>4, <1>5, <1>6 DEF Step, Writing
\* A save of the rooms that ends puts in rooms.enc what the session has in memory.
LEMMA RenameSaves ==
    ASSUME IInv, Saving, NEW p \in Procs, op[p] = "rooms", Rename(p)
    PROVE  /\ account[p] \in Ids
           /\ \/ file'[account[p]]["rooms"].rooms = rooms[p]
              \/ Raced(account[p])
<1>0. DiskTypes
  BY IInvParts
<1>1. account[p] \in Ids
  BY AtWork DEF Rename, Following
<1>2. /\ Head(todo[p]).file = "rooms"
      /\ tmp[account[p]]["rooms"].rooms = rooms[p] \/ Raced(account[p])
  <2>1. Head(todo[p]).do = "rename"
    BY DEF Rename, Following
  <2>2. PICK k \in Keys :
          \/ Head(todo[p]) = Write("tmp", "rooms", k, rooms[p])
          \/ /\ Head(todo[p]) = Write("rename", "rooms", k, rooms[p])
             /\ tmp[account[p]]["rooms"].rooms = rooms[p] \/ Raced(account[p])
    BY SaveSteps
  <2> QED BY <2>1, <2>2 DEF Write
<1>3. file' = [file EXCEPT ![account[p]]["rooms"] = tmp[account[p]]["rooms"]]
  BY <1>2 DEF Rename
<1> QED BY <1>0, <1>1, <1>2, <1>3 DEF DiskTypes, Files

LEMMA InMemoryStep ==
    ASSUME IInv, RoomsInv, NEW p \in Procs, Step(p) PROVE InMemory'
<1>0. ProcTypes /\ DiskTypes /\ HistoryTypes
  BY IInvParts
<1> SUFFICES ASSUME NEW q \in Procs, at'[q] \in {"In", "Leaving"}
             PROVE  \/ spoilt'[account'[q]] \cap {"raced", "unreadable"} # {}
                    \/ file'[account'[q]]["rooms"].rooms \subseteq rooms'[q] \cup dropped'
  BY DEF InMemory, Lost
<1>1. CASE q # p
  <2>1. at'[q] = at[q] /\ account'[q] = account[q] /\ rooms'[q] = rooms[q]
    BY <1>1, OthersAlone
  <2>2. /\ account[q] \in Ids
        /\ Raced(account[q]) => "raced" \in spoilt'[account[q]]
        /\ Lost(account[q]) => spoilt'[account[q]] \cap {"raced", "unreadable"} # {}
    BY <2>1, NotForgotten
  <2>3. CASE file'[account[q]]["rooms"] \in {file[account[q]]["rooms"], NoFile}
    BY <2>1, <2>2, <2>3, DroppedGrows DEF RoomsInv, InMemory, NoFile
  <2>4. CASE op[p] = "rooms" /\ account[q] = account[p]
    BY <1>1, <2>1, <2>2, <2>4 DEF RoomsInv, Saving, Apart, Held
  <2> QED BY <2>2, <2>3, <2>4, FilesAlone DEF RoomsInv
<1>2. CASE q = p /\ Load(p)
  <2> DEFINE i == account[p]
             f == file[i]["rooms"]
  <2>1. i \in Ids /\ account' = account /\ file' = file
    BY <1>2, SessionKey DEF Load, disk
  <2>2. rooms'[p] = IF f.key = key[p] THEN f.rooms ELSE {}
    BY <1>0, <1>2 DEF Load, RoomsRead, ProcTypes
  <2>3. f.key \notin {NoKey, key[p]} => "unreadable" \in spoilt'[i]
    BY <1>2, <2>1, SpoilGrows DEF Load
  <2>4. f.key = NoKey => f.rooms = {}
    BY <2>1 DEF RoomsInv, NoRooms
  <2> QED BY <1>2, <2>1, <2>2, <2>3, <2>4
<1>3. CASE q = p /\ Command(p)
  <2>1. at[p] = "In" /\ account'[p] = account[p] /\ file' = file
    BY <1>0, <1>3 DEF Command, ChangePassword, CreateRoom, DeleteRoom, SaveRooms, SaveConfig, Quit,
       Begin, Idle, disk, ProcTypes
  <2>2. rooms[p] \subseteq rooms'[p] \cup dropped'
    BY <1>0, <1>3 DEF Command, ChangePassword, CreateRoom, DeleteRoom, SaveRooms, SaveConfig, Quit,
       ProcTypes
  <2> QED BY <1>3, <2>1, <2>2, NotForgotten, DroppedGrows DEF RoomsInv, InMemory
<1>4. CASE q = p /\ Writing(p)
  <2>1. at' = at /\ rooms' = rooms
    BY <1>4 DEF Writing, WriteTmp, Rename, RemoveDir, ReadList, StoreList, Fail, Advance
  <2>2. at[p] \in {"In", "Leaving"} /\ account'[p] = account[p]
    BY <1>0, <1>4, <2>1 DEF Writing, WriteTmp, Rename, RemoveDir, ReadList, StoreList, Fail,
       Advance, AccountAfter, ProcTypes
  <2>3. /\ account[p] \in Ids
        /\ Raced(account[p]) => "raced" \in spoilt'[account[p]]
        /\ Lost(account[p]) => spoilt'[account[p]] \cap {"raced", "unreadable"} # {}
    BY <2>2, NotForgotten
  <2>4. CASE file'[account[p]]["rooms"] \in {file[account[p]]["rooms"], NoFile}
    BY <1>4, <2>1, <2>2, <2>3, <2>4, DroppedGrows DEF RoomsInv, InMemory, NoFile
  <2>5. CASE op[p] = "rooms" /\ Rename(p)
    BY <1>4, <2>1, <2>2, <2>3, <2>5, RenameSaves DEF RoomsInv
  <2>6. WriteTmp(p) => file' = file
    BY DEF WriteTmp
  <2> QED BY <2>3, <2>4, <2>5, <2>6, FilesAlone DEF RoomsInv
<1>5. CASE q = p /\ (BeforeLogin(p) \/ Die(p) \/ (Starting(p) /\ ~Load(p)))
  <2>1. at'[p] \notin {"In", "Leaving"}
    BY <1>0, <1>5
    DEF BeforeLogin, Register, Delete, Login, Idle, Starting, Recover, AlreadyRunning, CheckPid,
        WritePid, StartFails, Gone, Die, ProcTypes
  <2> QED BY <1>5, <2>1
<1> QED BY <1>1, <1>2, <1>3, <1>4, <1>5 DEF Step

-----------------------------------------------------------------------------
LEMMA RoomsInvInit == Init => RoomsInv
BY DEF Init, RoomsInv, Apart, NoRooms, Saving, InMemory, Held, NoFile, Files

LEMMA RoomsInvStep == IInv /\ SessionInv /\ RoomsInv /\ [Next]_vars => RoomsInv'
<1> SUFFICES ASSUME IInv, SessionInv, RoomsInv, [Next]_vars PROVE RoomsInv'
  OBVIOUS
<1>1. CASE UNCHANGED vars
  BY <1>1 DEF vars, disk, session, work, history, RoomsInv, Apart, NoRooms, Saving, InMemory,
     Raced, Lost
<1>2. ASSUME NEW p \in Procs, Step(p) PROVE RoomsInv'
  BY <1>2, ApartStep, NoRoomsStep, SavingStep, InMemoryStep DEF RoomsInv
<1> QED BY <1>1, <1>2 DEF Next, Step

\* A room leaves rooms.enc only when its user removed it, its account goes, processes
\* raced for the account, or a session could not decrypt the file: no crash, failed
\* write or order of sessions loses one.
THEOREM RoomsAreKept == Spec => RoomsKept
<1> DEFINE Keeps == \A i \in Ids : \A r \in file[i]["rooms"].rooms :
                       \/ r \in file'[i]["rooms"].rooms
                       \/ r \in dropped
                       \/ ~dir'[i]
                       \/ spoilt[i] \cap {"raced", "unreadable"} # {}
<1>1. ASSUME IInv, RoomsInv, [Next]_vars PROVE [Keeps]_vars
  <2> SUFFICES ASSUME NEW p \in Procs, Step(p), NEW i \in Ids, NEW r \in file[i]["rooms"].rooms
               PROVE  \/ r \in file'[i]["rooms"].rooms
                      \/ r \in dropped
                      \/ ~dir'[i]
                      \/ Lost(i)
    BY <1>1 DEF Next, Step, Lost
  <2>1. CASE RemoveDir(p) /\ i = account[p]
    BY <1>1, <2>1, IInvParts DEF RemoveDir, DiskTypes
  <2>2. CASE op[p] = "rooms" /\ i = account[p] /\ Rename(p)
    <3>1. at[p] \in {"In", "Leaving"}
      BY <1>1, <2>2 DEF RoomsInv, Saving
    <3>2. Lost(i) \/ file[i]["rooms"].rooms \subseteq rooms[p] \cup dropped
      BY <1>1, <2>2, <3>1 DEF RoomsInv, InMemory
    <3>3. file'[i]["rooms"].rooms = rooms[p] \/ Lost(i)
      BY <1>1, <2>2, RenameSaves DEF RoomsInv, Raced, Lost
    <3> QED BY <3>2, <3>3
  <2>3. WriteTmp(p) => file' = file
    BY DEF WriteTmp
  <2> QED BY <1>1, <2>1, <2>2, <2>3, FilesAlone DEF RoomsInv
<1>2. Init => SessionInv
  BY DEF Init, SessionInv, SessionsHoldThePid, StartsApart
<1>3. Spec => [](IInv /\ SessionInv /\ RoomsInv)
  BY <1>2, IInvInit, IInvStep, SessionStep, RoomsInvInit, RoomsInvStep, PTL DEF Spec
<1>4. Spec => [][Keeps]_vars
  BY <1>1, <1>3, PTL DEF Spec
<1> QED BY <1>4 DEF RoomsKept
=============================================================================
