------------------------------ MODULE Seeding ------------------------------
(***************************************************************************)
(* What a client seeds, and the token bucket that limits its uploads       *)
(* (transfer/seeding.rs, ChunkRequest in app/core.rs, the setting          *)
(* max_upload_kbps in account/config.rs).                                  *)
(*                                                                         *)
(* The limiter reads the clock of the system, which runs, and which is set *)
(* forward and back; it never sees time pass otherwise.  Its arithmetic is *)
(* that of 64-bit words which saturate.                                    *)
(***************************************************************************)
EXTENDS Integers, Sequences

CONSTANTS
    Files,
    Rooms,
    NoRoom,
    Limits,     \* values of max_upload_kbps; 0 is no limit
    Kilo,       \* 1024: bytes in a unit of the setting
    ChunkSize,  \* 262144: bytes asked of the limiter for any chunk
    Second,     \* 1000: milliseconds, the unit of the clock, in a second
    MaxWord,    \* 2^64 - 1
    MaxClock    \* bound: the last value of the clock

\* A limit is a 32-bit number, so a second of it is far from the largest word.
ASSUME SeedingAssumption ==
    /\ NoRoom \notin Rooms
    /\ Limits \subseteq Nat /\ 0 \in Limits
    /\ Kilo \in Nat \ {0} /\ ChunkSize \in Nat \ {0} /\ Second \in Nat \ {0}
    /\ MaxWord \in Nat /\ MaxClock \in Nat
    /\ \A k \in Limits : Second * (k * Kilo) <= MaxWord

VARIABLES
    stored,     \* max_upload_kbps in config.enc
    config,     \* max_upload_kbps in memory
    room,       \* active_room
    entries,    \* SeedingManager.entries
    rate,       \* bytes_per_sec
    tokens,
    refilled,   \* last_refill_ms
    clock,      \* now_ms()
    asked,      \* files of which a chunk request waits for AppCore
    outcome,    \* what was made of the last request
    sent,       \* history: bytes granted since the present limit was set
    since       \* history: the clock when it was set

limiter == <<rate, tokens, refilled>>
history == <<sent, since>>
vars == <<stored, config, room, entries, limiter, clock, asked, outcome, history>>

\* The first session of a new account (Config::default_for).
Init ==
    /\ stored = 0 /\ config = 0
    /\ room = NoRoom
    /\ entries = <<>>
    /\ clock \in 0 .. MaxClock
    /\ rate = 0 /\ tokens = 0 /\ refilled = clock
    /\ asked = {}
    /\ outcome = "none"
    /\ sent = 0 /\ since = clock
-----------------------------------------------------------------------------
(* The limiter *)

Least(a, b) == IF a <= b THEN a ELSE b
WrappingMul(a, b) == (a * b) % (MaxWord + 1)        \* mutant
SaturatingMul(a, b) == Least(a * b, MaxWord)
SaturatingAdd(a, b) == Least(a + b, MaxWord)
SaturatingSub(a, b) == IF a >= b THEN a - b ELSE 0

\* UploadRateLimiter::new: a bucket that is full.
NewLimiter(bytes) ==
    /\ rate' = bytes /\ tokens' = bytes /\ refilled' = clock
    /\ sent' = 0 /\ since' = clock

Elapsed == SaturatingSub(clock, refilled)

\* The tokens after a refill: those of the time passed, up to those of one second.
UncappedRefill(elapsed) ==                          \* mutant: no upper limit
    SaturatingAdd(tokens, SaturatingMul(rate, elapsed) \div Second)
Refill(elapsed) ==
    Least(SaturatingAdd(tokens, SaturatingMul(rate, elapsed) \div Second), rate)

\* try_consume of the bytes of a chunk, the last and shorter one of a file included.
\* A clock set back counts as no time until it has caught up.
ConsumeOftenRefilled(granted) ==                    \* mutant: the same time counted again
    /\ rate' = rate /\ since' = since /\ refilled' = refilled
    /\ granted <=> Refill(Elapsed) >= ChunkSize
    /\ tokens' = IF granted THEN Refill(Elapsed) - ChunkSize ELSE Refill(Elapsed)
    /\ sent' = IF granted THEN sent + ChunkSize ELSE sent
ConsumeMore(granted) ==                             \* mutant: one token too many wanted
    /\ rate' = rate /\ since' = since
    /\ refilled' = IF Elapsed = 0 THEN refilled ELSE clock
    /\ granted <=> Refill(Elapsed) > ChunkSize
    /\ tokens' = IF granted THEN Refill(Elapsed) - ChunkSize ELSE Refill(Elapsed)
    /\ sent' = IF granted THEN sent + ChunkSize ELSE sent
Consume(granted) ==
    /\ rate' = rate /\ since' = since
    /\ refilled' = IF Elapsed = 0 THEN refilled ELSE clock
    /\ granted <=> Refill(Elapsed) >= ChunkSize
    /\ tokens' = IF granted THEN Refill(Elapsed) - ChunkSize ELSE Refill(Elapsed)
    /\ sent' = IF granted THEN sent + ChunkSize ELSE sent

TryConsume(granted) ==
    IF rate = 0 THEN granted /\ UNCHANGED <<limiter, history>> ELSE Consume(granted)
-----------------------------------------------------------------------------
(* Commands of the user *)

\* UpdateConfigField: the limit is in force at once, whether or not it is saved.
SetLimit(k) ==
    /\ config' = k
    /\ NewLimiter(k * Kilo)
    /\ stored' \in {k, stored}
    /\ UNCHANGED <<room, entries, clock, asked, outcome>>

\* Any other setting, or the nickname, is saved together with this one.
SaveConfig ==
    /\ stored' = config
    /\ UNCHANGED <<config, room, entries, limiter, clock, asked, outcome, history>>

UserStep == UNCHANGED <<stored, config, limiter, clock, asked, outcome, history>>

Seeded(f) == \E k \in DOMAIN entries : entries[k].file = f
Active(f) == \E k \in DOMAIN entries : entries[k] = [file |-> f, status |-> "Active"]

Add(f) == IF Seeded(f) THEN entries ELSE Append(entries, [file |-> f, status |-> "Active"])

\* share_file: a file seeded already keeps its status.
ShareFile(f) ==
    /\ room # NoRoom
    /\ entries' = Add(f)
    /\ UNCHANGED room
    /\ UserStep

\* The number 0 stands for the first entry, as 1 does.
Position(number) == IF number = 0 THEN 1 ELSE number
Numbers == 0 .. Len(entries) + 1

Change(number, from, to) ==
    /\ Position(number) \in DOMAIN entries
    /\ entries[Position(number)].status \in from
    /\ entries' = [entries EXCEPT ![Position(number)].status = to]
    /\ UNCHANGED room
    /\ UserStep

SeedPause(number)  == Change(number, {"Active", "AutoPaused"}, "ManualPaused")
SeedResume(number) == Change(number, {"AutoPaused", "ManualPaused"}, "Active")

RemoveSeed(number) ==
    /\ Position(number) \in DOMAIN entries
    /\ entries' = [k \in 1 .. Len(entries) - 1 |->
                      IF k < Position(number) THEN entries[k] ELSE entries[k + 1]]
    /\ UNCHANGED room
    /\ UserStep

\* auto_pause_all, auto_resume_on_rejoin
Turned(from, to) ==
    [k \in DOMAIN entries |->
        IF entries[k].status = from THEN [entries[k] EXCEPT !.status = to] ELSE entries[k]]

LeaveRoom ==
    /\ room # NoRoom
    /\ room' = NoRoom
    /\ entries' = Turned("Active", "AutoPaused")
    /\ UserStep

\* A room left on the way pauses what entering resumes; a room that cannot be
\* entered has been left for, which is LeaveRoom.
JoinRoom(r) ==
    /\ room' = r
    /\ entries' = Turned("AutoPaused", "Active")
    /\ UserStep
-----------------------------------------------------------------------------
(* Requests of peers *)

ChunkRequested(f) ==
    /\ f \notin asked
    /\ asked' = asked \cup {f}
    /\ UNCHANGED <<stored, config, room, entries, limiter, clock, outcome, history>>

Answer(f, what) ==
    /\ asked' = asked \ {f}
    /\ outcome' = what
    /\ UNCHANGED <<stored, config, room, entries, clock>>

MayServe(f) == room # NoRoom /\ Active(f)

\* Outside any room, or for a file that is not seeded now: no answer.
RequestIgnored(f) ==
    /\ f \in asked /\ ~MayServe(f)
    /\ Answer(f, "ignored")
    /\ UNCHANGED <<limiter, history>>

\* Over the limit: no answer either.
RequestRefused(f) ==
    /\ f \in asked /\ MayServe(f)
    /\ TryConsume(FALSE)
    /\ Answer(f, "refused")

\* The chunk is read and sent, or cannot be read; its tokens are gone.
RequestGranted(f) ==
    /\ f \in asked /\ MayServe(f)
    /\ TryConsume(TRUE)
    /\ \E what \in {"served", "unread"} : Answer(f, what)
-----------------------------------------------------------------------------
\* The clock runs, or is set.
ClockMoves ==
    /\ clock' \in 0 .. MaxClock
    /\ UNCHANGED <<stored, config, room, entries, limiter, asked, outcome, history>>

\* The process ends and starts again: SeedingManager::new seeds nothing and limits
\* nothing.
Restart ==
    /\ config' = stored
    /\ room' = NoRoom
    /\ entries' = <<>>
    /\ NewLimiter(0)
    /\ asked' = {}
    /\ outcome' = "none"
    /\ UNCHANGED <<stored, clock>>

UserCommand ==
    \/ \E k \in Limits : SetLimit(k)
    \/ SaveConfig
    \/ \E f \in Files : ShareFile(f)
    \/ \E n \in Numbers : SeedPause(n)
    \/ \E n \in Numbers : SeedResume(n)
    \/ \E n \in Numbers : RemoveSeed(n)
    \/ LeaveRoom
    \/ \E r \in Rooms : JoinRoom(r)

Request ==
    \E f \in Files :
        \/ ChunkRequested(f)
        \/ RequestIgnored(f)
        \/ RequestRefused(f)
        \/ RequestGranted(f)

Next == UserCommand \/ Request \/ ClockMoves \/ Restart

Spec == Init /\ [][Next]_vars
-----------------------------------------------------------------------------
(* Properties *)

\* Every variable keeps its type, and the bucket never holds more than a second.
TypeOK ==
    /\ stored \in Limits /\ config \in Limits
    /\ room \in Rooms \cup {NoRoom}
    /\ entries \in Seq([file : Files, status : {"Active", "AutoPaused", "ManualPaused"}])
    /\ rate \in {k * Kilo : k \in Limits}
    /\ tokens \in 0 .. rate
    /\ refilled \in 0 .. MaxClock
    /\ clock \in 0 .. MaxClock
    /\ asked \subseteq Files
    /\ outcome \in {"none", "served", "unread", "refused", "ignored"}
    /\ sent \in Nat
    /\ since \in 0 .. MaxClock

\* However the requests come and the clock is set, forward or back and as often as
\* may be, no more is granted than a full bucket and what the limit allows for the
\* time between the setting of the limit and the latest clock a refill has seen.
WithinLimit == Second * sent <= rate * (Second + (refilled - since))

\* Saturation never changes what a refill makes: whatever the clock has jumped to,
\* the bucket holds what exact arithmetic gives (saturating_mul is before min).
RefillIsExact ==
    \A elapsed \in 0 .. MaxClock :
        Refill(elapsed) = Least(tokens + (rate * elapsed) \div Second, rate)

\* A file is seeded by one entry, so a number pauses or removes all of what is
\* served of it (can_serve looks for any entry, local_path for the first).
SeedOnce == \A j, k \in DOMAIN entries : entries[j].file = entries[k].file => j = k

\* Waiting helps: with a second on the clock since the last refill, a request is not
\* refused (try_consume: the caller is to wait and try again), if the limit is that of
\* a chunk a second at least.
WaitHelps ==
    [][\A f \in asked :
          f \notin asked' /\ outcome' = "refused"
          => clock < refilled + Second \/ rate < ChunkSize]_vars
=============================================================================
