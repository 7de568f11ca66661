--------------------------- MODULE SeedingProofs ---------------------------
(***************************************************************************)
(* Theorems about Seeding, for every set of limits and files, any size of  *)
(* a chunk, any unit of the clock and any words that hold a second of the  *)
(* highest limit.                                                          *)
(***************************************************************************)
EXTENDS Seeding, SequenceTheorems, TLAPS

-----------------------------------------------------------------------------
(* Arithmetic *)

Statuses == {"Active", "AutoPaused", "ManualPaused"}
Entries  == [file : Files, status : Statuses]
Rates    == {k * Kilo : k \in Limits}

LEMMA ProductIsNat == \A a, b \in Nat : a * b \in Nat
OBVIOUS

LEMMA DivisionBounds ==
    ASSUME NEW n \in Nat, NEW d \in Nat \ {0}
    PROVE  n \div d \in Nat /\ d * (n \div d) <= n /\ n < d * (n \div d) + d
OBVIOUS

\* What is at least d times r, divided by d, is at least r.
LEMMA DivisionReaches ==
    ASSUME NEW n \in Nat, NEW d \in Nat \ {0}, NEW r \in Nat, d * r <= n
    PROVE  r <= n \div d
<1> DEFINE q == n \div d
<1>1. q \in Nat /\ n < d * q + d
  BY DivisionBounds
<1>2. SUFFICES ASSUME q + 1 <= r PROVE FALSE
  BY <1>1
<1>3. d * (q + 1) <= d * r
  BY <1>1, <1>2
<1>4. d * (q + 1) = d * q + d
  BY <1>1
<1> QED BY <1>1, <1>3, <1>4, ProductIsNat

LEMMA MoreTimes ==
    ASSUME NEW r \in Nat, NEW a \in Nat, NEW b \in Nat, a <= b
    PROVE  r * a <= r * b
OBVIOUS

LEMMA Distributes ==
    ASSUME NEW r \in Nat, NEW a \in Nat, NEW b \in Nat
    PROVE  r * (a + b) = r * a + r * b
OBVIOUS

\* A rate is a number of bytes of which a second fits a word, and so does the rate.
LEMMA RateFits ==
    ASSUME NEW r \in Rates
    PROVE  r \in Nat /\ Second * r \in Nat /\ Second * r <= MaxWord /\ r <= MaxWord
<1>1. PICK k \in Limits : r = k * Kilo
  BY DEF Rates
<1>2. r \in Nat /\ Second * r <= MaxWord
  BY <1>1, SeedingAssumption, ProductIsNat
<1>3. Second * r = r + (Second - 1) * r
  BY <1>2, SeedingAssumption
<1>4. (Second - 1) * r \in Nat /\ Second * r \in Nat
  BY <1>2, SeedingAssumption, ProductIsNat
<1> QED BY <1>2, <1>3, <1>4, SeedingAssumption
-----------------------------------------------------------------------------
(* The bucket *)

\* What the words make of a refill is what the numbers make of it.
LEMMA RefillExactly ==
    ASSUME rate \in Rates, tokens \in 0 .. rate, NEW e \in Nat
    PROVE  Refill(e) = Least(tokens + (rate * e) \div Second, rate)
<1> DEFINE P == rate * e
           q == P \div Second
           w == SaturatingMul(rate, e) \div Second
<1>1. rate \in Nat /\ tokens \in Nat /\ tokens <= rate /\ rate <= MaxWord
      /\ Second * rate <= MaxWord /\ Second \in Nat \ {0} /\ MaxWord \in Nat
  BY RateFits, SeedingAssumption
<1>2. P \in Nat /\ q \in Nat
  BY <1>1, ProductIsNat, DivisionBounds
<1>3. w \in Nat /\ (w = q \/ (rate <= w /\ rate <= q))
  <2>1. CASE P <= MaxWord
    <3>1. SaturatingMul(rate, e) = P
      BY <2>1 DEF SaturatingMul, Least
    <3> QED BY <3>1, <1>2
  <2>2. CASE MaxWord < P
    <3>1. SaturatingMul(rate, e) = MaxWord
      BY <2>2, <1>1, <1>2 DEF SaturatingMul, Least
    <3>2. rate <= MaxWord \div Second /\ MaxWord \div Second \in Nat
      BY <1>1, DivisionReaches, DivisionBounds
    <3>3. rate <= q
      <4>1. Second * rate <= P
        BY <2>2, <1>1, <1>2, RateFits
      <4> QED BY <4>1, <1>1, <1>2, DivisionReaches
    <3> QED BY <3>1, <3>2, <3>3
  <2> QED BY <2>1, <2>2, <1>1, <1>2
<1> HIDE DEF q, w
<1>4. Least(Least(tokens + w, MaxWord), rate) = Least(tokens + q, rate)
  BY <1>1, <1>2, <1>3 DEF Least
<1>5. Refill(e) = Least(Least(tokens + w, MaxWord), rate)
  BY DEF Refill, SaturatingAdd, w
<1> QED BY <1>4, <1>5 DEF q

\* A refill stays within the bucket, makes no more than the time allows, nothing of
\* no time, and fills the bucket in a second.
LEMMA RefillBounds ==
    ASSUME rate \in Rates, tokens \in 0 .. rate, NEW e \in Nat
    PROVE  /\ Refill(e) \in 0 .. rate
           /\ Second * Refill(e) <= Second * tokens + rate * e
           /\ e = 0 => Refill(e) = tokens
           /\ Second <= e => Refill(e) = rate
<1> DEFINE q == (rate * e) \div Second
<1>1. rate \in Nat /\ tokens \in Nat /\ tokens <= rate /\ Second \in Nat \ {0}
  BY RateFits, SeedingAssumption
<1>2. rate * e \in Nat /\ q \in Nat /\ Second * q <= rate * e
  BY <1>1, ProductIsNat, DivisionBounds
<1>3. Refill(e) = Least(tokens + q, rate)
  BY RefillExactly
<1>4. e = 0 => q = 0
  BY <1>1
<1>5. Second <= e => rate <= q
  <2>1. HAVE Second <= e
  <2>2. rate * Second <= rate * e
    BY <2>1, <1>1, MoreTimes
  <2>3. Second * rate = rate * Second
    BY <1>1
  <2> QED BY <2>2, <2>3, <1>1, <1>2, DivisionReaches
<1>6. Refill(e) \in 0 .. rate /\ Refill(e) <= tokens + q
  BY <1>1, <1>2, <1>3 DEF Least
<1>7. Second * Refill(e) <= Second * (tokens + q)
  BY <1>1, <1>2, <1>6, MoreTimes
<1>8. Second * (tokens + q) = Second * tokens + Second * q
  BY <1>1, <1>2, Distributes
<1>9. Second * tokens \in Nat /\ Second * q \in Nat /\ Second * Refill(e) \in Nat
  BY <1>1, <1>2, <1>6, ProductIsNat
<1> HIDE DEF q
<1>10. Second * Refill(e) <= Second * tokens + rate * e
  BY <1>2, <1>7, <1>8, <1>9
<1> QED BY <1>1, <1>2, <1>3, <1>4, <1>5, <1>6, <1>10 DEF Least
-----------------------------------------------------------------------------
(* Types *)

\* A change of some entries leaves a list of entries.
LEMMA ListOf ==
    ASSUME NEW n \in Nat, NEW s, s = [k \in 1 .. n |-> s[k]],
           \A k \in 1 .. n : s[k] \in Entries
    PROVE  s \in Seq(Entries)
OBVIOUS

LEMMA ElapsedIsNat ==
    ASSUME clock \in Nat, refilled \in Nat
    PROVE  Elapsed \in Nat
BY DEF Elapsed, SaturatingSub

\* What a handler may do with the limiter: set a limit, refill it and take a chunk
\* or none, or leave it.
LEMMA NewLimiterType ==
    ASSUME TypeOK, NEW k \in Limits, NewLimiter(k * Kilo)
    PROVE  /\ rate' \in Rates /\ tokens' \in 0 .. rate' /\ refilled' \in 0 .. MaxClock
           /\ sent' \in Nat /\ since' \in 0 .. MaxClock
BY SeedingAssumption, ProductIsNat DEF TypeOK, NewLimiter, Rates

LEMMA TryConsumeType ==
    ASSUME TypeOK, NEW granted \in BOOLEAN, TryConsume(granted)
    PROVE  /\ rate' \in Rates /\ tokens' \in 0 .. rate' /\ refilled' \in 0 .. MaxClock
           /\ sent' \in Nat /\ since' \in 0 .. MaxClock
<1>1. rate \in Rates /\ tokens \in 0 .. rate /\ rate \in Nat /\ ChunkSize \in Nat
  BY RateFits, SeedingAssumption DEF TypeOK, Rates
<1>2. Elapsed \in Nat
  BY ElapsedIsNat, SeedingAssumption DEF TypeOK
<1>3. Refill(Elapsed) \in 0 .. rate
  BY <1>1, <1>2, RefillBounds
<1>4. CASE rate = 0
  BY <1>1, <1>4 DEF TryConsume, TypeOK, limiter, history
<1>5. CASE rate # 0
  BY <1>1, <1>3, <1>5 DEF TryConsume, Consume, TypeOK
<1> QED BY <1>4, <1>5
LEMMA EntryIn ==
    ASSUME entries \in Seq(Entries), NEW k \in DOMAIN entries
    PROVE  entries[k] \in Entries
OBVIOUS

LEMMA TurnedType ==
    ASSUME entries \in Seq(Entries), NEW from, NEW to \in Statuses
    PROVE  Turned(from, to) \in Seq(Entries)
<1>1. \A k \in DOMAIN entries : [entries[k] EXCEPT !.status = to] \in Entries
  BY EntryIn DEF Entries
<1> QED BY <1>1, EntryIn DEF Turned

LEMMA ChangeType ==
    ASSUME entries \in Seq(Entries), NEW n \in Numbers, NEW from, NEW to \in Statuses,
           Change(n, from, to)
    PROVE  entries' \in Seq(Entries)
<1>1. Position(n) \in DOMAIN entries
      /\ entries' = [entries EXCEPT ![Position(n)].status = to]
  BY DEF Change
<1>2. [entries[Position(n)] EXCEPT !.status = to] \in Entries
  BY <1>1, EntryIn DEF Entries
<1> QED BY <1>1, <1>2

LEMMA RemoveType ==
    ASSUME entries \in Seq(Entries), NEW n \in Numbers, RemoveSeed(n)
    PROVE  entries' \in Seq(Entries)
<1> DEFINE p == Position(n)
<1>1. p \in 1 .. Len(entries) /\ Len(entries) \in Nat
      /\ entries' = [k \in 1 .. Len(entries) - 1 |->
                        IF k < p THEN entries[k] ELSE entries[k + 1]]
  BY DEF RemoveSeed
<1>2. Len(entries) - 1 \in Nat
  BY <1>1
<1>3. \A k \in 1 .. Len(entries) - 1 :
         (IF k < p THEN entries[k] ELSE entries[k + 1]) \in Entries
  BY <1>1, EntryIn
<1> QED BY <1>1, <1>2, <1>3

\* Every reachable state is type-correct; the bucket holds no more than a second.
THEOREM TypeCorrect == Spec => []TypeOK
<1>1. Init => TypeOK
  <2>1. SUFFICES ASSUME Init PROVE TypeOK
    OBVIOUS
  <2>2. 0 \in Rates
    BY SeedingAssumption DEF Rates
  <2> QED BY <2>1, <2>2, SeedingAssumption DEF Init, TypeOK, Rates
<1>2. TypeOK /\ [Next]_vars => TypeOK'
  <2> SUFFICES ASSUME TypeOK, [Next]_vars PROVE TypeOK'
    OBVIOUS
  <2>1. entries \in Seq(Entries)
    BY DEF TypeOK, Entries, Statuses
  <2>2. ASSUME NEW k \in Limits, SetLimit(k) PROVE TypeOK'
    <3>1. NewLimiter(k * Kilo)
      BY <2>2 DEF SetLimit
    <3> QED BY <2>2, <3>1, NewLimiterType DEF SetLimit, TypeOK, Rates
  <2>3. CASE SaveConfig
    BY <2>3 DEF SaveConfig, TypeOK, limiter, history
  <2>4. ASSUME UserStep, entries' \in Seq(Entries), room' \in Rooms \cup {NoRoom}
        PROVE  TypeOK'
    BY <2>4 DEF UserStep, TypeOK, limiter, history, Entries, Statuses
  <2>5. ASSUME NEW f \in Files, ShareFile(f) PROVE TypeOK'
    <3>1. [file |-> f, status |-> "Active"] \in Entries
      BY DEF Entries, Statuses
    <3>2. Add(f) \in Seq(Entries)
      BY <2>1, <3>1 DEF Add
    <3> QED BY <2>4, <2>5, <3>2 DEF ShareFile, TypeOK
  <2>6. ASSUME NEW n \in Numbers, SeedPause(n) \/ SeedResume(n) PROVE TypeOK'
    <3>1. CASE SeedPause(n)
      <4>1. entries' \in Seq(Entries)
        BY <2>1, <3>1, ChangeType DEF SeedPause, Statuses
      <4> QED BY <2>4, <3>1, <4>1 DEF SeedPause, Change, TypeOK
    <3>2. CASE SeedResume(n)
      <4>1. entries' \in Seq(Entries)
        BY <2>1, <3>2, ChangeType DEF SeedResume, Statuses
      <4> QED BY <2>4, <3>2, <4>1 DEF SeedResume, Change, TypeOK
    <3> QED BY <2>6, <3>1, <3>2
  <2>7. ASSUME NEW n \in Numbers, RemoveSeed(n) PROVE TypeOK'
    <3>1. entries' \in Seq(Entries)
      BY <2>1, <2>7, RemoveType
    <3> QED BY <2>4, <2>7, <3>1 DEF RemoveSeed, TypeOK
  <2>8. CASE LeaveRoom
    <3>1. entries' \in Seq(Entries)
      BY <2>1, <2>8, TurnedType DEF LeaveRoom, Statuses
    <3> QED BY <2>4, <2>8, <3>1 DEF LeaveRoom
  <2>9. ASSUME NEW r \in Rooms, JoinRoom(r) PROVE TypeOK'
    <3>1. entries' \in Seq(Entries)
      BY <2>1, <2>9, TurnedType DEF JoinRoom, Statuses
    <3> QED BY <2>4, <2>9, <3>1 DEF JoinRoom
  <2>10. ASSUME NEW f \in Files, ChunkRequested(f) PROVE TypeOK'
    BY <2>10 DEF ChunkRequested, TypeOK, limiter, history
  <2>11. ASSUME NEW f \in Files, RequestIgnored(f) PROVE TypeOK'
    BY <2>11 DEF RequestIgnored, Answer, TypeOK, limiter, history
  <2>12. ASSUME NEW f \in Files, NEW granted \in BOOLEAN, TryConsume(granted),
                NEW what \in {"served", "unread", "refused"}, Answer(f, what)
         PROVE  TypeOK'
    BY <2>12, TryConsumeType DEF Answer, TypeOK, Rates
  <2>13. ASSUME NEW f \in Files, RequestRefused(f) \/ RequestGranted(f) PROVE TypeOK'
    BY <2>12, <2>13 DEF RequestRefused, RequestGranted
  <2>14. CASE ClockMoves
    BY <2>14 DEF ClockMoves, TypeOK, limiter, history
  <2>15. CASE Restart
    <3>1. NewLimiter(0 * Kilo)
      BY <2>15, SeedingAssumption DEF Restart
    <3> QED BY <2>15, <3>1, NewLimiterType, SeedingAssumption DEF Restart, TypeOK, Rates
  <2>16. CASE UNCHANGED vars
    BY <2>16 DEF vars, TypeOK, limiter, history
  <2> QED BY <2>2, <2>3, <2>5, <2>6, <2>7, <2>8, <2>9, <2>10, <2>11, <2>13, <2>14, <2>15, <2>16
          DEF Next, UserCommand, Request
<1> QED BY <1>1, <1>2, PTL DEF Spec
-----------------------------------------------------------------------------
(* The limit *)

\* All that a step does with the limiter.
LEMMA LimiterMoves ==
    ASSUME [Next]_vars
    PROVE  \/ \E k \in Limits : NewLimiter(k * Kilo)
           \/ \E granted \in BOOLEAN : TryConsume(granted)
           \/ UNCHANGED <<limiter, history>>
<1>1. CASE UserCommand
  BY <1>1 DEF UserCommand, SetLimit, SaveConfig, ShareFile, SeedPause, SeedResume, Change,
              RemoveSeed, LeaveRoom, JoinRoom, UserStep
<1>2. CASE Request
  BY <1>2 DEF Request, ChunkRequested, RequestIgnored, RequestRefused, RequestGranted
<1>3. CASE ClockMoves
  BY <1>3 DEF ClockMoves
<1>4. CASE Restart
  <2>1. NewLimiter(0 * Kilo)
    BY <1>4, SeedingAssumption DEF Restart
  <2> QED BY <2>1, SeedingAssumption
<1>5. CASE UNCHANGED vars
  BY <1>5 DEF vars
<1> QED BY <1>1, <1>2, <1>3, <1>4, <1>5 DEF Next

\* What has been granted and what may be granted at once are within the limit together.
LimitInv ==
    /\ since <= refilled
    /\ rate = 0 => sent = 0
    /\ Second * (sent + tokens) <= rate * (Second + (refilled - since))

LEMMA NewLimiterKeeps ==
    ASSUME TypeOK, NEW k \in Limits, NewLimiter(k * Kilo)
    PROVE  LimitInv'
<1> DEFINE r == k * Kilo
<1>1. rate' = r /\ sent' = 0 /\ tokens' = r /\ refilled' = clock /\ since' = clock
  BY DEF NewLimiter
<1>2. r \in Nat /\ clock \in Nat /\ Second \in Nat
  <2>1. k \in Nat /\ Kilo \in Nat /\ Second \in Nat
    BY SeedingAssumption
  <2>2. k * Kilo \in Nat
    BY <2>1, ProductIsNat, Zenon
  <2>3. clock \in Nat
    BY SeedingAssumption DEF TypeOK
  <2> QED BY <2>1, <2>2, <2>3
<1> HIDE DEF r
<1>3. sent' + tokens' = rate' /\ Second + (refilled' - since') = Second
      /\ Second * rate' = rate' * Second /\ Second * rate' \in Nat
  BY <1>1, <1>2
<1>4. Second * (sent' + tokens') <= rate' * (Second + (refilled' - since'))
  BY <1>3
<1>5. since' <= refilled' /\ (rate' = 0 => sent' = 0)
  BY <1>1, <1>2
<1> QED BY <1>4, <1>5 DEF LimitInv

\* The tokens taken are those granted, and the tokens made are of time that is
\* counted once.
LEMMA ConsumeKeeps ==
    ASSUME TypeOK, LimitInv, NEW granted \in BOOLEAN, Consume(granted)
    PROVE  LimitInv'
<1> DEFINE e == Elapsed
           t == Refill(e)
           d == refilled - since
<1>1. /\ rate \in Rates /\ rate \in Nat /\ tokens \in 0 .. rate /\ sent \in Nat
      /\ clock \in Nat /\ refilled \in Nat /\ since \in Nat /\ since <= refilled
      /\ Second \in Nat \ {0} /\ ChunkSize \in Nat \ {0} /\ d \in Nat
  BY RateFits, SeedingAssumption DEF TypeOK, Rates, LimitInv
<1>2. e \in Nat /\ refilled' = refilled + e /\ since' = since /\ rate' = rate
  BY <1>1 DEF Consume, Elapsed, SaturatingSub
<1>3. t \in 0 .. rate /\ Second * t <= Second * tokens + rate * e
  BY <1>1, <1>2, RefillBounds
<1>4. sent' \in Nat /\ tokens' \in Nat /\ sent' + tokens' = sent + t /\ (rate = 0 => sent' = sent)
  BY <1>1, <1>3 DEF Consume
<1> HIDE DEF e, t
<1>5. Second * (sent + t) <= rate * (Second + (d + e))
  <2>1. Second * (sent + t) = Second * sent + Second * t
    BY <1>1, <1>3, Distributes
  <2>2. Second * (sent + tokens) = Second * sent + Second * tokens
    BY <1>1, Distributes
  <2>3. rate * ((Second + d) + e) = rate * (Second + d) + rate * e
    BY <1>1, <1>2, Distributes
  <2>4. (Second + d) + e = Second + (d + e)
    BY <1>1, <1>2
  <2>5. Second * (sent + tokens) <= rate * (Second + d)
    BY DEF LimitInv
  <2>6. /\ Second * sent \in Nat /\ Second * t \in Nat /\ Second * tokens \in Nat
        /\ rate * (Second + d) \in Nat /\ rate * e \in Nat
    BY <1>1, <1>2, <1>3, ProductIsNat
  <2> HIDE DEF d
  <2> QED BY <1>3, <2>1, <2>2, <2>3, <2>4, <2>5, <2>6
<1>6. d + e = refilled' - since'
  BY <1>1, <1>2
<1>7. since' <= refilled'
  BY <1>1, <1>2
<1>8. rate' = 0 => sent' = 0
  BY <1>2, <1>4 DEF LimitInv
<1>9. Second * (sent' + tokens') <= rate' * (Second + (refilled' - since'))
  BY <1>2, <1>4, <1>5, <1>6
<1> QED BY <1>7, <1>8, <1>9 DEF LimitInv

\* However requests come and the clock is set, no more is granted than a full bucket
\* and what the limit allows for the time the refills have counted.
THEOREM LimitIsKept == Spec => []WithinLimit
<1>1. Init => LimitInv
  BY SeedingAssumption DEF Init, LimitInv
<1>2. TypeOK /\ LimitInv /\ [Next]_vars => LimitInv'
  <2> SUFFICES ASSUME TypeOK, LimitInv, [Next]_vars PROVE LimitInv'
    OBVIOUS
  <2>1. ASSUME NEW k \in Limits, NewLimiter(k * Kilo) PROVE LimitInv'
    BY <2>1, NewLimiterKeeps
  <2>2. ASSUME UNCHANGED <<limiter, history>> PROVE LimitInv'
    BY <2>2 DEF LimitInv, limiter, history
  <2>3. ASSUME NEW granted \in BOOLEAN, TryConsume(granted) PROVE LimitInv'
    BY <2>2, <2>3, ConsumeKeeps DEF TryConsume
  <2> QED BY <2>1, <2>2, <2>3, LimiterMoves
<1>3. TypeOK /\ LimitInv => WithinLimit
  <2> SUFFICES ASSUME TypeOK, LimitInv PROVE WithinLimit
    OBVIOUS
  <2>1. sent \in Nat /\ tokens \in Nat /\ rate \in Nat /\ refilled \in Nat /\ since \in Nat
        /\ since <= refilled /\ Second \in Nat
    BY RateFits, SeedingAssumption DEF TypeOK, Rates, LimitInv
  <2>2. Second * sent <= Second * (sent + tokens)
    BY <2>1, MoreTimes
  <2>3. Second * sent \in Nat /\ Second * (sent + tokens) \in Nat
        /\ rate * (Second + (refilled - since)) \in Nat
    BY <2>1, ProductIsNat
  <2> QED BY <2>2, <2>3 DEF LimitInv, WithinLimit
<1> QED BY <1>1, <1>2, <1>3, TypeCorrect, PTL DEF Spec

\* Saturation never changes what a refill makes, whatever the clock has jumped to.
THEOREM RefillsAreExact == Spec => []RefillIsExact
<1>1. TypeOK => RefillIsExact
  BY RefillExactly, SeedingAssumption DEF TypeOK, Rates, RefillIsExact
<1> QED BY <1>1, TypeCorrect, PTL

SlowServesNothing == rate # 0 /\ rate < ChunkSize => sent = 0

\* Under a limit below a chunk a second the bucket never holds a chunk, and waiting is of
\* no use: nothing is granted however long the limit lasts and the requests come, although
\* try_consume's comment has the caller wait and try again.
THEOREM SlowIsStuck == Spec => []SlowServesNothing
<1>1. Init => SlowServesNothing
  BY DEF Init, SlowServesNothing
<1>2. TypeOK /\ SlowServesNothing /\ [Next]_vars => SlowServesNothing'
  <2> SUFFICES ASSUME TypeOK, SlowServesNothing, [Next]_vars PROVE SlowServesNothing'
    OBVIOUS
  <2>1. ASSUME NEW k \in Limits, NewLimiter(k * Kilo) PROVE SlowServesNothing'
    BY <2>1 DEF NewLimiter, SlowServesNothing
  <2>2. ASSUME UNCHANGED <<limiter, history>> PROVE SlowServesNothing'
    BY <2>2 DEF SlowServesNothing, limiter, history
  <2>3. ASSUME NEW granted \in BOOLEAN, Consume(granted) PROVE SlowServesNothing'
    <3>1. rate \in Rates /\ tokens \in 0 .. rate /\ Elapsed \in Nat /\ rate \in Nat
      BY RateFits, ElapsedIsNat, SeedingAssumption DEF TypeOK, Rates
    <3>2. Refill(Elapsed) \in 0 .. rate
      BY <3>1, RefillBounds
    <3> QED BY <2>3, <3>1, <3>2, SeedingAssumption DEF Consume, SlowServesNothing
  <2> QED BY <2>1, <2>2, <2>3, LimiterMoves DEF TryConsume
<1> QED BY <1>1, <1>2, TypeCorrect, PTL DEF Spec

\* Waiting helps wherever a limit allows a chunk a second: with a second on the clock since
\* the last refill nothing is refused.
THEOREM WaitingHelps == Spec => WaitHelps
<1>1. ASSUME TypeOK, [Next]_vars, NEW f \in asked, f \notin asked', outcome' = "refused"
      PROVE  clock < refilled + Second \/ rate < ChunkSize
  <2>1. TryConsume(FALSE)
    <3>1. ~ UNCHANGED asked
      BY <1>1
    <3>2. CASE UserCommand
      BY <3>1, <3>2 DEF UserCommand, SetLimit, SaveConfig, ShareFile, SeedPause, SeedResume,
                        Change, RemoveSeed, LeaveRoom, JoinRoom, UserStep
    <3>3. CASE Request
      BY <1>1, <3>1, <3>3 DEF Request, ChunkRequested, RequestIgnored, RequestRefused,
                              RequestGranted, Answer
    <3>4. CASE ClockMoves
      BY <3>1, <3>4 DEF ClockMoves
    <3>5. CASE Restart
      BY <1>1, <3>5 DEF Restart
    <3>6. CASE UNCHANGED vars
      BY <3>1, <3>6 DEF vars
    <3> QED BY <1>1, <3>2, <3>3, <3>4, <3>5, <3>6 DEF Next
  <2>2. rate # 0 /\ Consume(FALSE)
    BY <2>1 DEF TryConsume
  <2>3. rate \in Rates /\ tokens \in 0 .. rate /\ Elapsed \in Nat /\ rate \in Nat
        /\ clock \in Nat /\ refilled \in Nat
    BY <1>1, RateFits, ElapsedIsNat, SeedingAssumption DEF TypeOK, Rates
  <2>4. CASE rate < ChunkSize
    BY <2>4
  <2>5. CASE ~ (rate < ChunkSize)
    <3>1. ChunkSize <= rate
      BY <2>3, <2>5, SeedingAssumption
    <3>2. ~ Second <= Elapsed
      BY <2>2, <2>3, <3>1, RefillBounds, SeedingAssumption DEF Consume
    <3> QED BY <2>3, <3>2, SeedingAssumption DEF Elapsed, SaturatingSub
  <2> QED BY <2>4, <2>5
<1>2. TypeOK /\ [Next]_vars =>
        [\A f \in asked : f \notin asked' /\ outcome' = "refused"
                          => clock < refilled + Second \/ rate < ChunkSize]_vars
  BY <1>1
<1> QED BY <1>2, TypeCorrect, PTL DEF Spec, WaitHelps
-----------------------------------------------------------------------------
(* The list of seeds *)

\* A file is seeded by one entry, whatever is shared, removed, paused and resumed.
THEOREM SeedsAreOnce == Spec => []SeedOnce
<1>1. Init => SeedOnce
  BY DEF Init, SeedOnce
<1>2. TypeOK /\ SeedOnce /\ [Next]_vars => SeedOnce'
  <2> SUFFICES ASSUME TypeOK, SeedOnce, [Next]_vars PROVE SeedOnce'
    OBVIOUS
  <2>1. entries \in Seq(Entries)
    BY DEF TypeOK, Entries, Statuses
  <2>2. ASSUME DOMAIN entries' = DOMAIN entries,
               \A k \in DOMAIN entries : entries'[k].file = entries[k].file
        PROVE  SeedOnce'
    BY <2>2 DEF SeedOnce
  <2>3. ASSUME NEW f \in Files, ShareFile(f) PROVE SeedOnce'
    <3>1. CASE Seeded(f)
      BY <2>2, <2>3, <3>1 DEF ShareFile, Add
    <3>2. CASE ~ Seeded(f)
      <4>1. entries' = Append(entries, [file |-> f, status |-> "Active"])
        BY <2>3, <3>2 DEF ShareFile, Add
      <4>2. \A k \in DOMAIN entries : entries[k].file # f
        BY <3>2 DEF Seeded
      <4> QED BY <2>1, <4>1, <4>2 DEF SeedOnce
    <3> QED BY <3>1, <3>2
  <2>4. ASSUME NEW n \in Numbers, NEW from, NEW to \in Statuses, Change(n, from, to)
        PROVE  SeedOnce'
    <3>1. /\ Position(n) \in DOMAIN entries
          /\ entries' = [entries EXCEPT ![Position(n)].status = to]
      BY <2>4 DEF Change
    <3>2. \A k \in DOMAIN entries : [entries[k] EXCEPT !.status = to].file = entries[k].file
      BY <2>1, EntryIn DEF Entries
    <3> QED BY <2>1, <2>2, <3>1, <3>2
  <2>5. ASSUME NEW n \in Numbers, RemoveSeed(n) PROVE SeedOnce'
    <3> DEFINE at(k) == IF k < Position(n) THEN k ELSE k + 1
    <3>1. /\ Position(n) \in 1 .. Len(entries) /\ Len(entries) \in Nat
          /\ entries' = [k \in 1 .. Len(entries) - 1 |-> entries[at(k)]]
      BY <2>1, <2>5 DEF RemoveSeed
    <3>2. \A k \in 1 .. Len(entries) - 1 : at(k) \in DOMAIN entries
      BY <2>1, <3>1
    <3>3. \A j, k \in 1 .. Len(entries) - 1 : at(j) = at(k) => j = k
      BY <3>1
    <3> QED BY <3>1, <3>2, <3>3 DEF SeedOnce
  <2>6. ASSUME NEW from, NEW to, entries' = Turned(from, to) PROVE SeedOnce'
    <3>1. \A k \in DOMAIN entries : [entries[k] EXCEPT !.status = to].file = entries[k].file
      BY <2>1, EntryIn DEF Entries
    <3> QED BY <2>2, <2>6, <3>1 DEF Turned
  <2>7. CASE entries' = <<>>
    BY <2>7 DEF SeedOnce
  <2>8. CASE UNCHANGED entries
    BY <2>8 DEF SeedOnce
  <2>9. CASE UserCommand
    <3>1. ASSUME NEW n \in Numbers, SeedPause(n) \/ SeedResume(n) PROVE SeedOnce'
      BY <2>4, <3>1 DEF SeedPause, SeedResume, Statuses
    <3>2. CASE LeaveRoom \/ \E r \in Rooms : JoinRoom(r)
      BY <2>6, <3>2 DEF LeaveRoom, JoinRoom
    <3>3. CASE SaveConfig \/ \E k \in Limits : SetLimit(k)
      BY <2>8, <3>3 DEF SaveConfig, SetLimit
    <3> QED BY <2>3, <2>5, <2>9, <3>1, <3>2, <3>3 DEF UserCommand
  <2>10. CASE Request
    BY <2>8, <2>10 DEF Request, ChunkRequested, RequestIgnored, RequestRefused,
                       RequestGranted, Answer
  <2>11. CASE ClockMoves \/ Restart \/ UNCHANGED vars
    BY <2>7, <2>8, <2>11 DEF ClockMoves, Restart, vars
  <2> QED BY <2>9, <2>10, <2>11 DEF Next
<1> QED BY <1>1, <1>2, TypeCorrect, PTL DEF Spec
=============================================================================
