# TLA+ models of chatting2

chatting2 is a peer-to-peer chat for the terminal: encrypted rooms over libp2p,
invitations by code, and file sharing in chunks. This directory holds TLA+
models of the program, the TLC configurations that check them on small
instances, and proofs that TLAPS checks for every value of the constants.

## The system

One process serves one account. It runs three tasks that share no memory and
talk over bounded channels (`app/channels.rs`, capacity 256):

* the **network task** (`network/swarm.rs`) owns the libp2p swarm. It turns
  swarm events into `NetworkEvent`s and carries out `NetworkCommand`s;
* **AppCore** (`app/core.rs`) owns all the program's state. Its loop takes one
  command, event or timer tick at a time and runs the handler to its end, so a
  handler is atomic with regard to the program's memory (but not to the disk: a
  crash can come in the middle);
* the **interface** (`main.rs`, `tui/`) sends commands and shows `AppEvent`s.

Processes of different users talk through gossip (chat lines, announcements of
files), through a DHT (providers of a room, invitation codes, room URLs) and
through requests with one response each (`network/codec.rs`: a chunk, the
bitmaps of a room, an invitation).

| Component | State | Operations | Hard behaviours | What makes it correct |
|---|---|---|---|---|
| Downloads: `transfer/download.rs`, `bitfield.rs`, `transfer_loop.rs`, handlers in `app/core.rs` | the queue of entries (status, bitmap, chunks in flight), bitmaps of peers, failures and blocked peers; files and `.bf` files on disk | start, pause, resume, cancel, reorder; leave and join a room; an announcement, providers, a bitmap, a chunk | answers in any order, lost, late, from another room or for another file; crashes and write errors inside a store; sources that lie or go | bits never ahead of the data; chunks in flight are missing ones; bounded flight; wrong chunks blamed and never asked for twice; downloads land |
| Seeding: `transfer/seeding.rs`, `meta.rs` | entries with a status; tokens of the upload limiter | share, pause, resume, remove, serve, set the limit | a wall clock that is set; saturation; a limit below a chunk; a restart | no more is served than the limit allows; who waits is served; a file is seeded once |
| Invitations: `invite/` and AppCore | pending code, URL and room; requests shown; approvals | generate, enter a code, request, accept, decline, answers | lookups that are not correlated, several members deciding, answers of earlier requests, time-outs | a key reaches only who was accepted for that room; each request has one answer; a lookup settles |
| Accounts: `account/`, `crypto/enc_file.rs` | `users.json`, `identity.enc`, `config.enc`, `rooms.enc`, `friends.enc`, each under a key; the lock file | register, log in, change the password or nickname, delete; lock and unlock | a crash between two files; a session that keeps the old key; two processes at once | some password always opens the account; nothing stored is lost; one process per account |
| Rooms, friends: `room/`, `friends/` | records with a lifetime; the active room | create, join, leave, delete, list, expire | records removed under the active room; expiry between check and use | rooms are kept on disk; the user is told of a room that is lost |
| Interface: `main.rs`, `tui/` | the screen shown, what is typed, the queue of events | one key at a time; every event moves or marks the screen | the screen changes before AppCore has done what was asked; events and commands carry no room | the chat on the screen is that of the active room once all is handled; who waits for a code has one that is not settled |
| Task channels: `network/swarm.rs`, `app/channels.rs`, `main.rs` | four bounded queues | send and receive of each task, the end of the process | each task awaits room in the queue the other should empty; the process ends under a task | a task waits for ever only if two neighbours wait for each other |
| Chat, translations, cryptography wrappers | history, texts | - | - | not modelled, see below |

## Modules

| Module | What it is |
|---|---|
| `Bitfield` | the bitmap of chunks, as the set of its 1 bits: stray bits of the last byte and the length check of a loaded `.bf` included |
| `Download` | the download side of one client, its disk, and the peers it talks to |
| `ChunkStore` | what downloads promise about the disk: the abstract specification `Download` implements |
| `DownloadClaims` | what the documents say of downloads and the code does not do |
| `MCDownload` | instances for TLC |
| `Invite` | invitations by code between clients: lookups in the DHT, requests, decisions, answers |
| `MCInvite` | its instance for TLC |
| `Account` | the files of accounts, write by write, and the processes that register, log in, work, change the password, delete, fail and die |
| `MCAccount` | its instance for TLC |
| `Client` | the interface and AppCore as two tasks with a queue each way: screens, rooms, their records and lifetimes, a seed |
| `MCClient` | its instance for TLC |
| `Seeding` | the list of seeds, the requests for chunks and the upload limiter with its clock |
| `MCSeeding` | its instance for TLC |
| `Tasks` | the three tasks of a session, the bounded queues between them and the end of the process |
| `MCTasks` | its instance for TLC |
| `DownloadProofs`, `DownloadDisk` | theorems about `Download` and their proofs |
| `AccountProofs`, `AccountKeys` | theorems about `Account` and their proofs |
| `InviteProofs` | theorems about `Invite` and their proofs |
| `ClientProofs` | theorems about `Client` and their proofs |
| `SeedingProofs` | theorems about `Seeding` and their proofs |
| `TasksProofs` | theorems about `Tasks` and their proofs |

`Download`, `Invite`, `Client` and `Seeding` are views of AppCore, which is one task: each
keeps the control of one concern and takes of the others what they do to it. `Tasks` is what
is left when every concern is taken away: who waits for whom.
`Client` composes the interface with AppCore; a room is entered and left in all three,
a code under way in `Client` stands for all that `Invite` does, and the seed in `Client`
for those a peer of `Download` serves from. `Account` is what stays on disk when AppCore
and the process come and go.

### Download

State: `room` is the active room; `available` the files announced during the
stay (`available_files`); `peerBits` the `PeerBitfields`; `queue` and `dl` the
`DownloadManager` (order and entries, `"Absent"` for a file without an entry);
`failures` and `blocked` the `BlacklistSet`; `disk` and `bf` the files in the
download directory, by name; `net` the requests and responses under way;
`peerRoom` and `seeds` the peers.

Every handler is one action with all it calls. `StartDownload`, `OnBitfieldResponse` and
the four outcomes of `on_chunk_response` end in `Dispatch`, which is
`dispatch_chunk_requests` over the entries the handler has reached: every
active entry asks for its rarest missing chunks, as many as it has free slots,
each of a peer that has it and is not blacklisted, and an active entry with
nothing in flight turns to Waiting. The chosen peer depends on the order of a
hash map, so it is any of the sources.

A chunk response carries an index, data and the key it was sealed with, but no
file (`codec.rs`), so the handler takes the first active entry that has that
index in flight (`Addressee`). From there: `ChunkRejected` (another key, or
hashes not known), `ChunkCorrupt` (wrong hash), `ChunkStored`, `ChunkUnwritable`
and `BitsUnflushed` (a write fails). `Crash` and `CrashInStore` lose the memory;
the latter stops between the writes of a store, where a write over data may be
cut short (`Torn`). Peers run the same program: `PeerServesChunk`
and `PeerListsSeeds` are `handle_inbound_request`, `RequestUnanswered` what it
drops and what the network loses; `Stale` peers have changed the file since they
shared it, `Lossy` ones may fail, `Fickle` ones move and stop seeding.

Simplifications: an announcement names one file and is delivered when it is
made; peers seed whole files (`share_file` sets every bit); the upload limiter is
part of `Lossy` here and in `Seeding` as it is; the number the user gives to `/download` stands for any
announced file (the list is in the order of a hash map); the client itself
shares nothing.

### Invite

State, by node: `store` (the key in the record of each room), `active` and `key`
(`active_room`), `code`, `url` and `wanted` (`pending_invite_code`,
`pending_url_lookup`, `pending_invite_room_id`), `approvals` (`pending_approvals`)
and `queries`, the DHT lookups that may still yield results. A lookup yields
any number of records and then ends, or fails (`network/swarm.rs`), and AppCore
does not look at the key of a result: `LookupResult` takes it for whatever is
pending, a room name first (`UrlResult`), then a code (`CodeFailed`,
`CodeResolved`, `ResultIgnored`), in the order of the tests in `AppCore::run`.

A request and its answer are one exchange of the request-response protocol, so
`requests` keeps every exchange as one record with the stage it is in:
sent, held by its receiver (`pending_invite_channels`), answered, over. After ten
seconds the exchange is closed (`TimesOut`, `open = FALSE`), nobody is told, and
the receiver may still decide on it. The commands that decide take any held
request: the interface lets the user give a number, and takes an arbitrary one
otherwise (a `HashMap`). `Restart` keeps `rooms.enc` and the DHT only.

Simplifications: the key of a room has the name of the room it was made with;
lookups of room names may find or fail, what is stored under them is left
out; the gossiped decision only adds a line to the screen and is left out; a
room's record is never deleted here (it is in `Client`); `InvitePeer` and
`InviteFriend` are never issued by the interface and have no action.

### Account

State on disk: `users` (users.json: the salt of each listed account), `dir`, `file` and
`tmp` (the `.enc` and `.enc.tmp` files with the key each is under, and the rooms in
rooms.enc), `pid` (filetalk.pid). State of a process: `at` (how far it is from the
login screens to the end), `account`, `key` (the `enc_key` derived at login), `rooms`
(`room_store`), and the operation under way: `op`, the writes left of it in `todo`, and
the user list as it read it in `list`. A key is a password with a salt.

`save_enc` writes a temporary file and renames it, so a save is two writes and an
operation is the sequence of its saves: `Register`, `Delete`, `ChangePassword`,
`SaveConfig`, `CreateRoom`, `DeleteRoom` and `Quit` put the sequence in `todo`, and
`WriteTmp`, `Rename`, `RemoveDir`, `ReadList` and `StoreList` carry it out one write at a
time, with steps of other processes in between. At each of them the write may fail
(`Fail`, the operation returns its error) or the process be killed (`Die`).
`Login`, `Recover` (`recover_stale_tmp`), `CheckPid` or `AlreadyRunning`, `WritePid`,
`Load` and `StartFails` are `main` from the login to the session; `Quit` drops the lock
before AppCore has saved, as `main` does.

`spoilt` is history: for each account, since it was registered, which of four known
causes befell it. `raced`: two processes past the check of the pid file, a list stored
over a newer one, a directory removed under a process. `cut`: a change of password or a
deletion stopped between its files. `old key`: config.enc saved with a key that a
change of password has superseded. `unreadable`: a session that could not decrypt
rooms.enc. A property that exempts a cause says that nothing else breaks it.

Simplifications: friends.enc is handled as rooms.enc is and left out; a salt is the
number of the registration that drew it (salts differ); a process that is gone is told from a
living one, as on Unix (elsewhere `is_process_alive` always answers no, see below).

### Client

State: `screen` with what the screen holds that matters (the room of a chat and whether it
is marked expired, the list of rooms and the one marked to be deleted, the step of the entry of a
code); `phase`, whether the interface has events to take before it looks at the next
key; `cmds` and `events`, the two queues; of AppCore `active`, `records` (the order of
`room_store`), `over` (whose lifetime is over), `code` and `seed`. `code` is how far the code entered last
has come: `"Lookup"` while `pending_invite_code` is set, `"Asked"` while the host it
named has a request to answer (`pending_invite_room_id`), `"Lost"` when that request has ended in
an `OutboundFailure` (swarm.rs:233), and `"None"` when nothing is pending. A lost request leaves
`pending_invite_room_id` set and sends no event (router.rs:108), so that only a new code leads on.

`Drain` takes one event with `Shown`, which is `handle_app_event`, and is repeated until
there is none (`while let Ok(event) = app_rx.try_recv()`); AppCore may send more in
between, and only then is a key looked at. `KeyMainMenu`, `KeyCreateRoom`, `KeyRoomList`,
`KeyInviteEntry` and `KeyChat` are `handle_key` on each screen: they change the
screen at once and may send a command. `JoinRoom`, `LeaveRoom`, `CreateRoom`,
`DeleteRoom`, `ListRooms`, `EnterInviteCode`, `SendMessage` and `SeedCommand` are the
arms of `AppCore::handle_command`; `CodeNotFound` and `CodeResolved` what a lookup
makes of a code, `InviteAccepted`, `InviteRefused` and `RequestLost` what becomes of the
request; `CheckExpiry` the minute timer. All that enter a room go through
`Enter`, which is `join_room`: it leaves the present room first, and may then find
that the other cannot be entered.

Simplifications: a handler sends its events one by one and here at its end, which the
interface cannot tell from a pause; events that only add a line of text are left out;
the screens of friends, settings and the creation of a room, on which an event does what
it would do in the menu, are part of the menu; the name of a room is looked up in
`Invite`, and its events (`UrlRooms`, `UrlNotFound`), which in the code move the entry of a code to its
next step or to Failed, are left out of `Shown`: a late one can take the entry off Waiting, so
there are more ways to stop waiting than the model has; one code is under way at a time (`Idle`), overlapping ones are in `Invite`.

### Seeding

State: `entries` (`SeedingManager.entries`, in their order: the user names them by number),
`rate`, `tokens` and `refilled` of the `UploadRateLimiter`, `config` and `stored` (the limit in
memory and in config.enc), `room`, `clock` (`now_ms`, the clock of the system) and `asked`, the
files of which a request waits. `sent` and `since` are history: the bytes granted since the
present limit was set, and when that was.

`TryConsume` is `try_consume` with the refill it begins with, in the words of the code:
`saturating_sub` of the clock, `saturating_mul` by the rate before the division,
`saturating_add` and `min`. `ClockMoves` sets the clock to any value, so it runs and is set.
`RequestIgnored`, `RequestRefused` and `RequestGranted` are the ChunkRequest arm of
`handle_inbound_request`: only a request that passes `can_serve` touches the limiter, and the tokens of a
chunk that cannot be read are gone. `SetLimit` is `UpdateConfigField`, where the save may fail and the
limit is in force all the same; `Restart` is `main`, which makes an unlimited manager.

Simplifications: whole files are seeded (`share_file` sets every bit), so a request names a file and
no index; every request asks the limiter for a whole chunk, as in the code.

### Tasks

State: `waiting`, the number of messages in each of the four queues; `tui`, `core` and `net`,
where each task is; `todo`, the sends left of AppCore's handler, any list of up to `MaxSends`;
`process`. A send waits for room unless its receiver is gone (`Closed`), as `send().await` does.
`SwarmEvent`, `NetSend` and `NetTake` are `run_event_loop`; `CoreCommand`, `CoreEvent` and
`CoreTick` the branches of AppCore's `select!`, `CoreSend` and `HandlerEnds` what a handler does;
`Drain`, `NoCommand`, `Key` and `TuiSends` the loop of the interface. When it quits it sends
`Shutdown` and returns, which drops its receiver; `main` then signals AppCore (`tui = "Gone"` is
both) and returns (`MainEnds`), and the runtime drops the tasks.

## Runs

| Run | Instance | What it shows |
|---|---|---|
| `dl_disk` | one peer that moves between two rooms, a file of two chunks, crashes, write errors, losses | `TypeOK`; `BitsNeverAhead`: a bit on disk or in memory stands for a whole chunk; `InFlightIsMissing`: a failed write or flush, a pause, or a change of room with an answer under way leaves nothing in flight that is held already or not wanted; `KnownIsAnnounced`: what is known and in flight is of files announced since the room was entered; `ImplementsStore`: the refinement of `ChunkStore` |
| `dl_files` | two downloads (two chunks and one), one may be active after a rejoin, all commands, also with a message under way | `QueueMatches`; `InFlightIsMissing`, with an answer taken for the wrong file and an entry moved, paused or cancelled under it; `CompletedIsWhole`; `AnswerComes`: of each index as many requests and responses are under way as downloads wait for one, although a response is taken for whichever file waits first |
| `dl_live` | two peers that stay and answer, one of them with a changed copy, one slot, threshold 2, fair delivery | `FlightIsBounded`; `BlockedAtThree`; the action property `RequestsAvoidTheBlamed`: every new request respects the blacklist, the bitmap of this stay and the flight; `FlightLands`: no chunk stays in flight |
| `dl_claim_lost` | two peers, one of which may fail to answer | refutes `FlightLands` |
| `dl_claim_waiting` | a download started before the bitmap came | refutes `WaitingResumes` |
| `inv_codes` | a host with two rooms and a guest that looks things up, two codes, two lookups | `KeysAreGranted`: a key reaches a client only by an acceptance; `LookupUnderWay`: what is pending has lookups under way that have yielded nothing, although any result settles anything; `HeldIsRegistered`; `RequestFollowsCode`: a request goes out only for the code entered last; `EntersLastAsked`: an answer leads only to the room asked for last; `LookupSettles` |
| `inv_claim_key` | one code, one lookup | refutes `KeyFitsRoom` |
| `acc_files` | two processes that may die and fail at every write, an account registered up to twice, two passwords, a room | `SessionsHoldThePid`: the pid file of an account belongs to its session; `OpensWithItsPassword`: an account nothing writes to opens with the password last set for it; `RoomsKept`: no room is lost from rooms.enc; all but for the causes above |
| `acc_claim_password` | one process that never fails | refutes `PasswordOpens` |
| `tui_rooms` | two rooms, two commands and three events waiting | `RoomAgrees` and `ExpiredIsGone`: once all is handled the chat on the screen is that of the active room and is marked expired only if that room is over or removed; `MessagesGoWhereTyped`: a message typed while no change of room was under way is sent in the room it was typed in, or nowhere; `WaitingIsPending`: a code that is accepted, refused or not found leaves nobody waiting for it (a request that is lost does, see below); `SeedsFollowRooms`: a seed paused by leaving is resumed on entering, one paused by hand only by hand; `ChatSettles` and `LossIsShown`: the chat opened before its room is joined comes to agree with it, and the loss of the active room is shown |
| `seed_limit` | two files, no limit or half a chunk, one, or one and a half a second, words so short that a refill saturates, a clock of five values | `WithinLimit`: what is granted stays within the limit however requests come and the clock is set; `RefillIsExact`: saturation changes nothing; `WaitHelps`: under a limit of a chunk a second or more nothing is refused a second after the last refill |
| `tasks_queues` | queues of two messages, handlers of two sends | `LockIsForGood`: two tasks that wait for each other do so until the process ends, also when the user quits; `HandlersEnd` and `InterfaceGoesOn`: nothing else keeps a handler, or a command of the interface, waiting for ever |

Bounds. `MaxNet` bounds the requests that start from the user or an
announcement: they act while fewer messages are under way. It is 2 in `dl_disk` and `dl_files`, so that every
command and change of room also comes with a chunk in flight, and 1 in `dl_live`, where weak
fairness is by kind of message and not by message; the handlers themselves are not bounded, since what is in flight bounds them.
Two chunks are enough for rarity to have an order, for a slot to be short and
for a first and a last chunk to differ; two files for a response to meet the
wrong entry and for the queue to move; two peers for a choice of source and for
blame to matter; two rooms for a key to be the wrong one. `MAX_IN_FLIGHT_PER_FILE`
is 4 and `MAX_CHUNK_FAILURES` 3 in the code; the runs take 1 or 2 slots and a threshold of 2
or 3, so that the limits are met with two chunks. No deadlock is
possible: the user can always enter a room.

For `Invite` two lookups are the least with which results can be taken for one another
(two codes, or a code and a name), and they bound the requests to two, the
least with which answers can be. `Seekers` keeps the host from looking things up:
what it would look up reaches only its own pending state, as the guest's does.

For `Account` two processes are the least that can race; a second registration
lets an account come back over files its predecessor left; a change needs two passwords.
The run leaves out what follows a race (`CONSTRAINT Unraced`): every property
exempts a raced account, there is one account, and a race is not forgotten before the account
is registered anew with nobody on it. The states cut off are thus
only those in which nothing is claimed, and what could follow, a second life of the account
after a race, is covered by the theorems. Processes and passwords are interchangeable
(`SYMMETRY`), and the run has no liveness property. A model with bounded registrations may
come to a stop (`CHECK_DEADLOCK FALSE`).

For `Client` two rooms are needed for the screen and AppCore to be in different ones, and two
commands for one to overtake the intention of the other. A change of room is two
events, so `MaxEvents` is 3 for one to be waiting before them; a handler that finds no
room waits, as a full channel makes it. The theorems hold for all bounds. The interface may be left in
a state where the user types nothing (`CHECK_DEADLOCK FALSE`).

For `Seeding` a limit of half a chunk makes a bucket that never fills enough (`WaitHelps` claims nothing of it), one of a chunk one that is
exactly emptied, and one of one and a half one that keeps a rest; `MaxWord` holds a second of the highest limit and no more, which is
the least `SeedingAssumption` allows (the code has 2^62 of 2^64), so any jump of more than a second saturates.

For `Tasks` the capacity is 256 in the code. Two let a queue be empty, full and in between, and
let one message wait behind another; the theorems hold for every capacity. Tasks that wait
for each other stop, and so does a process that has ended (`CHECK_DEADLOCK FALSE`).

Fairness (`FairSpec` of `Download`): each kind of message under way is in the end delivered,
and a peer in the end answers or drops what it has received. This is what the
swarm and AppCore's loop do: both take events in order and never refuse one.
Nothing is assumed of the user, of rooms, or of crashes. `dl_live` excludes `Lossy` peers:
with them `FlightLands` is false, which is what `dl_claim_lost` shows.
`FairSpec` of `Invite`: a lookup yields a first result, be it the failure of its
time-out; nothing is assumed of users, requests or answers.
`FairSpec` of `Client`: the loop of the interface takes events every 50 ms, whatever the
user does; AppCore's `select!` takes its ready branches in random order, so neither the
commands nor the minute timer are passed over for ever. Keys and answers to a
code need never come.
`FairSpec` of `Tasks`: each task goes on when it can, and for the branches of a `select!`, which a
steady flow of others may disable again and again, strong fairness, for the same random order.
Nothing is assumed of the swarm, the timers and the user.

## What is proved

For every value of the constants that satisfies `ConstantsAssumption` and
`ContentsAssumption`:

* `TypeCorrect` (DownloadProofs): `Spec => []TypeOK`;
* `QueueIsRight` (DownloadProofs): `QueueMatches`. The inductive invariant is
  `QueueMatches` with the type invariant;
* `BlockingIsRight` (DownloadProofs): `BlockedAtThree`. Only `RecordFailure`
  and a restart touch what it is about; `failures[p].chunks` being finite is
  carried along;
* `FlightIsRight` (DownloadProofs): `FlightIsBounded`. What a dispatch asks for is the
  first few of the wanted chunks in an order without ties, where "the first few" are
  those with fewer than `free` chunks before them. `FirstFew` shows that there are at most
  `free` of those: the number of chunks before one differs from chunk to chunk, as one that is
  before another has fewer. The inductive invariant `FlightFits` adds that the flight is finite;
* `RequestsAreRight` (DownloadProofs): `RequestsAvoidTheBlamed`, a step property: a request
  that `net` holds more often after a step was sent in that step by a dispatch
  over entries the handler has changed already. `AskingInv` adds that `net` is a bag and that
  no file is announced outside a room, where a dispatch finds nothing to ask for.

With the further assumption `NamesDiffer` (each file has its own name):

* `AlwaysSound` (DownloadDisk): the inductive invariant `SoundInv`. It relates
  three things that each handler changes one after the other: for each entry
  that its bits are whole chunks on disk and its flight is disjoint from its bits and
  empty unless active (`SoundEntry`), for each `.bf` that its bits are whole
  chunks of the file of that name (`SoundDisk`), and that no bit lies beyond the
  last chunk (`NoStrayBits`). Neither of the first two is inductive alone: a
  start reads the `.bf` into an entry, a store writes an entry to the `.bf`;
* `InFlightIsRight`, `BitsAreSafe`, `CompletedIsRight`: `InFlightIsMissing`,
  `BitsNeverAhead` and `CompletedIsWhole` follow from it, through crashes and failed writes;
* `KnownIsRight` (DownloadDisk): `KnownIsAnnounced`. It does not say that a
  bitmap is of this stay, which is false (below), but that its file was announced in it. Of a file not
  announced in this stay no bitmap is kept, so a dispatch finds no source for its chunks; that
  a change of room empties every flight comes from `SoundInv` (only active entries have one);
* `StoreImplemented` (DownloadDisk): `ImplementsStore`, the refinement of `ChunkStore`. Each
  action is a step of the abstract store or leaves it alone: a crash forgets the completed
  reports, a crash inside a store also adds its chunk (`StoreForgets`, `StoreGrows`), a
  response stores its chunk and completes an entry only if its file is whole
  (`ResponseStores`, from `SoundInv`), everything else completes nothing
  (`DispatchCompletesNothing`).

With `NamesDiffer`, peers that stay in their room, seed on and are reached, a disk that takes every
write (`Reliable`), and one room (`OneRoom`):

* `AnswersCome` (DownloadDisk): `AnswerComes`. With two downloads a response is taken for the
  first that waits for its index, so no message belongs to a download, and the claim is a count:
  of each index at least as many messages are under way as downloads wait for one. A dispatch sends one
  request for each wait it adds (the waits it adds are new, which `ArrivalDispatches` had
  to say), a request becomes one response, and a response that is taken ends one wait. That a response is never
  rejected, which would end none, and that no request is dropped need `AnswersInv`: what is under way and what the
  peers have announced is of files they seed in their room (`PeersHold`), and a response
  under way is sealed with the key of the one room. The hypotheses are those of `dl_files`, and of `dl_live`, where a peer answers wrongly; without
  any of them TLC finds a chunk without an answer (`dl_claim_lost`; for two rooms, see below).

Of `Account`, with `AccountAssumption` only, so for any number of processes, accounts
and registrations, raced accounts included:

* `TypeCorrect` (AccountProofs): `TypeOK`. What a write does depends on what is left of
  its operation, so the inductive invariant `IInv` adds `Fit`: which writes each
  operation may still have, and with which keys. `WritesAreOfTheOperation` states that part;
* `SessionsAreRight` (AccountProofs): `SessionsHoldThePid`. It is not inductive, since a
  start between its check and its write owns nothing yet; `StartsApart` adds that
  such a start with another process past the check is a race already;
* `OneSessionAtATime`: two sessions of one account have raced for it;
* `RoomsAreKept` (AccountProofs): `RoomsKept`. The file must hold no room that the
  memory of a session lacks (`InMemory`), from its load on; that needs the
  rooms being written to be those in memory and the temporary file to be the one
  the same process has written (`Saving`), which needs that no other process past the
  check works on the account (`Apart`), and that a missing file counts as no
  rooms (`NoRooms`);
* `AccountsOpen` (AccountKeys): `OpensWithItsPassword`. Between the writes of an operation
  the account does not open, so the invariant `KeyInv` describes the way there: the steps
  left of an operation are the last ones of its plan (`Planned`), and with n of them left the
  files and the salt are what the others have made of them (`Ready`), unless the
  account is raced for. The last step of each plan then leaves an account that opens, and an
  operation that stops half-way records its cause.

Of `Invite`, with `ConstantsAssumption` of that module, so for any clients, rooms and codes
and any number of lookups and requests:

* `TypeCorrect` (InviteProofs): `TypeOK`. The inductive invariant `IInv` adds that a
  client has the key of a room exactly while it is in one: a code is made for the room
  its maker is in, and an acceptance sends the key in use;
* `KeysAreSafe`: `KeysAreGranted`. A key is stored from an answer, so
  `KeysInv` adds that the key of every answer under way was granted to the client it goes to;
* `HeldAreRegistered`: `HeldIsRegistered`, inductive with the types, as an approval is
  never taken back while its member runs, and what he holds ends with him;
* `LookupsAreUnderWay`: `LookupUnderWay`. Counting unanswered lookups is not inductive: the
  record of an earlier code answers one and settles nothing. `LookupsInv` counts the
  relevant ones only, those that are not for an earlier code: a room name has a
  lookup of its own, a code a relevant one, and with both pending there are two, as the name
  takes the first result whoever asked for it;
* `RequestsAreForCodes`: `RequestFollowsCode`, a step property that follows from the types;
* `AnswersLeadToLastAsked`: `EntersLastAsked`. `WantsLastAsked` says that the room a client
  waits for is that of its last request, which every step keeps.

Of `Client`, with `ClientAssumption`, so for any set of rooms and any bounds of the queues
(ClientProofs):

* `TypeCorrect`: `TypeOK`, with the fields each screen may have and both queues within
  their bounds;
* `RoomsAgree`, `ExpiriesAreRight`, `WaitsAreCaused`: `RoomAgrees`, `ExpiredIsGone`,
  `WaitingIsPending`. They speak of empty queues only, so the invariant says what is under
  way instead. `EventsInv`: if the last event that moves the screens is the entry into a room,
  AppCore is in that room; if AppCore is in a room, the screen shows it or will, unless the user has
  sent a command that leaves it; an expiry that no later event overtakes is that of the active room.
  `ChatInv`: a chat with no such event coming and no command that is to open it is of the
  active room, or of one that was refused and that nothing under way can make again, the
  refusal shown or on its way. `WaitingInv`: what a wait is for, or the event that ends it. Each is stated by positions
  in the queues (`EndsIn`, `Expires`, `Opening`), and four lemmas say what taking one entry
  (`EventTaken`, `CommandTaken`) or adding one (`EventSent`, `CommandSent`) makes of them.
  AppCore then has three ways to act (`Joins`, `GoesOut`, `Stays`), and every handler
  is shown to be one of them;
* `MessagesAreRight`: `MessagesGoWhereTyped`. `MessagesInv` has it for each message waiting:
  AppCore is in its room or in none, no code is under way, and no command that changes
  the room is before it;
* `SeedsAreRight`: `SeedsFollowRooms`, a step property, from `SeedInv`: a seed is paused by
  leaving only while in no room.

Of `Seeding`, with `SeedingAssumption`, so for any limits, chunk size, unit of the clock and words that
hold a second of the highest limit (SeedingProofs):

* `TypeCorrect`: `TypeOK`, with the bucket never above a second of the limit;
* `LimitIsKept`: `WithinLimit`. It is not inductive: the bucket may hold tokens that are granted
  next. `LimitInv` bounds what has been granted together with what is in the bucket, and adds that a refill
  counts no time twice (`since <= refilled`) and that nothing is counted without a limit;
* `RefillsAreExact`: `RefillIsExact`, from the types and the fact that a quotient of what has
  saturated is at least the rate (`DivisionReaches`);
* `WaitingHelps`: `WaitHelps`, and `SlowIsStuck`: under a limit below a chunk a second nothing is ever granted
  (`SlowServesNothing`, stated with its proof: it is what the code does against its comment, see below). Both follow from what a
  refill makes (`RefillBounds`): a full bucket after a second, and never more than the limit;
* `SeedsAreOnce`: `SeedOnce`, a file is seeded by one entry; inductive with the types, and stated by no run.

Of `Tasks`, for any capacity and any length of handlers (TasksProofs): `TypeCorrect`, and
`LocksAreForGood`, that is `LockIsForGood`: of two tasks that wait for each other neither can send or take,
and what a third does touches neither of their queues.

Only model-checked. `FlightLands`, `LookupSettles`, `ChatSettles`, `LossIsShown`, `HandlersEnd` and
`InterfaceGoesOn` are liveness under fairness, out of the prover's reach. No proof uses a
recursive definition: what would need induction over a queue is stated by positions.

## Where the code and its documents differ

The findings of PROJECT.json have runs. Others noticed while modelling,
without a run of their own:

* `max_concurrent_dl` is looked at only when a room is joined again
  (`download.rs`, `auto_resume_on_rejoin`); `start_download` and `/resume` ignore
  it, and a slot that becomes free starts nothing.
* `/download` of a completed entry makes it active again (`core.rs:1013`).
* `/cancel` leaves the partial file and its `.bf` on disk.
* The queue is lost on exit (`main.rs:130`); docs/10 promises that downloads
  resume after a restart.
* After a rejoin bitmaps are dropped until files are announced again
  (`core.rs:1412`), so resumed downloads turn to Waiting.
* Two files of one name share a path and a `.bf` (`core.rs:1009`).
* An entry whose last `.bf` flush failed is full and never completes
  (`download.rs:224`); a file of no chunks never completes.
* A late failure of another lookup cancels the code entered last
  (`core.rs:206`), although the comment at `core.rs:1137` says stale answers must not touch it.
* After a refusal a new request of the same client is held but not shown to
  the member (`handler.rs:45`); docs/06 lets the guest try again.
* The three minutes and three attempts of docs/06 are not enforced: the session that
  counts them is never started. An exchange lives ten seconds.
* A code is not used up: its record stays in the DHT.
* After a change of password rooms.enc and friends.enc stay under the old key; the next
  session reads them as empty and its first save replaces them (`unreadable`). A crash
  between identity.enc and config.enc leaves an account no password opens (`cut`), where
  docs/03 promises an atomic replacement.
* `recover_stale_tmp` runs before the pid file is looked at: a second start that will be
  turned away has by then removed the temporary files of the first.
* users.json is read, changed and stored as a whole by each process: one may undo what
  another has stored for another account.
* Elsewhere than on Unix `is_process_alive` always answers no, so any pid file counts as stale.
* An invitation that arrives outside a chat is shown on entering one only when an event
  opens it; from the list of rooms the chat is open before (`was_chat`, main.rs:366), and
  the invitation stays queued.
* JoinedRoom replaces a chat that the list has opened already, with what was typed in it
  since (main.rs:497).
* A room to be deleted is kept by its place in the list while the user confirms
  (input.rs:239); a list that arrives in between moves another room there.
* A room without a record cannot be entered, and the user ends up in no room with its chat
  on the screen (core.rs:758); the error line is all that tells.
* Any error marks the entry of a code as failed, also one of another command; the
  answer to the code still moves the user to its room later.
* `/remove-all` does the same as `/remove`: the flag is ignored (core.rs:354).
* Number 0 given to a command on the queue means the first entry (download.rs:119), and so in
  the list of seeds (seeding.rs:153).
* A bitmap asked for in one room and answered in another is kept if the file was announced there too
  (core.rs:1412 does not look at the room), and chunks are asked of a peer of the old
  room; its answer is under the old key, and the chunk stays in flight for good. With two rooms `dl_files`
  has this behaviour as a counterexample of `AnswerComes`.
* Two neighbouring tasks may wait for each other for good, with 256 messages in both
  queues between them (swarm.rs:256); the runs of `Tasks` have that state.
* A clock that is set back stops every refill of the upload limiter until it has caught up (seeding.rs:54).
* A chunk response names no file (`codec.rs`), so with two downloads a right chunk may be taken for the
  other file, fail its hash and blame an honest peer (core.rs:1455); docs/10:103 has several files
  downloaded at once and docs/13:209 counts failed checks against the peer.
* A limit below 256 KB/s serves nothing at all, as the bucket never holds a chunk (seeding.rs:43): the
  comment at seeding.rs:35 has the caller wait and try again, and the settings offer a limit in KB/s
  (config.rs:22). `SlowIsStuck` proves it of every such limit.
* A request for an invitation that cannot be delivered, or that the host does not answer within ten seconds, ends
  in an `OutboundFailure` (swarm.rs:233) which the router drops (router.rs:108). docs/06:85 has the guest
  told of a failed connection ("연결 실패"); he is told nothing, and waits until he leaves the screen: its countdown
  runs to zero and nothing follows. `RequestLost` of `Client` is that step, and `WaitingIsPending` exempts it by
  name. The dropped event is the one of `dl_claim_lost`.
* The upload limit stored in config.enc is not in force after a restart, until the user sets it again
  (main.rs:131).
* `main` returns without awaiting AppCore (main.rs:174), so the process may end before the clean-up that
  saves rooms.enc and friends.enc (core.rs:155), or in the middle of it.
* `max_download_kbps` is stored and shown, and nothing looks at it. docs/11 gives both limits in MB/s, the code
  takes KB/s.

## Not modelled

Drawing and the editing of text (`tui/render.rs`, most of `tui/input.rs`), texts
(`i18n/`), the cryptographic primitives (`crypto/aead.rs`, `kdf.rs`: a sealed value is readable with its key only), the
assembly of the libp2p stack (`network/behaviour.rs`, `config.rs`), and chat
lines (`chat/`): sequential code, pure input and output, or library code.
Several parts of the download code are never called by the program
(`mark_chunk`, `remove_peer`, `remove_and_delete`, `DeliveryTracker`, the
sending of `BitfieldUpdate` and `FileRemove`) and have no action.

The models of AppCore take the queues to the network as unbounded; in `Client` both
queues to the interface are bounded, but a handler waits for room before it starts and not in its middle.
What bounded queues do is in `Tasks`, apart from what the messages say.

## Plan

1. Downloads: `Download`, its proofs and the refinement of `ChunkStore` (done).
2. `Invite` (modelled, checked, its safety proved): the decision that other members
   are told of by gossip, which is only displayed, if it ever comes to change state.
3. `Account` (modelled, checked, its safety proved).
4. `Client` (modelled, checked, its safety proved): the queue of invitations that wait for a chat,
   and a second list that arrives while a removal is confirmed.
5. `Seeding` and `Tasks` (modelled, checked, their safety proved).

Runs are one per question; each module gets its type invariant, proofs of its
main safety invariants in a module of its own, and no recursive operator.
