------------------------------- MODULE Invite -------------------------------
(***************************************************************************)
(* Invitations by code: clients that make codes, look codes and room names *)
(* up in the DHT, ask the maker of a code for the key of its room, and     *)
(* decide on the requests they receive (app/core.rs, invite/).             *)
(*                                                                         *)
(* A DHT lookup may yield several results, and AppCore does not look which *)
(* lookup a result is of: it takes it for whatever is pending.  A request  *)
(* and its answer are one exchange of the request-response protocol, which *)
(* gives an exchange ten seconds and reports no failure to the user.       *)
(***************************************************************************)
EXTENDS Integers, Sequences, FiniteSets

CONSTANTS
    Nodes,
    Rooms,          \* room ids; the key a room was made with is named by the room
    NoRoom,         \* no room, no record of a room, no key
    Codes,          \* the codes that may be made
    NoCode,
    NoRecord,       \* nothing is stored in the DHT under a code
    Knows,          \* [Nodes -> SUBSET Rooms], the rooms in rooms.enc at first
    Seekers,        \* bound: the nodes whose users look things up
    MaxLookups      \* bound: lookups the users start, in all

ASSUME ConstantsAssumption ==
    /\ Knows \in [Nodes -> SUBSET Rooms]
    /\ NoRoom \notin Rooms
    /\ NoCode \notin Codes
    /\ {"url", "refresh"} \cap Codes = {}
    /\ {"Failed", "Rooms"} \cap Codes = {}
    /\ Seekers \subseteq Nodes
    /\ MaxLookups \in Nat

VARIABLES
    store,      \* room_store: the key in the record of each room
    active,     \* active_room: its id
    key,        \* active_room: its key
    code,       \* pending_invite_code
    url,        \* whether a pending_url_lookup is set
    wanted,     \* pending_invite_room_id
    approvals,  \* InviteManager.pending_approvals: whether decided, by requester
    dht,        \* the invitation records, by code
    queries,    \* lookups of each node that may still yield results
    asked,      \* number of lookups started by all nodes
    requests,   \* every InviteRequest sent, with what became of it
    grants      \* history: keys whose handing over to a node was accepted

pending == <<code, url, wanted>>
vars == <<store, active, key, pending, approvals, dht, queries, asked, requests, grants>>
-----------------------------------------------------------------------------
(* Values *)

Records == [creator : Nodes, room : Rooms]
Queries == [id : Nat, key : Codes \cup {"url", "refresh"}, answered : BOOLEAN]

\* A request under way; held by its receiver in pending_invite_channels; answered;
\* or over: its answer has come, or it never will.  The key NoRoom is a refusal.
Stages   == {"Sent", "Held", "Answered", "Over"}
Requests == [from : Nodes, to : Nodes, room : Rooms, stage : Stages,
             key : Rooms \cup {NoRoom}, open : BOOLEAN]

Init ==
    /\ store = [n \in Nodes |-> [r \in Rooms |-> IF r \in Knows[n] THEN r ELSE NoRoom]]
    /\ active = [n \in Nodes |-> NoRoom]
    /\ key = [n \in Nodes |-> NoRoom]
    /\ code = [n \in Nodes |-> NoCode]
    /\ url = [n \in Nodes |-> FALSE]
    /\ wanted = [n \in Nodes |-> NoRoom]
    /\ approvals = [n \in Nodes |-> [p \in Nodes |-> "None"]]
    /\ dht = [c \in Codes |-> NoRecord]
    /\ queries = [n \in Nodes |-> {}]
    /\ asked = 0
    /\ requests = <<>>
    /\ grants = [n \in Nodes |-> {}]
-----------------------------------------------------------------------------
(* Rooms and codes *)

JoinRoom(n, r) ==
    /\ store[n][r] # NoRoom
    /\ active' = [active EXCEPT ![n] = r]
    /\ key' = [key EXCEPT ![n] = store[n][r]]
    /\ UNCHANGED <<store, pending, approvals, dht, queries, asked, requests,
                   grants>>

LeaveRoom(n) ==
    /\ active[n] # NoRoom
    /\ active' = [active EXCEPT ![n] = NoRoom]
    /\ key' = [key EXCEPT ![n] = NoRoom]
    /\ UNCHANGED <<store, pending, approvals, dht, queries, asked, requests,
                   grants>>

MayMakeCodeAnywhere(n) == TRUE      \* mutant: a code of no room
MayMakeCode(n) == active[n] # NoRoom

\* generate_invite_code: a new code, signed by its maker, for the active room.
GenerateInviteCode(n, c) ==
    /\ MayMakeCode(n)
    /\ dht[c] = NoRecord
    /\ dht' = [dht EXCEPT ![c] = [creator |-> n, room |-> active[n]]]
    /\ UNCHANGED <<store, active, key, pending, approvals, queries, asked,
                   requests, grants>>
-----------------------------------------------------------------------------
(* Lookups *)

StartQuery(n, target) ==
    /\ n \in Seekers /\ asked < MaxLookups
    /\ asked' = asked + 1
    /\ queries' = [queries EXCEPT ![n] = @ \cup
                      {[id |-> asked, key |-> target, answered |-> FALSE]}]
    /\ UNCHANGED <<store, active, key, wanted, approvals, dht, requests, grants>>

EnterInviteCode(n, c) ==
    /\ StartQuery(n, c)
    /\ code' = [code EXCEPT ![n] = c]
    /\ UNCHANGED url

LookupRoomUrl(n) ==
    /\ StartQuery(n, "url")
    /\ url' = [url EXCEPT ![n] = TRUE]
    /\ UNCHANGED code

\* /refresh looks the room id up as well, under which nothing is ever stored.
Refresh(n) ==
    /\ active[n] # NoRoom
    /\ StartQuery(n, "refresh")
    /\ UNCHANGED <<code, url>>

\* What a lookup may yield: a failure, the rooms of a name, the record of a code.
Results(q) ==
    {"Failed"}
    \cup (IF q.key = "url" THEN {"Rooms"} ELSE {})
    \cup {c \in Codes : c = q.key /\ dht[c] # NoRecord}

\* handle_url_dht_result: a pending room name takes any result.
UrlResult(n) ==
    /\ url[n]
    /\ url' = [url EXCEPT ![n] = FALSE]
    /\ UNCHANGED <<code, wanted, requests>>

\* The signature of a record is of the hash of its code.
VerifiesAlways(c, result) == TRUE      \* mutant
Verifies(c, result) == c = result

CodeFailedOnly(n, result) ==      \* mutant: the rooms of a name are ignored
    /\ ~url[n] /\ code[n] # NoCode
    /\ result \notin Codes
    /\ code' = [code EXCEPT ![n] = IF result = "Failed" THEN NoCode ELSE @]
    /\ UNCHANGED <<url, wanted, requests>>

\* A failure, or a record that is not one of a code, ends the pending code.
CodeFailed(n, result) ==
    /\ ~url[n] /\ code[n] # NoCode
    /\ result \notin Codes
    /\ code' = [code EXCEPT ![n] = NoCode]
    /\ UNCHANGED <<url, wanted, requests>>

Ask(n, record) ==
    requests' = Append(requests, [from |-> n, to |-> record.creator,
                                  room |-> record.room, stage |-> "Sent",
                                  key |-> NoRoom, open |-> TRUE])

CodeResolvedOnce(n, result) ==      \* mutant: the first room asked for is kept
    /\ ~url[n] /\ code[n] # NoCode
    /\ result \in Codes /\ Verifies(code[n], result)
    /\ code' = [code EXCEPT ![n] = NoCode]
    /\ wanted' = [wanted EXCEPT ![n] = IF @ = NoRoom THEN dht[result].room ELSE @]
    /\ Ask(n, dht[result])
    /\ UNCHANGED url

\* The record of the pending code: its maker is asked for the key of its room.
CodeResolved(n, result) ==
    /\ ~url[n] /\ code[n] # NoCode
    /\ result \in Codes /\ Verifies(code[n], result)
    /\ code' = [code EXCEPT ![n] = NoCode]
    /\ wanted' = [wanted EXCEPT ![n] = dht[result].room]
    /\ Ask(n, dht[result])
    /\ UNCHANGED url

\* The record of another code, or a result nobody waits for.
ResultIgnored(n, result) ==
    /\ ~url[n]
    /\ code[n] = NoCode \/ (result \in Codes /\ ~Verifies(code[n], result))
    /\ UNCHANGED <<pending, requests>>

\* A result reaches AppCore.  A failure is the last one of its lookup.
LookupResult(n, q) ==
    /\ \E result \in Results(q) :
          /\ queries' = [queries EXCEPT ![n] =
                IF result = "Failed" THEN @ \ {q}
                ELSE (@ \ {q}) \cup {[q EXCEPT !.answered = TRUE]}]
          /\ \/ UrlResult(n)
             \/ CodeFailed(n, result)
             \/ CodeResolved(n, result)
             \/ ResultIgnored(n, result)
    /\ UNCHANGED <<store, active, key, approvals, dht, asked, grants>>

FirstResult(n, target) ==
    \E q \in queries[n] : q.key = target /\ ~q.answered /\ LookupResult(n, q)

FurtherResult(n) == \E q \in queries[n] : q.answered /\ LookupResult(n, q)

\* A lookup that has found something ends without a word.
LookupEnds(n) ==
    /\ \E q \in queries[n] :
          q.answered /\ queries' = [queries EXCEPT ![n] = @ \ {q}]
    /\ UNCHANGED <<store, active, key, pending, approvals, dht, asked, requests,
                   grants>>
-----------------------------------------------------------------------------
(* Requests and answers *)

\* on_invite_request: the channel is kept; the request is shown to the user only
\* when its sender has no approval yet, decided or not.
RequestArrives(i) ==
    LET m == requests[i]
    IN  /\ m.stage = "Sent" /\ m.to # m.from
        /\ requests' = [requests EXCEPT ![i].stage = "Held"]
        /\ approvals' = [approvals EXCEPT ![m.to][m.from] =
                            IF @ = "None" THEN "Open" ELSE @]
        /\ UNCHANGED <<store, active, key, pending, dht, queries, asked, grants>>

\* mutant: a decided approval is cleaned up
DecidedAndGone(m) == [approvals EXCEPT ![m.to][m.from] = "None"]

\* mark_decided
Decided(m) ==
    [approvals EXCEPT ![m.to][m.from] = IF @ = "None" THEN @ ELSE "Decided"]

Over(m) == [m EXCEPT !.stage = "Over", !.key = NoRoom, !.open = FALSE]

\* An answer to an exchange that has timed out goes nowhere.
Answer(i, k) ==
    requests' = [requests EXCEPT ![i] =
                    IF @.open THEN [@ EXCEPT !.stage = "Answered", !.key = k]
                    ELSE Over(@)]

\* /approve: the key handed over is that of the room the member is in now.
AcceptInvite(i) ==
    LET m == requests[i]
    IN  /\ m.stage = "Held" /\ active[m.to] # NoRoom
        /\ Answer(i, key[m.to])
        /\ approvals' = Decided(m)
        /\ grants' = [grants EXCEPT ![m.from] = @ \cup {key[m.to]}]
        /\ UNCHANGED <<store, active, key, pending, dht, queries, asked>>

DeclineInviteWithKey(i) ==      \* mutant: the answer of an acceptance is sent
    LET m == requests[i]
    IN  /\ m.stage = "Held" /\ active[m.to] # NoRoom
        /\ Answer(i, key[m.to])
        /\ approvals' = Decided(m)
        /\ UNCHANGED <<store, active, key, pending, dht, queries, asked, grants>>

\* /reject
DeclineInvite(i) ==
    LET m == requests[i]
    IN  /\ m.stage = "Held" /\ active[m.to] # NoRoom
        /\ Answer(i, NoRoom)
        /\ approvals' = Decided(m)
        /\ UNCHANGED <<store, active, key, pending, dht, queries, asked, grants>>

\* Either command outside a room drops the channel and decides nothing.
DecisionDropped(i) ==
    /\ requests[i].stage = "Held" /\ active[requests[i].to] = NoRoom
    /\ requests' = [requests EXCEPT ![i] = Over(@)]
    /\ UNCHANGED <<store, active, key, pending, approvals, dht, queries, asked,
                   grants>>

\* InviteAccepted: the key is stored for the room asked for last, and the client
\* moves there; without a room asked for it is ignored.
AcceptedArrives(i) ==
    LET n == requests[i].from
    IN  /\ requests[i].stage = "Answered" /\ requests[i].key # NoRoom
        /\ requests' = [requests EXCEPT ![i] = Over(@)]
        /\ IF wanted[n] = NoRoom
           THEN UNCHANGED <<store, active, key>>
           ELSE /\ store' = [store EXCEPT ![n][wanted[n]] = requests[i].key]
                /\ active' = [active EXCEPT ![n] = wanted[n]]
                /\ key' = [key EXCEPT ![n] = requests[i].key]
        /\ wanted' = [wanted EXCEPT ![n] = NoRoom]
        /\ UNCHANGED <<code, url, approvals, dht, queries, asked, grants>>

\* InviteRejected: whatever room is asked for is asked for no longer.
RejectedArrives(i) ==
    /\ requests[i].stage = "Answered" /\ requests[i].key = NoRoom
    /\ requests' = [requests EXCEPT ![i] = Over(@)]
    /\ wanted' = [wanted EXCEPT ![requests[i].from] = NoRoom]
    /\ UNCHANGED <<store, active, key, code, url, approvals, dht, queries, asked,
                   grants>>

\* Ten seconds without an answer, or a lost connection.  Nobody is told; a request
\* its receiver holds stays there to be decided on.
TimesOut(i) ==
    /\ requests[i].stage # "Over" /\ requests[i].open
    /\ requests' = [requests EXCEPT ![i] =
                       IF @.stage = "Held" THEN [@ EXCEPT !.open = FALSE] ELSE Over(@)]
    /\ UNCHANGED <<store, active, key, pending, approvals, dht, queries, asked,
                   grants>>

\* A client ends and starts again: rooms.enc is left, and what is in the DHT.
Restart(n) ==
    /\ active' = [active EXCEPT ![n] = NoRoom]
    /\ key' = [key EXCEPT ![n] = NoRoom]
    /\ code' = [code EXCEPT ![n] = NoCode]
    /\ url' = [url EXCEPT ![n] = FALSE]
    /\ wanted' = [wanted EXCEPT ![n] = NoRoom]
    /\ approvals' = [approvals EXCEPT ![n] = [p \in Nodes |-> "None"]]
    /\ queries' = [queries EXCEPT ![n] = {}]
    /\ requests' = [i \in DOMAIN requests |->
                       IF n \in {requests[i].from, requests[i].to}
                       THEN IF requests[i].stage = "Held" /\ requests[i].to # n
                            THEN [requests[i] EXCEPT !.open = FALSE]
                            ELSE Over(requests[i])
                       ELSE requests[i]]
    /\ UNCHANGED <<store, dht, asked, grants>>
-----------------------------------------------------------------------------
UserCommand(n) ==
    \/ \E r \in Rooms : JoinRoom(n, r)
    \/ LeaveRoom(n)
    \/ \E c \in Codes : GenerateInviteCode(n, c)
    \/ \E c \in Codes : EnterInviteCode(n, c)
    \/ LookupRoomUrl(n)
    \/ Refresh(n)

Lookup(n) ==
    \/ \E target \in Codes \cup {"url", "refresh"} : FirstResult(n, target)
    \/ FurtherResult(n)
    \/ LookupEnds(n)

Exchange(i) ==
    \/ RequestArrives(i)
    \/ AcceptInvite(i)
    \/ DeclineInvite(i)
    \/ DecisionDropped(i)
    \/ AcceptedArrives(i)
    \/ RejectedArrives(i)
    \/ TimesOut(i)

Next ==
    \/ \E n \in Nodes : UserCommand(n) \/ Lookup(n) \/ Restart(n)
    \/ \E i \in DOMAIN requests : Exchange(i)

Spec == Init /\ [][Next]_vars

\* Every lookup yields a result in the end: what it finds, or the failure that
\* comes when the query times out.
FairSpec ==
    /\ Spec
    /\ \A n \in Nodes : \A target \in Codes \cup {"url", "refresh"} :
          WF_vars(FirstResult(n, target))
-----------------------------------------------------------------------------
(* Safety *)

\* Every variable keeps its type; in particular every code in the DHT is of a room.
TypeOK ==
    /\ store \in [Nodes -> [Rooms -> Rooms \cup {NoRoom}]]
    /\ active \in [Nodes -> Rooms \cup {NoRoom}]
    /\ key \in [Nodes -> Rooms \cup {NoRoom}]
    /\ code \in [Nodes -> Codes \cup {NoCode}]
    /\ url \in [Nodes -> BOOLEAN]
    /\ wanted \in [Nodes -> Rooms \cup {NoRoom}]
    /\ approvals \in [Nodes -> [Nodes -> {"None", "Open", "Decided"}]]
    /\ dht \in [Codes -> Records \cup {NoRecord}]
    /\ queries \in [Nodes -> SUBSET Queries]
    /\ asked \in Nat
    /\ requests \in Seq(Requests)
    /\ grants \in [Nodes -> SUBSET Rooms]

\* A key reaches a client only by the acceptance of a member who was in the room of
\* that key, whatever is refused, late, lost or answered for another request.
KeysAreGranted ==
    \A n \in Nodes :
        \A k \in {key[n]} \cup {store[n][r] : r \in Rooms} :
            k # NoRoom => k \in Knows[n] \cup grants[n]

\* What a client waits for has a lookup under way that has yielded nothing yet, and
\* two things it waits for have two, although any result may settle either.
LookupUnderWay ==
    \A n \in Nodes :
        (IF url[n] THEN 1 ELSE 0) + (IF code[n] # NoCode THEN 1 ELSE 0)
        <= Cardinality({q \in queries[n] : ~q.answered})

\* A member who holds requests of a client has an approval of that client, which the
\* decision on any of them will find.
HeldIsRegistered ==
    \A i \in DOMAIN requests :
        requests[i].stage = "Held"
        => approvals[requests[i].to][requests[i].from] # "None"

\* A request goes out only for the code that was entered last, to its maker and for
\* its room, whatever results of earlier lookups come in between.
RequestFollowsCode ==
    [][\A i \in DOMAIN requests' \ DOMAIN requests :
          LET m == requests'[i]
          IN  /\ code[m.from] # NoCode
              /\ dht[code[m.from]] = [creator |-> m.to, room |-> m.room]]_vars

LastAsked(n) ==
    {requests[i].room : i \in {j \in DOMAIN requests :
        requests[j].from = n
        /\ \A k \in DOMAIN requests : requests[k].from = n => k <= j}}

\* An answer, late or in another order, takes a client only to the room it asked for
\* last: no record of another room is written.
EntersLastAsked ==
    [][\A n \in Nodes, r \in Rooms :
          store'[n][r] # store[n][r] => LastAsked(n) = {r}]_vars
-----------------------------------------------------------------------------
(* Progress *)

\* A code entered is settled: resolved, failed or given up for another, once the
\* users have stopped looking things up (MaxLookups).
LookupSettles == \A n \in Nodes : code[n] # NoCode ~> code[n] = NoCode
-----------------------------------------------------------------------------
(* What the documents say and the code does not do *)

\* The key stored for a room is the key the room was made with (docs/06-invite.md:
\* the member who admits a client hands it the key of the room of the code, and the
\* key of a room is a fixed value).
KeyFitsRoom == \A n \in Nodes, r \in Rooms : store[n][r] \in {r, NoRoom}
=============================================================================
