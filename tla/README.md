# Formal models of mono-services

TLA+ specifications of the services under `src/services`, checked with TLC; their safety
properties are also proved with TLAPS, some under hypotheses that *Proofs* names. They say what each service keeps, which steps it takes and what other steps may come in
between, and state what must hold nevertheless. Every definition is a translation of the Go code;
`PROJECT.json` (`map`) names the lines of each.

## The system

Eight services; all but message-handler keep a MongoDB database of their own. They call each other over gRPC and tell each
other what has happened over Kafka topics. No state is shared in memory between services; inside a service
handlers run concurrently, and a repository call is the unit that is atomic.

| Component | State | Operations | What is hard | What makes it correct |
|---|---|---|---|---|
| **matchmaker, queue** (`service`, `kafka`, `director`, `matchfunction`) | collections `ticket`, `queuedPlayer`, `pendingMatch`; locals of a director run | `QueueByPlayer`, `ChangePlayerMapVote`, `DequeueByPlayer`, the party consumer, a director run every second | a run is fourteen repository calls, with handlers in between; a failed call ends the run where it is; panics | queued players have tickets, tickets and pending matches name each other, matches have the right size, a ticket is announced once, the map is one most voted for, everybody is matched in the end |
| **matchmaker, lobby and proxy** (`simplecontroller`) | a map under a lock, locals of a loop | `QueuePlayer`, the loop | requests while a batch is being placed; allocations in parallel | nobody is lost, placed twice or announced twice |
| **party-manager** | collections `party`, `partyInvite`, `partySettings`, `event` | the gRPC handlers of parties, invites, settings and events; the connection consumer; the event scheduler | handlers read a party and write later what they decided from it; connections are handled late; any repository call may fail half-way through | every player is in exactly one party, its leader is in it, listeners hear the same, an event gets its party |
| **relationship-manager** | `friend`, `pendingFriend`, `block` | `AddFriend`, `RemoveFriend`, `DenyFriendRequest`, `MassDenyFriendRequest`, `CreateBlock`, `DeleteBlock`, lists | requests that cross; checks before writes; a goroutine that announces later | nobody befriended unasked, friendships once, no request between friends, no friendship over a block, listeners hear the same |
| **permission-service**, **message-handler** | `role`, `player`; the handler's `roleCache` | `CreateRole`, `UpdateRole`, `AddRoleToPlayer`, `RemoveRoleFromPlayer`, `GetPlayerRoles`; chat messages | a role is read, replaced and announced in three calls; the default role is inserted by a read; a cache filled at start and from then on from the topic | an update that no other one meets loses nothing it was not asked to change; chat messages look as the database says |
| **mc-player-service** | `player`, `loginSession`, `experienceTransaction` | connect, switch and disconnect messages; role messages; badge and experience calls | whole documents written back over what others wrote; two writes that belong together; messages while calls are under way | sessions and tracker match connections, the active badge is owned, experience adds up, badges follow roles |
| **game-tracker** | `liveGame`, `historicGame`; the example structures game data are parsed into | start, update and finish messages | reordering, redelivery, crashes between two writes, a structure all games share | the collections hold what the games have sent, and a finished game stays finished |
| **game-player-data** | one document per player and game mode | update messages; two requests that read | an update names some fields, the save replaces the document; messages without a key; pointers that may be nil | the fields are those last sent, whatever came together |

How they interact: the proxies write connections to `mc-connections`, read by party-manager,
relationship-manager and mc-player-service. Party-manager writes `party-manager`, read by the matchmaker,
which also calls `GetParty` and `GetPartySettings`. The matchmaker allocates servers with Agones
and writes `matchmaker`, read by the proxies and servers. Permission-service writes
`permission-manager`, read by message-handler (role cache) and mc-player-service (badges).
`src/builder`, `src/libraries` and the configuration hold no state of the running system.

## Modules

| Module | Models |
|---|---|
| `PlayerDispatch` | abstract: players wait, are taken in batches, and leave in one announced match |
| `SimpleController` | `simplecontroller/simple_controller.go`; implements `PlayerDispatch` |
| `SimpleControllerProofs` | its theorems |
| `GameMode` | the sizes of a match, shared by the two match functions |
| `Countdown` | `matchfunction/countdown.go` as operators: the sets of results one call may have |
| `Instant` | `matchfunction/instant.go`: the matches of one pass over the tickets |
| `MapVotes` | `calculateMaps` of the director: the most voted maps of a match |
| `MatchQueue` | abstract: tickets wait with their players, may ask to leave, and leave in one announced match or because they asked |
| `Matchmaker` | the queue: handlers, votes, consumer, and a director run of either method, call by call; implements `MatchQueue` |
| `MatchmakerProofs` | its theorems |
| `PartyManager` | the party manager: handlers, settings, consumer, event scheduler, failures |
| `PartyManagerProofs` | its theorems |
| `Relationships` | the relationship manager: friends, requests, blocks |
| `RelationshipsProofs` | its theorems |
| `PlayerRoles` | permission-service: which player holds which role, and the announcements |
| `McPlayer` | the player service; composed with `PlayerRoles`, whose announcements it reads |
| `McPlayerProofs` | theorems of both |
| `RoleCache` | permission-service: what a role is; message-handler: the cache of it, and chat messages |
| `RoleCacheProofs` | its theorems |
| `GameTracker` | the game tracker: live and historic games |
| `GameTrackerProofs` | theorems of it and of `GameServices` |
| `GamePlayerData` | game-player-data: updates of what players have set up |
| `GamePlayerDataProofs` | its theorem |
| `GameServices` | composes `GameTracker` with `GamePlayerData` |
| `MC…` | the constants and symmetry for TLC; one `.cfg` per run |

In all of them a step is one repository call with the local work up to the next one. The calls themselves are small
operators of their own (`DeleteTicketsById`, `CreateInvite`, `AddPlayerBadge`), and an action says who makes the call, when, and what comes next.

### SimpleController

`pc` is where the goroutine of `run` stands: `loop` (the sleep and `resetQueuedPlayers`), `create` (the loop
over the batch, one player a step in any order), `allocate` (`AllocateServers`, one answer a step),
`notify` (one `MatchCreated` a step). `QueuePlayer` is one step at any moment, for it holds the lock; so is
`ResetQueuedPlayers`. A failed allocation is only logged, so an answer is just an answer. Shutdown may
lose what is queued, as in the code.

### Matchmaker

Three Mongo collections (`tickets`, `queuedPlayers`, `pendingMatches`); `pc` names the repository call
the director makes next and `batch`, `ticketMap` and `plan` are the locals of `processDequeues` and
`runMatchFunction`. Every action of the director is one call with the local work up to the next one, and
any handler may run in between. `QueueByPlayer` takes three: `GetParty`, the check that the party is not
queued, and the transaction that writes the ticket and its queued players. `CallFails` is a call that fails (the run returns and starts
anew), `Crash` the death of the process. `CancelAndPlan` panics where the code
dereferences the missing ticket. `Countdown` states what a call of `RunCountdown` may return for tickets of
which sizes, whatever the order of maps and of equal elements in a sort.

With `Method = "INSTANT"` a run reads the tickets (`ReadTicketsAndMatch`, any order the database may
return) and `RunInstant` makes matches of them at once; there are no pending matches. `votes` is the `mapId` of
queued players, set by `QueueByPlayer` and `ChangePlayerMapVote`; `CalculateMap` reads those of one match after the other and draws one of
the most voted maps. The comparison of `calculateMaps` takes the maps in the order of a Go map: `MostVotes` gives the results of all orders.

`MatchQueue` is what a run amounts to: `queueTickets` are the stored tickets with their players and whether these asked to leave, and
`announcedMatches` the groups of tickets announced and not yet deleted. An announcement is the step *Match*, the deletions after it *LeaveMatched*,
the deletion of marked tickets *LeaveAsked*; every other call of a run is a stutter.

The party service appears as what the matchmaker sees of it: the parties `GetParty` returns and the messages
about their changes, `PartyEmptied` being none because the consumer has no handler for it.

### PartyManager

A call is a record in `calls`: the operation, the repository call it makes next (`at`), and what it has
read (`seen`). Handlers start a call with their first read; each step is one repository call with the
notifications up to the next. Actors are the players, `admin` (other users of the API), the `consumer` of
the connection topic and the `scheduler`. The unique indexes are `Indexed`: an insert or update they refuse
is an error, and an error ends the call with all it wrote in place. `heard` is what a service knows that
only reads the party topic. Events have a start time that is `later`, `due` or `started`, and are `displayed` or not.
`memberInvites` is the one setting this service reads; `StoredSettings` says who has a settings document, since nothing ever creates one.

`CallFails` ends a call before its next repository call, for an error or a timeout; `Crash` is the end of the process, with
every call under way, which `InvitePlayer` can cause: its gRPC handler goes on after errors it does not know, without an invite. The
history variable `hurt` holds what a failure may leave behind, and the properties exempt that and nothing else: the players who may be without a party,
until they connect anew, and the event half started or half deleted. `heard` is followed up to the first failure, for
a message that was due may then never be sent.

### Relationships

The three collections are functions from ordered pairs of players to the number of documents, so that the unique
indexes (`Insertable`) have something to prevent. `calls` holds the calls under way in named slots;
`AddFriend` is six steps and its announcement, which the code leaves to a goroutine and the model to the last step of the
call; `RemoveFriend` and `CreateBlock` are two; the others make one repository call and are one step.
`CallFails` ends a call before its next repository call or notification, which covers errors, timeouts and the
end of the process. `heard` is what a reader of the relationship topic believes.

Three history variables say what a property may ask for: `asked` (who ever asked whom), `crossed` (pairs about which
two calls were under way at once) and `failed`. Nothing in the code stops two calls about one pair from spoiling each
other's checks, so the properties say what a pair keeps *as long as its own calls do not cross*, whatever
calls about others do; only the types and `FriendsConsented` hold whatever happens.

### PlayerRoles and McPlayer

`PlayerRoles` keeps the roles of players. A change of a role is two steps, the insert and the announcement; `GetPlayerRoles` of
a player who has no document inserts the default role. Announcements may get lost or be read in another order,
for the writer is asynchronous and the topic may have several partitions; `tangled` remembers the roles to which that
happened.

`McPlayer` adds the player service. `net` is where a player really is and `connections` what the proxies have said
about it. `doc` is the player document with the fields properties can tell apart: badges, the active badge, the server (kept as
*off*, *proxy*, *server*) and experience. `open` counts login sessions without logout time, `ledger` sums the experience
transactions. One goroutine reads both topics (slot `consumer`), so a connection and a change of roles never run at the same time,
but gRPC calls (`Slots`) run with either. `HandleConnect` reads the document that `SavePlayer` writes back as a whole two
steps later; `crossed` remembers the fields another call wrote in between. A failed `CreateLoginSession` is only logged; any other
failed call ends its handler (`failed`). A logout without a session to close ends there (`ErrNoDocuments`). A role that grants no badge makes the handler panic (`Panic`).
Left out: names, skins, times and play time; searches and counts.

### RoleCache

A role is the set of what is set in it: a display name, and permissions. `UpdateRole` reads the role, `ReplaceRole` replaces the whole
document, `RoleUpdate` announces it. message-handler fills `cache` when it starts (`cacheRoles`) and then takes every announcement
(`handleRoleUpdate`); it may die at any moment and then reads the topic from where it was, once more, or a message later.
`handlePlayerChatMessage(held, known)` is what a chat message looks like when the handler knows the roles `known`: it is applied to the
cache and to the database, and `ChatFollowsRoles` says that the results are equal. `tangled` holds the roles two calls changed at once or whose
announcements were lost or reordered; a restart of the handler clears it.
Left out: changes of priority, private messages.

### GameTracker

`sent` is what the game servers have said, each message about a game with its number. A document is the number of the message
its common data are from and, per game, the number of the message the data of the game mode are from, which tells whose data they are
and how old. A handler's first repository call is part of reading its message; a finish makes three calls (read, delete the live game, save
the historic one). `example` is the one structure all block sumo games are parsed into. Messages are read in any order
(`disordered`); a crash may bring back the message being handled.
Left out: teams, winners and the fields themselves.

### GamePlayerData

The value of a field is the number of the update it came from, so a document tells how old each of its fields is.
`HandleUpdate` is the read of the document with the merge of the masked fields, `Save` replaces the document. Messages have no key and
are read in any order (`outOfOrder`); a failed call drops the update, a crash may bring it back, and an update that has no mask, or
no animation where its mask names one, ends the process (`DereferencesNil`). The service shares nothing with the
game tracker, so one run checks both: in `GameServices`, the behaviours of `SpecBoth`, either runs while the other is at rest.

## Runs

Every run explores all states of its instance; `queue_progress`, `party`, `party_race` and `players` all that their constraints admit. Ids are ObjectIDs and never used
twice; an id that nothing names any more stands for a new one, so small pools do for behaviours of any length.

| Run | Shows | Bounds |
|---|---|---|
| `lobby` | types, nobody is placed twice, sizes of matches, refinement of `PlayerDispatch`, whoever queues is announced unless the service stops | 3 players, matches of 2: a full and a partial match in one batch |
| `queue` | no queued player without ticket; no nil ticket, and flags and pending matches agree; matches have enough players; a ticket is announced once | 2 players who may share a party, 3 party and ticket ids, 2 pending matches, 2 requests at once, 1 party change, 1 unread message, 1 failed call or crash; matches of 2 to 3 |
| `queue_progress` | pending matches are resolved, tickets placed, dequeued tickets leave, unless their mark was lost by a reset | 2 players who may share a party, 2 party and ticket ids, matches of 2, 1 request at a time, 1 party change, 1 unread message, no failures |
| `queue_instant` | types, so no vote without a queued player; INSTANT implements `MatchQueue`: what is announced fits, names tickets that wait and none in two matches, and who leaves has asked to or was announced, whatever the order of the tickets; no map has more votes than the one drawn | 4 players in two parties (a pair and a pair, three and one), matches of 2 to 3, 2 maps, every vote and change of vote |
| `queue_overfill` *(violated)* | a full pending match gets more tickets | 3 players, two of them in one party, matches of 2 |
| `queue_twice` *(violated)* | two pending matches of the same tickets | 3 players on their own, matches of 1 to 2 |
| `party` | types and indexes; when nothing is under way every player on the network is in a party, led by a member, and only leaders are off it; listeners agree; no start of an event ends without an open party that has the owner alone; event and party name each other, and no party keeps an event that is gone | 3 players (joining a pair, kicking one of two, electing among two), one of whom may let members invite, 1 invite, 1 unread connection message, 1 call at a time, 1 failure or crash anywhere; 1 event, displayed and started again and again, without invites, changed settings and failures |
| `party_race` *(violated)* | `EmptyParty` takes the party of a player who joins meanwhile | 3 players, 2 calls, nobody disconnects |
| `relationships` | nobody is befriended unasked; for pairs whose calls do not cross (and, where it says so, do not fail): friends are not blocked, one friendship and one request at most, no request between friends, listeners agree with the friend lists both are shown | 2 players, one of whom also deals with himself; 2 calls at once; calls of 1 pair may fail |
| `players` | tracker and sessions agree with where the player is; who is shown on a server has a session; the active badge is owned; experience is the sum of its transactions and is never taken; badges follow roles; a role is lost only by a call that removes it | 1 player, the default role and one that grants a required badge, one more badge given by hand; the consumer, 1 gRPC call and 2 calls about roles at once; 1 unread connection, 2 unread role changes, 1 gain of experience, 1 failure or crash |
| `roles` | updates that no other one meets change what they were asked to and nothing else; chat messages look as the database says, across restarts | 2 roles of different priority, 2 calls at once, 2 unread messages |
| `games` | types; the collections hold what the games have sent; a finished game stays finished, whatever fails; a player's data are, field by field, those last sent | 2 games of block sumo, which share a structure, and 1 of tower defence, which do not; 3 messages about each (start, update, finish), 2 of them unread, 1 failed call or crash. For player data: 1 player in 2 modes, 2 updates in each with any mask, 2 of them unread, 1 failed call or crash |

`players` has the constraint `OneTrouble`: behaviours end at the second kind of trouble (a failure, a crossing, a reordering), which keeps the
run small; most of the properties excuse a player, field or role after its first. One player is enough, since no step of the service reads or writes the
documents of two. Deadlock is not checked where a system comes to rest by its bounds: in the matchmaker's runs (no player, ticket
or fault left) and in `games` (all games over).

Every property of a passing run is broken by a mutant of the code (`PROJECT.json`, `mutants`): the *faulty
variants* in the modules are these.

In `queue` MaxPlayers exceeds the number of players, who are too few for one call to make two pending matches: what `queue_overfill` and
`queue_twice` show would hide everything else. `NoOrphanQueuedPlayer` and `PendingMatchesAgree` are conditions on runs without failures (`faults = 0`): after a failed
call the code does leave such states, and nothing in the repository promises otherwise (see *hazards*);
the first part of `AnnouncedOnce` holds with one failure too, with a countdown. `MatchesFit`, the sizes of matches by
themselves, is the property `queue_overfill` violates; for INSTANT it is part of `ImplementsMatchQueue`, and a theorem. The constraint of `queue_progress`, `OneNaming`, says which id the
parties of the initial state have: symmetry would say the same, but is not sound for liveness. In `queue_progress` a member who leaves his party has the requests of
its ticket reset, while others mark it.

In `party` one call is under way at a time, but players come and go in the middle of it and their
connection messages are handled late. With two calls the main property fails (`party_race`), so more calls would
show the same failure again. Party ids are only ever compared, so states that differ in which id a party has are the same to every step:
the `VIEW` of `party` names a party by its leader, who leads no other (unique index), and one that is
gone by the invites, events and calls that still name it. Its constraint, `EventsApart`, ends behaviours in which an event, or what is left of one, meets an invite,
a changed setting or a failure, and lets one player own the event: nothing sets the players apart as long as no setting has changed. Three larger instances were checked
once, without invites: one event of 3 players with one failure, two events of 2 players with one failure, and two events of 3 players.
The constraint of `party_race` keeps out disconnections, so that the run shows `EmptyParty`; see *Findings* for what it would show with them.

The topics of parties and of relationships are modelled as if they were read in the order they are written, although their writers are asynchronous and
give no key: `ListenersAgree` is about what is written, and the consumer of the matchmaker meets messages
late but in order. The topics of roles, of game data and of games, where the order decides what is stored for good, are read in any order.

Many properties leave out the states that a failure, a crossing or a reordering has spoiled, because the code does spoil them: `PROJECT.json` says so at each hazard (`note`).
Such a property says that nothing else spoils them.

### Fairness

`queue_progress` assumes weak fairness of the director (its goroutine never stops and every
repository call has a timeout of five seconds) and of time. `lobby` assumes weak fairness of the loop, which
waits only for allocations that have a timeout. Players, requests and messages are not fair. The other
runs have no liveness property: there every call simply ends, and a message that is lost is never asked for again.

## Findings

1. **A full pending match is filled again** (`countdown.go:136`). Its space is computed over the waiting
   tickets, which never include its own. (`queue_overfill`)
2. **Two pending matches of the same tickets** (`countdown.go:190`). Each iteration of `createPendingMatches` fills its match from the same list, from which nothing is
   removed. When both are due in one run the tickets are announced twice; when one is due later, it names tickets that are gone, and the director panics. (`queue_twice`)
3. **A player without a party** (`party/service.go:37`). `EmptyParty` overwrites the members with those of its
   copy; who joined after the read is thrown out, without a party of his own. (`party_race`)

Observations that no run is about; except where one is quoted, no text of the repository contradicts them:

- Matchmaker, both methods: the reset of removal requests (`director.go:171`) also unsets a mark that came after the read, and that
  request to dequeue is lost: without its clause about `batch.reset`, `DequeuedTicketLeaves` fails in `queue_progress` (a member left the party and has been read as leaving,
  the ticket is then marked, and the reset takes the mark with it). Who leaves his party stays in its
  ticket and loses only his queued player (`director.go:136`): he is matched with the old party, and when he has queued again in the
  meantime the end of that match deletes his new queued player. `ChangePlayerMapVote` reads the ticket and sets the vote by player, which may by then belong to another ticket.
- Matchmaker, countdown: when no waiting ticket fits a new match, `createPendingMatches` loops for ever. A failure in `calculateMaps` loses the match, whose pending match is gone by then.
- Matchmaker, INSTANT: a ticket that overflows a match sends it off as it is, even below MinPlayers (`instant.go:26`), hence
  `MatchesHaveEnoughPlayers` is about countdowns. A crash between the announcement and the deletion of the tickets announces them again.
- Party manager: of two calls at once, a join has deleted the player's own party when his disconnection is handled: that finds no party, and the join then makes a member of one who is gone
  (`party_race` without its constraint). The gRPC handler of `InvitePlayer` ignores the errors it does not know and dereferences the missing invite, which ends the process; its comment
  (`grpc/party.go:202`) has a party created for an inviter who is in none, and nothing does that. A failure after the pull of a leader leaves a party led by
  somebody who is not in it, and the unique index keeps that leader from any other party; two such failures may leave a member who has
  disconnected in a party for good (`LossesMarked`). A start of an event that fails is never repeated. Two events of an owner share a party, and deleting one
  takes the party from the other. `UpdatePartySettings` fails for a player without a settings document, so none is ever created.
- Relationship manager: `AddFriend` answers `YOU_BLOCKED` for every block, since `ContainsPlayer` (`model.go:28`) is true of
  both players of a block, and never `PRIVACY_BLOCKED`; a player whose two requests to himself cross becomes his own friend, since
  nothing asks whether the players differ.
- Player service: a role without a badge in the configuration panics the consumer (`badge/consumer.go` uses the badge it
  did not find). A role given before the first login never brings its badge: a player without a document is taken for one who has it. (Hence
  *after the first login* in `BadgesFollowRoles`.) Nor does the default role, which a read inserts and nobody announces; the
  configuration ties no badge to it (`config.yaml:21`, `:42`: owner and staff). `SetActiveBadge` returns `ErrPlayerDoesntHaveBadge` while
  `grpc/badge.go` tests for `ErrDoesntHaveBadge`. `calculateActiveBadge` looks at priorities only, although the comment of
  `UpdateActiveBadge` speaks of required badges.
- Game tracker: the data of all games of a type are parsed into one structure (`ParseGameData`), so a block sumo game whose update
  has no data is saved with entries of another game (`mixed` in `AsSent`). An update of tower defence data that were never set panics.
  The parsers of a finish set the data without their type (`game_parsers.go:28`, `:64`), so `GetHistoricGame` would fail to parse such a game (`models.go:73`); nothing calls it.
- Game-player-data: so does an update without a mask, and one of the animation without an animation.

## Proofs

Every safety property that a run checks, invariants and action properties alike, is also a theorem, and so are the refinements of
`PlayerDispatch` and `MatchQueue`. The theorems hold for any players, ids, roles, badges, games and bounds that the named assumptions
allow; some hold under a further hypothesis, and the theorem states it. Each proof is Init ⇒ IInv, then one lemma per
action for IInv ∧ [Next] ⇒ IInv′, then the theorem by PTL.

- `SimpleControllerProofs` (from `ControllerAssumption`): `TypeCorrect`, `NobodyPlacedTwice`,
  `MatchSizes`, and `Refinement`, that the controller implements `PlayerDispatch`. The inductive invariant
  adds to the properties that the players of the batch are exactly those not visited yet, those in
  the current match and those in finished ones, and that these parts are disjoint; without it a step that places a
  player would not be known to place him once.

- `MatchmakerProofs` (from `MatchmakerAssumption`: finitely many players, no party larger than a match).
  - Both methods, whatever fails: `TypeCorrect`, `QueuedPlayersHaveTickets`, `MapsAreMostVoted`. A
    queued player without a ticket does exist *within* a run, between the deletion of tickets and that of
    their players, so the invariant is stated for the players not in `Doomed`, those the run will
    still delete; this needs `MarkedCollected` (the run has collected the players of every ticket it is about to
    delete, which holds because tickets never gain players) and `ReadStillTrue` (what the run has read of a
    ticket is still true of its players, and it finishes only matches whose tickets it has read).
    `MapsAreMostVoted` goes through every order in which `calculateMaps` may compare the maps.
  - `Method = "INSTANT"`: `InstantMatchesFit` and `InstantAnnouncedOnce`, from `InstantRun` (the matches of a run share no
    ticket, name tickets it has read, and fit) and `PartiesAllowed` (no queued party exceeds MaxPartySize). `PassFits` proves what one pass of
    `RunInstant` gives for any number of tickets in any order. Of countdowns `MatchesFit` is false (`queue_overfill`).
  - `Method = "COUNTDOWN"`: `CountdownAgrees`, `CountdownPlacesOnce`, `CountdownHasEnoughPlayers` and, for `FaultBudget <= 1`,
    `CountdownAnnouncedOnce`, of behaviours with `[]OneAtATime`: no call of `RunCountdown` makes two pending matches.
    The hypothesis leaves out the fault of `createPendingMatches` (`queue_twice`), and nothing but it: without it `TicketsPlacedOnce`
    is false, and with it the other steps keep what a ticket is in. In the instance of `queue` it always holds. The invariant, `CountdownRun`, cannot speak of the flags and pending matches as they
    are: a run writes them in several calls and between these they disagree. It says that they agree as they *will be* once the rest of
    the run's writes are done (`Agree`), that what the run has read is what it will find (`ReadAgrees`), and that its
    matches are disjoint and large enough (`MatchesGood`). The one failure matters only if it
    leaves behind tickets that were announced and are still stored (`Stale`); they keep their flag and no pending match names them, so once these are set
    apart (`Settled`) all of it goes on to hold, and no later run takes them (`AnnouncedGood`).
  - `CountdownOfFew`: of behaviours with `[]FewWaiting` the same holds without `[]OneAtATime` (`FewPlayersOneMatch`). `FewWaiting` is about what
    waits rather than about the code: whenever the match function starts, the waiting players fit into one match, or they are at most
    MaxPlayers − MaxPartySize + MinPlayers, so that a second match never gets enough. Then the hypothesis may be read off the load.
  - `InstantImplementsMatchQueue` and, with `[]OneAtATime`, `CountdownImplementsMatchQueue`: without failures (`[](faults = 0)`, which
    `TypeCorrect` gives when `FaultBudget = 0`) the queue implements `MatchQueue`, for which INSTANT allows the matches of at most MaxPlayers and
    COUNTDOWN those of at least MinPlayers. `QueueRun` says that tickets the run is about to delete were asked for or announced, that those it
    is about to announce are stored and still as it read them, and that those announced are deleted next, together; each action of the director
    is then a step of `MatchQueue` or a stutter.

- `PartyManagerProofs` (from `PartyAssumption`): `TypeCorrect`, which includes the unique indexes (no player in two parties, none leading two),
  for calls that interleave, fail and are cut short in any way. The others have the hypothesis `MaxCalls = 1`, calls that do
  not overlap, while players come and go and their messages wait; `party_race` shows that two calls at once break the first of them.
  - `NobodyIsLost`: `PlayersHaveParties` as long as at most one call has failed (`failures <= 1`), wherever it was; `TopicIsComplete`: `ListenersAgree`. `Sequential` says
    what a call still knows from its last read, and that the last connection message about a player says where he is; `Contained` what is true
    of the parties *but for* the one player a call has in hand and for those in `hurt`: when a call fails, the one in hand becomes one of these.
    `Permitted` says what the unique indexes will ask of the call: whoever is about to get a party leads no other.
  - `LossesAreMarked`: what remains of it after any number of failures (`LossesMarked`). The bound 1 above is sharp. A call that fails after the pull of a leader
    leaves a party whose leader is in none, and while such a party is empty the index on members refuses to take the last member out of
    a second one: his disconnect, which fails for no fault of its own, leaves him in a party off the network (`Stuck`). TLC shows it with 3 players and 2 failures,
    one more than `party` has.
  - `EventsGetParties` and `EventsKeepParties`, the latter whatever fails: `Hosting` follows an event through the steps of its start and its deletion.

- `RelationshipsProofs` (from `RelationshipAssumption`): `TypeCorrect`, `Consent`, `Unblocked`, `OneOfEach`, `NoRequestLeft` and `TopicTellsFriends`,
  for any number of calls at once. `FriendsConsented` is
  not inductive: `ConsentInv` adds that every request was made by its requester and that a call about to
  store a friendship has seen the request of the other. For `FriendsUnblocked`, `Alone` says that two calls under
  way about one pair have crossed, and `UnblockedInv` that a call between its check and its write still has
  its check true, unless crossed; the step that stores then cannot meet the check of another call. `Orderly` says the same of friendships, requests
  and the topic, pair by pair, at every step of a call.

- `McPlayerProofs` (from `McPlayerAssumption` and `RolesAssumption`: badges have different priorities, as in the configuration, and no two roles grant the same one, because a badge has one `PermissionRole`, `config/badge.go:63`): `TypeCorrect`, `TrackerCorrect`, `SessionCorrect`,
  `ActiveBadgeCorrect`, `ExperienceCorrect`, `ExperienceOnlyGrows` (an action property), `RoleBadgesCorrect` and `RolesAreKept`, for any number of players, calls, unread messages and failures, where `players` has one player. `BadgeInv`, `ExperienceInv`,
  `TrackInv` and `GrantInv` say, step by step, what a call in the middle of its writes still owes. The last two are about lists:
  the unread messages about a player, or about a player and a role, form a trail from what the service believes to what
  is true (`Trail`), so reading the first leaves a trail. `RoleBadgesCorrect` has the hypothesis that the default role grants no badge, which the
  configuration satisfies and without which it is false (see *Findings*).

- `RoleCacheProofs` (from `RoleCacheAssumption`): `TypeCorrect`, `ChatCorrect`, `UpdatesAreKept`. The invariant says that the last unread announcement of
  a role, or if there is none the cache, is what the database says, once the role's call has announced it and unless it is tangled.

- `GameTrackerProofs` (from `GameTrackerAssumption`): `TypeCorrect`, `FinishedForGood` (an action property), `CollectionsCorrect` and, of `GameServices`,
  `FieldsCorrectOfBoth`, by `ServicesApart`: a behaviour of both is one of each. `FinishInv` adds what
  messages say about the order of things: a finish is the last message of its game, so once it is read in order nothing else about the
  game is left to be read (`Ended`), and what a crash brings back is that finish again. `SentInv` says of every game whose messages are read in order
  how far the collections are behind what was sent: by its unread messages and by the call that is under way.

- `GamePlayerDataProofs`: `FieldsCorrect`. `OrderInv` says that the unread updates are all later than what is known of a player (his document, or the one about to replace it), and that
  for each field they lead from what is known to what was sent last. The hypothesis `NoneApart` only says that the value that stands for
  *no document* is none of the documents.

In several of these modules the operators that name repository calls are expanded for the whole module (`USE DEF` at its head), so that the
leaves name only actions and invariants.

Facts that need induction (a pass over any number of tickets, the list of unread messages, the bag of a new pending match) are proved
about sets: a set of numbers or of subsets that has a counterexample has a least one (`UpTo`, `BySubsets`), and a recursive function is
the one that exists by `RecursionExists`. None of the modules with theorems has a RECURSIVE operator.

The candidates were checked by TLC before they were proved: `IInv` of the matchmaker and `CountdownRun` on the `queue` instance (the latter with one failure, and by
simulation with 3 players, 6 tickets and 3 pending matches), where `OneAtATime` holds and `FewWaiting` does not, for a player may be in two tickets; that countdowns
implement `MatchQueue`, on the same instance without failures; `FinishInv` and `SentInv` on `games`; the invariants of `McPlayer` on `players` and by simulation
with 2 players, 2 calls, 3 unread messages and 2 failures; `Contained` with 2 players and 3 failures and with 3 players and 2; `OrderInv` with 1 player and 2 updates and by simulation with 3 updates. These checks are no runs of the project: the
theorems have taken their place.

Only model-checked:

- the four liveness properties (`QueuedPlayerIsMatched`, `PendingMatchResolves`, `TicketIsPlaced`, `DequeuedTicketLeaves`), because the prover knows neither fairness nor ENABLED;
- that `PlayersHaveParties` fails when calls to the party manager overlap (`party_race`), and the two faults of countdowns. Of such calls only `TypeCorrect` is proved, and of countdowns
  with these faults what is said of both methods.

## Not modelled

- Matchmaker: several game modes at once, private matches, redelivery by
  Kafka, more than one replica, bulk writes that fail half-way.
- Party-manager: requests that only read, the messages about events (nothing reads them back), the two settings that only
  the matchmaker reads. `InvitePlayer` is one step (the comment there says why).
- Relationship manager: the notification of requests and of connections (nothing reads them back; whom the latter
  reaches is `FriendsOf`), the lists of requests and of blocks, which only read.
- Player service: names, skins, times and play time, the searches and counts that only read.
- Permission-service and message-handler: changes of priority, private messages (which keep no state), the badge shown in a chat message.
- Game tracker: teams, winners and the fields of the data.
- Game-player-data: modes the handler does not support, which it only logs.
- `src/builder`, `src/libraries` and deployment.

## Plan

The modules and their safety theorems are done. What is left, the most important first:

1. `PartyManager`: an abstract directory of parties (each player in one) that the calls implement when they do not overlap; what calls that overlap may break, and what not.
2. `RoleCache`, `PlayerRoles`: an abstract register that is changed at once, implemented by each update that is alone.
3. `GameTracker`: the same for a game (*live, then finished, then never live again*).
4. Badges of equal priority: the code shows the one the player got first (`calculateActiveBadge` compares with `>`), so the model would need the order of the badges; the configuration has none.
