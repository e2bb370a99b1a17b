# team-presence in TLA+

team-presence shows a team what its coding agents are doing, live. On every
laptop a *collector* captures agent sessions and streams them over a WebSocket
to the *server*, which keeps session metadata in Postgres and content in Redis
streams and fans both out to browsers over SSE; around that sits a small
project tracker (stories, sprints, comments) used by people and, through MCP,
by agents. This directory models that system, model-checks it with TLC and
proves the safety of its core with TLAPS.

## 1. Inventory

| component | state it keeps | operations | talks to |
|---|---|---|---|
| **session registry** `server/src/session`, frame handlers in `ws/collector.rs` | `sessions_meta` rows (heartbeat, end, story), one Redis stream per session | start / content / end / heartbeat frames, reassign, reaper tick | Postgres, Redis, grid, rooms |
| **live board** `sse/grid.rs`, `useSseGrid.ts` | per page: stream state, tiles | list, subscribe, apply tile, evict, reconnect | registry via pub/sub |
| **room feed** `sse/room.rs`, `useSseRoom.ts` | cursor, line buffer | backfill, tail, reset, resume | Redis streams |
| **collector socket** `ws/collector.rs::run_session`, `collectors.rs` | open sockets, tokens | authenticate, periodic re-check, mint, revoke | pump |
| **collector pump** `collector/src/ws_client.rs`, `start.rs` | bounded channel, replay buffer, back-off step | connect, send, replay, back off, stop on 401 | server, tailers |
| **heartbeat and mute** `heartbeat.rs`, `mute.rs` | active session list, mute flag file | tick, add/remove, gate | pump |
| **capture** `capture/*.rs` | file offsets, partial line, thread cursors, SQLite cursors | poll, parse, end when idle, hook start/stop | pump |
| **authentication** `auth/*`, `api.ts`, `auth.tsx` | users, refresh tokens, JWTs, the browser's token | bootstrap, login, refresh (rotate), logout | everything behind `require_identity` |
| **stories, relations, activity, comments** `stories/*`, `comments/*`, `epics/*`, `sprints/*` | tracker rows and an append-only activity log | CRUD, move, relate, comment | activity stream, MCP |
| **MCP tools** `server/src/mcp.rs`, `tp-mcp` | none of their own | story create / edit / claim / move, tick an acceptance criterion | stories |
| **activity stream** `sse/activity.rs`, `useStoryActivityStream.ts` | cursor | tail | stories |
| import, downloads, installer, collector set-up, pages | files, templates, rendering | - | - |

Components interact in four ways: frames on a WebSocket (ordered, lost when the
socket dies), rows in Postgres (each statement atomic, handlers are not), Redis
streams (persistent, trimmed at `MAXLEN`) and Redis pub/sub (reaches only
whoever is subscribed now).

What is hard here:

- *interleaving*: every handler is a chain of awaited statements; two sockets
  of one collector, an HTTP request and the reaper write the same row;
- *stale snapshots*: tiles are built from a row read earlier and published later;
- *lost messages*: pub/sub keeps nothing, emission is best effort, and a frame
  written to a dead socket counts as sent;
- *crashes*: what the reaper still has to announce is only in memory;
- *time*: 30 s heartbeats, 60 s ticks, 90 s staleness, the pump's back-off;
- *read-modify-write*: acceptance criteria, refresh tokens, bootstrap.

What makes each component correct:

- registry: a session ends once and by one party; a person's choice of story
  outlives reconnects; nothing untrue is announced; silent sessions end;
- board: no live session is shown as ended; every beating session appears; what
  ended stops being shown as live;
- room: a viewer sees the frames of the retained stream in order, each once;
- pump: frames are sent in order, at least what was buffered is replayed, a
  revoked token stops accepting frames within a bounded number of frames;
- capture: each complete line becomes one frame, and a mute takes effect at the
  next frame;
- authentication: one first admin, a rotated token is worthless, concurrent
  tabs do not log each other out;
- tracker: the activity log agrees with the rows, concurrent edits of different
  things do not undo each other.

`PROJECT.json` lists the hazards behind these at their lines. Paths of the Rust
code are relative to `src/crates/`, those of the pages to `src/web/src/`.

## 2. Modules

| module | what it is |
|---|---|
| `SessionRecord` | abstract contract of a row of `sessions_meta` |
| `SessionRegistry` | the registry: connections, requests, reaper, one step per awaited statement |
| `GridFeed` | `SessionRegistry` composed with the pages of the live board |
| `CollectorLink` | the collector's channel and pump, the network, the server's socket tasks |
| `TranscriptCapture` | the tailers of one Claude Code session and their mute gates |
| `CodexCapture`, `OpenCodeCapture` | the tailers of the two agents that have no hooks |
| `AgentCapture` | either of them, as the daemon is started for one kind of agent |
| `RoomLog` | abstract contract of a session's page: a log shown in order |
| `RoomFeed` | the Redis stream of a session, the task that serves it, the page's hook |
| `StoryLedger` | abstract contract of the log of a story's statuses |
| `BoardTools` | what tp-mcp, the hosted tools, the pages and the importer ask for |
| `StoryBoard` | stories and their log under such requests, one step per statement |
| `StoryLinks` | relations, comments, sprints and epics, and their entries in the log |
| `AuthSessions` | users, refresh sessions, and a browser whose tabs share a cookie |
| `MC...` + `.cfg` | small instances for TLC |
| `..._proofs` | theorems about the module of that name, checked by TLAPS; those about `SessionRecord` and `GridFeed` are in `SessionRegistry_proofs` |

The collector's two modules meet at the frame channel: `TranscriptCapture` ends
where a gate's `send` on it returns, `CollectorLink` begins there (`SendFrame`).
`CollectorLink` meets the registry at `Handle`, which is one call of
`handle_text`, that is, one of the frame handlers of `SessionRegistry`. What the
registry writes to a room (`EmitRoom`) is what `RoomFeed` numbers (`Write`), and
the deletion of a story, which the registry sees as its foreign key, is
`StoryBoard`'s `Remove` and `StoryLinks`' `DeleteStory`. `StoryBoard` and
`StoryLinks` write different kinds of entries to one log table and share no
other column.

### SessionRegistry

`phase`, `cause` and `story` are columns of a row (`ended_at`, who wrote it,
`detected_story_id`); `fresh[s]` says that the row is live and
`last_heartbeat_at` is within `STALE_SECS`; `choice` is a history variable, the
last explicit reassignment; `room[s]` is the set of kinds of frames in the Redis
stream; `task[t]` is the control state of a connection's `handle_text`, of an
HTTP request or of the reaper, with the locals that live across awaits (the
session, the frame, the tile snapshot, the story found, the ids still to do).

Each action is one awaited statement with the synchronous code around it:

| code | actions |
|---|---|
| `SessionStart` | `UpsertSessionStart`, `ResolveStory`, `AutoLink`, then emission |
| `SessionContent` | `BumpActivity`, emission without a tile |
| `SessionEnd` | `MarkEnded`, emission |
| `Heartbeat` | `BumpHeartbeat`, then `LoadMeta` and `PublishTile` per id |
| `emit_frame` / `publish_raw` | `EmitRoom`, `PublishTile`, or `LoseTile` when Redis fails |
| `PATCH /sessions/:id` | `Reassign`, `PublishTile` |
| `DELETE /stories/:id` | `DeleteStory` (the foreign key's `ON DELETE SET NULL`) |
| reaper tick | `ReapStale`, then `LoadMeta`, `EmitRoom`, `PublishTile` per id |
| time, restart | `HeartbeatLapses`, `Crash` |

A failing statement that returns before anything is written (the upsert's `Err`
branch, a 404) is no step. `EXPIRE` and the publication to `fanout:{session}`
(which nothing subscribes to) are only places where `LoseTile` can happen.
Connections are not bound to sessions: the code does not bind them either, so
any connection may send any frame in any order. `cwd`, `git_*`, timestamps and
the tile's `muted` flag are left out; the story-token regex is "some existing
story, or none". The 24 h expiry and trimming of rooms are in `RoomFeed`.

### GridFeed

`feed[v]` is the state of a page's stream and `view[v][s]` the tile it shows.
The handler lists (`ListActive`) and then subscribes (`Subscribe`), as
`sse/grid.rs` does; between the two a page hears nothing. `Deliver` is part of
the registry's `PublishTile` step: pub/sub reaches whoever is subscribed at that
moment, in one order for all. What lies between the publication and the page's
`onmessage` is not modelled; it only delays tiles, in order. A broken
connection is retried and keeps the tiles (`Drop`); a stream the *server* ends
is not (`StreamEnds`: `fetchEventSource` resolves when a response ends cleanly,
and the hook does nothing in `onclose`). A server crash breaks every stream.

### CollectorLink

A frame is a number: 0 is a heartbeat, *n* > 0 the *n*-th other frame that
entered `channel`. `pump` is where `ws_client::pump` is in its loop,
`lastReceived` its one-frame replay buffer, `current` the socket it opened last.
Every accepted socket has its own `run_session` task (`server[k]`), with the
frames in flight (`wire[k]`) and whether the token's re-check is due (`due[k]`).
Old sockets live on in the server until it has read what was sent on them, so
the tasks of an old and a new socket overlap, as they do in the code: the new one
may handle a frame before the old one has handled an earlier one.

| code | actions |
|---|---|
| `frame_tx.send` | `SendHeartbeat`, `SendFrame`: wait while the channel is full |
| connect and `authenticate` | `Connect`, `ConnectFails`, `Rejected` (401) |
| replay of `last_received` | `Replay`, `ReplayFails` (`continue`, without a back-off) |
| `rx.recv()` branch | `Send`, `SendFails` (buffer the frame, back off) |
| `stream.next()` branch | `SeeClosed`, `ReadFails` |
| back-off | `Wake` |
| `run_session` | `Handle`, then `KeepReading` or `CloseUnauthorized`; `EndOfStream` |
| `DELETE /api/v1/collectors/:id` | `Revoke` |
| network, hosts, time | `Break`, the `Fails` alternatives, `CheckFallsDue` |

What is written to a socket the server has left is swallowed without an error
(`Transmit`), which is what TCP does until a reset arrives: the model loses
those frames as the code does. A write that fails is assumed not to have reached
the server. The length of the back-off is left out, and so are pings and frames
that do not parse.

### TranscriptCapture

The transcript (`file`) is a sequence of chunks, two to a line; only the second
ends with a newline. The writer (external) writes a line in one go or in halves,
truncates the file or removes it. A tailer's record holds the fields of `Tailer`
(`pos`, `carry`) and the local `len`; `Stat` and `Read` are the two awaited file
operations of `poll_once` with the synchronous code between them, so the writer
acts in between; `Split` is one turn of its `while let` loop. What a tailer cuts
off is a frame if it is a first half followed by its second half; anything else
is not JSON and `parse_record` skips it. A record that yields several frames, or
none, is one frame here. `Cut` are the lines with a tool's input or result that
`summarize_json` slices inside a character (byte 2048): the tailer's task panics
at such a line (`Panic`), before anything of it is sent, and is gone like one
that has given up (`GiveUp`), its session still on the heartbeat's list. A
character that is itself split by two reads becomes a replacement character;
that changes the text, not which lines arrive, and is left out. Each
`SessionStart` hook makes a tailer with a gate of its own (`SessionStart`);
`Stop` does nothing. A gate takes a frame, looks at the mute flag (`GateTake`),
and sends it downstream (`GateSend`), or ends because the pump has (`GateEnds`),
after which the tailer's sends fail (`HandOverFails`).

### CodexCapture, OpenCodeCapture, AgentCapture

`pc` is the tailer's place in one turn of `run`; Codex or OpenCode (external)
writes between any two steps. Codex's poll: `ListThreads` (the query; `Listed`
is any answer it may give when several threads are equally old), `Stat`, `Read`,
then the frames one by one (`SendStart`, `SendContent`), then the idle threads
one by one (`FindIdle`, `EndOne`). Its failures: the query (`ListFails`), the
file (`ReadFails`: the `?` behind which the collected starts are dropped) and
the channel (`SendFails`). A line of the history is written at once or in
halves; the tailer takes what is there for a line, and skips it if it does not
parse. `told` is what the frames sent so far say of a thread: it is "in" between a
start and an end, "unheard" when a failing poll discarded the start, until the
end. `meta` is what the server makes of these frames if it gets them all: the
upsert of a start leaves the `ended_at` of an old row alone (`Upserted`), an end
marks a live row only (`MarkedEnded`). A thread that comes back is therefore
"in" again while its row stays ended.

OpenCode's cursor is a pair of a millisecond and an id. `Prime` skips what is
there at the start, `Poll` reads one page and moves the cursor, `PollFails`
fails somewhere in the page, `Panic` is `summarize_json` cutting inside a
character. A change of a part is known by its time; `late` are the parts whose
last change the cursor or the cache had passed when it was written, that `Prime`
skipped, or that a failing poll dropped. `starts` holds the sessions whose start
is still to be sent and how many contents come before each, `due` the idle
sessions still to be ended; `told` is what the frames say of a session. Each
start is of a new team-presence session (`Uuid::new_v4`), so a session that
comes back is another row, and `meta` has no counterpart. `AgentCapture` is
either tailer, chosen at the start as `start.rs` does. The gates behind the
tailers are those of `TranscriptCapture`.

### RoomFeed

Frames are numbered in the order of their stream ids; the stream holds
`lo + 1 .. top`. `pc` is the place of the serving task: the reset check, the
backfill page by page, the tail; `cursor` its position, and whether Redis will
take the string. `batch` is what has been read and not sent, `wire` what has
been sent and not received. The page keeps three positions, as the code does:
`last` (the hook's `lastIdRef`), `own` (the header the hook gave to the library)
and `header` (the one the library adds when it retries). On a retry `fetch`
joins both headers, since their names differ in case only; `parse_id` reads the
first, and Redis refuses the joined string, so such a task serves no frames
(`Stuck`) unless the reset check sends it back to the beginning.

| code | actions |
|---|---|
| `XADD ... MAXLEN ~`, `EXPIRE` | `Write`, `Expire` |
| `/sse/room/:id`: connect, reset check | `Open`, `Refuse`, `CheckReset`, `CheckFails` |
| backfill, tail | `ReadPage`, `PageFails`, `ReadTail`, `Send` |
| `onmessage` | `ReceiveFrame`, `ReceiveReset` |
| network, Redis, page | `Disconnect`, `Break`, `Mount`, `Unauthorized` (a token renewed) |

### StoryBoard, StoryLinks

A request is a task: what it reads (`Load`, `Previous`), its one writing
statement (`Update`, `Insert`, `Remove`; `Relate`, `Post`, `Rewrite`, ...), and
the INSERTs into the log it still owes (`owes`), which `Emit` writes one by one,
may fail (`EmitFails`, the code warns and goes on) or are never made because the
handler is dropped at an await (`Cut`). There are no transactions in this code,
so nothing is undone. `BoardTools` says of every tool and page which fields it
sends and through which door, REST or the hosted endpoint, whose log entries
differ. A story may be created in any column and with criteria, as the pages do;
REST also takes an owner then, which no client sends. tp-mcp's tools on criteria
are a GET and a PATCH of the whole list, the hosted ones a read and a write in
one handler: both are `Load` and `Update`. History variables: `course` (the
statuses a row has had), `ideal` (the criteria, had each edit been atomic),
`raced` (the columns two requests were busy with at a time), `lost` (an entry
was not written).

In `StoryLinks` a sprint or an epic is resolved in one statement
(`ResolveSprint`, `ResolveEpic`) and stored in another (`InsertStory`,
`Assign`), as every tool does; foreign keys, CHECK and UNIQUE are conditions of
the statement. A comment is looked up with its author (`FindComment`) before it
is rewritten or erased. The hosted relation tools (`McpBlock`, `McpUnblock`)
write no entry. A story may be deleted from anywhere; only the pages edit or
delete comments, and delete sprints and epics.

### AuthSessions

Tabs (`TabOf`) send requests with the cookie the `jar` holds at that moment;
each request's statements are steps (`Count`, `InsertUser`, `Verify`, `Read`,
`Revoke`, `Issue`), and its answer reaches the jar later (`Answered`) or never
(`Lost`). `SilentRefresh` is `attemptSilentRefresh` of `api.ts`, of which a tab
has one at a time and two tabs may have two; it follows a 401 whatever has
become of the token since. Two history variables say what is excused: `raced`,
that two sign-ups have both counted no users before either inserted, and
`forked`, that two requests for the browser's session met or somebody signed in
on top of a live session. Passwords, hashes, the JWT's encoding and the thirty
days of a session are left out; `token` is "fresh" for the fifteen minutes of an
access token.

## 3. Runs

| run | instance | distinct states | question |
|---|---|---|---|
| `registry` | 1 session, 2 stories, 2 connections, 1 request, all faults | 1 235 656 | do the rows obey the contract whatever interleaves and fails, and is what is announced true? |
| `grid` | 2 sessions (one keeps beating), 1 connection, 1 page, no faults | 47 796 | does a page that stays subscribed converge, do silent sessions get their end marker? |
| `grid_faults` | 1 session, 2 connections, 1 page, all faults | 49 600 | can faults make a page grey out a live session, or keep a silent session alive? |
| `link` | capacity 2, 1 frame in flight, 2 frames and any heartbeats, 2 failures | 330 591 | does each socket handle frames in order, and none twice across reconnects, is a revoked token shut out, does the link recover? |
| `capture` | 1 tailer, 4 lines, the third one cut, 1 rewrite, gate capacity 1 | 328 883 | which lines does a tailer hand over while the file changes under it, what follows a `mute`? |
| `agents` | Codex: 2 threads, 2 lines, 4 half lines in the file, 2 seconds; OpenCode: 3 parts, 2 sessions, 3 milliseconds, pages of 2, cache of 2; all faults | 1 910 990 | does the server get a consistent story of a session, and each change of a part once and in order? |
| `board` | 1 story and another to be created, 2 statuses, 2 criteria, 3 requests, any tool, all faults | 484 361 | does the log tell what happened to a story, do edits of the criteria survive each other? |
| `links` | 3 stories, 2 sprints, 2 epics, 2 users, 3 requests, all faults | 894 371 | does the log account for relations and comments, is a reference ever left to what is gone? |
| `room` | 5 frames, room of 2, pages of 2, buffer of 2, 2 lost connections or reloads, all faults | 60 046 | does the page show the log in order, do frames arrive? |
| `auth` | 2 users, 2 tabs, 4 requests, all faults | 1 517 452 | does a browser keep a cookie that works, are sessions left behind, is a second first user refused? |
| `stuck_tile` | 1 session | - | a counterexample to what a comment promises |
| `suppressed_stays` | 2 tailers, one line | - | the same |

Bounds. The registry's properties are per session and its handlers touch one
session at a time, except heartbeats and reaper ticks over several ids, which
the `grid` run covers with two sessions. Two connections are the smallest number
that can race on one row, and two stories the smallest with which a guess can
contradict a choice. Sessions are never removed, so no other bound is needed:
the state spaces are finite as they stand. `Contents` says which sessions send
content; it is empty in the `grid` run, where content would only multiply the
rooms. The theorems below hold for every value of these constants.

In the `link` run, two failures are the fewest with which a replay can itself
fail, or a third socket overlap the first; two frames are the fewest with an
order, and with a channel of two a heartbeat can stand before, between or after
them. In the `capture` run, three lines are the fewest with which a line can be
lost between two that arrive, which the mutant that keeps the carry needs; the
third is the one the tailer panics at, so that lines before, at and after it
occur, in one file or on two sides of the rewrite. Tailers
share only the file, which they do not write, and the mute flag: one tailer is
enough for what is said of each, and the theorems hold for any number.

In the `agents` run, a listing of one of two threads makes a thread drop out of
it, one second of idleness with a window of one makes a thread idle and listed,
and four half lines let a line be repeated in one file. Three parts are the
fewest with which a page of two ends inside a millisecond, and a cache of two is
emptied with the third. In the `board` run two requests race and the third sees,
or spoils, the result; criteria start with one item and two indexes, so that an
index can be past the end. `links`: three stories let one be deleted beside a
related pair, and each of the three requests may be any of some twenty
operations. `room`: five frames are more than the room, the buffer and the wire
hold together; one lost connection is needed for a joined header and another to
come back. `auth`: four requests are a sign-up, a sign-in and two that race for
the cookie. The state spaces are finite because requests, frames, time and
half lines are bounded (`Requests`, `MaxTop`, `MaxClock`, `MaxFile`, `MaxDrops`).
Requests (in `board`) and users (in `auth`) are symmetric: no property
distinguishes them, and those runs check no liveness.

Deadlock is not checked: with an empty set of stories, or after everything has
ended, waiting for the next frame is the normal state of the server.

### Properties

- `ImplementsRecord`: every step of the interleaved registry is one operation of
  `SessionRecord` or leaves the rows alone. `SessionRecord` is not the same text
  with fewer variables: it knows no tasks, snapshots or statements, and it says
  *when* a row may change (a guess only where there is no story, an end only of
  a live row, a deletion together with all references).
- `EndedOnce`, `ChoiceSticks`: what the `WHERE` clauses of `mark_ended`,
  `reap_stale` and the auto-link are for.
- `EndsAnnouncedAreReal`, `StartShownAfterMeta`: every snapshot under way and
  every frame in a room agrees with a row written earlier.
- `EndedTilesAreTrue`: the same seen from a page, whatever it missed.
- `BeatingSessionsAppear`, `SilentTilesGreyOut`, `SilentRoomsClosed`,
  `SilentSessionsEnd`: liveness.
- `InOrder`, `HandledOnce`: the replay buffer against reconnects and overlapping
  sockets. Each socket's task handles frames in the order of the channel, and a
  later socket carries none that entered before what an earlier one has carried;
  when both tasks are at work, the later one may be ahead. `CalmDelivers`:
  whatever state the failures left the pump in, what still waits in the channel
  or the buffer is handled once failures are over. `ConnectedOrRejected`: the
  pump comes to rest on a working socket, or, on a revoked token, stopped.
  `LateFramesBounded`: how long a revoked token is heard.
- `ExactUnlessConfused`: offset and carry. The history variable `confused` says
  exactly when the code gives no guarantee: the file grew, or was rewritten,
  between `metadata` and the read, or was rewritten to at least the old length
  between two polls. Otherwise a tailer hands over the lines of a file in order,
  each once, without a gap. `LinesArrive`: and it does not stop doing so, unless
  the file is rewritten or gone, the pump has stopped, or the tailer has panicked
  at that line or an earlier one.
- `SlipBounded`: the mute flag is looked at before a send that may wait. The bound
  is at the gate; what gates have sent before a mute still waits in the pump's
  channel.
- `SessionsMakeSense`: the frames of a Codex thread and of an OpenCode session are
  in their places, whatever is rewritten, idle or failing: a start before contents
  and end, none twice without an end in between; only a start that a failing poll
  has discarded is excused, until the session is ended. For Codex it adds what the
  server's row makes of the frames: it is live between start and end at most. The
  converse does not hold: a thread that comes back is started again on a row that
  has ended.
  `PartsExact`: changes of OpenCode's parts are sent once and in order, and when
  the tailer has caught up, none is missing of the parts that are not `late`.
- `ImplementsRoomLog`: the page shows the room in order, each frame once, and a
  frame is skipped only if the room has dropped it. That this holds across
  retries rests on three positions agreeing (cursor, wire, buffer), and on the
  page taking a "reset" where the room was trimmed. It does not say that every
  gap is announced: the room may be trimmed between the look and the pages.
  `FramesArrive`: every frame
  is shown in the end, unless it is dropped first, the page is refused or the
  task is stuck with a cursor Redis refuses or a dead connection.
- `ImplementsLedger`: whatever races, a status entry comes from a status the
  story really had and dies with the story. `HistoryExact`: without two requests
  busy with the status at a time, the entries are the story's history, no more
  and no less. `CriteriaIntact`: edits of the criteria are lost only to another
  edit that was busy with the list at the same time, never to a request that
  sets something else.
- `RelationsLogged`: additions and removals in the log balance with the relations.
  `CommentsAccounted`: a comment is on a story if and only if the story's log says
  that it was posted and not that it was deleted, which is what migration `009`
  promises and more. Both excuse a story for which an entry was lost (the code
  warns and goes on). `CatalogSound`: no dangling references, although every
  tool resolves first and stores later.
- `CookieWorks`: rotation between tabs never leaves the browser with a revoked
  cookie for good; `NoSessionLeftBehind`: nor the server with sessions nobody
  holds; `FirstUserAlone`: a second first user is refused, whatever the first one
  is doing, except when two sign-ups both count no users before either inserts.
  What these exclude (`forked` and `failed` for the sessions, `raced` for the
  first user) is where the code gives no guarantee, and TLC finds the
  counterexamples as soon as it is left out.

Each is paired with a mutant of the code (operators named
`Definition_Mistake`), which TLC must find to violate it.

### Fairness

`Fairness` says that a task that has begun a handler goes on (tokio schedules
it, Postgres and Redis answer or fail) and that the reaper's ticker fires again.
Nothing obliges a collector or a person to act. `GridFairness` adds that a page
whose connection broke reconnects (`fetchEventSource` retries on errors), that
the eviction interval runs, and, for the sessions in `Beating` only, strong
fairness of `Beat`: `heartbeat.rs` sends every 30 s, and other frames on the
same connection can delay a heartbeat but not displace it for ever, since a
connection handles frames in order.

`CollectorLink`'s `Fairness`: the pump and the socket tasks go on, `select!` also
polls the read half (`SeeClosed`), the re-check falls due again and again
(`CheckFallsDue`), and heartbeats go on. Weak fairness of `SendHeartbeat` is
enough although it waits for room in the channel: other frames are finitely many,
so a channel that keeps being drained has room for good sooner or later, or is
full of heartbeats. Failures, other frames and the revocation are not fair.
`TranscriptCapture`'s: tailers and gates go on, and the pump takes frames while it
is there. Nobody has to write, mute, unmute or start a session.
`RoomFeed`'s: the library retries (`Open`), the serving task goes on and the
network delivers what is on the wire while the connection lasts; nobody has to
write, and connections may be lost as often as the bound allows.

## 4. Where the code differs from what it says

1. **A tile can stay live** (`stuck_tile`). `useSseGrid.ts:3-4` says that an
   ended tile "greys out; disappears after 5 min". The grid lists before it
   subscribes; an end published in between is lost for that page. The
   counterexample is exactly that: list, end, publish, subscribe, and then
   nothing mentions the session again. (A stale snapshot published after the end
   has the same effect.)
2. **What was muted can be sent later** (`suppressed_stays`). Every
   `SessionStart` hook starts a tailer at offset 0. If a session is resumed after
   an unmute, the new tailer reads what the first one's gate had dropped, and its
   own gate, which knows only the present flag, lets it through.
   `consent.rs:13` says prompts and replies are seen "unless you run
   `team-presence mute`".

Differences the models show but no run is spent on:

- `ws/collector.rs:234` says a prior reassignment cannot be overwritten by a
  reconnect, but an unassignment is stored as NULL and the guard is `IS NULL`;
  `ChoiceSticks` is therefore about chosen stories.
- `ws/collector.rs:264` says "DO NOT emit content without meta"; only the start
  frame is held back, content after a failed upsert is written to the room.
- `collector/src/start.rs:129-131` says a session stays active until "the
  transcript file goes missing"; the tailer that gives up does not take it off
  the heartbeat's list.
- `tp-mcp/src/server.rs:444` says a claim writes an activity row of kind
  "claim"; the PATCH it makes logs an edit if the story had an owner.
- Migration `009_comments.sql:3` says that every insert of a comment also writes
  an activity row. Both doors do so in a second statement, whose failure is only
  logged and which a handler that is dropped never reaches (`EmitFails`, `Cut`):
  `CommentsAccounted` is about stories that have lost no entry this way.

Behaviour a reader may not expect, although nothing promises otherwise: a Codex
thread that is idle but still listed ends and starts at every poll; a Codex
thread that comes back streams into a session that the server keeps as ended;
the hosted relation tools write no entry in the log (`McpBlock`, `McpUnblock`);
a tool's input with a character across byte 2048 ends a transcript's tailer; a
last line of Codex's history that is read while half written is lost; an
OpenCode part written in the cursor's millisecond with a smaller id is missed;
OpenCode's first poll sends the parts of the newest millisecond again, and all
there are if its priming query fails; a room's connection that is cut and
retried by the library is stuck unless the room was trimmed meanwhile (`Stuck`);
a refresh whose INSERT fails leaves the browser with a revoked cookie
(`failed`); a sign-out that races a refresh in another tab signs in again
(`forked`).

## 5. Proofs

All theorems are proved for arbitrary constants, from named assumptions only. For
the registry and the board these are `StoryNulls` (null values are not ids) and
`TaskAssumption` (task sets are disjoint, the bound `Contents` is a set of
sessions).

- `SessionRegistry_proofs`:
  - of the abstract record (`SessionRecord`): `RecordInvariant` (types and
    `ChoiceSticks`, which are inductive together) and `RecordEndsOnce`.
  - `TypeCorrect`. Types alone are not inductive: `TypeInv` adds that a task
    which looks up, links or emits holds a session, and one that emits holds a
    kind of frame (`GoodTask`). One lemma per action.
  - `AnnouncedEndsAreReal`, `StartAfterMeta` from the inductive `AnnounceInv`:
    every task is *honest* about the rows (`HonestIn`: a start frame's session
    has a row, an "ended" tile's session has ended), and so is the reaper's list
    of ids. The key lemma is `RowsMoveForward`: rows never disappear and ends
    are never undone, so what was true when a snapshot was taken stays true.
  - `Refinement`: `Spec => ImplementsRecord`. The only step that needs more than
    its own guard is `AutoLink`, whose statement does not mention the row's
    existence: that the row exists follows from `AnnounceInv`.
  - `ChosenStoriesStick`, `SessionsEndOnce`: from the refinement and the
    abstract theorems.
  - of the live board (`GridFeed`): the composition takes registry steps only
    (`GridStepIsStep`), hence inherits `AnnounceInv`; with it `ViewTypeCorrect`
    and `PagesGreyOutEndedOnly` are proved for any number of pages.

- `CollectorLink_proofs` (from `LinkAssumption`): `TypeCorrect`, with the
  strengthening that the buffer is empty while the pump drains the channel;
  `RevocationBound` from `LateInv` (a late frame has just been handled and the
  re-check will close the socket, or has); `FramesInOrder` and
  `FramesHandledOnce` from one inductive invariant, `OrderInv`, about the whole
  path (handled, in flight, buffered, queued), along which the numbers only grow,
  on each socket and from each socket to the later ones.
- `TranscriptCapture_proofs` (from `CaptureAssumption`):
  - `TypeCorrect`, and `MuteBound` from `SlipInv` (a gate that let a frame follow
    a mute holds no other).
  - `LinesExact`: `ExactUnlessConfused`, for any number of tailers, lines and
    rewrites. The inductive `CaptureInv` says what position and carry stand for.
    The chunks of the file follow one another and hold all lines begun in it
    (`FileOK`); a tailer that was not confused carries a stretch of such chunks
    that begins where a line begins (`CarryOK`) and ends at its position
    (`PlaceOK`), and has handed over all lines of the file before it and none
    after (`Reached`). What the writer does only adds to the file or makes it
    another one (`GrowthKeeps`), so none of this is disturbed. As a consequence
    a tailer that is not confused never skips anything: what ends with the first
    newline of its carry is one whole line (`FirstLine`).

- `StoryBoard_proofs` (from `ToolAssumption` and `BoardAssumption`, which say of
  the tools what validation enforces: a story is created with a status of the
  workflow, and a hosted tool does not set status and criteria together):
  - `TypeCorrect` and `CriteriaKept` from the inductive `BoardInv`. That the
    list of criteria is what atomic edits would have made of it is not inductive:
    an edit writes a list it read several steps ago. `CriteriaInv` adds that, as
    long as two edits of a list have not met, one at most is under way and what
    it has read is still there; `AloneInv` that the story of a request about to
    insert is unborn and no one else's; `LocalsIn` what the place of a request
    in its handler says of its locals (an index fitted the list it read).
  - `Refinement`: `Spec => ImplementsLedger`, under whatever race and fault. It
    needs `LedgerInv`: what a request owes the log is its own and a change of
    status comes first in it (`OwesIn`); the status a handler read before its
    UPDATE is one the story had (`ReadIn`); an unborn story has no entries and
    a living one the status its course ends in or has had (`CourseInv`). Emitting
    an entry is then a stutter, an UPDATE one `Move`, a failing INSERT or a cut
    request a `Lose`, a cascading DELETE an `Erase`.
  - `HistoryTold`: `HistoryExact`, the log tells the course of a story's status
    change by change. At the time of an UPDATE its entry is not yet in the log, so
    the inductive `HistoryInv` follows what is still owed: as long as two
    requests that set the status have not met, one at most is under way, what
    it read is still the row's status, and the entries followed by what it owes
    (`Trail`) are the changes of the story's course (`Changes`), unless one was
    lost.
- `StoryLinks_proofs` (from `LinksAssumption`):
  - `TypeCorrect` from `TypeInv`, which adds what the place of a request in its
    handler says of its locals (`LocalsInv`).
  - `CatalogIsSound`: deletions run between a handler's reads and its INSERT; the
    foreign keys and unique indexes the INSERT meets are what makes
    `CatalogInv` (relations, columns and the places of comments point to what is
    there, no id twice) inductive.
  - `LogTellsRelations` and `LogTellsComments` from `EntriesInv`: what is in the
    log and what requests owe it, taken together, balance the relations
    (`Balanced`) and account for the comments (`CommentsInv`: none told before
    it is there; `PostedTold`: every comment there has its entry, and every
    comment told and gone its deletion). Each statement's
    effect on this sum is stated by an operator of its own (`Adds`, `Moves`,
    `Hush`), so that one lemma serves all handlers that move entries alike.
- `RoomFeed_proofs` (from `RoomAssumption`): `TypeCorrect`, and `Refinement`:
  `Spec => ImplementsRoomLog`, for rooms, pages and wires of any size. The
  inductive `RoomInv` follows the frames on their way: whatever the page has not
  seen yet is linked, without a gap the room could still fill, from the last
  frame shown through the wire (`WireInv`), the batch in the task's hands
  (`BatchInv`) and the task's cursor (`CursorInv`) to the room, and a page that
  reconnects asks from where it stopped or from below what was trimmed
  (`PageInv`).
- `AuthSessions_proofs` (from `AuthAssumption`): `TypeCorrect`, `CookieHolds`,
  `OneSession` and `OneFirstUser`, for any number of users, tabs and requests,
  from one inductive invariant, `AuthInv`. Its core is `CalmInv`: while no two
  requests meet and nothing fails, the live sessions are the cookie the browser
  holds, or exactly what the one request under way makes of it at each of its
  steps (`Calling`); `CookieInv` says the weaker thing that survives races. For
  the first user it says who may still insert: as long as two sign-ups have not
  both found the table empty, one at most is between its count and its INSERT, and
  none once there is a user.

- `AgentCapture_proofs` (from `CodexAssumption` and `AgentAssumption`), for any
  number of threads, lines, sessions and parts, any size of page and cache:
  - A poll goes through the lines or rows it found one by one, so the models say
    what it does by recursion over them, and what that yields for every input
    takes an induction. The library's induction theorem wants a predicate,
    which the provers cannot supply; `CountUp` states it with a set of numbers
    and follows from the least element of a set (`LeastNumber`). `Folded` is the
    existence of a function defined by such a recursion, `AdmittedSteps` and
    `RoutedSteps` unfold the recursions of the two polls. All this is for
    sequences of any length.
  - `FramesAlwaysMakeSense`: `SessionsMakeSense`, from the inductive `CodexInv`
    and `OpenCodeInv`. What the frames have said of a thread or a session is what
    the tailer's table says of it, but for those whose start is still to be sent
    or was discarded (`ToldRight`, `HeardRight`; OpenCode's starts stand between
    contents, each before the first content of its session);
    the lines still to be sent are of threads in the table, differ from one
    another and from all that was given since the history was last made anew
    (`LinesNew`); starts, lines and ends wait only where the tailer sends them
    (`PollDone`). `FileFits` is about the bound `MaxFile` alone.
  - `PartsSentExactly`: `PartsExact`, from the inductive `OpenCodeInv`. That
    the query's page is the first rows in the order of the table, without a gap,
    is `RowsArePage`: a row's place in it is its rank, the number of rows before
    it. Frames are in order, after all that was sent and not beyond the cursor
    (`FramesInOrder`); and of each part that is not late, the last change has
    been sent, is queued, or is still to be read: beyond the cursor and not
    hidden by the cache (`NoneLost`). Emptying the cache in the middle
    of a page does no harm: a change it hid was sent or late, and those of the
    page lie behind the cursor when the poll is done.
  - `AgentTyped` from both.

With this every invariant, action property and refinement that a passing run
checks is a theorem. Left to TLC are the liveness properties, which need fairness
and `ENABLED`: `BeatingSessionsAppear`, `SilentSessionsEnd`, `SilentTilesGreyOut`,
`SilentRoomsClosed`, `CalmDelivers`, `ConnectedOrRejected`, `LinesArrive` and
`FramesArrive`. The two claims the code does not keep (`EndedTilesLeave`,
`SuppressedStaysSuppressed`) have no theorem, of course.

## 6. Not modelled, and what could come next

- the *story activity stream* (`sse/activity.rs`): it starts at "now" and
  promises nothing of what was before, so there is little to say of it;
- a *timed outage*: heartbeats every 30 s, ticks every 60 s, staleness after 90 s
  and the back-off ladder, as a composition of `CollectorLink` and
  `SessionRecord`; the length of the back-off is left out so far;
- the *hook socket*: two connections may deliver hooks in either order;
- the *silent refresh* of `AuthSessions` composed with board and room, of which
  `RoomFeed` keeps only its effect on the cursor (`Unauthorized`);
- out of scope: rendering, the editor's local state, command line and key chain
  I/O, the installer, downloads, Markdown parsing, password hashing and JWT
  encoding, and all that only reads (listing tools, filters).
