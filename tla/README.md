# Cinematica, specified in TLA+

Cinematica is a home media server (Python, `src/server`) with an Android TV app
(Kotlin, `src/tv/app`) and a web page. It looks up titles through a provider
add-on, finds a stream that will play, buffers it through a torrent cache, and
then either hands its URL to the TV app or remuxes it into HLS for the browser
that asked. One household, one TV, one film at a time: most of what is hard in
it is about *that*, and it is decided by many threads under one lock.

This directory models the parts of the system that coordinate. The code is the
reference; where a comment of the code says otherwise than the code does, a run
shows it (see *Disagreements*).

## 1. Inventory

| Component | Source | State it keeps | Operations | Modelled |
|---|---|---|---|---|
| Play jobs | `jobs.py`, play/stop/cancel routes of `routes.py` | `_jobs`, `_play_gen`, `_cancel_gen`, `_play_inflight` | `start_play`, `claim_owner`, `play_claim`, `run_play_job`, `run_browser_job`, stop, cancel | `PlayJobs` |
| TV link, server side | `tvlink.py` | `_app_cmd`, `_app_seq`, `_app`, `_app_last_play` | `app_cmd`, `app_cmd_clear`, `app_heartbeat`, `launch`, `tv_playback_state` | `AppLink`; the slot also in `PlayJobs` |
| TV link, app side | `PlayerLink.kt`, parts of `AppViewModel.kt` | `pendingAck`, `lastHandledSeq`, the film | heartbeat loop, start, stop with a last report | `AppLink` |
| Browser session and packager | `browser_session.py`, `routes.py` | `_bx`, the ffmpeg registry, a directory of segments | `bx_begin`, `bx_spawn`, `bx_restart`, `publish`, `regulate_hls`, beat, segment requests | `Packager` (all but the regulator); the session also in `PlayJobs` |
| Browser playback arithmetic | `browser_play.py` | none | grid, playlist, box rewriting | not modelled |
| Audio conversion | `transcode.py` | the registry `_transcodes`, processes in a container, output files | begin, start, evict, stop one, stop all, stop orphans, regulate, is-it-whole | `Conversions`; the last in `AudioRoute`, by hand; a packager's own runs in `Packager` |
| Torrent cache, disk | `torrents.py`, `disk.py` | the torrent daemon's cache and engines, the watch's memory | `cache_clear`, `keep_only`, `cache_watch`, the sweep, `disk_pressure` | `TorrentCache` |
| Hi-fi audio, server | `sendspin.py`, `tvlink.py`, `jobs.py` | `_hifi`, the worker's queue | prepare, start, seek, stop, release, status poll | `Hifi` |
| Hi-fi audio, bridge | `sendspin_bridge.py` | `STATE`, the decoder and its cache, the push | `/connect`, `/prepare`, `/start`, `/stop`, `/release`, `/status` | `Hifi` |
| Shelf | `shelf.py`, `watching.py` | positions, watched marks, mutes, followed channels; a JSON file | note, drop, mark, follow, open, refresh, throttled save | `ShelfRules`, `Shelf` |
| Network profile | `netprofile.py` | rate history | measure, profiles | not modelled |
| Provider registry and store | `providers/registry.py`, `providers/store.py` | `providers.json`, `secrets.json`, a tree of files per package | install, update, remove, configure, test, choose | `Registry` |
| Provider gateway, runner, host | `providers/gateway.py`, `runner.py`, `host.py` | the instance cache, pools of worker processes | call, relaunch, invalidate | `ProviderPool` |
| Catalogue, channels | `catalogue.py`, `channels.py` | per-key caches | cached fetches | the channel refresh in `Shelf` |
| Streams, probing | `streams.py`, `mediaprobe.py` | probe caches | scoring, ffprobe | not modelled |
| Configuration, settings, lock, now playing | `config.py`, `settings.py`, `core.py`, `nowplaying.py`, `admin.py`, `server.py` | a JSON file | read, write | not modelled |
| Other routes, web page | `routes.py`, `index.html` | the page's own | lists, admin, media | not modelled |
| TV app: stores, player | `AppViewModel.kt`, `player/*`, `browse/*`, `data/*` | view models | playback, browsing, PIN lock | not modelled |
| TV app: discovery, API, screens | `api/*`, `ui/*` | – | – | not modelled |
| Deployment | `install.sh`, `deploy/*` | – | – | not modelled |

**How they interact.** A play request (`POST /api/play-tv`, `/api/bplay`) runs on
its own HTTP thread. It resolves a stream (seconds), asks `claim_owner()` whether
another device is playing, supersedes what is being prepared, claims the player
(`play_claim`, a counter), registers a job and starts a worker thread. The worker
tries candidates: probe, buffer, maybe start an audio conversion, then either
`launch()` – which leaves an order in the one-slot TV link and watches the
heartbeats – or `bx_begin()` and `publish()`. Stop, cancel, the page's stop
beacon, the page's beat, autoplay from the TV's "ended" heartbeat and the cache
watcher all act on the same records. Everything shares `core._lock`, a
re-entrant lock taken and released many times per operation.

Around a play: the heartbeat handler also writes the resume point (`shelf_note`)
and decides what the hi-fi player should do, which one worker thread carries out
against the bridge, another process. `keep_only()` of a play that reached its
player deletes other torrents, and so does a watch thread once nothing plays.
Lookups go through the gateway to a pool of subprocesses, which the admin page
replaces under them whenever it saves a configuration.

**What is hard.**

* *Interleaving.* Each operation is a handful of critical sections; what was
  read in one is acted on in a later one (`claim_owner` then `play_claim`;
  `active_job` then `job_set`; the token check then the session write).
* *Supersession by counter.* A worker learns that it lost only where it looks.
* *An unreliable link.* The TV is reached only through its own polls: replies are
  lost, orders are delivered again, requests given up on are handled late, either
  side restarts.
* *Timeouts.* The handoff deadline, the expiry of an order, stale jobs, idle
  sessions, each racing the answer it gave up on.
* *Partial failure.* A worker may raise anywhere; ffmpeg may fail to start after
  the session record was written; a rename of a package swap may fail between two
  others; a save of the shelf may fail and says nothing.
* *Two processes that only ask.* The bridge and the server each believe what the
  other said last; replies of a generation that is over come late.
* *Check, then act, on somebody else's state.* Kills go by name, the torrent
  daemon is asked what is open and told to delete afterwards.

**What correct means**, per component: play jobs – one claimant, a lapsed claim
commits to nothing, no order without a waiter, no job left active, exact counts,
every preparation ends; TV link – each order acted on once, in turn, and only
then acknowledged; launch believed only for its own order; orders leave; packager –
what is served carries the clock of the run that wrote it, the last seek wins, no
process is lost; conversions – a stop of everything leaves nothing running, nobody
is left suspended, what the registry lets go of is stopped; cache – nothing in
use is deleted, everything else is in the end; hi-fi – no answer of an old
generation is believed, nothing plays when the TV does not, sound comes back after
any loss and is let go of at the end; shelf – a dropped title does not come back,
a resume point is not overwritten by a report from before it, what was answered
is on disk; registry – files, record and credentials agree whatever was
interrupted, no edit is lost; pool – bounded workers, none left behind, calls see
the configuration that was saved.

The list of hazards, each at its line, is in `PROJECT.json`.

## 2. Modules

| Module | What it is |
|---|---|
| `PlayJobs` | Requests, workers, control requests, TV and browser session: one action per critical section (57 actions) |
| `PlayClaims` | The abstract promise: claims lapse when a newer one is made, only a current claim commits |
| `MCPlayJobs` | Instances: no next episode, or a series of two; symmetry |
| `PlayJobsRemarks` | What comments of the code state and the code does not do; run by hand |
| `PlayJobs_proofs` | Seven theorems about `PlayJobs` |
| `AppLink` | The server's order slot and heartbeat handler, the app's loop, the network, restarts |
| `AppLink_proofs` | Five theorems about `AppLink` |
| `Packager` | A browser session's segment requests and seeks, the runs of ffmpeg, begin and stop |
| `MCPackager` | Its bounds and symmetry |
| `Packager_proofs` | Six theorems about `Packager` |
| `Conversions` | The container's ffmpeg processes, the registry, every kind of kill, regulators, restarts |
| `MCConversions` | Its symmetry |
| `AudioRoute` | A request for a converted output over `Conversions`: what length it is sent with; run by hand |
| `TorrentCache` | Clears, `keep_only`, the watch with its sweep and the pressure sweep, over plays and restarts |
| `TorrentCache_proofs` | Two theorems about `TorrentCache` |
| `Hifi` | Heartbeat decisions, the worker, the bridge and its locks, the decoder and the push, faults of each |
| `Audio_proofs` | Three theorems about `Hifi`, four about `Conversions` |
| `ShelfRules` | What each call of `shelf.py` makes of a record: pure operators |
| `Shelf` | The table, its file, the handlers and threads that change it |
| `MCShelf` | Its uploads, reports, bounds and symmetry |
| `Shelf_proofs` | Seven theorems about `Shelf` |
| `ProviderPool` | Callers, the instance cache, pools and workers, saves and `invalidate()` |
| `ProviderPool_proofs` | Four theorems about `ProviderPool` |
| `Registry` | Requests of the admin page over record, pointer, credentials and files, with faults and crashes |
| `Registry_proofs` | Six theorems about `Registry` |

### PlayJobs

State, with the code's names: `job` is `_jobs` (stage, generation, owner, browser
token, and whether the record is fresher than `JOB_STALE`), `born` its insertion
order (which `active_job` walks), `playGen`, `cancelGen`, `inflight` the three
counters, `cmd`/`seq`/`tv` the TV link as this module needs it, `bx` the browser
session. `req`, `wk`, `ctl` are the threads: a program counter and the locals
that live across critical sections (the cancel count read on entry, the
generation claimed, the older job found, candidates left, the order queued, the
token).

A request: `Attach` (double tap) or `Arrive`/`AutoplayNext`, `Enter`,
`ResolveRefused`/`Resolved`, `ClaimFirst`, `ClaimSecond`, `FindOlder`,
`MarkOlder`, `PlayClaim`, `Register`, `Finish`; a refusal on any path goes through
`Finish`-like exits and, for autoplay, `Retire`. A worker: `WTop`, `WBuffer`,
`WProgress`, `WOut`, `WPrepared`, `WEncode`, then for the TV `WLaunching`,
`WLastCheck`, `WSend`, `WCheckOrder`, `WSeen`, `WDeadline`, `WHandedOver`, and for
a browser `WDecide`, `WVerify`, `WBegin`, `WLastWord`, `WPublishSession`,
`WPublishJob`, or `WUnwind`; `WRaise` is an exception anywhere. Control requests:
`Stop…`, `Cancel…`, `Bx…`, `Beat…`.

`AutoplayNext` stands for the TV reporting the end of a title whose episode has a
successor; it may fire for any recorded TV job with a next episode, which includes
every occasion the code has.

### AppLink

`slot`, `stale`, `seq`, `seen` are the server's `_app_cmd`, its expiry, `_app_seq`
and `_app`; `launch` the `launch()` calls; `wire` the heartbeat requests, from the
post to the reply, including the long poll in between; the rest is the app:
`awaited` (the request its loop waits for), `farewell` (the two posts `stop()`
makes from a coroutine of its own), `pendingAck`, `lastHandled`, `film`. `acted`
and `done` are history.

One post, one handling, one reply are separate steps. `GiveUp` is a failed or
timed-out request: it may yet be handled, or lost (`Lose`). `Expire` is
`APP_CMD_TTL` passing; it needs no held request, because a request is held 10 s at
most and an order lives 90 s. `ServerRestart` forgets everything and reseeds the
counter; the code seeds from the clock, so every number is past those used:
`Seed == seq`. `AppRestart` is the app's process killed and started again.

That the last heartbeat is recent (`app_fresh`) is not modelled: it only keeps
`Launch` and `LaunchEnds` from being taken, and nothing here says they must be.

### Packager

`bx` is `_bx` as the packager reads it: `anchor` stands for `anchor` and
`run_anchor`, written together, the second a function of the first; `pending` and
`seekGen` are `pending_anchor` and `seek_gen`. `dirs` and `files` are the disk: a
file is known by the run that wrote it and whether that run closed it, which
nobody in the code can see. `registry` is `_transcodes`, `runs` every ffmpeg ever
started, with the state of the process in the container and of the docker-exec
client on the server: `transcode_alive()` knows only the second, a kill by name
finds only a process that is already visible. `threads` are the request handlers
and the worker that begins the session.

A request: `Arrive`, `Look` (complete, near, or a seek), `Seek`, `Settle`,
`Restart`, `RestartKill`, `Recheck`, the spawn (`SpawnClear`, `SpawnPublish`,
`SpawnStart`, `StopOld`), `Poll`/`PollEnds`, `Read`, `Stamp`. A worker: `BxBegin`
and the same spawn. The stop: `StopReset`, `StopPop`, `StopKill`, `StopRemove`.
ffmpeg: `Appear`, `NeverStarts`, `Write`, external, as the HLS muxer is used: it
closes a segment when it opens the next and cannot open one in a directory that
is gone.

Two windows are closed by no check of the code: between a thread's last look at
`pending_anchor` or `seek_gen` and its process, and between the start of a
process and its being visible to a kill by name. `crossed` and `missed` record
that something fell into one; the safety properties are stated for histories in
which nothing did (`Orderly`), and `Scrubs.cfg` and `OwnKill.cfg` show what
happens otherwise. What they do cover is everything `seek_gen`, the debounce, the
order of publication and start, the clearing, and the token checks are there for.

### Conversions

What a thread has still to do is a sequence of steps (`todo`), one command on the
container each: `find` looks a process up by name, `cont` and `term` signal it,
`wait` looks whether it went, `client` ends the docker-exec, `pop` forgets the
registry's entry, and so on. `_kill_pid`, `_kill_ctr`, `_stop`, `_kill_orphans` and
the eviction of `transcode_start` are made of these steps as the code strings them
together, so two kills interleave at every command; `StopEach` and `KillEach` are
such a kill for one process after the other (`transcode_stop_all`, `_kill_orphans`).
`state` is the process in the container, `clients` the Popen on the server: one
may be there without the other. `own` are the processes this server started; a
restart empties it and the registry, and leaves the processes. `regulator[p]` is
the thread that suspends and resumes play `p`'s conversion. `lock` is `_tc_lock`.
`Visible` is what the process table of the container shows. `Boot`, `Exit` and
`LoseClient` are external, as ffmpeg in a container is used.

`AudioRoute` adds one `/audio/` request: it reads the size, asks the client, asks the
container, and if nothing writes sends the size as the film's length. No passing run
has it, because what the route promises does not hold (`HalfLength.cfg`, section 5).

### TorrentCache

`source`, `stage`, `screen` are the plays, `believed` what `playing_now()` answers
(a report that may be old), `nowHash` what `nowplaying.json` says after a restart.
A clear (`clears[t]`, of the watch or of a play's thread) goes through `stop`
(release and delete what it may), `look` (who uses what, which engines are open),
`next` (one directory after the other); the plays go on in between. `watch` is
`cache_watch()` with its `was` and `idle_count`.

### Hifi

`hifi` is `_hifi`, `ssq` the worker's queue, `worker` the one call under way and
its reply, `bridge` the bridge's `STATE` with its player, `starts` the `/start`
calls inside the bridge: a start waits for the lock, then waits for a decoder
that is not ready *outside* the lock and takes it again. A heartbeat (`Beat`) is
the whole decision of `app_heartbeat`: start, seek, stop, release, or nothing;
`SeekTo` a jump; `JobSteps` a play that names its film and prepares it;
`WatchReleases` the watch that lets a film go which is no longer shown. `Faults`
are lost replies, decoders and players that die, restarts of bridge and server.
Assumptions, named so that a reader can object: a timeline's offset and its being
"streaming" are one (the code sets them together); the watch sees every film that
is shown; a player that dropped out returns only through `/connect`; a start
times out in its poll freely only where the bridge never had it; the gap after a
restart is over at the next `/status`; a play that fails after it prepared leaves
the player held, as in the code, until the watch notices.

### ShelfRules and Shelf

`ShelfRules` has one operator per call of `shelf.py`, from a record to a record:
`Begin`, `Drop`, `NoteProgress`, `SetFav`, `SetWatched`, `Follow`, `SetLatest`,
`VideoOpened`, … with the code's thresholds in seconds.
`Shelf` has the steps between: a heartbeat reads the job's identity and offset
(`Beat`), then changes the record (`Note`), then saves (`NoteSave`, throttled); a
request changes and saves by force before it answers; a channel refresh fetches
without the lock and writes after. `disk` is the file, replaced whole – missing,
damaged, or a table – and with it the table `init()` would make of it; a save may
fail silently; a restart reads the file, a damaged one is set aside and the table
is empty. A title of which nothing is known has the record every call would make.

### ProviderPool

A configuration is its revision. `ReadRevision`, `GetInstance`, `Enter`,
`Checkout`, `Answered`, `Crashes` are a caller, `Save`, `PopInstance`,
`RemovePool`, `ClosePool` a save with its `invalidate()`, `Relaunch`, `PutFresh` the
replacement thread of a worker that died. A closed pool forgets its workers.
`set_throttle()` has no caller and is left out.

### Registry

A request is a thread: `op` and how far it is (`at`). The swap of files is one
action per operation on the disk (`ClearLeftovers`, `BeginCopy`, `EndCopy`,
`CheckCopy`, `Aside`, `SwapIn`, `DropPrevious`) and then the record; `remove` and
`set_config` write two files one after the other. `lock` is the registry's lock,
which `update_provider` and `set_config` hold throughout, an `install` only for
the record. `WriteFails`, the faults of copies and renames, and `Crash` may fall
anywhere. `crossed` says that requests overlapped which nothing in the code keeps
apart (two installs of one provider, an install and its removal); the properties
are stated for the rest, and for crossed histories again from the next install
that was alone.

## 3. Runs

| Run | Instance | Shows |
|---|---|---|
| `play_jobs` | 2 films, 2 play requests, 1 control request of any kind, 1 candidate, jobs that go stale | `SoleClaimant`, `OrderHasWaiter` and the refinement of `PlayClaims`; 4.4 million states |
| `play_live` | a series of 2, 2 requests, 2 candidates | `RestIsSettled` with autoplay placeholders, `JobsSettle`; 0.7 million states |
| `app_link` | 2 launches, 2 requests under way, 2 order numbers, 1 fault | 3 invariants, `OnlyActedLeaves`, `OrdersLeave`; 0.5 million states |
| `packager` | 2 sessions, 2 requests, 3 segments, one stop; 3 runs of ffmpeg in one session or 2 over two | 3 invariants, `StampOfItsRun`, `NeverHalfWritten`; 2 million states |
| `conversions` | 2 titles, 2 plays, 1 slot, 2 stops of everything, 1 restart | `StopAllStops`, `HeldIsReleased`, `LetGoIsStopped`; 3.4 million states |
| `cache` | 1 torrent and a direct source, 2 plays, 1 restart, 1 failed deletion | `InUseKept`, `EventuallyFreed` |
| `hifi` | 2 films, 2 plays, 1 move of the viewer, 1 fault of any kind | 2 invariants and 3 liveness properties; 1.9 million states |
| `shelf` | a film, a series of 2 or a channel of 3 videos, 2 devices, 1 caller, 1 restart, 2 handlers at once | 3 invariants, 3 action properties; 0.9 million states |
| `pool` | 2 callers, 1 save, 1 worker, 3 faults | 3 invariants, `CallersReturn`; 0.17 million states |
| `registry` | 2 threads, 2 versions, 5 requests, 1 fault, 1 crash | 5 invariants; 5.5 million states |
| `next_call` | 2 callers, 2 saves by 1 saver, 1 worker, 2 faults | the comment on saves, violated |
| `no_files` | 1 thread, 1 crash | the comment on the swap, violated |

**Why the bounds are enough.** Claims interact pairwise: the current one and one
that supersedes it; two requests exercise every pair of critical sections, and a
third party – stop, cancel, beacon or beat – is the one control request. Two
films distinguish "the same title again" from "another title", which the
re-use of job ids makes matter. Of the records that may grow old one does at a
time (`OneAged`); without that bound the run holds as well, in 5.2 million
states. A second candidate matters only where a worker goes back to the top,
which `play_live` covers. In `AppLink` an order and its
replacement suffice for every confusion of numbers, and two requests are the most
the app has under way towards one server besides its farewell posts; one fault
may fall anywhere. With a second fault the invariants hold over 2 million states
(without the liveness property, which makes the run too long).

In `Packager` a seek needs one segment near the frontier and one beyond it; two
requests give every pair of a seek with another seek or with a segment being
served. A session replaced or stopped needs one other session. The constraint of
`MCPackager` drops what follows a history that is not `Orderly`, of which the
properties say nothing. With a third request, and with a fourth segment in one
session, they hold as well (7 million states).

In `Conversions` one slot makes every begin an eviction; two plays of one or of two
titles give every pair of a kill and a begin, of a regulator and a kill, the second
stop empties the registry under the first, and the restart leaves an orphan to a new play. In `TorrentCache` nothing relates two
torrents but the sets a clear computes once; the direct source is the play that
uses none. In `Hifi` one fault may be any and fall anywhere; a move is a pause, a
resume, a seek, an end or an exit, which the play of a second film repeats;
`MaxGen` only makes generations finite and is never reached. Three plays, a film, another
and the first again, were checked once without faults (1.07 million states): the prepare
of the film in the middle is dropped as stale, and the push of the first, if it is still
about, is one the server let run. In `Shelf` a title has
at most three operations and a channel four, which is what a drop between the two
halves of a report, a save that fails and a full table of opened videos take; the
report of unknown length is the one that falls back on the provider's. In
`ProviderPool` one save crosses a lookup, three faults may fall on either
caller and on the relaunch between them, and a pool of one worker is where waiting
happens. A second save, after a lookup that the first one spoilt, is what
`next_call` needs; the properties of `pool` hold with it too (one fault, 1.8
million states), and its invariants are theorems for every bound. In `Registry`
five requests, two at a time, reach an install, a failed update, its repair, an
edit and a test; its theorems need no bound.

`CHECK_DEADLOCK FALSE` everywhere: the requests are finite, and when the last
thread has ended the system is at rest.

**Fairness.** `play_live`: weak fairness of each request, worker and control
thread – they are operating-system threads that hold the lock briefly – and
strong fairness of `WDeadline`, since `launch()`'s loop alternates between
looking and sleeping and the deadline passes by the clock. Nothing is assumed of
the TV, the browser, autoplay or time elsewhere. `app_link`: weak fairness of the
server's threads and of the app's loop, and of the loss of requests that nobody
waits for (connections do not last for ever); nothing of the user, the player,
the faults or `launch()`. `OrdersLeave` is conditional on the app staying on
screen. `cache`: weak fairness of the watch and of every clear, strong fairness of
the sweep's turn (a timer the watch looks at again and again) and of a torrent's
growing old, and that plays and films end. `hifi`: weak fairness of the heartbeat
(a TV that keeps saying the same keeps saying it), of the worker, of the bridge's
handlers and of a decoder and a push getting to their end; the properties are
conditional on what the TV does for good. `pool`: weak fairness of callers, savers
and relaunches, strong fairness of `Checkout`, since `queue.Queue` hands a worker
to the thread that has waited longest; a worker that is asked answers or is killed
at its deadline.

## 4. Proofs

`PlayJobs_proofs` proves, for every set of titles, requests and control requests
and every number of candidates:

* `TypeCorrect`: `[]TypeOK`, one leaf per action; typing lemmas for `JobSet`, the
  program counters and the order slot.
* `ClaimsAreExclusive`: `[]SoleClaimant`. Not inductive alone: a request that has
  not claimed must hold no claim, and one past `PlayClaim` must hold one no newer
  than the counter. `ClaimInv == SoleClaimant /\ ClaimsHeld`.
* `LapsedNeverCommits`: `LapsedStaysBehind`, from lemmas that say where each kind
  of step can move a worker (`WorkerMoves`, `ControlMoves`, `OthersMove`,
  `RequestMoves`, gathered in `Steps`).
* `ImplementsClaims`: `Spec => ClaimsSpec`. The refinement mapping is `StatusOf`:
  a bump of the counter is a claim or a revocation and lapses exactly the current
  claim (`BumpLapses`).
* `CountIsExact`: `[]InflightExact`, over finite-set cardinality: only `Enter`
  adds a request to those inside, only the exits remove one.
* `NoOrphanOrder`: `[]OrderHasWaiter`. Strengthened by `SlotInv`: an order number
  in the slot or held by a waiting worker is at most `seq`, and waiting workers
  hold different ones.
* `NothingLeftActive`: `[]RestIsSettled`. Strengthened by `ActiveAttended`: every
  job in an active stage has a worker still running for that title or, while
  "starting", an autoplay request still pending, so when nothing runs nothing is
  active.

The assumptions are those of `PlayJobs`: `None` is not a title or request,
`NextOf` maps titles to titles or `None`, the number of candidates is positive,
titles and requests are finite.

`AppLink_proofs` proves, for every set of launches, films and requests and every
bound:

* `LinkTypeCorrect`: `[]TypeOK`.
* `AcknowledgedWasActed`, `LaunchTrue`, `NothingEaten`: from `AckInv` (every number
  remembered or under way as an acknowledgement – by the server, the app, a
  request – is 0 or that of an order acted on) and `Numbered` (a number stands for
  one order, none is past the counter). `Numbered` is where the seeding of the
  counter matters: it is what a counter that restarted would break. `LaunchTrue`
  also needs that a waiting launch knows its number (`LaunchInv`).
* `OrdersInTurn`: `[]ActedInOrder`. `TurnInv` adds to it that what was acted on is
  no newer than the slot, and as new only if the next request acknowledges it
  (`SlotAfter`), and that once the loop's request has been handled, whatever is in
  the slot or in its reply is news (`ReplyAfter`); `WaitInv` keeps the loop's
  request apart from the farewell's and ties its acknowledgement to `pendingAck`.
  Steps are first reduced to four kinds (`TurnMoves`): a new order, a handled
  request, a reply read, and everything that keeps quiet. The proof never uses
  `lastHandled`: the app's memory of the last order is a second line of defence,
  the acknowledgement in every request is the first.

Assumptions of `AppLink`: `None` is no film and no request; the bounds are naturals.

`Packager_proofs` proves, for every set of sessions and requests, every length of
the film, lookahead and number of requests, and without the constraint of
`MCPackager`:

* `PackagerTypeCorrect`: `[]TypeOK`, with `Tokened` (a thread inside the packager,
  and a stop under way, has a session). `OnlyDies` sums up what every step but
  `SpawnStart` can do to the processes: none is new, none changes its session or
  anchor, none comes back to life.
* `FilesStayOfTheRun`: `[]CleanUnlessCrossed`. The invariant is `CleanInv`: what holds
  always (`Past`: a session that has not begun left no trace, every file is of a run
  that exists, the numbers a thread noted are no newer than the session's), and what
  holds while the history is `Orderly` (`Clean`). `Clean` is the argument why a
  restart may clear and spawn without holding a lock: at most one thread of the live
  session is `Hot`, that is, may still spawn (`Exclusion`; a `seek_gen` that moved on
  cools the others down); at most one run writes (`Single`), so that the kill by name
  meets it; from the kill on none does, from the clearing on the directory is empty
  (`Ready`); hence the anchor is published over an empty directory and the files stay
  under it (`Anchored`). The steps that touch neither session nor progress are dealt
  with at once (`Harmless`, `Calm`), those of a thread on its way in a lemma each.
* `StampIsTheRuns`: `StampOfItsRun`, from the conjunct `Stamped` of the same invariant:
  a file read in the live session is of the anchor published as long as the count of
  publications has not moved.
* `LastSeekIsServed`: `[]LastSeekWins`. `SeekInv` says who still owes the viewer the
  place asked for last: only a thread on course for the pending seek can still
  publish (`Heading`), and as long as that place is not published somebody in the
  session pursues it (`Pursues`), so that nobody is left at rest over another one.
* `NoRunIsLost`: `[]NoStrayRun`. The registry is in the invariant, `StrayInv`: at most
  one thread of a session spawns; a run a thread still has to stop is older than the
  one registered, so that the kill by name, which finds the oldest, meets it; and
  every living run of a session that is not being stopped is known to the registry
  or to such a thread. It holds while the history is `Orderly`.
* `WholeWhenServed`: `NeverHalfWritten`. `HalfInv` says that the one run that writes
  does so alone and in order and that every file but its last is closed (`Written`);
  that the run it replaced has ended (`OldIsDead`); and that a file found complete,
  or read, is closed or of a run that ended (`FoundSound`, `ReadSound`), unless a
  thread is about to publish another.

Assumptions of `Packager`: no session is a request thread, `NoToken` is no session,
the bounds are naturals. `CleanInv` was model-checked first on the instance of
`MCPackager`.

`Registry_proofs` proves all that its run checks, for every set of threads and
versions and any number of requests, faults and crashes:

* `RegistryTypeCorrect`: `[]TypeOK`. With it `LockInv`: an update and a change of the
  configuration hold the lock and the record is there as long as they do – without
  that, the record they write back would have no fields.
* `Company` is the argument why what overlaps badly is known: a clean request has
  nobody in its way (`Alone`), one that touches nothing shared is clean
  (`Innocent`), and unless something crossed everybody is (`Uncrossed`); an install
  that was alone makes it so again.
* `NoSwapPuzzles`: from `Staged`, which says for each stage of a clean swap what is
  in which tree.
* `FilesMatchRecord`: from `Kept`. The files differ from the record only between
  putting the old tree aside and the write of the record, and a thread there knows
  what it put aside; only such a thread, or a removal, may leave them apart, by a
  crash.
* `NoEditIsLost` and `TestsFitTheConfig`: from `Edited`. What a change of the
  configuration holds in its hands is the merge of its edit with what was saved
  last (`Merged`), because nobody else saves while it holds the lock.
* `PointerStaysInstalled`: `[]PointerInstalled`.

Assumptions of `Registry`: versions are positive naturals, `None` is no thread, no
record and no test, the bounds are naturals.

`ProviderPool_proofs` proves, for every finite set of callers, any savers, every
size of a pool and any number of saves and faults:

* `PoolTypeCorrect`: `[]TypeOK`, with it that a call past its lookup names a pool that
  was made and one that asks holds a worker. What each step makes of a pool is a
  lemma (`EndedIs`, `QueuedIs`, `LostIs`, `RestIs`, `GoneIs`), which the other proofs
  cite.
* `PoolNeverOverspawns`: `[]WorkersBound`, which is inductive beside the types. A pool's
  total is a sum over two queues, the relaunches owed and the callers that hold one of
  its workers; `LoadJoins` and `LoadLeaves` move a caller in and out of the last,
  `BoundMoves` and `BoundKept` take every step to such a move and a change of one pool.
* `ClosedPoolsAreDead`: `[]ClosedIsDead`, from `ClosedInv`: the queues of a closed pool are
  empty, and whoever is still in one holds a worker that was killed.
* `AnswersAreCurrent`: `[]CallsFollowSaves`, the argument that nothing but a lookup that
  crosses a save can serve an old configuration. `FollowInv` says that what a call has
  read is no newer than what is saved (`InOrder`), that a call still alone has no save
  beside it (`AloneIsQuiet`) and, as long as nothing crossed, that everything fits
  (`Matched`): the instance is the manager's pool and of its revision, no saver is about
  to close that pool, an open pool and all its workers are of one configuration, and a
  call is in a pool, and holds a worker, no older than it must be. Steps that only move
  callers and queues are dealt with together (`MatchedMoves`); a lookup
  (`MatchedGetInstance`) and the four steps of a save (`MatchedSaves`) by themselves.

Assumptions of `ProviderPool`: a pool has a positive size, there are finitely many
callers, the bounds are naturals.

`TorrentCache_proofs` proves, for every set of torrents and any number of plays,
restarts and failed deletions:

* `CacheTypeCorrect`: `[]TypeOK`.
* `InUseIsKept`: `[]InUseKept`, the argument why a clear may look once and delete one
  directory after the other while plays come and go. `CacheInv` says of every clear
  under way why it takes nothing it may not (`Spares`): nothing that was in use when
  it looked is in use any more; or what still is, is among what it keeps; or it is a
  sweep, the film is on screen and believed to be, and its engine is open or was on the
  list the sweep made. A use that ends leaves less to spare (`SparesLess`). Beside it
  `ScreenInv`: `nowplaying.json` names what is on screen, and a watch that does not
  believe the screen since a restart has seen nothing yet that could come to an end.

Assumptions of `TorrentCache`: `None` and `Direct` are no torrents and different, the
bounds are naturals. `CacheInv` was model-checked first on the instance of its run.

`Audio_proofs` proves of `Hifi`, for every set of films and any number of moves, plays, faults and
generations:

* `HifiTypeCorrect`: `[]TypeOK`.
* `TimelineIsOwn`: `[]OwnTimeline`. The status of the bridge is believed if it is of the
  server's generation; that this is enough needs that a status names the push it took
  its timeline from (`OwnBodies`), that a start's answer is believed only if its order
  is not `Stale`, and that no order, call, start or push is of a generation the server
  has not reached (`OrdersTo`, `CallsTo`, `StartsTo`, `BridgesTo`) - also across a
  restart of the server, whose counter starts from the clock, past all it used.
* `PushReadsItsCache`: `[]PushHasItsCache`, from `LockInv`: a start that holds the lock of
  the bridge holds it alone and has retired the push, so nobody pushes from the decoder
  it may replace.

All of it is one invariant, `HifiInv`. Its sets of allowed values grow with the
generation (`Grows`), so a step of the server is the change of its record and queue and
no more (`ServerKeeps`), and a step of the bridge leaves the record alone
(`BridgeKeeps`).

Assumptions of `Hifi`: `None` is no film, the bounds are naturals.

`Audio_proofs` proves of `Conversions`, for every set of titles, every number of plays,
stops and restarts and every limit of conversions:

* `ConversionsTypeCorrect`: `[]ConvTypeOK`, the list of steps of each thread and the
  limit of the registry included.
* `StopsAreThrough`: `[]StopAllStops`.
* `HeldConversionsHaveARegulator`: `[]HeldIsReleased`.
* `WhatIsLetGoIsStopped`: `[]LetGoIsStopped`. Six paths take an entry out of the registry
  under the lock and stop it after, with as many threads at it; `LetGoInv` says that the
  stop of a client no longer registered is never lost on the way. The registry has one
  entry for a title (`OneEach`), so that a start takes out no live client but the one it
  stops later; while it makes room nobody else enters anything and its own title is not
  registered (`Holding`); and a play begins under its own title (`Named`). A step that a
  thread has before it stays there until its turn, whatever is put before it.

The inductive invariant is `ConvInv`. A thread is a list of steps that grows as kills are
put before the rest, so its parts speak of a step by what comes after it: `Workers` says
that a play waits for its head last and launches just before that (`InOrder`), has no
process before the one and no regulator before the other; `Stops` says that the stop of
everything ends with its orphans, its mark and the outputs (`StopInOrder`), and that
whatever was to stop and still runs *will* be stopped (`WillStop`): its name is not one
that a look at the registry finds, so that it will be found an orphan, or it has been
found and its KILL comes before the mark. For this, nothing that is due may get back
into the registry's names but by a launch of the same title, which takes it off `due`.
`Unmade` says that a play not made yet has nothing. `HeldIsReleased` is inductive with
these: a regulator's number is a process it suspended, whose CONT or end goes with its
note. `Quiet` sums up the steps that start and suspend nothing, and `TodoMoves` is the
proof for all of them that only replace a thread's first step; the lemmas on `Sorted`,
`Without`, `StopEach` and `KillEach` say what these lists hold, from the well-foundedness
of the naturals.

Assumptions of `Conversions`: `Nil` is no title and no regulator, there is room for one
conversion at least, the bounds are naturals. `ConvInv` was model-checked first on the
instance of its run.

`Shelf_proofs` proves, for every set of titles, episodes, channels, players and callers,
every report and any number of operations and restarts:

* `ShelfTypeCorrect`: `[]TypeOK`, from a lemma about the shape of the record for each
  call of `ShelfRules`. `StepKinds` sorts the steps: one that leaves the table alone,
  a save, a change of one title by one of the calls, a change of one channel by one
  of them, a restart. The proofs below are by these kinds.
* `FileFollowsMemory`: `[]UnsavedIsDirty`. Each call either marks the table unsaved or
  leaves the meaning of the record alone. The one that does the latter is a report
  too early to keep, which leaves an empty record of the episode behind
  (`SilentReport`, `MeaningOfNote`). A damaged file stands for the empty table
  (`DamagedIsEmpty`).
* `AnswersAreKept`: `[]AckedOnDisk`, from `AckInv`: as long as a call is "unsaved" the
  table is unsaved as well, so that the save before its answer writes it, or another
  handler's save has.
* `WatchlistIsKept`: `[]WatchlistKeepsSaved`, from `WatchInv`: no mark of having watched,
  in memory or in the file, is later than the title was last watched, and that is
  never later than now. The file is part of it because a restart brings its stamps
  back.
* `DropsHold`: `DropHolds`. A muted job's report changes nothing, and no other call sets
  a position.
* `ResumePointHolds`: `ResumePointKept`, from `ResumeInv`: a report between guard and note
  that no play of its title has crossed still passes the guard, whatever else was marked,
  dropped, saved or reported. One that a play has crossed need not (`ResumeCrossed.cfg`).
* `OpenedStayNewest`: `OpenedNewest`, from `OpenedInv`: no opened video, in memory or in
  the file, is stamped later than now. With the stamps behind the clock, the oldest
  entry of a full table that got one more is never the one just added; that there is
  an oldest is `NatMin`, from the well-foundedness of the naturals.

Assumptions of `Shelf`: episodes are finitely many positive naturals, `None` is no
number, uploads have a date, the caps and the throttle are positive, films are no
series, reports and offsets are naturals (a length or an offset may be `None`), the
bounds are naturals. The invariants the cfg names were model-checked first.

`TypeOK` of all these modules, and `PlayJobs`'
`InflightExact` and `LapsedStaysBehind`, are theorems and not properties of a run.

Only model-checked: everything under fairness (`JobsSettle`, `OrdersLeave`,
`EventuallyFreed`, `CallersReturn`, the three of `hifi`), which is beyond the
prover. Every safety property that a passing run checks is a theorem, the step properties
and the refinement of `PlayClaims` among them.

## 5. Disagreements between code and comments

Two are runs of the project:

* `next_call`: `invalidate()` takes the instance out of the cache and then the pool from
  the manager, without holding the lock of the instances over both (`gateway.py:222-230`).
  The trace is a lookup in between: it makes an adapter over the pool that is then closed
  and caches it under the current revision, and every later call finds it and fails. The
  other way: a lookup that read the record before the save and the revision after it puts
  the old configuration back under the new revision, and later calls are answered under
  it. Both are against the comment at the cache (`gateway.py:99`, "picked up on the NEXT
  call").
* `no_files`: a crash between the two renames of an update leaves the provider
  without files; nothing restores `<id>.previous`, and the next install deletes it
  (`registry.py:135`, comments at `registry.py:91` and `:95`).

The others have a configuration that finds the shortest behaviour. By hand:
`tlc -config Takeover.cfg PlayJobsRemarks`, and likewise `Refused`, `CancelLost`,
`OldToken` with `PlayJobsRemarks`; `Scrubs`, `OwnKill` with `Packager`; `LeftHeld` with
`MCConversions`; `HalfLength` with `AudioRoute`; `Replay` with `Hifi`; `ResumeCrossed` with
`MCShelf`.

* `Takeover`: `claim_owner()` and `play_claim()` are separate critical sections; a
  browser play can supersede a TV play, which the comment at `jobs.py:116` excludes.
* `Refused`: the autoplay placeholder is merged into the record an earlier browser
  play left, and its owner refuses the very play it announces (`tvlink.py:451`,
  table at `jobs.py:107`).
* `CancelLost`: a cancel between `start_play()`'s last look at the counter and
  its registration is answered "cancelled" and cancels nothing (`jobs.py:582`,
  comment at `jobs.py:51`).
* `OldToken`: a TV play keeps the `otoken` of an earlier browser play of the same
  title, so the old page's beacon stops the TV (`routes.py:1834`, comment at
  `routes.py:1809`).
* `Scrubs`: a scrub that has passed its last look at `seek_gen` starts its ffmpeg
  into a directory a newer scrub has cleared and anchored elsewhere; its segments
  are then stamped with the wrong anchor (`browser_session.py:196`, comments at
  `browser_session.py:110` and `:192`). The keyframe probe in between may take 20 s.
* `OwnKill`: the restart of a run ends in a kill of the run it replaced, by a name
  both share; the old one is already dead, so the name finds the new one
  (`transcode.py:408`). What follows is worse than a failed scrub: requests near
  the frontier of a dead run only wait, so nothing starts it again.
* `LeftHeld`: where the docker command that suspends a conversion stalls past its
  time limit, the regulator takes it as failed and does not resume what was in fact
  suspended (`transcode.py:362`).
* `HalfLength`: the route of a converted output reads its size, then asks whether anything
  still writes it, and if not sends that size as the length. A conversion that ends in
  between is served without its last part, and a player that trusts the length takes the
  film to be over there (`routes.py:829` and `:838`; comments at `routes.py:832` and
  `transcode.py:447`, whose partial length asking the container was to end). The loop that
  follows a growing file has the same order: it reads to the end and then asks
  (`routes.py:866-872`).
* `Replay`: a play of the film that is playing queues a prepare, which finds its decoder in
  place and leaves decoder and push as they are (`sendspin_bridge.py:580`), while the
  server forgets the timeline (`jobs.py:433`). When the TV then pauses or buffers, no
  stop is queued, because the server takes hi-fi to be inactive (`tvlink.py:288-291`), and
  the sound goes on. Against the comments "a new source
  retires the old timeline now" (`jobs.py:422`) and "pause: the push stops"
  (`sendspin_bridge.py:989`). `QuietWhenStopped` sets such a push apart (`forgotten`), and
  no other but that of a restart below: it allows none that is newer than the last push
  the server let run so.
* `ResumeCrossed`: a report passes the resume guard, the same title is played again from a
  resume point, and the report is then recorded and puts the position before that point
  (`watching.py:119-127`, comment at `:115`).

Smaller ones, met on the way and without a configuration: a worker stands down by
job id, so a newer play of the same title keeps it going (`jobs.py:370`); a
superseded worker stops its conversion by a name that the newer play's may have
(`transcode.py:206`); a heartbeat that was given up on may be handled after the one
that followed it and put an old report back (`tvlink.py:378`); a beat checks its
token and writes the session in two critical sections (`routes.py:1760`); `runner.py:9`
says a busy worker is never touched, and closing a pool kills it; a caller that
waits in a pool when it is closed waits out its time; two installs of one provider,
or an install and its removal, are kept apart by nothing (`registry.py:173`); a
result of a test that was under way while the configuration was saved is recorded
as if it were of the new one (`gateway.py:640`); a push that outlives a restart of
the server is heard until the next start or release (`sendspin.py:353`; the other push that
`forgotten` in `Hifi` sets apart).

`PlayerLink.kt:77` says that the server's counter restarts from 1; it is seeded
from the clock (`tvlink.py:125`). The memory that this defends against is
harmless, and `AppLink` shows that with a counter that did restart
(`SeedZero`) an order would be acknowledged that was never delivered, the memory
notwithstanding.

## 6. Not modelled, and why

* In `PlayJobs`: the ranking of candidates and the arithmetic of buffering (a
  candidate is ready, refused or fails, by choice); eviction of old records from
  `_jobs`; disk pressure; messages and percentages. Three actions merge a read with the
  critical section after it: `ClaimSecond` and `RefusesSecond` the state of the TV with the
  browser's (`jobs.py:157-161`), `AutoplayNext` the heartbeat's report with the placeholder
  (`tvlink.py:212-241`, `jobs.py:451`).
* In `Packager`: `regulate_hls()` and its trim; `init.mp4` and the timescales; the
  files a run writes past the last segment, which the last slot serves too; the
  eviction at `MAX_TRANSCODES`, which other conversions would have to fill;
  docker failing to run a kill; the docker-exec client dying alone.
* In `AppLink`: a second TV (the code lets a new id take over at once), the
  contents of reports other than film and state, hi-fi fields, adb.
* In `Conversions`: the arithmetic of the lead, ffmpeg's arguments, log files, a
  container that does not answer (but for `LeftHeld.cfg`). In `AudioRoute`: the container's
  answer that stands for three seconds.
* In `TorrentCache`: sizes and limits (the disk is full or not, as it likes), the
  cap on the daemon's own cache, jobs that go stale, a daemon that does not answer
  (`torrents.py:79`).
* In `Hifi`: volume, trim, the choice of player and track, clock offsets, a timeline
  that slips, discovery; a decoder that is done before the film is late (it may be minutes
  ahead), which only ends sooner what it would end later.
* In `Shelf`: names and listings, the polling interval. `ShelfBegin` is the begin on the
  shelf and the job's record in one (`watching.py:68`, `jobs.py:633`), between which the
  code asks a provider.
* In `ProviderPool` and `Registry`: the fallbacks between roles, what a provider
  answers, the admin's password and sessions, uploads of packages. In `ProviderPool` a
  provider that is removed (`gateway.py:188`) and a save that goes back to an earlier
  revision. In `Registry` the removal of leftovers and of the tree put aside ignores
  errors in the code (`registry.py:115`, `:143`) and always succeeds in the model: a tree
  that cannot be deleted would fail every later update at its first rename.
* Arithmetic without a protocol: `browser_play.py`, `netprofile.py`, `streams.py`,
  `mediaprobe.py`.
* Components marked not modelled above: listing, scoring and parsing without a
  protocol of their own; screens; shell scripts.

## 7. Plan

1. `Packager`: add the regulator and its trim.
2. `Shelf`: state what a drop promises as an abstract specification over positions and
   mutes alone, with the table and the file below it.
3. The pure arithmetic of `browser_play.py` as operators against reference
   definitions.
