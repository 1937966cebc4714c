# Verification of sn2md-worker

sn2md-worker mirrors a Google Drive folder of Supernote `.note` files into an
Obsidian vault: it listens to Drive's change log, converts each note page by
page into Markdown with Gemini, and removes the output of notes that leave.
This directory holds TLA+ models of that program, TLC configurations that check
them on small instances, and TLAPS proofs for all instances. Paths below are
relative to `src/sn2md_worker/` in the repository.

## 1. The system

### Components

| component | state it keeps | operations | what makes it correct |
|---|---|---|---|
| conversion records (`state/conversions.py`) | one row per logical key (place of a note): file id, parent, name, md5, status, output path | `upsert`, `record_failure`, `mark_success`, `set_current_file_id`, `delete_by_logical_key`, reads by key and by file id | SUCCESS tells the truth about the vault; a directory has a record |
| page records (`state/page_conversions.py`) | the md5 of each page converted, per key and index | `upsert`, prune, `delete_all_for_note` | a cached body is the transcription of the page it is used for |
| `convert_note` (`workflows/convert_note.py`) | locals of one run: metadata, stale records, downloaded bytes | lock, up-to-date check, seeding, download, PENDING, pages, finalize, cleanup of old places, failure paths | a live note ends up rendered; runs of one key do not interfere; an old place is cleared |
| `delete_output` (`workflows/delete_output.py`) | locals of one delete: the record read | read, lock, read again, live lookup, repoint or rmtree and rows, enqueue | output of a note that left goes; output of a live note stays |
| locks (`workflows/locks.py`) | one file lock per key | acquire, release | one worker inside a key's block |
| `poll_changes` (`workflows/poll_changes.py`, `state/cursor.py`) | the cursor into Drive's change log | fetch a page, resolve each change, enqueue, save the cursor | no change is lost unless the code says so |
| `backfill` (`workflows/backfill.py`) | none | list all notes, enqueue what lacks an up-to-date record | whatever failed is driven again |
| queues and recovery (DBOS, `workflows/__init__.py`) | enqueued and running workflows, deduplication ids | enqueue, dequeue, recover, cancel another version's | nothing holds a deduplication id for ever |
| Drive client (`drive/client.py`, `drive/paths.py`) | none | metadata, download, list, find a live note, watch | the answers of Drive, with not-found, permanent and transient errors told apart |
| page runner (`conversion/multi_page.py`) | files of one note directory | preload the cache, stage cached pages, transcribe, write, index | a crash between two writes poisons no later run |
| Gemini client (`conversion/gemini.py`) | attempt counters | retry with two budgets | bounded, and longer than a throttle window |
| watch channels (`workflows/renew_watch.py`, `state/watch_channels.py`) | channel rows, one active | create, confirm, promote, stop | pushes of the live channel are accepted, at most one is active |
| webhook (`drive/webhook.py`) | none | authenticate, enqueue a deduplicated poll | retries of a push enqueue once |
| startup (`__main__.py`) | boot step results | launch, cancel, register, seed, backfill, channel | whatever a downtime missed is driven again |

`state/debounce.py` has no caller in the program. Configuration, logging,
metrics and the release scripts have no protocol of their own.

### How they interact

Drive changes on its own. A push (webhook), a cron or a boot enqueues
`poll_changes`, which turns every change it reads into a `convert_note` or a
`delete_output` workflow; `backfill` enqueues `convert_note` for what its
listing finds out of date. Up to `convert_concurrency` conversions and two
deletes run at once. They share the two tables, the vault and the locks, and a
delete that finds a live twin enqueues a conversion itself. An enqueue of a
conversion carries the id `file_id:source_path`, and is dropped while a job
with that id is queued or running. When the process dies, DBOS re-executes the
unfinished workflows; when it restarts under another version, they are
cancelled.

### What is hard

- Decisions are made from reads that are stale by the time they are used: the
  md5 before the download, a record read outside the lock, a file id looked up
  twice, a list of old places made under one key's lock and used under another's.
- Identity is a place, not a file: one file can have several rows, one place
  several files, and the Supernote replaces a note by uploading a new file and
  trashing the old one, in either order.
- The vault, SQLite and DBOS's own tables are three stores without a common
  transaction, and the process may die between any two writes.
- Deletions are driven once, by one change; conversions are also driven by the
  sweep.

## 2. The modules

- **ConversionTable** models `state/conversions.py`. Each repository function is
  an operator from a table to the table its transaction leaves; each query a
  decision reads is an operator too. A query by file id answers in rowid order
  and the code takes the first row, so a row carries `older`, the keys whose
  rows were inserted before it.
- **NoteSync** is the core: Drive, the producers, `convert_note`,
  `delete_output`, the locks, crashes and upgrades, over the records, the page
  records (`paged`: whether a key has any) and the vault.
- **VaultMirror** is what the core promises of each key to whoever reads the
  vault and the records: three variables per key (the record's status, the md5
  it claims, the directory) and what may happen to them. NoteSync implements it
  under the mapping at the end of NoteSync (`Mirror`).
- **PageCache** is the page runner below one `convert_note`: the files and page
  rows of one note, through edits, failed runs and crashes between two writes.
- **ChangeFeed** is the way from Drive's change log to the jobs: pushes, crons
  and boots enqueue on `poll_queue`, a poll walks the log page by page behind
  the saved cursor, a backfill lists the folder.
- **LogFollower** is what the change feed promises to whoever relies on its
  cursor: the log, the cursor, the changes dealt with and those given up. ChangeFeed
  implements it under the mapping at the end of ChangeFeed (`Follower`).
- **WatchChannel** is the push channel: its renewal by the cron and the boot, the
  rows, Drive's side of it, the clock, and which pushes the webhook accepts.
- **MCNoteSync**, **MCPageCache**, **MCChangeFeed** and **MCWatchChannel** give
  the instances that TLC checks.
- **ConversionTableProofs**, **NoteSyncProofs**, **DirectoryProofs**,
  **RenderedProofs**, **VaultMirrorProofs**, **PageCacheProofs**, **ChangeFeedProofs** and
  **WatchChannelProofs** hold the theorems.

How they fit together:

- NoteSync sees a run of PageCache as two steps: a directory that is `torn`, then
  `whole`. What `whole` promises there, PageCache states slot by slot
  (SuccessShowsNote). PageCache has one note and one run at a time, which
  NoteSync's locks are what justifies.
- NoteSync sees the change feed as a set of files with an undispatched change, a
  failure that skips one, an expiry that empties the set, and a sweep that may
  enqueue any out-of-date note at any time. That a change leaves the set only
  that way, and that the sweep does come round, is what ChangeFeed shows
  (NotesAreCovered, RemovalsAreDeleted, EveryChangeIsHandled).
- ChangeFeed takes a push as something that happens to an acknowledged webhook
  call any number of times and as late as it likes; whether pushes arrive at all
  is WatchChannel's subject. The polls that WatchChannel's renewals enqueue
  are ChangeFeed's `CronPoll` and `EnsureActiveChannel`.

### State of NoteSync and the code

| variable | code |
|---|---|
| `drive`, `top` | the files of Drive; contents are numbered as they are uploaded, and the number is the md5 |
| `feed` | change log entries behind the saved cursor, one per file (the log reports a file's last state) |
| `rows`, `paged` | `conversion_records`, `page_conversions` |
| `vault` | each key's output directory: not there, `torn` (some pages of an unfinished run), or `whole`, the rendering of one content |
| `lock` | the file lock of each key |
| `convert` | for each deduplication id, the `convert_note` workflow: where it is and its locals `meta` (md5 and place), `stale_records`, downloaded content, old key being cleaned |
| `deletes`, `delete` | `delete_queue` and the two workers of it |
| `spent` | how much of each budget is used |

An action is a stretch of code between two effects another worker can see. The
order of effects is the code's: `ConvertMetadata` (lock, metadata, trashed),
`ConvertCheck` (up to date, stale records, existing pages, seeding),
`ConvertDownload`, `ConvertPending`, `ConvertPages`, `ConvertWrite`,
`ConvertFinalize` (the end of the locked block), then `CleanupOld` and
`CleanupOldRows` for each old key under that key's lock, and `ConvertEnd`;
`DeleteFirstRead`, `DeleteReread` (lock and second read), `DeleteLookup`,
`DeleteRepoint` then `DeleteEnqueue`, or `DeleteRmtree` then `DeleteRows`.
`ConvertFails` and `DeleteLookupFails` are the exception paths. A workflow that
ends, well or in error, frees its deduplication id. `Crash` sends every
unfinished workflow back to its start (a delete whose step was already recorded
may go on to its enqueue); `Upgrade` cancels them.

### State of PageCache and the code

| variable | code |
|---|---|
| `note` | the pages of the note in Drive; a page is named by the image it is rendered to, which is what its md5 tells apart |
| `done` | the content of the record at SUCCESS, or `<<>>` while it is PENDING or ERROR |
| `png`, `md` | the files `page-NN.png` and `page-NN.md` of each slot; of a text the model keeps whose transcription it is |
| `row` | the md5 of the slot's `page_conversions` row |
| `run` | where `run_multi_page` and its caller are, with their locals: the downloaded pages, the preloaded bodies, the slot at hand |

`Start` is the path of `convert_note_impl` to the page run: up-to-date check,
download, PENDING, `_preload_cached_pages` (`Recorded` is its first pass,
`Orphan` its second, and `Bodies` what a page's hash can then be found with).
`StageImage` and `StageText` are the staging loop, `Transcribe` and `WriteText`
a page that goes to Gemini, `SkipCached` one that does not, `GeminiFails` the
exception, `PersistPage` the callback that upserts the row, `Finalize` the success
transaction; `PruneText` and `PruneImage` remove the files beyond the last page,
text by text and the image behind each, `PruneOrphan` the images that had no text, and
`PruneEnds` ends the run. Every file write, every removal of a file and every transaction is an
action of its own, and `Crash` may come between any two.

### Abstractions of PageCache

- Frontmatter dates, the image reference, `index.md` and the text passed to Gemini
  as context are left out: the cache does not key on them.
- A text that a user has made unparsable counts as not there; nobody else
  writes in the directory.
- The content downloaded is the one whose md5 was read. The gap between the
  two is in NoteSync.
- Seeding from an old place is in NoteSync; here the note does not move.
- A crash falls before or after a write, not inside it. The code writes in place;
  half an image has no page's md5, and half a text lacks the trailing image
  reference without which the preload ignores it.

### Abstractions of NoteSync

- Taking a lock and the read that follows it are one action: nobody else can
  tell them apart, since the lock is free to others until then.
- `Dispatch` and `Sweep` decide and enqueue for one file at once. The code
  plans a whole page, or listing, in a DBOS step and enqueues afterwards; the
  difference is an enqueue that comes late, which the queue itself allows.
- A directory is `torn` from the first write of a run to its last. Files,
  pages and hashes inside it are PageCache's.
- Every key has a directory of its own. Keys whose directories nest or coincide
  are not modelled (section 5).
- A folder is not removed from Drive, so a live lookup is not answered with
  not-found; a folder renamed above a note is a move of the note.
- An md5 is never NULL: Drive gives every `.note` a checksum. The table still
  has NULL md5s (rows that never succeeded), as content 0.
- Attempts, errors, timestamps and correlation ids are left out: no decision
  reads them.

### State of ChangeFeed and the code

| variable | code |
|---|---|
| `head`, `oldest` | Drive's change log, numbered; a page token is the number of the change before it, and tokens before `oldest` are refused |
| `cursor` | the row of `drive_change_cursor`, -1 if there is none |
| `queue` | what is enqueued on `poll_queue` (`worker_concurrency=1`) |
| `run` | the workflow that `poll_queue` runs: its step, the page it has planned (`todo`, `last`, `next`), the change its listing started behind (`at`), the push it stands for |
| `boot` | how far `main()` has come |
| `resolved` | changes turned into a job, found to need none, or counted as errored |
| `swept` | every note as of this change went through a backfill |
| `acked` | changes whose push was answered with 200 |
| `waived` | up to where the code gave up something, by reason (below) |
| `spent` | how much of each budget is used |

`LoadOrInitCursor`, `FetchPagePlan` (one DBOS step: page and resolution),
`CursorRefused` (in the same step, the cursor is set to the log's end), then
`EnqueueAction` per change, `SaveCursor` and `NextPage`, or `EnqueueRecovery`;
`ListStarts`, `ListEnds` or `ListPartly`, `EnqueueTargets`; `SeedCursor`,
`Launch`, `EnsureActiveChannel`, `EnqueueStartupBackfill`, which is the order of
`main()`. `PollFails` and `BackfillFails` end the workflow in ERROR: a step that
raises is not tried again, unlike what the comment at `poll_changes.py:231-232`
suggests, and the next cron tick takes over. `Crash` leaves the running workflow
where DBOS takes it up again (`Resumed`): behind its last recorded step, or
before a step whose effect was committed and not recorded. `Launch` under another
version cancels everything on the queue.

`waived` names what the code gives up. "reset": the cursor was set to the log's end
and the changes before it were never read. "sweep": a backfill failed or passed over
a refused subfolder, or the cursor was first set by a poll, behind the boot's
backfill; the daily sweep is what remains. "poll": a poll failed. The properties
except changes by these names and no others.

### State of WatchChannel and the code

| variable | code |
|---|---|
| `today` | the clock, in days |
| `url` | `settings.webhook.url` of this boot, which may be empty |
| `phase` | how far `main()` has come: before the channel, the channel, the backfill, serving |
| `made`, `rows`, `active` | `drive_watch_channels`: the ids drawn so far, URL and `expires_at` of each row, the one row with `is_active` |
| `watch` | the channels Drive has, where it pushes and until when |
| `run` | the renewals of the boot and of the cron: step, its `now`, the channel it replaces, the one it makes |
| `unseen` | of the changes in Drive, one that is followed: a change of a note (`note`) or a `removal` that no push, poll or backfill has covered, or one that was `passed` over; `none` when it is covered |
| `checked`, `orphans`, `reverted` | history the properties speak of: the last check that ended with a fresh channel, channels whose acceptance the worker never heard of, a setting that went back to the URL of the active row |
| `spent` | how much of each budget is used |

`Check` is the start of `_renew_channel_step` under the channel lock, `Stop`
`_try_stop_channel`, `Create` the pending row, `Accept`, `Refuse` what becomes of
`changes.watch`, `Rollback` and `Confirm` its two outcomes, `CatchUp` the poll behind
the step; `BeginCron` and `BeginBoot` the two ways to a renewal. A crash may come
between any two; the cron's renewal then starts over, unless its step was recorded.

### Abstractions of ChangeFeed

- The faults are those of Drive's calls and of the process. The database does not
  fail, the boot has its Drive credentials, and the source folder is set.
- Identical cron jobs waiting on the queue are one: the second walks an empty page.
- What becomes of a job once enqueued is NoteSync's.
- A backfill takes a note as it is when the listing starts; a change made while it
  lists is a later change, which has its own entry in the log.
- The queue is a set. Its order matters only for progress, where the fairness below
  stands for it.

### Abstractions of WatchChannel

- One renewal of the cron at a time. Two overlapping crons would be two renewers of the
  same shape, serialised by the same lock.
- The lock has no timeout, in the code neither; waiting for it is the guard of `Check`.
- Drive pushes every change of a channel it has. That Drive may lose a push is why the
  fallback poll exists; it is not a property of this code.
- Changes are followed one at a time, and TLC and the proof take any one of them. A poll
  that was enqueued covers every change before it; the startup backfill covers a change
  of a note that is there, and no removal, since all it enqueues is conversions. What
  becomes of an enqueued poll or backfill, which may fail, be cancelled by an upgrade or
  find its cursor refused, is ChangeFeed's.
- A failed `stop` leaves the channel at Drive until it expires; its row stays, so that
  its pushes are accepted.

## 3. Runs

The instances are bounded by a `Budget`: how often Drive may create, copy, edit,
move, trash, restore or remove a file, log a change or forget old ones, how often a
push arrives, the days pass or the setting changes, and how often a call may fail,
the cursor expire, the process crash or be upgraded. Nothing else is bounded: sweeps,
polls, crons, renewals and workers run as often as they can.

| run | instance | checks |
|---|---|---|
| `replace` | NoteSync: one key, two files, two deleters; two creations, a copy, an edit, two trashings, a failure, a crash | TypeOK, LockOwnership, SuccessIsWhole, InFlightKeepsDir, NoOrphanDir, UpToDateIsRendered, RenderedStays |
| `replace_live` | NoteSync: one key, two files; two creations, a trashing, a failure, a crash, an upgrade | LiveNoteConverges |
| `move` | NoteSync: two keys, one file; an edit, two renames, an expired cursor | LockOwnership, MirrorsVault, LiveNoteConverges, SettledNoteDisappears |
| `leave` | NoteSync: one key and a place outside, one file, two deleters; an edit, a move, a trashing, a restore, a removal, a crash | LiveNoteConverges, SettledNoteDisappears |
| `pages` | PageCache: notes of up to three pages out of three images; two edits, two Gemini failures, a crash | TypeOK, SuccessShowsNote, RunsWithoutCrashAreExact, FailureKeepsTranscriptions |
| `feed` | ChangeFeed: two changes, the second a removal, on pages of one; a push, a loss of the log, a failure or a crash | TypeOK, NotesAreCovered, RemovalsAreDeleted, AckedPushIsPolled, EveryChangeIsHandled, FollowsLog |
| `channel` | WatchChannel: two URLs and none, a lifetime of two days and a headroom of one; a jump of the clock, three settings, a failure, lost answer or crash | TypeOK, ExpiryNeedsMissedChecks, LeftAloneIsWatched, AcceptedIsKnown, SeamIsCovered, PushesComeBack |
| `unlocked` | NoteSync: two keys, two files | InFlightKeepsDir: violated |
| `removed` | NoteSync: one key, one file | RemovedNoteDisappears: violated |
| `renamed` | NoteSync: two keys, one file; a rename | OldPlaceIsCleared: violated |
| `lost` | NoteSync: two keys, one file; a rename, a crash | LiveNoteConverges: violated |
| `torn_page` | PageCache: one edit, a crash | TextIsOfItsPage: violated |

### Why the bounds are enough

- **NoteSync.** Two files at one key are what a replacement needs; a third adds only
  a second replacement of the same shape. Two keys are what a rename needs; a third
  would be a second old place, which the cleanup treats as the first. One failure
  and one crash, at any point, tear each pair of adjacent writes.
  `ConvertConcurrency` is 2, so that two conversions of one key, or of two, overlap;
  there are two delete workers where two deletes can exist, but for `replace_live`,
  where the second delete waits on its queue. `move` has no failure
  and no crash: with a crash it is the run `lost`. The cursor expires in `move`, where a
  change that is lost with it comes back by the sweep; where a note has left (`leave`),
  an expired cursor or an upgrade loses the delete, and SettledNoteDisappears claims
  nothing of that.
- **PageCache.** Three slots and three images give insertion, removal, reordering and
  repetition of pages around one that stays; two edits let a note change again after
  a run that failed half way; two failures let a run fail on what another left.
- **ChangeFeed.** Two pages are what it takes for a cursor to be saved in the middle of
  a walk; a removal and another change are the two kinds the code tells apart; one
  failure or crash falls at any step of any poll, backfill or boot, and a boot can be
  an upgrade at no cost. Three changes with pages of two, and two pushes, passed as
  well (safety: 4.3 million states, by hand); FollowsLog was checked with pages of two too,
  where a page has an order of its own (1.4 million states).
- **WatchChannel.** A jump of one day or two takes a channel into its headroom or beyond
  its end. Three settings are a URL, another one, and back. Two jumps, and two
  failures, passed the safety properties as well (6.0 and 4.9 million states, by hand).

Deadlock is checked in `feed` and `channel`, where crons tick for ever. It is not in
the other runs: a NoteSync whose Drive has come to rest, and a PageCache whose note is
up to date, have nothing to do.

### Properties

NoteSync:

- **LockOwnership**: a worker is inside a key's block exactly while it holds the
  key's lock, also when it cleans up other keys, fails or dies.
- **SuccessIsWhole**: a record at SUCCESS stands beside no torn directory and
  beside none older than its md5.
- **InFlightKeepsDir**: nobody removes the directory a run is writing.
- **NoOrphanDir**: a directory without a record belongs to a conversion that is
  still on its way.
- **UpToDateIsRendered**: a live note that conversions and sweeps skip as up to date
  is shown as it is in Drive, if it has a directory, as long as no content was uploaded
  twice. The md5 is read before the bytes, so a record may claim an older content than
  the directory shows; a copy of that older content which takes the row over by a
  repoint would be skipped for ever, under the wrong rendering.
- **RenderedStays**: the up-to-date output of the one live note at a key does not
  change while the note does not.
- **MirrorsVault**: NoteSync implements VaultMirror. A directory is torn only where
  the record makes no claim, completed only where it is torn; SUCCESS is claimed
  only from PENDING, beside a directory that agrees with the md5 claimed.
- **LiveNoteConverges**: when one live note stays at a key, its rendering is what
  the vault ends up with, and keeps.
- **SettledNoteDisappears**: the output of a note whose conversions were over
  when it left goes, unless another note comes to its place.

The run claims InFlightKeepsDir, NoOrphanDir and RenderedStays for one key. With two,
`unlocked` breaks the first and the third, and a seeded directory whose conversion
then fails has no record. What breaks them is a note that is renamed: for notes that
stay where they are, all three are proved for any number of keys (section 4).

PageCache:

- **SuccessShowsNote**: a note at SUCCESS has, slot by slot, the image and row of
  its page and some text, and no row beyond its last page.
- **RunsWithoutCrashAreExact**: until a crash, each page at SUCCESS has its own
  transcription, and no file of a lost page stays.
- **FailureKeepsTranscriptions**: when Gemini fails, every page that was cached
  or gone through is found by the next run's preload.
- **TextIsOfItsPage**: the text of each page at SUCCESS is its own, crashes
  included. The code does not have it.

ChangeFeed:

- **NotesAreCovered**: a change behind the cursor was resolved, or a backfill that
  lists its note was made, is queued or running, or is still to be enqueued by the
  poll at hand or by the boot.
- **RemovalsAreDeleted**: a removal behind the cursor was turned into a delete, unless
  the cursor jumped over it.
- **AckedPushIsPolled**: a push answered with 200, dropped duplicates included, has its
  change behind the cursor or a poll that will read it, unless a poll failed since or
  a backfill stands in.
- **FollowsLog**: ChangeFeed implements LogFollower. Changes are enqueued in the order of
  the log, at most a page ahead of the saved cursor; one that gets a 4xx is passed over
  out of turn, which no removal is; the cursor is saved where everything before it was
  dealt with, and otherwise only set to the log's end, by which alone changes are given
  up. A crash may set the cursor back, to where a page begins again.
- **EveryChangeIsHandled**: every change comes to be resolved, or is jumped over by the
  cursor and covered by a backfill.

WatchChannel:

- **ExpiryNeedsMissedChecks**: the active channel ends more than the headroom after the
  last check that ended well.
- **LeftAloneIsWatched**: a channel the next check would leave alone is one Drive has,
  unless the setting was changed and changed back.
- **AcceptedIsKnown**: the pushes of every channel Drive has are authenticated, unless
  the worker never heard that Drive had accepted it.
- **SeamIsCovered**: once pushes are heard, no change from before is waiting for one: it
  was polled, or it is of a note and was backfilled, or the renewal at hand still owes
  its poll. What the code passes over is excepted (below).
- **PushesComeBack**: a worker that hears no pushes hears them again, unless no URL is
  set or the setting was changed and changed back.

The exceptions are behaviours of the code, each with a name in the model. `passed`, in
SeamIsCovered, has two. What came before a first channel that the cron makes, after the
boot had failed to: `renew_watch.py:88-89` says a first channel needs no catch-up poll
because the startup backfill covers it, which by then has been. And the removals behind which
a boot enqueues no poll, because it left the channel alone, had none to replace, or failed to: the
backfill deletes nothing. That is also where a change ends up when the process dies
between the step that replaced the channel and the enqueue of the catch-up poll, for the
next check finds a fresh channel and owes no poll, although `docs/technical-brief.md:338-340`
has the poll cover what changed in between. In all of them the next push or the fallback
poll bounds the delay.

### What the violated runs show

- `unlocked`: `delete_output` locks the key of its first read and acts on its
  second, both by file id. When the record moves to another key in between, it
  removes a directory whose lock it does not hold, under a running conversion.
- `removed`: a delete that runs while a conversion has read the metadata but not
  yet written PENDING finds no record and ends. The note's output stays.
- `renamed`: two conversions of one file at two places look for each other's
  records before either exists. The old place stays.
- `lost`: a note is renamed while the conversion of its first place is on its way. That
  conversion sees the new place's PENDING record and takes it for an old one. The new
  place reaches SUCCESS; the late conversion removes its directory, and the process dies
  before the row goes. Re-run, it is up to date by its own row. The live place keeps a
  SUCCESS row without a directory, which neither the feed nor the sweep looks at again.
- `torn_page`: a page is redrawn; the run writes its new image and the process dies
  before the text. The row no longer matches the image, so the slot is taken for
  an orphan, whose text counts as the image's: the next run gives the new image
  the old page's text, without a call to Gemini, and records SUCCESS.

### Fairness

Nothing is assumed of Drive's changes, and failures are bounded by their budget, not by
fairness.

- NoteSync: weak fairness of dispatching a reported change (the fallback poll cron runs
  whatever the webhook does), of the sweep of a note that needs conversion (daily cron),
  of each conversion job and of each delete worker (DBOS dequeues what is enqueued and
  recovers what was running, and a file lock is polled until taken).
- ChangeFeed: weak fairness of the boot's steps (the container restarts a process that
  died), of the poll's and the backfill's steps, and of the two crons; strong fairness of
  starting a cron's poll and a backfill, which the queue's order of enqueueing gives: the
  queue may be busy again and again, but what waits comes up.
- WatchChannel: weak fairness of the boot, of the cron's beginning and of each
  renewal's steps.

## 4. Proofs

Proved by TLAPS for all values of the constants satisfying the named
assumptions. In NoteSync: keys are places and there is at least one, a place is the
pair of its parts, the sentinels differ from ids, budgets are natural, workers of the
two kinds are distinct. In PageCache: a missing page is no page, a note can have one. In
ChangeFeed: a page holds at least one change. In WatchChannel: a channel lives longer
than the headroom, the empty setting is a setting.

**NoteSync.**

- **TypeCorrect**: `Spec => []TypeOK`. Inductive by itself.
- **Locks**: `Spec => []LockOwnership`. Inductive with TypeOK. The argument has
  one lemma for a step of one conversion and one for a step of one delete
  (`JobMoves`, `DeleteMoves`): it is enough that the worker that moves holds
  afterwards exactly the locks of the sections it is in, and that no other
  lock changed hands.
- **SuccessStaysWhole**: `Spec => []SuccessIsWhole`. Not inductive: a run that is
  about to mark SUCCESS must have made the directory whole, and from content no
  older than the md5 it is about to record. `WholeInv` says so for each job
  (`JobInv`: between PENDING and finalize the record is not SUCCESS; at finalize
  the directory, if it is there, is whole and at least as new as the job's md5;
  the downloaded content is no older than the md5; a key whose run has written
  pages has page records) and each key (`KeyInv`: the property, and that a SUCCESS key
  has page records, which is what keeps seeding away from it), and bounds
  contents by `top`. `OwnKeyStep` uses the lock: no other job of the key is in
  its block, so a step of one job answers for that job and that key alone.
  `TakesAway` covers every step that only removes directories or records,
  deletes outside their lock included, which is why the theorem holds in spite
  of `unlocked`.
- **InFlightStays**: `Spec /\ []DeletesWhatItLocked => []InFlightKeepsDir`, for any
  number of keys. The condition says that the read under the lock found the row of the
  key locked; the code does not ensure it, and by the theorem its failure, which
  `unlocked` exhibits, is the only way a running conversion loses its directory.
  **OneKeyInFlightStays** is the case of one key, where there is nothing else to lock.
- **OneKeyNoOrphan**: with one key, `Spec => []NoOrphanDir`. The invariant says more: a
  directory always has a row (`DirHasRow`). It needs that a run past PENDING keeps its row
  (`RunHasRow`) and that rows go only behind their directory (`RemovedFirst`). These
  proofs do not go through the actions one by one but through four lemmas of what a step
  may do to one job, one delete, one directory and one record (`JobFootprint`,
  `DeleteFootprint`, `VaultFootprint`, `RecordFootprint`).
- **Implements**: `Spec => MirrorsVault`. The initial states map to one another, and under
  TypeOK, LockOwnership and `WholeInv` every step maps to a step of VaultMirror or to a
  stutter; `WholeInv` is what shows that ConvertFinalize is a `Claim` and ConvertPages a
  `Tear` of a record that is not SUCCESS.
- **MirrorIsHonest**: `MirrorsVault => []SuccessIsWhole`. The abstract specification
  alone is enough for the property.
- **UpToDateNotesAreRendered**: `Spec => []UpToDateIsRendered`. The property is not
  inductive, since a record's md5 and the content beside it come from two reads.
  `FreshInv` says, as long as nothing was copied: no two files have the same content;
  the md5 a job holds, and the one a record claims, is either that of the content
  downloaded or shown, or one that no file has any more and none will have again
  (`Superseded`). An edit and a new upload draw a content above `top`; that is what
  makes superseding final, and what a copy undoes.
- **StayingNotesLock**, **StayingNotesInFlight**, **StayingNotesNoOrphan**,
  **StayingNotesHaveOneRow**: `Spec /\ [][NotesStay]_vars` implies DeletesWhatItLocked,
  InFlightKeepsDir, NoOrphanDir and OneRowPerFile, for any number of keys. NotesStay says that no note in the source folder
  is moved or renamed; it may be created, edited, copied, trashed, restored, removed and
  moved in, and is replaced by files of other ids. `HomeInv` is why: every job, row
  and delete is then at the place of its file (`JobHome`, `RowHome`, `DeleteHome`), so
  the two reads of a delete find the same key. Without NotesStay, `unlocked` is the
  counterexample.
- **StayingNotesStayRendered**: with, in addition, ReturnsWait, `RenderedStays` holds for
  any number of keys. ReturnsWait says that a note comes to the source folder, for
  the first time or again, when no delete of it is pending. It is needed: when a note
  is trashed and restored between the live lookup of its delete and the rmtree, the
  up-to-date directory of a live note goes (TLC finds this in 19 states).

The lemmas about the table's functions are in `ConversionTableProofs`: what row
each leaves at its key, with which columns, and that it leaves the others alone.
RenderedProofs goes through the actions three times only: in `JobSteps`, `RowSteps` and
`DeleteMoveSteps`, which say what any step may do to one job, one record and one
delete. Its invariants are proved from these.

**PageCache.**

- **PagesTypeCorrect**: `Spec => []TypeOK`.
- **SuccessIsComplete**: `Spec => []SuccessShowsNote` for notes of any length. The
  property is not inductive: `RunInv` says what a run has done by each of its
  steps. While staging, the cached slots before the one at hand show their page;
  from the first page on, all cached slots do; the slots gone through show their
  page and have its row; before the success transaction that is every slot. The
  staging loop matters to it: a page that is skipped because it is cached was put in
  its slot before the first page was transcribed.
- **FailedRunsKeepPages**: `Spec => FailureKeepsTranscriptions`, from the same
  invariant. Gemini can only fail after staging is over, so each page in question has
  a slot with its image and some text, which one of the two passes of the preload
  finds, whatever the row says.
- **RunsAreExact**: `Spec => []RunsWithoutCrashAreExact`. `ExactInv` adds to `RunInv`, as
  long as nothing has crashed: a slot's text is that of its image (`SlotsMatch`, with the
  one slot a run is in the middle of writing or of clearing excepted), the preloaded bodies are those of their pages (`CacheIsExact`), and nothing
  stays beyond the last page behind the removal of stale files (`NothingStaysBeyond`).
  `PreloadIsExact` is the heart: from matching slots, both passes yield exact bodies.

**ChangeFeed**, for logs and pages of any length:

- **FeedTypeCorrect**: `Spec => []TypeOK`; a saved cursor and every token of a run lie in
  the log.
- **NoChangeIsLost**, **NoRemovalIsLost**, **NoPushIsForgotten**: the three invariants of
  the run `feed`. The strengthening relates the page at hand to the cursor (`RunInv`,
  `WalkInv`): the page does not start beyond the cursor, each of its changes is resolved
  or still to be enqueued, and a last page ends no earlier than the cursor and the push
  it answers, also where a crash sends the walk back to a step it had done.
- **PollsFollowTheLog**: `Spec => FollowsLog`. Behind the cursor everything was dealt with
  (`BehindIsDealt`), and the page at hand begins no later than the cursor, ends within a
  page's reach and holds its changes in order; so an enqueue is a `Deliver`, a save a
  `Save`, and every other setting of the cursor a `Jump`.
- **FollowersAreOrderly**: `FollowsLog` alone is enough for RemovalsAreDeleted, and for
  removals in order: no delete is enqueued before the changes that precede it in the
  log were dealt with.

**WatchChannel**, for any number of channels, lifetimes and headrooms:

- **ChannelTypeCorrect**, **ExpiryIsMissedChecks**, **FreshChannelIsReal**,
  **AcceptedChannelIsKnown**, **NoChangeInTheSeam**: the invariants of the run `channel`.
  `Sound` says that at most one renewal is inside the channel lock, and what a renewal
  at each step has found, made and heard; a channel whose acceptance was lost is never
  the active one. The seam needs more: wherever a change waits while the pushes of a
  channel are heard, the renewal that made that channel is yet to confirm it or to fail, or
  some renewal is about to enqueue its poll.

Only model-checked: liveness, which is outside the prover's reach: LiveNoteConverges,
SettledNoteDisappears, EveryChangeIsHandled, PushesComeBack. TextIsOfItsPage, RemovedNoteDisappears and
OldPlaceIsCleared do not hold.

## 5. What is left

Done: ConversionTable, NoteSync, VaultMirror, PageCache, ChangeFeed, LogFollower,
WatchChannel, with the theorems above. Not modelled, and why:

- **The attempts inside one call** (`conversion/gemini.py`, `drive/client.py`): a call
  answers or fails. One attempt counter serves Gemini's two budgets, so that a plain
  error after two throttled attempts is not retried; this is read off the code, and has
  no interleaving to check.
- **Paths** (`drive/paths.py`, `conversion/paths.py`): the parent walk, sanitising, and
  output directories that nest or coincide for different keys. Every key has a
  directory of its own in NoteSync.
- **Several rows of one file**: a delete takes the first. The second row stays at
  SUCCESS; SettledNoteDisappears speaks only of files with one row. A second row takes a rename:
  files whose notes stay have one (StayingNotesHaveOneRow).
- **A delete lost to a failing lookup**, or to an upgrade: nothing drives it again. The
  liveness runs in which deletions matter leave these out.
- **Seeding, file by file**: NoteSync copies a directory in one step, PageCache has a note
  that does not move.
- **Schedules** in DBOS's table, `db.py`, settings, health endpoints, metrics, logging,
  correlation ids and `state/debounce.py` (which has no caller): no protocol of their own.
- **Two keys with one lock hash**: harmless, more exclusion.
