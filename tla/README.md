# Verification of Observatory's review store

Observatory (`oak`) captures every change a coding agent makes to a file, and lets a reviewer keep it,
undo it and redo it. This directory holds TLA+ models of the code that must not lose such a change,
misreport it, or misplace it, of the processes around it (hands, notifications, the focus server, herdr's
tabs), the TLC configurations that check them, and TLAPS proofs about eleven of the modules. Paths below
are relative to `src/packages/`.

    tlc -workers 2 -config LockSafety.cfg MCLockFile     # every run: see "Runs"
    tlapm LockFileProofs.tla                             # every module with theorems: see "Proofs"

## The system

Nothing in Observatory is a server that owns its data. Short-lived hook processes (two per agent tool
call), the CLI, the terminal UI and the editors all work on the same files under `~/.oak`:

| Component | State | Operations | Hard parts |
|---|---|---|---|
| Lock files (`core/src/store.ts` 363-565, 2172-2190) | one file per session and one per reviewed file; `.break` claims beside it | take, wait, judge stale, break, release | processes that die at any step, pids that are reused, two waiters breaking one lock, waits that must end |
| Session log (`store.ts` 1067-1578, 2126-2169) | `log.jsonl`: edits, statuses, journaled bulk operations, attributions, capture gaps | append an edit, set statuses, journal, walk back to the status before an undo, clear | reads made before the lock is taken, ids given again, duplicate ids of old logs, torn lines, rewrites |
| Review of a file (`core/src/undo.ts`, `merge.ts`, `cli/src/index.ts` 3132-3578) | the file on disk, the statuses in the log | undo, redo, keep, singly, in bulk and by force; `--record-only` | two stores without a transaction; status writes that fail after the file was rewritten; agents and other reviewers at both |
| Capture (`core/src/capture.ts`, `store.ts` 592-1063) | blobs, staged before-states per tool call, Bash manifests, a stat cache | pre and post hooks, manifest advance, blob collection | overlapping tool calls, a collector racing a capture, caches of file contents |
| Retention and repair (`store.ts` 1623-2053, `integrity.ts`, `ignore.ts`) | the log and the blobs | collect, drop ignored files, repair phantoms | rewrites under front ends that hold ids |
| Attention (`capture.ts` 776-1115) | one attention file per session, a ledger of waits beside it | raise and lower a hand | a hook process per event, late or dropped, in any order |
| Notification (`notify.ts`) | claims, a lock file without an owner, each surface's memo | announce a hand once | surfaces that look at the same moment, a lock removed by age |
| Focus server (`daemon.ts`, `tui/src/server.ts`) | pid file, socket | spawn, connect, reclaim, stop, exit when idle | two files without a lock; servers that die, pids that are reused |
| Merge (`merge.ts`) | none (pure) | three-way merge of lines, a quick test of it, line ends | runs that touch, repeated lines, an unended last line |
| Units (`units.ts`, `groups.ts`) | none (pure, memoized) | group a file's records into review units, dependencies between units | contents that come back, records decided in between, files that come and go |
| herdr tabs (`herdr-tabs.ts`, `tui/src/observatory-runtime.ts`) | the claim and its time, in two files | name a tab after its session | passes that act on old lists, a person who names the tab |
| Change map (`changemap.ts`) | none (pure) | arrange units for display | none |
| Observation (`observe.ts`, `codex.ts`, `conversation.ts`) | none of its own | read transcripts and process tables | bounded reads of growing files |
| Caches and claims (`fscache.ts`, `accountUsage.ts`, `remote-titles.ts`, `watch.ts`) | cached answers, fetch claims | refetch, refresh | stale claims |
| Front ends (`cli`, `tui`, `vscode`, `jetbrains`) | a selection, what was last shown | call the review verbs | act on what they read a while ago |

They interact through files alone: capture appends to the log under the session lock; a review verb
reads the log with no lock, takes the file's lock, rewrites the file, and appends statuses under the
session lock; retention rewrites the log under the same lock. What makes each component correct:

* a lock: sections exclude each other; no live holder's lock is removed; every caller returns; a dead
  owner's lock does not stay.
* the log: an edit stays until it carries a verdict and is cleared, and only a reviewer changes its
  verdict; the id shown for an edit keeps naming it; redo finds the verdict before the undo; a gap in
  capture stays reported; a rewrite drops nothing else.
* a review: where ledger and file disagree, somebody knows it; an undo takes out its own edit and no
  other; a bulk undo does not block itself; a kept edit is on disk.
* capture: what a record refers to exists; a change is recorded once, and never silently not at all.
* the hand: an open prompt shows, an answered one comes down, the waits add up; it is announced once.
* the focus server: the one that serves is the one its files name; what a dead one left stops no start.
* merges: no line is lost, doubled or glued to another; a redo right after an undo restores the file.
* units: a unit is all that happened to the file between its ends; code is decided once; a decision
  changes no other row.
* tabs: a person's name stays; an old title is not put back.

## The modules

`ExclusiveSection` is what `withLock` and `withFileMutation` promise. `LockFile` implements it, one
file-system call at a time, and `LockFileProofs` proves that it does. `SessionLog`, `FileReview`
and the record of `Tabs` then take their locked sections as single steps; `Attention` holds its lock over
two. `ReviewLedger` is what the log promises; `SessionLog` implements it. `FileReview` in turn takes a status
write as one step. `RevertTwice` drives `SessionLog` with a reviewer who reverts twice. `Capture` is the other
end, where edits come from: it takes the capture mutex and each hold of the session lock as
`ExclusiveSection` grants them. `Lines` is the algebra of line changes; `Merge` and `Units` extend it.
`Attention` writes the hands that `Notify`
announces. The `MC*` modules hold symmetry sets and initial states for TLC.

### LockFile

A lock file is `[file, by, age]`: its inode, the owner its token names, and the age `staleLock`
computes. `SameFile` compares inode and mtime as lines 464-466 do; the mtime changes only when the token
is written, so `[file, by]` stands for the pair. `judged` and `seen` are the stats a waiter holds on to
between its own system calls; everything it does later with them may be out of date. Process steps:

| Action | Code |
|---|---|
| `Create`, `CreateFails` | `openSync(p, 'wx')`, which makes an empty file |
| `Write`, `WriteFails` | the token, or the unlink when writing it throws |
| `Stat`, `Read` | the two reads of `staleLock`, with `Verdict` |
| `Retry`, `GiveUp` | the deadline test of `takeLockFile` |
| `TakeClaim`, `ClaimHeld`, `NextClaim`, `ClaimBusy` | the claim loop of `breakStaleLock` |
| `Check`, `Unlink`, `DropClaim` | under the claim: look again, remove, and the `finally` |
| `Leave`, `Compare`, `Unlock` | the section ends; `releaseLockFile` reads, then unlinks |
| `Crash`, `Restart`, `TickLock`, `TickClaim` | death, pid reuse and time |

Time is a file's age, cut at `LOCK_STALE_MS` and `LOCK_ABANDONED_MS`. The code trusts that a live process
does not stop for those times at three places; `Pauses` names the ones where it may, and the main
runs and the proofs take `Pauses = {}`. The configurations with pauses show what that trust buys.

### SessionLog and ReviewLedger

The log is a sequence of lines; readers fold `Parse` over it (re-keying duplicate ids as `parseLogFile`
does) and `BeforeUndone` walks it as `statusesBeforeUndone` does. A status write is two steps:
`ReadStatuses` (no lock: which records would change) and `AppendStatuses` (the payload built from what was
read, journaled first if it changes two or more). A verb of a front end is the list of status writes it
still has to make (`todo`), which `Abandon` ends when the store stays busy. `Clear` is one step: it
reads, rewrites and renames under the lock. Any append may be cut short (`AppendTorn`, in captures, reported gaps,
status writes and attributions): some of its lines are in the file, and behind them nothing, a part of the next one
(`torn = "part"`), or the last of them without its newline (`torn = "line"`). That one reads like any other, until
the next append is glued to it and both are lost: `Ended` are the lines an append leaves, `Glued` the ones it adds. A
rewrite writes its lines anew and heals both. `missed` are the edits lost so. `Sweep` takes the edits of ignored
files out of the log and leaves a count; `Repair` is
`repairCasePhantoms`, which drops, by id, one of each pair of records that a walk made under two cases of a
drive letter (`DropRecords`). `session` picks one of the explored situations, with its bounds, so that one
run covers them all. `of` and `uid` numbers are bookkeeping of the model and marked so.

The map to `ReviewLedger` reads the log: an edit's verdict is the status the parse answers, "cleared" if
it was captured and is gone, "none" before; `TakenOut` is the sweep. `ended` is the ledger without a last line that
lacks its newline: an append starts from it, and it alone may be taken back. The ledger takes any verdict that
a reviewer writes; that a late one lands on the edit it was meant for is not among its promises (see `LogStale`).

### FileReview

A file content is the set of edits whose change it holds (or absent); a record holds the contents captured
before and after it, and the edits whose lines it shares. `Merged` is a three-way merge over sets, which
conflicts where both sides changed overlapping edits, and a merge that changes nothing is a conflict as
in the code. `UndoResult` and `RedoResult` have a case per branch of `undoRecordUnlocked` and
`redoRecordUnlocked`. A reviewer's verb is a `job`: targets to do, the file as it read it (`base`),
status writes it owes (`parts`). A single verb records under the file lock; a bulk one releases each
file and flushes at its end (`Flushing`). A failed status write puts its parts into `owed`, which
is the report that names the `--record-only` command; `RecordOnly` runs it. A crash loses the
parts of its process (`lost`).

### Capture

One file, seen by every command's tree, and the calls of a turn: `Edits` stage the file by their own id,
`Commands` snapshot it. A blob is the content it stores. `hook` is the hook process at work after a call;
the capture mutex lets one hook in at a time, so a Pre is one step. A Post takes the session lock several
times and lets it go in between, where the collector and clears of other processes come in, and the tools
write at any time; each such hold is an action:

| Action | Code |
|---|---|
| `PreEdit`, `PreBash` | `handlePre` with its scan for overlapping calls; `handlePreBash` with the stat cache (`Hashed`) |
| `PostEdit`, `Publish`, `Decide`, `Decline`, `FinishEdit` | `handlePost`: read, publish the after-blob on the staging record, already recorded or not, staging removed |
| `Claim`, `Look`, `Walk`, `Recheck`, `SaveCache`, `FinishBash` | `handlePostBash`: the lease, the unlocked list of blobs, the walk, the second look for a deletion, the cache, the `finally` |
| `Record`, `Advance` | `appendLog`, `advancePendingManifests`, of either Post |
| `Collect` | `gcSession`, or `clearResolved` with the collection it ends in, and the reaping of day-old leases (`Dead`) |
| `Stop`, `DiscardPre` | the end of a turn; a tool that failed |
| `PreMissed`, `PostMissed`, `PostBusy`, `PostUnstaged` | a marker instead of a capture |
| `PreCrash`, `PostCrash` | a hook that dies |
| `RunEdit`, `FailEdit`, `RunCommand`, `EndCommand`, `Denied` | the tools, external |

`version` stands for the stat key: it changes with every write. `Hashed` may always read the file, which
covers the rule for times too close to the cache's. An edit tool writes only if the file is as it was
when it was asked, and no edit call outlives its turn: both are what the code says of its caller
(`handleHookPayloadUnlocked`, `clearAbandonedToolStaging`). `told`, `midEdit`, `missed` and `crashes` are the
model's own: what the newest edit told, whether a command's snapshot fell between an edit's write and its
Post, and which calls have left a marker.

### Attention

`hook` holds the hook processes, one per event: of a call's start, prompt or result, of the person's next prompt,
the turn's end, a notification. Each reads the clock first (`start`, `ts`), looks without the lock where the code
does (`Look`), waits for the lock, and may have to give up (`GiveUp`). Under the lock a hook makes two writes, each a
step, and whoever looks without the lock may come between:

| Action | Code |
|---|---|
| `WriteAttention`, then `WriteStored` | `writeAttention`: the lines of the ledger, then the rename of attention.json |
| `ClearAttention` or `NoteToolCall`, then `Unlink` | `lowerHand`: the line of the ledger, then the file goes |
| `NoteToolCall` (`KeepsOthers`) | one call's name taken out of the hand that others keep up, in one write |
| `LedgerAppend` | `ledgerAppend`, whose errors are swallowed: any of a hook's lines may be lost |
| `CutShort` | a hook that dies, or whose rename or unlink fails, between the two |

`keyOf` is `toolCallKey`: a prompt and a result name their call by turn, tool and input, and two calls may have one
name, which is all that `Key`, `Answered` and `Raised` go by. `faults` counts lost lines and hooks cut short. A torn
line of the ledger, or the one glued to it, counts as lost. `call` and `turn` are the agent, external: it waits for
the hook of a call's start and of a prompt, not for that of a notification. `begun`, `newer` and `overlapped`
are the model's own: a prompt is `overlapped` when a hook that lowers any older hand ran while it was open, `newer`
when every such hook that runs began before it.

### Notify

Each surface asks (`Ask`) about hands its memo does not hold. `dueDesktopNotify` is `Open` (exclusive create), on
failure `Judge` and `Reclaim` (stat, then remove), then `Read` and `Write` of the claims and `Release`, which
unlinks and announces. A surface that finds the lock taken is quiet, and its memo keeps it so. `raced` says that
a reclaim or a release removed another lock than its own; the properties are about the rest. A tick of the
clock waits for calls in progress: a surface does not stop between its stat and its unlink for a second.

### Daemon

`pidFile` and `sock` are the two files; `at` holds every front end's and every process's step. `Boot`, `Listen`,
`Announce`, `OffPid` and `OffSock` are `runServer`'s; `Reclaim`, `RemovePid` and `RemoveSock` are
`reclaimStaleDaemon`, of a front end or of a server that boots; `Ensure`, `Connect`, `Spawn` and the polls are
`ensureDaemon`; `Stop` to `WaitEnds` are `stopDaemon`. Servers are killed, pids are given to other programs, and
a server of an older build may run, which no front end speaks to. Nothing locks these files, so a start may
step on another: `overlapped` marks that, `alone` the starts that had none
and whose poll found their server before its deadline.

### Lines and Merge

A text is a sequence of lines; in `Merge` a line is `[body, end]`. `diffArrays` is external: `Alignments` are all
the ways to line two texts up that keep as many lines as can be kept, so what holds for every one of them
holds for the one it picks. `MergeLines` is `mergeLines`; `Merges` adds the final newline and line ends of
`threeWayMerge`, and `MergeGuard` is the quick test. `Undo` and `Redo` are the merge steps of `undo.ts`, `Redo` with
`redoMerge`'s placement by the newest recorded state.

### Units

`log` is one file's records as content pairs. `HopShape` is `hopShape`; `RunsOf`, `ComponentsOf`, `SpansOf`,
`AbsenceFolded` and `FoldChains` are the stages of `computeUnits` in their order; `UnitDeps` is `unitDeps`. Tracked
lines are carried by a function over the run instead of a map that is updated. Decisions: `KeepGroup`, `UndoGroup`
(one merge of the unit's ends), `UndoIds` (`undoScope`, newest first). A file's function is a set of lines
(`Scoped`) in place of `detectScopes`. Texts are those that line up in one way only (`Hops`).

### Tabs

A pass is one run of `tidy`: of a terminal app, over its own list of titles, whose read began at `listed`, or of
`syncSessionTab`. `LoadClaim` and `LoadTime` are the two reads of the record, `Decide` is `reconcileHerdrTabs`
for this tab, `Rename` the call to herdr, `SaveTime` and `SaveClaim` the two writes under the record's lock.
Titles and times are numbers in the order the session takes its titles. `given` is the time of the title the
tab wears, if OAK named it; `raced` that a pass wrote while another was under way, or died with its save to do.

## Runs

Passing runs, each with one mutant of the code per property that TLC must find:

| Run | Bounds | Shows |
|---|---|---|
| `LockSafety` | 3 processes, 4 inodes, 3 claims, 2 crashes, symmetry; 1.1 M states | `MutualExclusion`, `HolderKeepsLock`, `OneBreaker`, `BreaksOnlyJudged`, and the refinement of `ExclusiveSection` |
| `LockLiveness` | 2 processes, 3 inodes, 3 claims, 2 crashes, fair | `EveryCallReturns`, `DeadLockBroken` |
| `LogSessions` | seven situations: 2 front ends and 2 edits; 2 front ends, 1 edit, 6 lines, appends cut short; a log with duplicate ids; a log of 3 edits, longer than the tail, and a fourth; a gap, and a rule that comes to ignore an edit; a gap with appends cut short; two phantoms; 0.5 M states | `ImplementsLedger`, `JournalOnlyGrows`, `StableIds`, `GapsStayVisible`, `AnswersItsId`, `RedoRemembers` |
| `FileVerbs` | six situations: 1 reviewer with every merging verb, 3 edits, or 2 edits and 2 deaths; 2 reviewers who undo and repair, 3 edits, or 2 edits and 1 death; 2 reviewers with the overwriting and keeping verbs, 2 edits; 1.6 M states | `TypeOK`, `Accounted` (of the first four), `OnlyItsEdit`, `ScopeConflictsAreOthers` |
| `CaptureTurn` | 2 edit calls, 1 command, 3 writes, 2 contents and deletions, 1 death; 2.5 M states | `TypeOK`, `RecordedBlobsExist`, `NothingSilent`, `NoTwins` |
| `HandRaised` | 2 calls of 1 or 2 keys, 2 ticks, 1 notification, 1 hook that gives up or is cut short or 1 lost line, symmetry; 1.2 M states | `LedgerBalanced`, `PromptShown`, `AnsweredIsLowered`, `SamePromptSameTime` |
| `NotifyOnce` | 2 surfaces, 1 session, 4 ticks, a cooldown of 2, locks stale after 1, 1 death; 204 k states | `OncePerHand`, `CooldownKept` |
| `DaemonStarts` | 2 front ends, 2 pids, 1 kill, 1 reused pid, or an older server; 592 k states | `ServedAsNamed`, `StartsWhenAlone` |
| `MergeTexts` | every edit over texts of up to 2 lines (two bodies, both line ends, unended) or 3 lines (alike ends), on every such file; 635 k states | `RedoRestores`, `Conserved`, `EndingKept`, `GuardAgrees` |
| `UnitsReview` | 3 edits, 2 asks, texts of up to 2 of 3 lines, 1 foreign write, 1 decision, symmetry; 254 k states | `UnitsAreExact`, `OneCodeOneDecision`, `RowsTellOneStory`, `DecidingLeavesOthers` |
| `TabsNamed` | 1 app, 1 sync, 2 titles, a person once, 1 failure; 2.4 M states | `PersonsNameStays`, `Claimed`, `OldTitleStays` |

The bounds. Three processes are the fewest that show the breaker races the code's comments report (a
holder, and two waiters of which one breaks, takes and is broken in turn); four inodes let each have one
remembered and one be new; two crashes leave a dead holder and a dead breaker, and three claims are
enough for them (`LockAssumption`). In the log, two front ends are one stale read and one writer; five
lines hold a captured edit, a journal line and its two statuses and a line between them; six hold an edit
undone, redone, kept and undone again, with a line that is glued. A tail of two lines is the shortest
`nextId` answers from; of a log of three edits the first is out of its sight. In the review, three edits are
a target, one that overlaps it and one between; with two reviewers the second finds every half-done state of
the first. In a turn, two edits overlap each other and the command; three writes are one of each call, or two
of the command around an edit's. Two calls are a prompt and the call whose late hook sweeps it, or two
prompts of one hand; two surfaces a claim and the one that comes too late; a kill and a reused pid leave
every combination of leftover files. Three lines with two bodies are the least text in which a line may be
taken for another with a different line between them; two lines with both ends and none hold every case of
`finalNewline`. Three edits are an edit, one in between, and one that comes back to it or cancels it, over an
ask that ends between any of them. One app and one sync are an old list and a new title.

Some properties have a hypothesis. `NothingSilent` and `NoTwins` speak of turns in which every hook did its
work; the deaths matter to the blobs. `NothingSilent` is of turns with one command (`CaptureOverlaps` has
two), and leaves out those with the command asked between an edit's write and its Post (`midEdit`): there the
command may take back the edit before its Post, which then sees nothing changed and declines, and redo it
after; its own Post compares with the snapshot and sees nothing either. `Accounted` is about verbs that merge
into a file that agents only modify, by one reviewer, or by several that undo and repair; `AnswersItsId`
about logs that start without duplicate ids and lines cut short, `GapsStayVisible` about sessions without
such lines. `LedgerBalanced` pairs the waits where no ledger line was lost and no hook cut short, and bounds
what each of those miscounts; `PromptShown` leaves out prompts that were overlapped or share their key with
another call; `OncePerHand` and `CooldownKept` behaviours with a lock removed for another one,
`ServedAsNamed`, `Claimed` and `OldTitleStays` overlaps, `StartsWhenAlone` also polls that time out. For most
of these a configuration below shows what happens otherwise.

`CHECK_DEADLOCK FALSE` is said of every model but the lock's, because they end at their bounds on lines,
edits, calls, titles or time; the lock models never do.

### Fairness

`LockLiveness` alone needs fairness. Each process's own steps are weakly fair: it is a running
program. Time passes (`TickLock`, `TickClaim` weakly fair). `GiveUp` is strongly fair: a loop that
comes to its deadline test again and again sees the deadline pass. `Demand` adds that there is always
another call for the lock, which `DeadLockBroken` needs, since nothing but the next caller breaks a dead
lock. `EveryCallReturns` has a hypothesis, that held locks stay young: a waiter whose break finds the
lock gone continues without the deadline test, so holders that each exceed `LOCK_STALE_MS` may keep
it waiting.

### Where the code disagrees with what it says

One run expects a violation, and is the finding of `PROJECT.json`:

| Run (module) | Property | Behaviour |
|---|---|---|
| `RevertTwice` | `TwiceLandsWhereItStarted` | a revert that changes one record, or splits by status, is not journaled as one operation, so the next revert takes another one (store.ts:1561, undo.ts:1045) |

Further configurations, kept for whoever changes this code; in each TLC reports the named property violated
(where several are named, one at a time):

| Configuration (module) | Property | Behaviour |
|---|---|---|
| `CaptureOverlaps` (`MCCapture`) | `RecordedBlobsExist` | two commands overlap; the blobs are listed before the session lock, a collection comes between, and the walk takes the hash of a collected blob from the stat cache (capture.ts:602, against capture.ts:434) |
| `CaptureOverlaps` (`MCCapture`) | `ChainUnbroken` | a background command writes the file, an edit of it is recorded, and the advance moves the command's snapshot past its own write: no edit tells of it (store.ts:905) |
| `CaptureOverlaps` (`MCCapture`) | `NothingSilent` | a command writes the file, a second one is asked and writes it back; the first one's Post sees nothing changed, the second writes it again and its Post sees nothing changed since its own snapshot (capture.ts:648) |
| `LogRekeyed` (`MCSessionLog`) | `AnswersInAnyLog` | the tail of an old log increases while its full read re-keys duplicates further up: the id that appendLog answers names another edit, "won't re-collide" (store.ts:1146, 1418, against 1453) |
| `LogGlued` (`MCSessionLog`) | `SeenStays` | an append is cut short before its newline: its line is read, then the next append is glued to it and both are gone, "torn-line tolerance" (store.ts:361, against 1483, 1575) |
| `HandTwins` (`MCAttention`) | `SameCallAnswers` | two parallel calls alike in turn, tool and input: the result of the one lowers the hand of the other's open prompt, "never another's" (capture.ts:1001, against 993, 1019) |
| `LogStale` (`MCSessionLog`) | `ImplementsLedger` | in a log with duplicate ids the repair drops, with a phantom, another edit whose line was written with the phantom's re-keyed id (store.ts:1831) |
| `LogStale` (`MCSessionLog`) | `FreshIds`, `CapturedIsReadable` | after a clear, `nextId` gives an id again that journaled operations mean otherwise (store.ts:1459, against store.ts:43); the edit captured after a part of a line is glued to it (store.ts:361) |
| `LogStale` (`MCSessionLog`) | `DecisionLandsOnItsEdit`, `JournalTellsBefore` | a clear and a capture between a verb's read and its append (store.ts:1489); two bulk writes, of which the second journals statuses it read before the first (store.ts:1297) |
| `FilePairs` (`MCFileReview`) | `KeptIsOnDisk` | `keep --ids` marks an undone edit kept (cli/src/index.ts:3158, against undo.ts:791); a keep between an undo's rewrite and its status (undo.ts:1102) |
| `FilePairs` (`MCFileReview`) | `AccountedAlways` | a forced undo writes a snapshot that holds an earlier, undone edit (undo.ts:411); undoing an edit of a deleted file restores its whole snapshot (undo.ts:304); a bulk redo against the deferred statuses of a bulk undo (undo.ts:966) |
| `FilePairs` with `AgentsRace = TRUE` | `OnlyItsEdit` | an agent writes between an undo's read and write (store.ts:2176) |
| `MergeRedo` (`MCMerge`) | `RedoRestoresAlways`, `RedoPlacesLines` | an undo that leaves just the text before is redone by writing the text after, without what came later (undo.ts:623, against undo.ts:704); where a line is repeated a redo may change its twin instead (merge.ts:87) |
| `UnitsConflicts` (`MCUnits`) | `ClosureUndoes`, `ConflictNamed` | the closure a conflict offers holds the direct dependents only, so undoing it conflicts (undo.ts:35); a conflict that names no unit may be one of the session's own edits (undo.ts:178) |
| `HandPassed` (`MCAttention`) | `NewerPromptStays` | the hooks of two prompts write in the other order, and the hand of both takes the older one's time; a hook that began between the two lowers it, the newer prompt with it (capture.ts:1003) |
| `NotifyLost` (`MCNotify`) | `HandHeard` | two surfaces meet at the lock with hands of two sessions: the one turned away has noted its hand as put, and nobody announces it (notify.ts:284, against notify.ts:208) |
| `DaemonReclaim` (`MCDaemon`) | `LivePidNeverTouched` | a front end found a dead pid; before it removes the files a server of another front end has listened and written its own (daemon.ts:257) |
| `TabsStuck` (`MCTabs`) | `ClaimedAlways`, `OldTitleStaysAlways` | a pass renames the tab by one title while another, which renamed it before, saves its own: the tab wears a name nobody claims (herdr-tabs.ts:240); a pass whose older list shows the tab's new title already claims it, with its own older time, before the pass that renamed it has saved, so that a third pass is not held back and puts the old title back (herdr-tabs.ts:179, against :164) |
| `LockPausedBreak` (`MCLockFile`, from `MidBreak`) | `BreaksOnlyJudged` | a breaker stopped for 10 s between its check and its unlink (store.ts:437) |

## Proofs

Each for any values of the constants that satisfy the module's named assumption.

`LockFileProofs` (8 theorems): `TypeCorrect`, with or without pauses; under `NoPause` (`Pauses = {}`):
`Inductive` (`IInv`), and from it `MutualExclusionHolds`, `HolderKeepsLockHolds`, `OneBreakerHolds`,
`BreaksOnlyJudgedHolds`, `NeverBreaksLiveHolds`, and `Refinement` of `ExclusiveSection`. Mutual exclusion is not
inductive: a breaker about to unlink would remove whatever is at the path. `IInv` says why it may. A taker's
file is at the path and under its token once written (`TakerInv`, `OneTaker`). Only files nobody works under
get old, except for a holder whose pid answers (`LockAgeInv`, `ClaimAgeInv`). So what a waiter judged stale
has no taker while it is still what was judged (`JudgedInv`). Claims are passed only when orphaned for good
(`ClaimInv`), which leaves one breaker, so nothing else removes the lock between its check and its unlink
(`UnlinkInv`). The proofs go part by part (`TypeStep`, `TakerStep`, `LockAgeStep`, `ClaimStep`, `JudgedStep`,
`UnlinkStep`), each over the actions that disturb it; `AsideFrame` and `OutsideFrame` say once what the
others leave alone. `NoPause` cannot be dropped: `LockPausedBreak` is a counterexample.

`NotifyProofs` (3 theorems): `Typed`, `AnnouncedOnce`, `CooldownHolds`. That no announcement is repeated follows
from the past only through the claims file, so the invariant says what the file stands for: while no lock was
removed for another one, one surface is at work on it (`OneHolder`), its copy is current (`CopyIsCurrent`), a
session's claim covers each of its announcements of the last `Day` (`ClaimsSpeak`), and an announcement that is
decided leaves room after all that were made (`DueIsSettled`, `ToastsAreSettled`).

`AttentionProofs` (5 theorems): `Typed`, `WaitsPaired`, `PromptsShow`, `AnswersLower`, `PromptKeepsTime`. Between a hook's two writes the ledger is ahead of the file, so what pairs with the ledger is the
hand that the hook is about to leave (`LedgerInv`); while one is there the lock is taken, and no other hook
writes. A fault makes the ledger and the hand differ by one wait, and the difference never grows without another one.
"A prompt shows" needs that its key is in the hand's set (`ShownInv`), which only the hooks that mark it overlapped,
or a result of a call of the same key, can take out of it; that in turn needs which hook may do what (`HookInv`) and
which hooks the agent waits for (`AgentInv`).

`FrontEndProofs` has two models' proofs, 7 theorems.

* `Tabs`: `Typed`, `PersonsNames`, `NamesClaimed`, `OldTitlesStay`. A pass carries a label from its decision to its
  save, so the claim on a person's name must be excluded from what passes carry too (`ClaimsAreOurs`); and a tab is
  claimed, or about to be by a pass whose knowledge is still true (`ClaimInv`). That an old title stays out rests on
  the times (`TimeInv`): while no pass wrote under another, a pass about to rename knows the record's time, which is
  no newer than its list where it saw the claim (`TimeKnown`); and the record's time covers the name the tab wears
  (`TimeRecorded`), or the one pass that is about to save carries it (`TimeCarried`).
* `Daemon`: `DaemonTyped`, `ServedByName`, `AloneStarts`. While nothing overlapped, who is at work is written in each
  front end's step: a server boots only while the front end that spawned it polls (`BootInv`, `AnnounceInv`), leaves
  only while the one that stops it waits (`LeaveInv`), and a front end that removes files knows that no server works
  (`RemoveInv`, `StartInv`); with one of each at a time (`OneFront`, `OneServer`) nobody else touches the files a
  server wrote (`FilesInv`). `AloneInv` follows a start that is alone from step to step and does not ask what
  overlapped before it: the reclaim it makes leaves no file, so the server it spawns finds none.

`LinesProofs` has the proofs about lines and records, 15 theorems.

`Merge`: any texts whose last line alone may lack its terminator (`TextsAssumption`), and
any lining up of their equal lines in order (`Chains`): nothing rests on which one diffArrays picks, or on
its being largest. The file that is made is a recursive function of the lines, so its lemmas go down the lines
(`NatInd`), and texts are compared by how many lines of any kind `S` they hold (`Weight`).

* `DiffApplies`: the changes read off a lining up, made to the one text, give the other. Between two neighbours of the
  lining up the rest of the file is the rest of the other text (`HereOfDiff`, `FromStep`).
* `MergeConserves`: two sides' changes that do not overlap make a text that holds, with the base's lines, what the
  two sides hold. It goes line by line: a place or a line that both change is an overlap (`HereUnion`,
  `LineUnion`), so the merge, of each line, has what the side that changes it has.
* `MergeIs`, `MergeCounts`, `MergeEnds`, `GuardHolds` carry this to `threeWayMerge` and its terminators: the lines of a
  terminated text have the bodies they had (`TerminatedIs`), and the final newline is decided after the merge
  (`FinishedIs`). A run that one side takes out is lined up with a run of the other (`RunKept`): were a line between
  them not, that side would change it too. So `GuardTurnsNoneAway`: the quick test asks no more than the merge does.
* `UndoConserves`, `UndoKeepsEnding`, `RedoPutsBack`, `TypeCorrect`. `IInv` says what an undone file is (`Undone`): the
  text before, or what the merge of it onto the file gave. A redo of it finds the recorded state to hold the
  change, because that merge was made (`GuardHolds`), and the line counts to agree, because it conserved lines
  (`MergeCounts`): so it takes its clean path whatever the alignments were (`RedoIsHeld`).

`Units`: any records, of any number, and any verdicts on them (`LogInv` says no more than that the log is a
sequence). Each stage of `computeUnits` is shown to split sets of ids into unbroken ones (`SplitsWell`), whatever
the stage before found; for the first two theorems it does not matter what componentsOf puts together, since
spansOf widens it.

* `UnitsHold`. Of two sets of such a split one is all before the other (`SplitInOrder`); so the spans can be counted
  off (`InOrderIs`, by ranks), and a fold over absence or a chain that cancels is again unbroken (`FoldsExact`,
  `JoinedExact`). What `FoldChains` makes of the spans is a function computed from the last to the first
  (`ChainExists`, `ChainSplits`, by `DownInd`).
* `RowsHold`. A unit begins with its first span and ends with its last, and if these are several none is without
  content (`UnitEnds`). Two folded spans between which the file is gone would have been one (`FoldedApart`). A unit that
  takes back what an earlier one began with, over units that join without a gap, would make the last span of the
  later a partner of the first span of the earlier (`UnitNext`, `NoTakeBack`), and so would have been part of it.
* `DecisionsKeepOthers`. A split into unbroken sets is told by the neighbours it holds together (`SplitsSame`). Two
  neighbours are in one span when two edits on their two sides, all pending from one to the other, share code
  (`SpansNext`, by way of what componentsOf, a fold over the run, holds after each edit: `PartsJoin`); whether they
  do depends on the hops from one to the other alone (`SameCodeSame`). They are in one fold when they are in one
  span or the file is gone between them (`FoldsNext`). So without whole spans, or whole folds, the others are as they
  were (`SpansLeft`, `FoldsLeft`). A chain of folds is the same chain in any list that has them (`ChainAlike`), so what
  begins a unit before ends it in the same place after (`UnitAlike`), and a set is split into units of a list in
  one way only (`SameUnits`).
* `OneDecision`. What unitDeps finds of an edit in a later one is what componentsOf would carry there (`OwnersLeft`):
  so when both are of one run they share code, are in one span (`EdgeTogether`), and that is within a unit.

`CaptureProofs` (5 theorems): `Typed` and `TwinsNever`, whatever calls overlap, and under `OneCommand` (no two Bash
calls) `Inductive` with `RecordedBlobsKept`, and `SilenceIsTruth`; `CaptureOverlaps` is the counterexample to the
last two with a second command.

* Blobs. The collector keeps what is referenced, so the invariant says that whatever a hook will record is
  referenced until it has (`HookKept`: an edit's by its staging record, a command's by its lease), and all that is
  referenced exists (`Kept`). The hard case is a walk that does not store a blob because the stat cache knows the
  file: `CacheInv` shows that the content is then the one the command's own snapshot named. With a second command
  that fails, since its walk writes the cache too.
* No write told twice. What was told last, and what the hook at work has read, is the file at that version
  (`ReadInv`), and the newest edit, while it is in the log, is what was told last (`NumberInv`; that a log has a
  newest edit takes the well-founded order of finite sets, `NewestExists`). An edit numbered after a call was asked
  tells of the version the call was asked at or of a later one (`AskedInv`), so a Post that finds the end state in an
  edit so numbered declines for a write already told, and one that does not has a newer version to tell (`PostInv`).
  A pending snapshot of a file that has not changed since it was told is the file (`SnapshotInv`): a command's Post
  that finds a difference has a newer version too.
* Nothing missed. While the log does not tell what the file holds, some call will (`WillTell`): a command still to be
  compared, or the edit call that wrote the file last (`ToldInv`). It does, because the one command is compared with
  what was told last, not with what the file held when it was asked (`TruthInv`).

`FileReviewProofs` (4 theorems): `Typed`, with any agents; `OneEditAtATime` and `NewestFirstNeverBlocksItself` where
agents only modify the file and none writes between a verb's read and its write (`Modifying`); and
`EveryMismatchIsAccounted`, whose property names its conditions (`Modifying`, `Merges`, and `Alone` or `OnlyUndoes`).
That an undo changes one edit follows
only if a merge may not touch what it was not asked to: `Fits` says that the file, of the edits whose lines one of
its edits shares, holds just those that edit was made on, and that snapshots and every reader's copy do too
(`ReviewInv`). So a merge that finds no conflict takes out a set no present edit is built on. `LedgerInv` then follows
each verdict from the file to the log: while the two differ, one reviewer's `parts`, a report or a dead
process holds the status that would close the gap, and no other holds one that would open it again. `FilePairs`
is what happens without these conditions.

`SessionLogProofs` (7 theorems) is about logs of any length. What a log is read as is a function computed line by
line, so its lemmas go by induction over the lines (`NatInd`, `SeqInd`: what is shown is that a set of lengths,
or of logs, holds them all): what `ReadLog`, `BeforeUndone` and `Only` make of an appended line, of a log that is
rewritten, swept or repaired, and that a rewritten log is read as the records it was written from
(`ReadOfEdits`). On these rest:

* `Typed`, `JournalIsKept` and `GapsVisible`: no assumption. The properties name their exceptions: the last line while
  it lacks its newline, and sessions in which an append is cut short, since a gap's line may be glued like any other.
* `StableIdsHold`, `AnswersItsIdHolds` and `RedoRemembersHolds`, of sessions whose log starts with increasing ids where
  phantoms may be dropped (`Whole`): with duplicate ids a repair drops, with a phantom, the statuses of another edit
  (store.ts:1831). The invariant is `KeptInv`: a log is read as captured edits, in the order of their capture, each
  with an id of its own (`LedgerInv`); and a log that starts with increasing ids keeps them (`CleanInv`), so the last
  id in any tail is the largest. Appends start from the lines that end in a newline; what is read of these is
  part of what is read of all (`EndedReads`).
* `LedgerIsKept`, the refinement of `ReviewLedger`, of sessions that besides, where phantoms may be dropped, have one
  front end, no ignore rule and no append cut short (`Tidy`): a repair names its records by id and a clear, a sweep or
  a lost line in between may give ids back, so `DropInv` shows that the ids a lone front end is about to drop still
  name phantoms.

Only model-checked: liveness of the lock (no prover for fairness).

## Not modelled

* The Windows retry of a refused create, and file systems without exclusive create.
* Units of several records in `FileReview` (there each edit is one; `Units` has them, without the status writes'
  failures), and the redo of units.
* Lines in `FileReview`: `Overlap` is chosen freely when an edit is captured, instead of by `mergeLines`.
* Records without a captured before-state, symlinks and permissions, bare carriage returns.
* Captures of trees that are refused or too large, of files that are secret, ignored or oversized, changes
  of blank lines and empty files, calls without an id. `deferred-capture.ts` is retired (it lists what earlier
  versions left), and what `capture-events.ts` appends nothing in the review path reads.
* `removeSession`, the gate that decides when a sweep runs, the matching of ignore rules.
* Scope detection (`scopes.ts`), the memos of `units.ts` and what they persist; the rows made of units.
* The operations on an open connection to the focus server; Windows pipes.
* The tab of the btop monitor, tabs of other machines (`adopt`).
* The terminal UI, the editors and the CLI's reports: they call the modelled verbs, and stand in the models as
  `FrontEnds`, `Reviewers`, `Surfaces`, `Fronts` and `Apps`. Their own state is layout, selection and parsing.
* The components marked `not_modelled` in `PROJECT.json`, each with its reason.

## Plan

Done: the lock; the log with its rewrites; the review of a file; capture; the hand and its announcement; the
focus server; merges; review units; tabs. In order of weight, what is left:

1. `Units` and `FileReview` composed: unit undo and redo with failed status writes and other reviewers.
2. `SessionLog` and `FileReview` composed for `revertOperation`: journaled kinds against the file.
3. `Capture` with more than one file (an edit outside a command's tree).
4. The fetch claims of `accountUsage.ts` and `remote-titles.ts`.
