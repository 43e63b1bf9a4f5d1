# TermDeck in TLA+

TermDeck is a Python server and a browser page that keep a deck of terminals, shells and coding
agents, running on one computer. This directory models the part of it where state is shared between
coroutines, threads, processes and windows: the life of a terminal, the prompts typed into it, the
recording of its output, the windows that show it, the draft and the notes that windows share, and the
relay through which they come from elsewhere. TLC checks each model on small instances;
TLAPS proves what is said under "Proved" for every value of the constants.

    tlc -workers 2 -config SessionLifecycle_deck.cfg MCSessionLifecycle
    tlapm ReplayCheckpointProofs.tla

All paths below are relative to `src/termdeck/` unless they start with another directory.

## 1. Inventory

| Part | State | Operations | What is hard | What makes it correct |
|---|---|---|---|---|
| Session manager (`session_manager.py`, `session_store.py`, `pty_process.py`, `proc_tree.py`) | `_sessions`, a `ManagedSession` each, `sessions.json`, `closed_sessions.json`, socket files | create, attach, stop, restart, delete, reopen, purge, kill-all, kill-stale, finish a worktree, reclaim, process report, startup | every request awaits processes, other requests run meanwhile; dtach masters outlive the server; the server dies anywhere | no process without a record, none twice, no record lost, every request ends |
| Prompt delivery (`session_manager.py`, `preserved_terminal_composer.py`, `draft_tracker.py`) | `prompt_submit_lock`, `prompt_going_in`, `held_user_input`, `record.draft` | submit_prompt, edit_queued_prompt, write_user_input | a person types while a prompt is pasted, entered and retried; the agent's screen absorbs keys | typing kept in order, no prompt sent with foreign text, outcomes true, lock released |
| Replay recordings (`replay_recorder.py`) | buffer and pending bytes per terminal, one file each, one flush task, `_checkpoint_lock` | record, flush, discard, sweep, restore | a worker thread writes while the loop records, closes and reopens; a write fails; the server dies | the file replays the output; nobody's file but an orphan's is removed |
| Windows (`attach_client`, `terminal_client_queue.py`, `server.py`, `static/app_terminal.js`) | a bounded queue per connection, `output_missed_while_detached`; per view its socket, timer and flags | attach, detach, pump, overflow; connect, close, reconnect, activate, resync, rebuild | lost connections, a slow window, four things that connect the same view | each chunk once and in order, the view catches up |
| Shared drafts (`set_draft`, `_apply_draft_change`; `static/app.js`, `app_terminal.js`, `app_markdown_files.js`) | `draft`, `draft_revision`, the draft history; per window its copy, the revision it was made from, flags and timers | type, paste, clear, queue, push, refuse, submit, list, reconnect, restart | windows that push from stale copies; text entered offline; a revision persisted late | no text overwritten unseen, none lost without a trace, the copies come to agree |
| Notebook (`static/app_markdown_files.js`, `static/app.js`, `app_settings_ui.js`, `server.py`) | notes with a revision on the server; per window note objects, dirty marks, a queue of requests, tombstones, the rescued copy | type, save, select, create, close, delete, fetch, broadcast, page exit | answers that overtake broadcasts, refused writes, objects replaced under a queued save, a lost status stream | typing is left alone, refused text is kept, deleted notes stay gone, windows fall quiet |
| Agent binding (`agent_session_tracker.py`, `_detect_after`) | `agent_session_id`, baselines, claims | detect, verify, claim, rename | two detections at once, forked agents | one terminal per agent session |
| Codex capacity retry (`codex_capacity_retry.py`) | backoff per session | retry | shares the prompt lock; decides on a snapshot | one retry per error, never over a person's typing |
| Watchdog (`service_watchdog.py`) | one state file | tick | state that cannot be written, a restart that fails | restarts bounded by threshold and cooldown |
| Remote access (`remote_connector.py`, `remote_service/cloudflare/src/index.js`; the Python relay beside it) | the account's token, connections, pending requests, opening and open channels; per computer its connection, open tasks, local sockets | ask for demand, dial, hello, pair, revoke, request, open, send, close | two computers of one account, an end seen by one side only, an answer that comes after its timeout | a waiter is answered, a stream arrives in order, a computer comes back |
| Backups and settings (`state_backup.py`, `settings_store.py`) | snapshots, state files, a cache | snapshot, restore, save | death between two files | a restart finds one consistent set |
| History, transcripts, agents (`history_index.py`, `transcript_*.py`, `agents/`) | caches over files of the agents | index, parse, recognise | files that change under the reader | – |
| Language servers (`lsp_service.py`, `lsp_client.js`) | one process per project and language, open documents | open, change, close, request | start and shutdown at once, counts of open documents | one process per project |
| Files, search, git, worktrees, bundles | mostly none | one request each | external programs | – |
| CLI, MCP, installer, updates, notifier, statistics, frontend widgets, VS Code extension, packaging | – | – | – | – |

**How they interact.** The server is one asyncio loop: a handler runs without interruption from one
`await` to the next, and everything else can happen at the `await`. The session manager calls the
recorder on every chunk of output (`_handle_output`), when a terminal closes (`discard`) and when it is
restored; the recorder's writes and its sweep run in threads. Windows come through `attach_client`, which
may itself start a terminal. Prompts reach the agent through `write_input`, the same function that typing
uses. The browser's page talks to the server by one WebSocket per terminal, for output, typing and drafts;
by a status stream that broadcasts lists and project state; and by plain requests. The three are not
ordered among each other, which is what `Notebook` and `DraftSync` are about. Through the relay all of it
travels over the one connection of the computer.

`PROJECT.json` lists all parts with their status, and 40 hazards at the lines where they bite.

## 2. Modules

| Module | Models | Lines |
|---|---|---|
| `DeckContract` | abstract: a record that is open, closed or absent and a tree that lives or not | 43 |
| `SessionLifecycle` | the session manager's terminals against dtach, implements `DeckContract` | 776 |
| `PromptDelivery` | submissions, queue edits and typing on one composer | 477 |
| `ReplayCheckpoint` | recordings in memory and on disk | 474 |
| `TerminalWindows` | connections of one terminal and the views behind them | 391 |
| `DraftSync` | the draft of one terminal and the windows' copies of it | 443 |
| `Notebook` | the notes of a project, on the server and in every window | 546 |
| `CloudRelay` | an account at the Cloudflare relay, its computers and its browsers | 382 |
| `MC...` | the instances for TLC; `MCNotebookHeld` is one course of `Notebook`, too long to be met among all | |
| `...Proofs` | the theorems of each but `DeckContract` | 26,680 |
| `InductionLemmas` | induction and recursion without operator parameters, for the proofs | 388 |

In all of them an action is what a coroutine does from one `await` to the next (the exceptions are
said below), its guard the code's conditions and early returns.

### SessionLifecycle

`listed` is the keys of `_sessions`, `ms` the fields of each `ManagedSession` that the control depends
on, `disk` and `closed` the two files, `masters`, `linked`, `bridge` and `on` the operating system's side:
dtach masters by the number of the spawn that made them, the socket file, the pty bridges. `req` and
`job` are the requests in flight and the `_terminate_proc` coroutine of each. `loop` holds the event loop
between two file writes of one handler, so that the server may die there (fault `torn`) and nothing
else may run.

External, from how the code uses them: `dtach -A` joins a master or starts one, a master may die alone,
so may a client, a kill is obeyed unless the tree is `stubborn`, an lsof that times out names nobody
(fault `probe`). CPU, memory and zombie columns, ordering of the deck, names, themes and worktree
creation are left out. A tree is its dtach master and what the master holds: a child that outlives its
master, has let go of the socket and is seen by no poll of the server (`session_manager.py:2448-2456`) is
not represented, so `NoOrphan` speaks of masters. Only an agent (`Agents`) can be refused a resume, and while a request works on its
terminal only with the fault `refused`.

### PromptDelivery

One terminal. `tui` is the agent's screen (composer, queue, turns, dialog, search view, a paste that lost
its end), external; `recorded` is how far the transcript has got. `pc` and `sub` are the coroutines
between their sleeps, `line` is the lock with its waiters in order, `held` and `goingIn` what typing waits
for, `draft` what `DraftInputTracker` has rebuilt. `typed` and `through` are history. Prompts may read alike:
`text` says which of the `Readings` each has, and a submission is confirmed by any later turn that reads as
its prompt does (`session_manager.py:1876`).

Left out: prompts and drafts of several lines (so `^U` empties the composer), a draft pushed by a window,
a terminal deleted or respawned in the middle, attachments and image pastes, `/rename` as a command.

### ReplayCheckpoint

Output is a sequence of numbered chunks and a recording a sequence of numbers, so a lost, repeated or
reordered piece shows. `mem` has buffer, pending bytes and the generations of the compaction; `flush`,
`todo`, `cur`, `written` are the one flush task; `line` is `_checkpoint_lock`; `sweep` and `keep` are the
thread of the hourly sweep; `life` counts the `ManagedSession` objects a terminal has had, because
`_checkpoint_active` compares identities. `lost` records what a death or a close found in memory only.

Left out: titles, synchronized frames and the other rewriting of bytes, the limit over all recordings,
imports and the old file name. The history of closed terminals is a set. A lock that is free is taken in
a step of its own, which allows one interleaving more than asyncio does.

### TerminalWindows

`sock` is the sequence of connections with both ends of each: the server's queue, what is on the wire, the
WebSocket object. `view` is the part of the browser's view that decides what it shows. `out`, `missed`
and `repaint` are the terminal's. `kind` tells a shell from an agent with `records_raw_replay`, whose
view is rebuilt from the replay after every close that was not its own (`onclose`). `unseen` holds the
chunk that a starting attach printed between its read of the replay and the registration of its queue.

Left out: restarts of the server, xterm's own write queue, the mobile transcript that suspends a socket,
debug and read-only windows, sizes, control messages. When a replay asks for a repaint is abstracted to
"it may". "The buffer is taller than the screen" is a choice for any view that shows something.

### DraftSync

`srv` is the record's draft and revision and the pieces its history has; `stamp` numbers the drafts there
have been, since revisions repeat after a restart. `view` is what one window holds: its copy, the revision
it claims, `promptDraftSyncPending`, `pendingDraftSync` (`waiting`), the three timers and `promptSubmitting`.
`up` and `down` are the two directions of its socket, `list` a session list on its way, which is not ordered
with them. `going` is a submission as the draft sees it (`PromptDelivery` has what the composer sees): the
draft held, emptied, given back. A text is a sequence of pieces, each typed or pasted once.

Where the code's timers differ in length only the order that the lengths force is kept: a paste clears
the 3 s timer and its own 250 ms comes first, typing ends the 1.5 s of a submission. Left out: the cap of
fifty on the draft history, drafts of agents that have exited, prompts stopped by a dialog,
`syncPromptToTerminal`, which nothing calls, and the other fields of a session list.

### Notebook

`notes` is the server's, `page` a window's. A note object has an identity `<<note, k>>`, because a queued
save and the save timer hold on to the object they were made with while arriving state puts another one
in the list; that is what several of the hazards come from. `queue` and `wire` are
`projectStateSavePromise`: requests go out one at a time, a failed one once more. `stream` is the status
stream. With `Overtaking` an answer may arrive before a broadcast that was sent first, which two
connections allow; without it the answers are held back (`behind`). A text is the set of the pieces typed
into it, so that text that disappears shows; nobody deletes text.

`flushNotebook` and `refreshCurrentProjectState` await `projectStateSavePromise` as it is when they are called.
The first is a count of requests still to go (`ahead`, `Outstanding`); the second waits for the whole queue,
which is the same, because a request queued meanwhile makes the call out of date. Several such calls may be
under way (`fetch` is a set). `heldOnce` is history.

Left out: restoring a version, adding a selection to a note, the order of the notes, the migration of the
old global notebook, and the other fields of project state, which take the same way. The write that says
which note is open (`saveNotebookProjectState`, with every select, new and closed note) is one of these: that it makes
fetches out of date and puts a new state in the window is modelled, its PUT and its broadcast are not. They
carry the notes as the server has them, so they say nothing of the notes that was not broadcast before. `Rescue` of a
note that has left the list takes what the editor may have last been given: nothing, or the text of any object of that note.

### CloudRelay

`link` is the sequence of connections computers have dialled, each with two ends that see it end at
different times and what is on its way in both directions. `Ready` and `Connector` are computed from it as
the Durable Object computes them from its list of sockets, closed ones that have not answered included:
such a link stays listed, and fails what is sent on it, until the computer has answered the close.
`computer` is the connector of one computer with its open tasks and local sockets; `call` and `channel` are
the browsers' requests and websockets at the relay. The timeouts (`CallTimesOut`, `OpenTimesOut`) count
among the acts.

Left out: rate limits, access tokens, bodies and headers, sizes, the hibernation of the object, browser
pages. The server behind the connector is external: it answers a request, opens, sends on or ends a
local socket when it likes.

## 3. Runs

| Run | Shows | Distinct states |
|---|---|---|
| `deck` | a shell and an agent through every request, one request at a time, the server killed once at any await: records, processes and files agree, and the deck implements its contract | 1,248,000 |
| `processes` | one agent terminal with refused resumes, ptys that do not start, dtach clients that die and trees that do not: every request ends | 78,000 |
| `prompts` | two submissions or queue edits of any kind and a person who types twice, that may read alike, with one upset of the screen | 999,000 |
| `replay` | a shell and an agent with four chunks, a close and reopen, one failed write or death | 628,000 |
| `windows` | one view, four chunks, two troubles (overflow, stall, drop, resync, rebuild), three connections | 839,000 |
| `drafts` | two windows, two pieces entered and one of: a clear, a Tab, a submission, a list, a lost connection, a restart | 2,223,000 |
| `notebook` | two windows and two notes, one piece typed and one of: a note selected, saved, added, closed, a page left, a request, an answer or the stream lost | 195,000 |
| `relay` | two computers, one request, one websocket with two messages, two links, two of: pair, revoke, lose, time out | 313,000 |
| `held` | one order in which two people act on a note refused again and again, everything between them left open | 76,000 |
| `stranded`, `trusted`, `unseen` | with `held`, what the repository says and the code does not do, section 5 | small |

**Bounds.** The hazards are races of two parties: two terminals for mixing them up, two spawns so that an
old bridge and a new one coexist, one death of the server at every point, two submissions because the
lock makes a third wait behind the second, a recording limit of two chunks with four printed so that it is
cut twice, a queue of one item so that it overflows on the second, two windows since a third only repeats
what the second does to the first, two links so that one replaces the other. Every action of every module is
taken in the passing runs, and each property is broken by a change a bug could make (`mutants` in
`PROJECT.json`). Wider bounds that were tried and show nothing new, too long to be runs: `windows` with a
queue of two (1.07 million states); the safety properties of `notebook` on one note with two pieces (1.3 million, answers
in order) and with two acts (the first 8 million); `drafts` with three acts, and with three pieces and two acts, for pastes, submissions and
drops (40 million states each, not to the end). The last two are why `PastedKept` says what it says: its
first form, without the exception for a skipped flush, held in `drafts` and fell there.

**Symmetry** of the windows is used in `drafts` only, which checks no liveness.

**Overlapping requests.** In `deck` nobody opens or closes a terminal that a request is working on (fault
`overlap`), and no resume is refused while a request works on the terminal (fault `refused`): `NoOrphan`,
`Reachable` and the contract fail with either, see section 5. `processes` has `refused`, and clients, spawns and
kills that fail. The faults `overlap`, `probe` and `torn` are modelled and in no passing run: each breaks a property as
section 5 says. What the theorems need of the faults is said with each in section 6.

**Fairness.** Weak fairness, and only of what an event loop does by itself: a coroutine whose sleep,
lock, thread or process wait is over runs (`TerminateSteps`, `RequestEnds`, `Step(i)`, `Flush`, `Sweep`,
`Close`, the WebSocket handlers), the operating system carries out a kill unless the tree is stubborn
and reports the exit of a child, the browser runs its timer. In `Notebook` a window goes on with its queue,
the server answers, broadcasts arrive and timers fire (`Network(w) \/ TimerFires(w)`: as long as a window
has any of that to do, some window does). In `CloudRelay`
the relay handles what a link carries or sees its end, and a connector, which is a loop, asks, dials and
reads. People, agents, output, faults and deaths are never fair. A death of the server makes the requests of that server end.

**Deadlock** is checked where the system can always do something (`replay`, `windows`). Elsewhere the
bounds on spawns, submissions and keys stop the model when they are used up.

## 4. Properties

*Lifecycle.* `DiskMirrorsDeck`, `NoOrphan`, `OneTree`, `Reachable`, `OpenOrClosed`; `RecordSurvives`;
`RequestsEnd`; and `KeepsContract`, the refinement of `DeckContract`: through any request and any restart of
the server a record is closed or dropped only over a dead tree.

*Prompts.* `TypingKept` (every key once, in order, or still held), `PasteIntact`, `SendsOnlyItsPrompt`,
`CutPasteHealed`, `DraftIsComposer`, `SubmissionsEnd`.

*Recordings.* `FileIsOutput`, `RestoreShowsBuffer`, `WriterOwns`, `OwnedSpared`, `OutputWritten`.

*Windows.* `StreamWhole` (from the registration of its queue a connection is sent each chunk once and in
order), `ScreenReplays` (what a view shows never repeats, and an agent's has no gap), `CatchesUp`.

*Drafts.* `PastedKept`: pasted text that never reached the terminal, because its window had no connection,
is pushed later and then kept, accepted or refused. `CopiesAgree`: when all is quiet a window shows the
server's draft, or has passed over the last one it was told. Typed text has no such promise: keys pressed
offline stay in the window's copy and are not sent.

*Notebook.* `TypingUndisturbed`, `DeletedStaysGone`, `RefusedKept` (text the server refuses is in a version, in
a note or in the queue of the window before the newer text takes its place), which `held` shows to be false, and
`RefusedKeptUnlessHeld`, the same of a window that has never held a note, which is as much as the code keeps; and `QuietAgain`: setting arrived
text in the editor starts the save timer, so windows answer saves with saves, and it must end.

*Relay.* `StreamInOrder` (what a computer sends between saying a websocket is open and the browser's end being
accepted is delivered before what comes later), `NoneStranded` (a request does not wait for a connection that
has ended while there is no other), `LocalsFollow`, `ComesBack`.

## 5. Where the code and what is said of it part

Each of these is a run in which TLC violates one property; the quoted lines are in `PROJECT.json`.

- `stranded` (`replay_recorder.py:165`): what a process prints in its last second is in no flush.
- `trusted` (`session_manager.py:1459`): a shell's view that lost its connection, or whose backlog
  overflowed, keeps its buffer and never shows what was on its way.
- `held` (`static/app_markdown_files.js:7540` against the comments at 7526-7527 and 7582-7583): text refused while
  the window has no status stream is rescued into a note of its own. When that note is refused too it is held, and what
  is refused afterwards in the first note is put into the held one, which is not saved (`:7294`) and not marked
  unsaved: the next broadcast replaces it. Refused once more, with the stream back, the first note's text counts as
  rescued (`:7533`) and is replaced: it is in no note and no version. It takes two windows, four pieces of text and
  six acts, which is out of reach among all orders; `MCNotebookHeld` gives the order in which people act (one window
  selects the rescued note, saves it and leaves it, loses its stream with one save still queued; the other writes
  to both notes; the first note is typed in again and saved twice) and leaves the network free.
- `unseen` (`static/app.js:5579`): a session list raises the revision a window claims before its text is
  looked at, so the text is never taken; the next push of that window is accepted over a draft it never showed.

Seen in the models and kept without a run. Those with a fault or a constant can be had by changing the
configuration:

- *Lifecycle*, fault `overlap` (`session_manager.py:2298` against the comment at 64-66): a window that opens a
  terminal while another one stops it starts a process that the end of the stop forgets.
- *Lifecycle*, fault `refused` (`session_manager.py:1239` against `docs/api.md:330`): an agent that
  dies by its own delete shortly after a resume is taken for a refused resume and started afresh; delete
  then drops the record of a live process.
- *Lifecycle*, fault `probe` (`session_manager.py:2433` against the docstring above it): a sample that timed out
  reads as "no holder" and the live terminal's socket file is removed; after a restart of the server the
  terminal is started a second time, and `OneTree` fails.
- *Lifecycle*, fault `torn`: a death between reopen's two writes leaves the record in neither file.
- *Prompts*, `Readings` (`session_manager.py:1876` against `models.py:98-100`): a prompt is confirmed by the turn of
  another one that reads the same, so `confirmed` does not mean that this prompt was taken. No property says that it
  does. What holds is that some prompt with those words was (`ConfirmedWasTaken`, section 6).
- *Prompts* (`session_manager.py:1853`): an agent that takes a prompt and exits before the next look makes it
  failed, and failed prompts may be sent again.
- *Recordings*, fault `overlap` (`replay_recorder.py:469` against 461-463): a terminal reopened between the two
  reads of the sweep loses its recording on disk. Fault `torn`: an append that failed midway is repeated in
  full.
- *Windows*, fault `hasty` (`static/app_terminal.js:984`): the reconnection timer, an activation and a resync
  can give one view two connections, and every chunk twice. `unseen`: an attach that starts an agent reads its
  replay before the start prints its divider, which the first window does not show until its next replay
  (`session_manager.py:1451`).
- *Drafts* (`static/app_markdown_files.js:3376`): text pasted offline is pushed when the socket opens, except
  while a prompt of the same window is going in, and nothing pushes it when that is over. The draft that
  arrives replaces the window's copy, and the next paste or prompt what waits: the text is gone.
- *Drafts*, variable `passed` (`static/app_terminal.js:1142`): a window that waits for its own echo, or has just
  submitted, passes over drafts of others and is not told again. It goes on showing the older text under the
  newer revision.
- *Drafts* (`session_manager.py:2010`): after a restart the windows' revisions are ahead, and what they push is
  refused until the server has caught up, or accepted when the numbers meet.
- *Notebook* (`static/app.js:1934` against the comment at 1915-1916): a new note whose answer overtakes an older
  broadcast leaves the list until its own broadcast comes.
- *Notebook* (`static/app_markdown_files.js:7309`): the answer to a save clears the mark of unsaved text by
  the text of its own object. If arriving state has put another object in the list, text typed there since
  counts as saved, and the next arrival replaces it.
- *Notebook* (`static/app_markdown_files.js:7518`): a note refused while the status stream was lost is held, and
  only the refusal of a save that was queued already releases it. A save that failed twice leaves its note marked unsaved, a page on its
  way out posts only the note on screen, and `closeNotebookNote` moves to the Trash the text it had when the
  button was pressed.
- *Notebook* (`static/app_markdown_files.js:7304` against `docs/api.md:365-367`): a save takes its revision when it goes
  out. A window with two saves of a note queued has the first refused; the second, with text from before the refusal,
  goes out with the revision the refusal brought, and replaces what another window wrote. The replaced text stays
  in the version history.
- *Relay* (`remote_service/cloudflare/src/index.js:334` against `docs/remote-access.md:77`): pairing another
  computer stores its token and closes nothing. The prior computer stays the one in use, and the new one is told
  not to dial, until that connection ends for another reason.
- *Relay* (`index.js:444`): a websocket whose opening timed out may open afterwards; its local socket stays until
  the computer's connection ends. Requests sent to a computer that is replaced wait for their timeout
  (`index.js:538`).

## 6. Proved

From the assumptions on the constants named in the modules (`ConstantsOK`, `PromptConstants`,
`ReplayConstants`, `RelayConstants`, `DraftConstants`, `NotebookConstants`), for any number of terminals,
requests, submissions, keys, chunks, deaths, computers, connections, windows, drafts and notes.

`SessionLifecycleProofs`
- `TypesHold`: `Spec => []TypeOK`. `TypeOK` contains that the history names no terminal twice and keeps
  its cap, so it needs the lemmas on `RemoveAt` and on pushing to the history.
- `DiskAlwaysMirrorsDeck`: `DiskMirrorsDeck` speaks of moments when the loop is free; `DiskInv` extends it to
  all of them by naming the two holders of the loop that have changed the deck and not yet saved.
- `NeverOpenAndClosed` (`OpenOrClosed`, assuming the server does not die between two writes of one
  handler): `HistoryInv` adds that a record on its way out of the history is gone from it, and that the
  saved deck, which a restart will list, does not meet the history while the server is down. It rests on
  `DiskInv`: the server may die only where the saved deck is the deck.
- `RecordsSurvive` (`RecordSurvives`, a property of steps, assuming no fault `torn`): `SavedInv` says what the saved deck
  lacks, or has too much, between the halves of a creation and of a deletion. `PushDrops` shows that one more
  record pushes at most the oldest out, and only when the history is full.
- `NoneOrphaned` (`NoOrphan`), `OneTreeEach` (`OneTree`) and `ContractKept`, the refinement of `DeckContract` step by step,
  from the inductive `Ordered`. `TreesInv`: the only tree of a terminal is the one behind its socket file, and it has a
  record, in the saved deck while the server is down. `JobsInv`: no two requests work on one terminal, but for a
  reclaim that has yet to look at it, and what a request has seen dead is still dead. `BridgesInv`: a bridge the
  terminal calls its own has not been closed, and a request that is done has left none; without it the late exit
  of a bridge could start a tree behind a delete. They assume `Orderly`: none of the faults `overlap`, `refused`, `probe`
  and `torn`. Section 5 shows what goes wrong with each, so this is as much as the code keeps; clients, spawns and
  kills may still fail, and terminals, requests, restarts and deaths are as many as one likes.
- `TreesAreReachable` (`Reachable`, assuming no faults at all, since a spawn or a kill that fails or a client that dies
  alone leaves a terminal that is neither lazy nor attached): `CalmInv` adds to `Ordered` that the bridge of a
  terminal whose tree lives is up and attached to that tree, and that every kill in such an environment succeeds:
  a tree that is polled has been signalled, and a request that got past the poll has seen it dead.

`PromptDeliveryProofs`
- `PromptsSendThemselves` (`SendsOnlyItsPrompt`): `SendInv` speaks of the times at which no paste has lost its end.
  A submission that has not pressed Enter has sent nothing, and each sends itself once, alone. While its paste
  settles the composer is its prompt unless a dialog is up. While it watches, everything in the composer is its
  prompt or a word of the person's, and such a word is followed by an Enter of theirs, or is still in the draft, which
  `MayPress` refuses, or is out of reach behind a screen that covers it; and a prompt that is still in the composer has
  not been sent. Two prompts may read alike.
- `TypingNeverLost`: `TypingKept` is inductive once `held` and `through` are known to be sequences of keys.
  The lemmas follow the keys through the three ways they are given back. The agent's screen plays no part.
- `PromptsGoInOneAtATime`: `LockInv` says that a submission whose keys go in holds the lock, that is,
  stands at the head of the line, which has one head; the lemmas say who may move it.
- `PromptTypes` (`TypeOK`): `Press` and `Track` fold keys over the screen and over the draft; by the recursion
  lemmas below they keep screens screens and drafts drafts.
- `PastesStayWhole` (`PasteIntact`): `HandlingInv` says which submissions hold the composer, and that a screen is left in the
  middle of a paste only where one was cut. The keys before a paste leave a sound screen with an empty composer.
- `ConfirmedWasTaken`: of a confirmed prompt, one that reads the same has been taken. The turns only grow and the
  transcript never runs ahead of them, so what was seen in it stays true.
- `CutPastesHeal` (`CutPasteHealed`): `HealInv` adds where the prompt is meanwhile, in the composer inside a paste that is
  still open, and that nothing the person may press takes it out of there.
- `DraftsAreTheComposer` (`DraftIsComposer`): `DraftInv` is about all moments at which nothing stands between tracker
  and composer (`Agree`), and adds that what is left to be written of a queue edit ends with the key that empties the composer.

`ReplayCheckpointProofs`
- `WriterAlwaysOwns` (`WriterOwns`): `FlushInv` adds that what is closed is not open, so a reopening
  cannot replace a session that is being written, and that the sweep holds the lock while its thread runs.
- `OwnedAlwaysSpared` (`OwnedSpared`, assuming no terminal is reopened between the thread's two reads,
  which the code does not prevent, see section 5): `OwnersInv` adds what the thread has seen of the
  present sessions after each read, and that no write ever empties a recording. It needs `FlushInv`: no
  terminal leaves the deck while the sweep holds the lock.
- `RecordingTypes` (`TypeOK`, all faults included): that no file outgrows the limit needs `SnapInv`. Whether to append
  was decided when the snapshot was taken, so every snapshot of a session that is still on the deck must stay
  fit to be written: what it takes for new is still the oldest of what is not on disk, there is room for it,
  and there is one of each terminal at most.
- `FilesAreOutput` (`FileIsOutput`, assuming no fault `torn`: an append that failed midway is repeated in full, see
  section 5): `FileInv` says how far each file tells the output, which is up to what is pending, and while a write waits
  to be acknowledged that much further; a replacement still to be written tells it as far.
- `RestoresShowBuffers` (`RestoreShowsBuffer`, assuming neither `torn` nor `overlap`): `ShowsInv` follows the
  generations of the compaction. File and pending end as the buffer ends while the compaction in memory is the one on
  disk; a snapshot of the current generation leaves exactly the buffer but for what was printed since, an older one need not.

`TerminalWindowsProofs`
- `StreamAlwaysWhole` (`StreamWhole`) and `ScreensAreReplays` (`ScreenReplays`), assuming no fault `hasty`: with it a view
  may have two connections and shows chunks twice (section 5). `Good` says that a view has one connection that is
  not closed, or none and perhaps a timer (`Linked`); what a connection holds once it has ended or overflowed (`Tidy`);
  and of each that carries something, which chunk `d` the view was delivered last: the wire goes on from `d`, the queue from the
  end of the wire, and the screen ends with the chunks from the attach to `d` (`Flows`). An agent's view that is away from its
  connection is rebuilt, so its screen has no gap (`Sound`). `LazyInv`: a terminal that has not started has no attached window.
- `WindowTypes` (`TypeOK`), under all faults, from an invariant of its own (`TypeInv`), since `Linked` does not hold then.

`InductionLemmas` holds what the last three rest on: induction over a set of numbers and recursion as a function that
exists, both from the well-foundedness of the naturals in the library, in place of the library's own theorems,
whose operator parameters no prover here can instantiate; and what a fold over a sequence comes to.

`CloudRelayProofs`
- `RelayTypes` (`TypeOK`): besides the types, a connector that says it is connected has a connection of its own,
  open at its end. `ComputerInv` says whose it is, so the end of one computer's connection touches no other.
- `NoRequestIsStranded` (`NoneStranded`): `CallInv` adds that a request is only ever given to a connection that has
  said hello, and that this is never taken back; `RelayInv` is their conjunction with the types of what is on
  its way. The end of the last ready connection fails everything that waits, the end of one that never said
  hello concerns no request, and any other leaves one that is ready. That the connection in use is a ready
  one (`ConnectorIsReady`) rests on the well-foundedness of the naturals in the library.

- `StreamsAreInOrder` (`StreamInOrder`): a websocket is asked for on one connection only (`AskedOnce`) and nothing is
  said of it before it has been answered (`Quiet`). From then on one computer carries it over one connection
  (`Carried`): the numbers on their way continue what was delivered without a gap (`Flows`, `Unbroken`), and
  nothing is behind a close.

`DraftSyncProofs`
- `PastedTextIsKept` (`PastedKept`): `OwedInv` is stronger, since a window that still waits with pasted text may lose
  it to the next draft once it has a connection: there what is owed must have been sent already, and only a window
  without a connection may keep it to itself (`OnItsWay`). Typing that a submission held is put back
  key by key, and the lemmas follow the pastes through it by induction over its length, from the
  well-foundedness of the naturals (`Induction`).
- `WindowsAgree` (`CopiesAgree`): `CopyInv` says of each window with a connection that it owes nothing of what it shows,
  or why it does not show the server's draft yet. Either a frame that it never ignores is on its way and all
  frames behind it say the draft (`Told`); or all frames on their way say it, and the window shows it or has passed
  it over (`Only`); or something is on its way up that makes the server tell every window (`Owes`); or the window is
  empty and a clear is on its way (`Clears`). A session list changes only the revision a window claims, never what it
  shows, which is why this holds in spite of `unseen`.
- `DraftTypes` (`TypeOK`): from the same invariant, `DraftInv`; a window without a connection has nothing on its
  way in either direction, which is also what lets a lost connection take nothing else with it.

`NotebookProofs`
- `TypingIsUndisturbed` (`TypingUndisturbed`): `NotebookInv` says that a window's list refers to note objects the
  window has, and that states, requests and answers have the fields they are read for. Arriving state leaves a
  note that is being typed in with its text (`ApplyKeeps`), dropping objects nothing refers to changes no text
  (`CollectAlike`), and the lemmas on the other steps show that they leave the list alone or only add text.
- `DeletedNotesStayGone` (`DeletedStaysGone`): the invariant adds that what a window remembers as deleted has been
  deleted by someone, so that a new note never takes its id, by creation or by rescue.
- `NotebookTypes` (`TypeOK`): `TypesInv` adds that whatever refers to a note object (a queued save, the request that is
  out, the timer, a note being closed) refers to one the window has, that states, requests and posts on their way
  are well typed, and that a window has finitely many objects, so that a new one always finds an identity
  (`UnusedIsFree`, the pigeonhole principle). It needs of the constants only that the first notes are finitely many.
- `RefusalsKept` (`RefusedKeptUnlessHeld`), of every behaviour: streams are lost and come back, and refusals, rescues, held and
  closed notes and windows are as many as one likes. Only a window that has itself held a note is promised nothing from then
  on (`heldOnce`); it falls under `held`, and the others do not depend on what it does. What must not happen is that a
  text counts as rescued (`:7533`) when the note it was rescued into has lost it. `KeptInv` says why it does not: every
  state on its way holds only recorded text (`WorldRecorded`), in each window text the server has not recorded is in one
  note only (`Apart`), and there is a ranking of the notes in which a note comes before the one its text went into, so that
  text not yet recorded that was once rescued out of a note is never in that note, nor in one before it (`Ranked`; all three
  with `Tracked` are `Traced`). A note made for a rescue ranks next after the one the text is from; a note of the list is
  the server's, the window's own or deleted (`Owned`), and nothing new takes an id the window still knows (`Tracked`).

**Only model-checked.** Liveness (fairness and ENABLED are outside the prover), and the runs of section 5, which show that
something is false. Nothing is declared RECURSIVE.

## 7. Plan

Modelled, in this order: lifecycle, prompts, recordings, windows; then the notebook, the Cloudflare relay
with the connector, and the shared drafts, which added the races between windows. What is left:

1. `CapacityRetry` on the lock of `PromptDelivery`; `AgentBinding` for two detections at once.
2. `LanguageServers`: start, initialisation that fails, open counts and shutdown around one process.
3. `ServiceWatchdog`: sequential; a bound on restarts, with a proof of the cooldown.
4. `StateBackup`: restore and recovery with a death between files.
5. The Python relay as a second instance of what `CloudRelay` promises, and an abstract specification (one
   request, at most one answer) that both implement.
6. In `SessionLifecycle`: a property for reclaim (`session_manager.py:2414`) and reopen at once.

**Not modelled.** Parsers of transcripts and screens (text of programs outside this repository); routing,
rendering, settings, file, search and git views, which make up most of the frontend's lines and keep no state
that two parties share; one-shot commands to git or the service manager; access control; packaging and
vendored libraries.
