# Verification of Max+

Max+ is a client for the MAX messenger: a Svelte user interface (`src/src/`), a
Tauri back end in Rust (`src/src-tauri/src/`) and an Android shell in Kotlin.
The interface calls the back end with `invoke`, one asynchronous command at a
time; the back end speaks to the server through the external client `rumax`,
whose source is not in the repository, and sends the interface events named
`max`.  This directory holds TLA+ models of the parts whose correctness depends
on the order of events, the TLC runs that check them, and TLAPS proofs.

1. Inventory
2. Modules
3. Runs
4. Proofs
5. What the models found
6. Not modelled
7. Plan

## 1. Inventory

| Part | State | Operations | What is hard |
|---|---|---|---|
| Session (`lib/api/MobileApi.js`, `lib/utils/invoke.js`, `lib/stores/api.js`, `routes/auth/select`) | flags `connected` and `sync`; the promise `synchronized`; the shared calls `initializing`, `syncing`, `reconnectPromise`, `activeReconnect`; `inflightRetries`; current user and account | `init`, `sync`, `reconnect`, `waitSync`, `disconnect`, login, logout, switching accounts, `closed` and `online` events | every step is a callback between two awaits; each shared call is joined, awaited and reset by many; the connection breaks at any time |
| Coalesced file store (`stores/storage.rs`) | `PENDING_WRITES`, `SCHEDULED_PATHS`, flush tasks, files | `save_coalesced`, `save_direct`, `load`, deletion of files | two locks taken one after the other, tasks that end as saves arrive, failing writes, restarts |
| Message chunks (`stores/messages.rs`) | files of at most 100 messages for each day | update, load, mark as deleted, remove, clear | read-modify-write without a lock over the store; new chunks that are not on disk yet |
| Metadata, settings, chats, media index, key-value storage (`stores/accounts.rs`, `chats.rs`, `cache.rs`, `generic.rs`) | files, three of them with a copy in memory | get, set, merge, drop | copy and file change at different moments, in a different order in each file; what cannot be decrypted reads as empty |
| Encryption of an account (`stores/accounts.rs`, `stores/storage.rs`) | entry of the account with salt and hash, open key, files | encrypt, decrypt, unlock | migration of all files by several threads that may stop half-way, with saves going on |
| End-to-end handshake (`crypto/commands.rs`, `ChatWindow/e2e.js`) | pending key, session, archived keys in the chat settings; the page's copy of them | offer, accept, process an accept, disable | two parties at once, chat messages repeated or late, settings overwritten by the page |
| Calls (`services/CallService.js`, `lib/stores/calls.js`) | active session, incoming call, screen; microphone, channel and peer connection of each session; timers | place, push, accept, decline, hang up, destroy | timers and awaits that outlive the call |
| Contacts (`utils/caching.js`, `stores/contacts.js`) | known, pending and failed ids, the current batch, a store for each contact | ask, batch, fetch, sync, push, save | joining a batch as it is sent, failure and retry, stores that are opened while news arrive |
| Message list (`ChatWindow.svelte`, `chatMessagesLoader.js`) | loaded window of a chat | load older or newer, jump, merge pushes, send | pages that were asked for before something arrived |
| Media pool (`services/MediaPool.js`, `MediaCanvas.svelte`) | entries counted by reference, loadings, players, render loop | acquire, release, show, hide, evict, purge | loadings that outlive their entry |
| Plugins, web apps, proxy, conversion, notifications, interface, mock | see `PROJECT.json` | | mostly I/O, formats and rendering |

The parts meet in these places.  Every API command passes `waitSync` and
`invoke`, so the session decides when it is sent, sent again or given up.
Messages, chat settings and the media index are saved through the coalesced
store, so that a save is in memory for 150 ms, and may be lost, before it is on disk;
accounts, contacts and chats use `save_direct`; all of them ask for the
key of the account.  The handshake keeps its keys in the chat settings, and calls
make offers of their own and hear the answers.  The message list loads pages from
the message chunks and from the server.  The sync of the session hands contacts to
the contact cache, and the events of the server go to handshake, calls, contacts
and list.

What makes the main parts correct, in one sentence each:

- *Session*: nobody waits for something that no one will do; the flags tell the
  truth about the connection; a command is sent a bounded number of times; the
  loop goes on until there is a connection.
- *Store*: the disk sees the saves of a file in order and none twice; the last
  save gets there or is lost for a known reason; readers see the last save.
- *Message chunks*: a stored message is in one chunk, with the marks it was given,
  until it is removed, if its save was not lost; a page gets the newest messages before its time.
- *Account data*: no update is lost or undone, copies fit their files, and an
  account that is shown is open.
- *Account encryption*: after any stop, every file can be read with a key that is
  still known.
- *Handshake*: two ends that show an encrypted chat hold the same secret, no secret
  is forgotten, and none is made from a key that was not offered or answered.
- *Calls*: a session that is over has nothing switched on, and the screen shows a
  call exactly while there is one.
- *Contacts*: each is asked for once, whoever asks gets an answer, and what is
  shown and saved is the newest version.
- *Message list*: no gaps between what is shown, and what is shown is current.
- *Media pool*: what a canvas holds stays and is what it shows; every player has
  somebody who stops it.

## 2. Modules

| Module | Models | Checked by |
|---|---|---|
| `WriteBehind` | abstract store: numbered saves, written in order, some skipped, none twice | `store` (refinement) |
| `CoalescedStore` | `storage.rs` with its locks, tasks, truncating writes, faults, restarts | `store` |
| `CoalescedStoreProofs` | invariants of the store and the refinement of `WriteBehind` | TLAPS |
| `Connection` | session, reconnection and API calls | `session`, `session_calls` |
| `KeyAgreement` | abstract handshake: which keys a secret may be made of | `handshake_overlap` (refinement) |
| `E2EHandshake` | both ends of the handshake with settings, page, chat and calls | `handshake`, `handshake_overlap` |
| `E2EHandshakeProofs` | the refinement of `KeyAgreement`, confirmed secrets, kept keys, the agreement of the ends | TLAPS |
| `AccountEncryption` | migration of the files of an account to a key and back | `encryption` |
| `AccountData` | files with copies in memory, and the pages that select and unlock accounts | `account_data` |
| `AccountProofs` | files that can be read, through a migration; copies, updates and the account that is shown | TLAPS |
| `MessageStore` | chunks of messages over pending, flying and flushed files | `messages` |
| `MessageStoreProofs` | the limit of the chunks, and that messages are kept | TLAPS |
| `CallSession` | call service, call sessions and call screen | `calls` |
| `CallSessionProofs` | ended sessions and the call screen | TLAPS |
| `MediaPool` | pool, loadings, players and canvases | `media` |
| `MediaPoolProofs` | what is held, players and their owners, what plays | TLAPS |
| `ChatList` | window of messages over files, server and pushes | `list` |
| `FrontEndProofs` | invariants of the session; what the list shows, and that it has no gaps | TLAPS |
| `Contacts` | batches of contacts and the stores of contacts | `contacts` |
| `ContactsProofs` | who is asked for, who is served, the newest version | TLAPS |

Each `MC...` module adds symmetry and constraints for TLC and nothing else.

Conventions.  An action is what runs between two awaits, or between two accesses
to shared state of a thread in Rust.  Variables named *history* in their comments
are read by no guard.  In most modules one of them, `upset` or `missed`, collects
*irregularities*: interleavings on which the code does not keep its promise.  The
properties except them by name, so that a property says: this holds unless one of
these named things has happened.  Section 5 lists what they are in the code.
`TypeOK` of every module documents the values of its variables, and is proved of most
modules along with the rest.  No run spends time on it.  `AccountData` and `ChatList` have names of their
own (`DataInit`, `ListSpec`) where the other modules have `Init` and `Spec`, because
their proofs stand in one module with those of `AccountEncryption` and `Connection`.

### CoalescedStore

The contents of a file are the number of the save that produced them.
`pending` and `scheduled` are the two static maps.  `caller[c]` is a thread of
`save_coalesced`, between its two lock regions or outside them (`Insert`,
`Schedule`).  `task[p][v]` is the flush task that save `v` of file `p` spawned:
sleeping, holding contents, or about to look at both maps (`Take`,
`DropPending`, `Open`, `Fill`, `Finish`, and `FailWrite` for an error).  A write
is two steps because `fs::write` truncates first; a truncated file reads as
absent, since it does not decode.  `Load` is an operator: `load` changes
nothing.  `Clear` is `clear_local_messages`, `Crash` the end of the process.
The history variables `newest`, `flushed` and `lost` exist for the properties
only; `lost` names every way in which the code gives up the last save of a
file: a failing write, a restart, a clear, and `save_direct` dropping what
arrived since the task took its contents (`storage.rs`, lines 144 to 146).

The write of a file is left free to start at any time after the sleep: no
clock is modelled.  The cipher and the listing of directories are left out.

### Connection

A function whose promise has settled runs before the next event (`Ready`), as
microtasks do; commands answered by the back end, timers and `max` events are
events (`Event`).  Awaited reads of the account store are events of their own
(`"account"`), which is why a logout can come between the start of `init` and its
check.

- `connected`, `synced`, `pending` (`synchronizedPending`), `recent`
  (`latest_init` is under three seconds old), `user`, `account`: the flags.
- `agent[a]`: the callers of `init`: the body of `reconnect()`, the account page and
  the invocations of the `currentUser` subscriber; `own` says that the agent
  began the init itself, `res` what it was told.
- `init`, `sync`: the bodies behind `this.initializing` and `this.syncing`.
- `call[c]`: an API call: in `waitSync`, on the wire, or in `restart`; `sent` counts
  how often the command was sent.  `Fetch` is the contacts request made within
  `sync`, `Bye` the one made by `logoutAccount`.
- `link`, `authed`, `closing`, `hangup`: the client and what is on its way from and to
  it.

The body of a shared call that returns before its first await resets the field
before the field is assigned, so the settled promise stays: this is `"latched"`.

`missed` is a history variable: since `init` was last invoked, the session was
broken while the news of a success was on its way, or the client was used
without a change of flags, or the sync under way is older than the init.

Left out: the requests of `sync` for telemetry chats and folders (awaited like
`Fetch`, which stands for them), logging out when sync throws an error that
names the token (`invoke` returns errors, so it is not reached), the subscriber
before the account is known (the same calls), and the growth of the delay.

### E2EHandshake and KeyAgreement

A key pair is named by its owner and a number, and the secret of two pairs is the
set of both.  `stored[p]` are the settings of the chat in the back end of `p`, with
`pending`, the session and the archive; `page[p]` is the page's copy of them, and
`writes[p]` the calls of `set_chat_settings` on their way.  `job[p][s]` is an
activity: each of the commands `init_e2e_handshake`, `accept_e2e_handshake` and
`process_e2e_accept` loads the settings (`InitLoad`, `AgreeLoad`, `ProcessLoad`) and
later saves them (`...Save`); the page then reads them (`Get`), changes and stores
them (`Set`) and sends its message.  `Check` and `Handle` are
`checkForEncryptionRequest`, which looks at a message of the chat, any one of
those ever sent: the page decodes what it is pushed, what it loads and what it
shows again.  `CallOffers`, `CallClears`, `CallHears` and `CallAgrees` are the secure
mode of calls, which does the same past the page.

`KeyAgreement` knows only which keys were offered, which were sent as answers and
which secrets each party has had.  It allows an answer only with a key of its own,
one that serves no other secret, and a confirmation only by a key that was
offered with one that was sent as an answer.  `AgreesOnKeys` maps its `answered` to
the accepts in the chat.

Left out: the ciphers, the numbers that users compare, and the decryption of
messages with the keys.

### AccountEncryption

A key stands for a pattern with its salt.  `disk[f]` is the key a file is encrypted
with.  `set_encryption` is a job that lists the files, starts threads
(`StartWorkers`), waits for all of them (`Join`), stores the entry of the account
and opens the key.  A thread looks at `error_slot`, takes a file, reads and
replaces it (`TakeFile`, `ReadFile`, `ReplaceFile`), or fails.  A file that is
encrypted already is skipped, with whatever key (`Skips`).  Meanwhile other commands
save files with the key they asked for earlier (`BeginSave`, `EndSave`),
`decrypt_account` opens a key, and the process may end.

### AccountData

Five files with the same pattern of reading, changing and writing, each with the
order that its code has: the metadata drop their copy after the file is written,
the settings replace it after, the index before, a chat and a key-value storage
have none.  `Read...` are the five ways of reading, `Fill` makes a copy, `Insert` and
`Remove` change it.  Settings and index are saved in `pending` (`Save`) and reach the file by
the five steps of `Flush`; the other files are written by the command, which truncates them
first (`Open`, `Write`, or `Fails`).  A command on the index that finds the media file of an
address gone removes the address (`"prune"`, from `get_cached_file`).  Contents are sets of updates;
`0` is what was there from the start.  One account is open at a time; what is
encrypted with another account's key reads as empty.  The pages select an account
(`Select`), unlock it and look again (`Enter`), by what `account_get` says.

A flush takes what is pending (`FlushTakes`), drops what was saved since (`FlushDrops`, the
first lines of `save_direct`), truncates and fills the file (`FlushOpens`, `FlushEnds`), or
fails (`FlushFails`).  The history variable `lost` names the files of which a save was
dropped, failed or was unwritten when the process ended, or which were read while the
flush had them in hand.  That one task flushes a file at a time is what
`CoalescedStore` shows, and is taken from there.

### MessageStore

A message is its time, and whether it is marked as deleted.  A file is on `disk`,
`flying` (its flush has taken it, and `step` says how far it is) or `pending`; it is listed only
when on disk, empty or not.  The flush has the same steps as in `AccountData`, and the day of a
save that it drops or fails to write joins `upset`.
`update_messages` goes through the chunks of its day one by one (`Scan`, `Save`),
fills the last one and begins new ones (`LookForRoom`, `Fill`, `NewChunk`);
`mark_message_deleted` and `remove_message_from_storage` look for the chunk of their
message and change it (`Missing` when it is not found); `load_messages` goes back
from the last chunk until it has enough (`LoadFile`).  `Clear` is
`clear_local_messages`.

### CallSession

`session[s]` has the role, the microphone, the channel and the peer connection of
a `MaxCallSession`; `flow[f]` is an operation of `CallService` at an await.  The
microphone, `begin_call` and the connection are awaits after which the operation
goes on with the session it had, whatever has become of it.  `timers` are the
pending resets of the screen.  `Connection`/`GoesOn` and `Signal`/`SignalEnds` are
handlers of the channel with an await inside.

### MediaPool

`pool` maps addresses to entries, `entry[e]` counts its consumers, `load[s]` is a call
of `_load` and `video[s]` the player that it made.  A loading keeps its entry,
whether or not it is in the pool still.  Canvases attach, detach, appear and
disappear; `TimerFires` is the eviction, `Purge` drops safe avatars, `Render` is a
frame of the loop, which goes on only while a visible video plays.

### ChatList

A message is its time; its contents are the number of its edits and whether it is
deleted.  `pushes` is the queue of events, in order; answers to requests (`older`,
`newer`, `sending`) come on their own.  The page of the files is read (`ReadFiles`) and merged
later (`Cached`), and so are those of the server: their answer is computed at a
moment of its own (`AnswerOlder`, `AnswerNewer`) and merged by `MergeOlder` and `MergeNewer`.
The files may be behind, as `update_messages` may be under way or its save lost.

A draft (`sending`) is in the list under the time at which it was made.  The subscriber of
`receivedMessage` refuses it, since it has no `chatId`, so that it changes no flag; the answer
(`Sent`) does.  A send may fail before or after the server has the message (`NotSent`,
`SendFails`): the draft then stays (`unsent`).  Drafts count as messages when older or newer
ones are asked for.  `ListInit` replays the last event, as a Svelte store does for who subscribes:
its key is kept, and an edit is not shown.  Left out are messages that were deleted before the
chat was opened.

### Contacts

What a contact says is its version on the server.  `Ask` is `getContact` of a view:
it opens the store of the contact and, if it is not known, looks it up in the list
(`ReadList`, `ListArrives`) or adds it to the batch.  `Send`, `Served`, `Answer`, `Fail` and
`NextChunk` are the requests of a batch, of which several may be under way.  `Sync` is the
server's answer to a sync, `Synced` its arrival, after which `syncContacts` asks for
the members of dialogs that the list does not have, by requests of the same form; these leave
`pending` and `failed` alone when they fail.  `Hear` is a push.  `Update` is what all
of them do with a store: it is opened by reading the file or asking the server
(`Read`), shows the answer (`Opened`) and from then on saves what is set (`Saved`).

## 3. Runs

| Run | Constants | Distinct states | Question |
|---|---|---|---|
| `store` | 2 files, 2 threads, 2 saves each, faults, fairness | 35,000 | are maps, tasks and files consistent, does it implement `WriteBehind`, does every save settle? |
| `session` | no caller, 1 fault, 3 moves | 888,000 | are waiters served and flags true, does the loop go on, whatever the user does with accounts? |
| `session_calls` | 1 caller, 2 faults, 1 move, fairness | 105,000 | does every call return, after three sends at most; does the loop get through? |
| `handshake` | 3 key pairs, 1 activity of each end | 962,000 | do the ends agree, are secrets kept? |
| `handshake_overlap` | 2 key pairs, 2 activities of each end, calls | 986,000 | which keys can a secret combine, does the other end have it? |
| `encryption` | 3 files, 2 threads, 1 saver, 2 keys, fairness | 507,000 | can every file be read, does the command end? |
| `account_data` | 2 accounts, 5 kinds of files, 2 threads, 2 updates | 1,070,000 | are updates kept and copies right, is what is shown open? |
| `messages` | 4 messages of 2 days, chunks of 2, 2 threads, 2 writing commands | 1,370,000 | is every message in one chunk, do pages get the newest? |
| `calls` | 2 sessions, 2 operations, 2 incoming calls | 3,590,000 | are ended sessions off, does the screen tell the truth? |
| `media` | 2 addresses, 2 canvases, 2 entries, 2 loadings | 3,330,000 | is what is held kept and shown, are players stopped and started? |
| `list` | 3 messages, pages of 2, 2 edits of one, queue of 2 | 6,300,000 | is the list complete and current? |
| `contacts` | 2 contacts, chunks of 1, 2 requests, 2 versions | 2,900,000 | is each asked for once, is who asks served, is the newest kept? |

*Bounds.*  Two saves of each file let one be on its way to the disk while the next
arrives; a third made no difference in instances of 300,000 states (symmetric,
without liveness), and the proofs are for any number.  Two files show that they
do not interfere.  A fault is a broken, refused or timed out request; a move is a
login, a switch, a logout or a removal.  A request over a connection that is
already gone fails without counting as a fault, so one fault allows a break and
the failures that follow from it; two allow a break during the recovery from a
break.  Three moves are a login, a logout and a switch before the logout is over.
One call is enough where calls only wait and fail; that calls with a key of their
own are not disturbed by others that share one is proved.  The retry limit of the
code is not a bound of the model.  Three key pairs allow an offer, a second one and
an answer, or two offers and an answer to one of them; two are an offer at each
end, or an offer and its answer, with twice as much overlap.  Two chunks of two
messages have a full one, one with room and a new one; four messages of two days
show that days do not interfere.  Two sessions are a call and the next one, which
is what timers and late awaits confuse.  Two loadings are an entry and its
successor, or an entry that is loaded twice.  Three messages in pages of two are a
full page and one that is not; two edits of one message have the same key.  Two contacts asked
for one at a time make a batch of two requests, and two batches, or a batch and a sync,
overlap.  Two updates of a file of which one was there from the start reach the limit of two
keys of a storage, and let a flush drop the second.

*Constraints.*  `NotStale`, `Regular` and `Calm` stop at states in which the properties
of their run have ended, apart from two that go on: `ShownIsOpen` is checked only as
far as `Regular` states reach, and `ChunkFits` only where commands for one day do
not overlap, beyond which the theorem `NoChunkOutgrows` takes it.  `Regular` also keeps to the metadata and one other kind of file in a
behaviour, as files do not depend on each other, and to one update of the index; `Calm` to one file
at a time in the hands of its flush.  `Bounded` of the list allows one draft, which no page
overlaps once something has changed, no draft that failed once something has changed, and a
second edit while no page is loaded; `MCInit` begins with files that have the message that
changes if they have any, and leaves out the replay of a message just sent.  `Bounded` of
the contacts allows one sync, which brings contacts that are followed, while the list is not
being read, and no file of the others.  The theorems have none of these constraints.  `JoinsAlone` checks conferences
without incoming calls and overlap.  States that a constraint excludes are
checked too; only their successors are not.

*View.*  `handshake_overlap` does not tell states apart by `upset` (`AllButUpset`): no
guard reads it, and neither does a property of that run.

*Symmetry.*  Runs with a liveness property have none.  Elsewhere, threads, parties,
activities, canvases, loadings and calls are interchangeable; sessions are not,
because their number is the order in which they begin.

*Deadlock.*  It is checked except for the session, which comes to rest when the
bounds are used up or hangs for good (section 5), and for the handshake and the
list, which come to rest when everything was said and loaded.

*Fairness.*  The store assumes weak fairness of a thread inside `save_coalesced`
and of each step of the flush task, which the operating system and the runtime
give; the encryption assumes the same of its threads and of the command that waits
for them.  The session assumes strong fairness of its own steps and of each call:
timers fire, commands are answered, events are delivered.  It is strong because
a step waits while another function is ready to run, which disables it for a
moment, and the event loop does come to it.  No fairness is assumed of faults,
of users, of the `online` event or of the three-second timer.  The bound on
faults says that the network stays up in the end, without which no loop connects.

*Mutants.*  Each property is shown to depend on the code by a definition that
changes it as a plausible bug would (comment "Mutant of"); `PROJECT.json` names
the run and the property which it breaks.

## 4. Proofs

All theorems hold for every value of the constants that satisfies the
`ASSUME` of the module, and use nothing else.

*Store* (`CoalescedStoreProofs`).  `StoreInv` strengthens the properties by three
facts.  The scheduled paths are those with a task (`ScheduledHasTask`), without
which "one task" is not inductive, because the decision to spawn looks at the set
only.  What is pending is newer than what is in flight, and that is newer than
what was written (`InOrder`), from which the refinement follows.  A save that is
not lost is pending, in flight or on disk (`Accounted`), from which freshness and
durability follow.  `StoreRefines` shows that `Insert`, `Open`, `Fill` and `Clear` are the
abstract `Request`, `Truncate`, `Write` and `Remove`, and every other step a stutter.

*Session* (`FrontEndProofs`).  `SessionInv` has three groups, each inductive
given the types:

- *who will settle it*: `ToldIsResolved`, `WaitsForWork` and `NoStrandedWaiter`.  The
  invariant alone is not inductive, because one that ends relies on what it was
  told: a loop that was told of a failure leaves `pending` only if the failure
  settled it or somebody else is at work.
- *what the flags say*: `AnsweredLive`, `WireFresh`, `SyncFresh`, `SuccessIsReal` and
  `NoPhantom`.  They follow the success of `init` from the client to the page and to
  the loop, and that of `sync` likewise.
- *how often*: `RetriesCounted` ties the number of sends of a call to its entry in
  `inflightRetries` at every place the call can be in, from which the limit of three
  follows, also for a call next to others that share a key.

The action property `LoopKeepsOn` follows from the invariant and the lemma that
only `LoopTurns` ends the loop.

*Messages* (`MessageStoreProofs`).  `ChunkFits` speaks of the files only, and a save
keeps it because of what the command holds.  `ChunkInv` adds that: the chunk that a
command has changed fits, the chunk that it fills has room, and it fills with no
more messages than there is room.  The lemmas below it say that the first n of a
finite set of numbers are at most n, that a set of files has a first and a last
one, and that marking, removing and merging do not add messages.  The assumptions
are that messages are finitely many and have the day as a number.  The proof takes
commands for one day that overlap, which the run leaves out.

`StoreKept` speaks of a day at rest, so `StoreInv` says of a day on which one command
is at work how far it has come: a message it is done with is in exactly one file with
its new mark, one it will add at the end is not stored yet, and every other message of
the day is as it was stored (`Stands`).  To go from there to the next step it needs what
the command has seen and that this is still so (`Sees`): it holds the current contents
of the chunk that it is about to save, the chunks it has been through do not have the
message it looks for, and beyond the last chunk there is none.  All this is claimed for
days not in `upset` only, so most of the proof shows for each step that it either leaves
a day alone or puts it there.  A reader changes nothing, and a flush no contents that a command
would read, save where it puts the day into `upset`: when it drops a save, or fails without
a newer one.  While a file is truncated, what counts is in flight or pending (`Newer`), and a command
that loads it then is one that `upset` names.  A restart changes only days that it
puts into `upset`.  It is assumed that `None` is no contents of a file.

`LoadsNewest` speaks of an answer, so `ReadInv` says what a load has on its way there
(`ReadSound`), as long as nothing disturbed it: the files that it is through with come
after all that it still has to read, what it has is what is in them up to its time, in
order if the chunks are, and less than a page.  When the page is full, nothing that it
left out is newer than what it has (`UpIn`), from which counting gives the answer that
the property describes.  The two other facts are that a load which is not disturbed sees
the contents that a flush will leave, and, from `StoreInv`, that these are what is
stored.  A page is taken from the messages of a chunk in their order (`Ascending`, the
order that `update_messages_sync` saves them in); that finite sets of numbers have one is
a lemma.  It is assumed that a later time is not of an earlier day.

*Handshake* (`E2EHandshakeProofs`).  `HandshakeInv` says whose keys are where: what is
pending in any copy of the settings was offered (`SettingsOwn`), a message and an
activity hold what was offered or agreed on (`MessagesHonest`, `JobsSound`), a key that
is generated is new, and that of an answer serves for one secret (`AnswersFresh`,
`KeysMade`).  From it follows, step by step, that the handshake implements
`KeyAgreement` (`HandshakeRefines`), however settings are overwritten and messages
repeated.  `ConfirmedIsHeld` is not inductive: it needs that a secret with an offered
key was made from an answer to some offer of that end (`Confirmed`); if the end made
one offer only, it was that one.  `KeysStay` needs that nothing which is about to be
stored has lost a key (`WritesKeep`).  The module assumes that there are two parties.

`EndsAgree` says of two sessions that exist that they are the same, which says nothing of
how they come about.  `Agreed` adds that.  A secret is made of an offer that was sent, and
is first held by the end that got it (`Deals`); an offer makes one secret (`DealtOnce`).
Call what an end offered last, and has no answer to, *open*.  While an offer is open its
owner has no session, from when it was stored on (`OpenRests`); the other end has the session
that the answer will confirm, or none any more (`OpenMet`); and not both ends wait for
such an answer (`OneSided`).  So an answer that is processed finds the key it belongs to
(`PendingOpen`), and makes the session that the other end has, if it has one.  Each
irregularity in `upset` is one that a step of this argument cannot do without.  That
an offer is not sent before it was stored is an invariant of its own (`OffersOnce`).
An earlier `Agreement` spoke of ends at rest and had two weaker exceptions; the run
found nothing against it, but the proof did not go through, and an instance with
four key pairs and two activities then showed why (20 and 21 in section 5).

*Encryption* (`AccountProofs`).  `Readable` holds during a migration because
each file is still to do, in the hand of a thread or treated (`Migrated`), because a
thread only ends when nothing is left (`AllTaken`), and because the entry of the
account follows the files (`EntryFollows`).  The code has at least one thread
(`clamp(1, 16)` in `storage.rs`), which is assumed: without one, all threads would be
done at once and no file treated.

*Account data* (`AccountProofs`).  `ShownIsOpen`, `UpdatesKept` and `CopyFits` follow from an
invariant of three parts.  `LooksInv`: the metadata are encrypted, so whatever of them was
read, copied or filled in is of an account that is open or was open before another
(`Seen`), and so is the account on the page that has looked.  `UsersInv`: unless a kind
of file of an account is in `overlap`, one command at a time uses it (`OneUser`), and chats
and storages have no copy.  `FilesInv` speaks of the pairs of kind and account that are not in
`overlap` or `lost` and whose account is not in `closed`: what is on disk, in flight or pending is
encrypted, the last of them holds what was saved, and, while no command uses it, the copy is absent or the same (`Near`; a copy
of the metadata may be the empty view of a locked account).  Steps of a flush either keep the last
contents of the file or put it into `lost`.  With a command at work,
`Works` says for every step it can be at what it holds against the file and the copy.
It is there that the five orders of reading, changing and writing differ.
`CopiesEased` and `CommandFits` say what the steps of other commands and of the
pages may do to a copy.  It is assumed that the metadata are among the kinds of files,
as the pages decide by them.

*Message list* (`FrontEndProofs`).  `ListInv` has six parts, each of which rests on those
before it.  `OnlySent`: what is shown, stored, announced or answered was sent.
`QueueInv`: the announcements are in the order of the messages and reach up to the newest
(`UpToNewest`), no message is announced twice, an edit or a deletion that a push does not
tell of comes later in the queue (`AllTold`), and a message that is being sent is announced, or the page was
told of it (`Waiting`).  `KnownInv`: nothing shown, stored or answered is
newer than what the server has.  From these follows `FreshInv`: what was told is current or
its last change is on its way, and the same of an answer that waits to be merged, so
that merging it does not undo a change.  A page of the files that was read promises less: it
has no more than the server had (`ReadKnows`), and merging one that is older than the list is
the irregularity `"stale"`.

`ListComplete` speaks of a list at rest, so `GapInv` says how far it reaches while calls are
under way.  `FlowInv` first says which calls there can be: a page on both sides of a position
is only asked for while the chat opens, and newer messages only after that.  While the
end is being loaded, everything from the time asked for on is shown or announced
(`ShownFrom`), and the answer adjoins that time (`Below`).  Newer messages are asked for
from a message that is shown, and older ones from one that is shown or from a draft below which
nothing is missing (`Adjoins`); the answer adjoins it, without a gap and complete if
it is short (`OlderInv`, `NewerInv`).  While there is a draft, the list reaches the end, and what was sent
after the draft is shown or announced (`DraftInv`).  A window at the end of the history reaches every
message that is not announced or below it (`Reaches`), another has no gap (`NoGap`).  When all
older messages count as loaded, each message has one shown at or before it, or is announced
(`Grounded`).  The lemmas about `Before`, `After`, `Min` and `Max` that this needs come from the
well-foundedness of the numbers.  Each of the six exceptions of `ListComplete` is one
that a step of this proof cannot do without.  It is assumed that `None` is none of the values
that it stands beside.

*Contacts* (`ContactsProofs`).  `QueueInv`: what is in the batch or in a request is
pending or known, and what was asked for is no longer left to ask for, so that
`AskedOnce` survives the end of a request.  `NewsInv` follows a version from the server to
the answer of a batch or a sync (`AnswerNew`), and from there to the store and the disk (`StoreNew`).

*Calls* (`CallSessionProofs`).  `SessionsInv`: a session that waits for its microphone has
no channel yet and is begun by one operation (`Opening`), and destroying a session
closes what it has (`Off`), also when a handler is under way (`Handled`).  `ScreenInv`
puts the four properties of the screen together with what they rest on: one operation at
a time begins a call (`OneCall`), the screen is on while the server is asked (`AskedShown`)
and does not show an end then (`AskedAfter`).

*Media* (`MediaPoolProofs`).  `Counts` relates the count of an entry to the number of
canvases that hold its address.  It has two halves, since a purged avatar is made
anew without those that held it: the count is at most that number, and equal to it for
every other address; so the timer never evicts what is held.  `OneLoad` says that, as
long as none was begun twice or outlived its entry, one loading is active for an
entry, that the entry is in the pool, and that its player is the source of the entry.
`NoStrayPlayer` follows, and so does `ShowsOwn`, as the canvases that a loading tells are those
of a pooled entry.  `Sources` says that no two entries have one player, so that pausing one
leaves the other.

*Model-checked only.*  The liveness properties `EverySaveSettles`, `CallsReturn`,
`LoopConnects` and `JobEnds`: liveness under fairness is out of the prover's reach.

## 5. What the models found

These are states that TLC reaches and that the properties except by name.  No
doc, comment or test of the repository states the opposite.

*Session*

1. *Sync waits for itself* (`SelfWait`).  A contacts request within `sync` fails; `restart`
   awaits the reconnect, its loop awaits `init`, and `init` awaits the same sync
   (`MobileApi.js` 869, `invoke.js` 99).  The session hangs until the app restarts.
2. *Latched init*.  `init()` within three seconds of the last one leaves
   `this.initializing` set to a settled promise (445 to 449), which every later init joins.
3. *Latched reconnect*.  `reconnect()` without a user does the same to
   `reconnectPromise` (136 to 163): there is no loop from then on.
4. *Logout while offline*.  The account is forgotten first (709), and the loop which the
   logout request waits for throws for want of an account, for ever.
5. *Overlooked break*.  A `closed` event during the sync of a reconnect: `init`
   returns true and the loop ends without looking at `connected` again (150 to 154).
6. *Late sync*.  An answer that arrives after `disconnect()` sets `currentUser` again
   (829), or marks the next connection as synchronized.
7. *One client, two users of it*.  `logoutAccount` of another account (717 to 722) and
   `startAuth` of the login page (514) take over the connection of the client and
   leave the flags as they are; the subscriber then sees `sync` still set and
   does not synchronize the new account.
8. *Refused token*.  `invoke` removes the account and leaves `currentUser` set
   (`invoke.js` 53 to 59).
9. *Shared retries*.  Equal commands share a key, so the retry budget holds only for
   calls that have theirs for themselves.

*Store and messages*

10. *Dropped save*.  `save_direct` discards contents that were saved after the flush
    task took its own (`storage.rs` 145), and nobody is told of a write that fails (57).
    Messages, settings and the media index are all saved in this way: the second of two
    commands that do not overlap can lose its change, and the copy in memory then has what
    the file has not, until the next restart.
11. *Cleared messages return*.  `clear_local_messages` leaves `PENDING_WRITES` alone.
12. *New chunk overwritten*.  A second update within the 150 ms before a new chunk is on
    disk does not list it, and starts a chunk of the same name.
13. *Read in the middle of a write*.  Between the moment the flush takes the contents and
    the end of its write a load finds the file truncated, or the old one.
14. *Late history*.  Messages of a day that are loaded after newer ones go to later
    chunks; a page then stops at the chunk that fills it and misses newer messages.
15. *Commands for one day overlap*.  Each reads, changes and saves the chunk; one of two
    changes is lost.

*Accounts*

16. *Half-way encryption*.  `set_encryption` that stops at an error or with the process
    leaves files encrypted with a key whose salt is lost; the next attempt makes a
    new salt and skips them.
17. *Save with the old key*.  What was saved before a migration and is flushed after it
    cannot be read with the key of the account.
18. *Locked account shown as open*.  `select()` decides by a copied contact, which stays
    after another account was opened.  Its data then read as empty and are written
    back in the clear.
19. *Copy made too late*.  `get_chat_settings`, `account_get` and `get_cached_file` fill the copy
    with what they read before another command wrote.  An `account_get` that is under
    way during an unlock puts back the view of the locked account.

*Handshake*

20. *Glare*.  Both ends offer at once, each accepts the other's offer, and they end with
    different sessions.  It is enough that an end which agrees to an offer has one of
    its own that was not answered; it can even begin one after it has agreed, as its
    page shows no session until it has read the settings again.  The model therefore
    names an offer that is stored over a session an irregularity.
21. *Accept for an earlier offer*.  An accept is combined with whichever key is pending;
    after a second offer the two ends hold different secrets.  The same comes of agreeing
    to an offer that its owner has followed by another (only the owner could know), and of two
    offers of one end that are stored in the other order.
22. *Agreed twice*.  A second click before the first has finished makes a second session.
23. *Pending deleted*.  `enableSecureMode` deletes `pending` after it has sent the offer, so
    the accept is ignored.
24. *Stale settings*.  The page writes back its copy over what a command stored meanwhile:
    a session or an archived secret is lost.

*Calls*

25. *Microphone left on*.  A call that is hung up while `begin` waits for the microphone
    goes on and opens it.
26. *Timers of the call before*.  The reset 320 ms after one call hits the screen of the
    next; a session that still tells its end (600 ms) ends behind a new call.
27. *Two calls at once*.  The failure of one hangs up the other; declining a second call
    ends the first.
28. *Handlers of a dead session*.  A session destroyed in the middle of `#onConnection` or
    `#processRemoteSignal` shows its call again.

*Media, list and contacts*

29. *Second player*.  An entry that is attached again while it has been loading for long is
    loaded twice; the first player stays for ever.  An entry that is evicted while it
    loads leaves a player, and tells canvases that hold something else by then.
30. *Frozen video*.  A video that comes back within a second of its last start is not
    started again.
31. *Pages that do not adjoin*.  Cached pages and pages after a jump are asked for from now
    on; merged with an older window they leave a gap that counts as loaded.  So do a
    message of one's own below the window, a message that overtakes the last page,
    and an empty list.
32. *Second edit*.  Two edits of a message in a row have the same key; the second is not
    shown.  A page of the files or of the server, or the answer to a send, that was computed
    before a change and merged after it undoes the change.
33. *Answer over news*.  What `get_contact` finds while the store is opened overwrites a
    push that came meanwhile, which is never saved.  The contacts of a sync, or of a batch,
    that the server computed before a push and the page merges after it do the same.
34. *Asked for nothing*.  Pushed contacts are not known to `caching.js` and are asked for
    again; the list of cached contacts, once read, replaces those pushed meanwhile.

## 6. Not modelled

`PROJECT.json` lists every component with its status, and every hazard with the
properties that cover it.  Left out for good, as data or I/O: ciphers and
obfuscation, message formats, rendering, conversion of files and media, the web app
proxy, notifications, the mock.  The engine of a call (`webrtc_engine`,
`NativeRustPeerConnection.js`) drives a library whose state is not ours.  Plugins run
the code of others.  Reactions, stickers and playback are stores of single views.
The wire client is external and appears as what the session sees of it.

Within the modelled parts: conferences, video and screen sharing of a call, the
phrase that recovers a key, plugin storage (the same pattern as that of web apps),
and the commands over the list of accounts, which is one more file that is read,
changed and written.

The share of the source that definitions are mapped to is small, because most of
the source is user interface and formats.

## 7. Plan

1. Done: the modules of section 2.
2. Done: theorems for every safety property that a run checks (section 4).
3. Where more could be modelled: the conference part of calls, the plugin runtime's
   clean-up, and playback.
