# Verification of hyprnotice

hyprnotice is a notification daemon: a D-Bus server that keeps every notification it accepted in a
store, shows some of them as popups, and lets an inbox client (`hyprnotice-ctl`, a picker) act on
them later. This directory holds TLA+ models of it, checked with TLC and, where it matters most,
proved with TLAPS for every value of the constants.

## Inventory

| Component | Source | State | Operations | Correct when |
|---|---|---|---|---|
| Notification store | `src/src/core/NotificationStore.*`, `Notification.hpp` | `m_nextId`, `m_byId`, `m_dnd` | `accept`, `close`, `demote`, `get`, `setDnd`, `snapshot`, `saveToDisk`, `loadFromDisk` | ids are fresh; an entry stays until it is closed; a restart keeps the inbox; a crash loses at most what is newer than the last save |
| Freedesktop service | `src/src/dbus/NotificationsService.*` | none | `Notify`, `CloseNotification`, signals `NotificationClosed`, `ActionInvoked` | an application's handle ends by exactly one announced close; only live handles are invoked |
| Inbox service | `src/src/dbus/InboxService.*` | none | `List`, `Invoke`, `Dismiss`, `DismissAll`, `SetMode`, `GetMode`, signal `Changed` | whoever re-lists on `Changed` is never out of date |
| Popup manager and windows | `src/src/ui/PopupManager.*`, `PopupWindow.*` | `m_popups`, each window's `m_notif` and `m_autoCloseTimer` | `onAdded`, `onUpdated`, `onClosed`, auto-close, button click | one window per VISIBLE entry, with its present content; the right countdown on each |
| Config | `src/src/core/Config.*` | `m_config`, `m_current`, `m_path` | `load`, `cacheValues`, `matchRule` | a reload takes effect; an app gets the first rule of the file that names it |
| Theme | `src/src/core/Theme.*` | `m_colors` | `reload`, `get` | colors are those of the sheet the config selects |
| Main loop | `src/src/main.cpp` | `g_reloadRequested` | start, SIGHUP check (500 ms), save (10 s), final save | no SIGHUP is lost; a clean stop saves everything |
| hyprnotice-ctl | `src/cli/main.cpp` | none | one bus call per command, `mode` makes two | every command ends; toggles count, whoever else sets the mode |
| Image encoding, helpers, installer | `ImageEncoding.*`, `helpers/`, `vendor/`, `install.sh` | none | | |

How they interact: D-Bus calls and clicks call the store; the store emits `added`, `updated`,
`closed` (and `modeChanged`) synchronously to its listeners, in the order in which they
subscribed (freedesktop service, inbox service, popup manager); the popup manager calls back into the store (`demote`) from
within `added`, and a popup's timer does so later. Everything runs on one thread, that of
hyprtoolkit's loop; only the signal handler interrupts it. The file is shared with the next run of
the daemon, the config files and the color sheet with the user.

What is hard: the order in which the loop serves calls, clicks and due timers; a replacement that
meets an entry in any of its states (new, on screen, in the inbox); windows that follow the store
only through events; the id counter's wrap; a crash at any point of a save; a write that is cut
short, at any character; signals and edits in the middle of a reload; messages that cross on the
bus, so that what a client believes is out of date when it acts. `PROJECT.json` lists each hazard at its line
with the property that covers it.

## Modules

| Module | What it is |
|---|---|
| `Notifications` | The data: ids, requests, entries, and the pure effect of each store operation on the map. |
| `NotificationDaemon` | One run of the daemon: store, three listeners, windows, countdowns, config. The core. |
| `ActionRetention` | Abstract: what applications may rely on. Implemented by `NotificationDaemon`. |
| `DaemonClaims` | Claims of docs and comments that the daemon does not keep. |
| `NotificationStore` | The store over many runs: save, rename, crash, load. |
| `CheckpointedInbox` | Abstract: atomic checkpoints and recovery. Implemented by `NotificationStore`. |
| `BusClients` | The daemon composed with its clients: applications, an inbox picker, hyprnotice-ctl. |
| `SavedDocuments` | What `store.json` says: a document, what a load makes of it, what is left of one that was half written. |
| `StoreFile` | The text of `store.json`: writer, parser, every truncation. |
| `ConfigReload` | SIGHUP, the reload check, config and theme files edited at any moment. |
| `ConfigValues` | Pure: from the text of both files to values, rules and colors; `matchRule`. |
| `NotificationsTheorems`, `NotificationDaemonProofs`, `NotificationStoreProofs`, `BusClientsProofs`, `ConfigReloadProofs` | Theorems and proofs, each about the module it is named for. |
| `SequenceInduction` | Lemmas: induction over the numbers, recursive functions, sequences, `FlattenSeq`. |
| `StoreFileReaders`, `StoreFileProofs` | What the readers make of one written string or number; then the whole document. |
| `MC*` | Instances for TLC. |

Operators named in a comment as *seeded fault* are mutated forms of a definition, used to show
that a property can fail; no specification refers to them.

### NotificationDaemon

A handler is one step, because nothing interleaves with it: `Notify*`, `CloseNotification`,
`Dismiss`, `DismissAll`, `Invoke`, `SetMode`, `ButtonClick`, `TimerFires`, `ReloadConfig`. Each
includes what its listeners do: a `Notify` under DND inserts the entry, emits `added`, and within it
is demoted and emits `updated`. `Notify` is split by what the code branches on: the replaced id is
live (`NotifyReplace`); DND is on (`NotifyUnderDnd`); the app's rule skips the popup
(`NotifySkipped`); otherwise (`NotifyShown`). `rid` ranges over 0 and all ids, so a stale
`replaces_id` makes a new entry, as in the code.

A window is what it shows, its text and one button per action. A countdown is *running*, then
*due* (`Elapse`), then its callback runs (`TimerFires`); every handler may run in between. A
cancelled timer's callback does not run, even when it was due: that is how hyprtoolkit's
`CTimer::cancel` is used here. `DismissAll` and `Invoke` follow the code's order, guard first, then
`ActionInvoked`, then `NotificationClosed`. `signals` holds what the last step sent.

`config.rules[app]` is the first rule that matches the app, `None` where it sets no timeout; that is the result of `matchRule`, which
`ConfigValues` models. Image data, sender and time stamps are left out:
no handler branches on them. So are layout, colors and icons.

`Init` is any store a load can leave: INBOX entries below the counter.

The bound `IdAvailable` keeps the counter from reaching an id that is still in the store, unless
`AllowIdReuse`. `IdsStayFresh` (proved, below) says that it does not do so before it wraps at 2^32.

### BusClients

Composes `NotificationDaemon` with the programs that talk to it; every step of the whole is a step of
the daemon or leaves it alone (`DaemonStep`, proved). A call is made in one step and served in a
later one. What the daemon sends to one connection is a queue, read in order and at any later time;
the signals of one handler count as one message. Connections are the applications (one for all),
a picker and one per run of hyprnotice-ctl.

The picker and the applications are not in this repository. The picker is the one `InboxService.cpp:32`
has in mind: it subscribes, lists, and lists again when it reads `Changed`, unless a `List` is
still unanswered. That is enough: a `Changed` read before the answer was sent before it. The
applications keep a set of handles: an answer of `Notify` adds one, `NotificationClosed` removes one.

`Plan` is the calls hyprnotice-ctl makes for a command; an id is truncated as the cast in
`main` does, and a command without a number ends before it calls anybody. `PickerCatchesUp` and
`CommandsEnd` say that the daemon answers, whatever the call. `toggles` is a history variable.

### NotificationStore

The same operations without windows, over many runs. `saveToDisk` is two steps, `WriteTmp` (open,
write and close `store.json.tmp`) and `Rename`; no handler runs in between (`pc` is `saving` or
`flushing`). The process may die between them, and in the middle of the first one: `Crash` then
leaves any part of the text in the temporary file, `Torn(Image)`, which the next run finds there and
may find there for several runs, until a save opens the file again. `Stop` is SIGINT, SIGTERM or the
end of the compositor; the final save follows. `Start` is a new process and `loadFromDisk`. Faults
are a constant: `crash`; `open_fails` and `short_write`, which nobody notices since the stream's
state is not checked, so that the rename installs an old temporary file or part of a text;
`rename_fails`, which is logged and tried again by the next save. A text cut right before a number
makes `parseInt` throw out of `main`: file `Broken`, action `StartAborts`. That a whole text comes
back exactly, and that a cut text is read as `Torn` has it, is what `StoreFile` checks. The counter
stops short of the largest id (`CounterInRange`). A logout, which wipes `XDG_RUNTIME_DIR`, is left
out.

### StoreFile

`Written` is what `saveToDisk` sends to the stream, a sequence of characters (the name of a field
counts as one, and `text` stands for icon, summary and body, which are treated alike). The parser
is a machine: the variable `loop` is the innermost of the four loops of `loadFromDisk`, one step is
one iteration. A seventh field would show nothing new, but escapes, signs, two-digit numbers and
commas inside strings are all there. The characters of strings (`Chars`) and the documents (`Saved`)
are constants; of a document it is assumed that its ids are distinct, being those of a map, and below its
counter (`IdsBelowNext`, proved of `NotificationStore`). What a loop inside a reader does is a recursive function of the position. `Init` is
any prefix of any document, also the empty one, which `loadFromDisk` returns from before the parser; here
the loops end at once.

`TornIsKnown` ties it to `NotificationStore`: a prefix is read as nothing, or as the saved
counter with some of the saved items, one of them cut; `Cut` is the definition `Torn` uses. An exception of
`std::stoll` ends in `thrown`, the file `Broken` of `NotificationStore`. What a cut can leave of a number is
`Leading`, its first digits, and of a string `Pieces`: its first characters, and of the escape of the next a
backslash or some digits of its code. `PiecesAssumption` says that these are texts and timeouts too,
since `Apps`, `Texts` and `Timeouts` are to hold whatever the daemon can be left with.

### ConfigReload and ConfigValues

`Check` is the 500 ms test-and-reset, `LoadConfig` and `LoadTheme` the two calls after it; `Sighup`
and edits may come between any two. `bound` is the path `m_config` was constructed with. What
`Hyprlang::CConfig::parse` does without a file at that path is outside this repository: both
outcomes, values kept or reset, are allowed. `CacheValues` is `cacheValues` and `Colors` the loop of
`CTheme::reload`; an `int32_t` is `HalfRange` wide, an app name is a sequence of characters, an anchor
the set of its words, a color its hex digits. Width, height, margins and `max_visible` are cached
like `default_timeout` and left out.

`RulesAsFiled` relates the cached rules to the blocks of the file, whose order counts and of which
blocks without an app drop out, for every app name over a small alphabet.

## Runs

| Run | Shows | Instance |
|---|---|---|
| `daemon` | type invariant; windows match the store; countdown discipline; fresh countdowns; `Changed` covers `List`; silent notifications stay silent; `ActionRetention` is implemented; popups with a positive timeout leave the screen | 3 ids, 3 requests (default, positive and zero timeout; no, normal and critical urgency), 3 configs |
| `clients` | a picker and applications that have read everything are right; no news comes for a handle its application does not hold; toggles count | 2 ids, 2 users who toggle and invoke |
| `clients_live` | a picker converges; every command ends | 1 id, 2 users, every command |
| `store` | saves are atomic checkpoints, wherever the process dies and whichever renames fail; the file can always be read; a clean restart loses nothing; everything reaches the file, also after saves that failed | 3 ids, 2 requests that differ in their text, crashes, failed renames |
| `store_faults` | ids stay fresh under all faults: crashes, failed opens and renames, short writes | 3 ids, 1 request |
| `store_file` | round trip; every truncation is read as `NotificationStore` assumes; ids stay fresh; the parser ends | 6 documents of up to 2 items, ids up to 12, every prefix |
| `reload` | no SIGHUP is lost; rules are those of the file; both files take effect | 3 configs, 2 sheets, 2 palettes, 156 app names |
| `claim_*` | one counterexample each, see below | as above |

Why the bounds are enough: no handler touches more than one id besides `DismissAll`, so two ids
show every interaction of an entry with another, and the third lets the counter wrap with entries
left behind. The requests differ in all that the code branches on. The daemon's counter goes round
within the bound; the store's ids 1 and 2 suffice for a save, a crash, half a text left behind and an id
handed out twice. TLC
explores 98 000 distinct states of `daemon`, 1 637 000 of `clients`, 220 000 of `clients_live`, 115 000 of `store`,
188 000 of `store_faults`, 9 000 of `store_file`, 33 000 of `reload`. `Backlog` stops clients from starting
something new while a message is unread; the daemon's own timers are not held back from firing, so
two messages to one connection can still be under way, and what they and calls can do to each other
shows with two. `clients_live` has one id as its properties are about calls, not about how entries
interact, and a command for an id that does not exist is there through the truncation. The documents of
`store_file` hold every escape, a negative and a two-digit number, an item without and with actions before
another. That the contract holds after ids are reused is proved (`RetentionImplemented`), not run.

Fairness: time passes (`Elapse`) and the loop runs due timers (`TimerFires`), each weakly fair for
each id; the persist timer and the reload check arm themselves again after each run; a save ends. In `BusClients` the loop drains the
pending calls (`main.cpp:97`), the bus delivers, and the picker and applications read. The parser runs
until it ends. No fairness on applications,
users, signals or faults. `PopupsAutoClose` excepts popups that are replaced for ever, since each
replacement starts the countdown anew, and `EventuallySaved` behaviours in which from some time on every rename
fails.

## Where code and documentation disagree

Each is a run that violates one property.

1. `claim_silence`: under do-not-disturb, or for an app whose rule says `skip_popup`, a `Notify` that
   replaces an inbox entry opens a popup.
2. `claim_critical`: critical notifications expire like any other.
3. `claim_reuse`: after 2^32 ids the counter can meet an id in use; `emplace` drops the new
   notification while a window opens for it.
4. `claim_torn`: a short write is renamed over the good file; the next start may throw, again and again.
5. `claim_created`: a config file created after the start is not read on SIGHUP.

Seen while modelling, without a run of their own:

* A replacement undoes the rule's timeout (`NotificationStore.cpp:17`), so a popup that
  `example.conf:42` wants kept until it is clicked closes by itself.
* The counter is saved every 10 s only (`main.cpp:132`), so after a crash ids are handed out again,
  though `NotificationStore.hpp:19` calls them monotonically increasing.
* That the temporary file cannot be opened (`NotificationStore.cpp:187`) goes unnoticed like a short write: the
  rename then installs what an earlier run left there, perhaps half a text. It is the fault `open_fails`;
  `IdsBelowNext` holds in spite of it, and the theorems about what the file says leave it out.
* `SetMode` sends no `Changed`: nothing listens to `modeChanged` (`NotificationStore.cpp:68`), though
  `NotificationStore.hpp:64` says watchers learn of the mode "via the existing Changed signal".
* After the config file is removed, a reload keeps its values (`Config.cpp:97`), where the
  comment above it falls back to the defaults.

## Proofs

All for every `IdMax`, every set of requests, configs, users, commands and documents, under the
assumptions named in the modules: those that give the constants their types (`IdMaxAssumption`,
`TimeoutAssumption`, `RequestAssumption`, `ConfigAssumption`, `RulesAssumption`, `SavedAssumption`, ...); that `None`
and `Broken` are no data (`NoneAssumption`, `ModeAssumption`, `NoRuleAssumption`, `NoNumberAssumption`, ...); and
`IdsAssumption`, that the ids of a document are distinct and below its counter; and `PiecesAssumption`, that the
app names, texts and timeouts are closed under the cuts of a short write.

* `NotificationDaemonProofs`: `TypeCorrect`; then `WindowsCorrect` and `TimersCorrect` from the
  inductive invariant `Coherence`. Neither half is inductive alone: a due countdown demotes an
  entry, which is right only if the entry is the VISIBLE one its window shows; and a window can
  be inserted for a new id only if none was left over for it. They assume `~AllowIdReuse`, and
  `claim_reuse` shows that they must. `CountdownsStartOver` and `ChangesAnnounced` are action
  properties, the first from the same invariant. `RetentionImplemented`: every step is a step of `ActionRetention` or
  changes nothing applications see. It rests on `WindowsAreLive` (a window belongs to a live
  entry, so that a click invokes a live handle), which holds with id reuse too. `SilenceHolds`
  follows from `Coherence` and the effect of each handler on the set of windows. `IdsFreshBeforeWrap` and
  `CorrectBeforeWrap` replace `~AllowIdReuse` by the reason there is for it: until the counter has gone
  through all 2^32 values every id in use is below it (`BelowCounter`), so none of them is drawn again, and the
  properties that need that hold of the code as it is.
* `NotificationStoreProofs`: `IdsStayFresh` from `FreshIds`, which adds that the files, not only
  memory, are below their counter, also when cut short; it holds under all faults. The next three
  are for the faults the program has an answer to, crashes anywhere and failed renames
  (`FaultsAreNoticed`). `CheckpointsImplemented` from `Saving`: the temporary file equals the memory
  between write and rename, though it may be anything, also half a text, before and after.
  `RestartsKeepInbox` from `Flushed`, which adds that a stopped daemon's file equals its memory
  unless its last rename failed. `HalfFlushedIsHarmless`, what the comment above the write promises:
  the temporary file may be `Broken`, after a crash in the middle of the write, but not at a rename,
  so the file never is (`Readable`). `claim_torn` refutes the same property under short writes.
  `DaemonStartsAsAssumed`: a start, after whatever faults, leaves a state that `Init` of
  `NotificationDaemon` allows, so what is proved of one run of the daemon is proved of every run.
* `BusClientsProofs`: `DaemonOnTheBus`, the whole takes only steps of the daemon, so that its safety
  properties hold here too, as `RetentionOnTheBus` does for the contract. `ViewCorrect` from `ViewInv`:
  whatever is wrong with the picker's view is still to be corrected, by a `Changed` or an answer in its
  queue or by a `List` not yet served. `HandlesCorrect` from `KnownInv`: the handles, updated with what is in
  the queue, are the live ids. `NewsCorrect` from `NewsInv`, the same at every message of the queue: what it
  is about is held once the messages before it are read; it needs that the daemon closes and invokes
  live handles only, which is the contract's. `TogglesCorrect` from `ModeInv`: `dnd`
  and the toggles asked for differ exactly while an odd number of users has a `SetMode` not yet served.
* `ConfigReloadProofs`: `TypeCorrect`, and `SignalsAreKept`: after a SIGHUP the flag is set, or the config is
  about to be read, or it was read and the theme is next, or both are in effect. That chain is
  inductive as it stands, and is the safety half of `ReloadTakesEffect`. `RulesCorrect`: the cached rules are
  those of the config last parsed, and, by induction over the blocks of the file, the first cached rule
  that applies is made of the first block that does, whichever blocks drop out.
* `StoreFileReaders`: `parseString` returns what `esc` wrote, whatever the string, and `parseInt` what was printed,
  wherever in the text; where the text ends inside of it, the reader ends past the end with one of the
  `Pieces` of the string, or with no number or one `Leading` the one that was written.
* `StoreFileProofs`: everything follows from `Inv` (`ParserOnTrack`). The parser is on track: in each
  loop, `counter`, `items` and `item` are what has been read, and the text at `pos` goes on with what is left of
  the written document, fields, items or keys; or it is lost: the text was cut short, `pos` is past its end,
  and it has what `Remains`, or a number was cut away and `std::stoll` threw. Neither half is inductive alone, as a
  step leaves the track at the cut; and `Remains` has to say for each loop what it holds, the item that
  was cut included, since the loops are still left one after the other and the last but one appends it.
  From it `RoundTripHolds`, `TornIdsFresh` and `TornKnown`. The last also needs that what is left of an id is an
  id of its own, perhaps that of another item, which `emplace` then keeps, and that the last of the actions,
  which may be cut, is never a key. `TornCoversText` states the same as what `NotificationStore` needs: its
  `Start` on some member of `Torn` does what the parser does. `ParserAdvances`, the safety half of
  `Terminates`: each iteration moves `pos` on or, past the end, leaves a loop. Nothing bounds the documents:
  the strings, lists and numbers are of any length.

The prover cannot use an induction theorem that takes an operator. The lemmas of `SequenceInduction` take
a set instead: one that has 0 and with n also n + 1 has all numbers. A recursive function is
well defined by the same argument (`RecursionExists`), a construction by initial segments.

Only model-checked: the liveness properties (`PopupsAutoClose`, `EventuallySaved`,
`ReloadTakesEffect`, `PickerCatchesUp`, `CommandsEnd`, `Terminates`), which are out of the prover's reach. Every
invariant and action property of a passing run is also proved.

## Not modelled

Image data, its encoding and the vendored encoder (data without state; a restart keeps no images);
`max_visible`, which is parsed and used nowhere; command lines and start-up of the Wayland backend;
what hyprnotice-ctl prints; styling, logging, the installer. A throw from `emitSignal` and what
`g_backend->destroy()` does in signal context belong to libraries whose code is not here.
`GetCapabilities` and `GetServerInformation` answer constants. White space and unknown members in
`store.json`, which the parser accepts and the writer never writes, and texts that were not
written by it.

## Order of work

In order of importance: `NotificationDaemon` with `ActionRetention`; `NotificationStore` with
`CheckpointedInbox`; `ConfigReload`; `BusClients` over the daemon; `StoreFile`, which justifies what
`NotificationStore` takes as given; `ConfigValues`; each followed by its proofs. What is left is listed
under "Not modelled", with the reason.
