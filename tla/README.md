# A model of DirAtlas

DirAtlas (`src/`) is an LDAP directory explorer: a command line tool and an ncurses
interface over OpenLDAP's `libldap`. This directory holds a TLA+ model of the parts whose
behaviour depends on the order in which things happen, the TLC configurations that check it
on small instances, and TLAPS proofs of theorems about it. Paths below are relative to
`src/`; `app.cpp` is `src/src/tui/app.cpp`, and so on. `PROJECT.json` lists, for every
definition, the lines it stands for.

## 1. The system

| component | state it keeps | operations | talks to |
|---|---|---|---|
| **App: event loop and worker** (`tui/app.*`) | `worker_`, `loading_`, `cancel_`, `running_`, the pending slot (`pendingEntry_`, `pendingMandatory_`, `pendingOcInfo_`, `pendingLog_`), `pendingUpdate_`, `pendingRefreshTree_`, `pendingReloadEntry_` | `run`, `readKey`, `handleKey`, `loadSelectedEntry`, `expandTreeNode`, `runWriteOp`, `appExportLdif`, `~App` | the worker thread through the slot and the flags; tree, panel and connection by calls, from both threads |
| **App: editing** (`tui/app.cpp`) | `currentDN_`, `pendingEdit*_`, `pendingConfirm_`, `log_`, `focus_`, `clipboard_`, `searchBase_`, `filter_` | the edit of a value, confirmations, add, delete, duplicate, options, rename, move | reads the tree's selection and the panel's rows; writes through `runWriteOp` |
| **TreeWidget** (`tui/tree.*`) | the nodes, `visible_`, `selected_`, `scrollOffset_`, `maxY_`, the last errors | `loadRoot`, `loadChildren`, `handleKey`, `showSearchResults`, `clearVirtual`, `refresh`, `draw` | LDAPConn (searches); called from both threads |
| **AttrsWidget** (`tui/attrs.*`) | the entry shown, `rows_`, `selected_`, `scrollOffset_`, edit mode, the collapsed attributes, search mode | `show`, `handleKey`, `draw`, the walks over objectClass definitions | App reads its rows and its `goToDN_` |
| **LDAPConn** (`ldap_conn.*`) | the handle, `lastError`, `lastErrno`, `ctrls_`, limits | connect, bind, search with paging, persistent search, refresh-only sync, writes, extended operations, the root DSE | the server |
| **AclEval** (`ldapcore/acl.*`) | none (parsed rules) | parse and evaluate access rules, report conflicts | the panel's popup, `--acl-check` |
| **LdapRc** (`ldaprc.*`) | the configuration | read the files in order | Session |
| **Session** (`main.cpp`) | the options, the exit code | parse the command line, merge, connect, StartTLS, bind, run requests and queries, `--acl-check`, open the interface | LDAPConn, App |
| **vars, ldapcore, ad** | tables | pure functions on names, DNs, bytes, UTF-8, AD values | everyone |

Hard behaviours:

* two threads share the tree, the connection and the pending slot, and only some of it is
  atomic: interleavings of the loop with the worker, and of one worker with the next;
* the loop starts operations from two places, a key and a reload, which can overlap;
* Escape cancels cooperatively: a call that has been made is not undone;
* an edit is spread over several iterations (edit mode, question, answer, write, reload),
  during which the cursor, the panel and the directory move;
* tree, panel and `currentDN_` each have their own idea of "the entry", and the writes use
  one or the other;
* other clients change the directory;
* the tree is freed and rebuilt under raw pointers (`selected_`, `visible_`, `parent`);
* loads fail, are partial, or return what is not below the base;
* a search is made of pages, between which other clients write, limits are met and the
  connection is lost; its caller sees a Boolean, `lastErrno` and a list;
* each key makes the rows of the panel again, in another order and number, under a cursor
  and an offset that are indices;
* what the analysis of access rules says of a list must be true of the evaluation, for
  every user, entry and attribute;
* settings come from three files and from options that imply and undo each other, and each
  exchange of the start may fail.

`PROJECT.json` lists the hazards that follow from these, at the line where each bites, with
the properties that watch it or the reason why none does; section 5 has what the models show
beside the properties.

## 2. The modules

| module | models | checked by | proved in |
|---|---|---|---|
| `AppLoop` | the event loop and the worker as two threads, one step per access to what they share | `MCAppLoop` | `AppLoop_proofs` |
| `AppEditing` | which entry, attribute and value a write goes to | `MCAppEditing` | `AppEditing_proofs` |
| `TreeWidget` | the directory tree | `MCTreeWidget` | `TreeWidget_proofs` |
| `SearchAnswer` | abstract: what a caller of a search may take for granted | through `LdapConn` | `LdapConn_proofs` |
| `LdapConn` | a connection: searches with pages and limits, persistent search, sync, and the requests of one call | `MCLdapConn` | `LdapConn_proofs` (it implements `SearchAnswer`) |
| `Schema` | what is read out of objectClass definitions | through `AttrsPanel` | `AttrsPanel_proofs` |
| `AttrsPanel` | the attribute panel; extends `Schema` | `MCAttrsPanel` | `AttrsPanel_proofs` |
| `AclRules` | parsing, evaluation, analysis and rewriting of access rules | `MCAclRules` | `AclRules_proofs` |
| `Startup` | `main()`: options, files, connection, TLS, bind, requests, queries, exit code | `MCStartup` | `Startup_proofs` |
| `FoldLemmas` | nothing of the code: lemmas on folds, sums, orders and flattened sequences | | the module itself |

An operator whose name ends in `Fault` is the operator after it with a plausible mistake:
no specification uses it, and substituting it shows that a property would notice.

### AppLoop

`ui` is where the UI thread is in `App::run`: at `readKey` (`"key"`), in synchronous work of
`handleKey` (`"handle"`), in a popup that waits for the user without limit (`"form"`) and after
its answer (`"answered"`), in the join and the assignment of `worker_` (`"join"`, `"spawn"`),
then in the steps of the loop body, in their order: the test of `pendingUpdate_`
(`"apply"`), `attrs_->show` (`"show"`), `log_` (`"showLog"`), the flag and the slot reset
(`"clearFlag"`, `"clearBox"`), the refresh (`"refresh"`, `"refreshing"`), the reload and the
drawing. `job` is the operation on the worker with its own location: the call, the test of
`cancel_`, the two assignments of the slot, the log line, the flags, the end. Each action is
one access to shared state, or several that the other thread cannot tell apart. Entries,
messages and schema sets are the number of the request that made them.

The operations are classed by what they do on each thread (see the table in the module):
only their order of accesses matters here; those of `FormOps` open a popup. `Ops` is the set a
session may use. Two history variables say from when on some properties need not hold:
`reloaded`, when the reload after a write has started an operation by itself, and `jumped`, when
Enter on a DN value has shown an entry past the pending slot. Before, the properties hold with
every operation; that they do not hold after is part of the result (section 5).

### AppEditing

One key is one step, followed by the rest of the iteration (`Settle`), which takes what the worker
left; a worker runs alone, under `loading_` (overlaps are AppLoop's subject), and may end between a
key and the rest of its iteration. Next to the state of the program there is the directory: what
the server requires of a change (`Possible`) and what the change does (`Changed`). Entries have a
row `cn` whose value names them, so DNs and values are numbers; `mail_x` is an attribute with an
option (`mail;x`). `Braced` are the values that begin with a brace, numbered or not, in any
attribute: when all those the panel shows of an attribute do, an edit sends them as a whole
(`app.cpp:1079-1083`). A form is its result. `Keys` is what the user asks for; `Reliable` says that
the server refuses nothing it could do and that nothing is cancelled.

Left out: the input bar as a focus, the rows of the RootDSE, the rows `[+N more]`, the wording of
questions; other clients remove entries, or add and remove values that name none. The form of
rename / move lets the user type another DN, which is left out too. After a move the entry is no
more at its old DN, and the model does not follow it.

### TreeWidget

A node is its path of DNs from the root. No operation frees a node and makes one at the same
path while a pointer to it is kept, so a path that is no longer in the tree is a dangling
pointer, and a pointer that is read after the node was freed gives any of the results the
memory may give (`ClearedSelections`). `visible_` is a set of paths, its order the order of
paths. Each key is followed by a drawing, in a window of any of the heights; dragging the border
before a key makes the height known to it 0 (`KnownHeights`). A load may fail,
return part of the entries, or return the base and the entries above it. The worker's
expansion is one step here; a cancelled one leaves the children loaded and the node
collapsed. Contexts of the RootDSE are distinct. The order of search results is taken to be
that of their DNs, and the base of a search is any entry, since `searchBase_` keeps what was
selected at any time before. `Page` is 10 in the code.

### SearchAnswer and LdapConn

A caller of `LDAPConn::search` has a Boolean, `lastErrno` and the entries; `Status` is what
it can tell from them, as `TreeWidget::loadChildren` and others do: failed, complete, or
some. `SearchAnswer` says what these words are worth while other clients change the
directory during the pages: each entry returned existed at some time of the query, and
nothing that was there all along is missing from a complete answer. `LdapConn` is shown to
implement it; the refinement mapping is `SA` in the module.

An action is one return of libldap: a request is sent or cannot be (`Send`, `SendFails`), a
page comes in with a result code (`Page`), `ldap_result` times out or finds the connection
lost (`Timeout`, `LinkDown`). Entries that match the query are numbers in the order in which
the server returns them, so that a cookie is the last entry returned. `lastErrno` keeps only
what callers tell apart: no error, one of the limit codes, another error. What the server
may answer is `Answered`. `open` is what the server still works on, and `since` and `ever`
are history variables. A persistent search has a queue of notices, of which the callback is
told one at a time: of the entries that are there when it starts, then of those added, deleted
or modified. It is always told "entry" (`Notice`). A rename is not asked for (`changeTypes` 7),
and `renamed` has the entries whose name came that way.

### Schema and AttrsPanel

An objectClass definition is its name and three lists, each with the form it is written in,
since the parsers treat the forms differently: a single name, `(a $ b)` and `( a $ b )`.
`Lineage`, `Depth` and `Implicit` are the walks over superiors, as recursive functions with
the bounds of the code.

The panel is the rows made of an entry (`Rows`), the indices `selected` and `scroll`, the
set `collapsed`, edit mode and search mode. A value has a text, a length in columns and the
number in braces before it. A key is one action and is followed by a drawing, which corrects
the cursor and the offset (`Draw`); results of loads and changes of the window come between
keys. `Jump` is 10 in the code. An order is a listing in which each element has as many
others before it as its place says (`Listed`), and a stable sort is the listing of the places
under the order and the places (`StableSort`): what `std::set`, `std::sort` and
`std::stable_sort` promise, and something one can reason about. How attributes are named is
`SpellingAssumption`: an entry has one spelling of each attribute description.

### AclRules

The variables are the local ones of the analysis: the values read, the rules parsed, the two
indices of the loops, the conflicts found and the rules kept. A value is its tokens (OpenLDAP)
or clauses, in one of three grammars, and a DN is the sequence of its RDNs, the entry's own
first. The tokens are read in one pass (`Read`, `ReadAll`), which skips what follows the rights of
a clause, as the code does. `EvaluateAcl` is defined by the clause that decides, the first match in
the order of rules and clauses. A request has a connection, known by the selectors it meets
(`met`): `evaluateAcl` asks nothing of it, so its answers are those for a connection that meets
them all. The list written out is modelled by its tokens (`FormatAclRule`, `Written`): target,
selector, subject and rights, a subject with a space being cut in two (`Cut`), since its quotes were
dropped when it was parsed; rules of the other grammars are written as they were.

### Startup

An option is a letter or name with a value, a line of a file a key with a value, and the phases
(`pc`) are the stretches of `main()` between two exchanges with the server. `log` has what was
exchanged, over what link, how it ended (`ok`) and what `main()` was told of that (`told`), which
is not the same for the capabilities and the streaming requests (`Returns`). Everything that may
fail does so by choice. Left out: what is printed, the encoding of controls (a specification is one
that can be read or not, and `pr=` sets the page size), the options that only change output.

## 3. What is checked

All passing runs are complete. Times are of two workers.

| run | session and bounds | shows |
|---|---|---|
| `loop_everything` | every operation, fair; 2 requests (with the reloads they cause: up to 4 workers) | type invariant; the keyboard is never locked without a worker; until a reload, `loading_` is up as long as a worker runs and one thread at a time uses the connection; a cancellation reaches its operation; the panel never goes back to an earlier request; `loading_` comes down, results leave the slot, refreshes follow, quitting ends |
| `loop_refresh` (violated) | a delete and the expansion of a node | the refresh after the delete frees nodes on the UI thread while a worker fills one, against `README.md:158` and `app.h:34` |
| `editing_attributes` | two entries, four attributes; reliable; 1 write | once things settle the panel shows what the server has and belongs to `currentDN_` |
| `editing_session` | two entries, three values, one of which begins with a brace; one write, one change by another client | type invariant; an edit takes away the edited value only, unless all its values begin with a brace |
| `editing_asked` (violated) | edits; 1 write | an edit refused with `n` is written by a later `y`, against `app.cpp:1160` |
| `editing_panel` (violated) | Enter on a DN value, duplicate value | the panel's menu writes to the tree's entry, against `app.h:87` |
| `tree_browsing` | three entries, windows of 1 and 3 lines, pages of 2, one search result | type invariant; `visible_` and `selected_` are right after every operation; the selection is on the screen; no entry below itself; one group of results |
| `search` | 3 entries, pages of none, 1 and 2, size limits of none and 2, 2 unread notices; fair | pages never overlap and the size limit holds; a search that gave up is abandoned; the callback of a persistent search is told of every entry there is but those renamed meanwhile; `LdapConn` implements `SearchAnswer`; every search returns |
| `acl` | all lists of up to three of 19 values in three grammars, 3 entries, 4 users, 2 attributes, connections with and without `ssf=128` | what is reported as dead decides no request of a connection that meets the selectors of what covers it; the list written out, read again, gives the same access |
| `panel` | three entries of up to five attributes, eight schemas, windows of 1 and 3 rows, pages of 3 | type invariant; the selected row is on the screen; collapsing loses no value; Enter on a toggle stays on its attribute; classes from top down; inherited attributes are the ones defined |
| `panel_empty` (violated) | the same, the first entry cannot be read | PgDn selects row -1, which `draw` reads, against `attrs.cpp:1238` |
| `startup` | about 1300 command lines of up to six options, three files | where each setting and the base come from; the bind is the one asked for; nothing in clear under `-ZZ`; which failures the exit code tells; the requests asked for |

Why the bounds are enough. In AppLoop the interesting overlaps are of two operations: the one that
is ending and the one that begins; the third thing that can happen is a reload, which is not
counted as a request. Requests are only counted to keep the model finite. In AppEditing one write
is enough to see what it is applied to, two entries to mistake one for the other, three values to
lose one that is neither the old nor the new. In TreeWidget a context with an entry below it gives,
from the RootDSE, nodes at each depth the code distinguishes (root, child of the root, deeper), and
a window of one line makes every clamp of the offset matter. In LdapConn three entries make three
pages of one, with a page between the first and the last; a limit of 2 falls on the border of a
page, in one, or beyond it; two notices in flight can be about one entry or two. In AclRules two
rules decide what is masked, the third can mask the one that masks, and the DNs are an entry, its
parent and its grandparent, which tells the five scopes apart; among the values are a clause for
`ssf=128`, a control word after the rights, a subject with a space and a value without clauses. In
AttrsPanel four values are folded and five fold into another count; classes form a chain of three,
with a cycle, without an upper end and spelled in two ways. In Startup the options about the bind
are tried in every order of three, those about settings of two, and those about what to do in sets
of four.

Fairness (`FairSpec` of AppLoop). The UI thread goes on by itself: `readKey` waits 100 ms at most
(`timeout(100)`, `app.cpp:242`), so `WF(UiStep)`; the worker's calls end, because the connection
carries a time limit (`ldap_conn.cpp:113-116`), so `WF(WorkerStep)`. Resize and mouse events skip
the rest of the iteration; `SF(NoKey)` says that the user does not cause one at every iteration for
ever. The user's own steps (`UserStep`) have no fairness, and leaving a popup is one of them
(`CloseForm`): `appPopupForm` waits with `timeout(-1)` (`app.cpp:1996`), and the loop with it. So
`SlotEmptied` and `RefreshFollows` have the hypothesis `UserLeavesForms`, that every popup is
answered or left; `LoadingEnds` and `QuitEnds` need nothing of the user, since the worker goes on
under an open popup and no popup is open once `running_` is down. In LdapConn `WF(Progress)` says
that a call of `ldap_result` returns, which its time limit makes it do (`ldap_conn.cpp:494`), and
that the code then goes on. A page holds as many entries as asked for and the entries are finitely
many, so the loop ends. The other modules state safety only.

Deadlock is checked in every run but `acl` and `startup`, where the program ends: the analysis
when the list is written, `main()` with an exit code or in the interface. In AppLoop the process
may only stop where `Terminated` says so.

## 4. What is proved

TLAPS proves the following for every value of the constants: any set of operations, any
number of requests, any directory, any number of writes and of changes by other clients.

`AppLoop_proofs` (assumptions: `OpsAssumption`, `MaxRequestsAssumption`):

* `TypeCorrect`: `TypeOK`, strengthened with the fact that a spawned job is of a kind the
  worker knows (`JobIsKnown`).
* `KeyboardIsNotLocked`, from `SlotInv`: the UI thread is at `spawn`
  only with the slot empty, and `loading_` up has either a worker that will lower it or a
  UI thread that is about to start one (`LoadingHasWorker`).
* `CancelKept`: an operation starts uncancelled, and while a worker has not looked at
  `cancel_` nothing resets it: whoever would is waiting in the join. The invariant `CancelInv`
  says where the UI thread can be while that is so.
* `LoadingCovers` and `OneCallAtATime`, for any operations: until a reload starts an operation by
  itself there is one at a time (`OneAtATime`), because a key is handled only with `loading_` down,
  which it is only without a worker. The reload alone starts an operation while another may run.
* `PanelOrder`: until the UI thread shows an entry itself, what is in the slot and on the worker is
  never older than what is shown (`OrderInv`), overlapping reloads included: a worker is joined
  before the next one gets its number.

`AppEditing_proofs` (assumptions: those on the constants of `AppEditing`):

* `TypeCorrect`: the types of the variables. The invariant (`Inv`) adds what the operations
  in the program's hands are (`OpsInv`): a value to be written is a value, a question is of an
  operation that asks first, a pending edit replaces a value. The lemma `RowAtIsRow` says that
  each index up to the number of rows has a row: the ranks of the rows under a total order
  differ, so by the pigeonhole principle they are all the indices. The DNs and values are
  assumed finite, which the entries of a server are.
* `EditTakesOnlyItsValue`: no edit takes from the directory a value that is not the edited
  one, whatever other clients have added, unless all the values the panel showed of the attribute
  begin with a brace (`SentWhole`); `WellFormed` says what an operation sends.
* `PanelFollowsCurrent` (server reliable, no key `goto`): the entry in the panel is the one of
  `currentDN_`. Everything that changes `currentDN_` either shows an entry, or queues a load
  whose result is taken in the same step (`CurrentInv`); the selection alone changes nothing.
* `PanelShowsOwnChanges` (server reliable, no other clients): while no step loses options
  (`OptionsLost`), the panel shows what the directory holds. `MatchInv` says where the two may
  differ, which is only between a write and the load it asks for.
* Both take `[]EntriesPresent` as a hypothesis: an entry that somebody removes stays in the panel
  until something is loaded. `EntriesStay` shows that it holds of every session that has no other
  clients and none of the keys that rename, delete or move, so the hypothesis is not empty, and
  `AttributeSession` puts the three together: a session that only changes attributes always shows
  its own entry, as it is.

`LdapConn_proofs` (assumptions: those on the constants of `LdapConn`):

* `TypeCorrect`, `SearchesAreClosed`.
* `PagesAreDisjoint`: the results so far are the entries up to the cookie that the pages had
  (`PagesInv`), so what comes after the cookie is new; `Taken` keeps what fits in the limit.
* `SearchesAnswer`: each step is a step of `SearchAnswer` under the mapping or a stutter. The
  invariant says that the results existed meanwhile, and that while nothing was cut off every
  entry up to the cookie that was there all along is among them.
* `CallbackMissesNone`: each entry of the directory is told, on its way or renamed (`Tells`): when
  the search is sent the queue has all of them (`AllListed`, the pigeonhole principle), and each
  change sends its notice (`ChangedTells`).

`AclRules_proofs` (assumptions: the values are parsed into rules with DNs that are sequences
and at most `MaxClauses` clauses, `ValuesAssumption`):

* `TypeCorrect`, and `IInv`: each conflict found is one `ConflictsOf` gives for its two rules.
* `DeadIsDead`: covering is transitive down to a request (`ScopeCoversScope`,
  `CoveredSubjectMatches`): whatever the later clause matches, a clause of the earlier rule does,
  if the connection meets its selector (`Shadows`).
* `RewriteIsSafe`: the list written out, read again, has the rules kept, as they were
  (`WrittenIsSame`): reading tokens one by one (`ReadAllReads`) takes the target back (`ReadTarget`)
  and from what was written of each clause the clause (`ReadClause`, and by induction `ReadFormat`).
  The clause that decides is unique (`OneClauseDecides`), and where each dropped rule is covered on
  the connection (`Expendable`) it is in no rule that was dropped, by `DeadIsDead`; so it decides
  in the shorter list too (`SelectedEvaluates`). Hypothesis `OneWordSubjects`: no subject is cut.

`FoldLemmas` has what several proofs need of the community modules: that the recursion behind
`FoldLeft`, `SumFunctionOnSet` and `FlattenSeq` has a solution, proved by induction with the steps
as functions (`FoldExists`, `SumExists`, `FlattenIs`), since the library's induction rules take
operators; that a sum is that of its parts and survives a permutation (`SumOfBoth`,
`SumPermuted`, `SumOverFlat`); that the elements of a finite set have all the ranks of a total
order (`RanksAreAll`) and more of them the later they come (`RankGrows`); that a walk of as many
steps as there are places has come back (`WalkReturns`).

`Startup_proofs` (assumptions: command lines are finite sequences,
`CommandsAssumption`; the files are sequences of lines, `FilesAssumption`; each setting has a
default, `DefaultAssumption`):

* `ExitIsTrue`: `WellInv` says that no failure `main()` was told of is in the log without `hadError`
  or exit code 1, but those it does without, and that `hadError` and filters exist only under
  `--cli`. What failed untold is named: the capabilities, and streams the server ended with an error.
* `ProtectedFirst`: `LineInv`, `LevelInv` and `LinkInv` relate what is left of the line, the
  level of `-Z` options read, and the link. Two options `-Z` on the line are two places of it
  (`TwoUses`).
* `FilesAreRead`: reading the files one after another, line by line, into the structure gives each
  setting the value of the first line that says something else than the default (`InFiles`). The
  code's loops are `FoldLeft`s; `LineFills` and `FileFills` say what they have done after each line
  and each file.
* `ValuesAreAsGiven`: every setting has the value of the last option for it if that is not the
  default, else that of the first line of the files that is not, else the default (`Chosen`).
  `ReadInv` says so of the options read so far. The base is that of `-b`, or what the server
  exposes, and that of the files only before the search for one (`BaseAsGiven`).
* `AuthIsAsAsked`: the bind is the one that `-x`, `-Y`, the password and, without `-Y`, the
  mechanism of the files ask for (`AuthInv`).
* `AskedAreDone`: when the interface opens, each request of the command line has been answered,
  in the order `main()` has them, and a `--cli` run that ends well did one thing, the first it
  was asked for. `DoneInv` says which requests are in the log at each point of `main()`.

`TreeWidget_proofs` (assumptions: those on the constants of `TreeWidget`, whose directory is
finite and of any shape):

* `TypeCorrect`, `VisibleIsRebuilt`, `SelectionIsShown`, `NoEntryBelowItself`, `OneGroupOnly`:
  all five properties of the run, from one invariant (`IInv`). Its core is that the nodes are a
  tree (`Tree`: finite, and closed under what is on the way to a node), that a node's DN is none
  of those above it (`Fresh`) and that one group exists (`Single`). Whatever a load returns is
  described by `Grown`, from which it follows that a load keeps the tree, and that a load of a
  collapsed node neither shows nor hides a line (`GrownIsHidden`), which is why a cancelled one
  need not rebuild `visible_`. That lines and nodes correspond (`NodeAtIsNode`) is the pigeonhole
  principle again, for the order in which the tree is drawn (`BeforeIsTotal`).

`AttrsPanel_proofs` (assumptions: those on the constants of `AttrsPanel`: attributes and classes
have places in the alphabet, definitions and entries are finite lists, `SpellingAssumption`,
`PublishedAssumption`):

* The invariant `PanelInv` says that the rows are those of the entry shown, for some table of
  superiors and some mandatory attributes (`Shown`): which ones differs between a load and a
  collapse. So what is to be known of the rows is known of `Rows`, whatever the schema.
* `AllValuesCount`: each row stands for the values of an attribute that it shows or hides. A
  sorted group is a permutation of the values read (`SortedReorders`; the comparison of classes
  is turned into a comparison of numbers, `ClassesSort`), a permutation keeps sums, and a folded
  group hides exactly what it does not show (`StandsForPart`). Only attribute names are ever
  collapsed, and no attribute is named `objectclass` in lower case when it is `objectClass` in the
  entry, so a group with classes added by the panel is never folded (`CollapsedAreListed`).
* `CursorOnScreen`: the arithmetic of the drawing (`ScrolledHolds`), from the fact that lines
  grow with rows (`StartsGrow`).
* `TogglesKeepTheCursor`: the row restored is one of the name of the toggle (`RestoredIs`), and
  such a row exists when the values are shown again (`NamedRows`). Hypothesis `HaveValues`: entries
  are loaded with the values of their attributes; of the entry shown the same follows
  (`EntryHasValues`).
* `TypeCorrect`, for a first entry that can be read (`StartsEmpty = FALSE`): with one that
  cannot, the run `panel_empty` shows the contrary. `EditInv` keeps the cursor of edit mode in the
  line, and `RowsWhenDrawn` says that what is drawn has rows, whence the row selected by PgDn.
* `SchemaIsRead`: for definitions of the forms that are read, and each class defined once
  (`PublishedAssumption`), the two walks collect what the definition of a class and those of all
  its superiors say, these being the least set closed under "is a superior of" (`Ancestry`). The
  walk meets only what has to be there (`WayIsLeast`), and misses nothing although it is cut
  after one step more than there are definitions: by the pigeonhole principle it has then come
  back to one it has met (`WayGoesUp`, from `WalkReturns`).
* `SuperiorsInOrder`: the rows of `objectClass` hold all superiors of a listed class, each class
  once, and none before its superior. What is added for the first n classes repeats no class and
  is closed under superiors together with the listed ones (`Covered`, kept by `CoversMore`): a walk
  ends at a class that is there, or where it has come back (`TakenCloses`). A class that descends
  from top is deeper than its superior (`DeeperThanSuperior`), and the sort goes by depth
  (`ClassesSort`). Hypotheses: an entry lists a class once and by one attribute
  (`ListClassesOnce`, which a server sees to), and no class has more than 32 superiors
  (`ShallowSchemas`), where the loop of `attrs.cpp:661` gives up: of a longer chain the rest is
  not shown. `ClassesOnce(entry)` is the invariant that `PanelInv` needs beside it.

The type invariants of `LdapConn` and `AclRules` are proved and no longer part of a run.

Every invariant and action property of a passing run is thus a theorem, some of them under the
hypotheses named. Only model-checked: liveness, which TLAPS cannot prove. Only the violated runs
say what the code does otherwise.

## 5. Divergences observed

Beside the violated runs, the models show the following. Where a module has the behaviour, its
properties are stated so that they hold with it.

* App: a reload and a load asked for by the user can overlap with `loading_` down
  (`app.cpp:1309` against the comment at 845); then the connection is used from both threads and
  the slot can hold the entry of one request and the mandatory attributes of another
  (`app.cpp:499`, `README.md:195`). After Enter on a DN value a late result can replace the entry
  shown. A result that ends in the same iteration overwrites the question of a confirmation
  (`app.cpp:500`, `README.md:224`). Changing the options of an attribute deletes it without a
  question and adds again only the value under the cursor (`app.cpp:2458-2465`, whose comment says
  "Value preserved."; `README.md:224` says that destructive operations always ask), and the second
  request may fail. In edit and search mode `q`, `y`, `p`, `h`, `?` and `/` are taken by
  `App::handleKey` before the panel.
* Tree: clearing the search results reads a freed node and sends the selection to the root, not
  to the parent (`tree.cpp:668-685`).
* Panel: the rule that puts `objectClass` first never applies, because the keys are in lower case
  (`attrs.cpp:685`); `-` does nothing for names in mixed case; showing the entry again drops
  the schema's order and the implicit classes. Superiors and attributes in the forms
  `( a $ b )` and without parentheses are misread (`parseSUP`, `parseMUST`), so that attributes
  that are allowed can be refused.
* Connection: `persistentSearch` and `syncRefreshOnly` return true whatever the result code; the
  callback of a persistent search is told "entry" of every change (`ldap_conn.cpp:739` parses an
  entry message as a result), against `ldap_conn.h:100-102`, and of no rename, since `changeTypes`
  7 is not "all" (`ldap_conn.cpp:687`); `lastErrno` is not reset
  by a search that succeeds; the comparisons that should pass over Configuration, the DNS zones
  and the access log have wrong lengths (`ldap_conn.cpp:904-930`); with a paging control given by
  `-E paged=` only the first page is read.
* Access rules: selectors such as `ssf=` are ignored by the evaluation and by the cover test, so a
  rule masked only by a clause for strong connections is reported as one that "can never match"
  (`acl.h:47`) and is missing from the rewritten list (`main.cpp:1552-1556`); that list also lacks
  the control words after the rights (`break`, `continue`, `on ...`), the quotes of subjects, which
  a DN with a space needs (`acl.cpp:825-833`), and every value that is no rule.
* Start: a refused persistent search or refresh and capabilities that could not be read end with
  exit code 0 (`main.cpp:1290-1323`). `ldaprc.cpp:149` says that later files override earlier ones,
  and the first value stays; TIMEOUT and TIMELIMIT are one setting; an option with its default
  value is replaced by the file's, against `main.cpp:1000`; the BASE of the files is replaced by
  the one detected (`main.cpp:1369`); `-x` and then `-Y` binds simply and shows the mechanism; a
  third `-M` adds the control again; a critical control that cannot be read is dropped with a
  warning (`main.cpp:1153`); a server given as an argument is also taken for an attribute
  (`main.cpp:1026-1051`).
* Control specifications (not modelled): the documented `<oid>::<b64>` is never reached
  (`ldap_conn.cpp:1564`); negative integers are encoded in five bytes (1283); the value of VLV and
  dirSync controls is freed through libldap while a string owns it (1658, 1806).

## 6. Plan

1. The encoding of control specifications (`ldap_conn.cpp:1246-1871`), as a function from the
   shape of a specification to the control, against a table of the documented ones.
2. `DnText`: RDN and parent, attribute descriptions, brace indexes, UTF-8 truncation.
3. That AppEditing's one-step iterations are what AppLoop's sessions without overlap do, and
   that AppEditing's rows are those of AttrsPanel for its entries (refinements).

## 7. Not modelled

Drawing beyond the cursor and the offsets, colours, popups and menus (a popup is a synchronous
form: its result is an input); the output of queries; the rendering of AD values; names and
emojis of nodes; tables of known names; conversions of text in `ldapcore`; the encoding of
controls; log file, embedded help, banner, build files. The server is modelled only by what it
requires of a change and what it may answer to a query.
