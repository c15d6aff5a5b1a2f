------------------------------- MODULE AppLoop -------------------------------
(***************************************************************************)
(* The event loop of the text interface and its background worker: the     *)
(* class App of src/tui/app.{h,cpp}, seen as two threads.                  *)
(*                                                                         *)
(* The UI thread runs App::run(): read a key, handle it, take the worker's *)
(* result from the pending slot, refresh the tree, reload the entry, draw. *)
(* The worker thread runs the lambda of one operation: an LDAP call, the   *)
(* test of cancel_, the publication of the result, loading_ = false.       *)
(*                                                                         *)
(* One step of this module is one access (or one group of accesses that no *)
(* access of the other thread can tell apart) to the state the two threads *)
(* share.  Entries, log lines and schema sets are abstracted to the number *)
(* of the request that produced them; 0 stands for an empty field.         *)
(***************************************************************************)
EXTENDS Naturals

CONSTANTS Ops,        \* the operations the user may ask for in this session
          MaxRequests \* bound: how many requests the user makes in a session

(***************************************************************************)
(* The operations, by what they do on each thread:                         *)
(*   load     Enter or F5: loadSelectedEntry                               *)
(*   expand   '+' on a node without children: expandTreeNode               *)
(*   export   the LDIF export: a form, then the job                        *)
(*   delete   a confirmed delete, rename or move (runWriteOp, refreshTree) *)
(*   edit     a confirmed change of an attribute (runWriteOp, reloadEntry) *)
(*            that needs no read of the server first                       *)
(*   add      add or duplicate an entry: reads on the UI thread, a form    *)
(*            (with its pick list), then runWriteOp with refreshTree       *)
(*   addAttr  a change of an attribute made in a form, which may read the  *)
(*            entry or the schema on the UI thread after it: the same,     *)
(*            with reloadEntry                                             *)
(*   search   the filter bar: showSearchResults on the UI thread           *)
(*   reroot   'g': loadRoot on the UI thread, then loadSelectedEntry       *)
(*   goto     Enter on a DN value: searchOne on the UI thread              *)
(*   navigate cursor keys, expand or collapse of loaded nodes, and the     *)
(*            popups that start nothing: help, a value in full, the form   *)
(*            of a rename, which only asks for a confirmation              *)
(***************************************************************************)
WriteTree  == {"delete", "add"}
WriteEntry == {"edit", "addAttr"}
Writes     == WriteTree \cup WriteEntry
ReadJobs   == {"load", "expand", "export"}
SyncOps    == {"add", "addAttr", "search", "reroot", "goto"}
TreeOps    == {"search", "reroot", "navigate"}
FormOps    == {"add", "addAttr", "export", "navigate"}
OpKinds    == Writes \cup ReadJobs \cup SyncOps \cup TreeOps
JobKinds   == Writes \cup ReadJobs

ASSUME OpsAssumption == Ops \subseteq OpKinds
ASSUME MaxRequestsAssumption == MaxRequests \in Nat

VARIABLES
    ui,                 \* where the UI thread is in App::run
    op,                 \* the operation the UI thread is carrying out
    inReload,           \* it was started by pendingReloadEntry_, not by a key
    running,            \* running_
    loading,            \* loading_
    cancel,             \* cancel_
    pendingUpdate,      \* pendingUpdate_
    pendingRefreshTree, \* pendingRefreshTree_
    pendingReloadEntry, \* pendingReloadEntry_
    box,                \* pendingEntry_, pendingMandatory_ (with pendingOcInfo_), pendingLog_
    panel,              \* what attrs_ shows and what log_ says
    requests,           \* numbers given to requests so far
    asked,              \* requests made by the user so far
    reloaded,           \* history: a reload after a write has started an operation
    jumped,             \* history: the UI thread has shown an entry itself
    thread,             \* the state of the std::thread worker_
    job                 \* the operation on the worker: kind, pc, result, number

uiVars     == <<ui, op, inReload, running>>
flags      == <<loading, cancel, pendingUpdate, pendingRefreshTree, pendingReloadEntry>>
slots      == <<box, panel>>
counters   == <<requests, asked>>
history    == <<reloaded, jumped>>
workerVars == <<thread, job>>
vars == <<uiVars, flags, slots, counters, history, workerVars>>

UiLocations == {"key", "handle", "form", "answered", "join", "spawn", "apply", "show", "showLog", "clearFlag",
                "clearBox", "refresh", "refreshing", "reload", "draw", "dtor", "dtorJoin",
                "done"}
JobLocations == {"call", "check", "mand", "entry", "rebuild", "log", "ask", "flag", "end"}

EmptyBox == [entry |-> 0, mand |-> 0, log |-> 0]
Slot == [entry : Nat, mand : Nat, log : Nat]

TypeOK ==
    /\ ui \in UiLocations
    /\ op \in OpKinds
    /\ inReload \in BOOLEAN
    /\ running \in BOOLEAN
    /\ loading \in BOOLEAN
    /\ cancel \in BOOLEAN
    /\ pendingUpdate \in BOOLEAN
    /\ pendingRefreshTree \in BOOLEAN
    /\ pendingReloadEntry \in BOOLEAN
    /\ box \in Slot
    /\ panel \in Slot
    /\ requests \in Nat
    /\ asked \in 0 .. MaxRequests
    /\ reloaded \in BOOLEAN
    /\ jumped \in BOOLEAN
    /\ thread \in {"none", "running", "exited"}
    /\ job \in [kind : JobKinds, pc : JobLocations, ok : BOOLEAN, id : Nat]

\* App::init has loaded the RootDSE synchronously: no worker, nothing pending.
Init ==
    /\ ui = "key" /\ op = "navigate" /\ inReload = FALSE /\ running = TRUE
    /\ loading = FALSE /\ cancel = FALSE
    /\ pendingUpdate = FALSE /\ pendingRefreshTree = FALSE /\ pendingReloadEntry = FALSE
    /\ box = EmptyBox /\ panel = EmptyBox
    /\ requests = 0 /\ asked = 0
    /\ reloaded = FALSE /\ jumped = FALSE
    /\ thread = "none"
    /\ job = [kind |-> "load", pc |-> "end", ok |-> FALSE, id |-> 0]

-----------------------------------------------------------------------------
(* The UI thread.  An operator whose name ends in Fault is the operator after  *)
(* it with a slip in it: it is no part of the specification, and shows that a  *)
(* property would notice.                                                      *)

\* readKey() times out, or returns a key that handleKey ignores (any key but
\* Escape while loading_ is set, or one that starts nothing).
NoKey ==
    /\ ui = "key"
    /\ ui' = "apply"
    /\ UNCHANGED <<op, inReload, running, flags, slots, counters, history, workerVars>>

\* KEY_RESIZE redraws and skips the rest of the iteration.
Resize ==
    /\ ui = "key"
    /\ ui' = "draw"
    /\ UNCHANGED <<op, inReload, running, flags, slots, counters, history, workerVars>>

\* Escape gives the keyboard back at once.
EscapeFault ==
    /\ ui = "key" /\ loading
    /\ cancel' = TRUE /\ loading' = FALSE
    /\ panel' = [panel EXCEPT !.log = 0]
    /\ UNCHANGED <<uiVars, pendingUpdate, pendingRefreshTree, pendingReloadEntry,
                   box, counters, history, workerVars>>

\* Escape while an operation is running asks for its cancellation.
Escape ==
    /\ ui = "key" /\ loading
    /\ cancel' = TRUE
    /\ panel' = [panel EXCEPT !.log = 0]
    /\ UNCHANGED <<uiVars, loading, pendingUpdate, pendingRefreshTree, pendingReloadEntry,
                   box, counters, history, workerVars>>

\* 'q': the loop finishes this iteration, then App is destroyed.
Quit ==
    /\ ui = "key" /\ ~loading /\ running
    /\ running' = FALSE
    /\ ui' = "apply"
    /\ UNCHANGED <<op, inReload, flags, slots, counters, history, workerVars>>

\* expandTreeNode, loadSelectedEntry and appExportLdif raise loading_ before
\* they join the previous worker; runWriteOp does so after (see Spawn).
BeginJob(o) ==
    /\ op' = o
    /\ ui' = "join"
    /\ IF o \in Writes
         THEN UNCHANGED <<loading, cancel>>
         ELSE loading' = TRUE /\ cancel' = FALSE
    /\ UNCHANGED <<pendingUpdate, pendingRefreshTree, pendingReloadEntry>>

\* The operations that a key starts on the worker at once.
JobsAtOnce == JobKinds \ (SyncOps \cup FormOps)

\* A key is dispatched without the test of loading_.
UserOpFault(o) ==
    /\ ui = "key"
    /\ asked < MaxRequests
    /\ asked' = asked + 1
    /\ inReload' = FALSE
    /\ \/ o \in JobsAtOnce /\ BeginJob(o)
       \/ o \notin JobsAtOnce /\ op' = o /\ ui' = "handle" /\ UNCHANGED flags
    /\ UNCHANGED <<running, slots, requests, history, workerVars>>

\* handleKey dispatches a key: to a job, or to work of the UI thread itself.
UserOp(o) ==
    /\ ui = "key" /\ ~loading
    /\ asked < MaxRequests
    /\ asked' = asked + 1
    /\ inReload' = FALSE
    /\ \/ /\ o \in JobsAtOnce
          /\ BeginJob(o)
       \/ /\ o \notin JobsAtOnce
          /\ op' = o /\ ui' = "handle"
          /\ UNCHANGED flags
    /\ UNCHANGED <<running, slots, requests, history, workerVars>>

\* A popup waits for the user without limit (timeout(-1)); the loop stands still.
OpenForm ==
    /\ ui = "handle" /\ op \in FormOps
    /\ ui' = "form"
    /\ UNCHANGED <<op, inReload, running, flags, slots, counters, history, workerVars>>

\* The user confirms or leaves the popup.
CloseForm ==
    /\ ui = "form"
    /\ ui' = "answered"
    /\ UNCHANGED <<op, inReload, running, flags, slots, counters, history, workerVars>>

\* 'g' starts a job of its own kind instead of a load.
EndHandleFault ==
    /\ ui \in {"handle", "answered"}
    /\ BeginJob(op)
    /\ UNCHANGED <<inReload, running, panel, box, requests, asked, history, workerVars>>

\* The work of the UI thread ends in a job asked for in a form, in a load, in the
\* entry shown, or in nothing more (form cancelled or refused, entry not found,
\* search done).
EndHandle ==
    /\ ui \in {"handle", "answered"}
    /\ \/ /\ ui = "answered" /\ op \in JobKinds
          /\ BeginJob(op)
          /\ panel' = IF op = "export" THEN [panel EXCEPT !.log = 0] ELSE panel
          /\ UNCHANGED <<requests, jumped>>
       \/ /\ op = "reroot"
          /\ BeginJob("load")
          /\ UNCHANGED <<requests, panel, jumped>>
       \/ /\ op = "goto"
          /\ requests' = requests + 1
          /\ panel' = [entry |-> requests', mand |-> requests', log |-> requests']
          /\ jumped' = TRUE
          /\ ui' = "apply"
          /\ UNCHANGED <<op, flags>>
       \/ /\ op # "reroot"
          /\ panel' = IF op = "navigate" THEN panel ELSE [panel EXCEPT !.log = 0]
          /\ ui' = "apply"
          /\ UNCHANGED <<op, requests, jumped, flags>>
    /\ UNCHANGED <<inReload, running, box, asked, reloaded, workerVars>>

\* worker_ is not joined.
JoinFault ==
    /\ ui = "join"
    /\ ui' = "spawn"
    /\ UNCHANGED <<op, inReload, running, flags, slots, counters, history, workerVars>>

\* if (worker_.joinable()) worker_.join();
Join ==
    /\ ui = "join"
    /\ thread # "running"
    /\ thread' = "none"
    /\ ui' = "spawn"
    /\ UNCHANGED <<op, inReload, running, flags, slots, counters, history, job>>

\* worker_ = std::thread(...), after the join: each place that assigns worker_ joins
\* in the statement before.
Spawn ==
    /\ ui = "spawn"
    /\ thread' = "running"
    /\ requests' = requests + 1
    /\ job' = [kind |-> op, pc |-> "call", ok |-> FALSE, id |-> requests']
    /\ IF op \in Writes
         THEN loading' = TRUE /\ cancel' = FALSE
         ELSE UNCHANGED <<loading, cancel>>
    /\ ui' = IF inReload THEN "draw" ELSE "apply"
    /\ UNCHANGED <<op, inReload, running, pendingUpdate, pendingRefreshTree,
                   pendingReloadEntry, slots, asked, history>>

\* if (pendingUpdate_.load())
Apply ==
    /\ ui = "apply"
    /\ ui' = IF pendingUpdate THEN "show" ELSE "refresh"
    /\ UNCHANGED <<op, inReload, running, flags, slots, counters, history, workerVars>>

\* An empty slot is shown too.
ShowFault ==
    /\ ui = "show"
    /\ panel' = [panel EXCEPT !.entry = box.entry, !.mand = box.mand]
    /\ ui' = "showLog"
    /\ UNCHANGED <<op, inReload, running, flags, box, counters, history, workerVars>>

\* attrs_->show(pendingEntry_, pendingMandatory_, &pendingOcInfo_)
Show ==
    /\ ui = "show"
    /\ panel' = IF box.entry # 0
                  THEN [panel EXCEPT !.entry = box.entry, !.mand = box.mand]
                  ELSE panel
    /\ ui' = "showLog"
    /\ UNCHANGED <<op, inReload, running, flags, box, counters, history, workerVars>>

\* if (!pendingLog_.empty()) log_ = pendingLog_;
ShowLog ==
    /\ ui = "showLog"
    /\ panel' = IF box.log # 0 THEN [panel EXCEPT !.log = box.log] ELSE panel
    /\ ui' = "clearFlag"
    /\ UNCHANGED <<op, inReload, running, flags, box, counters, history, workerVars>>

\* The flag is lowered only along with an entry.
ClearFlagFault ==
    /\ ui = "clearFlag"
    /\ pendingUpdate' = (box.entry = 0)
    /\ ui' = "clearBox"
    /\ UNCHANGED <<op, inReload, running, loading, cancel, pendingRefreshTree,
                   pendingReloadEntry, slots, counters, history, workerVars>>

ClearFlag ==
    /\ ui = "clearFlag"
    /\ pendingUpdate' = FALSE
    /\ ui' = "clearBox"
    /\ UNCHANGED <<op, inReload, running, loading, cancel, pendingRefreshTree,
                   pendingReloadEntry, slots, counters, history, workerVars>>

ClearBox ==
    /\ ui = "clearBox"
    /\ box' = EmptyBox
    /\ ui' = "refresh"
    /\ UNCHANGED <<op, inReload, running, flags, panel, counters, history, workerVars>>

\* The request is dropped when an operation is running.
RefreshFault ==
    /\ ui = "refresh"
    /\ pendingRefreshTree' = FALSE
    /\ ui' = IF pendingRefreshTree /\ ~loading THEN "refreshing" ELSE "reload"
    /\ UNCHANGED <<op, inReload, running, loading, cancel, pendingUpdate,
                   pendingReloadEntry, slots, counters, history, workerVars>>

\* if (pendingRefreshTree_.load()): tree_->refresh() runs here, on this thread.
Refresh ==
    /\ ui = "refresh"
    /\ pendingRefreshTree' = FALSE
    /\ ui' = IF pendingRefreshTree THEN "refreshing" ELSE "reload"
    /\ UNCHANGED <<op, inReload, running, loading, cancel, pendingUpdate,
                   pendingReloadEntry, slots, counters, history, workerVars>>

EndRefresh ==
    /\ ui = "refreshing"
    /\ ui' = "reload"
    /\ UNCHANGED <<op, inReload, running, flags, slots, counters, history, workerVars>>

\* cancel_ is reset at every iteration.
ReloadFault ==
    /\ ui = "reload"
    /\ pendingReloadEntry' = FALSE
    /\ cancel' = FALSE
    /\ IF pendingReloadEntry
         THEN ui' = "join" /\ op' = "load" /\ inReload' = TRUE /\ loading' = TRUE
         ELSE ui' = "draw" /\ UNCHANGED <<op, inReload, loading>>
    /\ reloaded' = (reloaded \/ pendingReloadEntry)
    /\ UNCHANGED <<running, pendingUpdate, pendingRefreshTree, slots, counters, jumped, workerVars>>

\* if (pendingReloadEntry_.load()): loadSelectedEntry()
Reload ==
    /\ ui = "reload"
    /\ pendingReloadEntry' = FALSE
    /\ IF pendingReloadEntry
         THEN /\ ui' = "join" /\ op' = "load" /\ inReload' = TRUE
              /\ loading' = TRUE /\ cancel' = FALSE
         ELSE /\ ui' = "draw"
              /\ UNCHANGED <<op, inReload, loading, cancel>>
    /\ reloaded' = (reloaded \/ pendingReloadEntry)
    /\ UNCHANGED <<running, pendingUpdate, pendingRefreshTree, slots, counters, jumped, workerVars>>

\* The loop does not test running_.
DrawFault ==
    /\ ui = "draw"
    /\ ui' = "key"
    /\ UNCHANGED <<op, inReload, running, flags, slots, counters, history, workerVars>>

\* draw(), then the test of running_ at the head of the loop.
Draw ==
    /\ ui = "draw"
    /\ ui' = IF running THEN "key" ELSE "dtor"
    /\ UNCHANGED <<op, inReload, running, flags, slots, counters, history, workerVars>>

\* App::~App cancels, then joins.
Destroy ==
    /\ ui = "dtor"
    /\ cancel' = TRUE
    /\ ui' = "dtorJoin"
    /\ UNCHANGED <<op, inReload, running, loading, pendingUpdate, pendingRefreshTree,
                   pendingReloadEntry, slots, counters, history, workerVars>>

DestroyJoin ==
    /\ ui = "dtorJoin"
    /\ thread # "running"
    /\ thread' = "none"
    /\ ui' = "done"
    /\ UNCHANGED <<op, inReload, running, flags, slots, counters, history, job>>

UiStep ==
    \/ NoKey \/ OpenForm \/ EndHandle \/ Join \/ Spawn \/ Apply \/ Show \/ ShowLog \/ ClearFlag \/ ClearBox
    \/ Refresh \/ EndRefresh \/ Reload \/ Draw \/ Destroy \/ DestroyJoin

UserStep == Resize \/ Escape \/ Quit \/ CloseForm \/ \E o \in Ops : UserOp(o)

-----------------------------------------------------------------------------
(* The worker thread: the lambdas given to std::thread. *)

At(loc) == thread = "running" /\ job.pc = loc
Goto(loc) == job' = [job EXCEPT !.pc = loc]

\* The LDAP call comes back: with a result, with an error, or by an exception
\* that the lambda of loadSelectedEntry reports and that of expandTreeNode
\* swallows.  An export that cannot open its file makes no call at all.
WorkerCall ==
    /\ At("call")
    /\ \/ \E ok \in BOOLEAN :
            job' = [job EXCEPT !.pc = IF job.kind = "export" THEN "log" ELSE "check",
                               !.ok = ok]
       \/ /\ job.kind = "load" /\ Goto("log")
       \/ /\ job.kind = "expand" /\ Goto("end")
    /\ UNCHANGED <<uiVars, flags, slots, counters, history, thread>>

\* if (cancel_.load())
WorkerCheck ==
    /\ At("check")
    /\ \/ /\ cancel /\ Goto("end")
       \/ /\ ~cancel
          /\ Goto(CASE job.kind = "load" /\ job.ok -> "mand"
                    [] job.kind = "expand" -> "rebuild"
                    [] OTHER -> "log")
    /\ UNCHANGED <<uiVars, flags, slots, counters, history, thread>>

\* pendingMandatory_ = ..., pendingOcInfo_ = ...; getOCSchema reads the schema
\* from the server the first time.
WorkerMand ==
    /\ At("mand")
    /\ box' = [box EXCEPT !.mand = job.id]
    /\ Goto("entry")
    /\ UNCHANGED <<uiVars, flags, panel, counters, history, thread>>

\* pendingEntry_ = std::move(entry)
WorkerEntry ==
    /\ At("entry")
    /\ box' = [box EXCEPT !.entry = job.id]
    /\ Goto("log")
    /\ UNCHANGED <<uiVars, flags, panel, counters, history, thread>>

\* node->expanded = true; tree_->rebuildVisible(); tree_->ensureVisible();
\* an error of the load is logged.
WorkerRebuild ==
    /\ At("rebuild")
    /\ Goto(IF job.ok THEN "flag" ELSE "log")
    /\ UNCHANGED <<uiVars, flags, slots, counters, history, thread>>

\* pendingLog_ = ...
WorkerLog ==
    /\ At("log")
    /\ box' = [box EXCEPT !.log = job.id]
    /\ Goto(IF job.kind \in Writes THEN "ask" ELSE "flag")
    /\ UNCHANGED <<uiVars, flags, panel, counters, history, thread>>

\* A successful write asks the UI thread for a refresh or a reload.
WorkerAsk ==
    /\ At("ask")
    /\ pendingRefreshTree' = (pendingRefreshTree \/ (job.ok /\ job.kind \in WriteTree))
    /\ pendingReloadEntry' = (pendingReloadEntry \/ (job.ok /\ job.kind \in WriteEntry))
    /\ Goto("flag")
    /\ UNCHANGED <<uiVars, loading, cancel, pendingUpdate, slots, counters, history, thread>>

WorkerFlag ==
    /\ At("flag")
    /\ pendingUpdate' = TRUE
    /\ Goto("end")
    /\ UNCHANGED <<uiVars, loading, cancel, pendingRefreshTree, pendingReloadEntry,
                   slots, counters, history, thread>>

\* A cancelled write returns with loading_ still up.
WorkerEndFault ==
    /\ At("end")
    /\ loading' = (loading /\ cancel /\ job.kind \in Writes)
    /\ thread' = "exited"
    /\ UNCHANGED <<uiVars, cancel, pendingUpdate, pendingRefreshTree, pendingReloadEntry,
                   slots, counters, history, job>>

\* loading_ = false, and the thread function returns.
WorkerEnd ==
    /\ At("end")
    /\ loading' = FALSE
    /\ thread' = "exited"
    /\ UNCHANGED <<uiVars, cancel, pendingUpdate, pendingRefreshTree, pendingReloadEntry,
                   slots, counters, history, job>>

WorkerStep ==
    \/ WorkerCall \/ WorkerCheck \/ WorkerMand \/ WorkerEntry \/ WorkerRebuild
    \/ WorkerLog \/ WorkerAsk \/ WorkerFlag \/ WorkerEnd

\* The process has exited.
Terminated == ui = "done" /\ UNCHANGED vars

Next == UserStep \/ UiStep \/ WorkerStep \/ Terminated

Spec == Init /\ [][Next]_vars

(***************************************************************************)
(* Fairness.  readKey waits at most 100 ms (timeout(100) in initNCurses),  *)
(* so the loop goes on without the user; libldap calls end because they    *)
(* carry a time limit (LDAPConn::timelimit).  The user is only assumed not *)
(* to resize the terminal (or drag the mouse, which skips the rest of the  *)
(* iteration in the same way) at every iteration for ever: that is the     *)
(* strong fairness of NoKey.  UserStep has no fairness: the user need not  *)
(* press a key, and need not answer a popup, which waits for ever.         *)
(***************************************************************************)
FairSpec == Spec /\ WF_vars(UiStep) /\ SF_vars(NoKey) /\ WF_vars(WorkerStep)

-----------------------------------------------------------------------------
(* Who is using what the two threads share. *)

KeyCalls       == ui \in {"handle", "answered"} /\ op \in SyncOps
WorkerCalls    == thread = "running" /\ job.pc \in {"call", "mand"}
UiChangesTree  == \/ ui = "handle" /\ op \in TreeOps
                  \/ ui = "refreshing"
WorkerInTree   == thread = "running" /\ job.kind = "expand" /\ job.pc \in {"call", "rebuild"}
BeforeCheck    == thread = "running" /\ job.pc \in {"call", "check"}

(* Safety. *)

\* handleKey ignores every key while loading_ is set, so the keyboard is locked
\* only while there is a worker left that will clear it.
KeyboardNotLocked == ui = "key" /\ loading => thread = "running"

\* "Ignore input while a background operation is running" (handleKey): until a
\* reload starts an operation by itself, loading_ is set for as long as a worker runs.
\* The reload raises loading_ before it joins the worker whose last act lowers it
\* (loadSelectedEntry), and then input is taken while it runs.
LoadingCoversWorker == ~reloaded => (thread = "running" => loading)

\* The UI thread never changes the tree (refresh, re-root, search, expand)
\* while the worker is loading or rebuilding it (expandTreeNode).
TreeExclusive == ~(UiChangesTree /\ WorkerInTree)

\* Until a reload starts an operation by itself, what a key makes the UI thread ask
\* of the server (search, re-root, forms, Enter on a DN value) never meets a call of
\* the worker on the one LDAP handle and last error of LDAPConn.
ConnExclusive == ~reloaded => ~(KeyCalls /\ WorkerCalls)

\* A cancellation the user asked for is not withdrawn before the operation it
\* was meant for has looked at cancel_.
CancelIsKept == [][cancel /\ BeforeCheck => cancel']_vars

\* Until Enter on a DN value shows an entry past the pending slot, no result that comes
\* in late, reloads included, takes the panel back to the entry of an earlier request.
PanelNeverGoesBack == [][jumped' \/ panel'.entry >= panel.entry]_vars

(* Liveness. *)

\* What the liveness of the loop asks of the user: every popup is answered or left.
\* It is a hypothesis of the properties that need it, and no fairness of the code.
UserLeavesForms == ui = "form" ~> ui # "form"

\* Whatever the operation does, loading_ goes down and the keyboard is given back.
LoadingEnds == loading ~> ~loading

\* A result in the pending slot is taken out of it, unless the user quits or leaves a
\* popup open for ever.
SlotEmptied == UserLeavesForms => (pendingUpdate ~> (~pendingUpdate \/ ~running))

\* A successful delete, rename, move or add is followed by a refresh of the tree, unless
\* the user leaves a popup open for ever.
RefreshFollows == UserLeavesForms => (pendingRefreshTree ~> ui = "refreshing")

\* Quitting ends the program: the worker is cancelled and joined.
QuitEnds == ~running ~> ui = "done"
=============================================================================
