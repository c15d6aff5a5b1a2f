--------------------------- MODULE AppLoop_proofs ---------------------------
(***************************************************************************)
(* Theorems about the event loop and its worker, for any set of operations *)
(* and any number of requests.                                             *)
(***************************************************************************)
EXTENDS AppLoop, TLAPS

\* The operation handed to the worker is one the worker knows: what TypeOK
\* needs to be inductive (Spawn copies op into job.kind).
JobIsKnown == ui \in {"join", "spawn"} => op \in JobKinds

TypeInv == TypeOK /\ JobIsKnown

LEMMA TypeInvInit == Init => TypeInv
<1> SUFFICES ASSUME Init PROVE TypeInv
  OBVIOUS
<1>1. op \in OpKinds
  BY DEF Init, OpKinds, TreeOps
<1>2. job \in [kind : JobKinds, pc : JobLocations, ok : BOOLEAN, id : Nat]
  BY DEF Init, JobKinds, ReadJobs, JobLocations
<1>3. asked \in 0 .. MaxRequests
  BY MaxRequestsAssumption DEF Init
<1>4. box \in Slot /\ panel \in Slot
  BY DEF Init, Slot, EmptyBox
<1> QED
  BY <1>1, <1>2, <1>3, <1>4 DEF Init, TypeInv, TypeOK, JobIsKnown, UiLocations

LEMMA TypeInvStep == TypeInv /\ [Next]_vars => TypeInv'
<1> USE OpsAssumption, MaxRequestsAssumption
<1> USE DEF TypeInv, TypeOK, JobIsKnown, UiLocations, history
<1> SUFFICES ASSUME TypeInv, [Next]_vars PROVE TypeInv'
  OBVIOUS
<1>1. CASE UserStep
  <2>1. CASE Resize
    BY <2>1 DEF Resize, flags, slots, counters, workerVars
  <2>2. CASE Escape
    <3>1. panel' \in Slot
      BY <2>2 DEF Escape, Slot
    <3> QED
      BY <2>2, <3>1 DEF Escape, uiVars, counters, workerVars
  <2>3. CASE Quit
    BY <2>3 DEF Quit, flags, slots, counters, workerVars
  <2>4. ASSUME NEW o \in Ops, UserOp(o) PROVE TypeInv'
    <3>1. o \in OpKinds
      OBVIOUS
    <3>2. asked' \in 0 .. MaxRequests
      BY <2>4 DEF UserOp
    <3>3. CASE o \in JobsAtOnce /\ BeginJob(o)
      BY <2>4, <3>1, <3>2, <3>3 DEF UserOp, BeginJob, JobsAtOnce, slots, workerVars
    <3>4. CASE op' = o /\ ui' = "handle" /\ UNCHANGED flags
      BY <2>4, <3>1, <3>2, <3>4 DEF UserOp, flags, slots, workerVars
    <3> QED
      BY <2>4, <3>3, <3>4 DEF UserOp
  <2>5. CASE CloseForm
    BY <2>5 DEF CloseForm, flags, slots, counters, workerVars
  <2> QED
    BY <1>1, <2>1, <2>2, <2>3, <2>4, <2>5 DEF UserStep
<1>2. CASE UiStep
  <2>1. CASE NoKey \/ OpenForm
    BY <2>1 DEF NoKey, OpenForm, flags, slots, counters, workerVars
  <2>2. CASE EndHandle
    <3>1. op' \in OpKinds /\ JobIsKnown' /\ ui' \in UiLocations
      BY <2>2 DEF EndHandle, BeginJob, flags, JobKinds, OpKinds, ReadJobs
    <3>2. requests' \in Nat /\ panel' \in Slot
      BY <2>2 DEF EndHandle, Slot
    <3>3. loading' \in BOOLEAN /\ cancel' \in BOOLEAN /\ pendingUpdate' \in BOOLEAN
          /\ pendingRefreshTree' \in BOOLEAN /\ pendingReloadEntry' \in BOOLEAN
      BY <2>2 DEF EndHandle, BeginJob, flags
    <3>4. reloaded' \in BOOLEAN /\ jumped' \in BOOLEAN
      BY <2>2 DEF EndHandle
    <3> QED
      BY <2>2, <3>1, <3>2, <3>3, <3>4 DEF EndHandle, workerVars
  <2>3. CASE Join
    BY <2>3 DEF Join, flags, slots, counters
  <2>4. CASE Spawn
    <3>1. loading' \in BOOLEAN /\ cancel' \in BOOLEAN
      BY <2>4 DEF Spawn
    <3>2. ui' \in {"draw", "apply"}
      BY <2>4 DEF Spawn
    <3>3. job' \in [kind : JobKinds, pc : JobLocations, ok : BOOLEAN, id : Nat]
      BY <2>4 DEF Spawn, JobLocations
    <3> QED
      BY <2>4, <3>1, <3>2, <3>3 DEF Spawn, slots
  <2>5. CASE Apply
    BY <2>5 DEF Apply, flags, slots, counters, workerVars
  <2>6. CASE Show
    <3>1. panel' \in Slot
      BY <2>6 DEF Show, Slot
    <3> QED
      BY <2>6, <3>1 DEF Show, flags, counters, workerVars
  <2>7. CASE ShowLog
    <3>1. panel' \in Slot
      BY <2>7 DEF ShowLog, Slot
    <3> QED
      BY <2>7, <3>1 DEF ShowLog, flags, counters, workerVars
  <2>8. CASE ClearFlag
    BY <2>8 DEF ClearFlag, slots, counters, workerVars
  <2>9. CASE ClearBox
    <3>1. box' \in Slot
      BY <2>9 DEF ClearBox, Slot, EmptyBox
    <3> QED
      BY <2>9, <3>1 DEF ClearBox, flags, counters, workerVars
  <2>10. CASE Refresh
    <3>1. ui' \in {"refreshing", "reload"}
      BY <2>10 DEF Refresh
    <3>2. pendingRefreshTree' \in BOOLEAN
      BY <2>10 DEF Refresh
    <3>3. UNCHANGED <<op, inReload, running, loading, cancel, pendingUpdate,
                      pendingReloadEntry, slots, counters, history, workerVars>>
      BY <2>10 DEF Refresh
    <3> QED
      BY <3>1, <3>2, <3>3 DEF slots, counters, workerVars
  <2>11. CASE EndRefresh
    BY <2>11 DEF EndRefresh, flags, slots, counters, workerVars
  <2>12. CASE Reload
    <3>1. "load" \in OpKinds /\ "load" \in JobKinds
      BY DEF OpKinds, JobKinds, ReadJobs
    <3>4. reloaded' \in BOOLEAN /\ jumped' \in BOOLEAN
      BY <2>12 DEF Reload
    <3>2. CASE pendingReloadEntry
      BY <2>12, <3>1, <3>2, <3>4 DEF Reload, slots, counters, workerVars
    <3>3. CASE ~pendingReloadEntry
      <4>1. ui' = "draw" /\ pendingReloadEntry' = FALSE
        BY <2>12, <3>3 DEF Reload
      <4>2. UNCHANGED <<op, inReload, loading, cancel, running, pendingUpdate,
                        pendingRefreshTree, slots, counters, workerVars>>
        BY <2>12, <3>3 DEF Reload
      <4> QED
        BY <3>4, <4>1, <4>2 DEF slots, counters, workerVars
    <3> QED
      BY <3>2, <3>3
  <2>13. CASE Draw
    BY <2>13 DEF Draw, flags, slots, counters, workerVars
  <2>14. CASE Destroy
    BY <2>14 DEF Destroy, slots, counters, workerVars
  <2>15. CASE DestroyJoin
    BY <2>15 DEF DestroyJoin, flags, slots, counters
  <2> QED
    BY <1>2, <2>1, <2>2, <2>3, <2>4, <2>5, <2>6, <2>7, <2>8, <2>9, <2>10, <2>11, <2>12,
       <2>13, <2>14, <2>15 DEF UiStep
<1>3. CASE WorkerStep
  <2>g. ASSUME NEW loc \in JobLocations, Goto(loc)
        PROVE  job' \in [kind : JobKinds, pc : JobLocations, ok : BOOLEAN, id : Nat]
    BY <2>g DEF Goto
  <2>i. job.id \in Nat
    OBVIOUS
  <2>1. CASE WorkerCall
    <3>1. job' \in [kind : JobKinds, pc : JobLocations, ok : BOOLEAN, id : Nat]
      <4>1. ASSUME NEW ok \in BOOLEAN,
                   job' = [job EXCEPT !.pc = IF job.kind = "export" THEN "log" ELSE "check",
                                      !.ok = ok]
            PROVE  job' \in [kind : JobKinds, pc : JobLocations, ok : BOOLEAN, id : Nat]
        BY <4>1 DEF JobLocations
      <4>2. "log" \in JobLocations /\ "end" \in JobLocations
        BY DEF JobLocations
      <4>3. CASE Goto("log")
        BY <2>g, <4>2, <4>3
      <4>4. CASE Goto("end")
        BY <2>g, <4>2, <4>4
      <4> QED
        BY <2>1, <4>1, <4>3, <4>4 DEF WorkerCall
    <3>2. UNCHANGED <<uiVars, flags, slots, counters, history, thread>>
      BY <2>1 DEF WorkerCall
    <3> QED
      BY <3>1, <3>2 DEF counters, uiVars, flags, slots
  <2>2. CASE WorkerCheck
    <3>1. job' \in [kind : JobKinds, pc : JobLocations, ok : BOOLEAN, id : Nat]
      BY <2>g, <2>2 DEF WorkerCheck, JobLocations
    <3>2. UNCHANGED <<uiVars, flags, slots, counters, history, thread>>
      BY <2>i, <2>2 DEF WorkerCheck
    <3> QED
      BY <3>1, <3>2 DEF counters, uiVars, flags, slots
  <2>3. CASE WorkerMand
    <3>1. job' \in [kind : JobKinds, pc : JobLocations, ok : BOOLEAN, id : Nat]
      BY <2>g, <2>3 DEF WorkerMand, JobLocations
    <3>2. box' \in Slot
      BY <2>i, <2>3 DEF WorkerMand, Slot
    <3> QED
      BY <2>3, <3>1, <3>2 DEF WorkerMand, counters, uiVars, flags, slots
  <2>4. CASE WorkerEntry
    <3>1. job' \in [kind : JobKinds, pc : JobLocations, ok : BOOLEAN, id : Nat]
      BY <2>g, <2>4 DEF WorkerEntry, JobLocations
    <3>2. box' \in Slot
      BY <2>i, <2>4 DEF WorkerEntry, Slot
    <3> QED
      BY <2>4, <3>1, <3>2 DEF WorkerEntry, counters, uiVars, flags, slots
  <2>5. CASE WorkerRebuild
    <3>1. job' \in [kind : JobKinds, pc : JobLocations, ok : BOOLEAN, id : Nat]
      BY <2>g, <2>5 DEF WorkerRebuild, JobLocations
    <3>2. UNCHANGED <<uiVars, flags, slots, counters, history, thread>>
      BY <2>i, <2>5 DEF WorkerRebuild
    <3> QED
      BY <3>1, <3>2 DEF counters, uiVars, flags, slots
  <2>6. CASE WorkerLog
    <3>1. job' \in [kind : JobKinds, pc : JobLocations, ok : BOOLEAN, id : Nat]
      BY <2>g, <2>6 DEF WorkerLog, JobLocations
    <3>2. box' \in Slot
      BY <2>i, <2>6 DEF WorkerLog, Slot
    <3> QED
      BY <2>6, <3>1, <3>2 DEF WorkerLog, counters, uiVars, flags, slots
  <2>7. CASE WorkerAsk
    <3>1. job' \in [kind : JobKinds, pc : JobLocations, ok : BOOLEAN, id : Nat]
      BY <2>g, <2>7 DEF WorkerAsk, JobLocations
    <3>2. pendingRefreshTree' \in BOOLEAN /\ pendingReloadEntry' \in BOOLEAN
      BY <2>i, <2>7 DEF WorkerAsk
    <3> QED
      BY <2>7, <3>1, <3>2 DEF WorkerAsk, counters, uiVars, flags, slots
  <2>8. CASE WorkerFlag
    <3>1. job' \in [kind : JobKinds, pc : JobLocations, ok : BOOLEAN, id : Nat]
      BY <2>g, <2>8 DEF WorkerFlag, JobLocations
    <3>2. pendingUpdate' \in BOOLEAN
      BY <2>i, <2>8 DEF WorkerFlag
    <3> QED
      BY <2>8, <3>1, <3>2 DEF WorkerFlag, counters, uiVars, flags, slots
  <2>9. CASE WorkerEnd
    <3>1. loading' \in BOOLEAN /\ thread' \in {"none", "running", "exited"} /\ job' = job
      BY <2>9 DEF WorkerEnd
    <3> QED
      BY <2>9, <3>1 DEF WorkerEnd, counters, uiVars, slots
  <2> QED
    BY <1>3, <2>1, <2>2, <2>3, <2>4, <2>5, <2>6, <2>7, <2>8, <2>9 DEF WorkerStep
<1>4. CASE UNCHANGED vars
  BY <1>4 DEF vars, uiVars, flags, slots, counters, workerVars
<1> QED
  BY <1>1, <1>2, <1>3, <1>4 DEF Next, Terminated

\* Every variable keeps its type in every behaviour of the loop and its worker.
THEOREM TypeCorrect == Spec => []TypeOK
<1>1. Spec => []TypeInv
  BY TypeInvInit, TypeInvStep, PTL DEF Spec
<1>2. TypeInv => TypeOK
  BY DEF TypeInv
<1> QED
  BY <1>1, <1>2, PTL

-----------------------------------------------------------------------------
(* The keyboard and the thread slot. *)

\* loading_ is only ever raised on the way to a worker, or while one runs.
LoadingHasWorker == loading => thread = "running" \/ ui \in {"join", "spawn"}

\* Each of the four places that assign worker_ joins it in the statement before: an
\* operation is given to worker_ only when it holds no thread (assigning to a joinable
\* std::thread would end the program).
ThreadSlotFree == ui = "spawn" => thread = "none"

SlotInv == ThreadSlotFree /\ LoadingHasWorker

LEMMA SlotInvStep == SlotInv /\ [Next]_vars => SlotInv'
<1> USE DEF SlotInv, ThreadSlotFree, LoadingHasWorker
<1> SUFFICES ASSUME SlotInv, [Next]_vars PROVE SlotInv'
  OBVIOUS
<1>1. CASE UserStep
  <2>1. CASE Resize \/ Escape \/ Quit \/ CloseForm
    BY <2>1 DEF Resize, Escape, Quit, CloseForm, uiVars, flags, workerVars
  <2>2. ASSUME NEW o \in Ops, UserOp(o) PROVE SlotInv'
    BY <2>2 DEF UserOp, BeginJob, flags, workerVars
  <2> QED
    BY <1>1, <2>1, <2>2 DEF UserStep
<1>2. CASE UiStep
  <2>1. CASE EndHandle
    BY <2>1 DEF EndHandle, BeginJob, flags, workerVars
  <2>2. CASE Join \/ Spawn \/ DestroyJoin
    BY <2>2 DEF Join, Spawn, DestroyJoin, flags
  <2>3. CASE Apply \/ Refresh \/ Reload \/ Draw
    BY <2>3 DEF Apply, Refresh, Reload, Draw, flags, workerVars
  <2>4. CASE NoKey \/ OpenForm \/ Show \/ ShowLog \/ ClearFlag \/ ClearBox \/ EndRefresh \/ Destroy
    BY <2>4 DEF NoKey, OpenForm, Show, ShowLog, ClearFlag, ClearBox, EndRefresh, Destroy,
                flags, workerVars
  <2> QED
    BY <1>2, <2>1, <2>2, <2>3, <2>4 DEF UiStep
<1>3. CASE WorkerStep
  <2>1. CASE WorkerEnd
    BY <2>1 DEF WorkerEnd, At, uiVars
  <2>2. CASE WorkerCall \/ WorkerCheck
    <3>1. UNCHANGED <<ui, loading, thread>>
      BY <2>2 DEF WorkerCall, WorkerCheck, uiVars, flags
    <3> QED
      BY <3>1
  <2>3. CASE WorkerMand \/ WorkerEntry \/ WorkerRebuild \/ WorkerLog
    BY <2>3 DEF WorkerMand, WorkerEntry, WorkerRebuild, WorkerLog, uiVars, flags
  <2>4. CASE WorkerAsk \/ WorkerFlag
    BY <2>4 DEF WorkerAsk, WorkerFlag, uiVars
  <2> QED
    BY <1>3, <2>1, <2>2, <2>3, <2>4 DEF WorkerStep
<1>4. CASE UNCHANGED vars
  BY <1>4 DEF vars, uiVars, flags, workerVars
<1> QED
  BY <1>1, <1>2, <1>3, <1>4 DEF Next, Terminated

LEMMA SlotInvariant == Spec => []SlotInv
<1>1. Init => SlotInv
  BY DEF Init, SlotInv, ThreadSlotFree, LoadingHasWorker
<1> QED
  BY <1>1, SlotInvStep, PTL DEF Spec

\* The keyboard is locked only while a worker runs that will unlock it.
THEOREM KeyboardIsNotLocked == Spec => []KeyboardNotLocked
<1>1. SlotInv => KeyboardNotLocked
  BY DEF SlotInv, LoadingHasWorker, KeyboardNotLocked
<1> QED
  BY <1>1, SlotInvariant, PTL

-----------------------------------------------------------------------------
(* Cancellation. *)

\* While a key is handled, a form open included, no job runs under loading_.
FormOpen == ui \in {"handle", "form", "answered"} => ~loading /\ ~inReload

\* A read starts with cancel_ down, and so does the reload of the entry.
StartsUncancelled == ui \in {"join", "spawn"} => /\ op \notin Writes => ~cancel
                                                 /\ inReload => op \notin Writes

\* cancel_ is raised against an operation that has not looked at it yet only
\* with loading_ up (Escape), or when the program ends.
CancelledIsLoading == cancel /\ BeforeCheck => loading \/ ui = "dtorJoin"

\* A reload can be asked for while an operation that has not looked at cancel_
\* runs: that operation was started in the same iteration, before any Escape,
\* or with loading_ already taken down by the operation before it.
ReloadNotCancelled ==
    BeforeCheck /\ pendingReloadEntry =>
        /\ cancel => ui = "dtorJoin"
        /\ ui \in {"key", "draw"} => ~loading

\* The same, of a reload that is about to start its own operation.
ReloadStart ==
    ui \in {"join", "spawn"} /\ inReload /\ pendingReloadEntry
        => thread = "running" \/ ~loading

CancelInv == FormOpen /\ StartsUncancelled /\ CancelledIsLoading /\ ReloadNotCancelled
             /\ ReloadStart

LEMMA CancelInvStep == TypeOK /\ SlotInv /\ CancelInv /\ [Next]_vars => CancelInv'
<1> USE DEF CancelInv, FormOpen, StartsUncancelled, CancelledIsLoading, ReloadNotCancelled,
            ReloadStart, BeforeCheck
<1> SUFFICES ASSUME TypeOK, SlotInv, CancelInv, [Next]_vars PROVE CancelInv'
  OBVIOUS
<1>1. CASE UserStep
  <2>1. CASE Resize
    BY <2>1 DEF Resize, flags, workerVars
  <2>2. CASE Escape
    BY <2>2 DEF Escape, uiVars, workerVars
  <2>3. CASE Quit \/ CloseForm
    BY <2>3 DEF Quit, CloseForm, flags, workerVars
  <2>4. ASSUME NEW o \in Ops, UserOp(o) PROVE CancelInv'
    BY <2>4 DEF UserOp, BeginJob, JobsAtOnce, flags, workerVars, JobKinds
  <2> QED
    BY <1>1, <2>1, <2>2, <2>3, <2>4 DEF UserStep
<1>2. CASE UiStep
  <2>1. CASE EndHandle
    BY <2>1 DEF EndHandle, BeginJob, flags, workerVars, Writes, WriteTree, WriteEntry
  <2>2. CASE Join
    BY <2>2 DEF Join, flags
  <2>3. CASE Spawn
    BY <2>3 DEF Spawn, SlotInv, ThreadSlotFree
  <2>4. CASE Apply \/ Refresh \/ Draw
    BY <2>4 DEF Apply, Refresh, Draw, flags, workerVars
  <2>5. CASE Reload
    BY <2>5 DEF Reload, workerVars, Writes, WriteTree, WriteEntry
  <2>6. CASE NoKey \/ OpenForm \/ Show \/ ShowLog \/ ClearFlag \/ ClearBox \/ EndRefresh
    BY <2>6 DEF NoKey, OpenForm, Show, ShowLog, ClearFlag, ClearBox, EndRefresh, flags, workerVars
  <2>7. CASE Destroy
    BY <2>7 DEF Destroy, workerVars
  <2>8. CASE DestroyJoin
    BY <2>8 DEF DestroyJoin, flags
  <2> QED
    BY <1>2, <2>1, <2>2, <2>3, <2>4, <2>5, <2>6, <2>7, <2>8 DEF UiStep
<1>3. CASE WorkerStep
  <2> USE DEF At, Goto, uiVars, flags, TypeOK
  <2>1. CASE WorkerCall
    BY <2>1 DEF WorkerCall
  <2>2. CASE WorkerCheck
    BY <2>2 DEF WorkerCheck
  <2>3. CASE WorkerMand \/ WorkerEntry \/ WorkerRebuild \/ WorkerLog
    BY <2>3 DEF WorkerMand, WorkerEntry, WorkerRebuild, WorkerLog
  <2>4. CASE WorkerAsk \/ WorkerFlag
    BY <2>4 DEF WorkerAsk, WorkerFlag
  <2>5. CASE WorkerEnd
    BY <2>5 DEF WorkerEnd
  <2> QED
    BY <1>3, <2>1, <2>2, <2>3, <2>4, <2>5 DEF WorkerStep
<1>4. CASE UNCHANGED vars
  BY <1>4 DEF vars, uiVars, flags, workerVars
<1> QED
  BY <1>1, <1>2, <1>3, <1>4 DEF Next, Terminated

LEMMA CancelInvariant == Spec => [](TypeOK /\ SlotInv /\ CancelInv)
<1>1. Init => CancelInv
  BY DEF Init, CancelInv, FormOpen, StartsUncancelled, CancelledIsLoading, ReloadNotCancelled,
         ReloadStart
<1>2. TypeOK /\ SlotInv /\ CancelInv /\ [Next]_vars => CancelInv'
  BY CancelInvStep
<1> QED
  BY <1>1, <1>2, TypeCorrect, SlotInvariant, PTL DEF Spec

\* Escape is never lost: no step of either thread takes cancel_ down before the
\* operation it was raised against has looked at it.
THEOREM CancelKept == Spec => CancelIsKept
<1>1. ASSUME TypeOK, SlotInv, CancelInv, [Next]_vars, cancel, BeforeCheck
      PROVE  cancel'
  <2> USE <1>1 DEF CancelInv, FormOpen, StartsUncancelled, CancelledIsLoading,
                   ReloadNotCancelled, BeforeCheck
  <2>1. CASE UserStep
    <3>1. CASE Resize \/ Escape \/ Quit \/ CloseForm
      BY <3>1 DEF Resize, Escape, Quit, CloseForm, flags
    <3>2. ASSUME NEW o \in Ops, UserOp(o) PROVE cancel'
      BY <3>2 DEF UserOp
    <3> QED
      BY <2>1, <3>1, <3>2 DEF UserStep
  <2>2. CASE UiStep
    <3>1. CASE EndHandle
      BY <3>1 DEF EndHandle
    <3>2. CASE Spawn
      BY <3>2 DEF Spawn, SlotInv, ThreadSlotFree
    <3>3. CASE Reload
      BY <3>3 DEF Reload
    <3>4. CASE Join \/ Apply \/ Refresh \/ Draw \/ Destroy \/ DestroyJoin
      BY <3>4 DEF Join, Apply, Refresh, Draw, Destroy, DestroyJoin, flags
    <3>5. CASE NoKey \/ OpenForm \/ Show \/ ShowLog \/ ClearFlag \/ ClearBox \/ EndRefresh
      BY <3>5 DEF NoKey, OpenForm, Show, ShowLog, ClearFlag, ClearBox, EndRefresh, flags
    <3> QED
      BY <2>2, <3>1, <3>2, <3>3, <3>4, <3>5 DEF UiStep
  <2>3. CASE WorkerStep
    BY <2>3 DEF WorkerStep, WorkerCall, WorkerCheck, WorkerMand, WorkerEntry, WorkerRebuild,
                WorkerLog, WorkerAsk, WorkerFlag, WorkerEnd, flags
  <2>4. CASE UNCHANGED vars
    BY <2>4 DEF vars, flags
  <2> QED
    BY <2>1, <2>2, <2>3, <2>4 DEF Next, Terminated
<1>2. TypeOK /\ SlotInv /\ CancelInv /\ [Next]_vars => [cancel /\ BeforeCheck => cancel']_vars
  BY <1>1
<1> QED
  BY <1>2, CancelInvariant, PTL DEF Spec, CancelIsKept

-----------------------------------------------------------------------------
(* Before a reload starts an operation by itself. *)

\* An operation is started only after the previous one ended, under loading_.  The one
\* operation that is started while another may still run is that of Reload.
OneAtATime ==
    /\ ui \in {"handle", "form", "answered", "join", "spawn"} => thread # "running"
    /\ ui \in {"join", "spawn"} /\ op \notin Writes => loading
    /\ thread = "running" => loading

CoverInv == ~reloaded => OneAtATime

LEMMA CoverInvStep == TypeOK /\ CoverInv /\ [Next]_vars => CoverInv'
<1> USE DEF CoverInv, OneAtATime, history
<1> SUFFICES ASSUME TypeOK, CoverInv, [Next]_vars, ~reloaded' PROVE OneAtATime'
  OBVIOUS
<1>1. CASE UserStep
  <2>1. CASE Resize \/ Escape \/ Quit \/ CloseForm
    BY <2>1 DEF Resize, Escape, Quit, CloseForm, uiVars, flags, workerVars
  <2>2. ASSUME NEW o \in Ops, UserOp(o) PROVE OneAtATime'
    BY <2>2 DEF UserOp, BeginJob, JobsAtOnce, flags, workerVars, JobKinds
  <2> QED
    BY <1>1, <2>1, <2>2 DEF UserStep
<1>2. CASE UiStep
  <2>1. CASE EndHandle
    BY <2>1 DEF EndHandle, BeginJob, flags, workerVars, Writes, WriteTree, WriteEntry
  <2>2. CASE Join
    BY <2>2 DEF Join, flags
  <2>3. CASE Spawn
    BY <2>3 DEF Spawn
  <2>4. CASE Apply \/ Refresh \/ Draw \/ Reload \/ Destroy
    BY <2>4 DEF Apply, Refresh, Draw, Reload, Destroy, flags, workerVars, TypeOK
  <2>5. CASE NoKey \/ OpenForm \/ Show \/ ShowLog \/ ClearFlag \/ ClearBox \/ EndRefresh
    BY <2>5 DEF NoKey, OpenForm, Show, ShowLog, ClearFlag, ClearBox, EndRefresh, flags, workerVars
  <2>6. CASE DestroyJoin
    BY <2>6 DEF DestroyJoin, flags
  <2> QED
    BY <1>2, <2>1, <2>2, <2>3, <2>4, <2>5, <2>6 DEF UiStep
<1>3. CASE WorkerStep
  <2>1. CASE WorkerEnd
    BY <2>1 DEF WorkerEnd, At, uiVars
  <2>2. CASE WorkerCall \/ WorkerCheck \/ WorkerMand \/ WorkerEntry \/ WorkerRebuild \/ WorkerLog
    <3>1. UNCHANGED <<ui, op, loading, reloaded, thread>>
      BY <2>2 DEF WorkerCall, WorkerCheck, WorkerMand, WorkerEntry, WorkerRebuild, WorkerLog,
                  uiVars, flags
    <3> QED
      BY <3>1
  <2>3. CASE WorkerAsk \/ WorkerFlag
    <3>1. UNCHANGED <<ui, op, loading, reloaded, thread>>
      BY <2>3 DEF WorkerAsk, WorkerFlag, uiVars
    <3> QED
      BY <3>1
  <2> QED
    BY <1>3, <2>1, <2>2, <2>3 DEF WorkerStep
<1>4. CASE UNCHANGED vars
  BY <1>4 DEF vars, uiVars, flags, workerVars
<1> QED
  BY <1>1, <1>2, <1>3, <1>4 DEF Next, Terminated

LEMMA CoverInvariant == Spec => []CoverInv
<1>1. Init => CoverInv
  BY DEF Init, CoverInv, OneAtATime
<1> QED
  BY <1>1, CoverInvStep, TypeCorrect, PTL DEF Spec

\* As long as no reload has started an operation, input is ignored for as long as an
\* operation runs, whatever was written.  After one, it may not be: the reload raises
\* loading_ and then waits for the worker, which takes it down.
THEOREM LoadingCovers == Spec => []LoadingCoversWorker
<1>1. CoverInv => LoadingCoversWorker
  BY DEF CoverInv, OneAtATime, LoadingCoversWorker
<1> QED
  BY <1>1, CoverInvariant, PTL

\* As long as no reload has started an operation, the calls a key makes on the UI thread
\* never meet one of the worker on the handle of LDAPConn, which has no lock.
THEOREM OneCallAtATime == Spec => []ConnExclusive
<1>1. CoverInv => ConnExclusive
  BY DEF CoverInv, OneAtATime, ConnExclusive, KeyCalls, WorkerCalls
<1> QED
  BY <1>1, CoverInvariant, PTL

-----------------------------------------------------------------------------
(* The order of the entries shown. *)

\* Requests are numbered in the order they are made; as long as the UI thread has shown
\* no entry itself, the pending slot holds a request not older than the one on the panel,
\* and the worker the last one.
OrderInv ==
    ~jumped =>
        /\ thread = "running" => job.id = requests
        /\ panel.entry <= requests
        /\ box.entry <= requests
        /\ box.entry # 0 => panel.entry <= box.entry

LEMMA OrderInvStep ==
    ASSUME TypeOK, SlotInv, OrderInv, [Next]_vars
    PROVE  OrderInv' /\ (jumped' \/ panel'.entry >= panel.entry)
<1> USE DEF OrderInv, TypeOK, Slot, history
<1>1. CASE UserStep
  <2>1. CASE Resize \/ Escape \/ Quit \/ CloseForm
    BY <2>1 DEF Resize, Escape, Quit, CloseForm, uiVars, slots, counters, workerVars
  <2>2. ASSUME NEW o \in Ops, UserOp(o) PROVE OrderInv' /\ (jumped' \/ panel'.entry >= panel.entry)
    BY <2>2 DEF UserOp, BeginJob, slots, workerVars
  <2> QED
    BY <1>1, <2>1, <2>2 DEF UserStep
<1>2. CASE UiStep
  <2>1. CASE EndHandle
    BY <2>1 DEF EndHandle, BeginJob, workerVars
  <2>2. CASE Join \/ DestroyJoin
    BY <2>2 DEF Join, DestroyJoin, slots, counters
  <2>3. CASE Spawn
    BY <2>3 DEF Spawn, slots, SlotInv, ThreadSlotFree
  <2>4. CASE Show
    BY <2>4 DEF Show, counters, workerVars
  <2>5. CASE ShowLog \/ ClearBox
    BY <2>5 DEF ShowLog, ClearBox, EmptyBox, counters, workerVars
  <2>6. CASE Apply \/ Refresh \/ Draw \/ Reload \/ Destroy
    BY <2>6 DEF Apply, Refresh, Draw, Reload, Destroy, slots, counters, workerVars
  <2>7. CASE NoKey \/ OpenForm \/ ClearFlag \/ EndRefresh
    BY <2>7 DEF NoKey, OpenForm, ClearFlag, EndRefresh, slots, counters, workerVars
  <2> QED
    BY <1>2, <2>1, <2>2, <2>3, <2>4, <2>5, <2>6, <2>7 DEF UiStep
<1>3. CASE WorkerStep
  <2> USE DEF At, Goto, uiVars, counters
  <2>1. CASE WorkerCall
    <3>1. job'.id = job.id
      BY <2>1 DEF WorkerCall
    <3>2. UNCHANGED <<ui, op, jumped, slots, requests, thread>>
      BY <2>1 DEF WorkerCall
    <3> QED
      BY <3>1, <3>2 DEF slots
  <2>2. CASE WorkerCheck
    <3>1. job'.id = job.id
      BY <2>2 DEF WorkerCheck
    <3> QED
      BY <2>2, <3>1 DEF WorkerCheck, slots
  <2>3. CASE WorkerMand \/ WorkerEntry \/ WorkerLog
    BY <2>3 DEF WorkerMand, WorkerEntry, WorkerLog
  <2>4. CASE WorkerRebuild \/ WorkerAsk \/ WorkerFlag \/ WorkerEnd
    BY <2>4 DEF WorkerRebuild, WorkerAsk, WorkerFlag, WorkerEnd, slots
  <2> QED
    BY <1>3, <2>1, <2>2, <2>3, <2>4 DEF WorkerStep
<1>4. CASE UNCHANGED vars
  BY <1>4 DEF vars, uiVars, slots, counters, workerVars
<1> QED
  BY <1>1, <1>2, <1>3, <1>4 DEF Next, Terminated

\* As long as Enter on a DN value has not shown an entry past the pending slot, an entry
\* on the panel is never replaced by one that was asked for before it, whatever was
\* written and reloaded meanwhile.
THEOREM PanelOrder == Spec => PanelNeverGoesBack
<1>1. Init => OrderInv
  BY DEF Init, OrderInv, EmptyBox
<1>2. TypeOK /\ SlotInv /\ OrderInv /\ [Next]_vars => OrderInv'
  BY OrderInvStep
<1>3. TypeOK /\ SlotInv /\ OrderInv /\ [Next]_vars => [jumped' \/ panel'.entry >= panel.entry]_vars
  BY OrderInvStep
<1> QED
  BY <1>1, <1>2, <1>3, TypeCorrect, SlotInvariant, PTL DEF Spec, PanelNeverGoesBack

=============================================================================
