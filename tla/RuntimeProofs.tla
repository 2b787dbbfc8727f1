--------------------------- MODULE RuntimeProofs ---------------------------
(***************************************************************************)
(* The Runtime serves every call from a live instance: for any number of   *)
(* coroutines, handles, workspaces and bundles, whatever fails.            *)
(***************************************************************************)
EXTENDS Runtime, TLAPS

USE RuntimeAssumption DEF Bundles, FaultKinds

(* Initially nothing runs.                                                 *)
LEMMA InitInvariant == Init => RuntimeInvariant
BY DEF Init, RuntimeInvariant, TypeOK, InstanceTypeOK, TaskTypeOK, LockHeld, Serving,
       HandlesServed, CallsServed, OwnBundles, Owns, Locked, States, Labels, Ops

(* The end of an operation keeps the types of what it resets.              *)
LEMMA FinishTyped ==
    ASSUME TaskTypeOK, NEW t \in Tasks, Finish(t)
    PROVE  TaskTypeOK'
BY DEF TaskTypeOK, Finish, Goto, Labels, Ops

(* A failure is counted.                                                   *)
LEMMA FaultTyped ==
    ASSUME InstanceTypeOK, NEW f \in FaultKinds, Fault(f)
    PROVE  faults' \in [FaultKinds -> Nat]
BY SMTT(40) DEF InstanceTypeOK, Fault

(* Asking for an operation changes the asker only.                         *)
LEMMA RequestStep ==
    ASSUME RuntimeInvariant, NEW t \in Tasks, Request(t)
    PROVE  RuntimeInvariant'
<1>1. CASE Boot(t)
  BY SMTT(60), <1>1 DEF Boot, Begins, Idle, Goto, RuntimeInvariant, TypeOK, InstanceTypeOK,
     States, TaskTypeOK, Labels, Ops, LockHeld, Locked, Serving, HandlesServed,
     CallsServed, OwnBundles, Owns, lifeVars, handleVars, lockVars, discVars, taskVars
<1>2. CASE Shutdown(t)
  BY SMTT(40), <1>2 DEF Shutdown, Begins, Idle, Goto, RuntimeInvariant, TypeOK, InstanceTypeOK,
     States, TaskTypeOK, Labels, Ops, LockHeld, Locked, Serving, HandlesServed,
     CallsServed, OwnBundles, Owns, lifeVars, handleVars, lockVars, discVars, taskVars
<1>3. ASSUME NEW w \in Workspaces, Switch(t, w) PROVE RuntimeInvariant'
  BY SMTT(40), <1>3 DEF Switch, Begins, Idle, Goto, RuntimeInvariant, TypeOK, InstanceTypeOK,
     States, TaskTypeOK, Labels, Ops, LockHeld, Locked, Serving, HandlesServed,
     CallsServed, OwnBundles, Owns, lifeVars, handleVars, lockVars, discVars, taskVars
<1>4. ASSUME NEW w \in Workspaces, DeleteActive(t, w) PROVE RuntimeInvariant'
  BY SMTT(60), <1>4 DEF DeleteActive, MayDelete, Begins, Idle, Goto, RuntimeInvariant, TypeOK,
     InstanceTypeOK, States, TaskTypeOK, Labels, Ops, LockHeld, Locked, Serving,
     HandlesServed, CallsServed, OwnBundles, Owns, lifeVars, handleVars, lockVars,
     discVars, taskVars
<1>5. ASSUME NEW w \in Workspaces, NEW b \in Bundles, DeleteOther(t, w, b) PROVE RuntimeInvariant'
  <2>1. InstanceTypeOK'
    BY <1>5 DEF DeleteOther, MayDelete, Fresh, Free, Begins, Idle, Goto,
       RuntimeInvariant, TypeOK, InstanceTypeOK, States, TaskTypeOK, lifeVars,
       handleVars, lockVars, discVars, taskVars
  <2>2. TaskTypeOK'
    BY <1>5 DEF DeleteOther, MayDelete, Fresh, Free, Begins, Idle, Goto,
       RuntimeInvariant, TypeOK, TaskTypeOK, Labels, Ops, InstanceTypeOK, lifeVars,
       handleVars, lockVars, discVars, taskVars
  <2>3. LockHeld'
    BY <1>5 DEF DeleteOther, MayDelete, Fresh, Free, Begins, Idle, Goto,
       RuntimeInvariant, TypeOK, LockHeld, Locked, TaskTypeOK, InstanceTypeOK,
       lifeVars, handleVars, lockVars, discVars, taskVars
  <2>4. Serving'
    BY <1>5 DEF DeleteOther, MayDelete, Fresh, Free, Begins, Idle, Goto,
       RuntimeInvariant, TypeOK, Serving, InstanceTypeOK, TaskTypeOK, LockHeld,
       OwnBundles, Owns, lifeVars, handleVars, lockVars, discVars, taskVars
  <2>5. HandlesServed'
    BY <1>5 DEF DeleteOther, MayDelete, Fresh, Free, Begins, Idle, Goto,
       RuntimeInvariant, TypeOK, HandlesServed, InstanceTypeOK, TaskTypeOK, LockHeld,
       Locked, lifeVars, handleVars, lockVars, discVars, taskVars
  <2>6. CallsServed'
    BY <1>5 DEF DeleteOther, MayDelete, Fresh, Free, Begins, Idle, Goto,
       RuntimeInvariant, TypeOK, CallsServed, InstanceTypeOK, TaskTypeOK,
       HandlesServed, LockHeld, Locked, Serving, lifeVars, handleVars, lockVars,
       discVars, taskVars
  <2>7. OwnBundles'
    BY SMTT(60), <1>5 DEF DeleteOther, MayDelete, Fresh, Free, Begins, Idle, Goto,
       RuntimeInvariant, TypeOK, OwnBundles, Owns, InstanceTypeOK, TaskTypeOK,
       LockHeld, Serving, lifeVars, handleVars, lockVars, discVars, taskVars
  <2> QED BY <2>1, <2>2, <2>3, <2>4, <2>5, <2>6, <2>7 DEF RuntimeInvariant, TypeOK
<1>6. ASSUME NEW h \in Handles, CloseHandle(t, h) PROVE RuntimeInvariant'
  BY SMTT(60), <1>6 DEF CloseHandle, Quiet, Idle, Goto, RuntimeInvariant, TypeOK,
     InstanceTypeOK, States, TaskTypeOK, Labels, Ops, LockHeld, Locked, Serving,
     HandlesServed, CallsServed, OwnBundles, Owns, lifeVars, handleVars, lockVars,
     discVars, taskVars
<1>7. ASSUME NEW h \in Handles, UseBegin(t, h) PROVE RuntimeInvariant'
  BY SMTT(60), <1>7 DEF UseBegin, Usable, Idle, Goto, RuntimeInvariant, TypeOK, InstanceTypeOK,
     States, TaskTypeOK, Labels, Ops, LockHeld, Locked, Serving, HandlesServed,
     CallsServed, OwnBundles, Owns, lifeVars, handleVars, lockVars, discVars, taskVars
<1> QED BY <1>1, <1>2, <1>3, <1>4, <1>5, <1>6, <1>7 DEF Request

(* An operation under way, one step of its coroutine.                      *)
LEMMA ProceedStep ==
    ASSUME RuntimeInvariant, NEW t \in Tasks, Proceed(t)
    PROVE  RuntimeInvariant'
<1>1. CASE TakeLock(t)
  BY <1>1 DEF TakeLock, Wants, LockFree, RuntimeInvariant, TypeOK, InstanceTypeOK,
     States, TaskTypeOK, Labels, Ops, LockHeld, Locked, Serving, HandlesServed,
     CallsServed, OwnBundles, Owns, lifeVars, handleVars, lockVars, discVars, taskVars
<1>2. CASE WaitForLock(t)
  BY SMTT(40), <1>2 DEF WaitForLock, Wants, LockFree, RuntimeInvariant, TypeOK, InstanceTypeOK,
     States, TaskTypeOK, Labels, Ops, LockHeld, Locked, Serving, HandlesServed,
     CallsServed, OwnBundles, Owns, lifeVars, handleVars, lockVars, discVars, taskVars
<1>3. CASE GetLock(t)
  <2>1. InstanceTypeOK'
    BY SMTT(60), <1>3 DEF GetLock, Wants, LockFree, RuntimeInvariant, TypeOK, InstanceTypeOK,
       States, TaskTypeOK, lifeVars, handleVars, lockVars, discVars, taskVars
  <2>2. TaskTypeOK'
    BY <1>3 DEF GetLock, Wants, LockFree, RuntimeInvariant, TypeOK, TaskTypeOK,
       Labels, Ops, InstanceTypeOK, lifeVars, handleVars, lockVars, discVars, taskVars
  <2>3. LockHeld'
    BY <1>3 DEF GetLock, Wants, LockFree, RuntimeInvariant, TypeOK, LockHeld, Locked,
       TaskTypeOK, InstanceTypeOK, lifeVars, handleVars, lockVars, discVars, taskVars
  <2>4. Serving'
    BY <1>3 DEF GetLock, Wants, LockFree, RuntimeInvariant, TypeOK, Serving,
       InstanceTypeOK, TaskTypeOK, LockHeld, OwnBundles, Owns, lifeVars, handleVars,
       lockVars, discVars, taskVars
  <2>5. HandlesServed'
    BY <1>3 DEF GetLock, Wants, LockFree, RuntimeInvariant, TypeOK, HandlesServed,
       InstanceTypeOK, TaskTypeOK, LockHeld, Locked, lifeVars, handleVars, lockVars,
       discVars, taskVars
  <2>6. CallsServed'
    BY <1>3 DEF GetLock, Wants, LockFree, RuntimeInvariant, TypeOK, CallsServed,
       InstanceTypeOK, TaskTypeOK, HandlesServed, LockHeld, Locked, Serving, lifeVars,
       handleVars, lockVars, discVars, taskVars
  <2>7. OwnBundles'
    BY SMTT(60), <1>3 DEF GetLock, Wants, LockFree, RuntimeInvariant, TypeOK, OwnBundles, Owns,
       InstanceTypeOK, TaskTypeOK, LockHeld, Serving, lifeVars, handleVars, lockVars,
       discVars, taskVars
  <2> QED BY <2>1, <2>2, <2>3, <2>4, <2>5, <2>6, <2>7 DEF RuntimeInvariant, TypeOK
<1>4. CASE InitRefused(t)
  BY SMTT(60), <1>4 DEF InitRefused, Continues, Finish, Goto, RuntimeInvariant, TypeOK,
     InstanceTypeOK, States, TaskTypeOK, Labels, Ops, LockHeld, Locked, Serving,
     HandlesServed, CallsServed, OwnBundles, Owns, lifeVars, handleVars, lockVars,
     discVars, taskVars
<1>5. CASE InitUnknown(t)
  BY SMTT(60), <1>5 DEF InitUnknown, InitFails, MayInitialize, Continues, Finish, Goto,
     RuntimeInvariant, TypeOK, InstanceTypeOK, States, TaskTypeOK, Labels, Ops,
     LockHeld, Locked, Serving, HandlesServed, CallsServed, OwnBundles, Owns,
     lifeVars, handleVars, lockVars, discVars, taskVars
<1>6. ASSUME NEW b \in Bundles, Build(t, b) PROVE RuntimeInvariant'
  <2>1. InstanceTypeOK'
    BY <1>6 DEF Build, MayInitialize, Selected, Fresh, Free, Continues, Goto,
       RuntimeInvariant, TypeOK, InstanceTypeOK, States, TaskTypeOK, lifeVars,
       handleVars, lockVars, discVars, taskVars
  <2>2. TaskTypeOK'
    BY <1>6 DEF Build, MayInitialize, Selected, Fresh, Free, Continues, Goto,
       RuntimeInvariant, TypeOK, TaskTypeOK, Labels, Ops, InstanceTypeOK, lifeVars,
       handleVars, lockVars, discVars, taskVars
  <2>3. LockHeld'
    BY <1>6 DEF Build, MayInitialize, Selected, Fresh, Free, Continues, Goto,
       RuntimeInvariant, TypeOK, LockHeld, Locked, TaskTypeOK, InstanceTypeOK,
       lifeVars, handleVars, lockVars, discVars, taskVars
  <2>4. Serving'
    BY <1>6 DEF Build, MayInitialize, Selected, Fresh, Free, Continues, Goto,
       RuntimeInvariant, TypeOK, Serving, InstanceTypeOK, TaskTypeOK, LockHeld,
       OwnBundles, Owns, lifeVars, handleVars, lockVars, discVars, taskVars
  <2>5. HandlesServed'
    BY <1>6 DEF Build, MayInitialize, Selected, Fresh, Free, Continues, Goto,
       RuntimeInvariant, TypeOK, HandlesServed, InstanceTypeOK, TaskTypeOK, LockHeld,
       Locked, lifeVars, handleVars, lockVars, discVars, taskVars
  <2>6. CallsServed'
    BY <1>6 DEF Build, MayInitialize, Selected, Fresh, Free, Continues, Goto,
       RuntimeInvariant, TypeOK, CallsServed, InstanceTypeOK, TaskTypeOK,
       HandlesServed, LockHeld, Locked, Serving, lifeVars, handleVars, lockVars,
       discVars, taskVars
  <2>7. OwnBundles'
    BY SMTT(60), <1>6 DEF Build, MayInitialize, Selected, Fresh, Free, Continues, Goto,
       RuntimeInvariant, TypeOK, OwnBundles, Owns, InstanceTypeOK, TaskTypeOK,
       LockHeld, Serving, lifeVars, handleVars, lockVars, discVars, taskVars
  <2> QED BY <2>1, <2>2, <2>3, <2>4, <2>5, <2>6, <2>7 DEF RuntimeInvariant, TypeOK
<1>7. CASE Ready(t)
  <2>1. InstanceTypeOK'
    BY <1>7 DEF Ready, Chosen, Resumes, Finish, Goto, RuntimeInvariant, TypeOK,
       InstanceTypeOK, States, TaskTypeOK, lifeVars, handleVars, lockVars, discVars,
       taskVars
  <2>2. TaskTypeOK'
    BY <1>7, FinishTyped DEF Ready, Chosen, Resumes, RuntimeInvariant, TypeOK,
       TaskTypeOK, Labels, Ops, InstanceTypeOK, lifeVars, handleVars, lockVars,
       discVars, taskVars
  <2>3. LockHeld'
    BY <1>7 DEF Ready, Chosen, Resumes, Finish, Goto, RuntimeInvariant, TypeOK,
       LockHeld, Locked, TaskTypeOK, InstanceTypeOK, lifeVars, handleVars, lockVars,
       discVars, taskVars
  <2>4. Serving'
    BY <1>7 DEF Ready, Chosen, Resumes, Finish, Goto, RuntimeInvariant, TypeOK,
       Serving, InstanceTypeOK, TaskTypeOK, LockHeld, OwnBundles, Owns, lifeVars,
       handleVars, lockVars, discVars, taskVars
  <2>5. HandlesServed'
    BY <1>7 DEF Ready, Chosen, Resumes, Finish, Goto, RuntimeInvariant, TypeOK,
       HandlesServed, InstanceTypeOK, TaskTypeOK, LockHeld, Locked, lifeVars,
       handleVars, lockVars, discVars, taskVars
  <2>6. CallsServed'
    BY <1>7 DEF Ready, Chosen, Resumes, Finish, Goto, RuntimeInvariant, TypeOK,
       CallsServed, InstanceTypeOK, TaskTypeOK, HandlesServed, LockHeld, Locked,
       Serving, lifeVars, handleVars, lockVars, discVars, taskVars
  <2>7. OwnBundles'
    BY SMTT(60), <1>7 DEF Ready, Chosen, Resumes, Finish, Goto, RuntimeInvariant, TypeOK,
       OwnBundles, Owns, InstanceTypeOK, TaskTypeOK, LockHeld, Serving, lifeVars,
       handleVars, lockVars, discVars, taskVars
  <2> QED BY <2>1, <2>2, <2>3, <2>4, <2>5, <2>6, <2>7 DEF RuntimeInvariant, TypeOK
<1>8. CASE DestroyNothing(t)
  <2>1. InstanceTypeOK'
    BY <1>8 DEF DestroyNothing, Destroyed, Continues, Finish, Goto, RuntimeInvariant,
       TypeOK, InstanceTypeOK, States, TaskTypeOK, lifeVars, handleVars, lockVars,
       discVars, taskVars
  <2>2. TaskTypeOK'
    BY SMTT(40), <1>8, FinishTyped DEF DestroyNothing, Destroyed, Continues, Goto,
       RuntimeInvariant, TypeOK, TaskTypeOK, Labels, Ops, InstanceTypeOK, lifeVars,
       handleVars, lockVars, discVars, taskVars
  <2>3. LockHeld'
    BY SMTT(60), <1>8 DEF DestroyNothing, Destroyed, Continues, Finish, Goto, RuntimeInvariant,
       TypeOK, LockHeld, Locked, TaskTypeOK, InstanceTypeOK, lifeVars, handleVars,
       lockVars, discVars, taskVars
  <2>4. Serving'
    BY <1>8 DEF DestroyNothing, Destroyed, Continues, Finish, Goto, RuntimeInvariant,
       TypeOK, Serving, InstanceTypeOK, TaskTypeOK, LockHeld, OwnBundles, Owns,
       lifeVars, handleVars, lockVars, discVars, taskVars
  <2>5. HandlesServed'
    BY <1>8 DEF DestroyNothing, Destroyed, Continues, Finish, Goto, RuntimeInvariant,
       TypeOK, HandlesServed, InstanceTypeOK, TaskTypeOK, LockHeld, Locked, lifeVars,
       handleVars, lockVars, discVars, taskVars
  <2>6. CallsServed'
    BY SMTT(60), <1>8 DEF DestroyNothing, Destroyed, Continues, Finish, Goto, RuntimeInvariant,
       TypeOK, CallsServed, InstanceTypeOK, TaskTypeOK, HandlesServed, LockHeld,
       Locked, Serving, lifeVars, handleVars, lockVars, discVars, taskVars
  <2>7. OwnBundles'
    BY SMTT(60), <1>8 DEF DestroyNothing, Destroyed, Continues, Finish, Goto, RuntimeInvariant,
       TypeOK, OwnBundles, Owns, InstanceTypeOK, TaskTypeOK, LockHeld, Serving,
       lifeVars, handleVars, lockVars, discVars, taskVars
  <2> QED BY <2>1, <2>2, <2>3, <2>4, <2>5, <2>6, <2>7 DEF RuntimeInvariant, TypeOK
<1>9. CASE StartDrain(t)
  <2>1. InstanceTypeOK'
    BY <1>9 DEF StartDrain, Continues, Goto, RuntimeInvariant, TypeOK, InstanceTypeOK,
       States, TaskTypeOK, lifeVars, handleVars, lockVars, discVars, taskVars
  <2>2. TaskTypeOK'
    BY <1>9 DEF StartDrain, Continues, Goto, RuntimeInvariant, TypeOK, TaskTypeOK,
       Labels, Ops, InstanceTypeOK, lifeVars, handleVars, lockVars, discVars, taskVars
  <2>3. LockHeld'
    BY SMTT(60), <1>9 DEF StartDrain, Continues, Goto, RuntimeInvariant, TypeOK, LockHeld,
       Locked, TaskTypeOK, InstanceTypeOK, lifeVars, handleVars, lockVars, discVars,
       taskVars
  <2>4. Serving'
    BY <1>9 DEF StartDrain, Continues, Goto, RuntimeInvariant, TypeOK, Serving,
       InstanceTypeOK, TaskTypeOK, LockHeld, OwnBundles, Owns, lifeVars, handleVars,
       lockVars, discVars, taskVars
  <2>5. HandlesServed'
    BY <1>9 DEF StartDrain, Continues, Goto, RuntimeInvariant, TypeOK, HandlesServed,
       InstanceTypeOK, TaskTypeOK, LockHeld, Locked, lifeVars, handleVars, lockVars,
       discVars, taskVars
  <2>6. CallsServed'
    BY <1>9 DEF StartDrain, Continues, Goto, RuntimeInvariant, TypeOK, CallsServed,
       InstanceTypeOK, TaskTypeOK, HandlesServed, LockHeld, Locked, Serving, lifeVars,
       handleVars, lockVars, discVars, taskVars
  <2>7. OwnBundles'
    BY SMTT(60), <1>9 DEF StartDrain, Continues, Goto, RuntimeInvariant, TypeOK, OwnBundles,
       Owns, InstanceTypeOK, TaskTypeOK, LockHeld, Serving, lifeVars, handleVars,
       lockVars, discVars, taskVars
  <2> QED BY <2>1, <2>2, <2>3, <2>4, <2>5, <2>6, <2>7 DEF RuntimeInvariant, TypeOK
<1>10. CASE Drained(t)
  <2>1. InstanceTypeOK'
    BY SMTT(60), <1>10 DEF Drained, AllIdle, Quiet, Goto, RuntimeInvariant, TypeOK,
       InstanceTypeOK, States, TaskTypeOK, lifeVars, handleVars, lockVars, discVars,
       taskVars
  <2>2. TaskTypeOK'
    BY <1>10 DEF Drained, AllIdle, Quiet, Goto, RuntimeInvariant, TypeOK, TaskTypeOK,
       Labels, Ops, InstanceTypeOK, lifeVars, handleVars, lockVars, discVars, taskVars
  <2>3. LockHeld'
    BY SMTT(60), <1>10 DEF Drained, AllIdle, Quiet, Goto, RuntimeInvariant, TypeOK, LockHeld,
       Locked, TaskTypeOK, InstanceTypeOK, lifeVars, handleVars, lockVars, discVars,
       taskVars
  <2>4. Serving'
    BY <1>10 DEF Drained, AllIdle, Quiet, Goto, RuntimeInvariant, TypeOK, Serving,
       InstanceTypeOK, TaskTypeOK, LockHeld, OwnBundles, Owns, lifeVars, handleVars,
       lockVars, discVars, taskVars
  <2>5. HandlesServed'
    BY <1>10 DEF Drained, AllIdle, Quiet, Goto, RuntimeInvariant, TypeOK,
       HandlesServed, InstanceTypeOK, TaskTypeOK, LockHeld, Locked, lifeVars,
       handleVars, lockVars, discVars, taskVars
  <2>6. CallsServed'
    BY SMTT(60), <1>10 DEF Drained, AllIdle, Quiet, Goto, RuntimeInvariant, TypeOK, CallsServed,
       InstanceTypeOK, TaskTypeOK, HandlesServed, LockHeld, Locked, Serving, lifeVars,
       handleVars, lockVars, discVars, taskVars
  <2>7. OwnBundles'
    BY <1>10 DEF Drained, AllIdle, Quiet, Goto, RuntimeInvariant, TypeOK, OwnBundles,
       Owns, InstanceTypeOK, TaskTypeOK, LockHeld, Serving, lifeVars, handleVars,
       lockVars, discVars, taskVars
  <2> QED BY <2>1, <2>2, <2>3, <2>4, <2>5, <2>6, <2>7 DEF RuntimeInvariant, TypeOK
<1>11. CASE Finalized(t)
  <2>1. InstanceTypeOK'
    BY <1>11 DEF Finalized, Torn, Destroyed, Finish, Goto, RuntimeInvariant, TypeOK,
       InstanceTypeOK, States, TaskTypeOK, lifeVars, handleVars, lockVars, discVars,
       taskVars
  <2>2. TaskTypeOK'
    BY ZenonT(90), <1>11, FinishTyped DEF Finalized, Torn, Destroyed, Goto, RuntimeInvariant,
       TypeOK, TaskTypeOK, Labels, Ops, InstanceTypeOK, lifeVars, handleVars,
       lockVars, discVars, taskVars
  <2>3. LockHeld'
    BY SMTT(60), <1>11 DEF Finalized, Torn, Destroyed, Finish, Goto, RuntimeInvariant, TypeOK,
       LockHeld, Locked, TaskTypeOK, InstanceTypeOK, lifeVars, handleVars, lockVars,
       discVars, taskVars
  <2>4. Serving'
    BY <1>11 DEF Finalized, Torn, Destroyed, Finish, Goto, RuntimeInvariant, TypeOK,
       Serving, InstanceTypeOK, TaskTypeOK, LockHeld, OwnBundles, Owns, lifeVars,
       handleVars, lockVars, discVars, taskVars
  <2>5. HandlesServed'
    BY <1>11 DEF Finalized, Torn, Destroyed, Finish, Goto, RuntimeInvariant, TypeOK,
       HandlesServed, InstanceTypeOK, TaskTypeOK, LockHeld, Locked, lifeVars,
       handleVars, lockVars, discVars, taskVars
  <2>6. CallsServed'
    BY SMTT(60), <1>11 DEF Finalized, Torn, Destroyed, Finish, Goto, RuntimeInvariant, TypeOK,
       CallsServed, InstanceTypeOK, TaskTypeOK, HandlesServed, LockHeld, Locked,
       Serving, lifeVars, handleVars, lockVars, discVars, taskVars
  <2>7. OwnBundles'
    BY SMTT(40), <1>11 DEF Finalized, Torn, Destroyed, Finish, Goto, RuntimeInvariant, TypeOK,
       OwnBundles, Owns, InstanceTypeOK, TaskTypeOK, LockHeld, Serving, lifeVars,
       handleVars, lockVars, discVars, taskVars
  <2> QED BY <2>1, <2>2, <2>3, <2>4, <2>5, <2>6, <2>7 DEF RuntimeInvariant, TypeOK
<1>12. CASE TempStarted(t)
  BY SMTT(60), <1>12 DEF TempStarted, Resumes, Goto, RuntimeInvariant, TypeOK, InstanceTypeOK,
     States, TaskTypeOK, Labels, Ops, LockHeld, Locked, Serving, HandlesServed,
     CallsServed, OwnBundles, Owns, lifeVars, handleVars, lockVars, discVars, taskVars
<1>13. CASE Cleared(t)
  BY SMTT(40), <1>13 DEF Cleared, Resumes, Goto, RuntimeInvariant, TypeOK, InstanceTypeOK,
     States, TaskTypeOK, Labels, Ops, LockHeld, Locked, Serving, HandlesServed,
     CallsServed, OwnBundles, Owns, lifeVars, handleVars, lockVars, discVars, taskVars
<1>14. CASE TempFinalized(t)
  BY SMTT(40), <1>14 DEF TempFinalized, Resumes, Goto, RuntimeInvariant, TypeOK, InstanceTypeOK,
     States, TaskTypeOK, Labels, Ops, LockHeld, Locked, Serving, HandlesServed,
     CallsServed, OwnBundles, Owns, lifeVars, handleVars, lockVars, discVars, taskVars
<1>15. CASE Removed(t)
  <2>1. InstanceTypeOK'
    BY <1>15 DEF Removed, Drop, Replace, Continues, Finish, Goto, RuntimeInvariant,
       TypeOK, InstanceTypeOK, States, TaskTypeOK, lifeVars, handleVars, lockVars,
       discVars, taskVars
  <2>2. TaskTypeOK'
    <3>1. CASE mine[t]
      <4>0. chosen' \in Workspaces BY <2>1 DEF InstanceTypeOK
      <4>1. tgt' \in [Tasks -> Workspaces \cup {None}]
        BY <1>15, <3>1, <4>0 DEF Removed, Replace, RuntimeInvariant, TypeOK,
           TaskTypeOK
      <4>2. pc' \in [Tasks -> Labels] /\ op' \in [Tasks -> Ops]
        BY <1>15, <3>1, <4>0 DEF Removed, Replace, Goto, RuntimeInvariant, TypeOK,
           TaskTypeOK, Labels, Ops
      <4> QED
        BY <4>1, <4>2, <1>15, <3>1, <4>0 DEF Removed, Replace, RuntimeInvariant,
           TypeOK, TaskTypeOK
    <3>2. CASE ~mine[t]
      BY <1>15, FinishTyped, <3>2 DEF Removed, Replace, Continues, RuntimeInvariant,
         TypeOK, TaskTypeOK, Labels, Ops, InstanceTypeOK, lifeVars, handleVars,
         lockVars, discVars, taskVars
    <3> QED BY <3>1, <3>2
  <2>3. LockHeld'
    BY <1>15 DEF Removed, Drop, Replace, Continues, Finish, Goto, RuntimeInvariant,
       TypeOK, LockHeld, Locked, TaskTypeOK, InstanceTypeOK, lifeVars, handleVars,
       lockVars, discVars, taskVars
  <2>4. Serving'
    BY <1>15 DEF Removed, Drop, Replace, Continues, Finish, Goto, RuntimeInvariant,
       TypeOK, Serving, InstanceTypeOK, TaskTypeOK, LockHeld, OwnBundles, Owns,
       lifeVars, handleVars, lockVars, discVars, taskVars
  <2>5. HandlesServed'
    <3>1. CASE mine[t]
      BY <1>15, <3>1 DEF Removed, Drop, Replace, Continues, Goto, RuntimeInvariant,
         TypeOK, HandlesServed, InstanceTypeOK, TaskTypeOK, LockHeld, Locked,
         lifeVars, handleVars, lockVars, discVars, taskVars
    <3>2. CASE ~mine[t]
      BY SMTT(60), <1>15, <3>2 DEF Removed, Drop, Replace, Continues, Finish, Goto,
         RuntimeInvariant, TypeOK, HandlesServed, InstanceTypeOK, TaskTypeOK,
         LockHeld, Locked, lifeVars, handleVars, lockVars, discVars, taskVars
    <3> QED BY <3>1, <3>2
  <2>6. CallsServed'
    BY SMTT(60), <1>15 DEF Removed, Drop, Replace, Continues, Finish, Goto, RuntimeInvariant,
       TypeOK, CallsServed, InstanceTypeOK, TaskTypeOK, HandlesServed, LockHeld,
       Locked, Serving, lifeVars, handleVars, lockVars, discVars, taskVars
  <2>7. OwnBundles'
    BY SMTT(40), <1>15 DEF Removed, Drop, Replace, Continues, Finish, Goto, RuntimeInvariant,
       TypeOK, OwnBundles, Owns, InstanceTypeOK, TaskTypeOK, LockHeld, Serving,
       lifeVars, handleVars, lockVars, discVars, taskVars
  <2> QED BY <2>1, <2>2, <2>3, <2>4, <2>5, <2>6, <2>7 DEF RuntimeInvariant, TypeOK
<1>16. CASE CloseDone(t)
  BY SMTT(60), <1>16 DEF CloseDone, Quiet, Finish, Goto, RuntimeInvariant, TypeOK,
     InstanceTypeOK, States, TaskTypeOK, Labels, Ops, LockHeld, Locked, Serving,
     HandlesServed, CallsServed, OwnBundles, Owns, lifeVars, handleVars, lockVars,
     discVars, taskVars
<1>17. CASE UseEnd(t)
  BY SMTT(60), <1>17 DEF UseEnd, Resumes, Finish, Goto, RuntimeInvariant, TypeOK,
     InstanceTypeOK, States, TaskTypeOK, Labels, Ops, LockHeld, Locked, Serving,
     HandlesServed, CallsServed, OwnBundles, Owns, lifeVars, handleVars, lockVars,
     discVars, taskVars
<1> QED BY <1>1, <1>2, <1>3, <1>4, <1>5, <1>6, <1>7, <1>8, <1>9, <1>10, <1>11, <1>12,
       <1>13, <1>14, <1>15, <1>16, <1>17 DEF Proceed

(* A step that fails.                                                      *)
LEMMA FailureStep ==
    ASSUME RuntimeInvariant, NEW t \in Tasks, Failure(t)
    PROVE  RuntimeInvariant'
<1>1. CASE BuildFails(t)
  <2>1. InstanceTypeOK'
    BY <1>1, FaultTyped DEF BuildFails, InitFails, Resumes, Finish, Goto,
       RuntimeInvariant, TypeOK, InstanceTypeOK, States, TaskTypeOK, lifeVars,
       handleVars, lockVars, discVars, taskVars
  <2>2. TaskTypeOK'
    BY <1>1, FinishTyped DEF BuildFails, InitFails, Resumes, RuntimeInvariant, TypeOK,
       TaskTypeOK, Labels, Ops, InstanceTypeOK, lifeVars, handleVars, lockVars,
       discVars, taskVars
  <2>3. LockHeld'
    BY <1>1 DEF BuildFails, InitFails, Resumes, Finish, Goto, RuntimeInvariant,
       TypeOK, LockHeld, Locked, TaskTypeOK, InstanceTypeOK, lifeVars, handleVars,
       lockVars, discVars, taskVars
  <2>4. Serving'
    BY <1>1 DEF BuildFails, InitFails, Resumes, Finish, Goto, RuntimeInvariant,
       TypeOK, Serving, InstanceTypeOK, TaskTypeOK, LockHeld, OwnBundles, Owns,
       lifeVars, handleVars, lockVars, discVars, taskVars
  <2>5. HandlesServed'
    BY <1>1 DEF BuildFails, InitFails, Resumes, Finish, Goto, RuntimeInvariant,
       TypeOK, HandlesServed, InstanceTypeOK, TaskTypeOK, LockHeld, Locked, lifeVars,
       handleVars, lockVars, discVars, taskVars
  <2>6. CallsServed'
    BY SMTT(60), <1>1 DEF BuildFails, InitFails, Resumes, Finish, Goto, RuntimeInvariant,
       TypeOK, CallsServed, InstanceTypeOK, TaskTypeOK, HandlesServed, LockHeld,
       Locked, Serving, lifeVars, handleVars, lockVars, discVars, taskVars
  <2>7. OwnBundles'
    BY SMTT(60), <1>1 DEF BuildFails, InitFails, Resumes, Finish, Goto, RuntimeInvariant,
       TypeOK, OwnBundles, Owns, InstanceTypeOK, TaskTypeOK, LockHeld, Serving,
       lifeVars, handleVars, lockVars, discVars, taskVars
  <2> QED BY <2>1, <2>2, <2>3, <2>4, <2>5, <2>6, <2>7 DEF RuntimeInvariant, TypeOK
<1>2. CASE SetActiveFails(t)
  <2>1. InstanceTypeOK'
    BY <1>2, FaultTyped DEF SetActiveFails, InitFails, Resumes, Finish, Goto,
       RuntimeInvariant, TypeOK, InstanceTypeOK, States, TaskTypeOK, lifeVars,
       handleVars, lockVars, discVars, taskVars
  <2>2. TaskTypeOK'
    BY <1>2, FinishTyped DEF SetActiveFails, InitFails, Resumes, RuntimeInvariant,
       TypeOK, TaskTypeOK, Labels, Ops, InstanceTypeOK, lifeVars, handleVars,
       lockVars, discVars, taskVars
  <2>3. LockHeld'
    BY <1>2 DEF SetActiveFails, InitFails, Resumes, Finish, Goto, RuntimeInvariant,
       TypeOK, LockHeld, Locked, TaskTypeOK, InstanceTypeOK, lifeVars, handleVars,
       lockVars, discVars, taskVars
  <2>4. Serving'
    BY <1>2 DEF SetActiveFails, InitFails, Resumes, Finish, Goto, RuntimeInvariant,
       TypeOK, Serving, InstanceTypeOK, TaskTypeOK, LockHeld, OwnBundles, Owns,
       lifeVars, handleVars, lockVars, discVars, taskVars
  <2>5. HandlesServed'
    BY <1>2 DEF SetActiveFails, InitFails, Resumes, Finish, Goto, RuntimeInvariant,
       TypeOK, HandlesServed, InstanceTypeOK, TaskTypeOK, LockHeld, Locked, lifeVars,
       handleVars, lockVars, discVars, taskVars
  <2>6. CallsServed'
    BY SMTT(60), <1>2 DEF SetActiveFails, InitFails, Resumes, Finish, Goto, RuntimeInvariant,
       TypeOK, CallsServed, InstanceTypeOK, TaskTypeOK, HandlesServed, LockHeld,
       Locked, Serving, lifeVars, handleVars, lockVars, discVars, taskVars
  <2>7. OwnBundles'
    BY SMTT(60), <1>2 DEF SetActiveFails, InitFails, Resumes, Finish, Goto, RuntimeInvariant,
       TypeOK, OwnBundles, Owns, InstanceTypeOK, TaskTypeOK, LockHeld, Serving,
       lifeVars, handleVars, lockVars, discVars, taskVars
  <2> QED BY <2>1, <2>2, <2>3, <2>4, <2>5, <2>6, <2>7 DEF RuntimeInvariant, TypeOK
<1>3. CASE TimedOut(t)
  <2>1. InstanceTypeOK'
    BY <1>3, FaultTyped DEF TimedOut, Resumes, Finish, Goto, RuntimeInvariant, TypeOK,
       InstanceTypeOK, States, TaskTypeOK, lifeVars, handleVars, lockVars, discVars,
       taskVars
  <2>2. TaskTypeOK'
    BY <1>3, FinishTyped DEF TimedOut, Resumes, RuntimeInvariant, TypeOK, TaskTypeOK,
       Labels, Ops, InstanceTypeOK, lifeVars, handleVars, lockVars, discVars, taskVars
  <2>3. LockHeld'
    BY <1>3 DEF TimedOut, Resumes, Finish, Goto, RuntimeInvariant, TypeOK, LockHeld,
       Locked, TaskTypeOK, InstanceTypeOK, lifeVars, handleVars, lockVars, discVars,
       taskVars
  <2>4. Serving'
    BY <1>3 DEF TimedOut, Resumes, Finish, Goto, RuntimeInvariant, TypeOK, Serving,
       InstanceTypeOK, TaskTypeOK, LockHeld, OwnBundles, Owns, lifeVars, handleVars,
       lockVars, discVars, taskVars
  <2>5. HandlesServed'
    BY <1>3 DEF TimedOut, Resumes, Finish, Goto, RuntimeInvariant, TypeOK,
       HandlesServed, InstanceTypeOK, TaskTypeOK, LockHeld, Locked, lifeVars,
       handleVars, lockVars, discVars, taskVars
  <2>6. CallsServed'
    BY <1>3 DEF TimedOut, Resumes, Finish, Goto, RuntimeInvariant, TypeOK,
       CallsServed, InstanceTypeOK, TaskTypeOK, HandlesServed, LockHeld, Locked,
       Serving, lifeVars, handleVars, lockVars, discVars, taskVars
  <2>7. OwnBundles'
    BY SMTT(60), <1>3 DEF TimedOut, Resumes, Finish, Goto, RuntimeInvariant, TypeOK, OwnBundles,
       Owns, InstanceTypeOK, TaskTypeOK, LockHeld, Serving, lifeVars, handleVars,
       lockVars, discVars, taskVars
  <2> QED BY <2>1, <2>2, <2>3, <2>4, <2>5, <2>6, <2>7 DEF RuntimeInvariant, TypeOK
<1>4. CASE FinalizeFails(t)
  <2>1. InstanceTypeOK'
    BY <1>4, FaultTyped DEF FinalizeFails, Torn, Finish, Goto, RuntimeInvariant,
       TypeOK, InstanceTypeOK, States, TaskTypeOK, lifeVars, handleVars, lockVars,
       discVars, taskVars
  <2>2. TaskTypeOK'
    BY <1>4, FinishTyped DEF FinalizeFails, Torn, RuntimeInvariant, TypeOK,
       TaskTypeOK, Labels, Ops, InstanceTypeOK, lifeVars, handleVars, lockVars,
       discVars, taskVars
  <2>3. LockHeld'
    BY <1>4 DEF FinalizeFails, Torn, Finish, Goto, RuntimeInvariant, TypeOK, LockHeld,
       Locked, TaskTypeOK, InstanceTypeOK, lifeVars, handleVars, lockVars, discVars,
       taskVars
  <2>4. Serving'
    BY <1>4 DEF FinalizeFails, Torn, Finish, Goto, RuntimeInvariant, TypeOK, Serving,
       InstanceTypeOK, TaskTypeOK, LockHeld, OwnBundles, Owns, lifeVars, handleVars,
       lockVars, discVars, taskVars
  <2>5. HandlesServed'
    BY <1>4 DEF FinalizeFails, Torn, Finish, Goto, RuntimeInvariant, TypeOK,
       HandlesServed, InstanceTypeOK, TaskTypeOK, LockHeld, Locked, lifeVars,
       handleVars, lockVars, discVars, taskVars
  <2>6. CallsServed'
    BY SMTT(60), <1>4 DEF FinalizeFails, Torn, Finish, Goto, RuntimeInvariant, TypeOK,
       CallsServed, InstanceTypeOK, TaskTypeOK, HandlesServed, LockHeld, Locked,
       Serving, lifeVars, handleVars, lockVars, discVars, taskVars
  <2>7. OwnBundles'
    BY SMTT(60), <1>4 DEF FinalizeFails, Torn, Finish, Goto, RuntimeInvariant, TypeOK,
       OwnBundles, Owns, InstanceTypeOK, TaskTypeOK, LockHeld, Serving, lifeVars,
       handleVars, lockVars, discVars, taskVars
  <2> QED BY <2>1, <2>2, <2>3, <2>4, <2>5, <2>6, <2>7 DEF RuntimeInvariant, TypeOK
<1>5. CASE TempStartFails(t)
  <2>1. InstanceTypeOK'
    BY <1>5, FaultTyped DEF TempStartFails, Resumes, Finish, Goto, RuntimeInvariant,
       TypeOK, InstanceTypeOK, States, TaskTypeOK, lifeVars, handleVars, lockVars,
       discVars, taskVars
  <2>2. TaskTypeOK'
    BY <1>5, FinishTyped DEF TempStartFails, Resumes, RuntimeInvariant, TypeOK,
       TaskTypeOK, Labels, Ops, InstanceTypeOK, lifeVars, handleVars, lockVars,
       discVars, taskVars
  <2>3. LockHeld'
    BY <1>5 DEF TempStartFails, Resumes, Finish, Goto, RuntimeInvariant, TypeOK,
       LockHeld, Locked, TaskTypeOK, InstanceTypeOK, lifeVars, handleVars, lockVars,
       discVars, taskVars
  <2>4. Serving'
    BY <1>5 DEF TempStartFails, Resumes, Finish, Goto, RuntimeInvariant, TypeOK,
       Serving, InstanceTypeOK, TaskTypeOK, LockHeld, OwnBundles, Owns, lifeVars,
       handleVars, lockVars, discVars, taskVars
  <2>5. HandlesServed'
    BY SMTT(60), <1>5 DEF TempStartFails, Resumes, Finish, Goto, RuntimeInvariant, TypeOK,
       HandlesServed, InstanceTypeOK, TaskTypeOK, LockHeld, Locked, lifeVars,
       handleVars, lockVars, discVars, taskVars
  <2>6. CallsServed'
    BY <1>5 DEF TempStartFails, Resumes, Finish, Goto, RuntimeInvariant, TypeOK,
       CallsServed, InstanceTypeOK, TaskTypeOK, HandlesServed, LockHeld, Locked,
       Serving, lifeVars, handleVars, lockVars, discVars, taskVars
  <2>7. OwnBundles'
    BY SMTT(60), <1>5 DEF TempStartFails, Resumes, Finish, Goto, RuntimeInvariant, TypeOK,
       OwnBundles, Owns, InstanceTypeOK, TaskTypeOK, LockHeld, Serving, lifeVars,
       handleVars, lockVars, discVars, taskVars
  <2> QED BY <2>1, <2>2, <2>3, <2>4, <2>5, <2>6, <2>7 DEF RuntimeInvariant, TypeOK
<1>6. CASE ClearFails(t)
  <2>1. InstanceTypeOK'
    BY <1>6, FaultTyped DEF ClearFails, ClearFault, Resumes, Finish, Goto,
       RuntimeInvariant, TypeOK, InstanceTypeOK, States, TaskTypeOK, lifeVars,
       handleVars, lockVars, discVars, taskVars
  <2>2. TaskTypeOK'
    BY <1>6, FinishTyped DEF ClearFails, ClearFault, Resumes, RuntimeInvariant,
       TypeOK, TaskTypeOK, Labels, Ops, InstanceTypeOK, lifeVars, handleVars,
       lockVars, discVars, taskVars
  <2>3. LockHeld'
    BY <1>6 DEF ClearFails, ClearFault, Resumes, Finish, Goto, RuntimeInvariant,
       TypeOK, LockHeld, Locked, TaskTypeOK, InstanceTypeOK, lifeVars, handleVars,
       lockVars, discVars, taskVars
  <2>4. Serving'
    BY <1>6 DEF ClearFails, ClearFault, Resumes, Finish, Goto, RuntimeInvariant,
       TypeOK, Serving, InstanceTypeOK, TaskTypeOK, LockHeld, OwnBundles, Owns,
       lifeVars, handleVars, lockVars, discVars, taskVars
  <2>5. HandlesServed'
    BY SMTT(60), <1>6 DEF ClearFails, ClearFault, Resumes, Finish, Goto, RuntimeInvariant,
       TypeOK, HandlesServed, InstanceTypeOK, TaskTypeOK, LockHeld, Locked, lifeVars,
       handleVars, lockVars, discVars, taskVars
  <2>6. CallsServed'
    BY <1>6 DEF ClearFails, ClearFault, Resumes, Finish, Goto, RuntimeInvariant,
       TypeOK, CallsServed, InstanceTypeOK, TaskTypeOK, HandlesServed, LockHeld,
       Locked, Serving, lifeVars, handleVars, lockVars, discVars, taskVars
  <2>7. OwnBundles'
    BY SMTT(60), <1>6 DEF ClearFails, ClearFault, Resumes, Finish, Goto, RuntimeInvariant,
       TypeOK, OwnBundles, Owns, InstanceTypeOK, TaskTypeOK, LockHeld, Serving,
       lifeVars, handleVars, lockVars, discVars, taskVars
  <2> QED BY <2>1, <2>2, <2>3, <2>4, <2>5, <2>6, <2>7 DEF RuntimeInvariant, TypeOK
<1>7. CASE TempClearFails(t)
  <2>1. InstanceTypeOK'
    BY <1>7, FaultTyped DEF TempClearFails, ClearFault, Resumes, Goto,
       RuntimeInvariant, TypeOK, InstanceTypeOK, States, TaskTypeOK, lifeVars,
       handleVars, lockVars, discVars, taskVars
  <2>2. TaskTypeOK'
    BY <1>7 DEF TempClearFails, ClearFault, Resumes, Goto, RuntimeInvariant, TypeOK,
       TaskTypeOK, Labels, Ops, InstanceTypeOK, lifeVars, handleVars, lockVars,
       discVars, taskVars
  <2>3. LockHeld'
    BY <1>7 DEF TempClearFails, ClearFault, Resumes, Goto, RuntimeInvariant, TypeOK,
       LockHeld, Locked, TaskTypeOK, InstanceTypeOK, lifeVars, handleVars, lockVars,
       discVars, taskVars
  <2>4. Serving'
    BY <1>7 DEF TempClearFails, ClearFault, Resumes, Goto, RuntimeInvariant, TypeOK,
       Serving, InstanceTypeOK, TaskTypeOK, LockHeld, OwnBundles, Owns, lifeVars,
       handleVars, lockVars, discVars, taskVars
  <2>5. HandlesServed'
    BY SMTT(60), <1>7 DEF TempClearFails, ClearFault, Resumes, Goto, RuntimeInvariant, TypeOK,
       HandlesServed, InstanceTypeOK, TaskTypeOK, LockHeld, Locked, lifeVars,
       handleVars, lockVars, discVars, taskVars
  <2>6. CallsServed'
    BY <1>7 DEF TempClearFails, ClearFault, Resumes, Goto, RuntimeInvariant, TypeOK,
       CallsServed, InstanceTypeOK, TaskTypeOK, HandlesServed, LockHeld, Locked,
       Serving, lifeVars, handleVars, lockVars, discVars, taskVars
  <2>7. OwnBundles'
    BY SMTT(60), <1>7 DEF TempClearFails, ClearFault, Resumes, Goto, RuntimeInvariant, TypeOK,
       OwnBundles, Owns, InstanceTypeOK, TaskTypeOK, LockHeld, Serving, lifeVars,
       handleVars, lockVars, discVars, taskVars
  <2> QED BY <2>1, <2>2, <2>3, <2>4, <2>5, <2>6, <2>7 DEF RuntimeInvariant, TypeOK
<1>8. CASE TempGivenUp(t)
  <2>1. InstanceTypeOK'
    BY <1>8, FaultTyped DEF TempGivenUp, Resumes, Finish, Goto, RuntimeInvariant,
       TypeOK, InstanceTypeOK, States, TaskTypeOK, lifeVars, handleVars, lockVars,
       discVars, taskVars
  <2>2. TaskTypeOK'
    BY <1>8, FinishTyped DEF TempGivenUp, Resumes, RuntimeInvariant, TypeOK,
       TaskTypeOK, Labels, Ops, InstanceTypeOK, lifeVars, handleVars, lockVars,
       discVars, taskVars
  <2>3. LockHeld'
    BY <1>8 DEF TempGivenUp, Resumes, Finish, Goto, RuntimeInvariant, TypeOK,
       LockHeld, Locked, TaskTypeOK, InstanceTypeOK, lifeVars, handleVars, lockVars,
       discVars, taskVars
  <2>4. Serving'
    BY <1>8 DEF TempGivenUp, Resumes, Finish, Goto, RuntimeInvariant, TypeOK, Serving,
       InstanceTypeOK, TaskTypeOK, LockHeld, OwnBundles, Owns, lifeVars, handleVars,
       lockVars, discVars, taskVars
  <2>5. HandlesServed'
    BY SMTT(60), <1>8 DEF TempGivenUp, Resumes, Finish, Goto, RuntimeInvariant, TypeOK,
       HandlesServed, InstanceTypeOK, TaskTypeOK, LockHeld, Locked, lifeVars,
       handleVars, lockVars, discVars, taskVars
  <2>6. CallsServed'
    BY <1>8 DEF TempGivenUp, Resumes, Finish, Goto, RuntimeInvariant, TypeOK,
       CallsServed, InstanceTypeOK, TaskTypeOK, HandlesServed, LockHeld, Locked,
       Serving, lifeVars, handleVars, lockVars, discVars, taskVars
  <2>7. OwnBundles'
    BY SMTT(60), <1>8 DEF TempGivenUp, Resumes, Finish, Goto, RuntimeInvariant, TypeOK,
       OwnBundles, Owns, InstanceTypeOK, TaskTypeOK, LockHeld, Serving, lifeVars,
       handleVars, lockVars, discVars, taskVars
  <2> QED BY <2>1, <2>2, <2>3, <2>4, <2>5, <2>6, <2>7 DEF RuntimeInvariant, TypeOK
<1>9. CASE RemoveFails(t)
  <2>1. InstanceTypeOK'
    BY <1>9, FaultTyped DEF RemoveFails, Drop, Replace, Continues, Finish, Goto,
       RuntimeInvariant, TypeOK, InstanceTypeOK, States, TaskTypeOK, lifeVars,
       handleVars, lockVars, discVars, taskVars
  <2>2. TaskTypeOK'
    <3>1. CASE mine[t]
      <4>1. tgt' \in [Tasks -> Workspaces \cup {None}]
        BY <1>9, <3>1, <2>1 DEF RemoveFails, Replace, RuntimeInvariant, TypeOK,
           TaskTypeOK
      <4>2. pc' \in [Tasks -> Labels] /\ op' \in [Tasks -> Ops]
        BY <1>9, <3>1, <2>1 DEF RemoveFails, Replace, Goto, RuntimeInvariant, TypeOK,
           TaskTypeOK, Labels, Ops
      <4> QED
        BY <4>1, <4>2, <1>9, <3>1, <2>1 DEF RemoveFails, Replace, RuntimeInvariant,
           TypeOK, TaskTypeOK
    <3>2. CASE ~mine[t]
      BY <1>9, FinishTyped, <3>2 DEF RemoveFails, Replace, Continues,
         RuntimeInvariant, TypeOK, TaskTypeOK, Labels, Ops, InstanceTypeOK, lifeVars,
         handleVars, lockVars, discVars, taskVars
    <3> QED BY <3>1, <3>2
  <2>3. LockHeld'
    BY <1>9 DEF RemoveFails, Drop, Replace, Continues, Finish, Goto, RuntimeInvariant,
       TypeOK, LockHeld, Locked, TaskTypeOK, InstanceTypeOK, lifeVars, handleVars,
       lockVars, discVars, taskVars
  <2>4. Serving'
    BY <1>9 DEF RemoveFails, Drop, Replace, Continues, Finish, Goto, RuntimeInvariant,
       TypeOK, Serving, InstanceTypeOK, TaskTypeOK, LockHeld, OwnBundles, Owns,
       lifeVars, handleVars, lockVars, discVars, taskVars
  <2>5. HandlesServed'
    <3>1. CASE mine[t]
      BY <1>9, <3>1 DEF RemoveFails, Drop, Replace, Continues, Goto, RuntimeInvariant,
         TypeOK, HandlesServed, InstanceTypeOK, TaskTypeOK, LockHeld, Locked,
         lifeVars, handleVars, lockVars, discVars, taskVars
    <3>2. CASE ~mine[t]
      BY SMTT(60), <1>9, <3>2 DEF RemoveFails, Drop, Replace, Continues, Finish, Goto,
         RuntimeInvariant, TypeOK, HandlesServed, InstanceTypeOK, TaskTypeOK,
         LockHeld, Locked, lifeVars, handleVars, lockVars, discVars, taskVars
    <3> QED BY <3>1, <3>2
  <2>6. CallsServed'
    BY SMTT(60), <1>9 DEF RemoveFails, Drop, Replace, Continues, Finish, Goto, RuntimeInvariant,
       TypeOK, CallsServed, InstanceTypeOK, TaskTypeOK, HandlesServed, LockHeld,
       Locked, Serving, lifeVars, handleVars, lockVars, discVars, taskVars
  <2>7. OwnBundles'
    BY SMTT(40), <1>9 DEF RemoveFails, Drop, Replace, Continues, Finish, Goto, RuntimeInvariant,
       TypeOK, OwnBundles, Owns, InstanceTypeOK, TaskTypeOK, LockHeld, Serving,
       lifeVars, handleVars, lockVars, discVars, taskVars
  <2> QED BY <2>1, <2>2, <2>3, <2>4, <2>5, <2>6, <2>7 DEF RuntimeInvariant, TypeOK
<1> QED BY <1>1, <1>2, <1>3, <1>4, <1>5, <1>6, <1>7, <1>8, <1>9 DEF Failure

-----------------------------------------------------------------------------
(* Creating a workspace or opening a handle, or nothing at all.            *)
LEMMA OtherStep ==
    ASSUME RuntimeInvariant,
           \/ \E w \in Workspaces : Create(w)
           \/ \E h \in Handles : OpenHandle(h)
           \/ UNCHANGED vars
    PROVE  RuntimeInvariant'
<1>1. ASSUME NEW w \in Workspaces, Create(w) PROVE RuntimeInvariant'
  BY SMTT(60), <1>1 DEF Create, RuntimeInvariant, TypeOK, InstanceTypeOK, States, TaskTypeOK,
     Labels, Ops, LockHeld, Locked, Serving, HandlesServed, CallsServed, OwnBundles,
     Owns, lifeVars, handleVars, lockVars, discVars, taskVars
<1>2. ASSUME NEW h \in Handles, OpenHandle(h) PROVE RuntimeInvariant'
  BY SMTT(60), <1>2 DEF OpenHandle, RuntimeInvariant, TypeOK, InstanceTypeOK, States,
     TaskTypeOK, Labels, Ops, LockHeld, Locked, Serving, HandlesServed, CallsServed,
     OwnBundles, Owns, lifeVars, handleVars, lockVars, discVars, taskVars
<1>3. CASE UNCHANGED vars
  BY SMTT(60), <1>3 DEF vars, RuntimeInvariant, TypeOK, InstanceTypeOK, States, TaskTypeOK,
     Labels, Ops, LockHeld, Locked, Serving, HandlesServed, CallsServed, OwnBundles,
     Owns, lifeVars, handleVars, lockVars, discVars, taskVars
<1> QED BY <1>1, <1>2, <1>3

(* The invariant of the Runtime, from the start to any state.              *)
THEOREM RuntimeInvariantHolds == Spec => []RuntimeInvariant
<1>1. Init => RuntimeInvariant BY InitInvariant
<1>2. RuntimeInvariant /\ [Next]_vars => RuntimeInvariant'
  BY RequestStep, ProceedStep, FailureStep, OtherStep DEF Next
<1> QED BY <1>1, <1>2, PTL DEF Spec

(* A call keeps the live instance it was given until it returns.           *)
THEOREM CallsStayLive == Spec => []CallsOnLiveBackend
<1>1. RuntimeInvariant => CallsOnLiveBackend
  BY DEF RuntimeInvariant, CallsServed, Serving, CallsOnLiveBackend
<1> QED BY <1>1, RuntimeInvariantHolds, PTL

-----------------------------------------------------------------------------
(* What a client sees of the Runtime, and what it cannot see change.       *)
CallOf == [t \in Tasks |-> IF pc[t] = "call" THEN bun[t] ELSE None]

Calm ==
    /\ backend' = backend
    /\ CallOf' = CallOf
    /\ state = "finalized" => state' = "finalized"

(* No request but a call is seen by a client.                              *)
LEMMA RequestCalm ==
    ASSUME RuntimeInvariant, NEW t \in Tasks, Request(t)
    PROVE  Calm \/ (state = "ready" /\ \E h \in Handles : UseBegin(t, h))
<1>1. CASE Boot(t)
  BY SMTT(60), <1>1 DEF Boot, Begins, Idle, Goto, Calm, CallOf, RuntimeInvariant, TypeOK,
     InstanceTypeOK, TaskTypeOK, LockHeld, Locked, Serving, lifeVars, handleVars,
     lockVars, discVars, taskVars
<1>2. CASE Shutdown(t)
  BY SMTT(60), <1>2 DEF Shutdown, Begins, Idle, Goto, Calm, CallOf, RuntimeInvariant, TypeOK,
     InstanceTypeOK, TaskTypeOK, LockHeld, Locked, Serving, lifeVars, handleVars,
     lockVars, discVars, taskVars
<1>3. ASSUME NEW w \in Workspaces, Switch(t, w)
      PROVE  Calm
  BY <1>3 DEF Switch, Begins, Idle, Goto, Calm, CallOf, RuntimeInvariant, TypeOK,
     InstanceTypeOK, TaskTypeOK, LockHeld, Locked, Serving, lifeVars, handleVars,
     lockVars, discVars, taskVars
<1>4. ASSUME NEW w \in Workspaces, DeleteActive(t, w)
      PROVE  Calm
  BY <1>4 DEF DeleteActive, MayDelete, Begins, Idle, Goto, Calm, CallOf,
     RuntimeInvariant, TypeOK, InstanceTypeOK, TaskTypeOK, LockHeld, Locked, Serving,
     lifeVars, handleVars, lockVars, discVars, taskVars
<1>5. ASSUME NEW w \in Workspaces, NEW b \in Bundles, DeleteOther(t, w, b)
      PROVE  Calm
  BY <1>5 DEF DeleteOther, MayDelete, Fresh, Free, Begins, Idle, Goto, Calm, CallOf,
     RuntimeInvariant, TypeOK, InstanceTypeOK, TaskTypeOK, LockHeld, Locked, Serving,
     lifeVars, handleVars, lockVars, discVars, taskVars
<1>6. ASSUME NEW h \in Handles, CloseHandle(t, h)
      PROVE  Calm
  BY SMTT(60), <1>6 DEF CloseHandle, Quiet, Idle, Goto, Calm, CallOf, RuntimeInvariant, TypeOK,
     InstanceTypeOK, TaskTypeOK, LockHeld, Locked, Serving, lifeVars, handleVars,
     lockVars, discVars, taskVars
<1>7. ASSUME NEW h \in Handles, UseBegin(t, h) PROVE state = "ready"
  BY <1>7 DEF UseBegin
<1> QED BY <1>1, <1>2, <1>3, <1>4, <1>5, <1>6, <1>7 DEF Request

(* Of the steps of an operation a client sees three.                       *)
LEMMA ProceedCalm ==
    ASSUME RuntimeInvariant, NEW t \in Tasks, Proceed(t)
    PROVE  Calm \/ Ready(t) \/ Finalized(t) \/ UseEnd(t)
<1>1. CASE TakeLock(t)
  BY <1>1 DEF TakeLock, Wants, LockFree, Calm, CallOf, RuntimeInvariant, TypeOK,
     InstanceTypeOK, TaskTypeOK, LockHeld, Locked, Serving, lifeVars, handleVars,
     lockVars, discVars, taskVars
<1>2. CASE WaitForLock(t)
  BY <1>2 DEF WaitForLock, Wants, LockFree, Calm, CallOf, RuntimeInvariant, TypeOK,
     InstanceTypeOK, TaskTypeOK, LockHeld, Locked, Serving, lifeVars, handleVars,
     lockVars, discVars, taskVars
<1>3. CASE GetLock(t)
  BY <1>3 DEF GetLock, Wants, LockFree, Calm, CallOf, RuntimeInvariant, TypeOK,
     InstanceTypeOK, TaskTypeOK, LockHeld, Locked, Serving, lifeVars, handleVars,
     lockVars, discVars, taskVars
<1>4. CASE InitRefused(t)
  BY <1>4 DEF InitRefused, Continues, Finish, Goto, Calm, CallOf, RuntimeInvariant,
     TypeOK, InstanceTypeOK, TaskTypeOK, LockHeld, Locked, Serving, lifeVars,
     handleVars, lockVars, discVars, taskVars
<1>5. CASE InitUnknown(t)
  BY SMTT(60), <1>5 DEF InitUnknown, InitFails, MayInitialize, Continues, Finish, Goto, Calm,
     CallOf, RuntimeInvariant, TypeOK, InstanceTypeOK, TaskTypeOK, LockHeld, Locked,
     Serving, lifeVars, handleVars, lockVars, discVars, taskVars
<1>6. ASSUME NEW b \in Bundles, Build(t, b)
      PROVE  Calm
  BY SMTT(60), <1>6 DEF Build, MayInitialize, Selected, Fresh, Free, Continues, Goto, Calm,
     CallOf, RuntimeInvariant, TypeOK, InstanceTypeOK, TaskTypeOK, LockHeld, Locked,
     Serving, lifeVars, handleVars, lockVars, discVars, taskVars
<1>7. CASE DestroyNothing(t)
  BY SMTT(60), <1>7 DEF DestroyNothing, Destroyed, Continues, Finish, Goto, Calm, CallOf,
     RuntimeInvariant, TypeOK, InstanceTypeOK, TaskTypeOK, LockHeld, Locked, Serving,
     lifeVars, handleVars, lockVars, discVars, taskVars
<1>8. CASE StartDrain(t)
  BY SMTT(60), <1>8 DEF StartDrain, Continues, Goto, Calm, CallOf, RuntimeInvariant, TypeOK,
     InstanceTypeOK, TaskTypeOK, LockHeld, Locked, Serving, lifeVars, handleVars,
     lockVars, discVars, taskVars
<1>9. CASE Drained(t)
  BY SMTT(60), <1>9 DEF Drained, AllIdle, Quiet, Goto, Calm, CallOf, RuntimeInvariant, TypeOK,
     InstanceTypeOK, TaskTypeOK, LockHeld, Locked, Serving, lifeVars, handleVars,
     lockVars, discVars, taskVars
<1>10. CASE TempStarted(t)
  BY SMTT(60), <1>10 DEF TempStarted, Resumes, Goto, Calm, CallOf, RuntimeInvariant, TypeOK,
     InstanceTypeOK, TaskTypeOK, LockHeld, Locked, Serving, lifeVars, handleVars,
     lockVars, discVars, taskVars
<1>11. CASE Cleared(t)
  BY SMTT(60), <1>11 DEF Cleared, Resumes, Goto, Calm, CallOf, RuntimeInvariant, TypeOK,
     InstanceTypeOK, TaskTypeOK, LockHeld, Locked, Serving, lifeVars, handleVars,
     lockVars, discVars, taskVars
<1>12. CASE TempFinalized(t)
  BY <1>12 DEF TempFinalized, Resumes, Goto, Calm, CallOf, RuntimeInvariant, TypeOK,
     InstanceTypeOK, TaskTypeOK, LockHeld, Locked, Serving, lifeVars, handleVars,
     lockVars, discVars, taskVars
<1>13. CASE Removed(t)
  BY SMTT(60), <1>13 DEF Removed, Drop, Replace, Continues, Finish, Goto, Calm, CallOf,
     RuntimeInvariant, TypeOK, InstanceTypeOK, TaskTypeOK, LockHeld, Locked, Serving,
     lifeVars, handleVars, lockVars, discVars, taskVars
<1>14. CASE CloseDone(t)
  BY SMTT(60), <1>14 DEF CloseDone, Quiet, Finish, Goto, Calm, CallOf, RuntimeInvariant, TypeOK,
     InstanceTypeOK, TaskTypeOK, LockHeld, Locked, Serving, lifeVars, handleVars,
     lockVars, discVars, taskVars
<1> QED BY <1>1, <1>2, <1>3, <1>4, <1>5, <1>6, <1>7, <1>8, <1>9, <1>10, <1>11, <1>12,
       <1>13, <1>14 DEF Proceed

(* Of the failures a client sees one.                                      *)
LEMMA FailureCalm ==
    ASSUME RuntimeInvariant, NEW t \in Tasks, Failure(t)
    PROVE  Calm \/ FinalizeFails(t)
<1>1. CASE BuildFails(t)
  BY <1>1 DEF BuildFails, InitFails, Fault, Resumes, Finish, Goto, Calm, CallOf,
     RuntimeInvariant, TypeOK, InstanceTypeOK, TaskTypeOK, LockHeld, Locked, Serving,
     lifeVars, handleVars, lockVars, discVars, taskVars
<1>2. CASE SetActiveFails(t)
  BY <1>2 DEF SetActiveFails, InitFails, Fault, Resumes, Finish, Goto, Calm, CallOf,
     RuntimeInvariant, TypeOK, InstanceTypeOK, TaskTypeOK, LockHeld, Locked, Serving,
     lifeVars, handleVars, lockVars, discVars, taskVars
<1>3. CASE TimedOut(t)
  BY SMTT(60), <1>3 DEF TimedOut, Fault, Resumes, Finish, Goto, Calm, CallOf, RuntimeInvariant,
     TypeOK, InstanceTypeOK, TaskTypeOK, LockHeld, Locked, Serving, lifeVars,
     handleVars, lockVars, discVars, taskVars
<1>4. CASE TempStartFails(t)
  BY <1>4 DEF TempStartFails, Fault, Resumes, Finish, Goto, Calm, CallOf,
     RuntimeInvariant, TypeOK, InstanceTypeOK, TaskTypeOK, LockHeld, Locked, Serving,
     lifeVars, handleVars, lockVars, discVars, taskVars
<1>5. CASE ClearFails(t)
  BY SMTT(60), <1>5 DEF ClearFails, ClearFault, Fault, Resumes, Finish, Goto, Calm, CallOf,
     RuntimeInvariant, TypeOK, InstanceTypeOK, TaskTypeOK, LockHeld, Locked, Serving,
     lifeVars, handleVars, lockVars, discVars, taskVars
<1>6. CASE TempClearFails(t)
  BY <1>6 DEF TempClearFails, ClearFault, Fault, Resumes, Goto, Calm, CallOf,
     RuntimeInvariant, TypeOK, InstanceTypeOK, TaskTypeOK, LockHeld, Locked, Serving,
     lifeVars, handleVars, lockVars, discVars, taskVars
<1>7. CASE TempGivenUp(t)
  BY <1>7 DEF TempGivenUp, Fault, Resumes, Finish, Goto, Calm, CallOf,
     RuntimeInvariant, TypeOK, InstanceTypeOK, TaskTypeOK, LockHeld, Locked, Serving,
     lifeVars, handleVars, lockVars, discVars, taskVars
<1>8. CASE RemoveFails(t)
  BY SMTT(60), <1>8 DEF RemoveFails, Drop, Replace, Fault, Continues, Finish, Goto, Calm,
     CallOf, RuntimeInvariant, TypeOK, InstanceTypeOK, TaskTypeOK, LockHeld, Locked,
     Serving, lifeVars, handleVars, lockVars, discVars, taskVars
<1> QED BY <1>1, <1>2, <1>3, <1>4, <1>5, <1>6, <1>7, <1>8 DEF Failure

(* An instance is given up only by its finalization, after every call.     *)
LEMMA TornWithdraws ==
    ASSUME RuntimeInvariant, NEW t \in Tasks, Torn(t),
           Destroyed(t) \/ Finish(t)
    PROVE  /\ [Service!Next]_(Service!vars)
           /\ state # "finalized"
<1>1. state = "finalizing" /\ known = {}
  BY DEF Torn, RuntimeInvariant, LockHeld, HandlesServed
<1>2. \A u \in Tasks : pc[u] # "call"
  BY <1>1 DEF RuntimeInvariant, CallsServed
<1>3. CallOf' = CallOf
  <2>1. \A u \in Tasks : pc'[u] # "call"
    BY <1>2 DEF Destroyed, Finish, Goto, RuntimeInvariant, TypeOK, TaskTypeOK
  <2> QED BY <1>2, <2>1 DEF CallOf
<1>4. \A u \in Tasks : CallOf[u] = None
  BY <1>2 DEF CallOf
<1>5. CASE backend = None
  BY <1>1, <1>3, <1>5 DEF Torn, Service!vars, CallOf
<1>6. CASE backend # None
  <2>1. Service!Withdraw
    BY <1>3, <1>4, <1>6 DEF Torn, Service!Withdraw, CallOf
  <2> QED BY <1>1, <2>1 DEF Service!Next
<1> QED BY <1>5, <1>6

(* Every step is a step of the service, or one that it does not see, and   *)
(* leaves a finalized Runtime finalized.                                   *)
LEMMA ServiceStep ==
    ASSUME RuntimeInvariant, [Next]_vars
    PROVE  /\ [Service!Next]_(Service!vars)
           /\ state = "finalized" => state' = "finalized"
<1>1. CASE Calm
  BY <1>1 DEF Calm, CallOf, Service!vars
<1>2. ASSUME NEW t \in Tasks, NEW h \in Handles, UseBegin(t, h), state = "ready"
      PROVE  Service!Begin(t) /\ state # "finalized"
  BY <1>2 DEF UseBegin, Goto, Service!Begin, RuntimeInvariant, TypeOK, InstanceTypeOK,
     TaskTypeOK, Serving, lifeVars
<1>3. ASSUME NEW t \in Tasks, UseEnd(t)
      PROVE  Service!End(t) /\ state' = state
  BY <1>3 DEF UseEnd, Resumes, Finish, Goto, Service!End, RuntimeInvariant, TypeOK,
     InstanceTypeOK, TaskTypeOK, lifeVars
<1>4. ASSUME NEW t \in Tasks, Ready(t)
      PROVE  (\E b \in Bundles : Service!Offer(b)) /\ state # "finalized"
  <2>1. state = "initializing" /\ backend = None /\ bun[t] \in Bundles
    BY <1>4 DEF Ready, Resumes, RuntimeInvariant, LockHeld, Serving, TypeOK,
       InstanceTypeOK, OwnBundles, Owns
  <2>2. CallOf' = CallOf
    BY <1>4 DEF Ready, Resumes, Finish, Goto, CallOf, RuntimeInvariant, TypeOK, TaskTypeOK
  <2>3. Service!Offer(bun[t])
    BY <1>4, <2>1, <2>2 DEF Ready, Service!Offer, CallOf
  <2> QED BY <2>1, <2>3
<1>5. ASSUME NEW t \in Tasks, Finalized(t) \/ FinalizeFails(t)
      PROVE  [Service!Next]_(Service!vars) /\ state # "finalized"
  BY <1>5, TornWithdraws DEF Finalized, FinalizeFails
<1>6. ASSUME NEW w \in Workspaces, Create(w) PROVE Calm
  BY <1>6 DEF Create, Calm, CallOf, lifeVars, taskVars
<1>7. ASSUME NEW h \in Handles, OpenHandle(h) PROVE Calm
  BY <1>7 DEF OpenHandle, Calm, CallOf, lifeVars, taskVars
<1>8. CASE UNCHANGED vars
  BY <1>8 DEF vars, lifeVars, taskVars, Service!vars
<1>9. ASSUME NEW t \in Tasks, Request(t) PROVE
          /\ [Service!Next]_(Service!vars)
          /\ state = "finalized" => state' = "finalized"
  BY <1>1, <1>2, <1>9, RequestCalm DEF Service!Next
<1>10. ASSUME NEW t \in Tasks, Proceed(t) PROVE
          /\ [Service!Next]_(Service!vars)
          /\ state = "finalized" => state' = "finalized"
  BY <1>1, <1>3, <1>4, <1>5, <1>10, ProceedCalm DEF Service!Next
<1>11. ASSUME NEW t \in Tasks, Failure(t) PROVE
          /\ [Service!Next]_(Service!vars)
          /\ state = "finalized" => state' = "finalized"
  BY <1>1, <1>5, <1>11, FailureCalm
<1> QED BY <1>1, <1>6, <1>7, <1>8, <1>9, <1>10, <1>11 DEF Next

(* The Runtime implements the service its clients are promised: no         *)
(* instance is withdrawn while a call runs on it.                          *)
THEOREM RuntimeImplementsService == Spec => ImplementsService
<1>1. Init => Service!Init
  BY DEF Init, Service!Init
<1>2. RuntimeInvariant /\ [Next]_vars => [Service!Next]_(Service!vars)
  BY ServiceStep
<1> QED BY <1>1, <1>2, RuntimeInvariantHolds, PTL DEF Spec, ImplementsService,
       Service!Spec

(* No operation that was under way brings a finalized Runtime back.        *)
THEOREM FinalizedStays == Spec => FinalizedForGood
<1>1. RuntimeInvariant /\ [Next]_vars => [state = "finalized" => state' = "finalized"]_vars
  BY ServiceStep
<1> QED BY <1>1, RuntimeInvariantHolds, PTL DEF Spec, FinalizedForGood
-----------------------------------------------------------------------------
(* Switching, while nothing is deleted.                                    *)

(* Only a deletion clears or removes a workspace, and a target that was    *)
(* registered stays registered.                                            *)
SwitchingTask(t) ==
    /\ op[t] \notin {"delete", "restore", "giveup"}
    /\ pc[t] \notin {"tempStart", "clear", "tempFinalize", "remove"}
    /\ pc[t] \in {"destroy", "drain", "finalize"} => op[t] \in {"destroy", "switch"}
    /\ pc[t] = "start" => tgt[t] \in registry

(* The bundle that is up is the one that serves.                           *)
CoreServed == \A b \in Bundles : stage[b] = "up" => b = backend

SwitchInvariant ==
    /\ \A t \in Tasks : SwitchingTask(t)
    /\ faults["registry"] = 0 => CoreServed
    /\ ReadyIsChosen

LEMMA InitSwitches == Init => SwitchInvariant
BY DEF Init, SwitchInvariant, SwitchingTask, CoreServed, ReadyIsChosen

(* No request deletes, or starts a bundle by itself.                       *)
LEMMA RequestSwitches ==
    ASSUME RuntimeInvariant, SwitchInvariant, Deletable = {}, NEW t \in Tasks, Request(t)
    PROVE  SwitchInvariant'
<1>1. CASE Boot(t)
  BY <1>1 DEF Boot, Begins, Idle, Goto, SwitchInvariant, SwitchingTask,
     CoreServed, ReadyIsChosen, RuntimeInvariant, TypeOK, InstanceTypeOK, TaskTypeOK, LockHeld,
     Locked, Serving, States, Labels, Ops, lifeVars, handleVars, lockVars,
     discVars, taskVars
<1>2. CASE Shutdown(t)
  BY <1>2 DEF Shutdown, Begins, Idle, Goto, SwitchInvariant, SwitchingTask,
     CoreServed, ReadyIsChosen, RuntimeInvariant, TypeOK, InstanceTypeOK, TaskTypeOK, LockHeld,
     Locked, Serving, States, Labels, Ops, lifeVars, handleVars, lockVars,
     discVars, taskVars
<1>3. ASSUME NEW w \in Workspaces, Switch(t, w) PROVE SwitchInvariant'
  BY <1>3 DEF Switch, Begins, Idle, Goto, SwitchInvariant, SwitchingTask,
     CoreServed, ReadyIsChosen, RuntimeInvariant, TypeOK, InstanceTypeOK, TaskTypeOK, LockHeld,
     Locked, Serving, States, Labels, Ops, lifeVars, handleVars, lockVars,
     discVars, taskVars
<1>4. ASSUME NEW w \in Workspaces, DeleteActive(t, w) PROVE SwitchInvariant'
  BY <1>4 DEF DeleteActive, MayDelete, SwitchInvariant, SwitchingTask,
     CoreServed, ReadyIsChosen, RuntimeInvariant, TypeOK, InstanceTypeOK, TaskTypeOK, LockHeld,
     Locked, Serving, States, Labels, Ops, lifeVars, handleVars, lockVars,
     discVars, taskVars
<1>5. ASSUME NEW w \in Workspaces, NEW b \in Bundles, DeleteOther(t, w, b) PROVE SwitchInvariant'
  BY <1>5 DEF DeleteOther, MayDelete, SwitchInvariant, SwitchingTask,
     CoreServed, ReadyIsChosen, RuntimeInvariant, TypeOK, InstanceTypeOK, TaskTypeOK, LockHeld,
     Locked, Serving, States, Labels, Ops, lifeVars, handleVars, lockVars,
     discVars, taskVars
<1>6. ASSUME NEW h \in Handles, CloseHandle(t, h) PROVE SwitchInvariant'
  BY <1>6 DEF CloseHandle, Idle, Goto, SwitchInvariant, SwitchingTask,
     CoreServed, ReadyIsChosen, RuntimeInvariant, TypeOK, InstanceTypeOK, TaskTypeOK, LockHeld,
     Locked, Serving, States, Labels, Ops, lifeVars, handleVars, lockVars,
     discVars, taskVars
<1>7. ASSUME NEW h \in Handles, UseBegin(t, h) PROVE SwitchInvariant'
  BY <1>7 DEF UseBegin, Idle, Goto, SwitchInvariant, SwitchingTask,
     CoreServed, ReadyIsChosen, RuntimeInvariant, TypeOK, InstanceTypeOK, TaskTypeOK, LockHeld,
     Locked, Serving, States, Labels, Ops, lifeVars, handleVars, lockVars,
     discVars, taskVars
<1> QED BY <1>1, <1>2, <1>3, <1>4, <1>5, <1>6, <1>7 DEF Request

(* The steps of a switch: the old bundle is down before a new one is up.   *)
LEMMA ProceedSwitches ==
    ASSUME RuntimeInvariant, SwitchInvariant, Deletable = {}, NEW t \in Tasks, Proceed(t)
    PROVE  SwitchInvariant'
<1>1. CASE TakeLock(t)
  BY <1>1 DEF TakeLock, SwitchInvariant, SwitchingTask, CoreServed, ReadyIsChosen,
     RuntimeInvariant, TypeOK, InstanceTypeOK, TaskTypeOK, LockHeld, Locked,
     Serving, States, Labels, Ops, lifeVars, handleVars, lockVars, discVars,
     taskVars
<1>2. CASE WaitForLock(t)
  BY <1>2 DEF WaitForLock, SwitchInvariant, SwitchingTask, CoreServed, ReadyIsChosen,
     RuntimeInvariant, TypeOK, InstanceTypeOK, TaskTypeOK, LockHeld, Locked,
     Serving, States, Labels, Ops, lifeVars, handleVars, lockVars, discVars,
     taskVars
<1>3. CASE GetLock(t)
  BY <1>3 DEF GetLock, SwitchInvariant, SwitchingTask, CoreServed, ReadyIsChosen,
     RuntimeInvariant, TypeOK, InstanceTypeOK, TaskTypeOK, LockHeld, Locked,
     Serving, States, Labels, Ops, lifeVars, handleVars, lockVars, discVars,
     taskVars
<1>4. CASE InitRefused(t)
  BY <1>4 DEF InitRefused, Continues, Finish, Goto, SwitchInvariant,
     SwitchingTask, CoreServed, ReadyIsChosen, RuntimeInvariant, TypeOK, InstanceTypeOK,
     TaskTypeOK, LockHeld, Locked, Serving, States, Labels, Ops, lifeVars,
     handleVars, lockVars, discVars, taskVars
<1>5. CASE InitUnknown(t)
  BY SMTT(60), <1>5 DEF InitUnknown, InitFails, MayInitialize, Continues, Finish, Goto,
     SwitchInvariant, SwitchingTask, CoreServed, ReadyIsChosen, RuntimeInvariant, TypeOK,
     InstanceTypeOK, TaskTypeOK, LockHeld, Locked, Serving, States, Labels, Ops,
     lifeVars, handleVars, lockVars, discVars, taskVars
<1>6. ASSUME NEW b \in Bundles, Build(t, b) PROVE SwitchInvariant'
  BY SMTT(60), <1>6 DEF Build, Selected, MayInitialize, Continues, Goto,
     SwitchInvariant, SwitchingTask, CoreServed, ReadyIsChosen, RuntimeInvariant, TypeOK,
     InstanceTypeOK, TaskTypeOK, LockHeld, Locked, Serving, States, Labels, Ops,
     lifeVars, handleVars, lockVars, discVars, taskVars
<1>7. CASE Ready(t)
  BY SMTT(60), <1>7 DEF Ready, Chosen, Resumes, Finish, Goto, SwitchInvariant,
     SwitchingTask, CoreServed, ReadyIsChosen, RuntimeInvariant, TypeOK, InstanceTypeOK,
     TaskTypeOK, LockHeld, Locked, Serving, States, Labels, Ops, lifeVars,
     handleVars, lockVars, discVars, taskVars
<1>8. CASE DestroyNothing(t)
  BY SMTT(60), <1>8 DEF DestroyNothing, Destroyed, Continues, Finish, Goto,
     SwitchInvariant, SwitchingTask, CoreServed, ReadyIsChosen, RuntimeInvariant, TypeOK,
     InstanceTypeOK, TaskTypeOK, LockHeld, Locked, Serving, States, Labels, Ops,
     lifeVars, handleVars, lockVars, discVars, taskVars
<1>9. CASE StartDrain(t)
  BY <1>9 DEF StartDrain, Continues, Goto, SwitchInvariant, SwitchingTask,
     CoreServed, ReadyIsChosen, RuntimeInvariant, TypeOK, InstanceTypeOK, TaskTypeOK, LockHeld,
     Locked, Serving, States, Labels, Ops, lifeVars, handleVars, lockVars,
     discVars, taskVars
<1>10. CASE Drained(t)
  BY <1>10 DEF Drained, Goto, SwitchInvariant, SwitchingTask, CoreServed, ReadyIsChosen,
     RuntimeInvariant, TypeOK, InstanceTypeOK, TaskTypeOK, LockHeld, Locked,
     Serving, States, Labels, Ops, lifeVars, handleVars, lockVars, discVars,
     taskVars
<1>11. CASE Finalized(t)
  BY SMTT(60), <1>11 DEF Finalized, Torn, Destroyed, Finish, Goto, SwitchInvariant,
     SwitchingTask, CoreServed, ReadyIsChosen, RuntimeInvariant, TypeOK, InstanceTypeOK,
     TaskTypeOK, LockHeld, Locked, Serving, States, Labels, Ops, lifeVars,
     handleVars, lockVars, discVars, taskVars
<1>12. CASE TempStarted(t)
  BY <1>12 DEF TempStarted, Resumes, SwitchInvariant, SwitchingTask,
     CoreServed, ReadyIsChosen, RuntimeInvariant, TypeOK, InstanceTypeOK, TaskTypeOK, LockHeld,
     Locked, Serving, States, Labels, Ops, lifeVars, handleVars, lockVars,
     discVars, taskVars
<1>13. CASE Cleared(t)
  BY <1>13 DEF Cleared, Resumes, SwitchInvariant, SwitchingTask, CoreServed, ReadyIsChosen,
     RuntimeInvariant, TypeOK, InstanceTypeOK, TaskTypeOK, LockHeld, Locked,
     Serving, States, Labels, Ops, lifeVars, handleVars, lockVars, discVars,
     taskVars
<1>14. CASE TempFinalized(t)
  BY <1>14 DEF TempFinalized, Resumes, SwitchInvariant, SwitchingTask,
     CoreServed, ReadyIsChosen, RuntimeInvariant, TypeOK, InstanceTypeOK, TaskTypeOK, LockHeld,
     Locked, Serving, States, Labels, Ops, lifeVars, handleVars, lockVars,
     discVars, taskVars
<1>15. CASE Removed(t)
  BY <1>15 DEF Removed, Continues, SwitchInvariant, SwitchingTask, CoreServed, ReadyIsChosen,
     RuntimeInvariant, TypeOK, InstanceTypeOK, TaskTypeOK, LockHeld, Locked,
     Serving, States, Labels, Ops, lifeVars, handleVars, lockVars, discVars,
     taskVars
<1>16. CASE CloseDone(t)
  BY ZenonT(60), <1>16 DEF CloseDone, Finish, Goto, SwitchInvariant, SwitchingTask,
     CoreServed, ReadyIsChosen, RuntimeInvariant, TypeOK, InstanceTypeOK, TaskTypeOK, LockHeld,
     Locked, Serving, States, Labels, Ops, lifeVars, handleVars, lockVars,
     discVars, taskVars
<1>17. CASE UseEnd(t)
  BY <1>17 DEF UseEnd, Resumes, Finish, Goto, SwitchInvariant, SwitchingTask,
     CoreServed, ReadyIsChosen, RuntimeInvariant, TypeOK, InstanceTypeOK, TaskTypeOK, LockHeld,
     Locked, Serving, States, Labels, Ops, lifeVars, handleVars, lockVars,
     discVars, taskVars
<1> QED BY <1>1, <1>2, <1>3, <1>4, <1>5, <1>6, <1>7, <1>8, <1>9, <1>10, <1>11,
       <1>12, <1>13, <1>14, <1>15, <1>16, <1>17 DEF Proceed

(* The failures of a switch: only the registry leaves a bundle behind.     *)
LEMMA FailureSwitches ==
    ASSUME RuntimeInvariant, SwitchInvariant, Deletable = {}, NEW t \in Tasks, Failure(t)
    PROVE  SwitchInvariant'
<1>1. CASE BuildFails(t)
  BY SMTT(60), <1>1 DEF BuildFails, InitFails, Fault, Resumes, Finish, Goto,
     SwitchInvariant, SwitchingTask, CoreServed, ReadyIsChosen, RuntimeInvariant, TypeOK,
     InstanceTypeOK, TaskTypeOK, LockHeld, Locked, Serving, States, Labels, Ops,
     lifeVars, handleVars, lockVars, discVars, taskVars
<1>2. CASE SetActiveFails(t)
  BY SMTT(60), <1>2 DEF SetActiveFails, InitFails, Fault, Resumes, Finish, Goto,
     SwitchInvariant, SwitchingTask, CoreServed, ReadyIsChosen, RuntimeInvariant, TypeOK,
     InstanceTypeOK, TaskTypeOK, LockHeld, Locked, Serving, States, Labels, Ops,
     lifeVars, handleVars, lockVars, discVars, taskVars
<1>3. CASE TimedOut(t)
  BY <1>3 DEF TimedOut, Fault, Resumes, Finish, Goto, SwitchInvariant,
     SwitchingTask, CoreServed, ReadyIsChosen, RuntimeInvariant, TypeOK, InstanceTypeOK,
     TaskTypeOK, LockHeld, Locked, Serving, States, Labels, Ops, lifeVars,
     handleVars, lockVars, discVars, taskVars
<1>4. CASE FinalizeFails(t)
  BY SMTT(60), <1>4 DEF FinalizeFails, Torn, Fault, Finish, Goto, SwitchInvariant,
     SwitchingTask, CoreServed, ReadyIsChosen, RuntimeInvariant, TypeOK, InstanceTypeOK,
     TaskTypeOK, LockHeld, Locked, Serving, States, Labels, Ops, lifeVars,
     handleVars, lockVars, discVars, taskVars
<1>5. CASE TempStartFails(t)
  BY <1>5 DEF TempStartFails, Resumes, SwitchInvariant, SwitchingTask,
     CoreServed, ReadyIsChosen, RuntimeInvariant, TypeOK, InstanceTypeOK, TaskTypeOK, LockHeld,
     Locked, Serving, States, Labels, Ops, lifeVars, handleVars, lockVars,
     discVars, taskVars
<1>6. CASE ClearFails(t)
  BY <1>6 DEF ClearFails, ClearFault, Resumes, SwitchInvariant, SwitchingTask,
     CoreServed, ReadyIsChosen, RuntimeInvariant, TypeOK, InstanceTypeOK, TaskTypeOK, LockHeld,
     Locked, Serving, States, Labels, Ops, lifeVars, handleVars, lockVars,
     discVars, taskVars
<1>7. CASE TempClearFails(t)
  BY <1>7 DEF TempClearFails, ClearFault, Resumes, SwitchInvariant,
     SwitchingTask, CoreServed, ReadyIsChosen, RuntimeInvariant, TypeOK, InstanceTypeOK,
     TaskTypeOK, LockHeld, Locked, Serving, States, Labels, Ops, lifeVars,
     handleVars, lockVars, discVars, taskVars
<1>8. CASE TempGivenUp(t)
  BY <1>8 DEF TempGivenUp, Resumes, SwitchInvariant, SwitchingTask,
     CoreServed, ReadyIsChosen, RuntimeInvariant, TypeOK, InstanceTypeOK, TaskTypeOK, LockHeld,
     Locked, Serving, States, Labels, Ops, lifeVars, handleVars, lockVars,
     discVars, taskVars
<1>9. CASE RemoveFails(t)
  BY <1>9 DEF RemoveFails, Continues, SwitchInvariant, SwitchingTask,
     CoreServed, ReadyIsChosen, RuntimeInvariant, TypeOK, InstanceTypeOK, TaskTypeOK, LockHeld,
     Locked, Serving, States, Labels, Ops, lifeVars, handleVars, lockVars,
     discVars, taskVars
<1> QED BY <1>1, <1>2, <1>3, <1>4, <1>5, <1>6, <1>7, <1>8, <1>9 DEF Failure

LEMMA SwitchStep ==
    ASSUME RuntimeInvariant, SwitchInvariant, Deletable = {}, [Next]_vars
    PROVE  SwitchInvariant'
<1>1. ASSUME NEW w \in Workspaces, Create(w) PROVE SwitchInvariant'
  BY <1>1 DEF Create, ReadyIsChosen, SwitchInvariant, SwitchingTask,
     CoreServed, RuntimeInvariant, TypeOK, InstanceTypeOK, TaskTypeOK, LockHeld,
     Locked, Serving, States, Labels, Ops, lifeVars, handleVars, lockVars,
     discVars, taskVars
<1>2. ASSUME NEW h \in Handles, OpenHandle(h) PROVE SwitchInvariant'
  BY <1>2 DEF OpenHandle, ReadyIsChosen, SwitchInvariant, SwitchingTask,
     CoreServed, RuntimeInvariant, TypeOK, InstanceTypeOK, TaskTypeOK, LockHeld,
     Locked, Serving, States, Labels, Ops, lifeVars, handleVars, lockVars,
     discVars, taskVars
<1>3. CASE UNCHANGED vars
  BY <1>3 DEF vars, ReadyIsChosen, SwitchInvariant, SwitchingTask, CoreServed,
     lifeVars, handleVars, lockVars, discVars, taskVars
<1> QED BY <1>1, <1>2, <1>3, RequestSwitches, ProceedSwitches, FailureSwitches DEF Next

LEMMA SwitchAlways ==
    ASSUME Deletable = {}
    PROVE  Spec => []SwitchInvariant
<1>1. Init => SwitchInvariant BY InitSwitches
<1>2. RuntimeInvariant /\ SwitchInvariant /\ [Next]_vars => SwitchInvariant'
  BY SwitchStep
<1> QED BY <1>1, <1>2, RuntimeInvariantHolds, PTL DEF Spec

(* While no workspace is deleted, a ready Runtime serves the workspace     *)
(* that a restart would select, whatever fails.                            *)
THEOREM ServesTheChosen ==
    ASSUME Deletable = {}
    PROVE  Spec => []ReadyIsChosen
<1>1. SwitchInvariant => ReadyIsChosen BY DEF SwitchInvariant
<1> QED BY <1>1, SwitchAlways, PTL

(* While no workspace is deleted, and until the registry cannot be written,*)
(* at most one bundle is up: a switch starts the new one when the old one  *)
(* is down, and a start that fails leaves none.                            *)
THEOREM OneCoreAtATime ==
    ASSUME Deletable = {}
    PROVE  Spec => [](faults["registry"] = 0 => OneCore)
<1>1. RuntimeInvariant /\ SwitchInvariant => (faults["registry"] = 0 => OneCore)
  BY DEF SwitchInvariant, CoreServed, OneCore
<1> QED BY <1>1, SwitchAlways, RuntimeInvariantHolds, PTL

-----------------------------------------------------------------------------
(* Who waits for whom.                                                     *)

(* Another coroutine has to go on before t can: the lock is not handed to  *)
(* it, or a handle it drains or closes has a call in flight.               *)
HandedOver(t) == lock = None /\ queue # <<>> /\ Head(queue) = t

Waits(t) ==
    \/ Wants(t) /\ turn # t /\ ~HandedOver(t)
    \/ pc[t] = "drain" /\ ~AllIdle(t)
    \/ pc[t] = "close" /\ ~Quiet(hnd[t])

(* The loop is never kept by a coroutine that waits, and among those that  *)
(* are under way one does not wait.                                        *)
SomebodyGoesOn ==
    /\ turn # None => pc[turn] # "idle" /\ ~Waits(turn)
    /\ (\E t \in Tasks : pc[t] # "idle") =>
            \E t \in Tasks : pc[t] # "idle" /\ ~Waits(t)

(* Whoever gets the lock for instance_destroy finds no initialization and  *)
(* no finalization half done.                                              *)
NothingHalfDone ==
    \A t \in Tasks :
        pc[t] = "destroy" /\ lock = t => state \notin {"initializing", "finalizing"}

Asking == {"destroy", "init"}

(* The holder of the lock is inside one of the two operations, and what    *)
(* they leave half done is done under the lock.                            *)
HolderInside ==
    /\ lock # None => \/ pc[lock] \in Locked
                      \/ turn = lock /\ pc[lock] \in Asking
    /\ state = "initializing" => lock # None /\ pc[lock] = "start"
    /\ state = "finalizing" => lock # None /\ pc[lock] = "finalize"

(* Those who want the lock and have suspended are in its queue, once.      *)
QueueOnce ==
    /\ \A i \in 1 .. Len(queue) : Wants(queue[i]) /\ turn # queue[i]
    /\ \A i, j \in 1 .. Len(queue) : queue[i] = queue[j] => i = j
    /\ \A t \in Tasks : Wants(t) /\ turn # t => \E i \in 1 .. Len(queue) : queue[i] = t

(* Between two actions that the code runs without a suspension.            *)
TurnBusy ==
    turn # None =>
        /\ pc[turn] \in Asking \cup {"drain", "finalize", "remove", "close"}
        /\ pc[turn] = "drain" => AllIdle(turn)
        /\ pc[turn] = "close" => Quiet(hnd[turn])

WaitInvariant == HolderInside /\ QueueOnce /\ TurnBusy

(* What every step of a coroutine keeps to: it moves nobody else, takes    *)
(* the lock and the loop for itself only, and gives up the lock when it    *)
(* has left no operation half done.                                        *)
Moves(t) ==
    /\ pc' \in [Tasks -> Labels]
    /\ \A u \in Tasks \ {t} : pc'[u] = pc[u]
    /\ turn \in {None, t} /\ turn' \in {None, t}
    /\ lock' = lock \/ {lock, lock'} \subseteq {None, t}
    /\ lock' = t => \/ pc'[t] \in Locked
                    \/ turn' = t /\ pc'[t] \in Asking
    /\ state' = "initializing" =>
            \/ lock' = t /\ pc'[t] = "start"
            \/ state = "initializing" /\ lock' = lock /\ lock # t
    /\ state' = "finalizing" =>
            \/ lock' = t /\ pc'[t] = "finalize"
            \/ state = "finalizing" /\ lock' = lock /\ lock # t
    /\ turn' = t =>
            /\ pc'[t] \in Asking \cup {"drain", "finalize", "remove", "close"}
            /\ pc'[t] = "drain" => AllIdle(t)'
            /\ pc'[t] = "close" => Quiet(hnd[t])'

(* A step that leaves the queue as it is: the coroutine was not in it and  *)
(* does not suspend wanting the lock.                                      *)
Passes(t) ==
    /\ queue' = queue
    /\ turn = t \/ pc[t] \notin Asking \/ lock = t
    /\ turn' = t \/ pc'[t] \notin Asking \/ lock' = t

LEMMA InitWaits == Init => WaitInvariant
BY DEF Init, WaitInvariant, HolderInside, QueueOnce, TurnBusy, Wants, Asking

(* The holder and the loop, whatever the step does to the queue.           *)
LEMMA MovesKeep ==
    ASSUME RuntimeInvariant, WaitInvariant, NEW t \in Tasks, Moves(t)
    PROVE  HolderInside' /\ TurnBusy'
<1>t. None \notin Tasks /\ lock \in Tasks \cup {None} /\ pc \in [Tasks -> Labels]
  BY DEF RuntimeInvariant, TypeOK, InstanceTypeOK, TaskTypeOK
<1>1. HolderInside'
  BY <1>t DEF WaitInvariant, HolderInside, Moves, Locked, Asking
<1>2. TurnBusy'
  BY <1>t DEF TurnBusy, Moves
<1> QED BY <1>1, <1>2

LEMMA PassesKeep ==
    ASSUME RuntimeInvariant, WaitInvariant, NEW t \in Tasks, Moves(t), Passes(t)
    PROVE  WaitInvariant'
<1>t. /\ None \notin Tasks /\ lock \in Tasks \cup {None} /\ pc \in [Tasks -> Labels]
      /\ queue \in Seq(Tasks)
  BY DEF RuntimeInvariant, TypeOK, InstanceTypeOK, TaskTypeOK
<1>1. ASSUME NEW u \in Tasks
      PROVE  (Wants(u) /\ turn # u)' <=> Wants(u) /\ turn # u
  BY <1>t DEF Moves, Passes, Wants, Asking
<1>2. \A i \in 1 .. Len(queue) : queue[i] \in Tasks
  BY <1>t
<1>3. QueueOnce'
  BY <1>1, <1>2 DEF WaitInvariant, QueueOnce, Passes
<1> QED BY <1>3, MovesKeep DEF WaitInvariant

(* Asking for an operation.                                                *)
LEMMA RequestWaits ==
    ASSUME RuntimeInvariant, WaitInvariant, NEW t \in Tasks, Request(t)
    PROVE  WaitInvariant'
<1> USE DEF RuntimeInvariant, TypeOK, InstanceTypeOK, TaskTypeOK, LockHeld, Locked, Labels,
        WaitInvariant, HolderInside, Asking, Moves, Passes, lifeVars, lockVars
<1>1. CASE Boot(t)
  <2>1. Moves(t) /\ Passes(t)
    BY <1>1 DEF Boot, Begins, Idle, Goto
  <2> QED BY <2>1, PassesKeep
<1>2. CASE Shutdown(t)
  <2>1. Moves(t) /\ Passes(t)
    BY <1>2 DEF Shutdown, Begins, Idle, Goto
  <2> QED BY <2>1, PassesKeep
<1>3. ASSUME NEW w \in Workspaces, Switch(t, w) PROVE WaitInvariant'
  <2>1. Moves(t) /\ Passes(t)
    BY <1>3 DEF Switch, Begins, Idle, Goto
  <2> QED BY <2>1, PassesKeep
<1>4. ASSUME NEW w \in Workspaces, DeleteActive(t, w) PROVE WaitInvariant'
  <2>1. Moves(t) /\ Passes(t)
    BY <1>4 DEF DeleteActive, Begins, Idle, Goto
  <2> QED BY <2>1, PassesKeep
<1>5. ASSUME NEW w \in Workspaces, NEW b \in Bundles, DeleteOther(t, w, b) PROVE WaitInvariant'
  <2>1. Moves(t) /\ Passes(t)
    BY <1>5 DEF DeleteOther, Begins, Idle, Goto
  <2> QED BY <2>1, PassesKeep
<1>6. ASSUME NEW h \in Handles, CloseHandle(t, h) PROVE WaitInvariant'
  <2>1. Moves(t) /\ Passes(t)
    BY SMTT(60), <1>6 DEF CloseHandle, Idle, Goto, Quiet
  <2> QED BY <2>1, PassesKeep
<1>7. ASSUME NEW h \in Handles, UseBegin(t, h) PROVE WaitInvariant'
  <2>1. Moves(t) /\ Passes(t)
    BY <1>7 DEF UseBegin, Idle, Goto
  <2> QED BY <2>1, PassesKeep
<1> QED BY <1>1, <1>2, <1>3, <1>4, <1>5, <1>6, <1>7 DEF Request

(* Taking the place at the end of the queue.                               *)
LEMMA WaitForLockWaits ==
    ASSUME RuntimeInvariant, WaitInvariant, NEW t \in Tasks, WaitForLock(t)
    PROVE  WaitInvariant'
<1>t. /\ None \notin Tasks /\ lock \in Tasks \cup {None} /\ pc \in [Tasks -> Labels]
      /\ queue \in Seq(Tasks)
  BY DEF RuntimeInvariant, TypeOK, InstanceTypeOK, TaskTypeOK
<1>1. Moves(t)
  BY <1>t DEF WaitForLock, Wants, Moves, WaitInvariant, HolderInside, Asking, lifeVars,
     Locked, RuntimeInvariant, LockHeld
<1>2. /\ queue' = Append(queue, t) /\ turn = t /\ turn' = None /\ Wants(t)
      /\ \A u : Wants(u)' <=> Wants(u)
  BY DEF WaitForLock, Wants
<1>3. QueueOnce
  BY DEF WaitInvariant
<1>4. /\ Len(queue') = Len(queue) + 1 /\ queue'[Len(queue) + 1] = t
      /\ \A i \in 1 .. Len(queue) : queue'[i] = queue[i]
  BY <1>t, <1>2
<1>5. \A i \in 1 .. Len(queue) : queue[i] # t
  BY <1>2, <1>3 DEF QueueOnce
<1>6. Len(queue) \in Nat
  BY <1>t
<1>7. QueueOnce'
  BY SMTT(60), <1>t, <1>2, <1>3, <1>4, <1>5, <1>6 DEF QueueOnce
<1> QED BY <1>1, <1>7, MovesKeep DEF WaitInvariant

(* The head of the queue is handed the lock.                               *)
LEMMA GetLockWaits ==
    ASSUME RuntimeInvariant, WaitInvariant, NEW t \in Tasks, GetLock(t)
    PROVE  WaitInvariant'
<1>t. /\ None \notin Tasks /\ lock \in Tasks \cup {None} /\ pc \in [Tasks -> Labels]
      /\ queue \in Seq(Tasks)
  BY DEF RuntimeInvariant, TypeOK, InstanceTypeOK, TaskTypeOK
<1>1. Moves(t)
  BY <1>t DEF GetLock, Wants, Moves, WaitInvariant, HolderInside, Asking, lifeVars
<1>2. /\ queue # <<>> /\ queue[1] = t /\ queue' = Tail(queue)
      /\ turn = None /\ turn' = t /\ lock = None /\ lock' = t /\ pc' = pc
  BY <1>t DEF GetLock
<1>3. QueueOnce
  BY DEF WaitInvariant
<1>4. /\ Len(queue) \in Nat \ {0} /\ Len(queue') = Len(queue) - 1
      /\ \A i \in 1 .. Len(queue') : queue'[i] = queue[i + 1]
  BY <1>t, <1>2
<1>5. \A i \in 1 .. Len(queue') : i + 1 \in 1 .. Len(queue) /\ i + 1 # 1
  BY <1>4
<1>6. ASSUME NEW u \in Tasks \ {t}
      PROVE  (Wants(u) /\ turn # u)' <=> Wants(u) /\ turn # u
  BY <1>t, <1>2 DEF Wants
<1>7. \A i \in 1 .. Len(queue') : queue'[i] \in Tasks \ {t}
  BY <1>t, <1>2, <1>3, <1>4, <1>5 DEF QueueOnce
<1>8. \A i \in 1 .. Len(queue') : (Wants(queue[i]) /\ turn # queue[i])'
  BY <1>2, <1>3, <1>4, <1>5, <1>7 DEF QueueOnce, Wants
<1>9. \A i, j \in 1 .. Len(queue') : queue'[i] = queue'[j] => i = j
  BY SMTT(60), <1>3, <1>4, <1>5 DEF QueueOnce
<1>10. ASSUME NEW u \in Tasks, (Wants(u) /\ turn # u)'
       PROVE  \E i \in 1 .. Len(queue') : queue'[i] = u
  <2>1. u # t
    BY <1>2, <1>10
  <2>2. PICK i \in 1 .. Len(queue) : queue[i] = u
    BY <2>1, <1>3, <1>6, <1>10 DEF QueueOnce
  <2>3. i - 1 \in 1 .. Len(queue') /\ queue'[i - 1] = u
    BY <2>1, <2>2, <1>2, <1>4
  <2> QED BY <2>3
<1>11. QueueOnce'
  BY <1>8, <1>9, <1>10 DEF QueueOnce
<1> QED BY <1>1, <1>11, MovesKeep DEF WaitInvariant

(* The steps of an operation: a step that leaves the lock wanted keeps the *)
(* loop.                                                                   *)
LEMMA ProceedWaits ==
    ASSUME RuntimeInvariant, WaitInvariant, NEW t \in Tasks, Proceed(t)
    PROVE  WaitInvariant'
<1> USE DEF RuntimeInvariant, TypeOK, InstanceTypeOK, TaskTypeOK, LockHeld, Locked, Labels,
        WaitInvariant, HolderInside, Asking, Moves, Passes, lifeVars, lockVars
<1>1. CASE WaitForLock(t)
  BY <1>1, WaitForLockWaits
<1>2. CASE GetLock(t)
  BY <1>2, GetLockWaits
<1>3. CASE TakeLock(t)
  <2>1. Moves(t) /\ Passes(t)
    BY <1>3 DEF TakeLock, Wants, LockFree, taskVars
  <2> QED BY <2>1, PassesKeep
<1>4. CASE InitRefused(t)
  <2>1. Moves(t) /\ Passes(t)
    BY <1>4 DEF InitRefused, Continues, Finish, Goto
  <2> QED BY <2>1, PassesKeep
<1>5. CASE InitUnknown(t)
  <2>1. Moves(t) /\ Passes(t)
    BY <1>5 DEF InitUnknown, InitFails, Continues, Finish, Goto
  <2> QED BY <2>1, PassesKeep
<1>6. ASSUME NEW b \in Bundles, Build(t, b) PROVE WaitInvariant'
  <2>1. Moves(t) /\ Passes(t)
    BY <1>6 DEF Build, Continues, MayInitialize, Goto
  <2> QED BY <2>1, PassesKeep
<1>7. CASE Ready(t)
  <2>1. Moves(t) /\ Passes(t)
    BY <1>7 DEF Ready, Resumes, Finish, Goto
  <2> QED BY <2>1, PassesKeep
<1>8. CASE DestroyNothing(t)
  <2>1. /\ pc[t] = "destroy" /\ turn = t /\ lock = t /\ lock' = None
        /\ queue' = queue /\ state' \in {"finalized", "new"}
    BY <1>8 DEF DestroyNothing, Continues
  <2>2. \/ pc' = [pc EXCEPT ![t] = "idle"] /\ turn' = None
        \/ pc' = [pc EXCEPT ![t] = "init"] /\ turn' = t
        \/ pc' = [pc EXCEPT ![t] = "remove"] /\ turn' = t
    BY <1>8 DEF DestroyNothing, Destroyed, Finish, Goto
  <2>3. ASSUME pc' = [pc EXCEPT ![t] = "idle"] /\ turn' = None PROVE Moves(t) /\ Passes(t)
    BY SMTT(60), <2>1, <2>3
  <2>4. ASSUME pc' = [pc EXCEPT ![t] = "init"] /\ turn' = t PROVE Moves(t) /\ Passes(t)
    BY SMTT(60), <2>1, <2>4
  <2>5. ASSUME pc' = [pc EXCEPT ![t] = "remove"] /\ turn' = t PROVE Moves(t) /\ Passes(t)
    BY SMTT(60), <2>1, <2>5
  <2> HIDE DEF Moves, Passes, WaitInvariant, RuntimeInvariant
  <2> QED BY <2>2, <2>3, <2>4, <2>5, PassesKeep
<1>9. CASE StartDrain(t)
  <2>1. Moves(t) /\ Passes(t)
    BY <1>9 DEF StartDrain, Continues, Goto, AllIdle
  <2> QED BY <2>1, PassesKeep
<1>10. CASE Drained(t)
  <2>1. Moves(t) /\ Passes(t)
    BY <1>10 DEF Drained, Goto
  <2> QED BY <2>1, PassesKeep
<1>11. CASE Finalized(t)
  <2>1. /\ pc[t] = "finalize" /\ turn \in {None, t} /\ lock = t /\ lock' = None
        /\ queue' = queue /\ state' \in {"finalized", "new"}
    BY <1>11 DEF Finalized, Torn
  <2>2. \/ pc' = [pc EXCEPT ![t] = "idle"] /\ turn' = None
        \/ pc' = [pc EXCEPT ![t] = "init"] /\ turn' = t
        \/ pc' = [pc EXCEPT ![t] = "remove"] /\ turn' = t
    BY <1>11 DEF Finalized, Destroyed, Finish, Goto
  <2>3. ASSUME pc' = [pc EXCEPT ![t] = "idle"] /\ turn' = None PROVE Moves(t) /\ Passes(t)
    BY SMTT(60), <2>1, <2>3
  <2>4. ASSUME pc' = [pc EXCEPT ![t] = "init"] /\ turn' = t PROVE Moves(t) /\ Passes(t)
    BY SMTT(60), <2>1, <2>4
  <2>5. ASSUME pc' = [pc EXCEPT ![t] = "remove"] /\ turn' = t PROVE Moves(t) /\ Passes(t)
    BY SMTT(60), <2>1, <2>5
  <2> HIDE DEF Moves, Passes, WaitInvariant, RuntimeInvariant
  <2> QED BY <2>2, <2>3, <2>4, <2>5, PassesKeep
<1>12. CASE TempStarted(t)
  <2>1. Moves(t) /\ Passes(t)
    BY SMTT(60), <1>12 DEF TempStarted, Resumes, Goto
  <2> QED BY <2>1, PassesKeep
<1>13. CASE Cleared(t)
  <2>1. Moves(t) /\ Passes(t)
    BY <1>13 DEF Cleared, Resumes, Goto
  <2> QED BY <2>1, PassesKeep
<1>14. CASE TempFinalized(t)
  <2>1. Moves(t) /\ Passes(t)
    BY <1>14 DEF TempFinalized, Resumes, Goto
  <2> QED BY <2>1, PassesKeep
<1>15. CASE Removed(t)
  <2>1. /\ turn = t /\ pc[t] = "remove" /\ lock # t
        /\ lock' = lock /\ queue' = queue /\ state' = state
    BY <1>15 DEF Removed, Continues
  <2>2. \/ pc' = [pc EXCEPT ![t] = "init"] /\ turn' = turn
        \/ pc' = [pc EXCEPT ![t] = "idle"] /\ turn' = None
    BY <1>15 DEF Removed, Replace, Finish, Goto
  <2>3. ASSUME pc' = [pc EXCEPT ![t] = "idle"] /\ turn' = None PROVE Moves(t) /\ Passes(t)
    BY <2>1, <2>3
  <2>4. ASSUME pc' = [pc EXCEPT ![t] = "init"] /\ turn' = turn PROVE Moves(t) /\ Passes(t)
    BY <2>1, <2>4
  <2> HIDE DEF Moves, Passes, WaitInvariant, RuntimeInvariant
  <2> QED BY <2>2, <2>3, <2>4, PassesKeep
<1>16. CASE CloseDone(t)
  <2>1. Moves(t) /\ Passes(t)
    BY <1>16 DEF CloseDone, Finish, Goto
  <2> QED BY <2>1, PassesKeep
<1>17. CASE UseEnd(t)
  <2>1. Moves(t) /\ Passes(t)
    BY SMTT(60), <1>17 DEF UseEnd, Resumes, Finish, Goto
  <2> QED BY <2>1, PassesKeep
<1> QED BY <1>1, <1>2, <1>3, <1>4, <1>5, <1>6, <1>7, <1>8, <1>9, <1>10, <1>11, <1>12,
       <1>13, <1>14, <1>15, <1>16, <1>17 DEF Proceed

(* The failures of an operation.                                           *)
LEMMA FailureWaits ==
    ASSUME RuntimeInvariant, WaitInvariant, NEW t \in Tasks, Failure(t)
    PROVE  WaitInvariant'
<1> USE DEF RuntimeInvariant, TypeOK, InstanceTypeOK, TaskTypeOK, LockHeld, Locked, Labels,
        WaitInvariant, HolderInside, Asking, Moves, Passes, lifeVars, lockVars
<1>1. CASE BuildFails(t)
  <2>1. Moves(t) /\ Passes(t)
    BY <1>1 DEF BuildFails, InitFails, Resumes, Finish, Goto
  <2> QED BY <2>1, PassesKeep
<1>2. CASE SetActiveFails(t)
  <2>1. Moves(t) /\ Passes(t)
    BY <1>2 DEF SetActiveFails, InitFails, Resumes, Finish, Goto
  <2> QED BY <2>1, PassesKeep
<1>3. CASE TimedOut(t)
  <2>1. Moves(t) /\ Passes(t)
    BY <1>3 DEF TimedOut, Resumes, Finish, Goto
  <2> QED BY <2>1, PassesKeep
<1>4. CASE FinalizeFails(t)
  <2>1. Moves(t) /\ Passes(t)
    BY <1>4 DEF FinalizeFails, Torn, Finish, Goto
  <2> QED BY <2>1, PassesKeep
<1>5. CASE TempStartFails(t)
  <2>1. Moves(t) /\ Passes(t)
    BY <1>5 DEF TempStartFails, Resumes, Finish, Goto
  <2> QED BY <2>1, PassesKeep
<1>6. CASE ClearFails(t)
  <2>1. Moves(t) /\ Passes(t)
    BY SMTT(60), <1>6 DEF ClearFails, ClearFault, Resumes, Finish, Goto
  <2> QED BY <2>1, PassesKeep
<1>7. CASE TempClearFails(t)
  <2>1. Moves(t) /\ Passes(t)
    BY SMTT(60), <1>7 DEF TempClearFails, ClearFault, Resumes, Goto
  <2> QED BY <2>1, PassesKeep
<1>8. CASE TempGivenUp(t)
  <2>1. Moves(t) /\ Passes(t)
    BY <1>8 DEF TempGivenUp, Resumes, Finish, Goto
  <2> QED BY <2>1, PassesKeep
<1>9. CASE RemoveFails(t)
  <2>1. /\ turn = t /\ pc[t] = "remove" /\ lock # t
        /\ lock' = lock /\ queue' = queue /\ state' = state
    BY <1>9 DEF RemoveFails, Continues
  <2>2. \/ pc' = [pc EXCEPT ![t] = "init"] /\ turn' = turn
        \/ pc' = [pc EXCEPT ![t] = "idle"] /\ turn' = None
    BY <1>9 DEF RemoveFails, Replace, Finish, Goto
  <2>3. ASSUME pc' = [pc EXCEPT ![t] = "idle"] /\ turn' = None PROVE Moves(t) /\ Passes(t)
    BY <2>1, <2>3
  <2>4. ASSUME pc' = [pc EXCEPT ![t] = "init"] /\ turn' = turn PROVE Moves(t) /\ Passes(t)
    BY <2>1, <2>4
  <2> HIDE DEF Moves, Passes, WaitInvariant, RuntimeInvariant
  <2> QED BY <2>2, <2>3, <2>4, PassesKeep
<1> QED BY <1>1, <1>2, <1>3, <1>4, <1>5, <1>6, <1>7, <1>8, <1>9 DEF Failure

LEMMA WaitStep ==
    ASSUME RuntimeInvariant, WaitInvariant, [Next]_vars
    PROVE  WaitInvariant'
<1> USE DEF WaitInvariant, HolderInside, QueueOnce, TurnBusy, Wants, AllIdle, Quiet
<1>1. ASSUME NEW w \in Workspaces, Create(w) PROVE WaitInvariant'
  BY <1>1 DEF Create, lifeVars, lockVars, taskVars
<1>2. ASSUME NEW h \in Handles, OpenHandle(h) PROVE WaitInvariant'
  BY <1>2 DEF OpenHandle, lifeVars, lockVars, taskVars
<1>3. CASE UNCHANGED vars
  BY <1>3 DEF vars, lifeVars, lockVars, taskVars
<1> HIDE DEF WaitInvariant
<1> QED BY <1>1, <1>2, <1>3, RequestWaits, ProceedWaits, FailureWaits DEF Next

LEMMA WaitsAlways == Spec => []WaitInvariant
<1>1. RuntimeInvariant /\ WaitInvariant /\ [Next]_vars => WaitInvariant'
  BY WaitStep
<1> QED BY <1>1, InitWaits, RuntimeInvariantHolds, PTL DEF Spec

(* No coroutines wait for each other in a circle, however many of them     *)
(* switch, delete, close and call: if any is under way, one of those can   *)
(* go on without another.                                                  *)
THEOREM NobodyWaitsInACircle == Spec => []SomebodyGoesOn
<1>1. ASSUME RuntimeInvariant, WaitInvariant PROVE SomebodyGoesOn
  <2>t. /\ None \notin Tasks /\ lock \in Tasks \cup {None} /\ turn \in Tasks \cup {None}
        /\ pc \in [Tasks -> Labels] /\ queue \in Seq(Tasks)
    BY <1>1 DEF RuntimeInvariant, TypeOK, InstanceTypeOK, TaskTypeOK
  <2>1. turn # None => pc[turn] # "idle" /\ ~Waits(turn)
    BY <1>1 DEF WaitInvariant, TurnBusy, Waits, Wants, Asking
  <2>2. ASSUME NEW u \in Tasks, pc[u] = "call"
        PROVE  pc[u] # "idle" /\ ~Waits(u)
    BY <2>2 DEF Waits, Wants
  <2>3. ASSUME NEW u \in Tasks, pc[u] = "drain"
        PROVE  \E v \in Tasks : pc[v] # "idle" /\ ~Waits(v)
    <3>1. CASE AllIdle(u)
      BY <2>3, <3>1 DEF Waits, Wants
    <3>2. CASE ~AllIdle(u)
      BY <2>2, <3>2 DEF AllIdle, Quiet
    <3> QED BY <3>1, <3>2
  <2>4. ASSUME NEW u \in Tasks, pc[u] = "close"
        PROVE  \E v \in Tasks : pc[v] # "idle" /\ ~Waits(v)
    <3>1. CASE Quiet(hnd[u])
      BY <2>4, <3>1 DEF Waits, Wants
    <3>2. CASE ~Quiet(hnd[u])
      BY <2>2, <3>2 DEF Quiet
    <3> QED BY <3>1, <3>2
  <2>5. ASSUME NEW u \in Tasks, Wants(u)
        PROVE  \E v \in Tasks : pc[v] # "idle" /\ ~Waits(v)
    <3>1. CASE lock # None
      <4>1. lock \in Tasks /\ ~Wants(lock)
        BY <2>t, <3>1 DEF Wants
      <4>2. pc[lock] \in Locked \cup Asking
        BY <1>1, <3>1 DEF WaitInvariant, HolderInside
      <4>3. CASE pc[lock] = "drain"
        BY <4>1, <4>3, <2>3
      <4>4. CASE pc[lock] # "drain"
        BY <4>1, <4>2, <4>4 DEF Waits, Locked, Asking
      <4> QED BY <4>3, <4>4
    <3>2. CASE lock = None /\ turn = u
      BY <2>1, <2>t, <3>2
    <3>3. CASE lock = None /\ turn # u
      <4>1. PICK i \in 1 .. Len(queue) : queue[i] = u
        BY <1>1, <2>5, <3>3 DEF WaitInvariant, QueueOnce
      <4>2. queue # <<>> /\ 1 \in 1 .. Len(queue) /\ queue[1] = Head(queue) /\ queue[1] \in Tasks
        BY <2>t, <4>1
      <4>3. Wants(queue[1])
        BY <1>1, <4>2 DEF WaitInvariant, QueueOnce
      <4>4. pc[queue[1]] # "idle" /\ ~Waits(queue[1])
        BY <3>3, <4>2, <4>3 DEF Waits, Wants, HandedOver
      <4> QED BY <4>2, <4>4
    <3> QED BY <3>1, <3>2, <3>3
  <2>6. ASSUME NEW u \in Tasks, pc[u] # "idle"
        PROVE  \E v \in Tasks : pc[v] # "idle" /\ ~Waits(v)
    BY <2>6, <2>3, <2>4, <2>5 DEF Waits
  <2> QED BY <2>1, <2>6 DEF SomebodyGoesOn
<1> QED BY <1>1, WaitsAlways, RuntimeInvariantHolds, PTL

(* instance_destroy never meets an initialization or a finalization that   *)
(* another coroutine has left half done: its RuntimeError is not reached.  *)
THEOREM DestroyFindsNothingHalfDone == Spec => []NothingHalfDone
<1>1. WaitInvariant => NothingHalfDone
  BY DEF WaitInvariant, HolderInside, NothingHalfDone
<1> QED BY <1>1, WaitsAlways, PTL
=============================================================================
