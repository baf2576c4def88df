----------------------- MODULE SnapshotSessionProofs -----------------------
(***************************************************************************)
(* Proofs about SnapshotSession: what a session owns and routes to, and    *)
(* that the live monitors follow the sessions, for any number of handlers, *)
(* snapshots and cluster builds.                                           *)
(***************************************************************************)
EXTENDS SnapshotSession, TLAPS, FiniteSetTheorems

\* The stages that hold liveMu, and those that have decided to switch.
Switching == {"switch", "purged", "resumedNB"}
Locking   == {"locked"} \cup Switching

(* What a handler's local variables say in each stage: a Load in flight    *)
(* keeps its id reserved in Manager.loading, no two reserve the same, and  *)
(* until it commits nobody else can have loaded that id.                   *)
JobInv ==
    /\ \A h \in Handlers : (pc[h] = "idle") <=> (job[h].op = "none")
    /\ \A h \in Handlers : pc[h] \in {"building", "built", "loaded"} => job[h].op = "load"
    /\ \A h \in Handlers : pc[h] = "unloaded" => job[h].op = "unload"
    /\ \A h \in Handlers : job[h].op = "load" => job[h].id \in loading
    /\ \A h \in Handlers : job[h].op = "unload" => job[h].b \in Backings
    /\ \A g, h \in Handlers :
          job[g].op = "load" /\ job[h].op = "load" /\ job[g].id = job[h].id => g = h
    /\ \A h \in Handlers : pc[h] \in {"building", "built"} => loaded[job[h].id] = None

\* A backing that an Unload has taken over: the drain or Close will end it.
Retired(b) ==
    \/ b \in pending
    \/ timer[b] # "off"
    \/ \E h \in Handlers : job[h].op = "unload" /\ job[h].b = b

(* A backing has one owner at a time: the Load that built it, the session  *)
(* it was committed to, or the drain.  What is not closed by its owner is  *)
(* open, and the count of closes tells the two apart.                      *)
OwnerInv ==
    /\ routed = loaded
    /\ \A s \in Snapshots : loaded[s] # None => backing[loaded[s]] = "open"
    /\ \A s, t \in Snapshots : loaded[s] # None /\ loaded[s] = loaded[t] => s = t
    /\ \A h \in Handlers : pc[h] = "built" =>
          job[h].b \in Backings /\ backing[job[h].b] = "open" /\ \A s \in Snapshots : loaded[s] # job[h].b
    /\ \A g, h \in Handlers : pc[g] = "built" /\ pc[h] = "built" /\ job[g].b = job[h].b => g = h
    /\ \A b \in Backings : Retired(b) =>
          /\ backing[b] # "unbuilt"
          /\ \A s \in Snapshots : loaded[s] # b
          /\ \A h \in Handlers : pc[h] = "built" => job[h].b # b
    /\ \A b \in Backings : timer[b] = "fired" => backing[b] = "closed"
    /\ \A b \in Backings : closes[b] = IF backing[b] = "closed" THEN 1 ELSE 0
    /\ NoLeak

(* The mutexes are held by whoever is past taking them, and what happens   *)
(* in between keeps the caches consistent with the suspended flag.         *)
LockInv ==
    /\ \A h \in Handlers : pc[h] \in Locking <=> liveMu = h
    /\ \A h \in Handlers : pc[h] \in {"purged", "resumedNB"} <=> dbMu = h
    /\ \A h \in Handlers : pc[h] = "purged" => job[h].want
    /\ \A h \in Handlers : pc[h] = "resumedNB" => ~ job[h].want /\ suspended /\ cache["nb"] = "full"
    /\ UnsuspendedIsWhole

(* Someone is still going to compare, someone is switching to what the     *)
(* sessions ask for now, or nobody is switching and the monitors are as    *)
(* the sessions ask.                                                       *)
Settling ==
    \/ \E h \in Handlers : pc[h] \in {"loaded", "unloaded", "locked"}
    \/ \E h \in Handlers : pc[h] \in Switching /\ job[h].want = (Loaded # {})
    \/ (\A h \in Handlers : pc[h] \notin Switching) /\ suspended = (Loaded # {})

FollowInv ==
    faults = 0 => liveSuspended = suspended /\ (~ closed => Settling)

SessionInv == TypeOK /\ JobInv /\ OwnerInv /\ WithinCap /\ LockInv /\ FollowInv

---------------------------------------------------------------------------
(* Types *)

LEMMA NoJobType == NoJob \in Job
BY DEF NoJob, Job

LEMMA InitType == Init => TypeOK
<1> SUFFICES ASSUME Init PROVE TypeOK
  OBVIOUS
<1>1. cache \in Contents
  BY DEF Init, Contents
<1>2. pc \in [Handlers -> Stages] /\ job \in [Handlers -> Job]
  BY NoJobType DEF Init, Stages
<1> QED BY <1>1, <1>2 DEF Init, TypeOK

\* A handler that moves on keeps the types of pc and job.
LEMMA GotoType ==
    ASSUME TypeOK, NEW h \in Handlers, NEW stage \in Stages, NEW j \in Job, Goto(h, stage, j)
    PROVE  pc' \in [Handlers -> Stages] /\ job' \in [Handlers -> Job]
BY DEF TypeOK, Goto

LEMMA CloseType ==
    ASSUME TypeOK, NEW B, CloseBackings(B)
    PROVE  /\ backing' \in [Backings -> {"unbuilt", "open", "closed"}]
           /\ closes' \in [Backings -> Nat]
BY DEF TypeOK, CloseBackings

\* The types of what Finish touches.
Finished ==
    /\ pc' \in [Handlers -> Stages] /\ job' \in [Handlers -> Job]
    /\ loading' \subseteq Snapshots
    /\ timer' \in [Backings -> {"off", "armed", "fired"}]
    /\ liveMu' \in Handlers \cup {NoHandler}
    /\ UNCHANGED <<loaded, routed, pending, backing, closed, closes>>

LEMMA FinishType ==
    ASSUME TypeOK, JobInv, NEW h \in Handlers, pc[h] # "idle", Finish(h)
    PROVE  Finished
<1> USE DEF Finished
<1>1. job[h] \in Job /\ job[h].op \in {"load", "unload"}
  BY DEF TypeOK, JobInv, Job
<1>2. pc' \in [Handlers -> Stages] /\ job' \in [Handlers -> Job]
  BY NoJobType, GotoType DEF Finish, Stages
<1>3. CASE job[h].op = "load"
  BY <1>2, <1>3 DEF TypeOK, Finish
<1>4. CASE job[h].op = "unload"
  BY <1>2, <1>4 DEF TypeOK, Finish, JobInv
<1> QED BY <1>1, <1>3, <1>4

LEMMA TypeStep == TypeOK /\ JobInv /\ [Next]_vars => TypeOK'
<1> SUFFICES ASSUME TypeOK, JobInv, [Next]_vars PROVE TypeOK'
  OBVIOUS
<1>1. ASSUME NEW h \in Handlers, NEW s \in Snapshots, Load(h, s) PROVE TypeOK'
  <2>1. [NoJob EXCEPT !.op = "load", !.id = s] \in Job
    BY DEF NoJob, Job
  <2> QED BY <1>1, <2>1, GotoType DEF Load, TypeOK, Stages, live
<1>2. ASSUME NEW h \in Handlers, NEW s \in Snapshots, Unload(h, s) PROVE TypeOK'
  <2>1. loaded[s] \in Backings
    BY <1>2 DEF Unload, TypeOK
  <2>2. [NoJob EXCEPT !.op = "unload", !.id = s, !.b = loaded[s]] \in Job
    BY <2>1 DEF NoJob, Job
  <2>3. pc' \in [Handlers -> Stages] /\ job' \in [Handlers -> Job]
    BY <1>2, <2>2, GotoType DEF Unload, Stages
  <2> QED BY <1>2, <2>1, <2>3 DEF Unload, TypeOK, live
<1>3. ASSUME NEW h \in Handlers, BuildFails(h) PROVE TypeOK'
  BY <1>3, GotoType, NoJobType DEF BuildFails, TypeOK, Stages, live
<1>4. ASSUME NEW h \in Handlers, NEW b \in Backings, Build(h, b) PROVE TypeOK'
  <2>1. [job[h] EXCEPT !.b = b] \in Job
    BY DEF TypeOK, Job
  <2>2. pc' \in [Handlers -> Stages] /\ job' \in [Handlers -> Job]
    BY <1>4, <2>1, GotoType DEF Build, Stages
  <2> QED BY <1>4, <2>2 DEF Build, TypeOK, live, manager
<1>5. ASSUME NEW h \in Handlers, LoadCommit(h) PROVE TypeOK'
  <2>1. job[h] \in Job /\ job[h].op = "load" /\ job[h].id \in Snapshots
    BY <1>5 DEF LoadCommit, TypeOK, JobInv, Job
  <2>2. CASE loaded[job[h].id] # None
    <3>1. Goto(h, "idle", NoJob) /\ CloseBackings({job[h].b})
      BY <1>5, <2>2 DEF LoadCommit
    <3> QED BY <1>5, <2>2, <3>1, CloseType, GotoType, NoJobType DEF LoadCommit, TypeOK, Stages, live
  <2>3. CASE loaded[job[h].id] = None
    <3>1. pc' \in [Handlers -> Stages] /\ job' \in [Handlers -> Job]
      BY <1>5, <2>1, <2>3, GotoType DEF LoadCommit, Stages
    <3>2. job[h].b \in Backings \cup {None}
      BY <2>1 DEF Job
    <3> QED BY <1>5, <2>3, <3>1, <3>2 DEF LoadCommit, TypeOK, live
  <2> QED BY <2>2, <2>3
<1>6. ASSUME NEW h \in Handlers, ReconcileRead(h) PROVE TypeOK'
  <2>1. CASE Finish(h) /\ UNCHANGED <<live, dbMu>>
    <3>1. Finished
      BY <1>6, <2>1, FinishType DEF ReconcileRead
    <3> QED BY <2>1, <3>1 DEF Finished, TypeOK, live
  <2>2. CASE /\ Goto(h, "switch", [job[h] EXCEPT !.want = (Loaded # {})])
             /\ UNCHANGED <<manager, backing, liveMu, dbMu, live, closed, closes>>
    <3>1. [job[h] EXCEPT !.want = (Loaded # {})] \in Job
      BY ZenonT(30) DEF TypeOK, Job
    <3>2. pc' \in [Handlers -> Stages] /\ job' \in [Handlers -> Job]
      BY <2>2, <3>1, GotoType DEF Stages
    <3> QED BY <2>2, <3>2 DEF TypeOK, live, manager
  <2> QED BY <1>6, <2>1, <2>2 DEF ReconcileRead
<1>7. ASSUME NEW h \in Handlers, SwitchNoop(h) PROVE TypeOK'
  <2>1. job[h].want \in BOOLEAN
    BY DEF TypeOK, Job
  <2>2. Finished
    BY <1>7, FinishType DEF SwitchNoop
  <2> QED BY <1>7, <2>1, <2>2 DEF SwitchNoop, Finished, TypeOK
<1>8. ASSUME NEW h \in Handlers, SuspendPurge(h) PROVE TypeOK'
  <2>1. cache' \in Contents
    BY <1>8 DEF SuspendPurge, Contents
  <2>2. pc' \in [Handlers -> Stages]
    BY <1>8 DEF SuspendPurge, TypeOK, Stages
  <2> QED BY <1>8, <2>1, <2>2 DEF SuspendPurge, TypeOK, manager
<1>9. ASSUME NEW h \in Handlers, SuspendEnd(h) PROVE TypeOK'
  <2>1. Finished
    BY <1>9, FinishType DEF SuspendEnd
  <2>2. liveSuspended' \in BOOLEAN /\ suspended' \in BOOLEAN
    BY <1>9 DEF SuspendEnd, TypeOK
  <2>3. faults' \in Nat
    BY <1>9 DEF SuspendEnd, TypeOK
  <2> QED BY <1>9, <2>1, <2>2, <2>3 DEF SuspendEnd, Finished, TypeOK
<1>10. ASSUME NEW h \in Handlers, ResumeNB(h) PROVE TypeOK'
  <2>1. CASE Finish(h) /\ faults' = faults + 1 /\ UNCHANGED <<liveSuspended, suspended, cache, dbMu>>
    <3>1. Finished
      BY <1>10, <2>1, FinishType DEF ResumeNB
    <3> QED BY <2>1, <3>1 DEF Finished, TypeOK
  <2>2. CASE ~ Finish(h) \/ ~ (faults' = faults + 1) \/ ~ UNCHANGED <<liveSuspended, suspended, cache, dbMu>>
    BY <1>10, <2>2 DEF ResumeNB, TypeOK, Stages, Contents, manager
  <2> QED BY <2>1, <2>2
<1>11. ASSUME NEW h \in Handlers, ResumeSB(h) PROVE TypeOK'
  <2>1. cache' \in Contents
    BY <1>11 DEF ResumeSB, TypeOK, Contents
  <2>2. Finished
    BY <1>11, FinishType DEF ResumeSB
  <2>3. liveSuspended' \in BOOLEAN /\ suspended' \in BOOLEAN
    BY <1>11 DEF ResumeSB, TypeOK
  <2>4. faults' \in Nat /\ dbMu' = NoHandler
    BY <1>11 DEF ResumeSB, TypeOK
  <2> QED BY <2>1, <2>2, <2>3, <2>4 DEF Finished, TypeOK
<1>12. ASSUME NEW h \in Handlers, ReconcileLock(h) PROVE TypeOK'
  BY <1>12 DEF ReconcileLock, TypeOK, Stages, manager, live
<1>13. ASSUME NEW b \in Backings, DrainFires(b) PROVE TypeOK'
  BY <1>13, CloseType DEF DrainFires, TypeOK, live
<1>14. ASSUME NEW b \in Backings, DrainForgets(b) PROVE TypeOK'
  BY <1>14 DEF DrainForgets, TypeOK, live
<1>15. CASE Close
  BY <1>15, CloseType DEF Close, TypeOK, live
<1>16. CASE UNCHANGED vars
  BY <1>16 DEF vars, manager, live, TypeOK
<1> QED
  BY <1>1, <1>2, <1>3, <1>4, <1>5, <1>6, <1>7, <1>8, <1>9, <1>10, <1>11, <1>12, <1>13, <1>14, <1>15, <1>16
     DEF Next, HandlerStep, Drain

---------------------------------------------------------------------------
(* The handlers' local variables *)

\* Whoever finishes gives up its own reservation and nobody else's.
LEMMA FinishJob ==
    ASSUME TypeOK, JobInv, NEW h \in Handlers, pc[h] # "idle", Finish(h)
    PROVE  JobInv'
<1>1. /\ job[h].op \in {"load", "unload"}
      /\ pc' = [pc EXCEPT ![h] = "idle"] /\ job' = [job EXCEPT ![h] = NoJob]
      /\ loaded' = loaded /\ NoJob.op = "none"
  BY DEF Finish, Goto, NoJob, JobInv, TypeOK, Job
<1>2. loading' = loading \/ (loading' = loading \ {job[h].id} /\ job[h].op = "load")
  <2>1. CASE job[h].op = "load"
    BY <2>1 DEF Finish
  <2>2. CASE job[h].op = "unload"
    BY <2>2 DEF Finish
  <2> QED BY <1>1, <2>1, <2>2
<1> QED BY <1>1, <1>2 DEF JobInv, TypeOK

\* Steps within a request that keep the reservations and the sessions.
LEMMA StageJob ==
    ASSUME TypeOK, JobInv, NEW h \in Handlers, NEW stage \in Stages, NEW j \in Job,
           pc' = [pc EXCEPT ![h] = stage], job' = [job EXCEPT ![h] = j],
           pc[h] # "idle", stage # "idle",
           j.op = job[h].op, j.id = job[h].id, j.op = "unload" => j.b = job[h].b,
           stage \in {"building", "built"} => pc[h] \in {"building", "built"},
           stage = "loaded" => j.op = "load", stage # "unloaded",
           UNCHANGED <<loading, loaded>>
    PROVE  JobInv'
BY DEF JobInv, TypeOK

LEMMA JobStep == TypeOK /\ JobInv /\ [Next]_vars => JobInv'
<1> SUFFICES ASSUME TypeOK, JobInv, [Next]_vars PROVE JobInv'
  OBVIOUS
<1>1. ASSUME NEW h \in Handlers, NEW s \in Snapshots, Load(h, s) PROVE JobInv'
  BY <1>1 DEF Load, Goto, NoJob, JobInv, TypeOK
<1>2. ASSUME NEW h \in Handlers, NEW s \in Snapshots, Unload(h, s) PROVE JobInv'
  BY <1>2 DEF Unload, Goto, NoJob, JobInv, TypeOK
<1>3. ASSUME NEW h \in Handlers, BuildFails(h) PROVE JobInv'
  BY <1>3 DEF BuildFails, Goto, NoJob, JobInv, TypeOK
<1>4. ASSUME NEW h \in Handlers, NEW b \in Backings, Build(h, b) PROVE JobInv'
  BY <1>4 DEF Build, Goto, manager, JobInv, TypeOK, Job
<1>5. ASSUME NEW h \in Handlers, LoadCommit(h) PROVE JobInv'
  <2>1. /\ loaded[job[h].id] = None /\ pc[h] = "built" /\ job[h].op = "load"
        /\ job[h].id \in Snapshots
    BY <1>5 DEF LoadCommit, JobInv, TypeOK, Job
  <2> QED BY <1>5, <2>1 DEF LoadCommit, Goto, JobInv, TypeOK, Job
<1>6. ASSUME NEW h \in Handlers, ReconcileRead(h) PROVE JobInv'
  <2>1. CASE Finish(h)
    BY <1>6, <2>1, FinishJob DEF ReconcileRead
  <2>2. CASE /\ Goto(h, "switch", [job[h] EXCEPT !.want = (Loaded # {})])
             /\ UNCHANGED manager
    <3> DEFINE j == [job[h] EXCEPT !.want = (Loaded # {})]
    <3>1. j \in Job /\ j.op = job[h].op /\ j.id = job[h].id /\ j.b = job[h].b
      BY ZenonT(30) DEF TypeOK, Job
    <3>2. pc[h] = "locked"
      BY <1>6 DEF ReconcileRead
    <3> HIDE DEF j
    <3> QED BY <2>2, <3>1, <3>2, StageJob DEF Goto, manager, Stages, j
  <2> QED BY <1>6, <2>1, <2>2 DEF ReconcileRead
<1>7. ASSUME NEW h \in Handlers, SwitchNoop(h) PROVE JobInv'
  BY <1>7, FinishJob DEF SwitchNoop
<1>8. ASSUME NEW h \in Handlers, SuspendPurge(h) PROVE JobInv'
  BY <1>8 DEF SuspendPurge, manager, JobInv, TypeOK
<1>9. ASSUME NEW h \in Handlers, SuspendEnd(h) PROVE JobInv'
  BY <1>9, FinishJob DEF SuspendEnd
<1>10. ASSUME NEW h \in Handlers, ResumeNB(h) PROVE JobInv'
  <2>1. CASE Finish(h)
    BY <1>10, <2>1, FinishJob DEF ResumeNB
  <2>2. CASE pc' = [pc EXCEPT ![h] = "resumedNB"] /\ UNCHANGED <<manager, job>>
    BY <1>10, <2>2 DEF ResumeNB, manager, JobInv, TypeOK
  <2> QED BY <1>10, <2>1, <2>2 DEF ResumeNB
<1>11. ASSUME NEW h \in Handlers, ResumeSB(h) PROVE JobInv'
  BY <1>11, FinishJob DEF ResumeSB
<1>12. ASSUME NEW h \in Handlers, ReconcileLock(h) PROVE JobInv'
  BY <1>12 DEF ReconcileLock, manager, JobInv, TypeOK
<1>13. ASSUME NEW b \in Backings, Drain(b) PROVE JobInv'
  BY <1>13 DEF Drain, DrainFires, DrainForgets, JobInv
<1>14. CASE Close
  BY <1>14 DEF Close, JobInv, TypeOK, Job
<1>15. CASE UNCHANGED vars
  BY <1>15 DEF vars, manager, JobInv
<1> QED
  BY <1>1, <1>2, <1>3, <1>4, <1>5, <1>6, <1>7, <1>8, <1>9, <1>10, <1>11, <1>12, <1>13, <1>14, <1>15
     DEF Next, HandlerStep

---------------------------------------------------------------------------
(* Who owns a backing *)

(* A finished Unload hands its backing over to the timer, so it stays      *)
(* retired; a finished Load has no backing left to hand over.              *)
LEMMA FinishOwner ==
    ASSUME TypeOK, JobInv, OwnerInv, NEW h \in Handlers, pc[h] \notin {"idle", "built"}, Finish(h)
    PROVE  OwnerInv'
<1>1. /\ pc' = [pc EXCEPT ![h] = "idle"] /\ job' = [job EXCEPT ![h] = NoJob]
      /\ UNCHANGED <<loaded, routed, pending, backing, closes>> /\ NoJob.op = "none"
  BY DEF Finish, Goto, NoJob
<1>2. CASE job[h].op = "load"
  <2>1. timer' = timer
    BY <1>2 DEF Finish
  <2> QED BY <1>1, <1>2, <2>1 DEF OwnerInv, Retired, NoLeak, Owned, TypeOK
<1>3. CASE job[h].op = "unload"
  <2>1. timer' = [timer EXCEPT ![job[h].b] = "armed"] /\ Retired(job[h].b)
    BY <1>3 DEF Finish, Retired
  <2>2. \A b \in Backings : Retired(b)' => Retired(b)
    BY <1>1, <2>1 DEF Retired, TypeOK
  <2> QED BY <1>1, <1>3, <2>1, <2>2 DEF OwnerInv, NoLeak, Owned, TypeOK
<1> QED BY <1>2, <1>3 DEF JobInv, TypeOK, Job

\* Steps that touch no backing and move a handler between other stages.
LEMMA StageOwner ==
    ASSUME TypeOK, OwnerInv, NEW h \in Handlers, NEW stage \in Stages, NEW j \in Job,
           pc' = [pc EXCEPT ![h] = stage], job' = [job EXCEPT ![h] = j],
           pc[h] # "built", stage # "built",
           j.op = "unload" => job[h].op = "unload" /\ j.b = job[h].b,
           UNCHANGED <<loaded, routed, pending, timer, backing, closes>>
    PROVE  OwnerInv'
<1>1. \A b \in Backings : Retired(b)' => Retired(b)
  BY DEF Retired, TypeOK
<1> QED BY <1>1 DEF OwnerInv, NoLeak, Owned, TypeOK

LEMMA UnloadOwner ==
    ASSUME TypeOK, JobInv, OwnerInv, NEW h \in Handlers, NEW s \in Snapshots, Unload(h, s)
    PROVE  OwnerInv'
<1>0. loaded[s] \in Backings
  BY DEF Unload, TypeOK
<1>b. PICK b \in Backings : b = loaded[s]
  BY <1>0
<1>1. b \in Backings /\ b = loaded[s] /\ backing[b] = "open" /\ pc[h] = "idle"
  BY <1>b, SessionConstants DEF Unload, OwnerInv
<1>2. /\ loaded' = [loaded EXCEPT ![s] = None] /\ routed' = [routed EXCEPT ![s] = None]
      /\ pending' = pending \cup {b}
      /\ pc' = [pc EXCEPT ![h] = "unloaded"]
      /\ job' = [job EXCEPT ![h] = [NoJob EXCEPT !.op = "unload", !.id = s, !.b = b]]
      /\ UNCHANGED <<timer, backing, closes>>
  BY <1>b DEF Unload, Goto
<1>3. \A c \in Backings : Retired(c)' => Retired(c) \/ c = b
  BY <1>2 DEF Retired, TypeOK, NoJob
<1>4. \A t \in Snapshots : loaded'[t] # b /\ (loaded'[t] = loaded[t] \/ loaded'[t] = None)
  BY <1>1, <1>2, SessionConstants DEF OwnerInv, TypeOK
<1>5. \A g \in Handlers : pc'[g] = "built" => pc[g] = "built" /\ job'[g] = job[g] /\ job[g].b # b
  BY <1>1, <1>2 DEF OwnerInv, TypeOK
<1>6. \A c \in Backings : Retired(c)' =>
          /\ backing'[c] # "unbuilt"
          /\ \A t \in Snapshots : loaded'[t] # c
          /\ \A g \in Handlers : pc'[g] = "built" => job'[g].b # c
  BY <1>1, <1>2, <1>3, <1>4, <1>5, SessionConstants DEF OwnerInv
<1>7. NoLeak'
  BY <1>1, <1>2 DEF OwnerInv, NoLeak, Owned, TypeOK
<1>8. /\ routed' = loaded'
      /\ \A t \in Snapshots : loaded'[t] # None => backing'[loaded'[t]] = "open"
      /\ \A t, u \in Snapshots : loaded'[t] # None /\ loaded'[t] = loaded'[u] => t = u
  BY <1>2, <1>4 DEF OwnerInv
<1>9. /\ \A g \in Handlers : pc'[g] = "built" =>
          job'[g].b \in Backings /\ backing'[job'[g].b] = "open" /\ \A t \in Snapshots : loaded'[t] # job'[g].b
      /\ \A g, k \in Handlers : pc'[g] = "built" /\ pc'[k] = "built" /\ job'[g].b = job'[k].b => g = k
  <2>1. \A g \in Handlers : pc[g] = "built" => job[g].b # None
    BY SessionConstants DEF OwnerInv
  <2>2. backing' = backing
    BY <1>2
  <2>3. ASSUME NEW g \in Handlers, pc'[g] = "built"
        PROVE  pc[g] = "built" /\ job'[g].b = job[g].b
    BY <2>3, <1>5
  <2>4. ASSUME NEW g \in Handlers, pc'[g] = "built"
        PROVE  /\ job'[g].b \in Backings /\ backing'[job'[g].b] = "open"
               /\ \A t \in Snapshots : loaded'[t] # job'[g].b
    BY <2>1, <2>2, <2>3, <2>4, <1>4 DEF OwnerInv
  <2> QED BY <2>3, <2>4 DEF OwnerInv
<1>10. /\ \A c \in Backings : timer'[c] = "fired" => backing'[c] = "closed"
       /\ \A c \in Backings : closes'[c] = IF backing'[c] = "closed" THEN 1 ELSE 0
  BY <1>2 DEF OwnerInv
<1> QED BY <1>6, <1>7, <1>8, <1>9, <1>10 DEF OwnerInv

LEMMA BuildOwner ==
    ASSUME TypeOK, JobInv, OwnerInv, NEW h \in Handlers, NEW b \in Backings, Build(h, b)
    PROVE  OwnerInv'
<1>1. /\ backing' = [backing EXCEPT ![b] = "open"] /\ backing[b] = "unbuilt" /\ pc[h] = "building"
      /\ pc' = [pc EXCEPT ![h] = "built"] /\ job' = [job EXCEPT ![h].b = b]
      /\ UNCHANGED <<loaded, routed, pending, timer, closes>> /\ job[h].op = "load"
      /\ job[h] \in Job
  BY DEF Build, Goto, manager, JobInv, TypeOK
<1>2. \A c \in Backings : Retired(c)' => Retired(c)
  BY <1>1 DEF Retired, TypeOK, Job
<1>3. \A t \in Snapshots : loaded[t] # b
  BY <1>1, SessionConstants DEF OwnerInv
<1>4. ~ Retired(b)
  BY <1>1 DEF OwnerInv
<1>5. \A g \in Handlers : pc'[g] = "built" =>
          (g = h /\ job'[g].b = b) \/ (g # h /\ pc[g] = "built" /\ job'[g] = job[g] /\ job[g].b # b)
  BY <1>1 DEF OwnerInv, TypeOK, Job
<1>6. NoLeak'
  BY <1>1 DEF OwnerInv, NoLeak, Owned, TypeOK, Job
<1> QED BY <1>1, <1>2, <1>3, <1>4, <1>5, <1>6 DEF OwnerInv, TypeOK

LEMMA CommitOwner ==
    ASSUME TypeOK, JobInv, OwnerInv, NEW h \in Handlers, LoadCommit(h)
    PROVE  OwnerInv'
<1>s. PICK s \in Snapshots : s = job[h].id
  BY DEF LoadCommit, JobInv, TypeOK, Job
<1>b. PICK b \in Backings : b = job[h].b
  BY DEF LoadCommit, OwnerInv
<1>1. /\ s = job[h].id /\ b = job[h].b
      /\ s \in Snapshots /\ b \in Backings /\ loaded[s] = None /\ pc[h] = "built"
      /\ job[h].op = "load"
  BY <1>s, <1>b DEF LoadCommit, JobInv, OwnerInv
<1>2. /\ loaded' = [loaded EXCEPT ![s] = b] /\ routed' = [routed EXCEPT ![s] = b]
      /\ pc' = [pc EXCEPT ![h] = "loaded"] /\ job' = [job EXCEPT ![h] = job[h]]
      /\ UNCHANGED <<pending, timer, backing, closes>>
  BY <1>1 DEF LoadCommit, Goto
<1>3. job' = job
  BY <1>2 DEF TypeOK
<1>4. \A c \in Backings : Retired(c)' => Retired(c) /\ c # b
  BY <1>1, <1>2, <1>3 DEF Retired, OwnerInv
<1>5. \A g \in Handlers : pc'[g] = "built" => pc[g] = "built" /\ job'[g].b # b
  BY <1>1, <1>2, <1>3 DEF OwnerInv, TypeOK
<1>6. \A t \in Snapshots : (t = s /\ loaded'[t] = b) \/ (t # s /\ loaded'[t] = loaded[t] /\ loaded[t] # b)
  BY <1>1, <1>2 DEF OwnerInv, TypeOK
<1>7. NoLeak'
  <2>1. Owned(b)'
    <3>1. s \in Snapshots /\ loaded'[s] = b
      BY <1>1, <1>6
    <3> QED BY <3>1 DEF Owned
  <2>2. ASSUME NEW c \in Backings, c # b, Owned(c) PROVE Owned(c)'
    <3>1. CASE \E t \in Snapshots : loaded[t] = c
      <4>1. PICK t \in Snapshots : loaded[t] = c
        BY <3>1
      <4> QED BY <1>1, <1>6, <4>1, SessionConstants DEF Owned
    <3>2. CASE c \in pending
      BY <1>2, <3>2 DEF Owned
    <3>3. CASE \E g \in Handlers : pc[g] = "built" /\ job[g].b = c
      BY <1>1, <1>2, <1>3, <2>2, <3>3 DEF Owned, TypeOK
    <3> QED BY <2>2, <3>1, <3>2, <3>3 DEF Owned
  <2> QED BY <1>2, <2>1, <2>2 DEF OwnerInv, NoLeak
<1>8. \A t \in Snapshots : loaded'[t] # None => backing'[loaded'[t]] = "open"
  BY <1>1, <1>2, <1>6 DEF OwnerInv
<1> QED BY <1>1, <1>2, <1>3, <1>4, <1>5, <1>6, <1>7, <1>8 DEF OwnerInv, TypeOK

\* Close reaches what is loaded and what waits to be drained, each of it open.
LEMMA CloseOwner ==
    ASSUME TypeOK, OwnerInv, Close
    PROVE  OwnerInv'
<1>1. PICK B : /\ B = {loaded[s] : s \in Loaded} \cup {b \in pending : backing[b] = "open"}
               /\ CloseBackings(B)
  BY DEF Close
<1>2. /\ \A b \in Backings : backing'[b] = IF b \in B THEN "closed" ELSE backing[b]
      /\ \A b \in Backings : closes'[b] = closes[b] + IF b \in B THEN 1 ELSE 0
  BY <1>1 DEF CloseBackings
<1>3. /\ \A s \in Snapshots : loaded'[s] = None
      /\ routed' = loaded' /\ pending' = {} /\ UNCHANGED <<timer, pc, job>>
  BY DEF Close
<1>4. \A b \in B : b \in Backings /\ backing[b] = "open"
  BY <1>1 DEF OwnerInv, Loaded, TypeOK
<1>5. \A b \in Backings : Retired(b)' => Retired(b)
  BY <1>3 DEF Retired
<1>6. \A h \in Handlers : pc[h] = "built" => job[h].b \notin B
  BY <1>1 DEF OwnerInv, Retired, Loaded, TypeOK
<1>7. \A h \in Handlers : pc'[h] = "built" =>
          /\ pc[h] = "built" /\ job'[h] = job[h] /\ job[h].b \in Backings
          /\ backing'[job[h].b] = "open"
  BY <1>2, <1>3, <1>6 DEF OwnerInv
<1>8. NoLeak'
  <2>1. ASSUME NEW b \in Backings, backing'[b] = "open" PROVE Owned(b)'
    <3>1. b \notin B /\ backing[b] = "open"
      BY <1>2, <2>1
    <3>2. Owned(b)
      BY <3>1 DEF OwnerInv, NoLeak
    <3>3. b \notin pending
      BY <1>1, <3>1
    <3>4. \A s \in Snapshots : loaded[s] # b
      BY <1>1, <3>1, SessionConstants DEF Loaded
    <3> QED BY <1>3, <3>2, <3>3, <3>4 DEF Owned
  <2> QED BY <2>1 DEF NoLeak
<1>9. \A b \in Backings : closes'[b] = IF backing'[b] = "closed" THEN 1 ELSE 0
  BY <1>2, <1>4 DEF OwnerInv, TypeOK
<1>10. \A b \in Backings : timer'[b] = "fired" => backing'[b] = "closed"
  BY <1>2, <1>3 DEF OwnerInv
<1>11. \A b \in Backings : Retired(b)' =>
          /\ backing'[b] # "unbuilt"
          /\ \A s \in Snapshots : loaded'[s] # b
          /\ \A h \in Handlers : pc'[h] = "built" => job'[h].b # b
  BY <1>2, <1>3, <1>5, SessionConstants DEF OwnerInv
<1> QED BY <1>3, <1>7, <1>8, <1>9, <1>10, <1>11, SessionConstants DEF OwnerInv

\* The timer closes its backing unless Close was first.
LEMMA DrainFiresOwner ==
    ASSUME TypeOK, OwnerInv, NEW b \in Backings, DrainFires(b)
    PROVE  OwnerInv'
<1>1. /\ timer[b] = "armed" /\ timer' = [timer EXCEPT ![b] = "fired"]
      /\ UNCHANGED <<loaded, routed, pending, pc, job>> /\ Retired(b)
  BY DEF DrainFires, Retired
<1>2. \A c \in Backings : Retired(c)' => Retired(c)
  BY <1>1 DEF Retired, TypeOK
<1>3. /\ \A c \in Backings : c # b => backing'[c] = backing[c] /\ closes'[c] = closes[c]
      /\ backing'[b] = "closed" /\ closes'[b] = 1
  <2>1. CASE backing[b] = "open"
    BY <2>1 DEF DrainFires, CloseBackings, OwnerInv
  <2>2. CASE backing[b] = "closed"
    BY <2>2 DEF DrainFires, OwnerInv
  <2> QED BY <1>1, <2>1, <2>2 DEF OwnerInv, TypeOK
<1>4. NoLeak'
  BY <1>1, <1>3 DEF OwnerInv, NoLeak, Owned
<1>5. \A c \in Backings : timer'[c] = "fired" => backing'[c] = "closed"
  BY <1>1, <1>3 DEF OwnerInv, TypeOK
<1>6. \A c \in Backings : closes'[c] = IF backing'[c] = "closed" THEN 1 ELSE 0
  BY <1>3 DEF OwnerInv
<1>7. \A s \in Snapshots : loaded[s] # b
  BY <1>1 DEF OwnerInv
<1>8. \A h \in Handlers : pc[h] = "built" => job[h].b # b
  BY <1>1 DEF OwnerInv
<1>9. \A s \in Snapshots : loaded[s] # None => backing'[loaded[s]] = "open"
  BY <1>3, <1>7 DEF OwnerInv, TypeOK
<1>10. \A h \in Handlers : pc[h] = "built" => backing'[job[h].b] = "open"
  BY <1>3, <1>8 DEF OwnerInv
<1>11. \A c \in Backings : Retired(c)' => backing'[c] # "unbuilt"
  BY <1>2, <1>3 DEF OwnerInv
<1> QED BY <1>1, <1>2, <1>4, <1>5, <1>6, <1>9, <1>10, <1>11 DEF OwnerInv

LEMMA DrainForgetsOwner ==
    ASSUME TypeOK, OwnerInv, NEW b \in Backings, DrainForgets(b)
    PROVE  OwnerInv'
<1>1. /\ timer[b] = "fired" /\ timer' = [timer EXCEPT ![b] = "off"] /\ pending' = pending \ {b}
      /\ UNCHANGED <<loaded, routed, backing, pc, job, closes>> /\ backing[b] = "closed"
  BY DEF DrainForgets, OwnerInv
<1>2. \A c \in Backings : Retired(c)' => Retired(c)
  BY <1>1 DEF Retired, TypeOK
<1>3. NoLeak'
  BY <1>1 DEF OwnerInv, NoLeak, Owned
<1> QED BY <1>1, <1>2, <1>3 DEF OwnerInv, TypeOK

LEMMA OwnerStep == TypeOK /\ JobInv /\ OwnerInv /\ [Next]_vars => OwnerInv'
<1> SUFFICES ASSUME TypeOK, JobInv, OwnerInv, [Next]_vars PROVE OwnerInv'
  OBVIOUS
<1> USE DEF Stages
<1>1. ASSUME NEW h \in Handlers, NEW s \in Snapshots, Load(h, s) PROVE OwnerInv'
  <2> DEFINE j == [NoJob EXCEPT !.op = "load", !.id = s]
  <2>1. j \in Job /\ j.op = "load"
    BY DEF NoJob, Job
  <2>2. /\ pc' = [pc EXCEPT ![h] = "building"] /\ job' = [job EXCEPT ![h] = j] /\ pc[h] = "idle"
        /\ UNCHANGED <<loaded, routed, pending, timer, backing, closes>>
    BY <1>1 DEF Load, Goto
  <2> HIDE DEF j
  <2> QED BY <2>1, <2>2, StageOwner
<1>2. ASSUME NEW h \in Handlers, NEW s \in Snapshots, Unload(h, s) PROVE OwnerInv'
  BY <1>2, UnloadOwner
<1>3. ASSUME NEW h \in Handlers, BuildFails(h) PROVE OwnerInv'
  <2>1. NoJob \in Job /\ NoJob.op = "none"
    BY DEF NoJob, Job
  <2>2. /\ pc' = [pc EXCEPT ![h] = "idle"] /\ job' = [job EXCEPT ![h] = NoJob] /\ pc[h] = "building"
        /\ UNCHANGED <<loaded, routed, pending, timer, backing, closes>>
    BY <1>3 DEF BuildFails, Goto
  <2> QED BY <2>1, <2>2, StageOwner
<1>4. ASSUME NEW h \in Handlers, NEW b \in Backings, Build(h, b) PROVE OwnerInv'
  BY <1>4, BuildOwner
<1>5. ASSUME NEW h \in Handlers, LoadCommit(h) PROVE OwnerInv'
  BY <1>5, CommitOwner
<1>6. ASSUME NEW h \in Handlers, ReconcileRead(h) PROVE OwnerInv'
  <2>1. CASE Finish(h)
    BY <1>6, <2>1, FinishOwner DEF ReconcileRead
  <2>2. CASE /\ Goto(h, "switch", [job[h] EXCEPT !.want = (Loaded # {})])
             /\ UNCHANGED <<manager, backing, closes>>
    <3> DEFINE j == [job[h] EXCEPT !.want = (Loaded # {})]
    <3>1. j \in Job /\ j.op = job[h].op /\ j.b = job[h].b /\ pc[h] = "locked"
      BY <1>6, ZenonT(30) DEF TypeOK, Job, ReconcileRead
    <3> HIDE DEF j
    <3> QED BY <2>2, <3>1, StageOwner DEF Goto, manager, j
  <2> QED BY <1>6, <2>1, <2>2 DEF ReconcileRead
<1>7. ASSUME NEW h \in Handlers, SwitchNoop(h) \/ SuspendEnd(h) \/ ResumeSB(h) PROVE OwnerInv'
  <2>1. Finish(h) /\ pc[h] \notin {"idle", "built"}
    BY <1>7 DEF SwitchNoop, SuspendEnd, ResumeSB
  <2> QED BY <2>1, FinishOwner
<1>8. ASSUME NEW h \in Handlers, NEW stage \in {"purged", "resumedNB", "locked"},
             pc[h] # "built", pc' = [pc EXCEPT ![h] = stage], UNCHANGED <<manager, backing, job, closes>>
      PROVE  OwnerInv'
  <2>1. job[h] \in Job /\ job' = [job EXCEPT ![h] = job[h]]
    BY <1>8 DEF TypeOK
  <2> QED BY <1>8, <2>1, StageOwner DEF manager
<1>9. ASSUME NEW h \in Handlers, ResumeNB(h) PROVE OwnerInv'
  <2>1. CASE Finish(h)
    BY <1>9, <2>1, FinishOwner DEF ResumeNB
  <2> QED BY <1>8, <1>9, <2>1 DEF ResumeNB
<1>10. ASSUME NEW h \in Handlers, SuspendPurge(h) \/ ReconcileLock(h) PROVE OwnerInv'
  BY <1>8, <1>10 DEF SuspendPurge, ReconcileLock
<1>11. ASSUME NEW b \in Backings, Drain(b) PROVE OwnerInv'
  BY <1>11, DrainFiresOwner, DrainForgetsOwner DEF Drain
<1>12. CASE Close
  BY <1>12, CloseOwner
<1>13. CASE UNCHANGED vars
  BY <1>13 DEF vars, manager, OwnerInv, Retired, NoLeak, Owned
<1> QED
  BY <1>1, <1>2, <1>3, <1>4, <1>5, <1>6, <1>7, <1>9, <1>10, <1>11, <1>12, <1>13 DEF Next, HandlerStep

---------------------------------------------------------------------------
(* The cap *)

Sessions == Loaded \cup loading

\* Only Load adds a session; a commit turns a loading one into a loaded one.
LEMMA SessionsShrink ==
    ASSUME TypeOK, JobInv, [Next]_vars,
           ~ \E h \in Handlers, s \in Snapshots : Load(h, s)
    PROVE  Sessions' \subseteq Sessions
<1> USE DEF Sessions, Loaded
<1>1. ASSUME NEW h \in Handlers, pc[h] # "idle", Finish(h) PROVE Sessions' \subseteq Sessions
  <2>1. loaded' = loaded
    BY <1>1 DEF Finish
  <2>2. CASE job[h].op = "load"
    BY <1>1, <2>1, <2>2 DEF Finish
  <2>3. CASE job[h].op = "unload"
    BY <1>1, <2>1, <2>3 DEF Finish
  <2> QED BY <1>1, <2>2, <2>3 DEF JobInv, TypeOK, Job
<1>2. ASSUME NEW h \in Handlers, LoadCommit(h) PROVE Sessions' \subseteq Sessions
  <2>1. loaded[job[h].id] = None /\ job[h].id \in loading
    BY <1>2 DEF LoadCommit, JobInv
  <2>2. loaded' = [loaded EXCEPT ![job[h].id] = job[h].b] /\ loading' = loading
    BY <1>2, <2>1 DEF LoadCommit
  <2> QED BY <2>1, <2>2 DEF TypeOK
<1>3. ASSUME NEW h \in Handlers, NEW s \in Snapshots, Unload(h, s) PROVE Sessions' \subseteq Sessions
  BY <1>3 DEF Unload, TypeOK
<1>4. ASSUME NEW h \in Handlers, HandlerStep(h), ~ LoadCommit(h) PROVE Sessions' \subseteq Sessions
  <2>1. CASE Finish(h) /\ pc[h] # "idle"
    BY <1>1, <2>1
  <2>2. CASE ~ (Finish(h) /\ pc[h] # "idle")
    BY <1>4, <2>2 DEF HandlerStep, BuildFails, Build, ReconcileRead, SwitchNoop, SuspendPurge,
                      SuspendEnd, ResumeNB, ResumeSB, manager
  <2> QED BY <2>1, <2>2
<1>5. ASSUME NEW h \in Handlers, ReconcileLock(h) PROVE Sessions' \subseteq Sessions
  BY <1>5 DEF ReconcileLock, manager
<1>6. ASSUME NEW b \in Backings, Drain(b) PROVE Sessions' \subseteq Sessions
  BY <1>6 DEF Drain, DrainFires, DrainForgets
<1>7. CASE Close
  BY <1>7 DEF Close
<1>8. CASE UNCHANGED vars
  BY <1>8 DEF vars, manager
<1> QED BY <1>2, <1>3, <1>4, <1>5, <1>6, <1>7, <1>8 DEF Next

LEMMA CapStep == TypeOK /\ JobInv /\ WithinCap /\ [Next]_vars => WithinCap'
<1> SUFFICES ASSUME TypeOK, JobInv, WithinCap, [Next]_vars PROVE Cardinality(Sessions') <= MaxLoaded
  BY DEF WithinCap, Sessions
<1>1. IsFiniteSet(Loaded) /\ IsFiniteSet(loading) /\ IsFiniteSet(Sessions)
  <2>1. Loaded \subseteq Snapshots /\ loading \subseteq Snapshots
    BY DEF Loaded, TypeOK
  <2> QED BY <2>1, FS_Subset, FS_Union, SessionConstants DEF Sessions
<1>2. Cardinality(Sessions) \in Nat /\ Cardinality(Loaded) \in Nat /\ Cardinality(loading) \in Nat
  BY <1>1, FS_CardinalityType
<1>3. ASSUME NEW h \in Handlers, NEW s \in Snapshots, Load(h, s)
      PROVE  Cardinality(Sessions') <= MaxLoaded
  <2>1. Sessions' = Sessions \cup {s}
    BY <1>3 DEF Load, Sessions, Loaded
  <2>2. Cardinality(Sessions') <= Cardinality(Sessions) + 1
    <3>1. Cardinality(Sessions \cup {s}) = IF s \in Sessions THEN Cardinality(Sessions) ELSE Cardinality(Sessions) + 1
      BY <1>1, FS_AddElement
    <3>2. Cardinality(Sessions \cup {s}) <= Cardinality(Sessions) + 1
      BY <1>2, <3>1
    <3> QED BY <2>1, <3>2
  <2>3. Cardinality(Sessions) <= Cardinality(Loaded) + Cardinality(loading)
    <3>1. Cardinality(Loaded \cap loading) \in Nat
      BY <1>1, FS_Intersection, FS_CardinalityType
    <3>2. Cardinality(Loaded \cup loading)
            = Cardinality(Loaded) + Cardinality(loading) - Cardinality(Loaded \cap loading)
      BY <1>1, FS_Union
    <3> QED BY <1>2, <3>1, <3>2 DEF Sessions
  <2>4. Cardinality(Loaded) + Cardinality(loading) < MaxLoaded
    BY <1>3 DEF Load, Admits
  <2>5. Cardinality(Sessions') \in Nat
    BY <1>1, <2>1, FS_AddElement, FS_CardinalityType
  <2> QED BY <1>2, <2>2, <2>3, <2>4, <2>5, SessionConstants
<1>4. CASE ~ \E h \in Handlers, s \in Snapshots : Load(h, s)
  <2>1. Sessions' \subseteq Sessions
    BY <1>4, SessionsShrink
  <2>2. Cardinality(Sessions') \in Nat /\ Cardinality(Sessions') <= Cardinality(Sessions)
    BY <1>1, <2>1, FS_Subset, FS_CardinalityType
  <2> QED BY <1>2, <2>2, SessionConstants DEF WithinCap, Sessions
<1> QED BY <1>3, <1>4

---------------------------------------------------------------------------
(* The two mutexes and the live monitors *)

LEMMA LockStep == TypeOK /\ JobInv /\ LockInv /\ [Next]_vars => LockInv'
<1> SUFFICES ASSUME TypeOK, JobInv, LockInv, [Next]_vars PROVE LockInv'
  OBVIOUS
<1> USE SessionConstants DEF Locking, Switching
<1>1. ASSUME NEW h \in Handlers, Finish(h)
      PROVE  /\ pc' = [pc EXCEPT ![h] = "idle"] /\ job' = [job EXCEPT ![h] = NoJob]
             /\ liveMu' = NoHandler
  BY <1>1 DEF Finish, Goto
<1>2. ASSUME NEW h \in Handlers, NEW stage, NEW j,
             pc[h] \notin Locking, stage \notin Locking,
             pc' = [pc EXCEPT ![h] = stage], job' = [job EXCEPT ![h] = j],
             UNCHANGED <<liveMu, dbMu, suspended, cache>>
      PROVE  LockInv'
  BY <1>2 DEF LockInv, UnsuspendedIsWhole, TypeOK
<1>3. ASSUME NEW h \in Handlers, NEW s \in Snapshots, Load(h, s) \/ Unload(h, s) PROVE LockInv'
  BY <1>2, <1>3 DEF Load, Unload, Goto, live
<1>4. ASSUME NEW h \in Handlers, BuildFails(h) \/ (\E b \in Backings : Build(h, b)) PROVE LockInv'
  BY <1>2, <1>4 DEF BuildFails, Build, Goto, live
<1>5. ASSUME NEW h \in Handlers, LoadCommit(h) PROVE LockInv'
  BY <1>2, <1>5 DEF LoadCommit, Goto, live
<1>6. ASSUME NEW h \in Handlers, ReconcileLock(h) PROVE LockInv'
  BY <1>6 DEF ReconcileLock, live, LockInv, UnsuspendedIsWhole, TypeOK
<1>7. ASSUME NEW h \in Handlers, ReconcileRead(h) PROVE LockInv'
  <2>1. CASE Finish(h) /\ UNCHANGED <<live, dbMu>>
    BY <1>1, <1>7, <2>1 DEF ReconcileRead, live, LockInv, UnsuspendedIsWhole, TypeOK
  <2>2. CASE Goto(h, "switch", [job[h] EXCEPT !.want = (Loaded # {})]) /\ UNCHANGED <<liveMu, dbMu, live>>
    BY <1>7, <2>2 DEF ReconcileRead, Goto, live, LockInv, UnsuspendedIsWhole, TypeOK
  <2> QED BY <1>7, <2>1, <2>2 DEF ReconcileRead
<1>8. ASSUME NEW h \in Handlers, SwitchNoop(h) PROVE LockInv'
  BY <1>1, <1>8 DEF SwitchNoop, LockInv, UnsuspendedIsWhole, TypeOK
<1>9. ASSUME NEW h \in Handlers, SuspendPurge(h) PROVE LockInv'
  BY <1>9 DEF SuspendPurge, LockInv, UnsuspendedIsWhole, TypeOK
<1>10. ASSUME NEW h \in Handlers, SuspendEnd(h) PROVE LockInv'
  BY <1>1, <1>10 DEF SuspendEnd, LockInv, UnsuspendedIsWhole, TypeOK
<1>11. ASSUME NEW h \in Handlers, ResumeNB(h) PROVE LockInv'
  <2>1. CASE Finish(h) /\ UNCHANGED <<suspended, cache, dbMu>>
    BY <1>1, <1>11, <2>1 DEF ResumeNB, LockInv, UnsuspendedIsWhole, TypeOK
  <2>2. CASE /\ dbMu' = h /\ cache' = [cache EXCEPT !["nb"] = "full"]
             /\ pc' = [pc EXCEPT ![h] = "resumedNB"] /\ UNCHANGED <<job, liveMu, suspended>>
    BY <1>11, <2>2 DEF ResumeNB, LockInv, UnsuspendedIsWhole, TypeOK, Contents, DBs
  <2> QED BY <1>11, <2>1, <2>2 DEF ResumeNB
<1>12. ASSUME NEW h \in Handlers, ResumeSB(h) PROVE LockInv'
  BY <1>1, <1>12 DEF ResumeSB, LockInv, UnsuspendedIsWhole, TypeOK, Contents, DBs
<1>13. ASSUME UNCHANGED <<pc, job, liveMu, dbMu, live>> PROVE LockInv'
  BY <1>13 DEF live, LockInv, UnsuspendedIsWhole
<1> QED
  BY <1>3, <1>4, <1>5, <1>6, <1>7, <1>8, <1>9, <1>10, <1>11, <1>12, <1>13
     DEF Next, HandlerStep, Drain, DrainFires, DrainForgets, Close, vars

(* The race of a suspending Load with a resuming Unload: whoever changed   *)
(* the sessions still has to compare, and it compares under liveMu, after  *)
(* the switch of the other has ended.                                      *)
LEMMA FollowStep == TypeOK /\ JobInv /\ LockInv /\ FollowInv /\ [Next]_vars => FollowInv'
<1> SUFFICES ASSUME TypeOK, JobInv, LockInv, FollowInv, [Next]_vars, faults' = 0
             PROVE  liveSuspended' = suspended' /\ (~ closed' => Settling')
  BY DEF FollowInv
<1> USE DEF Locking, Switching
<1>0. faults = 0
  <2>1. ASSUME NEW h \in Handlers, HandlerStep(h) \/ ReconcileLock(h) PROVE faults' \in {faults, faults + 1}
    BY <2>1 DEF HandlerStep, Build, BuildFails, LoadCommit, ReconcileRead, SwitchNoop, SuspendPurge,
                SuspendEnd, ResumeNB, ResumeSB, ReconcileLock, live
  <2>2. faults' \in {faults, faults + 1}
    BY <2>1 DEF Next, Load, Unload, Drain, DrainFires, DrainForgets, Close, live, vars
  <2> QED BY <2>2 DEF TypeOK
<1>a. liveSuspended = suspended /\ (~ closed => Settling)
  BY <1>0 DEF FollowInv
<1>f. ASSUME NEW h \in Handlers, Finish(h)
      PROVE  /\ pc' = [pc EXCEPT ![h] = "idle"] /\ job' = [job EXCEPT ![h] = NoJob]
             /\ UNCHANGED <<loaded, closed>>
  BY <1>f DEF Finish, Goto
\* A handler that holds liveMu is the only one past comparing.
<1>o. ASSUME NEW h \in Handlers, pc[h] \in Locking
      PROVE  \A g \in Handlers : pc[g] \in Locking => g = h
  BY <1>o DEF LockInv
\* The handler that finishes a switch leaves the monitors as it wanted them.
<1>s. ASSUME NEW h \in Handlers, pc[h] \in Switching, suspended' = job[h].want, ~ closed,
             pc' = [pc EXCEPT ![h] = "idle"], job' = [job EXCEPT ![h] = NoJob], loaded' = loaded
      PROVE  Settling'
  <2>1. \A g \in Handlers : g # h => pc'[g] = pc[g] /\ job'[g] = job[g] /\ pc[g] \notin Switching
    BY <1>o, <1>s DEF TypeOK
  <2>2. pc'[h] = "idle"
    BY <1>s DEF TypeOK
  <2>3. Loaded' = Loaded
    BY <1>s DEF Loaded
  <2>4. CASE \E g \in Handlers : pc[g] \in {"loaded", "unloaded", "locked"}
    BY <1>s, <2>1, <2>4 DEF Settling
  <2>5. CASE job[h].want = (Loaded # {})
    BY <1>s, <2>1, <2>2, <2>3, <2>5 DEF Settling
  <2> QED BY <1>a, <1>s, <2>1, <2>4, <2>5 DEF Settling
\* Steps that leave the sessions, the monitors and all switching alone.
<1>q. ASSUME NEW h \in Handlers, UNCHANGED <<loaded, suspended>>, Settling,
             \A g \in Handlers : g # h => pc'[g] = pc[g] /\ job'[g] = job[g],
             pc[h] \notin {"loaded", "unloaded", "locked"} \cup Switching, pc'[h] \notin Switching
      PROVE  Settling'
  BY <1>q DEF Settling, Loaded
<1>1. ASSUME NEW h \in Handlers, NEW s \in Snapshots, Load(h, s)
      PROVE  liveSuspended' = suspended' /\ (~ closed' => Settling')
  BY <1>a, <1>q, <1>1 DEF Load, Goto, live, TypeOK
<1>2. ASSUME NEW h \in Handlers, NEW s \in Snapshots, Unload(h, s)
      PROVE  liveSuspended' = suspended' /\ (~ closed' => Settling')
  BY <1>a, <1>2 DEF Unload, Goto, live, TypeOK, Settling
<1>3. ASSUME NEW h \in Handlers, BuildFails(h) \/ (\E b \in Backings : Build(h, b))
      PROVE  liveSuspended' = suspended' /\ (~ closed' => Settling')
  BY <1>a, <1>q, <1>3 DEF BuildFails, Build, Goto, live, manager, TypeOK
<1>4. ASSUME NEW h \in Handlers, LoadCommit(h)
      PROVE  liveSuspended' = suspended' /\ (~ closed' => Settling')
  <2>1. loaded[job[h].id] = None
    BY <1>4 DEF LoadCommit, JobInv
  <2> QED BY <1>a, <1>4, <2>1 DEF LoadCommit, Goto, live, TypeOK, Settling
<1>5. ASSUME NEW h \in Handlers, ReconcileLock(h)
      PROVE  liveSuspended' = suspended' /\ (~ closed' => Settling')
  BY <1>a, <1>5 DEF ReconcileLock, live, TypeOK, Settling
<1>6. ASSUME NEW h \in Handlers, ReconcileRead(h)
      PROVE  liveSuspended' = suspended' /\ (~ closed' => Settling')
  <2>1. pc[h] = "locked"
    BY <1>6 DEF ReconcileRead
  <2>2. CASE (Loaded # {}) = liveSuspended /\ Finish(h) /\ UNCHANGED live
    <3>1. \A g \in Handlers : pc'[g] \notin Switching
      BY <1>f, <1>o, <2>1, <2>2 DEF TypeOK
    <3>2. suspended' = (Loaded' # {})
      BY <1>a, <1>f, <2>2 DEF live, Loaded
    <3> QED BY <1>a, <2>2, <3>1, <3>2 DEF Settling, live
  <2>3. CASE Goto(h, "switch", [job[h] EXCEPT !.want = (Loaded # {})]) /\ UNCHANGED <<live, loaded>>
    <3>1. pc'[h] = "switch" /\ job'[h].want = (Loaded # {}) /\ Loaded' = Loaded
      BY <2>3 DEF Goto, TypeOK, Job, Loaded
    <3> QED BY <1>a, <2>3, <3>1 DEF Settling, live
  <2> QED BY <1>6, <2>2, <2>3 DEF ReconcileRead, manager
<1>7. ASSUME NEW h \in Handlers, SwitchNoop(h)
      PROVE  liveSuspended' = suspended' /\ (~ closed' => Settling')
  BY <1>a, <1>f, <1>s, <1>7 DEF SwitchNoop
<1>8. ASSUME NEW h \in Handlers, SuspendPurge(h) \/ (ResumeNB(h) /\ ~ Finish(h))
      PROVE  liveSuspended' = suspended' /\ (~ closed' => Settling')
  <2>1. /\ pc[h] = "switch" /\ UNCHANGED <<loaded, job, liveSuspended, suspended, closed>>
        /\ \E stage \in {"purged", "resumedNB"} : pc' = [pc EXCEPT ![h] = stage]
    BY <1>8 DEF SuspendPurge, ResumeNB, manager
  <2>2. \A g \in Handlers : pc'[g] = pc[g] \/ (g = h /\ pc'[g] \in {"purged", "resumedNB"})
    BY <2>1 DEF TypeOK
  <2> QED BY <1>a, <2>1, <2>2 DEF Settling, Loaded
<1>9. ASSUME NEW h \in Handlers, SuspendEnd(h)
      PROVE  liveSuspended' = suspended' /\ (~ closed' => Settling')
  <2>1. liveSuspended' = TRUE /\ suspended' = TRUE /\ job[h].want = TRUE
    BY <1>0, <1>9 DEF SuspendEnd, LockInv, TypeOK, Job
  <2>2. /\ pc[h] = "purged" /\ suspended' = job[h].want /\ loaded' = loaded /\ closed' = closed
        /\ pc' = [pc EXCEPT ![h] = "idle"] /\ job' = [job EXCEPT ![h] = NoJob]
    BY <1>f, <1>9, <2>1 DEF SuspendEnd
  <2>3. ~ closed => Settling'
    BY <1>s, <2>2
  <2> QED BY <2>1, <2>2, <2>3
<1>10. ASSUME NEW h \in Handlers, ResumeNB(h), Finish(h)
       PROVE  liveSuspended' = suspended' /\ (~ closed' => Settling')
  <2>1. pc[h] = "switch" /\ pc'[h] = "idle" /\ pc' = [pc EXCEPT ![h] = "idle"]
    BY <1>f, <1>10 DEF ResumeNB, TypeOK
  <2>2. faults' = faults + 1
    BY <1>10, <2>1 DEF ResumeNB, TypeOK
  <2> QED BY <1>0, <2>2
<1>11. ASSUME NEW h \in Handlers, ResumeSB(h)
       PROVE  liveSuspended' = suspended' /\ (~ closed' => Settling')
  <2>1. liveSuspended' = FALSE /\ suspended' = FALSE /\ job[h].want = FALSE
    BY <1>0, <1>11 DEF ResumeSB, LockInv, TypeOK, Job
  <2>2. /\ pc[h] = "resumedNB" /\ suspended' = job[h].want /\ loaded' = loaded /\ closed' = closed
        /\ pc' = [pc EXCEPT ![h] = "idle"] /\ job' = [job EXCEPT ![h] = NoJob]
    BY <1>f, <1>11, <2>1 DEF ResumeSB
  <2>3. ~ closed => Settling'
    BY <1>s, <2>2
  <2> QED BY <2>1, <2>2, <2>3
<1>12. ASSUME UNCHANGED <<pc, job, loaded, liveSuspended, suspended, closed>>
       PROVE  liveSuspended' = suspended' /\ (~ closed' => Settling')
  BY <1>a, <1>12 DEF Settling, Loaded
<1>13. ASSUME NEW b \in Backings, Drain(b)
       PROVE  liveSuspended' = suspended' /\ (~ closed' => Settling')
  BY <1>12, <1>13 DEF Drain, DrainFires, DrainForgets, live
<1>14. CASE Close
  BY <1>a, <1>14 DEF Close, live
<1>15. CASE UNCHANGED vars
  BY <1>12, <1>15 DEF vars, manager, live
<1> QED
  BY <1>1, <1>2, <1>3, <1>4, <1>5, <1>6, <1>7, <1>8, <1>9, <1>10, <1>11, <1>13, <1>14, <1>15
     DEF Next, HandlerStep

---------------------------------------------------------------------------

LEMMA SessionInit == Init => SessionInv
<1> SUFFICES ASSUME Init PROVE SessionInv
  OBVIOUS
<1>1. TypeOK
  BY InitType
<1>2. JobInv
  BY DEF Init, JobInv, NoJob
<1>3. OwnerInv
  BY DEF Init, OwnerInv, Retired, NoLeak, NoJob
<1>4. WithinCap
  <2>1. Loaded = {} /\ loading = {}
    BY DEF Init, Loaded
  <2> QED BY <2>1, FS_EmptySet, SessionConstants DEF WithinCap
<1>5. LockInv
  BY SessionConstants DEF Init, LockInv, UnsuspendedIsWhole, Locking, Switching
<1>6. FollowInv
  <2>1. Loaded = {}
    BY DEF Init, Loaded
  <2> QED BY <2>1 DEF Init, FollowInv, Settling, Switching
<1> QED BY <1>1, <1>2, <1>3, <1>4, <1>5, <1>6 DEF SessionInv

(* The invariant of the session manager holds in every reachable state:    *)
(* whatever loads, unloads, drains and Close do around each other, a       *)
(* backing has one owner and liveMu one holder (manager.go:164-372).       *)
THEOREM SessionInvariant == Spec => []SessionInv
<1>1. SessionInv /\ [Next]_vars => SessionInv'
  BY TypeStep, JobStep, OwnerStep, CapStep, LockStep, FollowStep DEF SessionInv
<1> QED BY SessionInit, <1>1, PTL DEF Spec

(* A request the proxy accepts finds its cluster alive                     *)
(* (manager.go:240-250, 272-293, 356-372).                                 *)
THEOREM RoutesAreAlive == Spec => []RoutedIsAlive
<1>1. SessionInv => RoutedIsAlive
  BY DEF SessionInv, OwnerInv, RoutedIsAlive
<1> QED BY SessionInvariant, <1>1, PTL

(* In-memory servers never leak, none is closed twice, the cap counts      *)
(* loads in flight, and a commit never finds its slot taken                *)
(* (manager.go:177-184, 216-250, 280-293).                                 *)
THEOREM BackingsAreOwned == Spec => []BackingsHold
<1>1. SessionInv => BackingsHold
  BY DEF SessionInv, OwnerInv, JobInv, BackingsHold, ClosedOnce, CommitUnraced
<1> QED BY SessionInvariant, <1>1, PTL

(* The live monitors are suspended exactly while a session is loaded, once *)
(* the requests have returned and as long as no monitor call failed; and   *)
(* whoever is told "not suspended" has whole caches, failed or not         *)
(* (manager.go:315-352, client.go:413-489).                                *)
THEOREM LiveFollows == Spec => []LiveHolds
<1>1. SessionInv => LiveHolds
  BY DEF SessionInv, LockInv, FollowInv, Settling, Switching, LiveHolds, LiveFollowsSessions
<1> QED BY SessionInvariant, <1>1, PTL

=============================================================================
