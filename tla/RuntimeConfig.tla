---------------------------- MODULE RuntimeConfig ----------------------------
(***************************************************************************)
(* The active configuration as requests see it: ConfigCache, a snapshot    *)
(* that each process keeps for a time, and AuthRuntimeConfigProvider,      *)
(* which keeps the authentication settings and the signing key of the      *)
(* version it was last asked for.  A change drops the caches of the        *)
(* process that makes it, before it commits; the others are told nothing.  *)
(*                                                                         *)
(* A request runs on a thread of a process; threads of one process share   *)
(* its caches.  Time passes in ticks, and every request ends within        *)
(* MaxRequest of them.  A version is its number, the edit of its payload   *)
(* and the reference of its key, which edits here do not change.           *)
(***************************************************************************)
EXTENDS Naturals

CONSTANTS
  Process, Thread, ProcessOf,  \* ProcessOf[t]: where thread t runs
  LastVersion,
  Ref, KeyRef,    \* auth.jwt_signing_key_ref of each version
  TTL,            \* ticks that a snapshot is kept
  MaxRequest,     \* ticks that a request takes at most
  MaxWrites,      \* changes of the configuration that are modelled
  MaxRotations    \* of a secret

VersionNumber == 1..LastVersion

ASSUME RuntimeAssumption ==
  /\ ProcessOf \in [Thread -> Process] /\ KeyRef \in [VersionNumber -> Ref]
  /\ LastVersion \in Nat \ {0} /\ TTL \in Nat \ {0} /\ MaxRequest \in Nat
  /\ MaxWrites \in Nat /\ MaxRotations \in Nat

VARIABLES
  active, edit,    \* system_state's pointer, and how often each payload was edited
  secret,          \* the generation of each secret's value
  left,            \* ticks since a version was last active, 0 while it is
  write, writes,   \* the change under way, and how many there were
  cache,           \* ConfigCache of each process
  runtime,         \* AuthRuntimeConfigProvider of each process
  task             \* the request of each thread

database == <<active, edit, secret, left>>
runtimeVars == <<database, write, writes, cache, runtime, task>>

Snapshot   == [version : 0..LastVersion, edit : 0..MaxWrites]
NoSnapshot == [version |-> 0, edit |-> 0]
NoRuntime  == [version |-> 0, edit |-> 0, key |-> 0]
NoWrite    == [kind |-> "none", version |-> 0]
NoTask     == [pc |-> "idle", snap |-> NoSnapshot, time |-> 0]

Horizon == TTL + 2 * MaxRequest  \* an old version is served for less than that

RuntimeTypeOK ==
  /\ active \in VersionNumber /\ edit \in [VersionNumber -> 0..MaxWrites]
  /\ secret \in [Ref -> 0..MaxRotations] /\ left \in [VersionNumber -> 0..(Horizon + 1)]
  /\ write \in [Process -> [kind : {"none", "publish", "edit"}, version : 0..LastVersion]]
  /\ writes \in 0..MaxWrites
  /\ cache \in [Process -> [snap : Snapshot, left : 0..TTL]]
  /\ runtime \in [Process -> [version : 0..LastVersion, edit : 0..MaxWrites, key : 0..MaxRotations]]
  /\ task \in [Thread -> [pc : {"idle", "pointer", "row", "set", "have", "served"},
                          snap : Snapshot, time : 0..MaxRequest]]

RuntimeInit ==
  /\ active = 1 /\ edit = [v \in VersionNumber |-> 0] /\ secret = [r \in Ref |-> 0]
  /\ left = [v \in VersionNumber |-> IF v = 1 THEN 0 ELSE Horizon + 1]
  /\ write = [p \in Process |-> NoWrite] /\ writes = 0
  /\ cache = [p \in Process |-> [snap |-> NoSnapshot, left |-> 0]]
  /\ runtime = [p \in Process |-> NoRuntime]
  /\ task = [t \in Thread |-> NoTask]

-----------------------------------------------------------------------------
(* Changes of the configuration.  Two of them meet on the row of the       *)
(* active version, which each locks before it drops the caches.            *)

Dropped == [snap |-> NoSnapshot, left |-> 0]
Unwritten(p) == /\ \A q \in Process : write[q] = NoWrite
                /\ writes < MaxWrites /\ writes' = writes + 1

\* The version is made active; what the process cached is dropped.
Publish(p, v) ==
  /\ Unwritten(p) /\ v # active
  /\ write' = [write EXCEPT ![p] = [kind |-> "publish", version |-> v]]
  /\ cache' = [cache EXCEPT ![p] = Dropped]
  /\ runtime' = [runtime EXCEPT ![p] = NoRuntime]
  /\ UNCHANGED <<database, task>>

\* The payload of the active version is replaced: the authentication runtime is kept.
Edit(p) ==
  /\ Unwritten(p)
  /\ write' = [write EXCEPT ![p] = [kind |-> "edit", version |-> active]]
  /\ cache' = [cache EXCEPT ![p] = Dropped]
  /\ UNCHANGED <<database, runtime, task>>

Commit(p) ==
  /\ write[p] # NoWrite /\ write' = [write EXCEPT ![p] = NoWrite]
  /\ IF write[p].kind = "edit"
     THEN edit' = [edit EXCEPT ![active] = @ + 1] /\ UNCHANGED <<active, left>>
     ELSE /\ active' = write[p].version /\ left' = [left EXCEPT ![write[p].version] = 0]
          /\ UNCHANGED edit
  /\ UNCHANGED <<secret, writes, cache, runtime, task>>

Rollback(p) == /\ write[p] # NoWrite /\ write' = [write EXCEPT ![p] = NoWrite]
               /\ UNCHANGED <<database, writes, cache, runtime, task>>

\* put_secret, by the command line: no process is told.
PutSecret(r) == /\ secret[r] < MaxRotations /\ secret' = [secret EXCEPT ![r] = @ + 1]
                /\ UNCHANGED <<active, edit, left, write, writes, cache, runtime, task>>

-----------------------------------------------------------------------------
(* A request.                                                              *)

Goes(t, pc, snap) == task' = [task EXCEPT ![t] = [pc |-> pc, snap |-> snap, time |-> @.time]]

\* ConfigCache.get: a snapshot whose time is over is dropped.
\* Faulty variant: a snapshot that is used is kept for another while.
Get_Renews(t) ==
  LET p == ProcessOf[t]
  IN /\ task[t].pc = "idle"
     /\ IF cache[p].left > 0
        THEN Goes(t, "have", cache[p].snap) /\ cache' = [cache EXCEPT ![p].left = TTL]
        ELSE Goes(t, "pointer", NoSnapshot) /\ cache' = [cache EXCEPT ![p] = Dropped]
     /\ UNCHANGED <<database, write, writes, runtime>>

Get(t) ==
  LET p == ProcessOf[t]
  IN /\ task[t].pc = "idle"
     /\ IF cache[p].left > 0
        THEN Goes(t, "have", cache[p].snap) /\ UNCHANGED cache
        ELSE Goes(t, "pointer", NoSnapshot) /\ cache' = [cache EXCEPT ![p] = Dropped]
     /\ UNCHANGED <<database, write, writes, runtime>>

ReadPointer(t) ==
  /\ task[t].pc = "pointer"
  /\ Goes(t, "row", [version |-> active, edit |-> 0])
  /\ UNCHANGED <<database, write, writes, cache, runtime>>

\* The row is read by a statement of its own, and must still be active: otherwise 503.
ReadRow(t) ==
  LET v == task[t].snap.version
  IN /\ task[t].pc = "row"
     /\ IF v = active THEN Goes(t, "set", [version |-> v, edit |-> edit[v]])
        ELSE task' = [task EXCEPT ![t] = NoTask]
     /\ UNCHANGED <<database, write, writes, cache, runtime>>

SetCache(t) ==
  /\ task[t].pc = "set"
  /\ cache' = [cache EXCEPT ![ProcessOf[t]] = [snap |-> task[t].snap, left |-> TTL]]
  /\ Goes(t, "have", task[t].snap)
  /\ UNCHANGED <<database, write, writes, runtime>>

\* AuthRuntimeConfigProvider.get keeps what it has for this version and key reference.
\* Faulty variant: it is kept for the key reference alone.
Kept_ByRef(p, snap) == runtime[p] # NoRuntime /\ KeyRef[runtime[p].version] = KeyRef[snap.version]
Kept(p, snap) == /\ runtime[p] # NoRuntime /\ runtime[p].version = snap.version
                 /\ KeyRef[runtime[p].version] = KeyRef[snap.version]

AuthRuntime(t) ==
  LET p == ProcessOf[t]  snap == task[t].snap
  IN /\ task[t].pc = "have"
     /\ runtime' = IF Kept(p, snap) THEN runtime
                   ELSE [runtime EXCEPT ![p] = [version |-> snap.version, edit |-> snap.edit,
                                                key |-> secret[KeyRef[snap.version]]]]
     /\ Goes(t, "served", [version |-> runtime'[p].version, edit |-> runtime'[p].edit])
     /\ UNCHANGED <<database, write, writes, cache>>

Answer(t) == /\ task[t].pc = "served" /\ task' = [task EXCEPT ![t] = NoTask]
             /\ UNCHANGED <<database, write, writes, cache, runtime>>

-----------------------------------------------------------------------------
\* A process is started again: its caches are empty, and what it was doing is undone.
Restart(p) ==
  /\ writes < MaxWrites /\ writes' = writes + 1
  /\ write' = [write EXCEPT ![p] = NoWrite]
  /\ cache' = [cache EXCEPT ![p] = Dropped]
  /\ runtime' = [runtime EXCEPT ![p] = NoRuntime]
  /\ task' = [t \in Thread |-> IF ProcessOf[t] = p THEN NoTask ELSE task[t]]
  /\ UNCHANGED database

Later(n, bound) == IF n < bound THEN n + 1 ELSE bound

Tick ==
  /\ \A t \in Thread : task[t].pc # "idle" => task[t].time < MaxRequest
  /\ task' = [t \in Thread |-> IF task[t].pc = "idle" THEN NoTask
                               ELSE [task[t] EXCEPT !.time = @ + 1]]
  /\ cache' = [p \in Process |->
                 IF cache[p].left = 0 THEN cache[p] ELSE [cache[p] EXCEPT !.left = @ - 1]]
  /\ left' = [v \in VersionNumber |-> IF v = active THEN 0 ELSE Later(left[v], Horizon + 1)]
  /\ UNCHANGED <<active, edit, secret, write, writes, runtime>>

Advance(t) == Get(t) \/ ReadPointer(t) \/ ReadRow(t) \/ SetCache(t) \/ AuthRuntime(t) \/ Answer(t)

RuntimeNext ==
  \/ \E p \in Process : \/ \E v \in VersionNumber : Publish(p, v)
                        \/ Edit(p) \/ Commit(p) \/ Rollback(p) \/ Restart(p)
  \/ \E r \in Ref : PutSecret(r)
  \/ \E t \in Thread : Advance(t)
  \/ Tick

\* Requests keep coming and are worked on, a change that began ends, and time passes.
Fairness ==
  /\ \A t \in Thread : WF_runtimeVars(Advance(t))
  /\ \A p \in Process : WF_runtimeVars(Commit(p) \/ Rollback(p))
  /\ WF_runtimeVars(Tick)

RuntimeSpec == RuntimeInit /\ [][RuntimeNext]_runtimeVars
FairRuntimeSpec == RuntimeSpec /\ Fairness

-----------------------------------------------------------------------------
\* A request never works with a version that was replaced longer ago than the cache keeps a
\* snapshot and two requests take: the one that loaded it and the one that found it, whichever
\* process published and however loads, drops and restarts overlap.
StaleBounded ==
  \A t \in Thread : task[t].pc \in {"have", "served"} => left[task[t].snap.version] < Horizon

\* When the configuration is left alone, every process comes to authenticate with the version
\* that is active, whichever processes published, edited, restarted or loaded an older one in the
\* end.  Neither a payload edited nor a secret replaced under that version has to be noticed.
AuthFollows == <>[](\A t \in Thread : runtime[ProcessOf[t]].version = active)
==============================================================================
