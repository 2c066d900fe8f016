----------------------------- MODULE Dashboard -----------------------------
(***************************************************************************)
(* The dashboard's server: the requests of several pages, each in a thread *)
(* of its own, the run they share, the process it starts and the thread    *)
(* that follows its output (web/server.py).                                *)
(***************************************************************************)
EXTENDS Naturals, FiniteSets

CONSTANTS
  Pages,   \* the requests that may be under way at once
  MaxRuns  \* bound: runs begun

ASSUME DashboardAssumption == MaxRuns \in Nat

VARIABLES
  cur,       \* the page's run; 0 is the blank one
  begun,     \* how many runs there have been
  child,     \* the run of the globals `process` and `follower`; 0 before any
  running,   \* runs marked as running
  process,   \* each run's process, with all that it started
  follower,  \* the thread that reads each run's output
  told,      \* runs that have been sent SIGINT
  saved,     \* runs saved to outputs/web_runs
  pc,        \* where each request is
  op,        \* what it is for
  found      \* the run that it found running and waits for; 0 for none

shared    == <<cur, begun, child, running, process, follower, told, saved>>
request   == <<pc, op, found>>
dashboard == <<shared, request>>

Runs == 1..MaxRuns
Ops  == {"run", "recover", "home", "stop", "reset"}  \* "home" is the hand's buttons too

Following == {"reading", "saving"}  \* the thread is alive

Alive == {r \in Runs : process[r] = "alive"}

----------------------------------------------------------------------------
\* Requests.

Starting == {p \in Pages : pc[p] # "idle" /\ op[p] \in {"run", "recover"}}

Click(p) ==
  /\ pc[p] = "idle"
  /\ \E o \in Ops :
       /\ o \in {"run", "recover"} => begun + Cardinality(Starting) < MaxRuns
       /\ op' = [op EXCEPT ![p] = o]
       /\ pc' = [pc EXCEPT ![p] = IF o \in {"recover", "home", "reset"} THEN "looking" ELSE "granted"]
  /\ UNCHANGED <<found, shared>>

\* The request is answered, with an error or not.
Respond(p) ==
  /\ pc' = [pc EXCEPT ![p] = "idle"]
  /\ op' = [op EXCEPT ![p] = "none"]
  /\ found' = [found EXCEPT ![p] = 0]

\* Variant: the run is saved without the lock.
SavesUnlocked == TRUE

\* The lock is held for two steps by a follower that has marked its run over
\* and now saves it, for one by all others.
LockFree == \A r \in Runs : follower[r] # "saving"

GoOn(p, place) == pc' = [pc EXCEPT ![p] = place] /\ UNCHANGED op

Interrupt == told' = told \cup {child}

\* take_over, and Reset's own copy of it, with the lock: SIGINT for a running
\* run.  One whose process was never started has no pid to send it to.
Look(p) ==
  /\ pc[p] = "looking"
  /\ LockFree
  /\ IF cur \notin running THEN GoOn(p, "granted") /\ UNCHANGED <<found, told>>
     ELSE IF child = 0 THEN Respond(p) /\ UNCHANGED told
     ELSE Interrupt /\ GoOn(p, "waiting") /\ found' = [found EXCEPT ![p] = cur]
  /\ UNCHANGED <<cur, begun, child, running, process, follower, saved>>

\* Variant: the answer does not depend on the run being gone.
WaitedLong(p) ==
  /\ pc[p] = "waiting"
  /\ GoOn(p, "granted")
  /\ UNCHANGED <<found, shared>>

\* Variant: a join without a timeout.
WaitForEver(p) ==
  /\ pc[p] = "waiting"
  /\ follower[child] \notin Following
  /\ GoOn(p, "granted")
  /\ UNCHANGED <<found, shared>>

\* Without the lock: wait for the follower, up to STOP_TIMEOUT, and look at the
\* follower there is by then.
Waited(p) ==
  /\ pc[p] = "waiting"
  /\ IF follower[child] \in Following THEN Respond(p) ELSE GoOn(p, "granted") /\ UNCHANGED found
  /\ UNCHANGED shared

\* begin, with the lock: one run at a time.
Busy(p) == cur \in running /\ Respond(p) /\ UNCHANGED shared

Mark(r) == cur' = r /\ begun' = r /\ running' = running \cup {r}

\* Variant: whether a run is going is not looked at.
BeginAnyway(p) ==
  /\ pc[p] = "granted"
  /\ op[p] \in {"run", "recover"}
  /\ Respond(p)
  /\ Mark(begun + 1)
  /\ child' = begun + 1
  /\ process' = [process EXCEPT ![begun + 1] = "alive"]
  /\ follower' = [follower EXCEPT ![begun + 1] = "reading"]
  /\ UNCHANGED <<told, saved>>

\* Popen raises when no process can be started; the run is marked by then.
Begin(p) ==
  /\ pc[p] = "granted"
  /\ op[p] \in {"run", "recover"}
  /\ LockFree
  /\ \/ Busy(p)
     \/ /\ cur \notin running
        /\ Mark(begun + 1)
        /\ \/ /\ Respond(p)
              /\ child' = begun + 1
              /\ process' = [process EXCEPT ![begun + 1] = "alive"]
              /\ follower' = [follower EXCEPT ![begun + 1] = "reading"]
           \/ Respond(p) /\ UNCHANGED <<child, process, follower>>
        /\ UNCHANGED <<told, saved>>

\* Send the arm or the hand a goal; nothing is sent to a controller that is not
\* ready.
SendGoal(p) ==
  /\ pc[p] = "granted"
  /\ op[p] = "home"
  /\ Respond(p)
  /\ UNCHANGED shared

\* killpg raises for a process that is gone and that the follower has reaped.
Stop(p) ==
  /\ pc[p] = "granted"
  /\ op[p] = "stop"
  /\ LockFree
  /\ Respond(p)
  /\ \/ cur \notin running /\ UNCHANGED told
     \/ cur \in running /\ child # 0 /\ Interrupt
     \/ cur \in running /\ cur \notin Alive /\ UNCHANGED told
  /\ UNCHANGED <<cur, begun, child, running, process, follower, saved>>

ClearBlindly(p) ==
  /\ pc[p] = "granted"
  /\ op[p] = "reset"
  /\ Respond(p)
  /\ cur' = 0
  /\ UNCHANGED <<begun, child, running, process, follower, told, saved>>

\* Reset's second look, with the lock: another page may have started a run.
Clear(p) ==
  /\ pc[p] = "granted"
  /\ op[p] = "reset"
  /\ LockFree
  /\ \/ Busy(p)
     \/ /\ cur \notin running
        /\ Respond(p)
        /\ cur' = 0
        /\ UNCHANGED <<begun, child, running, process, follower, told, saved>>

Serve(p) == Look(p) \/ Waited(p) \/ Begin(p) \/ SendGoal(p) \/ Stop(p) \/ Clear(p)

----------------------------------------------------------------------------
\* The run's process and its follower.

\* By itself or on SIGINT; a mission that hangs never does.
Exit(r) ==
  /\ process[r] = "alive"
  /\ process' = [process EXCEPT ![r] = "gone"]
  /\ UNCHANGED <<cur, begun, child, running, follower, told, saved, request>>

\* follow's end: the output is at its end, which whatever the run started holds
\* open as well.  The lock is taken, and the run marked over.
Follow(r) ==
  /\ follower[r] = "reading"
  /\ process[r] = "gone"
  /\ LockFree
  /\ follower' = [follower EXCEPT ![r] = "saving"]
  /\ running' = running \ {r}
  /\ UNCHANGED <<cur, begun, child, process, told, saved, request>>

\* The file is written, or the write raises; the lock is released.
Save(r) ==
  /\ follower[r] = "saving"
  /\ \/ /\ follower' = [follower EXCEPT ![r] = "done"]
        /\ saved' = saved \cup {r}
     \/ /\ follower' = [follower EXCEPT ![r] = "failed"]
        /\ UNCHANGED saved
  /\ UNCHANGED <<cur, begun, child, running, process, told, request>>

\* An event line into which another writer of the pipe has written is not JSON:
\* the thread dies of it, and nobody marks the run over.
FollowerDies(r) ==
  /\ follower[r] = "reading"
  /\ follower' = [follower EXCEPT ![r] = "dead"]
  /\ UNCHANGED <<cur, begun, child, running, process, told, saved, request>>

DashboardInit ==
  /\ cur = 0
  /\ begun = 0
  /\ child = 0
  /\ running = {}
  /\ process = [r \in Runs |-> "none"]
  /\ follower = [r \in Runs |-> "none"]
  /\ told = {}
  /\ saved = {}
  /\ pc = [p \in Pages |-> "idle"]
  /\ op = [p \in Pages |-> "none"]
  /\ found = [p \in Pages |-> 0]

DashboardNext ==
  \/ \E p \in Pages : Click(p) \/ Serve(p)
  \/ \E r \in Runs : Exit(r) \/ Follow(r) \/ Save(r) \/ FollowerDies(r)

\* The threads run; a mission may ignore SIGINT for ever.
Fairness ==
  /\ \A p \in Pages : WF_dashboard(Serve(p))
  /\ \A r \in Runs : WF_dashboard(Follow(r) \/ Save(r))

DashboardSpec == DashboardInit /\ [][DashboardNext]_dashboard /\ Fairness

----------------------------------------------------------------------------
\* Properties.

DashboardTypeOK ==
  /\ cur \in 0..MaxRuns
  /\ begun \in 0..MaxRuns
  /\ child \in 0..begun
  /\ running \subseteq 1..begun
  /\ process \in [Runs -> {"none", "alive", "gone"}]
  /\ follower \in [Runs -> {"none", "done", "dead", "failed"} \cup Following]
  /\ told \subseteq 1..begun
  /\ saved \subseteq 1..begun
  /\ pc \in [Pages -> {"idle", "looking", "waiting", "granted"}]
  /\ op \in [Pages -> Ops \cup {"none"}]
  /\ found \in [Pages -> 0..MaxRuns]

\* A run whose process lives is the one the page shows, is marked as running,
\* and is the one that Stop, Reset and take_over would signal: there is one at
\* most, and no page loses hold of it, whatever the others click.
StopReaches == \A r \in Alive : r = cur /\ r \in running /\ r = child

\* "None, or the JSON error to return when it will not stop": a click that is
\* carried out finds the run it took over gone - if the follower lived to see it.
Gone(p) == pc[p] = "granted" /\ found[p] # 0 => found[p] \notin Alive

TakenOver == \A p \in Pages : found[p] = 0 \/ follower[found[p]] # "dead" => Gone(p)

\* The same with nothing said of the follower.
TakenOverAlways == \A p \in Pages : Gone(p)

Saved(r) == r \in saved \cup {0}

\* "Saved runs are kept, a stopped one included: it is saved before the clear",
\* and before the next run: from the moment a run is marked over nobody replaces
\* it until its file is written, unless that write has failed.
SavedBeforeReplaced == [][cur' # cur => Saved(cur) \/ follower[cur] = "failed"]_dashboard

\* The same with nothing said of the write.
SavedAlways == [][cur' # cur => Saved(cur)]_dashboard

\* Every click is answered, even while a mission ignores SIGINT.
Answered == \A p \in Pages : pc[p] # "idle" ~> pc[p] = "idle"

\* A run that is marked as running has a process: "Clear the page's current run,
\* stopping the mission first if one is going" (reset).
MarkedIsGoing == \A r \in running : process[r] # "none"

\* take_over: "so the two never command the arm together": no run is going when
\* the request that took over gets to its own command.
CommandsAlone ==
  [][\A p \in Pages : SendGoal(p) => Alive = {}]_dashboard
=============================================================================
