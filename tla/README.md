# TLA+ models of the fetch missions

The repository makes an HSR robot fetch an object: a mission tree searches for it along a
scene graph, drives to it, parks, hands the base from Nav2 to MoveIt and picks it up. A web
dashboard starts, stops and resets missions; a recovery script frees the arm after a pick
that failed; models in containers segment images and propose grasps. This directory holds
TLA+ modules of the parts in which order, failure and interruption decide whether the robot
does the right thing, the TLC configurations that check them, and proofs (TLAPS) of what
matters most. Paths below are relative to `src/`.

Run from this directory: `tlc -config MCMission.cfg MCMission.tla` and so on (section 3),
`tlapm MissionProofs.tla` and so on (section 5). Every line of code that a definition stands
for is in `PROJECT.json` under "map", and every hazard below with its line under "hazards".

## 1. Inventory

| Component | Where | State it keeps | Operations | Modelled |
| --- | --- | --- | --- | --- |
| Mission tree and steps | `core/pipeline/mission_tree.py`, `actions.py` | the tree's steps and status | build, tick each step once, exit code, SIGINT, exceptions | partly: `Mission` |
| Nav2 handoff | `core/navigation/nav2_client.py`, `pick.py` (`hold_nav2`), `web/server.py` (`switch_nav2`) | the lifecycle manager's nodes | PAUSE, RESUME, read the nodes back | `Mission`, `Nav2Lifecycle` |
| Navigation goals | `nav2_client.py` (`_run`, `_cancel`, `drive_to`) | a goal handle and two futures per call | send, wait, late acceptance, time out, cancel, confirm | `NavGoal`, `Approach` |
| Navigator's queries | `nav2_client.py` | the costmap, the transforms, the controller's parameters | reachable, residual, set tolerances, read grids | partly: `Parking`, `Views` |
| Pick's action calls | `core/grasping/pick.py` (`run_action`) | a handle per attempt | send, resend, time out, cancel | `PickGoal` |
| Pick sequence | `pick.py` | move_group's planning scene, exemptions and depth map; the relay | hold Nav2, fold, detect, model, reach, correct, close, lift, look | partly: `PickSequence` |
| Arm recovery | `realrobot/live/recover_home.py` | the same scene | open, forget, retreat, fold, centre, resume | `PickSequence`, `Mission` |
| Web dashboard | `web/server.py` | the page's run, its process, its follower thread | Run, Recover, Home, gripper, Stop, Reset, Nav2 | partly: `Dashboard`, `Mission` |
| Search and scene graph | `actions.py`, `core/reasoner/query.py`, `core/scene_graph/graph.py` | the graph in memory and in a file, cached picks | order places, look, record, cache, forget, save | partly: `Search`, `Look`, `SceneGraph` |
| Observation poses | `actions.py` (`plan`), `core/navigation/standoff.py`, `goto.py` | poses per place (`VIEWS`) | filter, order, count, drive to the first reachable | partly: `Views`, `Look` |
| Scene graph building | `core/scene_graph/build.py`, `rooms.py`, `relations.py` | the file it writes | walls, floor, distances, rooms, relations | partly: `Rooms`, `SceneGraph` |
| Model RPC over Zenoh | `core/utils/zenoh_rpc.py`, its clients and servers | a queue of two, one worker | query, enqueue, refuse, expire, infer, reply, wait for SAM3 | `ModelServer` |
| Parking | `actions.py` (`make_graspable`), `core/navigation/graspable.py`, `base_placement.py` | Nav2's goal tolerances | choose bases, tighten, drive, restore, measure, aim | `Parking`, `Approach` |
| Active perception | `core/active_perception/` | the fused volume, the grasp history | fuse, predict, choose a view, drive, stop | partly: `Explore` |
| Launch files | `launch/` | configuration | the managed nodes' order | partly: `Nav2Lifecycle` |
| Grasp geometry, visual servo | `core/grasping/` | none | numerical | no |
| Vision transport | `vision-transport-poorna/` | demand per stream, the latest frame | demand, reconcile, drop, encode, send | partly: `Vision` |
| Localization | `realrobot/live/localize.py` | the map, a scan, a pose | match, judge, wait for subscribers, publish | partly: `Localizer` |
| Camera capture | `core/perception/camera_ros2.py` | a synchronizer's queues, the newest pair | wait for a pair, its calibration and pose, time out | partly: `Capture` |
| Offline tools, data preparation | `realrobot/offline/`, `realrobot/dataprep/`, `visualization/` | files | batch scripts | no |

**How they interact.** The dashboard starts a mission as a process of its own session and
reads its output in a follower thread; Stop, Reset and every button that takes the robot
over send SIGINT to the whole process group. The mission's steps block inside the tree's
tick and talk to Nav2 by actions, parameter requests and lifecycle services; the pick is a
subprocess with ROS contexts of its own that goes through MoveIt. Nav2's lifecycle manager
is shared: the mission, the pick, the recovery and the dashboard's buttons all send it PAUSE
and RESUME. So are move_group's scene, which outlives each pick, the controller's
tolerances, which outlive each mission, and the model servers' queues. The scene graph lives
in a file that each mission loads once and writes after Find. The images that all of this
looks at come over the vision transport, whose receivers ask its transmitter for a stream
only while somebody listens, and are captured pair by pair after each motion.

**What is hard.** Two controllers may move one base, and only the order of lifecycle
requests keeps them apart, requests that outlive callers which timed out. Goals are
accepted late, answered late or never, resent, cancelled without confirmation. SIGINT may
come at any instruction, SIGKILL in the middle of a pick. What one pick leaves in the
planning scene, the exemptions and the depth map is what the next starts from. Tolerances
are changed by three requests in one, each of which may be refused, and a request that timed
out may still be carried out. Several pages click at once, each in a thread of its own, and
look at shared state before they wait. A model server's queue holds requests whose callers
are gone. Cached guesses, remembered places and cached poses outlive the facts they came
from. A search spends a view budget over poses that cannot be reached, aimed from, or
trusted. Several receivers share the one flag that tells a transmitter of demand. An image
taken before a motion may arrive after it.

**What makes each part correct.**

- Handoff: while MoveIt moves the base for a pick, no Nav2 node that could move it is
  active and no navigation goal does; no step drives over a stack that is not all active;
  a mission that parks and succeeds leaves Nav2 paused; every run ends. (All but the last
  until a command from before the run takes effect in it.)
- Goals: a caller is answered only when its motion is over, and truly; a call that fails
  leaves no goal that nobody cancelled, but one whose answer it never heard; the robot stops
  in the end.
- Pick: the hand reaches past a map built around this target's box with every check on,
  whatever earlier runs left; no frame changes the map under a motion; the hand closes
  where it was measured to be; 'picked' means lifted.
- Parking: the base drives for a grasp only under tight tolerances, and a call that returns
  leaves the normal ones; READY is said of a base that stands still, where it was to stand.
- Dashboard: one run at a time, always the one Stop reaches; a click that takes over finds
  the run gone; a run is saved before it is replaced, if it can be written; every click is
  answered.
- Search: no piece is searched twice on a guess; a search that finds nothing makes the
  next one ask afresh; what was found is in the file before later steps can fail; a find
  moves one node, a near one, or adds one; no place is left with a pose that would show
  something neither seen nor counted as seen.
- Observation poses: the robot is sent only to floor that was seen, clear when the pose was
  cached; the count of needed views is enough.
- Model RPC: ready means that an inference succeeded; a live caller is refused only for
  one that is gone; every place in the queue is freed.
- Active perception: a grasp is stable only after a whole window of views.
- Localization: the match is the best near the best places of the grid; a published pose is
  heard by every localizer that was there in time.
- Camera capture: both images of a pair were taken after the call.
- Vision transport: whoever keeps listening is served in the end, a stream that nobody wants
  stops.
- Rooms: an object is in one place and in the room of that place; the rooms' division and
  the question "which room is this?" agree; a larger spacing only joins.

## 2. Modules

```
ActionServer  <- NavGoal        NavGoal  -- implements --> SingleMotion
              <- PickGoal       PickGoal -- implements --> SingleMotion
NavGoal, Parking <- Approach    Nav2Lifecycle <- Mission    Rooms <- SceneGraph
PickSequence   Dashboard   ModelServer   Search   Look   Views   Explore
Vision         Localizer   Capture

MissionProofs      Mission
DriveProofs        Approach (NavGoal, Parking) PickGoalProofs   PickGoal
PickProofs         PickSequence                ServerProofs     ModelServer, Dashboard
SearchProofs       Search, Look                RoomProofs       SceneGraph, Rooms
PerceptionProofs   Explore, Views (with RoomProofs' lemmas on least members)
```

An arrow goes from a module to one that extends it; a proof module extends the modules on
its right. Modules that are checked or proved about together share no names: the second
has `DashboardSpec`, `ParkingSpec`, `ApproachSpec`, `LookSpec`, `ViewsSpec`, `GraphSpec`,
`LocalizerSpec` or `CaptureSpec`, and its variables as `dashboard`, `parking`, `approach`,
`look`, `viewing`, `scene`, `localizing` or `grabbing`, where a module alone has `Spec` and
`vars`.

A definition whose comment begins with "Variant:" is not part of a
specification: it is what the code would do with one plausible mistake in it, which the
property named in `PROJECT.json` under "mutants" tells from what the code does.

**`Nav2Lifecycle`** (external: the lifecycle manager of Nav2 and its nodes). The contract
the repository relies on: one request after another, nodes in the launch file's order,
`controller_server` first to wake and last to sleep, a refusal half-way that leaves the
nodes before it changed, and a request that outlives the caller that gave up on it. `lc` is
each node's state, `cmds` the queue, `cur` the request at work, `driving` a goal that moves
the base, which may also come from RViz (`StrayGoal`).

**`Mission`**. `left` is the tree's remaining steps, built by `Tree` from the flags
`mission_tree.run` accepts; `at` is where the current step is: in its work, driving,
waiting for a PAUSE or RESUME, waiting in `get_ready` for every node to be active,
reaching (the pick moves the base) or retreating (the recovery does). `code` is the exit
code, `sigint` a signal not yet delivered, `button` the dashboard thread of a Nav2 button
(`switch_nav2`: take over, then ask). Each step ends as its function does: `Succeed`,
`Fail` (returned False), `Raise` (exception, exit 3) or interrupted (130). A wait that
times out abandons its request but does not take it back. `BeginRun` needs no more than
`begin` asks for: Nav2 may still be at a command of a button, or of a run that gave up. The
history `others` says so (`waiting`, and `carried out` once it changed a node), and
`hold_nav2` may miss a node that runs (`PausedUnchecked`).

**`ActionServer`** (external: Nav2's, the controllers' and move_group's action servers). A
goal travels, is accepted or rejected or lost, moves the robot until it ends; a cancel takes
effect later or never. **`NavGoal`** is `_run`, `_cancel` and `drive_to`: `sent`/`late` wait
for the acceptance, `waiting` for the result, `cancelling` for its confirmation; `why`
records what the wait was given up for. **`PickGoal`** is `run_action`: up to three sends
(`tries`), whether the request was lost, or only its answer, or either is late (`LetGo`;
`unheard` keeps the goals whose answer was never heard), one deadline, a cancellation whose
answer nobody looks at. A call that raises (`raised`) may be followed by another goal
(`GoesOn`: the scan's `finally`, the fold after a failed retreat) before the process ends
(`Quit`). **`SingleMotion`** is what both promise a caller: it asks for one motion at a
time, and when it is answered the robot stands still and the answer is true, or else the
call raises and the run ends. Both implement it (`INSTANCE SingleMotion WITH ...`).

**`PickSequence`**. Picks and recoveries one after another over one running move_group.
Kept from one to the next: `box` (the target's collision box, and whose), `attached`,
`exempt` (the pairs whose collisions are ignored), `map` (the depth map: none, built
without this run's box, built with it), `relay` (whether frames feed it), `nav`, and the
robot's `palm`, `hand`, `high` and `object`. `at` walks through `pick.pick`: `HoldNav2`, the
torso margin and its fold (`FreezeForFold`, the fold, the relay on again), perception tried
twice or taken from active perception's cloud, the box and the map (rebuilt up to
`MapTries` times while it overlaps the robot), the freeze, the plan, the pregrasp with its
protect stage, the palm's correction, the closing, the contact readings, the lift with its
exemptions and its two looks, and `finally`. `recover_home.main` is hand, scene, retreat,
fold, direct fold, head and resume. `Killed` ends either at any point without its `finally`;
`Raise` runs it. The world beside: frames arrive (`Frame`), an active Nav2 moves the base
(`Nav2Drives`), the object slips (`Slip`), the mission drives on in between (`Mission`).

**`Parking`**. `make_graspable` with `reposition` and `_approach`. `tol` are the
controller's three parameters, `requests` the queue of requests it has not carried out,
`answer` what it said to the one that is waited for. `Apply` carries out the next request,
each parameter accepted or refused for itself. A wait may be answered, refused, time out or
be interrupted; a request that was given up (`Abandon`) is carried out all the same. `bases`
are the poses the IK service certifies, less those in furniture, tried in their order
(`Offered`); `parked` says at which one the robot stands within the limits, and `DriveAway`
is what comes between two calls.

**`Approach`** puts the two together: one Navigator, whose `drive_to` is called by
`_approach` between its two requests (`DriveForGrasp`, `Driven`) and by whatever comes
between two calls of `make_graspable` (`DriveElsewhere`). Each of its steps is a step of
`NavGoal` or none, and a step of `Parking` or none.

**`Views`**. `Plan` filters the ring of poses by the saved map, the costmap and the
furniture, once per mission and place (`VIEWS`); `Choose` is `standoff.order`, one view at a
time: the nearest within a step of the best coverage, then by gain steps, separation and
distance; `Planned` is the count of needed views. A cell is what the saved map and the
costmap say of it: floor that the saved map never saw stays unknown, under a pose and on its
lines of sight alike (`Rebinned`). `MarksChange` puts marks into the costmap, or takes them
out, under the poses and on their lines of sight; the history `marked` keeps the poses it
has happened to since they were cached. `PoseFails`, `Arrive` and `NoneReached` are `goto`'s
walk along the order. The ring is unrolled to a line, coverage is any assignment of samples
to poses.

**`Look`**. The loop over observation poses at one place. A pose is the set of surface
samples within range of it; `seen` is what the code counts as seen, `viewed` (a history
variable) what really was in a view, and `assumed` what was counted from a pose whose aims
did not show it: the head takes any of a pose's aims (`View`). The poses and their coverage
are any, not only those that `standoff.order` returns.

**`Search`**. Missions one after another over one file. `round` and `todo` are where
`search_order`'s generator is: remembered places, cached or fresh picks, one more round.
`Predictions` is every answer `predict` accepts. `Detect` is the branch of `search` that
chooses a node (`Reused`: the remembered one if it is near, else the nearest if that is,
else none) and records it; `GiveUp` is NOT_FOUND with `forget`; `Save` is the save both end
with. `TakeFirst` is the tree's Choose step. An exception or Ctrl+C (`Abort`) loses the
graph in memory, and tears the file when it comes during `Save`. A place's furniture, an
object's node and a spot on a line stand for the boxes; labels, rooms and the order within a
round are left out.

**`Rooms`** are the functions of `rooms.py`: walls by the length of a blob, the closing of
the floor and its largest piece, walks along it (a diagonal step costs 7 fifths), and the
agglomeration of furniture by mean distance. **`SceneGraph`** is the graph on top:
`Classify` (`relations.classify`: support, containment, nearness), `Name` (the map divides,
DeepSeek names, repeated names are numbered), `Assign` (no map: DeepSeek does both) and
`RecordObject` (one edge, the room of its furniture). Rooms are named once, before the graph
is saved (`BeforeSave`), and objects recorded from then on. `RoomAt` is `room_at`.

**`ModelServer`**. `server` comes up, warms up, crashes and restarts; `queue` and `worker`
are `serve`'s; `overdue` are the requests whose deadline has passed there. `Take`, `Expired`,
`Infer`, `InferenceFails` and `Reply` are the worker's loop; `Enqueue` accepts or refuses. A
caller asks, receives the first reply that comes, gives up at its own deadline, ends or is
killed with the query open, and another process takes its place. A SAM3 caller begins in
`get_ready`'s wait.

**`Explore`**. `Update` is one pass of `NextBestView.update` (fuse, predict, write the slot
of the history, test budget and stability, choose the candidate with the most gain), `Move`
the drive under the eye, refused or not, `Capture` the re-centring of the sphere on the new
detection, `Save` the file. What a view reveals, what the model scores and where the target
is detected is any. `rejected` are the refused eyes, as positions, and the history `refused`
the same relative to the sphere, whose centre moves.

**`Dashboard`**. Each page's request is a thread (`pc`, `op`, and `found`: the run it
found running). `Look` is the first locked section of `take_over` and `reset`, `Waited`
the join with its `STOP_TIMEOUT`, `Begin`, `Clear`, `Stop` and `SendGoal` what is done
afterwards. `cur` is the page's run, `child` the run of the globals `process` and
`follower`; `process` and `follower` are each run's own. The follower's end is `Follow`,
which takes the lock and marks the run over, and `Save`, which writes the file, or fails to,
and releases it; every request waits for the lock (`LockFree`). A mission may ignore SIGINT,
a process may fail to start after its run was marked, and a follower may die of a line that
is not JSON.

**`Vision`**. One camera stream of the transport, with several receivers at one transmitter.
A receiver looks every 200 ms whether somebody listens and tells the transmitter: a demand
again every second, the end of one once (`Due`). The transmitter
believes the last message that arrived (`OnDemand`), subscribes to the camera accordingly
(`ReconcileSourceSubscriptions`), keeps the latest frame (`Offer`) and encodes it
(`WorkerTakes`, `Process`). Demand messages are lost and late, and either end restarts; the
history `unsaid` keeps the receivers whose end of demand was never told. The rate limiter
drops any frame, and codecs and the clouds are left out.

**`Localizer`**. `SearchMap` is the coarse grid over the free floor and the refinement of the
best places that are apart (`Places`, `Refine`), `Judge` the test of the median, `Matched`
and `WaitEnds` the wait for subscribers, `Publish` the poses sent. A position is a cell of a
line with the cost of its best heading, and the costs are any; the standing watch
(`--watch`) is left out.

**`Capture`**. `Begin` is a capture's new node and the `capture_start` it reads, `Image` the
synchronizer with its queue and slop, and the callback that takes a pair, `Check` the loop's
test for a pair with its calibration and its pose. Images are lost, late and out of order
(`Lose`). The clock is the machine's, or simulated (`sim`), and then a new node still reads
zero (`Clock`). The machines' clocks agree.

## 3. Runs

Every run passes. Each is `tlc -workers 2 -config MC<Module>.cfg MC<Module>.tla`.

| Run | Module | Properties | States (about) |
| --- | --- | --- | --- |
| `mission` | `Mission` | `BaseOwnership`, `DriveNeedsNav2`, `HandoffOnSuccess`, `RunEnds` | 560,000 |
| `approach` | `Approach` (`NavGoal`, `Parking`) | `NoUntrackedGoal`, `DriveIsPrecise`, `NormalOnReturn`, `ReadyStandsStill`, `StopsInTheEnd`, `DrivesOneAtATime` | 1,329,000 |
| `pick_goal` | `PickGoal` | `NothingUntracked`, `StopsInTheEnd`, `MotionsOneAtATime` | 229,000 |
| `pick_sequence` | `PickSequence` | `ReachIsChecked`, `FrozenWhileMoving`, `ClosesAtTheGrasp`, `PickedMeansLifted`, `PickEnds` | 236,000 |
| `dashboard` | `Dashboard` | `StopReaches`, `TakenOver`, `SavedBeforeReplaced`, `Answered` | 48,000 |
| `search` | `Search` | `NeverTwice`, `NextAsks`, `FoundIsSaved`, `NewOnlyIfFar` | 369,000 |
| `look` | `Look` | `LeavesNothing` | 6,427,000 |
| `views` | `Views` | `StandsOnSeenFloor`, `NeededIsEnough` | 2,405,000 |
| `scene_graph` | `SceneGraph` | `OnePlaceOneRoom`, `DivisionIsKept` | 780,000 |
| `model_server` | `ModelServer` | `ReadyMeansServed`, `BusyForTheGone`, `PlacesAreFreed` | 238,000 |
| `vision` | `Vision` | `ListenersAreServed`, `StopsForNobody` | 126,000 |
| `perception` | `Explore`, `Localizer`, `Capture` | `StableAfterAWindow`, `NoneBetterNearTheBest`, `HeardUnlessLate`, `TakenSinceTheCall` | 6,485,000 |

Each property's comment in its module says what it means and of which code. `perception` runs
three small programs that share nothing: `program` picks the one that a behaviour is of, and
the others rest. A module's type invariant is not among the properties of a run: that of
`Mission`, `NavGoal` and `PickSequence` is proved (section 5), the others are there to be put
in a cfg.

**What the properties except.** No run assumes anything of operators, networks or heads that
the code does not see to. Where the code keeps a promise only in part, the property names the
part, by a state or a history variable, and section 4 has the property without it:

- `Undisturbed` (`Mission`): no command that the manager had, or was sent, before the run began
  has changed a node since. `Owning`: a pick that was started without "Pause Nav2" counts only
  if `hold_nav2` discovered Nav2 in its 2 s. Commands from before may still be waiting, and be
  seen to wait, by a run that is otherwise held to everything.
- `unheard`, `OutOfHand` (`PickGoal`): a goal whose answer never came, and a goal cancelled by
  a call that raised, while it may still move. The goals `_run` gives up on before an
  acceptance (`NoUntrackedGoal`) end the run.
- A follower that died (`TakenOver`), a write that failed (`SavedBeforeReplaced`).
- `assumed`, `oversized`, `failed` (`LeavesNothing`): surface that a pose counts as seen, an
  oversized last detection, `FAILED_DRIVES` drives that failed.
- `marked` (`StandsOnSeenFloor`): a mark that came after the pose was cached. A first view that
  adds less than a step (`NeededIsEnough`).
- `missed` (`ClosesAtTheGrasp`): a pick that did not discover Nav2.
- `unsaid` (`StopsForNobody`), `late` (`HeardUnlessLate`), `sim` (`TakenSinceTheCall`).

**Bounds and why they are enough.**

- `mission`: four managed nodes, the controller, another motion node behind it, a node that
  does not move the base, and the last one: enough for a command that stops half-way before,
  between and after the nodes that matter. One drive per step (`MaxDrives`), and one request
  waiting beside the one at work (`MaxPending`), each of the run, of the button, or left over
  by either. Runs follow each other without a bound, and begin while commands are under way.
- `approach`: two goals, so that a goal left over meets a later one; two bases (a first and a
  next, on each of the two alternatives); three calls: one that leaves a request behind, one
  that meets it, one after both.
- `pick_goal`: five goals and two attempts a call (the code's `MaxTries` is 3; a first and a
  last attempt are what differs): two calls, the second one's goals with the first one's still
  on their way, and one goal after a raise.
- `pick_sequence`: three runs, so that a run meets what one left and what another failed to
  clear; the map is rebuilt up to three times, which shows a first, a next and a last
  rebuild. The scene after a killed run has few values, and three runs reach them all.
- `dashboard`: two pages and three runs: the run that is taken over, the one another page
  starts meanwhile, and one after both.
- `search`: three pieces of furniture and two object nodes on five spots, with
  `SAME_INSTANCE` one spot, so that detections fall on a piece, next to it, near one node,
  near both and near none; `--top-k` 1 and 2, so that both rounds, a list cut short and an
  empty list all occur. Missions follow each other without a bound.
- `look`: two samples make every relation between the coverage of two poses; four poses are
  two past the smaller budget; the budgets are 2 (`MIN_VIEWS`) and 3; `FAILED_DRIVES` is the
  code's 2. Every pose shows any part of what is in range of it.
- `views`: three poses, on seven kinds of floor (clear, in furniture, unknown to the saved map
  under the pose or on its line of sight, with a mark under it or on the line, behind a
  wall), with four coverages of four samples, two of which are a step; `MIN_VIEWS` 1 and
  `MAX_VIEWS` 3 stand for the code's two limits, so that the count is clamped at both ends;
  the place is planned twice, with marks that come and go before, between and after, since
  only the second plan can read a stale cache.
- `scene_graph`: maps of 6 by 7 cells: two rooms and a door, the same without the door (so
  that furniture snaps to another room's floor), a wall of one cell along a diagonal; six
  arrangements, in some of which two pieces snap to one cell; three spacings, with
  which one, two and three rooms come out; three calls after the build: a naming, an object
  recorded, and the same one elsewhere.
- `model_server`: the code's queue of two, one caller per place, two calls each, so that a
  call that was given up meets the next; one crash. SAM3 (waited for, empty answers allowed)
  and GraspGenX (neither).
- `vision`: two receivers, since one's end of demand must meet the other's demand; two messages
  of each under way, so that an old one follows a new decision; four changes of listeners and
  two faults, after which liveness is asked.
- `perception`: for `Explore` a window of two and five passes, so that the ring of slots wraps
  and the budget (three) is met after it, and a sphere of two views around one of two centres.
  For `Localizer` nine cells, three of them on the grid, each with a better pose beside it or
  not, every cost of three and every part of the floor; two places are kept (`Keep`) if they
  are three cells apart, refined by steps of two and one. For `Capture` four instants and two
  captures, so that the images of the first are under way in the second; `Slop` is one
  instant, so that pairs of equal and of unequal times occur.

`CHECK_DEADLOCK FALSE` stands where a run really stops: `pick_goal`, `approach`,
`pick_sequence` and `model_server` when their bound of goals, runs or calls is spent, `views`
and `scene_graph` after their last plan or call, `vision` when nobody listens any more,
`perception` when the loop has saved or raised, the pose is published or the time is over.

**Fairness.** `Mission`: weak fairness of the run's and the button's own steps, because
every wait in them has a timeout (30 s for a handoff, the startup deadline in `get_ready`,
300 s for a drive) after which they go on; the lifecycle manager gets none, it need never
answer. `NavGoal`, `Approach`, `PickGoal`: the client's steps for the same reason, and that a
server which was asked to cancel a goal cancels it in the end; nothing says when, or that its
answer arrives. `PickSequence`: the pick's and the recovery's own steps, whose every call
has a timeout; not the depth frames, which need never come. `Dashboard`: the request threads
and followers run; a mission need not exit, which is why `Answered` is about `STOP_TIMEOUT`.
`ModelServer`: the worker's thread runs while the server does, and an inference ends, well or
by an exception; callers, messages and the server's start get none. `Vision`: weak fairness
of the two 200 ms timers, the executors, the worker and the camera, and strong fairness of a
frame that reaches a receiver, since frames may be lost again and again but not all of them;
nobody need listen, start or stop. `Parking`, `Views`, `Explore`, `Localizer`, `Capture`,
`SceneGraph`, `Search` and `Look` state no liveness and no fairness: their loops are finite.

## 4. What the code says of itself and does not do

These properties state what a comment, a message or a doc of the repository says, and the
code's model violates them: put one in its module's cfg and TLC prints the steps. Each is
described under "findings" in `PROJECT.json` with the line it contradicts.

| Property | Module | What happens |
| --- | --- | --- |
| `OwnedAlways` | `Mission` | a command of the dashboard comes into effect during a pick begun after it; `hold_nav2` misses a node it has not discovered |
| `RecoverOwnership` | `Mission` | the recovery's retreat moves the whole body without pausing Nav2 |
| `SigintCancelsGoal` | `NavGoal` | SIGINT while `_run` waits for the acceptance leaves the goal alone |
| `ErrorsStopTheMotion` | `PickGoal` | `run_action` cancels only goals whose acceptance it has read |
| `AlwaysOneMotion` | `PickGoal` | a goal after a raise, or after a request whose answer alone was lost, is a second motion |
| `CommandsAlone` | `Dashboard` | another page's run begins between `take_over` and the command |
| `TakenOverAlways` | `Dashboard` | a follower that died lets a click through beside its mission |
| `SavedAlways` | `Dashboard` | a run is marked over before the write that may raise, and is then replaced unsaved |
| `MarkedIsGoing` | `Dashboard` | a run whose process could not be started stays marked as running |
| `ForgetsOnlyTried` | `Search` | a failed `--furniture` search drops cached picks nobody tried |
| `GivesUpLast` | `Search` | when all cached picks are remembered places, no question is asked |
| `LeftWhenSeen` (two findings) | `Look` | a pose with one good aim counts all its surface as seen; an oversized detection at the budget ends the place |
| `WaitsForSam3` | `ModelServer` | a server that is not up ends the wait for it, by a `TimeoutError` |
| `RestoredAfterward` | `Parking` | a tightening that is refused in part or times out is not restored |
| `NoneNeeded` | `Views` | a first view below a step makes the count of needed views zero |
| `OrdersClearPoses` | `Views` | a second plan orders poses that a mark has blocked since the first |
| `FoldIsChecked` | `PickSequence` | the fold before perception keeps the last lift's exemptions |
| `FoldSeesTheMap` | `PickSequence` | the recovery's fold is planned against an empty depth map |
| `RecoveredMeansHome` | `PickSequence` | the direct fold does not look at its result |
| `BudgetKept` | `Explore` | one more view than `max_views` is fused |
| `StableForAWindow` | `Explore` | a view with few points leaves an older score in its slot |
| `CameraIsFused` | `Explore` | the camera saved as "the last view's" belongs to a capture never fused |
| `RefusedNotOffered` | `Explore` | a refused view is offered again once the sphere's centre has moved |
| `NumberedApart` | `SceneGraph` | a number given to a repeated name makes a name given too |
| `NearHasNoRoom` | `SceneGraph` | an object that is only near a piece gets that piece's room, against the README's `null` |
| `DiagonalsHold` | `SceneGraph` | the floor's diagonal steps pass a diagonal wall of one cell |
| `StopsAlways` | `Vision` | a receiver that stops, or an end of demand that is lost, leaves the transmitter sending to nobody |
| `PoorIsNotPublished` | `Localizer` | a scan that is off the map everywhere has no median, and the origin is published |
| `AlwaysSinceTheCall` | `Capture` | under simulated time a new node's clock reads zero, and old images pass for new |

The properties of `NavGoal` and `Parking` go into `MCApproach.cfg`, those of `Explore`,
`Localizer` and `Capture` into `MCPerception.cfg`.

## 5. Proofs

TLAPS proves the following for every value of the constants: every set of nodes, furniture,
pages or spots, every number of runs, goals, calls and missions.

| Module | Theorem | Proves |
| --- | --- | --- |
| `MissionProofs` | `TypeCorrect` | `[]TypeOK` (of no run) |
| | `OwnershipHolds`, `BaseIsOwned`, `HandoffHolds` | `[]OwnershipInv`, `[]BaseOwnership`, `HandoffOnSuccess` |
| | `DrivesOverActiveStack` | `[]DriveNeedsNav2` |
| `DriveProofs` | `GoalTypeCorrect`, `GoalsAreTracked` | `[]TypeOK`, `[]NoUntrackedGoal` |
| | `DriveToIsSingleMotion` | `DrivesOneAtATime`: the refinement of `SingleMotion` |
| | `PreciseDrives`, `NormalAfterReturn`, `ReadyIsParked` | `[]DriveIsPrecise`, `[]NormalOnReturn`, `[]ReadyMeansParked` (of no run) |
| | `EachGoesOnAlone`, `ReadyHasStopped` | `Approach` implements `NavGoal`'s safety part and `Parking`; `[]ReadyStandsStill` |
| `PickGoalProofs` | `NothingLeftUntracked` | `[]NothingUntracked` |
| | `RunActionIsSingleMotion` | `MotionsOneAtATime`: the refinement, but where a goal is out of hand |
| `PickProofs` | `PickTypeCorrect` | `[]TypeOK` |
| | `ReachIsAlwaysChecked`, `MapIsFrozen`, `GraspIsAtTheTarget`, `PickedIsLifted` | `[]ReachIsChecked`, `[]FrozenWhileMoving`, `[]ClosesAtTheGrasp`, `PickedMeansLifted` |
| `ServerProofs` | `ReadyIsServed`, `RefusedForTheGone` | `[]ReadyMeansServed`, `BusyForTheGone` |
| | `AliveIsReached`, `TakenOverIsGone`, `ReplacedIsSaved` | `[]StopReaches`, `[]TakenOver`, `SavedBeforeReplaced` |
| `SearchProofs` | `GuessesAreNew`, `NextSearchAsks`, `FindIsKept` | `[]NeverTwice`, `[]NextAsks`, `[]FoundIsSaved` |
| | `FarIsNew` | `NewOnlyIfFar` |
| | `NothingIsLeftOut` | `[]LeavesNothing` |
| `PerceptionProofs` | `WindowIsFull` | `[]StableAfterAWindow` |
| | `PosesAreOnSeenFloor`, `CountIsEnough`, `BestComesFirst` | `[]StandsOnSeenFloor`, `[]NeededIsEnough`, `[]NoneBetterLater` (of no run) |
| `RoomProofs` | `PlaceAndRoomAgree`, `DivisionIsNamed` | `[]OnePlaceOneRoom`, `[]DivisionIsKept` |
| | `SweepOnlyJoins` | `[]LargerJoins` (of no run) |

No theorem has a hypothesis. The proofs use only the named `ASSUME`s on the constants, which
TLC evaluates in every run. They say what kind of thing each constant is (a box has cells
under it, a bottom and a top; a room's name is words and numbers; a spacing is a natural
number) and two things more: every map has some free space, and there are two pieces of
furniture, without which `rooms.floor` and SciPy's `linkage` raise.

**The arguments.**

*Mission.* `BaseOwnership` is not inductive: that the pick finds every motion node
inactive when it begins to reach says nothing of what the lifecycle manager will do next, nor
of a pick that did not look. `OwnershipInv` adds the facts that do. `Nav2InOrder` is the
manager's part: an inactive controller means that every node is inactive (`ControllerTells`,
which `hold_nav2` takes for granted), a command under way has come so far in the nodes' order
(`CommandInOrder`), and a goal moves the base only through an active controller. `MineInOrder`
says that the manager has a request of the run's only while the run waits for it, since every
other way out of the wait gives the request up (`MineStep`). `Alone` says that nobody else's is
there either if none was when the run began, because a button first waits for the run to be
gone; so a command that disturbs the run is one from before, which `others` then records, and
`Undisturbed` is what remains (`AloneStep`). `PauseHolds` keeps an answered PAUSE until it is
read. `StackReady` is what each step of the tree leaves for the next: `Chain` is the order that
`mission_steps` gives them (`TreeChain`, for every combination of flags), by which a step that
needs Nav2 follows Ready, and a pick with Nav2 follows its pause (`NextStep`, `StackStep`).
`StepInPlace` ties `at` to the step, without which the exits of a step could not be told apart.
`BaseOwnership`, `HandoffOnSuccess` and `DriveNeedsNav2` follow from these with no more said of
operators or discovery.

*Goals.* `NoUntrackedGoal` alone does not survive a new call. `OnlyMine` adds that no goal
but the call's own may move the robot, and none between two calls; `WaitsForMine` what a wait
for the result may find; `SentInOrder` that the goals after the last one sent do not exist;
`EndsIfGivenUp` that the two exits which do leave a goal behind also end the run. The refinement
maps the server's goals to one robot, standing or moving (`Robot`): `RobotShowsMine` is what
makes a step of any other goal a stutter of `SingleMotion`. In `PickGoal`, `CancelledLast` says
that until a call has raised only its own goal can have been cancelled, and that it then raises;
with it, whatever moves outside the call is `OutOfHand`, and at every other step
`RobotShowsMine` holds and `SingleMotion` is kept. `RoomToResend` says only that the bound on
goals leaves a call its attempts.

*Approach.* Each step is one of `NavGoal` or none and one of `Parking` or none (`StepOfEach`),
so both invariants hold of the two together. `CallsAreWithin` says where `make_graspable` is
while a drive is under way or has raised: never at READY; `OnlyMine` then leaves no goal that
may move the base.

*Pick.* What matters is where an earlier run's scene is overwritten. `SceneIsNew` says that
from the depth map's first check on the box is this run's and nothing is attached, and that
from the freeze on the map was built with it: the box removed and built anew, the map cleared
after it, are what `model_target` does in that order. `NavIsHeld` carries what `hold_nav2`
saw to the close; `LiftIsTold` says that from the lift to the verdict the object is attached
and either up or fallen, so that 'picked' depends on the last reading alone. `Places` ties
each place to its process, so that a recovery's steps cannot be taken for a pick's.

*Parking.* A request that timed out is still in the controller's queue, and may be carried
out under the next call. `WaitsForOwn` says why that is harmless: a request that is waited
for is always the last of the queue, so its answer comes after everything earlier was
carried out (`LastAsks`); an answer "set" therefore means that the queue is empty and all
three tolerances are what was asked (`Asked`). `NormalAfterDrive` and `NormalBetween` follow
the call from there. READY is a second invariant, `PlaceInv`: `ClearBases` (whichever of the
poses found `Offered` keeps, in their order, none is in furniture) and `AtAPose` (the pose at
hand is one of those, and past the measurement the one the base stands at).

*Model servers.* A reply is worth nothing without the query that it answers, and a request
may be at many places when its caller gives up. `AtOnePlace` says that it is at one,
`Numbered` that nothing anywhere is of a later call than the caller's last, and
`RepliesFindTheirQuery` that a reply never meets a later query; with `AnswersAreInferred` an
answer is then the proof of an inference for the process that waits for it. For
`BusyForTheGone` a full queue is counted (`SomeoneIsGone`): a live caller has one request at
most, so among as many requests as callers, none of them the refused one's, one is of someone
gone.

*Dashboard.* `AliveIsFollowed` and `Numbered` say that a living run is the last begun and that
its follower reads or has died; `FoundOnLook` that a request knows of a run only from its
first locked look on. A click that goes on after its wait then either found the run over or
its follower dead. `CurIsKept` is what `begin` relies on: the page's run is on, or saved, or
its follower holds the lock to save it, which `begin` waits for, or has failed to.

*Search.* `RoundTells` says what kind of place the generator's list holds in each round,
`SearchedIsExcluded` that what was searched is excluded from later guesses, `Forgets` and
`Records` carry the outcome's effect on the graph in memory to the save, `Loaded` and
`ParksOnFind` that a mission works on a whole file and parks only on a find.

`FarIsNew` needs the nearest node, which exists because distances are naturals
(`NatLeast`).

*Look.* `PassedAreHandled` is the core: whatever pose the loop has passed was visited, lost
to a failed drive, or shows nothing unseen; and that stays so, since what is seen only grows
(`Grows`). `SeenWasViewed` ties what the code counts as seen to what was in a view or was
assumed to be (`Known`).

*Active perception.* `SlotsAreViews` says that only slots of views taken hold a score, so
that a score in all of them is a whole window; `BestIsScored` that the grasp returned is from
the last surface.

*Observation poses.* `PosesAreClear` keeps of every cached pose that the saved map has it on
seen floor and behind none of its walls, which no mark changes, and that the costmap has it
clear, which only a mark of its own cells changes. `NoneBetterLater` compares views chosen
at different times. `MostFirst` keeps, of every chosen view, that no pose left then added a
higher step of coverage; what a pose adds only shrinks (`AddsLess`), so it holds of those
chosen later. That the choice is the best of all is `KeysAreRows` and `BestIsFirst`: the
keys are sequences of one length, compared in a total order. `CountIsMade` holds the count
from the end of the order to the plan's.

*Rooms.* `PlaceAndRoomAgree` has `PlacesInv`: one edge at most, and the rooms of its two ends
equal, which `SetRooms` and `RecordObject` each keep. The two others are about what
`Partition` computes. A function that is defined by `f[n] == ... f[n - 1] ...` is shown to
exist by `RecursionOnNat`, from `Induction` over sets of naturals, and so unfolded for the
components of the free space (`ComponentIsWithin`), the ways along the floor
(`WaysHaveLengths`: a length, and zero only to the cell itself) and the chain of divisions
(`PartitionIsAChain`); sums over pairs are unfolded by size (`SumIsMade`, `SumIsANumber`).
`NearestAreJoined` is that of finitely many pairs of groups one has the least mean distance,
compared by multiplying across (`MeansCompare`). `FurtherJoinsMore` runs the chains of two
spacings side by side: the nearest pair does not depend on the spacing, so they are equal
until the smaller one stops, and from then on the other only joins. `CellsStayWhole` is that
pieces which snap to one cell are never parted: while the groups are of one cell each, two
groups of the same cell are at distance zero and joined first (`SameCellJoins`), and the
chain is long enough to end (`ChainSettles`). With `DivisionInv` (the groups are the
partition of the distances) and `NamesInv` (after a naming, equal rooms are equal groups;
`NumberedAreApart` for the repeats), whoever stands at a piece is nearest to pieces of its
own group.

*Least members.* `min()` over a set and over keys is a `CHOOSE` in the models, which means
something only if there is a least member: `LeastOfNats` has it for naturals, from the
well-foundedness of `<`, and `FiniteHasFirst` for every total order on a finite set.

**Only model-checked.** Liveness (`RunEnds`, `StopsInTheEnd`, `PickEnds`, `Answered`,
`PlacesAreFreed`, `ListenersAreServed`, `StopsForNobody`): TLAPS proves none under fairness, nor
`ENABLED`. The properties of `Localizer` and `Capture`, which have no proofs yet. What the
recursive functions compute is proved as far as the theorems need: that `Walk` gives the
shortest ways, and `Component` all that can be reached, stays with TLC's small maps.

## 6. What is not modelled

- Numbers: geometry, costs, grasp quality, a scan's match with the map, fused volumes. They
  decide which branch is taken; the models take any. `Rooms` is the exception, on small maps;
  `Views` keeps the decisions and unrolls the ring to a line, `Localizer` the search over any
  costs.
- Time: a timeout may happen whenever its wait is on. Clock arithmetic, clocks of two machines
  that disagree, and run ids of one second's resolution are not in it. In `ModelServer` a
  deadline at the server passes after the caller's own, since it counts from the receipt.
- ROS itself. Futures resolve when the executor spins; `cancel_late` is taken to run
  within `_run`'s second wait, as `rclpy` calls a done-callback, and a SIGINT is taken to
  raise `KeyboardInterrupt` at a wait. `rclpy.init` also installs a handler that shuts its
  context down, so that `_cancel`'s two waits may return at once: in the model that is a
  cancellation that is not confirmed, which raises. What a goal does whose client was killed
  is in `PickSequence` only as the state it leaves.
- The `INVALID_REQUEST` reply of a model server's `enqueue`: every query of this repository
  carries a request, so no client gets it.
- Building the graph: rooms numbered in their order where no API key is set, the sweep that
  only prints, and a graph of one piece of furniture, for which SciPy's `linkage` raises.
- The base that drives while `localize.py` searches, and its standing watch; the vision
  transport's clouds, codecs and statistics; the hand camera.
- The pick's diagnostics, the dashboard's telemetry, camera and files, labels and the
  requests' parsing in `search`, transforms, and the encoding of the models' messages: none
  of them changes state that the rest reads.
- Grasp geometry (shapes, candidates, contact widths) is numerical; `VisualServo` is not called
  by `pick`. The offline and data preparation tools are batch scripts without concurrent state.
  Of the launch files only the managed nodes' order matters to a property.

**What is left of the plan.** Theorems about `Vision`'s safety side, `Localizer` and
`Capture`. `Vision` with several streams, whose clouds share one budget. The recovery and
the pick of `PickSequence` together with `PickGoal`'s goals, so that a killed pick's last
goal meets the next run's first. Type invariants of the modules whose proofs so far carry
only the types they use, and that `Walk` gives the shortest ways.
