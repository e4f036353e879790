-------------------------------- MODULE Cluster --------------------------------
(***************************************************************************)
(* Several hosts that record one take together: a leader, whose operator   *)
(* starts and stops, and followers that wait for it.  Hosts learn of each  *)
(* other through adverts (mDNS), which arrive late or are old, and then    *)
(* talk over HTTP: a follower polls the state of the host it took for the  *)
(* leader, and the leader posts its config to every follower it sees in    *)
(* "preparing" once it records itself.  A control plane goes down some     *)
(* time after stop(), when the leader is meant to have fetched the files.  *)
(*                                                                         *)
(* What a host does inside start() and stop() is the subject of Session;   *)
(* here it is one step, and the waits between hosts are the steps.  The    *)
(* followers connect() first and never disconnect; the leader may, or      *)
(* start() in one shot, and then it lands in "stopped".                    *)
(***************************************************************************)
EXTENDS Naturals

CONSTANTS
  Leader, Followers,
  Roles,          \* what kind each follower may be in this instance
  Attended,       \* followers whose operator calls start()
  StaticPeers,    \* the leader was given its followers' addresses
  Faults,         \* what may go wrong in this instance
  MaxTake         \* bound: recordings the leader begins

None == "none"
Hosts == Followers \union {Leader}
\* "shared" knows the session id beforehand, "static" the leader's address too.
RoleNames == {"auto", "shared", "static"}
FaultNames == {"timeout", "network", "delete", "exit"}

ASSUME HostsAssumption == Leader \notin Followers /\ None \notin Hosts
ASSUME RolesAssumption == Roles \subseteq [Followers -> RoleNames] /\ Attended \subseteq Followers
ASSUME StaticPeersAssumption == StaticPeers \in BOOLEAN
ASSUME FaultsAssumption == Faults \subseteq FaultNames
ASSUME MaxTakeAssumption == MaxTake \in Nat \ {0}

States == {"idle", "connected", "preparing", "recording", "stopped", "gone"}
Adverts == {"none", "preparing", "recording", "stopped"}
Steps == {"rest", "await", "begin", "discover", "post", "follow", "released"}

VARIABLES
  role,       \* per follower, fixed at construction
  state,      \* _state of each host, as GET /health reports it
  at,         \* the step a host's start() or wait_for_leader_stopped() is at
  advert,     \* status its advertiser broadcasts, "none" when it has none
  ready,      \* followers the leader's browser last saw in "preparing"
  plane,      \* hosts whose control plane answers
  timer,      \* hosts whose keep-alive timer is armed
  observed,   \* per follower: the host it took for the leader, or None
  signal,     \* followers with _leader_recording_signal set
  audio,      \* followers with _has_audio_stream_at_start set
  invited,    \* followers the leader's start() discovered
  todo,       \* of those, the ones not yet posted to
  rejected,   \* "rejections" is not empty
  oneShot,    \* _auto_connected of the leader: start() connected by itself
  take,       \* recordings the leader has begun
  left,       \* the leader's _output_dir exists
  kept,       \* finished takes in the leader's host directory
  accepted,   \* history: followers that applied the config of this take
  heard,      \* history: followers whose leader recorded since their start()
  late,       \* history: followers about to begin, having found that host "stopped"
  joined,     \* history: followers that record, begun in the leader's current take
  aborted     \* history: a distribution was rolled back

leaderVars == <<invited, todo, rejected, oneShot, take, left, kept, aborted>>
followerVars == <<observed, signal, audio, accepted, joined, late>>
netVars == <<advert, ready, plane, timer>>
vars == <<role, state, at, netVars, leaderVars, followerVars, heard>>

\* Construction: every host is online at once, but a follower that has yet to
\* learn the session id cannot advertise.
Init ==
  /\ state = [h \in Hosts |-> IF h = Leader THEN "idle" ELSE "connected"]
  /\ at = [h \in Hosts |-> "rest"]
  /\ role \in Roles
  /\ advert = [h \in Hosts |-> IF h # Leader /\ role[h] = "auto" THEN "none" ELSE "preparing"]
  /\ ready = {} /\ plane = Hosts /\ timer = {}
  /\ observed = [f \in Followers |-> None] /\ signal = {} /\ audio = {}
  /\ accepted = {} /\ joined = {} /\ late = {}
  /\ invited = {} /\ todo = {} /\ rejected = FALSE /\ oneShot = FALSE
  /\ take = 0 /\ left = FALSE /\ kept = {} /\ aborted = FALSE
  /\ heard = {}

-----------------------------------------------------------------------------
\* The network

\* An auto-discovering follower knows the session id from the leader it saw.
KnowsSession(f) == role[f] # "auto" \/ observed[f] # None

\* The leader's browser resolves a follower's advert, or hears that it is gone;
\* until then it keeps what it saw last.  The browser goes with the advertiser, and
\* a distribution without one opens a browser for itself.
Browsing == advert[Leader] # "none" \/ at[Leader] = "discover"

Refresh(f) ==
  /\ Browsing /\ f \notin ready /\ advert[f] = "preparing"
  /\ ready' = ready \union {f}
  /\ UNCHANGED <<role, state, at, advert, plane, timer, leaderVars, followerVars, heard>>

RefreshLate(f) ==
  /\ f \in ready /\ advert[f] # "preparing"
  /\ ready' = ready \ {f}
  /\ UNCHANGED <<role, state, at, advert, plane, timer, leaderVars, followerVars, heard>>

\* _find_any_match of a follower's browser: any announcement of the session, in
\* any status.  It does not say whose it is, and may be the follower's own.
Match == {g \in Hosts : advert[g] # "none"}
Watches(f) == role[f] # "static"

\* A follower that has learnt the session id starts its advertiser, once.
Advertise(f) == advert' = [advert EXCEPT ![f] = IF @ = "none" THEN "preparing" ELSE @]

\* _watch_for_leader, the follower's background thread.  Its advertiser start
\* takes the session lock, which start() holds; start() does the same then.
Observe(f) ==
  /\ Watches(f) /\ observed[f] = None
  /\ \E g \in Match : observed' = [observed EXCEPT ![f] = g]
  /\ IF at[f] \in {"rest", "follow", "released"} THEN Advertise(f) ELSE UNCHANGED advert
  /\ UNCHANGED <<role, state, at, ready, plane, timer, leaderVars, signal, audio, accepted, joined,
                 late, heard>>

\* The keep-alive timer that stop() armed runs out, whatever the host does now.
KeepAliveExpires(h) ==
  /\ h \in timer
  /\ timer' = timer \ {h} /\ plane' = plane \ {h}
  /\ UNCHANGED <<role, state, at, advert, ready, leaderVars, followerVars, heard>>

\* DELETE /session.
SessionDelete(h) ==
  /\ "delete" \in Faults /\ h \in plane
  /\ plane' = plane \ {h} /\ timer' = timer \ {h}
  /\ UNCHANGED <<role, state, at, advert, ready, leaderVars, followerVars, heard>>

\* The process ends: shutdown() at exit, or a crash.
Exit(h) ==
  /\ "exit" \in Faults /\ state[h] # "gone"
  /\ state' = [state EXCEPT ![h] = "gone"] /\ at' = [at EXCEPT ![h] = "rest"]
  /\ advert' = [advert EXCEPT ![h] = "none"]
  /\ plane' = plane \ {h} /\ timer' = timer \ {h}
  /\ UNCHANGED <<role, ready, leaderVars, followerVars, heard>>

-----------------------------------------------------------------------------
\* A follower records

\* start(), by its operator or through POST /session/start: the signal of an
\* earlier recording is dropped and the capabilities are noted.
KeepSignal(f) == UNCHANGED signal
ClearSignal(f) == signal' = signal \ {f}

FollowerStart(f) ==
  /\ f \in Attended
  /\ state[f] = "connected" /\ at[f] = "rest"
  /\ at' = [at EXCEPT ![f] = "await"]
  /\ ClearSignal(f) /\ audio' = audio \union {f}
  /\ heard' = IF state[Leader] = "recording" THEN heard \union {f} ELSE heard \ {f}
  /\ UNCHANGED <<role, state, netVars, leaderVars, observed, accepted, joined, late>>

\* Phase 1 of the wait: no leader has been observed yet.
AwaitObservation(f) ==
  /\ at[f] = "await" /\ Watches(f) /\ observed[f] = None
  /\ \E g \in Match : observed' = [observed EXCEPT ![f] = g]
  /\ Advertise(f)
  /\ UNCHANGED <<role, state, at, ready, plane, timer, leaderVars, signal, audio, accepted, joined,
                 late, heard>>

\* Phase 2: poll GET /health of the host it observed, or be told by a POST.
Reports(g, what) == g \in plane /\ state[g] = what
StaticReady(f, what) == role[f] = "static" /\ Reports(Leader, what)
ObservedReady(f, what) ==
  /\ Watches(f) /\ observed[f] # None
  /\ Reports(observed[f], what) \/ (what = "recording" /\ f \in signal)
Ready(f, what) == StaticReady(f, what) \/ ObservedReady(f, what)

\* The wait ends, with a leader that records or with one that "stopped" before, and
\* either way the follower prepares; GET /session/config of a leader that never
\* posted to itself is 404, and nothing is applied.
AwaitLeader(f) ==
  /\ at[f] = "await"
  /\ \/ Ready(f, "recording") /\ late' = late \ {f}
     \/ Ready(f, "stopped") /\ late' = late \union {f}
  /\ at' = [at EXCEPT ![f] = "begin"] /\ state' = [state EXCEPT ![f] = "preparing"]
  /\ observed' = IF role[f] = "static" THEN [observed EXCEPT ![f] = Leader] ELSE observed
  /\ Advertise(f)
  /\ UNCHANGED <<role, ready, plane, timer, leaderVars, signal, audio, accepted, joined, heard>>

AwaitTimeout(f) ==
  /\ "timeout" \in Faults /\ at[f] = "await"
  /\ at' = [at EXCEPT ![f] = "rest"]
  /\ UNCHANGED <<role, state, netVars, leaderVars, followerVars, heard>>

\* An advertiser that is up broadcasts the new status.
AdvertIs(h, status) ==
  advert' = [advert EXCEPT ![h] = IF @ = "none" THEN @ ELSE status]

\* The rest of start().
FollowerBegin(f) ==
  /\ at[f] = "begin"
  /\ at' = [at EXCEPT ![f] = "rest"]
  /\ state' = [state EXCEPT ![f] = "recording"]
  /\ AdvertIs(f, "recording")
  /\ joined' = IF state[Leader] = "recording" THEN joined \union {f} ELSE joined \ {f}
  /\ late' = late \ {f}
  /\ UNCHANGED <<role, ready, plane, timer, leaderVars, observed, signal, audio, accepted, heard>>

\* wait_for_leader_stopped(): poll until the observed host is idle or stopped,
\* or does not answer.  A static follower polls the leader it was given.
Follow(f) ==
  /\ at[f] = "rest" /\ state[f] = "recording"
  /\ role[f] = "static" \/ observed[f] # None
  /\ at' = [at EXCEPT ![f] = "follow"]
  /\ UNCHANGED <<role, state, netVars, leaderVars, followerVars, heard>>

Followed(f) == IF role[f] = "static" THEN Leader ELSE observed[f]

LeaveFollow(f) ==
  /\ at' = [at EXCEPT ![f] = "released"]
  /\ UNCHANGED <<role, state, netVars, leaderVars, followerVars, heard>>
Released(f) ==
  /\ at[f] = "follow"
  /\ Followed(f) \notin plane \/ state[Followed(f)] \in {"stopped", "idle"}
  /\ LeaveFollow(f)

\* One poll that fails counts like a control plane that is gone.
Misled(f) == "network" \in Faults /\ at[f] = "follow" /\ LeaveFollow(f)

\* stop() of a host that was connected before: the advert says so, the session is
\* connected again and its control plane is given its last minutes.
\* (ArmNothing: the timer forgotten.)
ArmNothing(h) == UNCHANGED timer
ArmKeepAlive(h) == timer' = timer \union (plane \intersect {h})
StopHost(h) ==
  /\ state' = [state EXCEPT ![h] = "connected"] /\ at' = [at EXCEPT ![h] = "rest"]
  /\ AdvertIs(h, "stopped")
  /\ ArmKeepAlive(h)

FollowerStop(f) ==
  /\ state[f] = "recording" /\ at[f] \in {"rest", "released"}
  /\ StopHost(f) /\ joined' = joined \ {f}
  /\ UNCHANGED <<role, ready, plane, leaderVars, observed, signal, audio, accepted, late, heard>>

-----------------------------------------------------------------------------
\* The leader records

LeaderConnect ==
  /\ state[Leader] \in {"idle", "stopped"} /\ at[Leader] = "rest"
  /\ state' = [state EXCEPT ![Leader] = "connected"]
  /\ UNCHANGED <<role, at, netVars, leaderVars, followerVars, heard>>

\* disconnect(): adverts and control plane stay as they are.
LeaderDisconnect ==
  /\ state[Leader] \in {"connected", "stopped"} /\ at[Leader] = "rest"
  /\ state' = [state EXCEPT ![Leader] = "idle"]
  /\ UNCHANGED <<role, at, netVars, leaderVars, followerVars, heard>>

\* start(), connecting first where that was left to it.
LeaderStart ==
  /\ state[Leader] \in {"idle", "stopped", "connected"} /\ at[Leader] = "rest"
  /\ take < MaxTake
  /\ at' = [at EXCEPT ![Leader] = "begin"]
  /\ state' = [state EXCEPT ![Leader] = "preparing"]
  /\ oneShot' = (state[Leader] # "connected")
  /\ accepted' = {} /\ joined' = {}
  /\ UNCHANGED <<role, netVars, invited, todo, rejected, take, left, kept, aborted,
                 observed, signal, audio, late, heard>>

\* The streams record; only then are the followers told.
LeaderBegin ==
  /\ at[Leader] = "begin"
  /\ left' = TRUE
  /\ state' = [state EXCEPT ![Leader] = "recording"]
  /\ at' = [at EXCEPT ![Leader] = "discover"] /\ take' = take + 1
  /\ heard' = Followers
  /\ UNCHANGED <<role, netVars, invited, todo, rejected, oneShot, kept, aborted, followerVars>>

\* _discover_followers_in_preparing, from whatever the browser last saw.
Discovered == IF StaticPeers THEN Followers ELSE ready

Discover ==
  /\ at[Leader] = "discover"
  /\ at' = [at EXCEPT ![Leader] = "post"]
  /\ invited' = Discovered /\ todo' = Discovered /\ rejected' = FALSE
  /\ ready' = IF advert[Leader] = "none" THEN {} ELSE ready
  /\ UNCHANGED <<role, state, advert, plane, timer, oneShot, take, left, kept, aborted,
                 followerVars, heard>>

\* One POST /session/config.  The follower checks the token against its session
\* id, answering 503 as long as it knows none, and what it must be able to
\* record against the streams its own start() noted.
Capable(f) == f \in audio
Accepts(f) == f \in plane /\ KnowsSession(f) /\ Capable(f)
\* The config is kept, and whoever waits in start() is woken.
Apply(f) ==
  /\ signal' = signal \union {f}
  /\ accepted' = accepted \union {f}
Delivered(f) == IF Accepts(f) THEN Apply(f) ELSE UNCHANGED <<signal, accepted>>

\* Plausible slip: only an answer can reject, an error of the network is skipped.
PostIgnoringErrors(f) ==
  \/ Delivered(f) /\ rejected' = (rejected \/ (f \in plane /\ ~Accepts(f)))
  \/ "network" \in Faults /\ UNCHANGED <<signal, accepted, rejected>>
PostConfig(f) ==
  \/ Delivered(f) /\ rejected' = (rejected \/ ~Accepts(f))
  \/ /\ "network" \in Faults
     /\ Delivered(f) \/ UNCHANGED <<signal, accepted>>
     /\ rejected' = TRUE

Post(f) ==
  /\ at[Leader] = "post" /\ f \in todo
  /\ PostConfig(f) /\ todo' = todo \ {f}
  /\ UNCHANGED <<role, state, at, netVars, invited, oneShot, take, left, kept, aborted,
                 observed, audio, joined, late, heard>>

\* Every follower accepted: the advert says "recording" and start() returns.
Announce ==
  /\ at[Leader] = "post" /\ todo = {} /\ ~rejected
  /\ at' = [at EXCEPT ![Leader] = "rest"]
  /\ AdvertIs(Leader, "recording")
  /\ UNCHANGED <<role, state, ready, plane, timer, leaderVars, followerVars, heard>>

\* A one-shot call takes the leader off the network again (_stop_discovery_on_failure).
CloseDiscovery == advert' = [advert EXCEPT ![Leader] = "none"] /\ ready' = {}

\* One did not: the leader stops its streams, leaves the directory, and nobody
\* tells the followers that accepted.
DistributeRollback ==
  /\ at[Leader] = "post" /\ todo = {} /\ rejected
  /\ at' = [at EXCEPT ![Leader] = "rest"]
  /\ IF oneShot
     THEN /\ state' = [state EXCEPT ![Leader] = "idle"] /\ CloseDiscovery
          /\ plane' = plane \ {Leader} /\ timer' = timer \ {Leader}
     ELSE state' = [state EXCEPT ![Leader] = "connected"] /\ UNCHANGED netVars
  /\ oneShot' = FALSE /\ aborted' = TRUE /\ invited' = {} /\ rejected' = FALSE
  /\ UNCHANGED <<role, todo, take, left, kept, followerVars, heard>>

\* stop(): a one-shot leader lands in "stopped", off the network but for its control
\* plane, which answers until the timer runs out.
LeaderStop ==
  /\ state[Leader] = "recording" /\ at[Leader] = "rest"
  /\ IF oneShot
     THEN /\ state' = [state EXCEPT ![Leader] = "stopped"] /\ CloseDiscovery
          /\ ArmKeepAlive(Leader) /\ UNCHANGED at
     ELSE StopHost(Leader) /\ UNCHANGED ready
  /\ oneShot' = FALSE
  /\ left' = FALSE /\ kept' = kept \union {take} /\ invited' = {}
  /\ UNCHANGED <<role, plane, todo, rejected, take, aborted, followerVars, heard>>

\* collect_from_followers(), called as its text asks, after stop(): whatever is
\* in _output_dir is copied, and then the whole directory of the host removed.
\* What it fetches from the followers changes nothing on their side.
CopyLeaderFiles ==
  IF left
  THEN kept' = {} /\ left' = FALSE
  ELSE UNCHANGED <<kept, left>>

Collect ==
  /\ take > 0 /\ state[Leader] \in {"connected", "stopped", "idle"} /\ at[Leader] = "rest"
  /\ CopyLeaderFiles
  /\ UNCHANGED <<role, state, at, netVars, invited, todo, rejected, oneShot, take, aborted,
                 followerVars, heard>>

-----------------------------------------------------------------------------
FollowerStep(f) ==
  AwaitObservation(f) \/ AwaitLeader(f) \/ FollowerBegin(f) \/ Released(f)
LeaderStep ==
  LeaderBegin \/ Discover \/ (\E f \in Followers : Post(f)) \/ Announce \/ DistributeRollback
Environment(f) ==
  \/ FollowerStart(f) \/ Follow(f) \/ FollowerStop(f)
  \/ AwaitTimeout(f) \/ Misled(f) \/ Observe(f)

Next ==
  \/ \E f \in Followers : FollowerStep(f) \/ Environment(f) \/ Refresh(f) \/ RefreshLate(f)
  \/ LeaderStep \/ LeaderConnect \/ LeaderDisconnect \/ LeaderStart \/ LeaderStop \/ Collect
  \/ \E h \in Hosts : KeepAliveExpires(h) \/ SessionDelete(h) \/ Exit(h)

Spec == Init /\ [][Next]_vars

\* A call that has begun goes on, its waits are bounded polls, and a timer
\* runs out.  Operators and the network owe nothing.
FairSpec ==
  /\ Spec
  /\ \A f \in Followers : WF_vars(FollowerStep(f))
  /\ WF_vars(LeaderStep)
  /\ \A h \in Hosts : WF_vars(KeepAliveExpires(h))

-----------------------------------------------------------------------------
TypeOK ==
  /\ role \in Roles
  /\ state \in [Hosts -> States] /\ at \in [Hosts -> Steps]
  /\ advert \in [Hosts -> Adverts] /\ ready \subseteq Followers
  /\ plane \subseteq Hosts /\ timer \subseteq plane
  /\ observed \in [Followers -> Hosts \union {None}]
  /\ signal \subseteq Followers /\ audio \subseteq Followers /\ heard \subseteq Followers
  /\ invited \subseteq Followers /\ todo \subseteq invited /\ rejected \in BOOLEAN
  /\ take \in 0..MaxTake /\ kept \subseteq 1..MaxTake
  /\ accepted \subseteq Followers /\ joined \subseteq Followers
  /\ oneShot \in BOOLEAN /\ left \in BOOLEAN /\ aborted \in BOOLEAN
  /\ late \subseteq Followers

\* Whose word a follower takes: its leader's, or that of whoever it observed.
Listens(f) == role[f] = "static" \/ observed[f] = Leader \/ f \in signal

\* A follower that listens to the leader begins only if the leader recorded since its
\* start() was called, or if it found the leader stopped after a take: a wake-up left
\* from an earlier take must not let it run ahead (orchestrator.py, start() and
\* _wait_for_leader_recording_state).
BeginsWithLeader ==
  \A f \in Followers :
    at[f] = "begin" /\ Listens(f) => f \in heard \/ (f \in late /\ take > 0)

\* A follower that finds its leader stopped stops as well and records no take of its
\* own (_wait_for_leader_recording_state: "let the follower stop").
NeverRecordsAlone ==
  \A f \in Followers : at[f] = "begin" /\ Listens(f) => f \in heard

\* The leader's start() returns into a recording only if every follower it
\* discovered has the config of this very take: one that was unreachable or
\* refused aborts the take (_distribute_config_to_followers).
TakeIsUnanimous ==
  state[Leader] = "recording" /\ at[Leader] = "rest" => invited \subseteq accepted

\* Once the leader has stopped for good, a follower that waits for it to stop
\* is released, be it by the keep-alive timer; unless a distribution was rolled
\* back, which no follower hears of (wait_for_leader_stopped).
StopPropagates ==
  <>[](state[Leader] # "recording" /\ ~aborted) =>
    \A f \in Followers : []<>(at[f] # "follow" \/ Followed(f) # Leader)

\* wait_for_leader_stopped() returns after the take it belongs to is over
\* ("Block until the observed leader advertises status=stopped").
ReleasedAfterTheTake ==
  \A f \in Followers :
    at[f] = "released" /\ Followed(f) = Leader /\ f \in joined => state[Leader] # "recording"

\* The host a follower takes for the leader is the leader (observed_leader).
ObservesTheLeader == \A f \in Followers : observed[f] \in {None, Leader}

\* Collecting the files of a session never loses a finished take
\* (_copy_leader_files_to_episode_dir: removed "after a successful copy").
FinishedTakesSurvive == [][kept \subseteq kept']_vars
=============================================================================
