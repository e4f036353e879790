----------------------------- MODULE ControlProofs -----------------------------
(***************************************************************************)
(* Proofs about the two ways a session is controlled from outside: by the  *)
(* leader of a cluster (Cluster), for every number of followers, of every  *)
(* kind, and of takes; and by the browsers of the viewer (Viewer), for     *)
(* every number of them and of commands.  Every fault may happen.          *)
(*                                                                         *)
(* That nobody begins ahead of the leader rests on what a follower can     *)
(* have heard: the leader only speaks while it records (Leading), and a    *)
(* wake-up of an earlier take is dropped when start() is called (Heard).   *)
(* That a take is unanimous rests on the bookkeeping of the distribution:  *)
(* who was posted to and not refused has accepted (Distributed).           *)
(*                                                                         *)
(* That a stop is answered truthfully is a matter of where its handler is: *)
(* nothing was returned before the session's call ended, and what is told  *)
(* from then on is what it returned (Answering).  That launch() leaves no  *)
(* device held rests on who may hold the session's lock: a handler inside  *)
(* its call, or close() while it stops or disconnects (Holding), and no    *)
(* handler at all once the loop has drained (Quiet).                       *)
(***************************************************************************)
EXTENDS Cluster, Viewer, TLAPS

-----------------------------------------------------------------------------
\* The cluster

\* The phases of the leader's start() and stop().
Leading ==
  /\ at[Leader] \in {"rest", "begin", "discover", "post"}
  /\ at[Leader] = "begin" => state[Leader] = "preparing" /\ take < MaxTake
  /\ at[Leader] \in {"discover", "post"} => state[Leader] = "recording"
  /\ state[Leader] \in {"recording", "stopped"} => take # 0
  /\ state[Leader] = "recording" /\ at[Leader] = "rest" => todo = {}

\* Whoever was posted to has accepted, as long as nobody is known to have refused.
Distributed ==
  /\ at[Leader] = "post" /\ ~rejected => invited \ todo \subseteq accepted
  /\ TakeIsUnanimous

\* What a follower in start() can have heard.
Heard ==
  /\ state[Leader] = "recording" => Followers \subseteq heard
  /\ \A f \in Followers : at[f] \in {"await", "begin"} /\ f \in signal => f \in heard
  /\ \A f \in Followers : at[f] = "begin" => role[f] = "static" \/ observed[f] # None
  /\ BeginsWithLeader

CInv == TypeOK /\ Leading /\ Distributed /\ Heard

-----------------------------------------------------------------------------
LEMMA ClusterInit == Init => CInv
<1> SUFFICES ASSUME Init PROVE CInv
  OBVIOUS
<1>1. TypeOK
  <2>1. take = 0 /\ MaxTake \in Nat \ {0} /\ role \in Roles
    BY MaxTakeAssumption DEF Init
  <2>2. state \in [Hosts -> States] /\ at \in [Hosts -> Steps] /\ advert \in [Hosts -> Adverts]
    BY DEF Init, States, Steps, Adverts
  <2>3. observed \in [Followers -> Hosts \union {None}] /\ take \in 0..MaxTake
    BY <2>1 DEF Init
  <2>4. rejected \in BOOLEAN /\ left \in BOOLEAN /\ aborted \in BOOLEAN
    BY Zenon DEF Init
  <2> QED
    BY <2>1, <2>2, <2>3, <2>4 DEF Init, TypeOK
<1>2. Leading /\ Distributed /\ Heard
  BY HostsAssumption
     DEF Init, Leading, Distributed, Heard, TakeIsUnanimous, BeginsWithLeader, Listens, Hosts
<1> QED
  BY <1>1, <1>2 DEF CInv

LEMMA TypeOKStep ==
  ASSUME TypeOK, Leading, [Next]_vars PROVE TypeOK'
<1> USE HostsAssumption, MaxTakeAssumption DEF leaderVars, followerVars, netVars, TypeOK,
         Leading, States, Steps, Adverts, Hosts
<1>1. ASSUME NEW f \in Followers, AwaitObservation(f) PROVE TypeOK'
  BY <1>1 DEF AwaitObservation, Advertise, Match
<1>2. ASSUME NEW f \in Followers, AwaitLeader(f) PROVE TypeOK'
  BY <1>2 DEF AwaitLeader, Advertise
<1>3. ASSUME NEW f \in Followers, FollowerBegin(f) PROVE TypeOK'
  BY <1>3 DEF FollowerBegin, AdvertIs
<1>4. ASSUME NEW f \in Followers, Released(f) PROVE TypeOK'
  BY <1>4 DEF Released, LeaveFollow
<1>5. ASSUME NEW f \in Followers, FollowerStart(f) PROVE TypeOK'
  BY <1>5 DEF FollowerStart, ClearSignal
<1>6. ASSUME NEW f \in Followers, Follow(f) PROVE TypeOK'
  BY <1>6 DEF Follow
<1>7. ASSUME NEW f \in Followers, FollowerStop(f) PROVE TypeOK'
  BY <1>7 DEF FollowerStop, StopHost, AdvertIs, ArmKeepAlive
<1>8. ASSUME NEW f \in Followers, AwaitTimeout(f) PROVE TypeOK'
  BY <1>8 DEF AwaitTimeout
<1>9. ASSUME NEW f \in Followers, Misled(f) PROVE TypeOK'
  BY <1>9 DEF Misled, LeaveFollow
<1>10. ASSUME NEW f \in Followers, Observe(f) PROVE TypeOK'
  BY <1>10 DEF Observe, Advertise, Match
<1>11. ASSUME NEW f \in Followers, Refresh(f) PROVE TypeOK'
  BY <1>11 DEF Refresh
<1>12. ASSUME NEW f \in Followers, RefreshLate(f) PROVE TypeOK'
  BY <1>12 DEF RefreshLate
<1>13. CASE LeaderBegin
  BY <1>13 DEF LeaderBegin
<1>14. CASE Discover
  BY <1>14 DEF Discover, Discovered
<1>15. ASSUME NEW f \in Followers, Post(f) PROVE TypeOK'
  <2>1. signal' \subseteq Followers /\ accepted' \subseteq Followers
    BY <1>15 DEF Post, PostConfig, Delivered, Apply
  <2>2. rejected' \in BOOLEAN
    BY <1>15, Zenon DEF Post, PostConfig
  <2> QED
    BY <1>15, <2>1, <2>2 DEF Post
<1>16. CASE Announce
  BY <1>16 DEF Announce, AdvertIs
<1>17. CASE DistributeRollback
  <2>1. oneShot' \in BOOLEAN /\ aborted' \in BOOLEAN /\ rejected' \in BOOLEAN
    BY <1>17, Zenon DEF DistributeRollback
  <2>2. state' \in [Hosts -> States] /\ advert' \in [Hosts -> Adverts]
    BY <1>17 DEF DistributeRollback, CloseDiscovery
  <2>3. plane' \subseteq Hosts /\ timer' \subseteq plane' /\ ready' \subseteq Followers
    BY <1>17 DEF DistributeRollback, CloseDiscovery
  <2> QED
    BY <1>17, <2>1, <2>2, <2>3 DEF DistributeRollback
<1>18. CASE LeaderStart
  <2>1. oneShot' \in BOOLEAN
    BY <1>18, Zenon DEF LeaderStart
  <2> QED
    BY <1>18, <2>1 DEF LeaderStart
<1>19. CASE LeaderStop
  <2>1. take \in 1..MaxTake
    BY <1>19 DEF LeaderStop
  <2>2. kept' \subseteq 1..MaxTake /\ todo = {} /\ left' \in BOOLEAN
    BY <1>19, <2>1 DEF LeaderStop
  <2>3. advert' \in [Hosts -> Adverts] /\ state' \in [Hosts -> States]
        /\ at' \in [Hosts -> Steps]
    BY <1>19 DEF LeaderStop, StopHost, AdvertIs, ArmKeepAlive, CloseDiscovery
  <2>4. timer' \subseteq plane' /\ plane' \subseteq Hosts /\ ready' \subseteq Followers
    BY <1>19 DEF LeaderStop, StopHost, ArmKeepAlive, CloseDiscovery
  <2> QED
    BY <1>19, <2>2, <2>3, <2>4 DEF LeaderStop
<1>20. CASE Collect
  BY <1>20 DEF Collect, CopyLeaderFiles
<1>21. ASSUME NEW h \in Hosts, KeepAliveExpires(h) PROVE TypeOK'
  BY <1>21 DEF KeepAliveExpires
<1>22. ASSUME NEW h \in Hosts, SessionDelete(h) PROVE TypeOK'
  BY <1>22 DEF SessionDelete
<1>23. ASSUME NEW h \in Hosts, Exit(h) PROVE TypeOK'
  BY <1>23 DEF Exit
<1>24. CASE UNCHANGED vars
  BY <1>24 DEF vars
<1>25. CASE LeaderConnect
  BY <1>25 DEF LeaderConnect
<1>26. CASE LeaderDisconnect
  BY <1>26 DEF LeaderDisconnect
<1> QED
  BY <1>1, <1>2, <1>3, <1>4, <1>5, <1>6, <1>7, <1>8, <1>9, <1>10, <1>11, <1>12, <1>13,
     <1>14, <1>15, <1>16, <1>17, <1>18, <1>19, <1>20, <1>21, <1>22, <1>23, <1>24, <1>25, <1>26
     DEF Next, FollowerStep, LeaderStep, Environment

LEMMA LeadingStep ==
  ASSUME TypeOK, Leading, [Next]_vars PROVE Leading'
<1> USE HostsAssumption, MaxTakeAssumption DEF leaderVars, followerVars, netVars, TypeOK,
         Leading, Hosts
<1>1. ASSUME NEW f \in Followers, AwaitObservation(f) PROVE Leading'
  BY <1>1 DEF AwaitObservation, Advertise
<1>2. ASSUME NEW f \in Followers, AwaitLeader(f) PROVE Leading'
  BY <1>2 DEF AwaitLeader, Advertise
<1>3. ASSUME NEW f \in Followers, FollowerBegin(f) PROVE Leading'
  BY <1>3 DEF FollowerBegin, AdvertIs
<1>4. ASSUME NEW f \in Followers, Released(f) PROVE Leading'
  BY <1>4 DEF Released, LeaveFollow
<1>5. ASSUME NEW f \in Followers, FollowerStart(f) PROVE Leading'
  BY <1>5 DEF FollowerStart, ClearSignal
<1>6. ASSUME NEW f \in Followers, Follow(f) PROVE Leading'
  BY <1>6 DEF Follow
<1>7. ASSUME NEW f \in Followers, FollowerStop(f) PROVE Leading'
  BY <1>7 DEF FollowerStop, StopHost, AdvertIs, ArmKeepAlive
<1>8. ASSUME NEW f \in Followers, AwaitTimeout(f) PROVE Leading'
  BY <1>8 DEF AwaitTimeout
<1>9. ASSUME NEW f \in Followers, Misled(f) PROVE Leading'
  BY <1>9 DEF Misled, LeaveFollow
<1>10. ASSUME NEW f \in Followers, Observe(f) PROVE Leading'
  BY <1>10 DEF Observe, Advertise
<1>11. ASSUME NEW f \in Followers, Refresh(f) PROVE Leading'
  BY <1>11 DEF Refresh
<1>12. ASSUME NEW f \in Followers, RefreshLate(f) PROVE Leading'
  BY <1>12 DEF RefreshLate
<1>13. CASE LeaderBegin
  BY <1>13 DEF LeaderBegin
<1>14. CASE Discover
  BY <1>14 DEF Discover, Discovered
<1>15. ASSUME NEW f \in Followers, Post(f) PROVE Leading'
  BY <1>15 DEF Post, PostConfig, Delivered, Apply
<1>16. CASE Announce
  BY <1>16 DEF Announce, AdvertIs
<1>17. CASE DistributeRollback
  BY <1>17 DEF DistributeRollback, CloseDiscovery
<1>18. CASE LeaderStart
  BY <1>18 DEF LeaderStart
<1>19. CASE LeaderStop
  BY <1>19 DEF LeaderStop, StopHost, AdvertIs, ArmKeepAlive, CloseDiscovery
<1>20. CASE Collect
  BY <1>20 DEF Collect, CopyLeaderFiles
<1>21. ASSUME NEW h \in Hosts, KeepAliveExpires(h) PROVE Leading'
  BY <1>21 DEF KeepAliveExpires
<1>22. ASSUME NEW h \in Hosts, SessionDelete(h) PROVE Leading'
  BY <1>22 DEF SessionDelete
<1>23. ASSUME NEW h \in Hosts, Exit(h) PROVE Leading'
  BY <1>23 DEF Exit
<1>24. CASE UNCHANGED vars
  BY <1>24 DEF vars
<1>25. CASE LeaderConnect
  BY <1>25 DEF LeaderConnect
<1>26. CASE LeaderDisconnect
  BY <1>26 DEF LeaderDisconnect
<1> QED
  BY <1>1, <1>2, <1>3, <1>4, <1>5, <1>6, <1>7, <1>8, <1>9, <1>10, <1>11, <1>12, <1>13,
     <1>14, <1>15, <1>16, <1>17, <1>18, <1>19, <1>20, <1>21, <1>22, <1>23, <1>24, <1>25, <1>26
     DEF Next, FollowerStep, LeaderStep, Environment

LEMMA DistributedStep ==
  ASSUME TypeOK, Leading, Distributed, [Next]_vars PROVE Distributed'
<1> USE HostsAssumption DEF leaderVars, followerVars, netVars, TypeOK, Leading, Distributed,
         TakeIsUnanimous, Hosts
<1>1. ASSUME NEW f \in Followers, AwaitObservation(f) PROVE Distributed'
  BY <1>1 DEF AwaitObservation, Advertise
<1>2. ASSUME NEW f \in Followers, AwaitLeader(f) PROVE Distributed'
  BY <1>2 DEF AwaitLeader, Advertise
<1>3. ASSUME NEW f \in Followers, FollowerBegin(f) PROVE Distributed'
  BY <1>3 DEF FollowerBegin, AdvertIs
<1>4. ASSUME NEW f \in Followers, Released(f) PROVE Distributed'
  BY <1>4 DEF Released, LeaveFollow
<1>5. ASSUME NEW f \in Followers, FollowerStart(f) PROVE Distributed'
  BY <1>5 DEF FollowerStart, ClearSignal
<1>6. ASSUME NEW f \in Followers, Follow(f) PROVE Distributed'
  BY <1>6 DEF Follow
<1>7. ASSUME NEW f \in Followers, FollowerStop(f) PROVE Distributed'
  BY <1>7 DEF FollowerStop, StopHost, AdvertIs, ArmKeepAlive
<1>8. ASSUME NEW f \in Followers, AwaitTimeout(f) PROVE Distributed'
  BY <1>8 DEF AwaitTimeout
<1>9. ASSUME NEW f \in Followers, Misled(f) PROVE Distributed'
  BY <1>9 DEF Misled, LeaveFollow
<1>10. ASSUME NEW f \in Followers, Observe(f) PROVE Distributed'
  BY <1>10 DEF Observe, Advertise
<1>11. ASSUME NEW f \in Followers, Refresh(f) PROVE Distributed'
  BY <1>11 DEF Refresh
<1>12. ASSUME NEW f \in Followers, RefreshLate(f) PROVE Distributed'
  BY <1>12 DEF RefreshLate
<1>13. CASE LeaderBegin
  BY <1>13 DEF LeaderBegin
<1>14. CASE Discover
  BY <1>14 DEF Discover, Discovered
<1>15. ASSUME NEW f \in Followers, Post(f) PROVE Distributed'
  BY <1>15 DEF Post, PostConfig, Delivered, Apply
<1>16. CASE Announce
  BY <1>16 DEF Announce, AdvertIs
<1>17. CASE DistributeRollback
  BY <1>17 DEF DistributeRollback, CloseDiscovery
<1>18. CASE LeaderStart
  BY <1>18 DEF LeaderStart
<1>19. CASE LeaderStop
  BY <1>19 DEF LeaderStop, StopHost, AdvertIs, ArmKeepAlive, CloseDiscovery
<1>20. CASE Collect
  BY <1>20 DEF Collect, CopyLeaderFiles
<1>21. ASSUME NEW h \in Hosts, KeepAliveExpires(h) PROVE Distributed'
  BY <1>21 DEF KeepAliveExpires
<1>22. ASSUME NEW h \in Hosts, SessionDelete(h) PROVE Distributed'
  BY <1>22 DEF SessionDelete
<1>23. ASSUME NEW h \in Hosts, Exit(h) PROVE Distributed'
  BY <1>23 DEF Exit
<1>24. CASE UNCHANGED vars
  BY <1>24 DEF vars
<1>25. CASE LeaderConnect
  BY <1>25 DEF LeaderConnect
<1>26. CASE LeaderDisconnect
  BY <1>26 DEF LeaderDisconnect
<1> QED
  BY <1>1, <1>2, <1>3, <1>4, <1>5, <1>6, <1>7, <1>8, <1>9, <1>10, <1>11, <1>12, <1>13,
     <1>14, <1>15, <1>16, <1>17, <1>18, <1>19, <1>20, <1>21, <1>22, <1>23, <1>24, <1>25, <1>26
     DEF Next, FollowerStep, LeaderStep, Environment

LEMMA HeardStep ==
  ASSUME TypeOK, Leading, Heard, [Next]_vars PROVE Heard'
<1> USE HostsAssumption DEF leaderVars, followerVars, netVars, TypeOK, Leading, Heard,
         BeginsWithLeader, Listens, Hosts
<1>1. ASSUME NEW f \in Followers, AwaitObservation(f) PROVE Heard'
  BY <1>1 DEF AwaitObservation, Advertise, Match
<1>2. ASSUME NEW f \in Followers, AwaitLeader(f) PROVE Heard'
  BY <1>2 DEF AwaitLeader, Advertise, Ready, StaticReady, ObservedReady, Reports,
               Watches
<1>3. ASSUME NEW f \in Followers, FollowerBegin(f) PROVE Heard'
  BY <1>3 DEF FollowerBegin, AdvertIs
<1>4. ASSUME NEW f \in Followers, Released(f) PROVE Heard'
  BY <1>4 DEF Released, LeaveFollow
<1>5. ASSUME NEW f \in Followers, FollowerStart(f) PROVE Heard'
  BY <1>5 DEF FollowerStart, ClearSignal
<1>6. ASSUME NEW f \in Followers, Follow(f) PROVE Heard'
  BY <1>6 DEF Follow
<1>7. ASSUME NEW f \in Followers, FollowerStop(f) PROVE Heard'
  BY <1>7 DEF FollowerStop, StopHost, AdvertIs, ArmKeepAlive
<1>8. ASSUME NEW f \in Followers, AwaitTimeout(f) PROVE Heard'
  BY <1>8 DEF AwaitTimeout
<1>9. ASSUME NEW f \in Followers, Misled(f) PROVE Heard'
  BY <1>9 DEF Misled, LeaveFollow
<1>10. ASSUME NEW f \in Followers, Observe(f) PROVE Heard'
  BY <1>10 DEF Observe, Advertise, Match, Watches
<1>11. ASSUME NEW f \in Followers, Refresh(f) PROVE Heard'
  BY <1>11 DEF Refresh
<1>12. ASSUME NEW f \in Followers, RefreshLate(f) PROVE Heard'
  BY <1>12 DEF RefreshLate
<1>13. CASE LeaderBegin
  BY <1>13 DEF LeaderBegin
<1>14. CASE Discover
  BY <1>14 DEF Discover, Discovered
<1>15. ASSUME NEW f \in Followers, Post(f) PROVE Heard'
  BY <1>15 DEF Post, PostConfig, Delivered, Apply
<1>16. CASE Announce
  BY <1>16 DEF Announce, AdvertIs
<1>17. CASE DistributeRollback
  BY <1>17 DEF DistributeRollback, CloseDiscovery
<1>18. CASE LeaderStart
  BY <1>18 DEF LeaderStart
<1>19. CASE LeaderStop
  BY <1>19 DEF LeaderStop, StopHost, AdvertIs, ArmKeepAlive, CloseDiscovery
<1>20. CASE Collect
  BY <1>20 DEF Collect, CopyLeaderFiles
<1>21. ASSUME NEW h \in Hosts, KeepAliveExpires(h) PROVE Heard'
  BY <1>21 DEF KeepAliveExpires
<1>22. ASSUME NEW h \in Hosts, SessionDelete(h) PROVE Heard'
  BY <1>22 DEF SessionDelete
<1>23. ASSUME NEW h \in Hosts, Exit(h) PROVE Heard'
  BY <1>23 DEF Exit
<1>24. CASE UNCHANGED vars
  BY <1>24 DEF vars
<1>25. CASE LeaderConnect
  BY <1>25 DEF LeaderConnect
<1>26. CASE LeaderDisconnect
  BY <1>26 DEF LeaderDisconnect
<1> QED
  BY <1>1, <1>2, <1>3, <1>4, <1>5, <1>6, <1>7, <1>8, <1>9, <1>10, <1>11, <1>12, <1>13,
     <1>14, <1>15, <1>16, <1>17, <1>18, <1>19, <1>20, <1>21, <1>22, <1>23, <1>24, <1>25, <1>26
     DEF Next, FollowerStep, LeaderStep, Environment

-----------------------------------------------------------------------------
\* The inductive invariant: the phases of the leader, what it knows of the followers
\* it posted to, and what a follower in start() can have heard (orchestrator.py:
\* start, _distribute_config_to_followers, _wait_for_leader_recording_state).
THEOREM ClusterInvariance == Spec => []CInv
<1>1. CInv /\ [Next]_vars => CInv'
  BY TypeOKStep, LeadingStep, DistributedStep, HeardStep DEF CInv
<1> QED
  BY <1>1, ClusterInit, PTL DEF Spec

\* The hosts' books keep their types; above all, a timer is armed only for a control
\* plane that is up, and the leader posts only to followers it discovered.
THEOREM ClusterTypeCorrect == Spec => []TypeOK
  BY ClusterInvariance, PTL DEF CInv

\* A follower begins with the leader, or on finding it stopped, never on an old wake-up
\* (orchestrator.py: start clears _leader_recording_signal before it waits).
THEOREM FollowersBeginWithLeader == Spec => []BeginsWithLeader
  BY ClusterInvariance, PTL DEF CInv, Heard

\* A take goes on only if every follower the leader discovered has its config
\* (orchestrator.py: _distribute_config_to_followers raises otherwise).
THEOREM TakesAreUnanimous == Spec => []TakeIsUnanimous
  BY ClusterInvariance, PTL DEF CInv, Distributed

-----------------------------------------------------------------------------
\* The viewer

Places == {"listening", "saving", "calling", "inside", "raised", "done", "answering",
           "closing", "gone"}
Commands == {"none", "connect", "start", "stop", "cancel", "disconnect"}
Types ==
  /\ where \in [Handlers -> Places] /\ command \in [Handlers -> Commands]
  /\ returned \in [Handlers -> BOOLEAN] /\ told \in [Handlers -> {"none", "success", "error"}]

\* What a handler has been returned and has told, by where it is.
Answering ==
  /\ \A h \in Handlers :
       /\ where[h] \in {"saving", "calling", "inside", "raised"} => ~returned[h]
       /\ where[h] = "done" => returned[h]
       /\ where[h] = "answering" /\ command[h] = "stop" =>
            told[h] = IF returned[h] THEN "success" ELSE "error"
       /\ where[h] \in {"closing", "gone"} => command[h] = "none"
  /\ StopsAreAnswered

\* The lock is with the handler inside its call, or with close(); a session nobody
\* holds is at rest.
Resting == {"idle", "connected", "recording", "stopped"} \union Stranded
Holding ==
  /\ lock \in Handlers \union {"app", "none"}
  /\ \A h \in Handlers : where[h] = "inside" <=> lock = h
  /\ lock = "app" => app \in {"stopping", "releasing"}
  /\ lock = "none" => session \in Resting

\* Once launch()'s loop has drained, the session is close()'s alone.
Quiet ==
  Blocking =>
    /\ app \in {"stopping", "stopped", "releasing", "closed"} =>
         where["web"] = "listening" /\ \A c \in Clients : where[c] = "gone"
    /\ app = "stopping" => lock = "none" \/ session = "stopping"
    /\ app = "stopped" => lock = "none" /\ session # "recording"
    /\ app = "releasing" => session \in {"connected", "stopped"}
    /\ app = "closed" => lock = "none" /\ session \in {"idle"} \union Stranded

VInv == Types /\ Answering /\ Holding /\ Quiet

-----------------------------------------------------------------------------
LEMMA ViewerOpens == ViewerInit => VInv
<1> SUFFICES ASSUME ViewerInit PROVE VInv
  OBVIOUS
<1>1. Types
  BY DEF ViewerInit, Types, Places, Commands
<1>2. Answering /\ Holding /\ Quiet
  BY Assumption DEF ViewerInit, Answering, StopsAreAnswered, Holding, Resting, Stranded, Quiet,
               Handlers
<1> QED
  BY <1>1, <1>2 DEF VInv

\* A handler that goes on, ends, or answers.
LEMMA EndTypes ==
  ASSUME Types, NEW h \in Handlers, Ends(h) \/ Goes(h) PROVE Types'
<1> USE DEF Types, Places, Commands
<1>1. ASSUME NEW place \in {"listening", "closing"}, Over(h, place) PROVE Types'
  BY <1>1 DEF Over, Move, Take
<1>2. CASE Ends(h)
  BY <1>1, <1>2 DEF Ends
<1>3. CASE Goes(h)
  <2>1. CASE Move(h, "listening") /\ UNCHANGED <<command, returned, told>>
    BY <2>1 DEF Move
  <2> QED
    BY <1>1, <1>3, <2>1 DEF Goes
<1> QED
  BY <1>2, <1>3

LEMMA TellTypes ==
  ASSUME Types, NEW h \in Handlers, Tell(h, "error") \/ Tell(h, "success") PROVE Types'
  BY DEF Types, Places, Commands, Tell, Move

LEMMA TypesStep ==
  ASSUME Types, [ViewerNext]_viewerVars PROVE Types'
<1> USE  DEF browsers, handlers, orchestrator, rest, Types, Places, Commands, Handlers
<1>1. ASSUME NEW h \in Handlers, Saved(h) PROVE Types'
  BY Assumption, <1>1 DEF Saved, Move, Take, Over, Ends, Goes, Tell, CallRaised
<1>2. ASSUME NEW h \in Handlers, SavingBreaks(h) PROVE Types'
  <2>1. CASE Tell(h, "error")
    BY <2>1, TellTypes
  <2>2. CASE Ends(h)
    BY <2>2, EndTypes
  <2> QED
    BY <1>2, <2>1, <2>2 DEF SavingBreaks
<1>3. ASSUME NEW h \in Handlers, Answered(h) PROVE Types'
  <2>1. CASE Ends(h)
    BY <2>1, EndTypes
  <2>2. CASE Goes(h)
    BY <2>2, EndTypes
  <2> QED
    BY <1>3, <2>1, <2>2 DEF Answered
<1>4. ASSUME NEW h \in Handlers, AnswerBreaks(h) PROVE Types'
  <2>1. CASE Tell(h, "error")
    BY <2>1, TellTypes
  <2>2. CASE Ends(h)
    BY <2>2, EndTypes
  <2> QED
    BY <1>4, <2>1, <2>2 DEF AnswerBreaks
<1>5. ASSUME NEW h \in Handlers, Refused(h) PROVE Types'
  <2>1. CASE Tell(h, "error")
    BY <2>1, TellTypes
  <2>2. CASE Ends(h)
    BY <2>2, EndTypes
  <2> QED
    BY <1>5, <2>1, <2>2 DEF Refused, CallRaised
<1>6. ASSUME NEW h \in Handlers, Resume(h) PROVE Types'
  <2>1. CASE Tell(h, "error") \/ Tell(h, "success")
    BY <2>1, TellTypes
  <2>2. CASE Ends(h) \/ Goes(h)
    BY <2>2, EndTypes
  <2> QED
    BY <1>6, <2>1, <2>2 DEF Resume, CallRaised
<1>7. ASSUME NEW h \in Handlers, Enter(h) PROVE Types'
  BY Assumption, <1>7 DEF Enter, Move, Begin, Finish, Allowed, Doing, Leaves, App, Raises
<1>8. ASSUME NEW h \in Handlers, Return(h) PROVE Types'
  BY Assumption, <1>8 DEF Return, Move, Begin, Finish, Allowed, Doing, Leaves, App, Raises
<1>9. ASSUME NEW c \in Clients, Join(c) PROVE Types'
  BY Assumption, <1>9 DEF Join, Move, Take, Over, Ends, Goes, Tell, CallRaised
<1>10. ASSUME NEW c \in Clients, Leave(c) PROVE Types'
  BY Assumption, <1>10 DEF Leave
<1>11. ASSUME NEW c \in Clients, Receive(c) PROVE Types'
  BY Assumption, <1>11 DEF Receive, Move, Take, Over, Ends, Goes, Tell, CallRaised
<1>12. ASSUME NEW c \in Clients, Disconnected(c) PROVE Types'
  BY Assumption, <1>12 DEF Disconnected, Move, Take, Over, Ends, Goes, Tell, CallRaised
<1>13. ASSUME NEW c \in Clients, Close(c) PROVE Types'
  BY Assumption, <1>13 DEF Close, Move, Take, Over, Ends, Goes, Tell, CallRaised
<1>14. CASE Request
  <2>1. CASE Take("web", "start") /\ Move("web", "calling")
    BY <2>1 DEF Take, Move
  <2>2. CASE Take("web", "stop") /\ Move("web", "saving")
    BY <2>2 DEF Take, Move
  <2> QED
    BY <1>14, <2>1, <2>2 DEF Request
<1>15. CASE Tick
  BY Assumption, <1>15 DEF Tick
<1>16. CASE TickBegins
  BY Assumption, <1>16 DEF TickBegins
<1>17. CASE TickEnds
  BY Assumption, <1>17 DEF TickEnds
<1>18. CASE Block
  BY Assumption, <1>18 DEF Block
<1>19. CASE Unblock
  BY Assumption, <1>19 DEF Unblock
<1>20. CASE Shutdown
  BY Assumption, <1>20 DEF Shutdown
<1>21. CASE CloseStops
  BY Assumption, <1>21 DEF CloseStops, Begin, Finish, Allowed, Doing, Leaves, App, Raises,
         Drained
<1>22. CASE Stopping
  BY Assumption, <1>22 DEF Stopping, Begin, Finish, Allowed, Doing, Leaves, App, Raises,
         AfterStop
<1>23. CASE CloseReleases
  BY Assumption, <1>23 DEF CloseReleases, Begin, Finish, Allowed, Doing, Leaves, App, Raises
<1>24. CASE Releasing
  BY Assumption, <1>24 DEF Releasing, Begin, Finish, Allowed, Doing, Leaves, App, Raises
<1>25. CASE UNCHANGED viewerVars
  BY <1>25 DEF viewerVars
<1>26. ASSUME NEW h \in Handlers, Strand(h) PROVE Types'
  BY Assumption, <1>26 DEF Strand, Move
<1> QED
  BY <1>1, <1>2, <1>3, <1>4, <1>5, <1>6, <1>7, <1>8, <1>9, <1>10, <1>11, <1>12, <1>13,
     <1>14, <1>15, <1>16, <1>17, <1>18, <1>19, <1>20, <1>21, <1>22, <1>23, <1>24, <1>25,
     <1>26 DEF ViewerNext, HandlerStep, SessionStep, Connection, Countdowns, Closing

LEMMA AnsweringStep ==
  ASSUME Types, Answering, [ViewerNext]_viewerVars PROVE Answering'
<1> USE  DEF browsers, handlers, orchestrator, rest, Types, Answering, StopsAreAnswered,
         Handlers
<1>1. ASSUME NEW h \in Handlers, Saved(h) PROVE Answering'
  BY Assumption, <1>1 DEF Saved, Move, Take, Over, Ends, Goes, Tell, CallRaised
<1>2. ASSUME NEW h \in Handlers, SavingBreaks(h) PROVE Answering'
  BY Assumption, <1>2 DEF SavingBreaks, Move, Take, Over, Ends, Goes, Tell, CallRaised
<1>3. ASSUME NEW h \in Handlers, Answered(h) PROVE Answering'
  BY Assumption, <1>3 DEF Answered, Move, Take, Over, Ends, Goes, Tell, CallRaised
<1>4. ASSUME NEW h \in Handlers, AnswerBreaks(h) PROVE Answering'
  BY Assumption, <1>4 DEF AnswerBreaks, Move, Take, Over, Ends, Goes, Tell, CallRaised
<1>5. ASSUME NEW h \in Handlers, Refused(h) PROVE Answering'
  BY Assumption, <1>5 DEF Refused, Move, Take, Over, Ends, Goes, Tell, CallRaised
<1>6. ASSUME NEW h \in Handlers, Resume(h) PROVE Answering'
  BY Assumption, <1>6 DEF Resume, Move, Take, Over, Ends, Goes, Tell, CallRaised
<1>7. ASSUME NEW h \in Handlers, Enter(h) PROVE Answering'
  BY Assumption, <1>7 DEF Enter, Move, Begin, Finish, Allowed, Doing, Leaves, App, Raises
<1>8. ASSUME NEW h \in Handlers, Return(h) PROVE Answering'
  <2>1. PICK raised \in BOOLEAN :
         /\ returned' = [returned EXCEPT ![h] = ~raised]
         /\ Move(h, IF raised THEN "raised" ELSE "done") /\ UNCHANGED <<command, told>>
    BY <1>8 DEF Return, Raises
  <2>2. CASE raised
    BY <2>1, <2>2 DEF Move
  <2>3. CASE ~raised
    BY <2>1, <2>3 DEF Move
  <2> QED
    BY <2>2, <2>3
<1>9. ASSUME NEW c \in Clients, Join(c) PROVE Answering'
  BY Assumption, <1>9 DEF Join, Move, Take, Over, Ends, Goes, Tell, CallRaised
<1>10. ASSUME NEW c \in Clients, Leave(c) PROVE Answering'
  BY Assumption, <1>10 DEF Leave
<1>11. ASSUME NEW c \in Clients, Receive(c) PROVE Answering'
  BY Assumption, <1>11 DEF Receive, Move, Take, Over, Ends, Goes, Tell, CallRaised
<1>12. ASSUME NEW c \in Clients, Disconnected(c) PROVE Answering'
  BY Assumption, <1>12 DEF Disconnected, Move, Take, Over, Ends, Goes, Tell, CallRaised
<1>13. ASSUME NEW c \in Clients, Close(c) PROVE Answering'
  BY Assumption, <1>13 DEF Close, Move, Take, Over, Ends, Goes, Tell, CallRaised
<1>14. CASE Request
  BY Assumption, <1>14 DEF Request, Move, Take, Over, Ends, Goes, Tell, CallRaised
<1>15. CASE Tick
  BY Assumption, <1>15 DEF Tick
<1>16. CASE TickBegins
  BY Assumption, <1>16 DEF TickBegins
<1>17. CASE TickEnds
  BY Assumption, <1>17 DEF TickEnds
<1>18. CASE Block
  BY Assumption, <1>18 DEF Block
<1>19. CASE Unblock
  BY Assumption, <1>19 DEF Unblock
<1>20. CASE Shutdown
  BY Assumption, <1>20 DEF Shutdown
<1>21. CASE CloseStops
  BY Assumption, <1>21 DEF CloseStops, Begin, Finish, Allowed, Doing, Leaves, App, Raises,
         Drained
<1>22. CASE Stopping
  BY Assumption, <1>22 DEF Stopping, Begin, Finish, Allowed, Doing, Leaves, App, Raises,
         AfterStop
<1>23. CASE CloseReleases
  BY Assumption, <1>23 DEF CloseReleases, Begin, Finish, Allowed, Doing, Leaves, App, Raises
<1>24. CASE Releasing
  BY Assumption, <1>24 DEF Releasing, Begin, Finish, Allowed, Doing, Leaves, App, Raises
<1>25. CASE UNCHANGED viewerVars
  BY <1>25 DEF viewerVars
<1>26. ASSUME NEW h \in Handlers, Strand(h) PROVE Answering'
  BY Assumption, <1>26 DEF Strand, Move
<1> QED
  BY <1>1, <1>2, <1>3, <1>4, <1>5, <1>6, <1>7, <1>8, <1>9, <1>10, <1>11, <1>12, <1>13,
     <1>14, <1>15, <1>16, <1>17, <1>18, <1>19, <1>20, <1>21, <1>22, <1>23, <1>24, <1>25,
     <1>26 DEF ViewerNext, HandlerStep, SessionStep, Connection, Countdowns, Closing

LEMMA HoldingStep ==
  ASSUME Types, Holding, [ViewerNext]_viewerVars PROVE Holding'
<1> USE  DEF browsers, handlers, orchestrator, rest, Types, Holding, Resting, Stranded,
         Handlers
<1>1. ASSUME NEW h \in Handlers, Saved(h) PROVE Holding'
  BY Assumption, <1>1 DEF Saved, Move, Take, Over, Ends, Goes, Tell, CallRaised
<1>2. ASSUME NEW h \in Handlers, SavingBreaks(h) PROVE Holding'
  BY Assumption, <1>2 DEF SavingBreaks, Move, Take, Over, Ends, Goes, Tell, CallRaised
<1>3. ASSUME NEW h \in Handlers, Answered(h) PROVE Holding'
  BY Assumption, <1>3 DEF Answered, Move, Take, Over, Ends, Goes, Tell, CallRaised
<1>4. ASSUME NEW h \in Handlers, AnswerBreaks(h) PROVE Holding'
  BY Assumption, <1>4 DEF AnswerBreaks, Move, Take, Over, Ends, Goes, Tell, CallRaised
<1>5. ASSUME NEW h \in Handlers, Refused(h) PROVE Holding'
  BY Assumption, <1>5 DEF Refused, Move, Take, Over, Ends, Goes, Tell, CallRaised
<1>6. ASSUME NEW h \in Handlers, Resume(h) PROVE Holding'
  BY Assumption, <1>6 DEF Resume, Move, Take, Over, Ends, Goes, Tell, CallRaised
<1>7. ASSUME NEW h \in Handlers, Enter(h) PROVE Holding'
  BY Assumption, <1>7 DEF Enter, Move, Begin, Finish, Allowed, Doing, Leaves, App, Raises
<1>8. ASSUME NEW h \in Handlers, Return(h) PROVE Holding'
  <2>1. lock = h /\ lock' = "none" /\ UNCHANGED app
    BY <1>8 DEF Return, Finish
  <2>2. where'[h] # "inside" /\ \A g \in Handlers \ {h} : where'[g] = where[g]
    BY <1>8 DEF Return, Move
  <2>3. session' \in Resting
    BY <1>8 DEF Return, Finish, Leaves
  <2> QED
    BY Assumption, <2>1, <2>2, <2>3
<1>9. ASSUME NEW c \in Clients, Join(c) PROVE Holding'
  BY Assumption, <1>9 DEF Join, Move, Take, Over, Ends, Goes, Tell, CallRaised
<1>10. ASSUME NEW c \in Clients, Leave(c) PROVE Holding'
  BY Assumption, <1>10 DEF Leave
<1>11. ASSUME NEW c \in Clients, Receive(c) PROVE Holding'
  BY Assumption, <1>11 DEF Receive, Move, Take, Over, Ends, Goes, Tell, CallRaised
<1>12. ASSUME NEW c \in Clients, Disconnected(c) PROVE Holding'
  BY Assumption, <1>12 DEF Disconnected, Move, Take, Over, Ends, Goes, Tell, CallRaised
<1>13. ASSUME NEW c \in Clients, Close(c) PROVE Holding'
  BY Assumption, <1>13 DEF Close, Move, Take, Over, Ends, Goes, Tell, CallRaised
<1>14. CASE Request
  BY Assumption, <1>14 DEF Request, Move, Take, Over, Ends, Goes, Tell, CallRaised
<1>15. CASE Tick
  BY Assumption, <1>15 DEF Tick
<1>16. CASE TickBegins
  BY Assumption, <1>16 DEF TickBegins
<1>17. CASE TickEnds
  BY Assumption, <1>17 DEF TickEnds
<1>18. CASE Block
  BY Assumption, <1>18 DEF Block
<1>19. CASE Unblock
  BY Assumption, <1>19 DEF Unblock
<1>20. CASE Shutdown
  BY Assumption, <1>20 DEF Shutdown
<1>21. CASE CloseStops
  BY Assumption, <1>21 DEF CloseStops, Begin, Finish, Allowed, Doing, Leaves, App, Raises,
         Drained
<1>22. CASE Stopping
  <2>1. CASE Begin("app", "stop") /\ UNCHANGED app
    BY Assumption, <1>22, <2>1 DEF Stopping, Begin, Doing
  <2>2. CASE lock = "none" /\ UNCHANGED orchestrator
    BY Assumption, <1>22, <2>2 DEF Stopping, App
  <2>3. ASSUME NEW raised \in Raises("stop"), Finish("app", "stop", raised) PROVE Holding'
    BY Assumption, <1>22, <2>3 DEF Stopping, Finish, Leaves
  <2> QED
    BY <1>22, <2>1, <2>2, <2>3 DEF Stopping
<1>23. CASE CloseReleases
  BY Assumption, <1>23 DEF CloseReleases, Begin, Finish, Allowed, Doing, Leaves, App, Raises
<1>24. CASE Releasing
  BY Assumption, <1>24 DEF Releasing, Begin, Finish, Allowed, Doing, Leaves, App, Raises
<1>25. CASE UNCHANGED viewerVars
  BY <1>25 DEF viewerVars
<1>26. ASSUME NEW h \in Handlers, Strand(h) PROVE Holding'
  <2>1. lock = h /\ lock' = "none" /\ UNCHANGED <<app, session>>
    BY <1>26 DEF Strand
  <2>2. where'[h] # "inside" /\ \A g \in Handlers \ {h} : where'[g] = where[g]
    BY <1>26 DEF Strand, Move
  <2>3. session \in Resting
    BY <1>26 DEF Strand, Doing
  <2> QED
    BY Assumption, <2>1, <2>2, <2>3
<1> QED
  BY <1>1, <1>2, <1>3, <1>4, <1>5, <1>6, <1>7, <1>8, <1>9, <1>10, <1>11, <1>12, <1>13,
     <1>14, <1>15, <1>16, <1>17, <1>18, <1>19, <1>20, <1>21, <1>22, <1>23, <1>24, <1>25,
     <1>26 DEF ViewerNext, HandlerStep, SessionStep, Connection, Countdowns, Closing

LEMMA QuietStep ==
  ASSUME Types, Holding, Quiet, [ViewerNext]_viewerVars PROVE Quiet'
<1> USE  DEF browsers, handlers, orchestrator, rest, Types, Holding, Resting, Stranded,
         Quiet, Handlers
<1>1. ASSUME NEW h \in Handlers, Saved(h) PROVE Quiet'
  BY Assumption, <1>1 DEF Saved, Move, Take, Over, Ends, Goes, Tell, CallRaised
<1>2. ASSUME NEW h \in Handlers, SavingBreaks(h) PROVE Quiet'
  BY Assumption, <1>2 DEF SavingBreaks, Move, Take, Over, Ends, Goes, Tell, CallRaised
<1>3. ASSUME NEW h \in Handlers, Answered(h) PROVE Quiet'
  BY Assumption, <1>3 DEF Answered, Move, Take, Over, Ends, Goes, Tell, CallRaised
<1>4. ASSUME NEW h \in Handlers, AnswerBreaks(h) PROVE Quiet'
  BY Assumption, <1>4 DEF AnswerBreaks, Move, Take, Over, Ends, Goes, Tell, CallRaised
<1>5. ASSUME NEW h \in Handlers, Refused(h) PROVE Quiet'
  BY Assumption, <1>5 DEF Refused, Move, Take, Over, Ends, Goes, Tell, CallRaised
<1>6. ASSUME NEW h \in Handlers, Resume(h) PROVE Quiet'
  BY Assumption, <1>6 DEF Resume, Move, Take, Over, Ends, Goes, Tell, CallRaised
<1>7. ASSUME NEW h \in Handlers, Enter(h) PROVE Quiet'
  BY Assumption, <1>7 DEF Enter, Move, Begin, Finish, Allowed, Doing, Leaves, App, Raises
<1>8. ASSUME NEW h \in Handlers, Return(h) PROVE Quiet'
  BY Assumption, <1>8 DEF Return, Move, Begin, Finish, Allowed, Doing, Leaves, App, Raises
<1>9. ASSUME NEW c \in Clients, Join(c) PROVE Quiet'
  BY Assumption, <1>9 DEF Join, Move, Take, Over, Ends, Goes, Tell, CallRaised
<1>10. ASSUME NEW c \in Clients, Leave(c) PROVE Quiet'
  BY Assumption, <1>10 DEF Leave
<1>11. ASSUME NEW c \in Clients, Receive(c) PROVE Quiet'
  BY Assumption, <1>11 DEF Receive, Move, Take, Over, Ends, Goes, Tell, CallRaised
<1>12. ASSUME NEW c \in Clients, Disconnected(c) PROVE Quiet'
  BY Assumption, <1>12 DEF Disconnected, Move, Take, Over, Ends, Goes, Tell, CallRaised
<1>13. ASSUME NEW c \in Clients, Close(c) PROVE Quiet'
  BY Assumption, <1>13 DEF Close, Move, Take, Over, Ends, Goes, Tell, CallRaised
<1>14. CASE Request
  BY Assumption, <1>14 DEF Request, Move, Take, Over, Ends, Goes, Tell, CallRaised
<1>15. CASE Tick
  BY Assumption, <1>15 DEF Tick
<1>16. CASE TickBegins
  BY Assumption, <1>16 DEF TickBegins
<1>17. CASE TickEnds
  BY Assumption, <1>17 DEF TickEnds
<1>18. CASE Block
  BY Assumption, <1>18 DEF Block
<1>19. CASE Unblock
  BY Assumption, <1>19 DEF Unblock
<1>20. CASE Shutdown
  BY Assumption, <1>20 DEF Shutdown
<1>21. CASE CloseStops
  BY Assumption, <1>21 DEF CloseStops, Begin, Finish, Allowed, Doing, Leaves, App, Raises,
         Drained
<1>22. CASE Stopping
  BY Assumption, <1>22 DEF Stopping, Begin, Finish, Allowed, Doing, Leaves, App, Raises,
         AfterStop
<1>23. CASE CloseReleases
  BY Assumption, <1>23 DEF CloseReleases, Begin, Finish, Allowed, Doing, Leaves, App, Raises
<1>24. CASE Releasing
  BY Assumption, <1>24 DEF Releasing, Begin, Finish, Allowed, Doing, Leaves, App, Raises
<1>25. CASE UNCHANGED viewerVars
  BY <1>25 DEF viewerVars
<1>26. ASSUME NEW h \in Handlers, Strand(h) PROVE Quiet'
  BY Assumption, <1>26 DEF Strand, Move
<1> QED
  BY <1>1, <1>2, <1>3, <1>4, <1>5, <1>6, <1>7, <1>8, <1>9, <1>10, <1>11, <1>12, <1>13,
     <1>14, <1>15, <1>16, <1>17, <1>18, <1>19, <1>20, <1>21, <1>22, <1>23, <1>24, <1>25,
     <1>26 DEF ViewerNext, HandlerStep, SessionStep, Connection, Countdowns, Closing

-----------------------------------------------------------------------------
\* The inductive invariant: what each handler has been returned and has told, and who
\* holds the session (server.py: ws_control, _stop_and_report; app.py: close).
THEOREM ViewerInvariance == ViewerSpec => []VInv
<1>1. VInv /\ [ViewerNext]_viewerVars => VInv'
  BY TypesStep, AnsweringStep, HoldingStep, QuietStep DEF VInv
<1> QED
  BY <1>1, ViewerOpens, PTL DEF ViewerSpec

\* A handler that goes on after a stop has told what the session did (server.py:
\* _stop_and_report), whatever the loop over the sockets raised on the way.
THEOREM StopsAreTold == ViewerSpec => []StopsAreAnswered
  BY ViewerInvariance, PTL DEF VInv, Answering

\* launch() ends with the session idle and nobody in it, or stranded by a call that
\* raised (app.py: close stops, reads the state again and disconnects).
THEOREM LaunchReleases == ViewerSpec => []ClosedReleases
<1>1. VInv => ClosedReleases
  BY DEF VInv, Quiet, ClosedReleases, Stranded
<1> QED
  BY <1>1, ViewerInvariance, PTL

-----------------------------------------------------------------------------
\* A session that nobody holds is neither on its way into a recording nor out of one,
\* unless the call has raised.
Unstranded == lock = "none" => session \notin Stranded

LEMMA UnstrandedStep ==
  ASSUME {"stop", "cancel", "strand"} \intersect ViewerFaults = {},
         Types, Unstranded, [ViewerNext]_viewerVars
  PROVE  Unstranded'
<1> USE Assumption
    DEF browsers, handlers, orchestrator, rest, Types, Unstranded, Stranded, Handlers
<1>1. ASSUME NEW h \in Handlers, Enter(h) PROVE Unstranded'
  BY <1>1 DEF Enter, Begin
<1>2. ASSUME NEW h \in Handlers, Return(h) PROVE Unstranded'
  <2>1. PICK raised \in Raises(command[h]) : session' = Leaves(command[h], raised)
    BY <1>2 DEF Return, Finish
  <2>2. session' \notin Stranded
    <3>1. CASE command[h] \in {"connect", "start", "disconnect"}
      BY <2>1, <3>1 DEF Leaves
    <3>2. CASE command[h] \notin {"connect", "start", "disconnect"}
      <4>1. command[h] \notin ViewerFaults
        BY <3>2 DEF Commands
      <4>2. raised = FALSE
        BY <2>1, <4>1 DEF Raises
      <4> QED
        BY <2>1, <3>2, <4>2 DEF Leaves
    <3> QED
      BY <3>1, <3>2
  <2> QED
    BY <2>2
<1>3. CASE Stopping
  <2>1. CASE Begin("app", "stop")
    BY <2>1 DEF Begin
  <2>2. CASE UNCHANGED orchestrator
    BY <2>2
  <2>3. ASSUME NEW raised \in Raises("stop"), Finish("app", "stop", raised) PROVE Unstranded'
    BY <2>3 DEF Finish, Leaves, Raises
  <2> QED
    BY <1>3, <2>1, <2>2, <2>3 DEF Stopping
<1>4. CASE Releasing
  <2>1. CASE Begin("app", "disconnect")
    BY <2>1 DEF Begin
  <2>2. CASE UNCHANGED orchestrator
    BY <2>2
  <2>3. CASE Finish("app", "disconnect", FALSE)
    BY <2>3 DEF Finish, Leaves
  <2> QED
    BY <1>4, <2>1, <2>2, <2>3 DEF Releasing
<1>5. CASE UNCHANGED <<session, lock>>
  BY <1>5
<1> QED
  BY <1>1, <1>2, <1>3, <1>4, <1>5
     DEF ViewerNext, HandlerStep, SessionStep, Strand, Connection, Countdowns, Closing, Saved,
         SavingBreaks, Answered, AnswerBreaks, Refused, Resume, Join, Leave, Receive,
         Disconnected, Close, Request, Tick, TickBegins, TickEnds, Block, Unblock, Shutdown,
         CloseStops, CloseReleases, viewerVars

\* launch() ends with every device released, whatever the browsers were doing when the
\* server went down (app.py: close), as long as no stop() or cancel() raises, and no start()
\* where it strands the session; launch_passive() does not wait for a command under way.
THEOREM LaunchReleasesAll ==
  ASSUME Blocking, {"stop", "cancel", "strand"} \intersect ViewerFaults = {}
  PROVE  ViewerSpec => []PassiveReleases
<1>1. ViewerInit => Unstranded
  BY Assumption DEF ViewerInit, Unstranded, Stranded
<1>2. VInv /\ Unstranded /\ [ViewerNext]_viewerVars => Unstranded'
  BY UnstrandedStep DEF VInv
<1>3. VInv /\ Unstranded => PassiveReleases
  BY DEF VInv, Quiet, Unstranded, Stranded, PassiveReleases
<1> QED
  BY <1>1, <1>2, <1>3, ViewerInvariance, PTL DEF ViewerSpec
=============================================================================
