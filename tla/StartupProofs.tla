--------------------------- MODULE StartupProofs ---------------------------
(***************************************************************************)
(* NetlinkManager::Start may fail at each of its seven steps and is tried   *)
(* up to three times.  What it leaves behind, and what it has done by the   *)
(* time it says it is started, follow from what each step finds.            *)
(***************************************************************************)
EXTENDS Startup, Integers, TLAPS

(* The steps of Start, and the steps of main before it.                     *)
InStart == {"sync", "async", "discover", "watch", "regulatory", "scan", "mlme"}
BeforeStart == {"handler", "binder", "hwbinder"}
Dead == {"crashed", "killed", "stuck"}

Types ==
    /\ sync_fd \in Fds \cup {NoFd} /\ async_fd \in Fds \cup {NoFd}
    /\ started \in BOOLEAN
    /\ message_type \in [known : BOOLEAN, family_id : {NL80211Id, NoId},
                         groups : SUBSET Groups]
    /\ open \subseteq Fds /\ watched \subseteq Fds /\ looper_table \subseteq Fds
    /\ member \in [Fds -> SUBSET Groups]

(* Who calls Start.                                                         *)
Callers ==
    /\ pc \in BeforeStart => caller = 0
    /\ pc = "start" => caller \in 0..2
    /\ pc \in InStart => caller \in 1..3
    /\ pc = "features" => caller = 2

(* The descriptors: binder's are there before the first socket, so that no  *)
(* socket has their numbers; a socket that is held is open, and only those  *)
(* are; the two sockets are different.                                      *)
Descriptors ==
    /\ pc = "hwbinder" => binder_fd \in open
    /\ pc \notin BeforeStart \cup Dead => {binder_fd, hw_binder_fd} \subseteq open
    /\ {sync_fd, async_fd} \cap {binder_fd, hw_binder_fd} = {}
    /\ sync_fd # NoFd => sync_fd \in open /\ sync_fd # async_fd
    /\ async_fd # NoFd => async_fd \in open
    /\ watched \subseteq looper_table

(* What a step of Start finds of the steps before it.                       *)
Progress ==
    /\ pc \in InStart => ~started
    /\ pc \in InStart \ {"sync"} => sync_fd # NoFd
    /\ pc \in InStart \ {"sync", "async"} => async_fd # NoFd
    /\ pc \in {"discover", "watch"} => async_fd \notin watched
    /\ pc \in {"regulatory", "scan", "mlme"} => async_fd \in watched
    /\ pc = "regulatory" => member[async_fd] = {}
    /\ pc = "scan" => member[async_fd] = {"regulatory"}
    /\ pc = "mlme" => member[async_fd] = {"regulatory", "scan"}

(* Groups are known only of a family whose number is.                       *)
FamilyKnown == message_type.groups # {} => message_type.family_id = NL80211Id

(* The inductive invariant.                                                 *)
IInv ==
    /\ Types
    /\ Callers
    /\ Descriptors
    /\ Progress
    /\ FamilyKnown
    /\ NoSocketIsLeftBehind
    /\ StartedMeansListening

---------------------------------------------------------------------------
(* socket() gives a number that is free, if it gives one.                   *)
LEMMA SomeMin ==
    ASSUME NEW S \in SUBSET Fds, S # {}
    PROVE  Min(S) \in S
<1>1. \E x \in S : \A y \in S : x <= y
  <2>1. CASE 1 \in S
    <3>1. \A y \in S : 1 <= y
      BY DEF Fds
    <3> QED
      BY <2>1, <3>1
  <2>2. CASE S \subseteq 2..6 /\ 2 \in S
    <3>1. \A y \in S : 2 <= y
      BY <2>2
    <3> QED
      BY <2>2, <3>1
  <2>3. CASE S \subseteq 3..6 /\ 3 \in S
    <3>1. \A y \in S : 3 <= y
      BY <2>3
    <3> QED
      BY <2>3, <3>1
  <2>4. CASE S \subseteq 4..6 /\ 4 \in S
    <3>1. \A y \in S : 4 <= y
      BY <2>4
    <3> QED
      BY <2>4, <3>1
  <2>5. CASE S \subseteq 5..6 /\ 5 \in S
    <3>1. \A y \in S : 5 <= y
      BY <2>5
    <3> QED
      BY <2>5, <3>1
  <2>6. CASE S \subseteq 6..6
    <3>1. \A x \in S : x = 6
      BY <2>6
    <3>2. 6 \in S
      BY <3>1
    <3> QED
      BY <3>1, <3>2
  <2>7. \A x \in S : x = 1 \/ x = 2 \/ x = 3 \/ x = 4 \/ x = 5 \/ x = 6
    BY DEF Fds
  <2>8. S \subseteq 2..6 \/ 1 \in S
    BY <2>7
  <2>9. S \subseteq 2..6 => S \subseteq 3..6 \/ 2 \in S
    OBVIOUS
  <2>10. S \subseteq 3..6 => S \subseteq 4..6 \/ 3 \in S
    OBVIOUS
  <2>11. S \subseteq 4..6 => S \subseteq 5..6 \/ 4 \in S
    OBVIOUS
  <2>12. S \subseteq 5..6 => S \subseteq 6..6 \/ 5 \in S
    OBVIOUS
  <2> QED
    BY <2>1, <2>2, <2>3, <2>4, <2>5, <2>6, <2>8, <2>9, <2>10, <2>11, <2>12
<1> QED
  BY <1>1 DEF Min

LEMMA FreshFd ==
    ASSUME Types, NoSocketIsLeftBehind, NEW new \in NewFd
    PROVE  new = NoFd \/ new \in Fds \ open
<1>1. Fds \ open # {}
  BY DEF Types, NoSocketIsLeftBehind, Fds, NoFd, binder_fd, hw_binder_fd
<1>2. Min(Fds \ open) \in Fds \ open
  BY <1>1, SomeMin
<1> QED
  BY <1>2 DEF NewFd

(* Where Start returns to.                                                  *)
LEMMA Returns ==
    ASSUME Callers, pc \in InStart
    PROVE  /\ AfterStart \in {"start", "features", "register"}
           /\ AfterStart = "start" => caller = 1
           /\ AfterStart = "features" => caller = 2
<1>1. caller = 1 \/ caller = 2 \/ caller = 3
  BY DEF Callers
<1>2. CASE caller = 1
  BY <1>2 DEF AfterStart
<1>3. CASE caller = 2
  BY <1>3 DEF AfterStart
<1>4. CASE caller = 3
  BY <1>4 DEF AfterStart
<1> QED
  BY <1>1, <1>2, <1>3, <1>4

(* pc' is a step outside Start.                                             *)
Outside == pc' \notin InStart \cup BeforeStart

LEMMA StartFailsOutside ==
    ASSUME Callers, pc \in InStart, pc' = AfterStart, caller' = caller
    PROVE  Outside /\ Callers' /\ pc' \notin Dead
BY Returns DEF Outside, Callers, InStart, BeforeStart, Dead

---------------------------------------------------------------------------
(* A step that leaves the sockets alone.                                    *)
Quiet == UNCHANGED <<netlinkVars, open, watched, looper_table, member>>

LEMMA QuietStep ==
    ASSUME IInv, Quiet, Callers',
           pc' = pc \/ Outside \/ pc' \in BeforeStart \/ (pc' = "sync" /\ ~started),
           pc' # "hwbinder" \/ pc' = pc,
           pc' \in BeforeStart \cup Dead \/ pc \notin BeforeStart \cup Dead
    PROVE  IInv'
<1> USE DEF IInv, Quiet, netlinkVars
<1>1. Types'
  BY DEF Types
<1>2. Descriptors'
  BY DEF Descriptors
<1>3. Progress'
  BY DEF Progress, Outside, InStart, BeforeStart
<1>4. FamilyKnown'
  BY DEF FamilyKnown
<1>5. NoSocketIsLeftBehind'
  BY DEF NoSocketIsLeftBehind
<1>6. StartedMeansListening'
  BY DEF StartedMeansListening
<1> QED
  BY <1>1, <1>2, <1>3, <1>4, <1>5, <1>6

(* main before Start.                                                       *)
LEMMA BinderStep ==
    ASSUME IInv, NEW from \in {"binder", "hwbinder"}, NEW fd \in {binder_fd, hw_binder_fd},
           NEW to, SetupBinderOrCrash(from, fd, to),
           \/ from = "binder" /\ fd = binder_fd /\ to = "hwbinder"
           \/ from = "hwbinder" /\ fd = hw_binder_fd /\ to = "start"
    PROVE  IInv'
<1> USE DEF IInv
<1>0. /\ fd \in Fds /\ fd # NoFd
      /\ fd # sync_fd
      /\ pc = from /\ pc \in BeforeStart
  <2>1. fd \in Fds /\ fd # NoFd
    BY DEF Fds, NoFd, binder_fd, hw_binder_fd
  <2>2. fd # sync_fd
    BY DEF Descriptors
  <2>3. pc = from /\ pc \in BeforeStart
    BY DEF SetupBinderOrCrash, BeforeStart
  <2> QED
    BY <2>1, <2>2, <2>3
<1>1. CASE Crash
  <2>1. Quiet /\ pc' = "crashed"
    BY <1>1 DEF SetupBinderOrCrash, Crash, Quiet, netlinkVars
  <2>2. Callers'
    BY <2>1 DEF Callers, BeforeStart, InStart
  <2> QED
    BY <2>1, <2>2, QuietStep DEF Outside, InStart, BeforeStart, Dead
<1>2. CASE ~Crash
  <2>1. /\ open' = open \cup {fd} /\ watched' = watched \cup {fd}
        /\ looper_table' = looper_table \cup {fd} /\ pc' = to
        /\ UNCHANGED <<caller, started, sync_fd, async_fd, message_type, member>>
    BY <1>2 DEF SetupBinderOrCrash, WatchFileDescriptor, netlinkVars
  <2>2. Types'
    BY <1>0, <2>1 DEF Types
  <2>3. Callers'
    BY <1>0, <2>1 DEF Callers, BeforeStart, InStart
  <2>4. Descriptors'
    BY <1>0, <2>1 DEF Descriptors, BeforeStart
  <2>5. Progress'
    BY <2>1 DEF Progress, InStart
  <2>6. FamilyKnown'
    BY <2>1 DEF FamilyKnown
  <2>7. NoSocketIsLeftBehind'
    BY <1>0, <2>1 DEF NoSocketIsLeftBehind
  <2>8. StartedMeansListening'
    BY <1>0, <2>1 DEF StartedMeansListening
  <2> QED
    BY <2>2, <2>3, <2>4, <2>5, <2>6, <2>7, <2>8
<1> QED
  BY <1>1, <1>2

---------------------------------------------------------------------------
(* The steps of Start.                                                      *)
LEMMA SyncStep ==
    ASSUME IInv, SetupSocketSync
    PROVE  IInv'
<1> USE DEF IInv
<1>1. PICK new \in NewFd :
         /\ sync_fd' = new
         /\ ResetFd(sync_fd, new)
         /\ StartFails \/ (new # NoFd /\ Continue("async"))
  BY DEF SetupSocketSync
<1>2. new = NoFd \/ new \in Fds \ open
  BY FreshFd
<1>3. /\ pc = "sync" /\ ~started
      /\ UNCHANGED <<async_fd, message_type, started, caller, looper_table>>
      /\ open' = (open \ {sync_fd}) \cup ({new} \ {NoFd})
      /\ watched' = watched \ {sync_fd}
      /\ member' = [fd \in Fds |-> IF fd = sync_fd THEN {} ELSE member[fd]]
      /\ pc' = AfterStart \/ (pc' = "async" /\ new # NoFd)
  BY <1>1 DEF SetupSocketSync, ResetFd, StartFails, Continue, Progress, InStart
<1>4. /\ {binder_fd, hw_binder_fd} \subseteq open
      /\ NoFd \notin Fds \cup {binder_fd, hw_binder_fd}
  <2>1. NoFd \notin Fds \cup {binder_fd, hw_binder_fd}
    BY DEF NoFd, Fds, binder_fd, hw_binder_fd
  <2> QED
    BY <1>3, <2>1 DEF Descriptors, BeforeStart, Dead
<1>5. /\ Callers' /\ pc' \notin BeforeStart \cup Dead
      /\ pc' \in InStart => pc' = "async" /\ new # NoFd
  <2>1. CASE pc' = "async"
    <3>1. pc' # AfterStart
      BY <1>3, <2>1, Returns DEF InStart
    <3> QED
      BY <1>3, <2>1, <3>1 DEF Callers, BeforeStart, InStart, Dead
  <2>2. CASE pc' = AfterStart
    BY <1>3, <2>2, StartFailsOutside DEF InStart, Outside
  <2> QED
    BY <1>3, <2>1, <2>2
<1>6. Types'
  BY <1>1, <1>2, <1>3 DEF Types
<1>7. Descriptors'
  <2>1. {binder_fd, hw_binder_fd} \subseteq open'
    BY <1>3, <1>4 DEF Descriptors
  <2>2. {sync_fd', async_fd'} \cap {binder_fd, hw_binder_fd} = {}
    BY <1>1, <1>2, <1>3, <1>4 DEF Descriptors
  <2>3. async_fd # NoFd => async_fd \in open' /\ async_fd # new
    BY <1>2, <1>3 DEF Descriptors
  <2>4. new # NoFd => new \in open' /\ new # async_fd
    BY <1>2, <1>3, <2>3
  <2> QED
    BY <1>1, <1>3, <1>5, <2>1, <2>2, <2>3, <2>4 DEF Descriptors, BeforeStart
<1>8. Progress'
  BY <1>1, <1>3, <1>5 DEF Progress, InStart
<1>9. FamilyKnown'
  BY <1>3 DEF FamilyKnown
<1>10. NoSocketIsLeftBehind'
  BY <1>1, <1>2, <1>3, <1>4 DEF NoSocketIsLeftBehind, Types, Descriptors
<1>11. StartedMeansListening'
  BY <1>3 DEF StartedMeansListening
<1> QED
  BY <1>5, <1>6, <1>7, <1>8, <1>9, <1>10, <1>11

LEMMA AsyncStep ==
    ASSUME IInv, SetupSocketAsync
    PROVE  IInv'
<1> USE DEF IInv
<1>1. PICK new \in NewFd :
         /\ async_fd' = new
         /\ ResetFd(async_fd, new)
         /\ StartFails \/ (new # NoFd /\ Continue("discover"))
  BY DEF SetupSocketAsync
<1>2. new = NoFd \/ new \in Fds \ open
  BY FreshFd
<1>3. /\ pc = "async" /\ ~started /\ sync_fd # NoFd
      /\ UNCHANGED <<sync_fd, message_type, started, caller, looper_table>>
      /\ open' = (open \ {async_fd}) \cup ({new} \ {NoFd})
      /\ watched' = watched \ {async_fd}
      /\ member' = [fd \in Fds |-> IF fd = async_fd THEN {} ELSE member[fd]]
      /\ pc' = AfterStart \/ (pc' = "discover" /\ new # NoFd)
  BY <1>1 DEF SetupSocketAsync, ResetFd, StartFails, Continue, Progress, InStart
<1>4. /\ {binder_fd, hw_binder_fd} \subseteq open
      /\ NoFd \notin Fds \cup {binder_fd, hw_binder_fd}
  <2>1. NoFd \notin Fds \cup {binder_fd, hw_binder_fd}
    BY DEF NoFd, Fds, binder_fd, hw_binder_fd
  <2> QED
    BY <1>3, <2>1 DEF Descriptors, BeforeStart, Dead
<1>5. /\ Callers' /\ pc' \notin BeforeStart \cup Dead
      /\ pc' \in InStart => pc' = "discover" /\ new # NoFd
  <2>1. CASE pc' = "discover"
    <3>1. pc' # AfterStart
      BY <1>3, <2>1, Returns DEF InStart
    <3> QED
      BY <1>3, <2>1, <3>1 DEF Callers, BeforeStart, InStart, Dead
  <2>2. CASE pc' = AfterStart
    BY <1>3, <2>2, StartFailsOutside DEF InStart, Outside
  <2> QED
    BY <1>3, <2>1, <2>2
<1>6. Types'
  BY <1>1, <1>2, <1>3 DEF Types
<1>7. Descriptors'
  BY <1>1, <1>2, <1>3, <1>4, <1>5 DEF Descriptors, BeforeStart
<1>8. Progress'
  <2>1. new # NoFd => new \notin watched
    BY <1>2 DEF NoSocketIsLeftBehind
  <2> QED
    BY <1>1, <1>3, <1>5, <2>1 DEF Progress, InStart
<1>9. FamilyKnown'
  BY <1>3 DEF FamilyKnown
<1>10. NoSocketIsLeftBehind'
  <2>1. \A fd \in Fds : member'[fd] = {}
    BY <1>3 DEF NoSocketIsLeftBehind
  <2> QED
    BY <1>1, <1>2, <1>3, <1>4, <2>1 DEF NoSocketIsLeftBehind, Types, Descriptors
<1>11. StartedMeansListening'
  BY <1>3 DEF StartedMeansListening
<1> QED
  BY <1>5, <1>6, <1>7, <1>8, <1>9, <1>10, <1>11

LEMMA DiscoverStep ==
    ASSUME IInv, DiscoverFamilyId
    PROVE  IInv'
<1> USE DEF IInv
<1>1. /\ pc = "discover" /\ ~started
      /\ UNCHANGED <<sync_fd, async_fd, open, watched, looper_table, member>>
      /\ UNCHANGED <<started, caller>>
      /\ pc' \in {AfterStart, "watch"}
      /\ \/ UNCHANGED message_type
         \/ \E groups \in {Groups, {"regulatory", "scan"}, {}} : OnNewFamily(groups)
  BY DEF DiscoverFamilyId, kernelVars, StartFails, Continue, Progress, InStart
<1>2. Callers' /\ pc' \notin BeforeStart \cup Dead /\ (pc' \in InStart => pc' = "watch")
  <2>1. CASE pc' = "watch"
    BY <1>1, <2>1 DEF Callers, BeforeStart, InStart, Dead
  <2>2. CASE pc' = AfterStart
    BY <1>1, <2>2, StartFailsOutside DEF InStart, Outside
  <2> QED
    BY <1>1, <2>1, <2>2
<1>3. message_type' \in [known : BOOLEAN, family_id : {NL80211Id, NoId},
                         groups : SUBSET Groups]
      /\ FamilyKnown'
  <2>1. CASE UNCHANGED message_type
    BY <2>1 DEF Types, FamilyKnown
  <2>2. ASSUME NEW groups \in {Groups, {"regulatory", "scan"}, {}}, OnNewFamily(groups)
        PROVE  /\ message_type' \in [known : BOOLEAN, family_id : {NL80211Id, NoId},
                                     groups : SUBSET Groups]
               /\ FamilyKnown'
    <3>1. groups \in SUBSET Groups
      BY StartupAssumption
    <3> QED
      BY <2>2, <3>1 DEF OnNewFamily, FamilyKnown
  <2> QED
    BY <1>1, <2>1, <2>2
<1>4. Types'
  BY <1>1, <1>3 DEF Types
<1>5. Descriptors'
  BY <1>1, <1>2 DEF Descriptors, BeforeStart, Dead
<1>6. Progress'
  BY <1>1, <1>2 DEF Progress, InStart
<1>7. NoSocketIsLeftBehind'
  BY <1>1 DEF NoSocketIsLeftBehind
<1>8. StartedMeansListening'
  BY <1>1 DEF StartedMeansListening
<1> QED
  BY <1>2, <1>3, <1>4, <1>5, <1>6, <1>7, <1>8

LEMMA WatchStep ==
    ASSUME IInv, WatchSocket
    PROVE  IInv'
<1> USE DEF IInv
<1>1. /\ pc = "watch" /\ ~started /\ async_fd # NoFd /\ async_fd \notin watched
      /\ UNCHANGED <<sync_fd, async_fd, message_type, open, member, started, caller>>
      /\ \/ /\ watched' = watched \cup {async_fd}
            /\ looper_table' = looper_table \cup {async_fd}
            /\ pc' = "regulatory"
         \/ UNCHANGED <<watched, looper_table>> /\ pc' = AfterStart
  BY DEF WatchSocket, WatchFileDescriptor, StartFails, Continue, Progress, InStart
<1>2. /\ Callers' /\ pc' \notin BeforeStart \cup Dead
      /\ pc' \in InStart => pc' = "regulatory" /\ async_fd \in watched'
  <2>1. CASE pc' = "regulatory"
    <3>1. pc' # AfterStart
      BY <1>1, <2>1, Returns DEF InStart
    <3> QED
      BY <1>1, <2>1, <3>1 DEF Callers, BeforeStart, InStart, Dead
  <2>2. CASE pc' = AfterStart
    BY <1>1, <2>2, StartFailsOutside DEF InStart, Outside
  <2> QED
    BY <1>1, <2>1, <2>2
<1>3. Types'
  BY <1>1 DEF Types
<1>4. Descriptors'
  BY <1>1, <1>2 DEF Descriptors, BeforeStart, Dead
<1>5. Progress'
  <2>1. member[async_fd] = {}
    BY <1>1 DEF NoSocketIsLeftBehind, Types
  <2> QED
    BY <1>1, <1>2, <2>1 DEF Progress, InStart
<1>6. FamilyKnown'
  BY <1>1 DEF FamilyKnown
<1>7. NoSocketIsLeftBehind'
  BY <1>1 DEF NoSocketIsLeftBehind, Descriptors, Progress, InStart
<1>8. StartedMeansListening'
  BY <1>1 DEF StartedMeansListening
<1> QED
  BY <1>2, <1>3, <1>4, <1>5, <1>6, <1>7, <1>8

(* Joining a group: the last one makes the manager started.                 *)
LEMMA SubscribeStep ==
    ASSUME IInv, NEW group \in {"regulatory", "scan", "mlme"}, NEW next,
           SubscribeToEvents(group, next),
           \/ group = "regulatory" /\ next = "scan"
           \/ group = "scan" /\ next = "mlme"
           \/ group = "mlme" /\ next = "done"
    PROVE  IInv'
<1> USE DEF IInv
<1> DEFINE before == IF group = "regulatory" THEN {}
                     ELSE IF group = "scan" THEN {"regulatory"}
                     ELSE {"regulatory", "scan"}
<1>1. /\ pc = group /\ pc \in InStart
      /\ ~started /\ sync_fd # NoFd /\ async_fd # NoFd /\ async_fd \in watched
      /\ async_fd \in Fds /\ sync_fd \in Fds /\ async_fd # sync_fd
      /\ member[async_fd] = before
  BY DEF SubscribeToEvents, Progress, InStart, Types, Descriptors
<1>2. /\ UNCHANGED <<caller, sync_fd, async_fd, message_type, open, watched, looper_table>>
      /\ \/ UNCHANGED <<member, started>> /\ pc' = AfterStart
         \/ /\ group \in message_type.groups
            /\ member' = [member EXCEPT ![async_fd] = @ \cup {group}]
            /\ started' = (next = "done")
            /\ pc' = IF next = "done" THEN AfterStart ELSE next
  BY DEF SubscribeToEvents
<1>3. CASE UNCHANGED <<member, started>> /\ pc' = AfterStart
  <2>1. Quiet
    BY <1>2, <1>3 DEF Quiet, netlinkVars
  <2>2. Outside /\ Callers' /\ pc' \notin Dead
    BY <1>1, <1>2, <1>3, StartFailsOutside
  <2> QED
    BY <1>1, <2>1, <2>2, QuietStep DEF InStart, BeforeStart, Dead, Outside
<1>4. CASE /\ group \in message_type.groups
           /\ member' = [member EXCEPT ![async_fd] = @ \cup {group}]
           /\ started' = (next = "done")
           /\ pc' = IF next = "done" THEN AfterStart ELSE next
  <2>1. /\ member'[async_fd] = before \cup {group}
        /\ \A fd \in Fds : fd # async_fd => member'[fd] = member[fd]
        /\ message_type.family_id = NL80211Id
        /\ member' \in [Fds -> SUBSET Groups]
    <3>1. member'[async_fd] = before \cup {group}
      BY <1>1, <1>4 DEF Types
    <3>2. \A fd \in Fds : fd # async_fd => member'[fd] = member[fd]
      BY <1>1, <1>4 DEF Types
    <3>3. message_type.family_id = NL80211Id
      BY <1>4 DEF FamilyKnown
    <3>4. {group} \subseteq Groups
      BY StartupAssumption
    <3>5. member' \in [Fds -> SUBSET Groups]
      BY <1>1, <1>4, <3>4 DEF Types
    <3> QED
      BY <3>1, <3>2, <3>3, <3>5
  <2>2. /\ Callers' /\ pc' \notin BeforeStart \cup Dead
        /\ next = "done" => pc' \notin InStart
        /\ next # "done" => pc' = next /\ ~started'
    <3>1. CASE next = "done"
      BY <1>1, <1>2, <1>4, <3>1, StartFailsOutside DEF Outside
    <3>2. CASE next # "done"
      BY <1>1, <1>2, <1>4, <3>2 DEF Callers, BeforeStart, InStart, Dead
    <3> QED
      BY <3>1, <3>2
  <2>3. Types'
    BY <1>2, <1>4, <2>1 DEF Types
  <2>4. Descriptors'
    BY <1>1, <1>2, <2>2 DEF Descriptors, BeforeStart, Dead, InStart
  <2>5. Progress'
    BY <1>1, <1>2, <2>1, <2>2 DEF Progress, InStart
  <2>6. FamilyKnown'
    BY <1>2 DEF FamilyKnown
  <2>7. NoSocketIsLeftBehind'
    BY <1>1, <1>2, <2>1 DEF NoSocketIsLeftBehind
  <2>8. StartedMeansListening'
    <3>1. started' => before \cup {group} = {"regulatory", "scan", "mlme"}
      BY <1>4
    <3>2. member[sync_fd] = {}
      BY <1>1 DEF NoSocketIsLeftBehind
    <3>3. /\ async_fd \in open \cap watched \cap looper_table
          /\ sync_fd \in open \ watched
      BY <1>1 DEF NoSocketIsLeftBehind, Descriptors
    <3> QED
      BY <1>1, <1>2, <2>1, <3>1, <3>2, <3>3 DEF StartedMeansListening
  <2> QED
    BY <2>2, <2>3, <2>4, <2>5, <2>6, <2>7, <2>8
<1> QED
  BY <1>2, <1>3, <1>4

(* The constructor of NetlinkUtils makes an entry without groups.           *)
LEMMA FeaturesStep ==
    ASSUME IInv, ProtocolFeatures
    PROVE  IInv'
<1> USE DEF IInv
<1>1. /\ pc = "features" /\ pc' = "start"
      /\ message_type' = [message_type EXCEPT !.known = TRUE]
      /\ UNCHANGED <<caller, started, sync_fd, async_fd, open, watched, looper_table, member>>
  BY DEF ProtocolFeatures, Step, kernelVars
<1>2. message_type' \in [known : BOOLEAN, family_id : {NL80211Id, NoId},
                         groups : SUBSET Groups]
      /\ message_type'.family_id = message_type.family_id
      /\ message_type'.groups = message_type.groups
  BY <1>1 DEF Types
<1>3. Types'
  BY <1>1, <1>2 DEF Types
<1>4. Callers'
  BY <1>1 DEF Callers, BeforeStart, InStart
<1>5. Descriptors'
  BY <1>1 DEF Descriptors, BeforeStart, Dead
<1>6. Progress'
  BY <1>1 DEF Progress, InStart
<1>7. FamilyKnown'
  BY <1>2 DEF FamilyKnown
<1>8. NoSocketIsLeftBehind'
  BY <1>1 DEF NoSocketIsLeftBehind
<1>9. StartedMeansListening'
  BY <1>1, <1>2 DEF StartedMeansListening
<1> QED
  BY <1>3, <1>4, <1>5, <1>6, <1>7, <1>8, <1>9

(* The steps of main that leave the sockets alone.                          *)
LEMMA OtherMainStep ==
    ASSUME IInv, ScopedSignalHandler \/ Start \/ RegisterServiceOrCrash \/ Poll \/ pollOnce
    PROVE  IInv'
<1> USE DEF IInv
<1>1. CASE ScopedSignalHandler
  <2>1. pc = "handler" /\ pc' = "binder" /\ Quiet /\ caller' = caller
    BY <1>1 DEF ScopedSignalHandler, Step, Quiet, kernelVars
  <2>2. Callers'
    BY <2>1 DEF Callers, BeforeStart, InStart
  <2> QED
    BY <2>1, <2>2, QuietStep DEF BeforeStart
<1>2. CASE Start
  <2>1. /\ pc = "start" /\ Quiet /\ caller' = caller + 1
        /\ pc' = IF ~started THEN "sync"
                 ELSE IF caller + 1 = 2 THEN "features" ELSE "register"
    BY <1>2 DEF Start, Quiet, kernelVars
  <2>2. Callers'
    BY <2>1 DEF Callers, BeforeStart, InStart
  <2> QED
    BY <2>1, <2>2, QuietStep DEF Outside, BeforeStart, Dead, InStart
<1>3. CASE RegisterServiceOrCrash \/ Poll \/ pollOnce
  <2>1. /\ pc \in {"register", "poll", "pollOnce"} /\ Quiet
        /\ pc' \in {"crashed", "poll", "pollOnce", "exit"}
    BY <1>3 DEF RegisterServiceOrCrash, Poll, pollOnce, Quiet, kernelVars
  <2>2. Callers'
    BY <2>1 DEF Callers, BeforeStart, InStart
  <2> QED
    BY <2>1, <2>2, QuietStep DEF Outside, BeforeStart, Dead, InStart
<1> QED
  BY <1>1, <1>2, <1>3

(* The kernel, the clients and the signals.                                 *)
LEMMA EnvironmentStep ==
    ASSUME IInv, Environment
    PROVE  IInv'
<1> USE DEF IInv
<1>1. Quiet /\ caller' = caller /\ (pc' = pc \/ pc' \in {"killed", "stuck"})
  <2>1. CASE FamilyAppears
    BY <2>1 DEF FamilyAppears, Quiet, kernelVars
  <2>2. ASSUME NEW fds, Arrives(fds)
        PROVE  Quiet /\ caller' = caller /\ pc' = pc
    BY <2>2 DEF Arrives, Quiet
  <2>3. CASE ClientCalls \/ \E group \in Groups : KernelEvent(group)
    BY <2>2, <2>3 DEF ClientCalls, KernelEvent
  <2>4. CASE SignalKills \/ LeaveLoop \/ LeaveLoopInLock
    BY <2>4 DEF SignalKills, LeaveLoop, LeaveLoopInLock, Quiet, kernelVars
  <2> QED
    BY <2>1, <2>3, <2>4 DEF Environment
<1>2. Callers'
  BY <1>1 DEF Callers, BeforeStart, InStart
<1> QED
  BY <1>1, <1>2, QuietStep DEF Outside, BeforeStart, Dead, InStart

---------------------------------------------------------------------------
(* The invariant holds throughout.                                          *)
LEMMA Inductive ==
    ASSUME IInv, [Next]_vars
    PROVE  IInv'
<1>1. CASE SetupBinderOrCrash("binder", binder_fd, "hwbinder")
  BY <1>1, BinderStep
<1>2. CASE SetupBinderOrCrash("hwbinder", hw_binder_fd, "start")
  BY <1>2, BinderStep
<1>3. CASE \/ SubscribeToEvents("regulatory", "scan")
           \/ SubscribeToEvents("scan", "mlme")
           \/ SubscribeToEvents("mlme", "done")
  BY <1>3, SubscribeStep
<1>4. CASE Main
  BY <1>1, <1>2, <1>3, <1>4, SyncStep, AsyncStep, DiscoverStep, WatchStep, FeaturesStep,
     OtherMainStep DEF Main
<1>5. CASE UNCHANGED vars
  <2>1. Quiet /\ pc' = pc /\ caller' = caller
    BY <1>5 DEF vars, kernelVars, Quiet
  <2>2. Callers'
    BY <2>1 DEF IInv, Callers
  <2> QED
    BY <2>1, <2>2, QuietStep
<1> QED
  BY <1>4, <1>5, EnvironmentStep DEF Next

LEMMA Start0 ==
    ASSUME Init
    PROVE  IInv
<1>1. Types
  <2>1. message_type \in [known : BOOLEAN, family_id : {NL80211Id, NoId},
                          groups : SUBSET Groups]
    BY DEF Init, Unknown
  <2> QED
    BY <2>1 DEF Init, Types
<1>2. Callers /\ Descriptors /\ Progress
  BY DEF Init, Callers, Descriptors, Progress, BeforeStart, InStart, NoFd, binder_fd,
         hw_binder_fd
<1>3. FamilyKnown
  BY DEF Init, Unknown, FamilyKnown
<1>4. NoSocketIsLeftBehind /\ StartedMeansListening
  BY DEF Init, NoSocketIsLeftBehind, StartedMeansListening
<1> QED
  BY <1>1, <1>2, <1>3, <1>4 DEF IInv

LEMMA Invariant == Spec => []IInv
<1>1. Init => IInv
  BY Start0
<1>2. IInv /\ [Next]_vars => IInv'
  BY Inductive
<1> QED
  BY <1>1, <1>2, PTL DEF Spec

(* For any groups and any number of signals: when NetlinkManager::Start has *)
(* set started_, at whichever of the three attempts and whatever the others *)
(* left half done, the event socket is open, watched and in all three       *)
(* groups, the socket for requests is another one and not watched, and      *)
(* requests carry the kernel's family number.                               *)
THEOREM StartedListens == Spec => []StartedMeansListening
<1>1. IInv => StartedMeansListening
  BY DEF IInv
<1> QED
  BY <1>1, Invariant, PTL

(* No failed attempt leaves a socket open, in epoll or in a group.          *)
THEOREM NothingIsLeftBehind == Spec => []NoSocketIsLeftBehind
<1>1. IInv => NoSocketIsLeftBehind
  BY DEF IInv
<1> QED
  BY <1>1, Invariant, PTL
=============================================================================
