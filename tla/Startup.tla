------------------------------ MODULE Startup ------------------------------
(***************************************************************************)
(* main.cpp: wificond from its first line to the event loop and out of it    *)
(* again, with NetlinkManager::Start (net/netlink_manager.cpp), which a      *)
(* failed main leaves to the constructors of NetlinkUtils and ScanUtils to   *)
(* try again, and the loop (looper_backed_event_loop.cpp).                   *)
(*                                                                           *)
(* There is one thread.  Beside it run the kernel, whose nl80211 family may  *)
(* appear late, the clients of the service, and signals.  The looper and     *)
(* epoll are external: closing a descriptor takes it out of epoll and not    *)
(* out of the looper's table, and its number is given to the next socket.    *)
(* The looper has a lock; a signal handler that posts a task while the       *)
(* thread it interrupted holds it waits for itself.                          *)
(***************************************************************************)
EXTENDS Naturals, FiniteSets, FiniteSetsExt

CONSTANTS
    Groups,      \* the multicast groups "regulatory", "scan", "mlme"
    NL80211Id,   \* the number the kernel gives the family
    NoId,        \* a family_id nobody initialised
    MaxSignals

ASSUME StartupAssumption ==
    /\ {"regulatory", "scan", "mlme"} \subseteq Groups
    /\ NL80211Id # NoId
    /\ MaxSignals \in Nat

Fds == 1 .. 6    \* enough: at most five descriptors are open at a time
NoFd == 0

VARIABLES
    pc,               \* what the thread does next
    caller,           \* who called Start: 1 main, 2 NetlinkUtils, 3 ScanUtils
    started,          \* started_
    sync_fd, async_fd,
    message_type,     \* message_types_["nl80211"]: [known, family_id, groups]
    should_continue,
    registered,       \* is the service with the service manager?
    open,             \* descriptors in use, the two of binder included
    watched,          \* those in epoll
    looper_table,     \* those the looper has a callback for
    member,           \* per descriptor the groups it has joined
    ready,            \* descriptors with something to read
    tasks,            \* tasks posted and not yet run
    family_exists,    \* has the kernel an nl80211 family?
    signals           \* signals so far

netlinkVars == <<started, sync_fd, async_fd, message_type>>
kernelVars == <<open, watched, looper_table, member, ready>>
loopVars == <<should_continue, tasks>>
vars == <<pc, caller, netlinkVars, registered, kernelVars, loopVars, family_exists, signals>>

binder_fd == 1
hw_binder_fd == 2

Unknown == [known |-> FALSE, family_id |-> NoId, groups |-> {}]

Init ==
    /\ pc = "handler"
    /\ caller = 0
    /\ started = FALSE
    /\ sync_fd = NoFd /\ async_fd = NoFd
    /\ message_type = Unknown
    /\ should_continue = TRUE
    /\ registered = FALSE
    /\ open = {} /\ watched = {} /\ looper_table = {} /\ ready = {}
    /\ member = [fd \in Fds |-> {}]
    /\ tasks = 0
    /\ family_exists \in BOOLEAN
    /\ signals = 0

-----------------------------------------------------------------------------
(* The event loop *)

(* Mutant: the flag is set where the signal is handled, and nothing wakes up. *)
TriggerExitWithoutTask == should_continue' = FALSE /\ UNCHANGED tasks

\* PostTask of a task that ends the loop.  The task wakes the looper.
TriggerExit == tasks' = tasks + 1 /\ UNCHANGED should_continue

\* An old callback for the same number is replaced.
WatchFileDescriptor(fd) ==
    /\ watched' = watched \cup {fd}
    /\ looper_table' = looper_table \cup {fd}

Poll ==
    /\ pc = "poll"
    /\ pc' = IF should_continue THEN "pollOnce" ELSE "exit"
    /\ UNCHANGED <<caller, netlinkVars, registered, kernelVars, loopVars, family_exists,
                   signals>>

\* Waits until there is something, runs the tasks, then the callbacks of the
\* descriptors that are ready.
pollOnce ==
    /\ pc = "pollOnce"
    /\ tasks > 0 \/ ready \cap watched # {}
    /\ should_continue' = (should_continue /\ tasks = 0)
    /\ tasks' = 0
    /\ ready' = ready \ watched
    /\ pc' = "poll"
    /\ UNCHANGED <<caller, netlinkVars, registered, open, watched, looper_table, member,
                   family_exists, signals>>

-----------------------------------------------------------------------------
(* Start *)

Step(from, to) == pc = from /\ pc' = to

\* Where the constructor, or main, goes on after Start.
AfterStart == CASE caller = 1 -> "start" [] caller = 2 -> "features" [] caller = 3 -> "register"

\* Called by main, and by the two constructors if main's call failed.
Start ==
    /\ pc = "start"
    /\ caller' = caller + 1
    /\ pc' = IF ~started THEN "sync"
             ELSE IF caller + 1 = 2 THEN "features" ELSE "register"
    /\ UNCHANGED <<netlinkVars, registered, kernelVars, loopVars, family_exists, signals>>

StartFails ==
    /\ pc' = AfterStart
    /\ UNCHANGED <<started, caller, registered, loopVars, family_exists, signals>>

Continue(to) ==
    /\ pc' = to
    /\ UNCHANGED <<started, caller, registered, loopVars, family_exists, signals>>

(* Mutant: the old socket is let go of and not closed.                       *)
ResetFdLeaky(old, new) ==
    /\ open' = open \cup ({new} \ {NoFd})
    /\ UNCHANGED <<watched, member, ready, looper_table>>

\* unique_fd::reset: the new socket is there before the old one is closed.
ResetFd(old, new) ==
    /\ open' = (open \ {old}) \cup ({new} \ {NoFd})
    /\ watched' = watched \ {old}
    /\ member' = [fd \in Fds |-> IF fd = old THEN {} ELSE member[fd]]
    /\ ready' = ready \ {old}
    /\ UNCHANGED looper_table

\* The socket that socket() makes, if it makes one.
NewFd == {Min(Fds \ open), NoFd}

\* setsockopt and bind may fail with a socket in hand.
SetupSocketSync ==
    /\ pc = "sync"
    /\ \E new \in NewFd :
          /\ sync_fd' = new
          /\ ResetFd(sync_fd, new)
          /\ StartFails \/ (new # NoFd /\ Continue("async"))
    /\ UNCHANGED <<async_fd, message_type>>

SetupSocketAsync ==
    /\ pc = "async"
    /\ \E new \in NewFd :
          /\ async_fd' = new
          /\ ResetFd(async_fd, new)
          /\ StartFails \/ (new # NoFd /\ Continue("discover"))
    /\ UNCHANGED <<sync_fd, message_type>>

\* OnNewFamily: a packet it cannot read leaves what was known before.
OnNewFamily(groups) == message_type' = [known |-> TRUE, family_id |-> NL80211Id,
                                        groups |-> groups]

\* No answer; an answer; or one that cannot be read, which is only noticed if
\* nothing is known from before.
DiscoverFamilyId ==
    /\ pc = "discover"
    /\ \/ StartFails /\ UNCHANGED message_type
       \/ /\ family_exists
          /\ \E groups \in {Groups, {"regulatory", "scan"}, {}} : OnNewFamily(groups)
          /\ Continue("watch")
       \/ /\ family_exists
          /\ UNCHANGED message_type
          /\ IF message_type.known THEN Continue("watch") ELSE StartFails
    /\ UNCHANGED <<sync_fd, async_fd, kernelVars>>

WatchSocket ==
    /\ pc = "watch"
    /\ \/ WatchFileDescriptor(async_fd) /\ Continue("regulatory")
       \/ UNCHANGED <<watched, looper_table>> /\ StartFails
    /\ UNCHANGED <<sync_fd, async_fd, message_type, open, member, ready>>

(* Mutant: a group that does not exist is logged and skipped.                *)
SubscribeToEventsIfThere(group, next) ==
    /\ pc = group
    /\ member' = [member EXCEPT ![async_fd] = @ \cup ({group} \cap message_type.groups)]
    /\ started' = (next = "done")
    /\ pc' = IF next = "done" THEN AfterStart ELSE next
    /\ UNCHANGED <<caller, registered, loopVars, family_exists, signals, sync_fd, async_fd,
                   message_type, open, watched, looper_table, ready>>

\* started_ is set with the last group.
SubscribeToEvents(group, next) ==
    /\ pc = group
    /\ \/ /\ group \in message_type.groups
          /\ member' = [member EXCEPT ![async_fd] = @ \cup {group}]
          /\ started' = (next = "done")
          /\ pc' = IF next = "done" THEN AfterStart ELSE next
       \/ /\ UNCHANGED <<member, started>>
          /\ pc' = AfterStart
    /\ UNCHANGED <<caller, registered, loopVars, family_exists, signals, sync_fd, async_fd,
                   message_type, open, watched, looper_table, ready>>

-----------------------------------------------------------------------------
(* main *)

ScopedSignalHandler ==
    /\ Step("handler", "binder")
    /\ UNCHANGED <<caller, netlinkVars, registered, kernelVars, loopVars, family_exists,
                   signals>>

\* A CHECK ends the process.
Crash == pc' = "crashed" /\ UNCHANGED <<open, watched, looper_table>>

(* Mutant: a descriptor that is not watched is no reason to stop.             *)
SetupBinderNoCheck(from, fd, to) ==
    /\ pc = from
    /\ open' = open \cup {fd}
    /\ \/ WatchFileDescriptor(fd) \/ UNCHANGED <<watched, looper_table>>
    /\ pc' = to
    /\ UNCHANGED <<caller, netlinkVars, registered, loopVars, member, ready, family_exists,
                   signals>>

SetupBinderOrCrash(from, fd, to) ==
    /\ pc = from
    /\ \/ /\ open' = open \cup {fd}
          /\ WatchFileDescriptor(fd)
          /\ pc' = to
       \/ Crash
    /\ UNCHANGED <<caller, netlinkVars, registered, loopVars, member, ready, family_exists,
                   signals>>

\* The constructor of NetlinkUtils asks for protocol features (see Queries); to
\* name the family it reads message_types_[...], which makes an entry.
ProtocolFeatures ==
    /\ Step("features", "start")
    /\ message_type' = [message_type EXCEPT !.known = TRUE]
    /\ UNCHANGED <<caller, started, sync_fd, async_fd, registered, kernelVars, loopVars,
                   family_exists, signals>>

\* Also without netlink: main only logs that.
RegisterServiceOrCrash ==
    /\ pc = "register"
    /\ \/ registered' = TRUE /\ pc' = "poll"
       \/ UNCHANGED registered /\ pc' = "crashed"
    /\ UNCHANGED <<caller, netlinkVars, kernelVars, loopVars, family_exists, signals>>

-----------------------------------------------------------------------------
(* The world outside *)

Ended == pc \in {"exit", "crashed", "killed"}

\* The signal handler waits for the lock of the thread it interrupted.
SelfDeadlock == pc = "stuck"

FamilyAppears ==
    /\ ~family_exists
    /\ family_exists' = TRUE
    /\ UNCHANGED <<pc, caller, netlinkVars, registered, kernelVars, loopVars, signals>>

Arrives(fds) ==
    /\ ~Ended /\ ~SelfDeadlock
    /\ ~(fds \subseteq ready)
    /\ ready' = ready \cup fds
    /\ UNCHANGED <<pc, caller, netlinkVars, registered, open, watched, looper_table, member,
                   loopVars, family_exists, signals>>

ClientCalls == registered /\ Arrives({binder_fd})

KernelEvent(group) == Arrives({fd \in open : group \in member[fd]})

\* Before the handler is installed the default action applies.
SignalKills ==
    /\ pc = "handler"
    /\ pc' = "killed"
    /\ UNCHANGED <<caller, netlinkVars, registered, kernelVars, loopVars, family_exists,
                   signals>>

LeaveLoop ==
    /\ ~Ended /\ ~SelfDeadlock /\ pc # "handler"
    /\ signals < MaxSignals
    /\ signals' = signals + 1
    /\ TriggerExit
    /\ UNCHANGED <<pc, caller, netlinkVars, registered, kernelVars, family_exists>>

\* The steps that take the looper's lock, interrupted while they hold it.
LeaveLoopInLock ==
    /\ pc \in {"binder", "hwbinder", "watch", "pollOnce"}
    /\ signals < MaxSignals
    /\ signals' = signals + 1
    /\ pc' = "stuck"
    /\ UNCHANGED <<caller, netlinkVars, registered, kernelVars, loopVars, family_exists>>

-----------------------------------------------------------------------------

Main ==
    \/ ScopedSignalHandler
    \/ SetupBinderOrCrash("binder", binder_fd, "hwbinder")
    \/ SetupBinderOrCrash("hwbinder", hw_binder_fd, "start")
    \/ Start
    \/ SetupSocketSync \/ SetupSocketAsync \/ DiscoverFamilyId \/ WatchSocket
    \/ SubscribeToEvents("regulatory", "scan")
    \/ SubscribeToEvents("scan", "mlme")
    \/ SubscribeToEvents("mlme", "done")
    \/ ProtocolFeatures
    \/ RegisterServiceOrCrash
    \/ Poll \/ pollOnce

Environment ==
    \/ FamilyAppears
    \/ ClientCalls
    \/ \E group \in Groups : KernelEvent(group)
    \/ SignalKills \/ LeaveLoop \/ LeaveLoopInLock

Next == Main \/ Environment

\* The thread is scheduled.  Nothing is assumed of the kernel, clients, signals.
Spec == Init /\ [][Next]_vars /\ WF_vars(Main)

-----------------------------------------------------------------------------
(* Properties *)

\* A NetlinkManager that says it is started, be it at the third attempt, hears all
\* three groups: its event socket is open, in epoll and with the looper, is a member
\* of each, and requests carry the kernel's number; the socket for requests is
\* another one, which the loop does not read from.
StartedMeansListening ==
    started =>
      /\ async_fd \in open \cap watched \cap looper_table
      /\ member[async_fd] = {"regulatory", "scan", "mlme"}
      /\ message_type.family_id = NL80211Id
      /\ sync_fd \in open \ watched
      /\ member[sync_fd] = {}

\* Whatever attempts failed before, each half way, no socket of theirs stays open,
\* none is still a member of a group that nobody reads, and the loop waits for no
\* descriptor that is closed or that is the one for requests.
NoSocketIsLeftBehind ==
    /\ open \subseteq {binder_fd, hw_binder_fd, sync_fd, async_fd}
    /\ watched \subseteq open \ {sync_fd}
    /\ \A fd \in Fds : member[fd] # {} => fd = async_fd /\ fd \in watched

\* The loop runs with all that main needs of it: no client waits on a descriptor
\* that nobody reads, and with or without netlink every call and every event that
\* arrives is dispatched, or the process ends (or hangs as below).
ArrivalsAreDispatched ==
    \A fd \in Fds : fd \in ready ~> (fd \notin ready \/ Ended \/ SelfDeadlock)

\* SIGINT and SIGTERM end the process wherever it is: in the loop, asleep in it, or
\* long before it.  There is one way around it, which ScopedSignalHandler really has:
\* LeaveLoop takes the looper's lock, and a signal that finds it taken by the very
\* thread it interrupts hangs the process.
SignalEndsTheProcess == (signals > 0) ~> (Ended \/ SelfDeadlock)
=============================================================================
