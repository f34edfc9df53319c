------------------------- MODULE InterfaceLifecycle -------------------------
(***************************************************************************)
(* server.cpp: the objects wificond makes for interfaces, from creation to  *)
(* destruction, with what their constructors and destructors do to the      *)
(* handler maps of NetlinkManager, to the interfaces themselves and to the  *)
(* callbacks of the framework.                                              *)
(*                                                                          *)
(* A client object subscribes to scan results, scheduled scan results and   *)
(* MLME events, an AP object to station and channel switch events; the maps *)
(* of one kind are always changed together and are one map here.  They are  *)
(* keyed by interface index, the server's maps by the name asked for.       *)
(***************************************************************************)
EXTENDS Naturals, FiniteSets

CONSTANTS
    Names,        \* names of interfaces
    Unusable,     \* p2p0, aware_data*: never a substitute for another name
    WifiInterface,  \* the interface of InterfaceTool::SetWifiUpState, which
                  \* is given no name (external)
    Callbacks,    \* IInterfaceEventCallback objects of the framework
    NoObject,     \* no object under a name
    MaxObjects,   \* bound on the objects made
    MaxIndex,     \* bound on the interface indices the kernel hands out
    MaxWiphy      \* bound on the wiphy indices it hands out

Kind == {"client", "ap"}
Object == [id : 1..MaxObjects, iface : Names, index : 1..MaxIndex]

ASSUME LifecycleAssumption ==
    /\ MaxObjects \in Nat /\ MaxIndex \in Nat /\ MaxWiphy \in Nat \ {0}
    /\ Unusable \subseteq Names
    /\ WifiInterface \in Names
    /\ NoObject \notin Object

VARIABLES
    interfaces,      \* client_interfaces_ and ap_interfaces_, by kind
    handlers,        \* per kind and index, the object subscribed, or 0
    next_id,
    wiphy_index,
    reg_handlers,    \* wiphy indices with a regulatory handler
    interface_event_callbacks,
    valid,           \* the ids of the client objects whose scanner is valid_
    kernel_index,    \* per name, its index, 0 if there is no such interface
    next_index,
    kernel_wiphy,    \* index of the wiphy, 0 while the driver is not loaded
    up,              \* the interfaces that are up
    believed,        \* history: per callback, the objects it was told of and
                     \* has not been told the end of
    disciplined,     \* history: each interface was asked for while it existed
                     \* and while no object was held under its name
    dangling         \* history: a freed object was used

serverVars == <<interfaces, next_id, wiphy_index, interface_event_callbacks>>
netlinkVars == <<handlers, reg_handlers>>
kernelVars == <<kernel_index, next_index, kernel_wiphy, up>>
vars == <<serverVars, netlinkVars, kernelVars, valid, believed, disciplined,
          dangling>>

TypeOK ==
    /\ interfaces \in [Kind -> [Names -> Object \cup {NoObject}]]
    /\ handlers \in [Kind -> [1..MaxIndex -> 0..MaxObjects]]
    /\ next_id \in 1..(MaxObjects + 1)
    /\ wiphy_index \in 0..MaxWiphy
    /\ reg_handlers \subseteq 1..MaxWiphy
    /\ interface_event_callbacks \subseteq Callbacks
    /\ valid \subseteq 1..MaxObjects
    /\ kernel_index \in [Names -> 0..MaxIndex]
    /\ next_index \in 1..(MaxIndex + 1)
    /\ kernel_wiphy \in 0..MaxWiphy
    /\ up \subseteq Names
    /\ believed \in [Callbacks -> SUBSET (1..MaxObjects)]
    /\ disciplined \in BOOLEAN
    /\ dangling \in BOOLEAN

(* wiphy_index_ is not initialised; 0 stands for what happens to be there.  *)
Init ==
    /\ interfaces = [k \in Kind |-> [n \in Names |-> NoObject]]
    /\ handlers = [k \in Kind |-> [i \in 1..MaxIndex |-> 0]]
    /\ next_id = 1
    /\ wiphy_index = 0
    /\ reg_handlers = {}
    /\ interface_event_callbacks = {}
    /\ valid = {}
    /\ kernel_index = [n \in Names |-> 0]
    /\ next_index = 1
    /\ kernel_wiphy = 1
    /\ up = {}
    /\ believed = [c \in Callbacks |-> {}]
    /\ disciplined = TRUE
    /\ dangling = FALSE

Exists(n) == kernel_index[n] # 0

---------------------------------------------------------------------------
(* Mutant: the name is taken without looking for it.                        *)
SetupInterface_Unchecked(n) == {n}

(* SetupInterface: the interface that will be used for name n.  One that    *)
(* does not exist is replaced by any other usable one.                      *)
SetupInterface(n) ==
    IF Exists(n) THEN {n} ELSE {m \in Names \ Unusable : Exists(m)}

(* Mutant: the regulatory handler is registered the first time only.        *)
WiphyRefreshed_Once ==
    /\ kernel_wiphy # 0
    /\ wiphy_index' = kernel_wiphy
    /\ reg_handlers' = IF reg_handlers = {} THEN {kernel_wiphy}
                       ELSE reg_handlers

(* RefreshWiphyIndex succeeds and the regulatory handler is registered.     *)
WiphyRefreshed ==
    /\ kernel_wiphy # 0
    /\ wiphy_index' = kernel_wiphy
    /\ reg_handlers' = reg_handlers \cup {kernel_wiphy}

(* What a constructor does to the maps, and then the destructor of the      *)
(* object it replaces under the same name, if there is one.                 *)
Subscribed(map, new, old) ==
    LET map1 == [map EXCEPT ![new.index] = new.id] IN
    IF old = NoObject THEN map1 ELSE [map1 EXCEPT ![old.index] = 0]

Told(c, o) == IF c \in interface_event_callbacks
              THEN believed[c] \cup {o.id} ELSE believed[c]

(* Creation that succeeds.  The Broadcast precedes the assignment that      *)
(* destroys the old object, whose end is not announced.                     *)
CreateInterface(k, n) ==
    /\ next_id <= MaxObjects
    /\ WiphyRefreshed
    /\ \E m \in SetupInterface(n) :
          LET new == [id |-> next_id, iface |-> m, index |-> kernel_index[m]]
              old == interfaces[k][n]
          IN
          /\ interfaces' = [interfaces EXCEPT ![k][n] = new]
          /\ handlers' = [handlers EXCEPT ![k] = Subscribed(@, new, old)]
          /\ up' = IF old = NoObject THEN up ELSE up \ {old.iface}
          /\ believed' = [c \in Callbacks |-> Told(c, new)]
    /\ next_id' = next_id + 1
    /\ valid' = IF k = "client" THEN valid \cup {next_id} ELSE valid
    /\ UNCHANGED <<interface_event_callbacks, kernel_index, next_index,
                   kernel_wiphy, dangling>>

(* Creation that fails: no wiphy, no answer to the dump, or no interface    *)
(* that would do.                                                           *)
CreateFails ==
    /\ \/ WiphyRefreshed
       \/ UNCHANGED <<wiphy_index, reg_handlers>>
    /\ UNCHANGED <<interfaces, handlers, next_id, interface_event_callbacks,
                   kernelVars, valid, believed, dangling>>

(* A name the framework may ask for if it is disciplined.                   *)
MayAskFor(n) ==
    Exists(n) /\ \A k \in Kind : interfaces[k][n] = NoObject

Create(k, n) ==
    /\ CreateInterface(k, n) \/ CreateFails
    /\ disciplined' = (disciplined /\ MayAskFor(n))

createApInterface(n) == Create("ap", n)
createClientInterface(n) == Create("client", n)

---------------------------------------------------------------------------
(* Mutant: the destructor forgets its subscriptions.                        *)
Unsubscribed_Not(map, gone) == map

(* Mutant: the map is cleared, not the key erased.                          *)
Unsubscribed_All(map, gone) == [i \in 1..MaxIndex |-> 0]

(* The maps after the objects in gone have been destroyed.                  *)
Unsubscribed(map, gone) ==
    [i \in 1..MaxIndex |->
        IF \E o \in gone : o.index = i THEN 0 ELSE map[i]]

(* The objects of kind k.                                                   *)
Objects(k) == {interfaces[k][n] : n \in Names} \ {NoObject}

(* Mutant: the end of an interface is announced after it is erased, to      *)
(* nobody.                                                                  *)
Broadcast_Late(gone) ==
    UNCHANGED believed

(* BroadcastClientInterfaceTornDown and BroadcastApInterfaceTornDown.       *)
Broadcast(gone) ==
    believed' = [c \in Callbacks |->
                    IF c \in interface_event_callbacks
                    THEN believed[c] \ {o.id : o \in gone}
                    ELSE believed[c]]

(* Mutant: every interface is taken down with each object.                  *)
UpAfter_MarkDownAll(gone) == {}

(* The destructors take their own interface down.                           *)
UpAfter(gone) == up \ {o.iface : o \in gone}

(* Invalidate, called by the destructor of a client object, unsubscribes    *)
(* the scanner and leaves valid_ as it is.                                  *)
TearDown(k, n) ==
    LET gone == {interfaces[k][n]} IN
    /\ interfaces[k][n] # NoObject
    /\ interfaces' = [interfaces EXCEPT ![k][n] = NoObject]
    /\ handlers' = [handlers EXCEPT ![k] = Unsubscribed(@, gone)]
    /\ up' = UpAfter(gone)
    /\ Broadcast(gone)
    /\ UNCHANGED <<next_id, wiphy_index, interface_event_callbacks,
                   reg_handlers, kernel_index, next_index, kernel_wiphy,
                   valid, disciplined, dangling>>

tearDownApInterface(n) == TearDown("ap", n)
tearDownClientInterface(n) == TearDown("client", n)

(* tearDownInterfaces, with MarkDownAllInterfaces, which takes down what    *)
(* the kernel lists if it answers.                                          *)
tearDownInterfaces ==
    LET gone == Objects("client") \cup Objects("ap") IN
    /\ interfaces' = [k \in Kind |-> [n \in Names |-> NoObject]]
    /\ handlers' = [k \in Kind |-> Unsubscribed(handlers[k], Objects(k))]
    /\ up' \in {UpAfter(gone), {}}
    /\ Broadcast(gone)
    /\ reg_handlers' = reg_handlers \ {wiphy_index}
    /\ UNCHANGED <<next_id, wiphy_index, interface_event_callbacks,
                   kernel_index, next_index, kernel_wiphy, valid,
                   disciplined, dangling>>

RegisterCallback(c) ==
    /\ c \notin interface_event_callbacks
    /\ interface_event_callbacks' = interface_event_callbacks \cup {c}
    /\ UNCHANGED <<interfaces, next_id, wiphy_index, netlinkVars, kernelVars,
                   valid, believed, disciplined, dangling>>

UnregisterCallback(c) ==
    /\ c \in interface_event_callbacks
    /\ interface_event_callbacks' = interface_event_callbacks \ {c}
    /\ believed' = [believed EXCEPT ![c] = {}]
    /\ UNCHANGED <<interfaces, next_id, wiphy_index, netlinkVars, kernelVars,
                   valid, disciplined, dangling>>

---------------------------------------------------------------------------
(* Calls on an object that take an interface down and leave the object in   *)
(* place.  Each is a sequence of steps of which any may fail and end it.    *)

(* StopHostapd: stop hostapd, take the interface down, set the mode.        *)
stopHostapd(n) ==
    /\ interfaces["ap"][n] # NoObject
    /\ up' \in {up, up \ {interfaces["ap"][n].iface}}
    /\ UNCHANGED <<serverVars, netlinkVars, kernel_index, next_index,
                   kernel_wiphy, valid, believed, disciplined, dangling>>

(* SetMacAddress: take the Wi-Fi interface down, give the object's own      *)
(* interface the address, take the Wi-Fi interface up.                      *)
setMacAddress(n) ==
    /\ interfaces["client"][n] # NoObject
    /\ \/ up' = up
       \/ Exists(WifiInterface)
          /\ up' \in {up \ {WifiInterface}, up \cup {WifiInterface}}
    /\ UNCHANGED <<serverVars, netlinkVars, kernel_index, next_index,
                   kernel_wiphy, valid, believed, disciplined, dangling>>

---------------------------------------------------------------------------
(* The framework uses the scanner of client object id, whose binder it may  *)
(* have kept: after CheckIsValid, scan asks client_interface_ whether it is *)
(* associated.                                                              *)
CheckIsValid(id) == id \in valid

IsLive(k, id) == \E o \in Objects(k) : o.id = id

scan(id) ==
    /\ CheckIsValid(id)
    /\ dangling' = (dangling \/ ~IsLive("client", id))
    /\ UNCHANGED <<serverVars, netlinkVars, kernelVars, valid, believed,
                   disciplined>>

---------------------------------------------------------------------------
(* The kernel, the driver and the other processes.                          *)
InterfaceAppears(n) ==
    /\ kernel_wiphy # 0
    /\ ~Exists(n)
    /\ next_index <= MaxIndex
    /\ kernel_index' = [kernel_index EXCEPT ![n] = next_index]
    /\ next_index' = next_index + 1
    /\ UNCHANGED <<kernel_wiphy, up>>

InterfaceVanishes(n) ==
    /\ Exists(n)
    /\ kernel_index' = [kernel_index EXCEPT ![n] = 0]
    /\ up' = up \ {n}
    /\ UNCHANGED <<next_index, kernel_wiphy>>

InterfaceComesUp(n) ==
    /\ Exists(n)
    /\ up' = up \cup {n}
    /\ UNCHANGED <<kernel_index, next_index, kernel_wiphy>>

(* The driver is loaded again and its wiphy has another index.              *)
DriverReloads ==
    /\ kernel_wiphy < MaxWiphy
    /\ kernel_wiphy' = kernel_wiphy + 1
    /\ kernel_index' = [n \in Names |-> 0]
    /\ up' = {}
    /\ UNCHANGED next_index

KernelStep ==
    /\ \/ \E n \in Names : InterfaceAppears(n)
       \/ \E n \in Names : InterfaceVanishes(n)
       \/ \E n \in Names : InterfaceComesUp(n)
       \/ DriverReloads
    /\ UNCHANGED <<serverVars, netlinkVars, valid, believed, disciplined,
                   dangling>>

FrameworkStep ==
    \/ \E n \in Names : createApInterface(n)
    \/ \E n \in Names : createClientInterface(n)
    \/ \E n \in Names : tearDownApInterface(n)
    \/ \E n \in Names : tearDownClientInterface(n)
    \/ tearDownInterfaces
    \/ \E n \in Names : stopHostapd(n)
    \/ \E n \in Names : setMacAddress(n)
    \/ \E c \in Callbacks : RegisterCallback(c)
    \/ \E c \in Callbacks : UnregisterCallback(c)
    \/ \E id \in 1..MaxObjects : scan(id)

Next == FrameworkStep \/ KernelStep

Spec == Init /\ [][Next]_vars

---------------------------------------------------------------------------
(* A handler that NetlinkManager would call belongs to an object that the   *)
(* server still holds, made for that index: whatever is created over what,  *)
(* no event is ever dispatched to a destroyed ClientInterfaceImpl,          *)
(* ScannerImpl or ApInterfaceImpl (all three are raw pointers there).       *)
HandlersAreAlive ==
    \A k \in Kind, i \in 1..MaxIndex :
        handlers[k][i] # 0 =>
            \E o \in Objects(k) : o.id = handlers[k][i] /\ o.index = i

(* As long as the framework asks for interfaces that exist and tears down   *)
(* before it creates again, every object the server holds receives the      *)
(* events of its interface.                                                 *)
ObjectsHear ==
    disciplined =>
        \A k \in Kind : \A o \in Objects(k) : handlers[k][o.index] = o.id

(* With the same discipline a callback is never left believing in an        *)
(* interface that wificond has destroyed.                                   *)
CallbacksAreAccurate ==
    disciplined =>
        \A c \in interface_event_callbacks :
            \A id \in believed[c] : \E k \in Kind : IsLive(k, id)

(* The calls that are meant to take down the interface of object o, held    *)
(* under n and left in place: StopHostapd on the object itself, and         *)
(* SetMacAddress on any client object if o uses the Wi-Fi interface.        *)
MeantToGoDown(k, n, o) ==
    \/ k = "ap" /\ stopHostapd(n)
    \/ o.iface = WifiInterface /\ \E m \in Names : setMacAddress(m)

(* With the same discipline creations and tear downs never take down an     *)
(* interface whose object they leave in place; of all calls, only           *)
(* StopHostapd on that object does, and SetMacAddress, the latter only to   *)
(* the one interface of SetWifiUpState.                                     *)
NoCollateralDown ==
    [][FrameworkStep /\ disciplined' =>
          \A k \in Kind, n \in Names :
              LET o == interfaces[k][n] IN
              /\ o # NoObject /\ interfaces'[k][n] = o
              /\ o.iface \in up /\ o.iface \notin up'
              => MeantToGoDown(k, n, o)]_vars

(* While there is an object, a regulatory change of the wiphy that wificond *)
(* last found reaches the server: tearDownInterfaces, the only step that    *)
(* unsubscribes, leaves no object behind.                                   *)
RegDomainIsHeard ==
    (\E k \in Kind : Objects(k) # {}) => wiphy_index \in reg_handlers

---------------------------------------------------------------------------
(* scanner_impl.cpp "Calling on a invalid scanner object. Underlying client *)
(* interface object was destroyed.": scan is refused then.                  *)
DeadScannerRefuses == ~dangling
=============================================================================
