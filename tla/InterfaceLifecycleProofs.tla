---------------------- MODULE InterfaceLifecycleProofs ----------------------
(***************************************************************************)
(* The handler maps of NetlinkManager and the objects of the server.  That  *)
(* no handler outlives its object is inductive with the types alone: every  *)
(* object that goes takes the handler under its own index with it.  That    *)
(* every object has its handler needs the framework's discipline, and that  *)
(* the kernel never hands out an index twice.  With that discipline the     *)
(* objects also have their names to themselves, on which rest what the      *)
(* callbacks believe and which interfaces stay up.                          *)
(***************************************************************************)
EXTENDS InterfaceLifecycle, TLAPS

(* The part of TypeOK that the handler maps depend on.                      *)
MapsOK ==
    /\ interfaces \in [Kind -> [Names -> Object \cup {NoObject}]]
    /\ handlers \in [Kind -> [1..MaxIndex -> 0..MaxObjects]]
    /\ next_id \in 1..(MaxObjects + 1)
    /\ kernel_index \in [Names -> 0..MaxIndex]
    /\ next_index \in 1..(MaxIndex + 1)

HasObject(k, n) == interfaces[k][n] # NoObject

(* HandlersAreAlive, by the name of the object.                             *)
HandlersByName ==
    \A k \in Kind, i \in 1..MaxIndex :
        handlers[k][i] # 0 =>
            \E n \in Names : /\ HasObject(k, n)
                             /\ interfaces[k][n].id = handlers[k][i]
                             /\ interfaces[k][n].index = i

AliveInv == MapsOK /\ HandlersByName

(* It says what the property says.                                          *)
LEMMA AliveImplies == AliveInv => HandlersAreAlive
BY DEF AliveInv, HandlersByName, HandlersAreAlive, Objects, HasObject, Kind

mapVars == <<interfaces, handlers, next_id>>

(* What the calls that take an interface down with its object in place      *)
(* leave as it is.                                                          *)
LEMMA CallsKeepObjects ==
    ASSUME NEW n \in Names, stopHostapd(n) \/ setMacAddress(n)
    PROVE  /\ UNCHANGED <<interfaces, handlers, next_id, kernel_index, next_index>>
           /\ UNCHANGED <<wiphy_index, reg_handlers, interface_event_callbacks,
                          kernel_wiphy, valid, believed, disciplined, dangling>>
           /\ up' \subseteq up \cup {WifiInterface}
BY DEF stopHostapd, setMacAddress, serverVars, netlinkVars

(* What a step of the kernel does to the types.                             *)
LEMMA KernelKeepsTypes ==
    ASSUME MapsOK, KernelStep
    PROVE  /\ kernel_index' \in [Names -> 0..MaxIndex]
           /\ next_index' \in 1..(MaxIndex + 1)
           /\ UNCHANGED mapVars
<1> USE LifecycleAssumption DEF MapsOK
<1>1. UNCHANGED mapVars
  BY DEF KernelStep, serverVars, netlinkVars, mapVars
<1>2. ASSUME NEW n \in Names, InterfaceAppears(n)
      PROVE  /\ kernel_index' \in [Names -> 0..MaxIndex]
             /\ next_index' \in 1..(MaxIndex + 1)
  <2>1. next_index \in 0..MaxIndex /\ next_index + 1 \in 1..(MaxIndex + 1)
    BY <1>2 DEF InterfaceAppears
  <2> QED
    BY <1>2, <2>1 DEF InterfaceAppears
<1>3. ASSUME NEW n \in Names, InterfaceVanishes(n)
      PROVE  /\ kernel_index' \in [Names -> 0..MaxIndex]
             /\ next_index' \in 1..(MaxIndex + 1)
  BY <1>3 DEF InterfaceVanishes
<1>4. ASSUME NEW n \in Names, InterfaceComesUp(n)
      PROVE  /\ kernel_index' \in [Names -> 0..MaxIndex]
             /\ next_index' \in 1..(MaxIndex + 1)
  BY <1>4 DEF InterfaceComesUp
<1>5. ASSUME DriverReloads
      PROVE  /\ kernel_index' \in [Names -> 0..MaxIndex]
             /\ next_index' \in 1..(MaxIndex + 1)
  BY <1>5 DEF DriverReloads
<1> QED
  BY <1>1, <1>2, <1>3, <1>4, <1>5 DEF KernelStep

(* Creation: a constructor subscribes, then the destructor of the object    *)
(* that is replaced unsubscribes.                                           *)
LEMMA CreateKeepsAlive ==
    ASSUME AliveInv, NEW k \in Kind, NEW n \in Names, CreateInterface(k, n)
    PROVE  AliveInv'
<1> USE LifecycleAssumption
<1>1. PICK m \in SetupInterface(n) :
        LET new == [id |-> next_id, iface |-> m, index |-> kernel_index[m]]
            old == interfaces[k][n]
        IN  /\ interfaces' = [interfaces EXCEPT ![k][n] = new]
            /\ handlers' = [handlers EXCEPT ![k] = Subscribed(@, new, old)]
  BY DEF CreateInterface
<1> DEFINE new == [id |-> next_id, iface |-> m, index |-> kernel_index[m]]
           old == interfaces[k][n]
<1>2. m \in Names /\ kernel_index[m] \in 1..MaxIndex
  BY DEF SetupInterface, Exists, AliveInv, MapsOK
<1>3. next_id \in 1..MaxObjects /\ next_id' \in 1..(MaxObjects + 1)
  BY DEF CreateInterface, AliveInv, MapsOK
<1>4. new \in Object
  BY <1>2, <1>3 DEF Object
<1>5. old = NoObject \/ old \in Object
  BY DEF AliveInv, MapsOK
<1>6. Subscribed(handlers[k], new, old) \in [1..MaxIndex -> 0..MaxObjects]
  <2>1. handlers[k] \in [1..MaxIndex -> 0..MaxObjects]
    BY DEF AliveInv, MapsOK
  <2>2. new.id \in 0..MaxObjects
    BY <1>3
  <2>3. [handlers[k] EXCEPT ![new.index] = new.id]
            \in [1..MaxIndex -> 0..MaxObjects]
    BY <2>1, <2>2
  <2>4. ASSUME NEW i, NEW map \in [1..MaxIndex -> 0..MaxObjects]
        PROVE  [map EXCEPT ![i] = 0] \in [1..MaxIndex -> 0..MaxObjects]
    <3>1. 0 \in 0..MaxObjects
      OBVIOUS
    <3> QED
      BY <3>1
  <2> QED
    BY <2>3, <2>4 DEF Subscribed
<1>7. MapsOK'
  <2>1. interfaces' \in [Kind -> [Names -> Object \cup {NoObject}]]
    BY <1>1, <1>4 DEF AliveInv, MapsOK
  <2>2. handlers' \in [Kind -> [1..MaxIndex -> 0..MaxObjects]]
    BY <1>1, <1>6 DEF AliveInv, MapsOK
  <2>3. UNCHANGED <<kernel_index, next_index>>
    BY DEF CreateInterface
  <2> QED
    BY <1>3, <2>1, <2>2, <2>3 DEF AliveInv, MapsOK
<1>8. HandlersByName'
  <2> SUFFICES ASSUME NEW q \in Kind, NEW i \in 1..MaxIndex,
                      handlers'[q][i] # 0
               PROVE  \E x \in Names : /\ interfaces'[q][x] # NoObject
                                       /\ interfaces'[q][x].id = handlers'[q][i]
                                       /\ interfaces'[q][x].index = i
    BY DEF HandlersByName, HasObject
  <2>1. CASE q # k
    <3>1. interfaces'[q] = interfaces[q] /\ handlers'[q] = handlers[q]
      BY <1>1, <2>1 DEF AliveInv, MapsOK
    <3> QED
      BY <3>1 DEF AliveInv, HandlersByName, HasObject
  <2>2. CASE q = k
    <3>1. handlers'[k] = Subscribed(handlers[k], new, old)
      BY <1>1 DEF AliveInv, MapsOK
    <3>2. /\ interfaces'[k][n] = new
          /\ \A x \in Names \ {n} : interfaces'[k][x] = interfaces[k][x]
      BY <1>1 DEF AliveInv, MapsOK
    <3>3. CASE i = new.index
      <4>1. handlers'[k][i] = new.id
        BY <2>2, <3>1, <3>3, <1>5 DEF Subscribed, AliveInv, MapsOK
      <4>2. new # NoObject
        BY <1>4
      <4> QED
        BY <2>2, <3>2, <3>3, <4>1, <4>2
    <3>4. CASE i # new.index
      <4>1. handlers'[k][i] = handlers[k][i] /\ (old = NoObject \/ old.index # i)
        BY <2>2, <3>1, <3>4, <1>5 DEF Subscribed, AliveInv, MapsOK
      <4>2. PICK x \in Names : /\ HasObject(k, x)
                               /\ interfaces[k][x].id = handlers[k][i]
                               /\ interfaces[k][x].index = i
        BY <2>2, <4>1 DEF AliveInv, HandlersByName
      <4>3. x # n
        BY <4>1, <4>2 DEF HasObject
      <4> QED
        BY <2>2, <3>2, <4>1, <4>2, <4>3 DEF HasObject
    <3> QED
      BY <3>3, <3>4
  <2> QED
    BY <2>1, <2>2
<1> QED
  BY <1>7, <1>8 DEF AliveInv

(* Destruction of one object.                                               *)
LEMMA TearDownKeepsAlive ==
    ASSUME AliveInv, NEW k \in Kind, NEW n \in Names, TearDown(k, n)
    PROVE  AliveInv'
<1> DEFINE gone == {interfaces[k][n]}
<1>1. /\ interfaces' = [interfaces EXCEPT ![k][n] = NoObject]
      /\ handlers' = [handlers EXCEPT ![k] = Unsubscribed(@, gone)]
      /\ UNCHANGED <<next_id, kernel_index, next_index>>
  BY DEF TearDown
<1>2. Unsubscribed(handlers[k], gone) \in [1..MaxIndex -> 0..MaxObjects]
  BY LifecycleAssumption DEF Unsubscribed, AliveInv, MapsOK
<1>3. MapsOK'
  BY <1>1, <1>2 DEF AliveInv, MapsOK
<1>4. HandlersByName'
  <2> SUFFICES ASSUME NEW q \in Kind, NEW i \in 1..MaxIndex,
                      handlers'[q][i] # 0
               PROVE  \E x \in Names : /\ interfaces'[q][x] # NoObject
                                       /\ interfaces'[q][x].id = handlers'[q][i]
                                       /\ interfaces'[q][x].index = i
    BY DEF HandlersByName, HasObject
  <2>1. CASE q # k
    <3>1. interfaces'[q] = interfaces[q] /\ handlers'[q] = handlers[q]
      BY <1>1, <2>1 DEF AliveInv, MapsOK
    <3> QED
      BY <3>1 DEF AliveInv, HandlersByName, HasObject
  <2>2. CASE q = k
    <3>1. handlers'[k] = Unsubscribed(handlers[k], gone)
      BY <1>1 DEF AliveInv, MapsOK
    <3>2. \A x \in Names \ {n} : interfaces'[k][x] = interfaces[k][x]
      BY <1>1 DEF AliveInv, MapsOK
    <3>3. handlers'[k][i] = handlers[k][i] /\ interfaces[k][n].index # i
      BY <2>2, <3>1 DEF Unsubscribed
    <3>4. PICK x \in Names : /\ HasObject(k, x)
                             /\ interfaces[k][x].id = handlers[k][i]
                             /\ interfaces[k][x].index = i
      BY <2>2, <3>3 DEF AliveInv, HandlersByName
    <3> QED
      BY <2>2, <3>2, <3>3, <3>4 DEF HasObject
  <2> QED
    BY <2>1, <2>2
<1> QED
  BY <1>3, <1>4 DEF AliveInv

(* Destruction of all objects.                                              *)
LEMMA TearDownAllKeepsAlive ==
    ASSUME AliveInv, tearDownInterfaces
    PROVE  AliveInv' /\ \A q \in Kind, x \in Names : interfaces'[q][x] = NoObject
<1>1. /\ interfaces' = [k \in Kind |-> [n \in Names |-> NoObject]]
      /\ handlers' = [k \in Kind |-> Unsubscribed(handlers[k], Objects(k))]
      /\ UNCHANGED <<next_id, kernel_index, next_index>>
  BY DEF tearDownInterfaces
<1>2. \A k \in Kind : Unsubscribed(handlers[k], Objects(k))
                         \in [1..MaxIndex -> 0..MaxObjects]
  BY LifecycleAssumption DEF Unsubscribed, AliveInv, MapsOK
<1>3. MapsOK'
  BY <1>1, <1>2 DEF AliveInv, MapsOK
<1>4. ASSUME NEW q \in Kind, NEW i \in 1..MaxIndex
      PROVE  handlers'[q][i] = 0
  <2>1. handlers'[q][i] = IF \E o \in Objects(q) : o.index = i THEN 0
                          ELSE handlers[q][i]
    BY <1>1 DEF Unsubscribed
  <2>2. handlers[q][i] # 0 => \E o \in Objects(q) : o.index = i
    BY DEF AliveInv, HandlersByName, HasObject, Objects
  <2> QED
    BY <2>1, <2>2
<1> QED
  BY <1>1, <1>3, <1>4 DEF AliveInv, HandlersByName

(* Every step keeps the invariant.                                          *)
LEMMA AliveStep == AliveInv /\ [Next]_vars => AliveInv'
<1> SUFFICES ASSUME AliveInv, [Next]_vars PROVE AliveInv'
  OBVIOUS
<1>1. ASSUME UNCHANGED <<mapVars, kernel_index, next_index>> PROVE AliveInv'
  BY <1>1 DEF AliveInv, MapsOK, HandlersByName, HasObject, mapVars
<1>2. CASE KernelStep
  <2>1. MapsOK
    BY DEF AliveInv
  <2>2. /\ kernel_index' \in [Names -> 0..MaxIndex]
        /\ next_index' \in 1..(MaxIndex + 1)
        /\ UNCHANGED mapVars
    BY <1>2, <2>1, KernelKeepsTypes
  <2> QED
    BY <2>2 DEF AliveInv, MapsOK, HandlersByName, HasObject, mapVars
<1>3. ASSUME NEW n \in Names, createApInterface(n) PROVE AliveInv'
  <2>1. CASE CreateInterface("ap", n)
    BY <2>1, CreateKeepsAlive DEF Kind
  <2>2. CASE CreateFails
    BY <1>1, <2>2 DEF CreateFails, kernelVars, mapVars
  <2> QED
    BY <1>3, <2>1, <2>2 DEF createApInterface, Create
<1>4. ASSUME NEW n \in Names, createClientInterface(n) PROVE AliveInv'
  <2>1. CASE CreateInterface("client", n)
    BY <2>1, CreateKeepsAlive DEF Kind
  <2>2. CASE CreateFails
    BY <1>1, <2>2 DEF CreateFails, kernelVars, mapVars
  <2> QED
    BY <1>4, <2>1, <2>2 DEF createClientInterface, Create
<1>5. ASSUME NEW n \in Names, tearDownApInterface(n) PROVE AliveInv'
  BY <1>5, TearDownKeepsAlive DEF tearDownApInterface, Kind
<1>6. ASSUME NEW n \in Names, tearDownClientInterface(n) PROVE AliveInv'
  BY <1>6, TearDownKeepsAlive DEF tearDownClientInterface, Kind
<1>7. CASE tearDownInterfaces
  BY <1>7, TearDownAllKeepsAlive
<1>8. ASSUME NEW c \in Callbacks, RegisterCallback(c) \/ UnregisterCallback(c)
      PROVE  AliveInv'
  BY <1>1, <1>8 DEF RegisterCallback, UnregisterCallback, netlinkVars,
                    kernelVars, mapVars
<1>9. ASSUME NEW id \in 1..MaxObjects, scan(id) PROVE AliveInv'
  BY <1>1, <1>9 DEF scan, serverVars, netlinkVars, kernelVars, mapVars
<1>10. ASSUME NEW n \in Names, stopHostapd(n) \/ setMacAddress(n)
      PROVE  AliveInv'
  BY <1>1, <1>10, CallsKeepObjects DEF mapVars
<1>11. CASE UNCHANGED vars
  BY <1>1, <1>11 DEF vars, serverVars, netlinkVars, kernelVars, mapVars
<1> QED
  BY <1>2, <1>3, <1>4, <1>5, <1>6, <1>7, <1>8, <1>9, <1>10, <1>11
     DEF Next, FrameworkStep

(* It holds at the start.                                                   *)
LEMMA AliveInit == Init => AliveInv
BY LifecycleAssumption DEF Init, AliveInv, MapsOK, HandlersByName, Kind

(* NetlinkManager holds raw pointers to the objects of the server.  None of *)
(* its handlers ever belongs to an object that has been destroyed, even     *)
(* when the framework creates interfaces over others or under names of      *)
(* interfaces that do not exist.                                            *)
THEOREM NoHandlerDangles == Spec => []HandlersAreAlive
BY AliveInit, AliveStep, AliveImplies, PTL DEF Spec

---------------------------------------------------------------------------
(* While the framework is disciplined.                                      *)

(* An index is in use for one name at a time, and the next one is new.      *)
IndicesAreFresh ==
    /\ \A n \in Names : kernel_index[n] < next_index
    /\ \A n1, n2 \in Names :
          kernel_index[n1] # 0 /\ kernel_index[n1] = kernel_index[n2] => n1 = n2

(* No name but its own has the index an object was made for.                *)
ObjectsOwnIndices ==
    /\ \A k \in Kind, n \in Names : HasObject(k, n) =>
          /\ interfaces[k][n].index < next_index
          /\ \A m \in Names : kernel_index[m] = interfaces[k][n].index => m = n
    /\ \A k \in Kind, n1, n2 \in Names :
          /\ HasObject(k, n1)
          /\ HasObject(k, n2)
          /\ interfaces[k][n1].index = interfaces[k][n2].index
          => n1 = n2

HearByName ==
    \A k \in Kind, n \in Names : HasObject(k, n) =>
        handlers[k][interfaces[k][n].index] = interfaces[k][n].id

HearInv == MapsOK /\ IndicesAreFresh /\ ObjectsOwnIndices /\ HearByName

(* It says what the property says.                                          *)
LEMMA HearImplies == (disciplined => HearInv) => ObjectsHear
BY DEF HearInv, HearByName, ObjectsHear, Objects, HasObject, Kind

(* An interface appears under a new index, or indices disappear.            *)
LEMMA KernelKeepsHear ==
    ASSUME HearInv, KernelStep
    PROVE  HearInv'
<1> USE LifecycleAssumption
<1>1. /\ kernel_index' \in [Names -> 0..MaxIndex]
      /\ next_index' \in 1..(MaxIndex + 1)
      /\ UNCHANGED mapVars
  BY KernelKeepsTypes DEF HearInv
<1>2. MapsOK' /\ HearByName'
  BY <1>1 DEF HearInv, MapsOK, HearByName, HasObject, mapVars
<1>3. \A k \in Kind, n \in Names :
        HasObject(k, n) => interfaces[k][n].index \in 1..MaxIndex
  BY DEF HearInv, MapsOK, HasObject, Object
<1>4. ASSUME NEW n \in Names, InterfaceAppears(n)
      PROVE  IndicesAreFresh' /\ ObjectsOwnIndices'
  <2>1. /\ kernel_index' = [kernel_index EXCEPT ![n] = next_index]
        /\ next_index' = next_index + 1
    BY <1>4 DEF InterfaceAppears
  <2>2. next_index \in Nat /\ \A x \in Names : kernel_index[x] \in Nat
    BY DEF HearInv, MapsOK
  <2>3. /\ kernel_index'[n] = next_index
        /\ \A x \in Names \ {n} : kernel_index'[x] = kernel_index[x]
    BY <2>1 DEF HearInv, MapsOK
  <2>4. IndicesAreFresh'
    BY <2>1, <2>2, <2>3 DEF HearInv, IndicesAreFresh
  <2>5. ObjectsOwnIndices'
    BY <1>1, <1>3, <2>1, <2>2, <2>3
       DEF HearInv, ObjectsOwnIndices, HasObject, mapVars
  <2> QED
    BY <2>4, <2>5
<1>5. ASSUME next_index' = next_index,
             \A x \in Names : \/ kernel_index'[x] = kernel_index[x]
                               \/ kernel_index'[x] = 0
      PROVE  IndicesAreFresh' /\ ObjectsOwnIndices'
  <2>1. next_index \in Nat \ {0} /\ \A x \in Names : kernel_index[x] \in Nat
    BY DEF HearInv, MapsOK
  <2>2. IndicesAreFresh'
    BY <1>5, <2>1 DEF HearInv, IndicesAreFresh
  <2>3. ObjectsOwnIndices'
    BY <1>1, <1>3, <1>5, <2>1 DEF HearInv, ObjectsOwnIndices, HasObject, mapVars
  <2> QED
    BY <2>2, <2>3
<1>6. ASSUME NEW n \in Names, InterfaceVanishes(n)
      PROVE  IndicesAreFresh' /\ ObjectsOwnIndices'
  BY <1>5, <1>6 DEF InterfaceVanishes, HearInv, MapsOK
<1>7. ASSUME NEW n \in Names, InterfaceComesUp(n)
      PROVE  IndicesAreFresh' /\ ObjectsOwnIndices'
  BY <1>5, <1>7 DEF InterfaceComesUp
<1>8. ASSUME DriverReloads
      PROVE  IndicesAreFresh' /\ ObjectsOwnIndices'
  BY <1>5, <1>8 DEF DriverReloads
<1> QED
  BY <1>2, <1>4, <1>6, <1>7, <1>8 DEF KernelStep, HearInv

(* A disciplined creation: under a name that exists and is free.            *)
LEMMA CreateKeepsHear ==
    ASSUME HearInv, NEW k \in Kind, NEW n \in Names,
           MayAskFor(n), CreateInterface(k, n)
    PROVE  HearInv'
<1> USE LifecycleAssumption
<1> DEFINE new == [id |-> next_id, iface |-> n, index |-> kernel_index[n]]
<1>1. Exists(n) /\ \A q \in Kind : ~HasObject(q, n)
  BY DEF MayAskFor, HasObject
<1>2. SetupInterface(n) = {n}
  BY <1>1 DEF SetupInterface
<1>3. /\ interfaces' = [interfaces EXCEPT ![k][n] = new]
      /\ handlers' = [handlers EXCEPT ![k] = Subscribed(@, new, NoObject)]
      /\ next_id' = next_id + 1
      /\ next_id <= MaxObjects
      /\ UNCHANGED <<kernel_index, next_index>>
  BY <1>1, <1>2 DEF CreateInterface, HasObject
<1>4. /\ kernel_index[n] \in 1..MaxIndex
      /\ next_id \in 1..MaxObjects
      /\ next_id' \in 1..(MaxObjects + 1)
  BY <1>1, <1>3 DEF Exists, HearInv, MapsOK
<1>5. new \in Object /\ new # NoObject
  BY <1>4 DEF Object
<1>6. /\ \A q \in Kind \ {k} : /\ interfaces'[q] = interfaces[q]
                               /\ handlers'[q] = handlers[q]
      /\ interfaces'[k][n] = new
      /\ \A x \in Names \ {n} : interfaces'[k][x] = interfaces[k][x]
      /\ handlers'[k][new.index] = new.id
      /\ \A i \in 1..MaxIndex \ {new.index} :
            handlers'[k][i] = handlers[k][i]
  BY <1>3, <1>4 DEF HearInv, MapsOK, Subscribed
<1>7. MapsOK'
  <2>1. interfaces' \in [Kind -> [Names -> Object \cup {NoObject}]]
    BY <1>3, <1>5 DEF HearInv, MapsOK
  <2>2. new.id \in 0..MaxObjects
    BY <1>4
  <2>3. handlers' \in [Kind -> [1..MaxIndex -> 0..MaxObjects]]
    BY <1>3, <2>2 DEF HearInv, MapsOK, Subscribed
  <2> QED
    BY <1>3, <1>4, <2>1, <2>3 DEF HearInv, MapsOK
<1>8. IndicesAreFresh'
  BY <1>3 DEF HearInv, IndicesAreFresh
<1>9. \A q \in Kind, x \in Names :
        HasObject(q, x) => interfaces[q][x].index # kernel_index[n]
  BY <1>1 DEF HearInv, ObjectsOwnIndices
<1>10. ObjectsOwnIndices'
  <2>1. new.index = kernel_index[n]
    OBVIOUS
  <2>2. new.index < next_index /\ \A m \in Names : kernel_index[m] = new.index => m = n
    BY <1>1, <2>1 DEF HearInv, IndicesAreFresh, Exists
  <2>3. ASSUME NEW q \in Kind, NEW x \in Names, HasObject(q, x)'
        PROVE  \/ q = k /\ x = n /\ interfaces'[q][x] = new
               \/ /\ HasObject(q, x)
                  /\ interfaces'[q][x] = interfaces[q][x]
                  /\ interfaces[q][x].index # new.index
    BY <1>6, <1>9, <2>1, <2>3 DEF HasObject
  <2>4. ASSUME NEW q \in Kind, NEW x \in Names, HasObject(q, x)'
        PROVE  /\ interfaces'[q][x].index < next_index'
               /\ \A m \in Names : kernel_index'[m] = interfaces'[q][x].index => m = x
    BY <1>3, <2>2, <2>3, <2>4 DEF HearInv, ObjectsOwnIndices
  <2>5. ASSUME NEW q \in Kind, NEW n1 \in Names, NEW n2 \in Names,
               HasObject(q, n1)', HasObject(q, n2)',
               interfaces'[q][n1].index = interfaces'[q][n2].index
        PROVE  n1 = n2
    BY <2>3, <2>5 DEF HearInv, ObjectsOwnIndices
  <2> QED
    BY <2>4, <2>5 DEF ObjectsOwnIndices
<1>11. HearByName'
  <2> SUFFICES ASSUME NEW q \in Kind, NEW x \in Names, HasObject(q, x)'
               PROVE  handlers'[q][interfaces'[q][x].index]
                         = interfaces'[q][x].id
    BY DEF HearByName
  <2>1. CASE q = k /\ x = n
    BY <1>6, <2>1
  <2>2. CASE q = k /\ x # n
    <3>1. HasObject(k, x) /\ interfaces'[k][x] = interfaces[k][x]
      BY <1>6, <2>2 DEF HasObject
    <3>2. interfaces[k][x].index \in 1..MaxIndex \ {new.index}
      BY <1>9, <3>1 DEF HearInv, MapsOK, HasObject, Object
    <3> QED
      BY <1>6, <2>2, <3>1, <3>2 DEF HearInv, HearByName
  <2>3. CASE q # k
    BY <1>6, <2>3 DEF HearInv, HearByName, HasObject
  <2> QED
    BY <2>1, <2>2, <2>3
<1> QED
  BY <1>7, <1>8, <1>10, <1>11 DEF HearInv

(* Destruction of one object.                                               *)
LEMMA TearDownKeepsHear ==
    ASSUME HearInv, NEW k \in Kind, NEW n \in Names, TearDown(k, n)
    PROVE  HearInv'
<1> DEFINE gone == {interfaces[k][n]}
<1>1. /\ interfaces' = [interfaces EXCEPT ![k][n] = NoObject]
      /\ handlers' = [handlers EXCEPT ![k] = Unsubscribed(@, gone)]
      /\ HasObject(k, n)
      /\ UNCHANGED <<next_id, kernel_index, next_index>>
  BY DEF TearDown, HasObject
<1>2. Unsubscribed(handlers[k], gone) \in [1..MaxIndex -> 0..MaxObjects]
  BY LifecycleAssumption DEF Unsubscribed, HearInv, MapsOK
<1>3. MapsOK' /\ IndicesAreFresh'
  BY <1>1, <1>2 DEF HearInv, MapsOK, IndicesAreFresh
<1>4. ASSUME NEW q \in Kind, NEW x \in Names, HasObject(q, x)'
      PROVE  /\ HasObject(q, x)
             /\ interfaces'[q][x] = interfaces[q][x]
             /\ ~(q = k /\ x = n)
  BY <1>1, <1>4 DEF HearInv, MapsOK, HasObject
<1>5. ObjectsOwnIndices'
  BY <1>1, <1>4 DEF HearInv, ObjectsOwnIndices
<1>6. ASSUME NEW q \in Kind, NEW x \in Names, HasObject(q, x)'
      PROVE  handlers'[q][interfaces'[q][x].index] = interfaces'[q][x].id
  <2>1. handlers[q][interfaces[q][x].index] = interfaces[q][x].id
    BY <1>4, <1>6 DEF HearInv, HearByName
  <2>2. CASE q # k
    BY <1>1, <1>4, <1>6, <2>1, <2>2 DEF HearInv, MapsOK
  <2>3. CASE q = k
    <3>1. interfaces[k][x].index \in 1..MaxIndex
      BY <1>4, <1>6, <2>3 DEF HearInv, MapsOK, HasObject, Object
    <3>2. interfaces[k][x].index # interfaces[k][n].index
      BY <1>1, <1>4, <1>6, <2>3 DEF HearInv, ObjectsOwnIndices
    <3>3. handlers'[k] = Unsubscribed(handlers[k], gone)
      BY <1>1 DEF HearInv, MapsOK
    <3> QED
      BY <1>4, <1>6, <2>1, <2>3, <3>1, <3>2, <3>3 DEF Unsubscribed
  <2> QED
    BY <2>2, <2>3
<1> QED
  BY <1>3, <1>5, <1>6 DEF HearInv, HearByName

(* Every step of the disciplined system keeps the invariant.                *)
LEMMA HearStep ==
    (disciplined => HearInv) /\ [Next]_vars => (disciplined => HearInv)'
<1> SUFFICES ASSUME disciplined => HearInv, [Next]_vars, disciplined'
             PROVE  HearInv'
  OBVIOUS
<1>0. HearInv
  BY DEF Next, FrameworkStep, KernelStep, createApInterface,
         createClientInterface, Create, tearDownApInterface,
         tearDownClientInterface, TearDown, tearDownInterfaces,
         RegisterCallback, UnregisterCallback, scan, stopHostapd, setMacAddress, vars
<1>1. ASSUME UNCHANGED <<mapVars, kernel_index, next_index>> PROVE HearInv'
  BY <1>0, <1>1 DEF HearInv, MapsOK, IndicesAreFresh, ObjectsOwnIndices, HearByName,
              HasObject, mapVars
<1>2. CASE KernelStep
  BY <1>0, <1>2, KernelKeepsHear
<1>3. ASSUME NEW n \in Names, createApInterface(n) PROVE HearInv'
  <2>1. CASE CreateInterface("ap", n)
    BY <1>0, <1>3, <2>1, CreateKeepsHear DEF createApInterface, Create, Kind
  <2>2. CASE CreateFails
    BY <1>1, <2>2 DEF CreateFails, kernelVars, mapVars
  <2> QED
    BY <1>3, <2>1, <2>2 DEF createApInterface, Create
<1>4. ASSUME NEW n \in Names, createClientInterface(n) PROVE HearInv'
  <2>1. CASE CreateInterface("client", n)
    BY <1>0, <1>4, <2>1, CreateKeepsHear DEF createClientInterface, Create, Kind
  <2>2. CASE CreateFails
    BY <1>1, <2>2 DEF CreateFails, kernelVars, mapVars
  <2> QED
    BY <1>4, <2>1, <2>2 DEF createClientInterface, Create
<1>5. ASSUME NEW n \in Names, tearDownApInterface(n) PROVE HearInv'
  BY <1>0, <1>5, TearDownKeepsHear DEF tearDownApInterface, Kind
<1>6. ASSUME NEW n \in Names, tearDownClientInterface(n) PROVE HearInv'
  BY <1>0, <1>6, TearDownKeepsHear DEF tearDownClientInterface, Kind
<1>7. CASE tearDownInterfaces
  <2>1. /\ interfaces' = [k \in Kind |-> [n \in Names |-> NoObject]]
        /\ handlers' = [k \in Kind |-> Unsubscribed(handlers[k], Objects(k))]
        /\ UNCHANGED <<next_id, kernel_index, next_index>>
    BY <1>7 DEF tearDownInterfaces
  <2>2. \A k \in Kind : Unsubscribed(handlers[k], Objects(k))
                           \in [1..MaxIndex -> 0..MaxObjects]
    BY <1>0, LifecycleAssumption DEF Unsubscribed, HearInv, MapsOK
  <2>3. MapsOK'
    BY <1>0, <2>1, <2>2 DEF HearInv, MapsOK
  <2> QED
    BY <1>0, <2>1, <2>3 DEF HearInv, IndicesAreFresh, ObjectsOwnIndices, HearByName,
                      HasObject
<1>8. ASSUME NEW c \in Callbacks, RegisterCallback(c) \/ UnregisterCallback(c)
      PROVE  HearInv'
  BY <1>1, <1>8 DEF RegisterCallback, UnregisterCallback, netlinkVars,
                    kernelVars, mapVars
<1>9. ASSUME NEW id \in 1..MaxObjects, scan(id) PROVE HearInv'
  BY <1>1, <1>9 DEF scan, serverVars, netlinkVars, kernelVars, mapVars
<1>10. ASSUME NEW n \in Names, stopHostapd(n) \/ setMacAddress(n)
      PROVE  HearInv'
  BY <1>1, <1>10, CallsKeepObjects DEF mapVars
<1>11. CASE UNCHANGED vars
  BY <1>1, <1>11 DEF vars, serverVars, netlinkVars, kernelVars, mapVars
<1> QED
  BY <1>2, <1>3, <1>4, <1>5, <1>6, <1>7, <1>8, <1>9, <1>10, <1>11
     DEF Next, FrameworkStep

(* It holds at the start.                                                   *)
LEMMA HearInit == Init => HearInv
BY LifecycleAssumption DEF Init, HearInv, MapsOK, IndicesAreFresh,
   ObjectsOwnIndices, HearByName, HasObject, Kind

(* As long as the framework asks for interfaces that exist and tears down   *)
(* what it holds before it creates again, the handler that NetlinkManager   *)
(* has for the index of an object of the server is that object's: no client *)
(* or AP object goes deaf, whatever appears, vanishes or is reloaded.       *)
THEOREM DisciplinedObjectsHear == Spec => []ObjectsHear
BY HearInit, HearStep, HearImplies, PTL DEF Spec

---------------------------------------------------------------------------
(* The types of the rest.                                                   *)
RestOK ==
    /\ wiphy_index \in 0..MaxWiphy
    /\ reg_handlers \subseteq 1..MaxWiphy
    /\ interface_event_callbacks \subseteq Callbacks
    /\ valid \subseteq 1..MaxObjects
    /\ kernel_wiphy \in 0..MaxWiphy
    /\ up \subseteq Names
    /\ believed \in [Callbacks -> SUBSET (1..MaxObjects)]
    /\ disciplined \in BOOLEAN
    /\ dangling \in BOOLEAN

restVars == <<wiphy_index, reg_handlers, interface_event_callbacks, valid, kernel_wiphy,
              up, believed, disciplined, dangling>>

LEMMA TypeParts == TypeOK <=> MapsOK /\ RestOK
BY DEF TypeOK, MapsOK, RestOK

(* Creation tells of an object with a new number.                           *)
LEMMA CreateRest ==
    ASSUME MapsOK, RestOK, NEW k \in Kind, NEW n \in Names, Create(k, n)
    PROVE  RestOK'
<1> USE LifecycleAssumption
<1>1. disciplined' \in BOOLEAN
  BY DEF Create
<1>2. ASSUME WiphyRefreshed
      PROVE  wiphy_index' \in 0..MaxWiphy /\ reg_handlers' \subseteq 1..MaxWiphy
  BY <1>2 DEF WiphyRefreshed, RestOK
<1>3. CASE CreateInterface(k, n)
  <2>1. PICK m \in SetupInterface(n) :
          LET new == [id |-> next_id, iface |-> m, index |-> kernel_index[m]]
              old == interfaces[k][n]
          IN  /\ up' = IF old = NoObject THEN up ELSE up \ {old.iface}
              /\ believed' = [c \in Callbacks |-> Told(c, new)]
    BY <1>3 DEF CreateInterface
  <2>2. next_id \in 1..MaxObjects
    BY <1>3 DEF CreateInterface, MapsOK
  <2>3. believed' \in [Callbacks -> SUBSET (1..MaxObjects)]
    BY <2>1, <2>2 DEF Told, RestOK
  <2>4. up' \subseteq Names
    BY <2>1 DEF RestOK
  <2>5. valid' \subseteq 1..MaxObjects
    BY <1>3, <2>2 DEF CreateInterface, RestOK
  <2>6. UNCHANGED <<interface_event_callbacks, kernel_wiphy, dangling>> /\ WiphyRefreshed
    BY <1>3 DEF CreateInterface
  <2> QED
    BY <1>1, <1>2, <2>3, <2>4, <2>5, <2>6 DEF RestOK
<1>4. CASE CreateFails
  <2>1. UNCHANGED <<interface_event_callbacks, kernel_wiphy, up, valid, believed, dangling>>
    BY <1>4 DEF CreateFails, kernelVars
  <2>2. wiphy_index' \in 0..MaxWiphy /\ reg_handlers' \subseteq 1..MaxWiphy
    BY <1>2, <1>4 DEF CreateFails, RestOK
  <2> QED
    BY <1>1, <2>1, <2>2 DEF RestOK
<1> QED
  BY <1>3, <1>4 DEF Create

(* What the destructors leave.                                              *)
LEMMA DestroyRest ==
    ASSUME RestOK, NEW gone, Broadcast(gone), up' \in {UpAfter(gone), {}},
           reg_handlers' \subseteq reg_handlers,
           UNCHANGED <<wiphy_index, interface_event_callbacks, valid, kernel_wiphy,
                       disciplined, dangling>>
    PROVE  RestOK'
<1>1. up' \subseteq Names
  BY DEF UpAfter, RestOK
<1>2. believed' \in [Callbacks -> SUBSET (1..MaxObjects)]
  BY DEF Broadcast, RestOK
<1> QED
  BY <1>1, <1>2 DEF RestOK

LEMMA KernelRest ==
    ASSUME RestOK, KernelStep
    PROVE  RestOK'
<1>1. UNCHANGED <<wiphy_index, reg_handlers, interface_event_callbacks, valid, believed,
                  disciplined, dangling>>
  BY DEF KernelStep, serverVars, netlinkVars
<1>2. up' \subseteq Names
  BY DEF KernelStep, InterfaceAppears, InterfaceVanishes, InterfaceComesUp, DriverReloads,
         RestOK
<1>3. kernel_wiphy' \in 0..MaxWiphy
  <2>1. kernel_wiphy' = kernel_wiphy \/ (kernel_wiphy < MaxWiphy /\ kernel_wiphy' = kernel_wiphy + 1)
    BY DEF KernelStep, InterfaceAppears, InterfaceVanishes, InterfaceComesUp, DriverReloads
  <2> QED
    BY <2>1, LifecycleAssumption DEF RestOK
<1> QED
  BY <1>1, <1>2, <1>3 DEF RestOK

LEMMA RestStep ==
    ASSUME MapsOK, RestOK, [Next]_vars
    PROVE  RestOK'
<1>1. ASSUME UNCHANGED restVars PROVE RestOK'
  BY <1>1 DEF restVars, RestOK
<1>2. ASSUME NEW k \in Kind, NEW n \in Names, TearDown(k, n) PROVE RestOK'
  BY <1>2, DestroyRest DEF TearDown
<1>3. CASE tearDownInterfaces
  BY <1>3, DestroyRest DEF tearDownInterfaces
<1>4. ASSUME NEW c \in Callbacks, RegisterCallback(c) PROVE RestOK'
  BY <1>4 DEF RegisterCallback, netlinkVars, kernelVars, RestOK
<1>5. ASSUME NEW c \in Callbacks, UnregisterCallback(c) PROVE RestOK'
  BY <1>5 DEF UnregisterCallback, netlinkVars, kernelVars, RestOK
<1>6. ASSUME NEW id \in 1..MaxObjects, scan(id) PROVE RestOK'
  BY <1>6 DEF scan, serverVars, netlinkVars, kernelVars, RestOK
<1>7. ASSUME NEW n \in Names, stopHostapd(n) \/ setMacAddress(n)
      PROVE  RestOK'
  BY <1>7, CallsKeepObjects, LifecycleAssumption DEF RestOK
<1>8. CASE UNCHANGED vars
  BY <1>1, <1>8 DEF vars, serverVars, netlinkVars, kernelVars, restVars
<1>9. "ap" \in Kind /\ "client" \in Kind
  BY DEF Kind
<1> QED
  BY <1>2, <1>3, <1>4, <1>5, <1>6, <1>7, <1>8, <1>9, CreateRest, KernelRest
     DEF Next, FrameworkStep, createApInterface, createClientInterface,
         tearDownApInterface, tearDownClientInterface

LEMMA TypeInvariant == Spec => [](AliveInv /\ RestOK)
<1>1. Init => RestOK
  <2> SUFFICES ASSUME Init PROVE RestOK
    OBVIOUS
  <2>1. wiphy_index \in 0..MaxWiphy /\ kernel_wiphy \in 0..MaxWiphy
    BY LifecycleAssumption DEF Init
  <2>2. believed \in [Callbacks -> SUBSET (1..MaxObjects)]
    BY DEF Init
  <2>3. /\ reg_handlers \subseteq 1..MaxWiphy /\ interface_event_callbacks \subseteq Callbacks
        /\ valid \subseteq 1..MaxObjects /\ up \subseteq Names
    BY DEF Init
  <2>4. disciplined \in BOOLEAN /\ dangling \in BOOLEAN
    BY DEF Init
  <2> QED
    BY <2>1, <2>2, <2>3, <2>4 DEF RestOK
<1>2. AliveInv /\ RestOK /\ [Next]_vars => RestOK'
  BY RestStep DEF AliveInv
<1> QED
  BY <1>1, <1>2, AliveInit, AliveStep, PTL DEF Spec

(* Type correctness of the server: whatever the framework asks for, the     *)
(* server's maps hold objects made for interfaces that existed, and the     *)
(* handlers it registers are for indices of the kernel.                     *)
THEOREM TypeCorrect == Spec => []TypeOK
<1>1. AliveInv /\ RestOK => TypeOK
  BY TypeParts DEF AliveInv
<1> QED
  BY <1>1, TypeInvariant, PTL

---------------------------------------------------------------------------
(* Regulatory changes.                                                      *)
RegByName ==
    \A k \in Kind, n \in Names : HasObject(k, n) => wiphy_index \in reg_handlers

LEMMA RegStep ==
    ASSUME MapsOK, RegByName, [Next]_vars
    PROVE  RegByName'
<1>1. ASSUME UNCHANGED <<interfaces, wiphy_index, reg_handlers>> PROVE RegByName'
  BY <1>1 DEF RegByName, HasObject
<1>2. ASSUME WiphyRefreshed PROVE RegByName'
  BY <1>2 DEF WiphyRefreshed, RegByName
<1>3. ASSUME NEW k \in Kind, NEW n \in Names, Create(k, n) PROVE RegByName'
  BY <1>1, <1>2, <1>3 DEF Create, CreateInterface, CreateFails
<1>4. ASSUME NEW k \in Kind, NEW n \in Names, TearDown(k, n) PROVE RegByName'
  <2>1. /\ interfaces' = [interfaces EXCEPT ![k][n] = NoObject]
        /\ UNCHANGED <<wiphy_index, reg_handlers>>
    BY <1>4 DEF TearDown
  <2>2. \A q \in Kind, x \in Names : HasObject(q, x)' => HasObject(q, x)
    BY <2>1 DEF MapsOK, HasObject
  <2> QED
    BY <2>1, <2>2 DEF RegByName
<1>5. CASE tearDownInterfaces
  BY <1>5 DEF tearDownInterfaces, RegByName, HasObject
<1>6. ASSUME NEW c \in Callbacks, RegisterCallback(c) \/ UnregisterCallback(c)
      PROVE  RegByName'
  BY <1>1, <1>6 DEF RegisterCallback, UnregisterCallback, netlinkVars
<1>7. ASSUME NEW id \in 1..MaxObjects, scan(id) PROVE RegByName'
  BY <1>1, <1>7 DEF scan, serverVars, netlinkVars
<1>8. ASSUME NEW n \in Names, stopHostapd(n) \/ setMacAddress(n)
      PROVE  RegByName'
  BY <1>1, <1>8, CallsKeepObjects
<1>9. CASE KernelStep \/ UNCHANGED vars
  BY <1>1, <1>9 DEF KernelStep, vars, serverVars, netlinkVars
<1>10. "ap" \in Kind /\ "client" \in Kind
  BY DEF Kind
<1> QED
  BY <1>3, <1>4, <1>5, <1>6, <1>7, <1>8, <1>9, <1>10
     DEF Next, FrameworkStep, createApInterface, createClientInterface,
         tearDownApInterface, tearDownClientInterface

(* While there is an object, the regulatory handler of the wiphy the server *)
(* last found is registered: it follows the wiphy over reloads of the       *)
(* driver, and failed creations and single tear downs do not lose it.       *)
THEOREM RegDomainStaysHeard == Spec => []RegDomainIsHeard
<1>1. Init => RegByName
  BY DEF Init, RegByName, HasObject
<1>2. AliveInv /\ RegByName /\ [Next]_vars => RegByName'
  BY RegStep DEF AliveInv
<1>3. RegByName => RegDomainIsHeard
  BY DEF RegByName, RegDomainIsHeard, Objects, HasObject
<1> QED
  BY <1>1, <1>2, <1>3, AliveInit, AliveStep, PTL DEF Spec

---------------------------------------------------------------------------
(* What a disciplined framework holds and believes.  Its objects are for    *)
(* the interfaces it asked for, one for each.                               *)
OneToAName ==
    \A k \in Kind, n \in Names : HasObject(k, n) =>
        /\ interfaces[k][n].iface = n
        /\ \A q \in Kind : HasObject(q, n) => q = k

(* CallbacksAreAccurate, by the name of the object.  A callback that is not *)
(* registered has not been told of anything.                                *)
BelievedByName ==
    \A c \in Callbacks, id \in 1..MaxObjects : id \in believed[c] =>
        /\ c \in interface_event_callbacks
        /\ \E k \in Kind, n \in Names : HasObject(k, n) /\ interfaces[k][n].id = id

HeldInv == OneToAName /\ BelievedByName

(* Discipline, once lost, is not found again.                               *)
LEMMA DisciplineWas ==
    ASSUME [Next]_vars, disciplined'
    PROVE  disciplined
BY DEF Next, FrameworkStep, KernelStep, createApInterface, createClientInterface, Create,
       tearDownApInterface, tearDownClientInterface, TearDown, tearDownInterfaces,
       RegisterCallback, UnregisterCallback, scan, stopHostapd, setMacAddress, vars

(* A disciplined creation destroys nothing.                                 *)
LEMMA CreateKeepsHeld ==
    ASSUME MapsOK, RestOK, HeldInv, NEW k \in Kind, NEW n \in Names,
           MayAskFor(n), CreateInterface(k, n)
    PROVE  HeldInv' /\ up' = up
<1> USE LifecycleAssumption
<1>1. Exists(n) /\ \A q \in Kind : ~HasObject(q, n)
  BY DEF MayAskFor, HasObject
<1>2. SetupInterface(n) = {n}
  BY <1>1 DEF SetupInterface
<1>3. PICK new : new = [id |-> next_id, iface |-> n, index |-> kernel_index[n]]
  OBVIOUS
<1>4. /\ interfaces' = [interfaces EXCEPT ![k][n] = new]
      /\ up' = up
      /\ believed' = [c \in Callbacks |-> Told(c, new)]
      /\ interface_event_callbacks' = interface_event_callbacks
      /\ next_id <= MaxObjects
  BY <1>1, <1>2, <1>3 DEF CreateInterface, HasObject
<1>5. new # NoObject /\ new.id = next_id /\ new.iface = n
  <2>1. kernel_index[n] \in 1..MaxIndex /\ next_id \in 1..MaxObjects
    BY <1>1, <1>4 DEF Exists, MapsOK
  <2>2. new \in Object
    BY <1>3, <2>1 DEF Object
  <2> QED
    BY <1>3, <2>2
<1>6. /\ interfaces'[k][n] = new
      /\ \A q \in Kind, x \in Names : ~(q = k /\ x = n) => interfaces'[q][x] = interfaces[q][x]
  BY <1>4 DEF MapsOK
<1>7. OneToAName'
  <2> SUFFICES ASSUME NEW q \in Kind, NEW x \in Names, interfaces'[q][x] # NoObject
               PROVE  /\ interfaces'[q][x].iface = x
                      /\ \A r \in Kind : interfaces'[r][x] # NoObject => r = q
    BY DEF OneToAName, HasObject
  <2>1. CASE x = n
    BY <1>1, <1>5, <1>6, <2>1 DEF HasObject
  <2>2. CASE x # n
    BY <1>6, <2>2 DEF HeldInv, OneToAName, HasObject
  <2> QED
    BY <2>1, <2>2
<1>8. BelievedByName'
  <2> SUFFICES ASSUME NEW c \in Callbacks, NEW id \in 1..MaxObjects, id \in believed'[c]
               PROVE  /\ c \in interface_event_callbacks
                      /\ \E q \in Kind, x \in Names : /\ interfaces'[q][x] # NoObject
                                                      /\ interfaces'[q][x].id = id
    BY <1>4 DEF BelievedByName, HasObject
  <2>1. believed'[c] = Told(c, new)
    BY <1>4
  <2>2. CASE id \in believed[c]
    <3>1. PICK q \in Kind, x \in Names : HasObject(q, x) /\ interfaces[q][x].id = id
      BY <2>2 DEF HeldInv, BelievedByName
    <3>2. interfaces'[q][x] = interfaces[q][x]
      BY <1>1, <1>6, <3>1
    <3> QED
      BY <2>2, <3>1, <3>2 DEF HeldInv, BelievedByName, HasObject
  <2>3. CASE id \notin believed[c]
    <3>1. id = new.id /\ c \in interface_event_callbacks
      BY <2>1, <2>3 DEF Told
    <3> QED
      BY <1>5, <1>6, <3>1
  <2> QED
    BY <2>2, <2>3
<1> QED
  BY <1>4, <1>7, <1>8 DEF HeldInv

(* An object that goes is announced and takes its own interface down.       *)
LEMMA TearDownKeepsHeld ==
    ASSUME MapsOK, RestOK, HeldInv, NEW k \in Kind, NEW n \in Names, TearDown(k, n)
    PROVE  /\ HeldInv'
           /\ interfaces'[k][n] = NoObject /\ interfaces[k][n].iface = n
           /\ up' = up \ {n}
<1>1. /\ interfaces' = [interfaces EXCEPT ![k][n] = NoObject]
      /\ HasObject(k, n)
      /\ Broadcast({interfaces[k][n]}) /\ up' = UpAfter({interfaces[k][n]})
      /\ interface_event_callbacks' = interface_event_callbacks
  BY DEF TearDown, HasObject
<1>2. /\ interfaces'[k][n] = NoObject
      /\ \A q \in Kind, x \in Names : ~(q = k /\ x = n) => interfaces'[q][x] = interfaces[q][x]
  BY <1>1 DEF MapsOK
<1>3. interfaces[k][n].iface = n /\ up' = up \ {n}
  BY <1>1 DEF HeldInv, OneToAName, UpAfter
<1>4. OneToAName'
  BY <1>2 DEF HeldInv, OneToAName, HasObject
<1>5. BelievedByName'
  <2> SUFFICES ASSUME NEW c \in Callbacks, NEW id \in 1..MaxObjects, id \in believed'[c]
               PROVE  /\ c \in interface_event_callbacks
                      /\ \E q \in Kind, x \in Names : /\ interfaces'[q][x] # NoObject
                                                      /\ interfaces'[q][x].id = id
    BY <1>1 DEF BelievedByName, HasObject
  <2>1. believed'[c] = IF c \in interface_event_callbacks
                       THEN believed[c] \ {interfaces[k][n].id} ELSE believed[c]
    BY <1>1 DEF Broadcast
  <2>2. id \in believed[c] /\ c \in interface_event_callbacks
    BY <2>1 DEF HeldInv, BelievedByName
  <2>3. PICK q \in Kind, x \in Names : HasObject(q, x) /\ interfaces[q][x].id = id
    BY <2>2 DEF HeldInv, BelievedByName
  <2>4. interfaces'[q][x] = interfaces[q][x]
    BY <1>2, <2>1, <2>2, <2>3
  <2> QED
    BY <2>2, <2>3, <2>4 DEF HasObject
<1> QED
  BY <1>2, <1>3, <1>4, <1>5 DEF HeldInv

LEMMA TearDownAllKeepsHeld ==
    ASSUME MapsOK, RestOK, HeldInv, tearDownInterfaces
    PROVE  /\ HeldInv'
           /\ \A q \in Kind, x \in Names : interfaces'[q][x] = NoObject
<1>1. \A q \in Kind, x \in Names : interfaces'[q][x] = NoObject
  BY DEF tearDownInterfaces
<1>2. ASSUME NEW c \in Callbacks, NEW id \in 1..MaxObjects PROVE id \notin believed'[c]
  <2>1. PICK gone : gone = Objects("client") \cup Objects("ap")
    OBVIOUS
  <2>2. believed'[c] = IF c \in interface_event_callbacks
                       THEN believed[c] \ {o.id : o \in gone} ELSE believed[c]
    BY <2>1 DEF tearDownInterfaces, Broadcast
  <2>3. ASSUME id \in believed[c]
        PROVE  c \in interface_event_callbacks /\ id \in {o.id : o \in gone}
    <3>1. PICK q \in Kind, x \in Names : HasObject(q, x) /\ interfaces[q][x].id = id
      BY <2>3 DEF HeldInv, BelievedByName
    <3>2. interfaces[q][x] \in gone
      BY <2>1, <3>1 DEF Objects, HasObject, Kind
    <3> QED
      BY <2>3, <3>1, <3>2 DEF HeldInv, BelievedByName
  <2> QED
    BY <2>2, <2>3
<1> QED
  BY <1>1, <1>2 DEF HeldInv, OneToAName, BelievedByName, HasObject

LEMMA HeldStep ==
    ASSUME MapsOK, RestOK, disciplined => HeldInv, [Next]_vars, disciplined'
    PROVE  HeldInv'
<1>0. HeldInv
  BY DisciplineWas
<1>1. ASSUME UNCHANGED <<interfaces, interface_event_callbacks, believed>> PROVE HeldInv'
  BY <1>0, <1>1 DEF HeldInv, OneToAName, BelievedByName, HasObject
<1>2. ASSUME NEW k \in Kind, NEW n \in Names, Create(k, n) PROVE HeldInv'
  <2>1. MayAskFor(n)
    BY <1>2 DEF Create
  <2>2. CASE CreateInterface(k, n)
    BY <1>0, <2>1, <2>2, CreateKeepsHeld
  <2>3. CASE CreateFails
    BY <1>1, <2>3 DEF CreateFails
  <2> QED
    BY <1>2, <2>2, <2>3 DEF Create
<1>3. ASSUME NEW k \in Kind, NEW n \in Names, TearDown(k, n) PROVE HeldInv'
  BY <1>0, <1>3, TearDownKeepsHeld
<1>4. CASE tearDownInterfaces
  BY <1>0, <1>4, TearDownAllKeepsHeld
<1>5. ASSUME NEW c \in Callbacks, RegisterCallback(c) PROVE HeldInv'
  BY <1>0, <1>5 DEF RegisterCallback, HeldInv, OneToAName, BelievedByName, HasObject
<1>6. ASSUME NEW c \in Callbacks, UnregisterCallback(c) PROVE HeldInv'
  <2>1. /\ interface_event_callbacks' = interface_event_callbacks \ {c}
        /\ interfaces' = interfaces
        /\ believed' = [believed EXCEPT ![c] = {}]
    BY <1>6 DEF UnregisterCallback
  <2>2. believed'[c] = {} /\ \A d \in Callbacks \ {c} : believed'[d] = believed[d]
    BY <2>1 DEF RestOK
  <2> QED
    BY <1>0, <2>1, <2>2 DEF HeldInv, OneToAName, BelievedByName, HasObject
<1>7. ASSUME NEW id \in 1..MaxObjects, scan(id) PROVE HeldInv'
  BY <1>1, <1>7 DEF scan, serverVars
<1>8. ASSUME NEW n \in Names, stopHostapd(n) \/ setMacAddress(n)
      PROVE  HeldInv'
  BY <1>1, <1>8, CallsKeepObjects
<1>9. CASE KernelStep \/ UNCHANGED vars
  BY <1>1, <1>9 DEF KernelStep, vars, serverVars
<1>10. "ap" \in Kind /\ "client" \in Kind
  BY DEF Kind
<1> QED
  BY <1>2, <1>3, <1>4, <1>5, <1>6, <1>7, <1>8, <1>9, <1>10
     DEF Next, FrameworkStep, createApInterface, createClientInterface,
         tearDownApInterface, tearDownClientInterface

LEMMA HeldInvariant == Spec => [](AliveInv /\ RestOK /\ (disciplined => HeldInv))
<1>1. Init => HeldInv
  BY DEF Init, HeldInv, OneToAName, BelievedByName, HasObject
<1>2. AliveInv /\ RestOK /\ (disciplined => HeldInv) /\ [Next]_vars => (disciplined => HeldInv)'
  BY HeldStep DEF AliveInv
<1> QED
  BY <1>1, <1>2, TypeInvariant, PTL DEF Spec

(* As long as the framework asks for interfaces that exist and tears down   *)
(* before it creates again, every interface a registered callback was told  *)
(* of and not told the end of is one wificond still holds: announcements    *)
(* are neither lost nor made late, and registering anew starts afresh.      *)
THEOREM CallbacksKnow == Spec => []CallbacksAreAccurate
<1>1. RestOK /\ (disciplined => HeldInv) => CallbacksAreAccurate
  <2> SUFFICES ASSUME RestOK, HeldInv, NEW c \in interface_event_callbacks, NEW id \in believed[c]
               PROVE  \E k \in Kind : IsLive(k, id)
    BY DEF CallbacksAreAccurate
  <2>1. c \in Callbacks /\ id \in 1..MaxObjects
    BY DEF RestOK
  <2>2. PICK k \in Kind, n \in Names : HasObject(k, n) /\ interfaces[k][n].id = id
    BY <2>1 DEF HeldInv, BelievedByName
  <2>3. interfaces[k][n] \in Objects(k)
    BY <2>2 DEF Objects, HasObject
  <2> QED
    BY <2>2, <2>3 DEF IsLive
<1> QED
  BY <1>1, HeldInvariant, PTL

---------------------------------------------------------------------------
(* What one step of the framework may do to the interfaces in use.          *)
StaysUp(k, n) ==
    LET o == interfaces[k][n] IN
    /\ o # NoObject /\ interfaces'[k][n] = o
    /\ o.iface \in up /\ o.iface \notin up'
    => MeantToGoDown(k, n, o)

LEMMA FrameworkKeepsUp ==
    ASSUME MapsOK, RestOK, disciplined => HeldInv, FrameworkStep, disciplined',
           NEW k \in Kind, NEW n \in Names
    PROVE  StaysUp(k, n)
<1>0. HeldInv
  BY DisciplineWas DEF Next
<1>1. ASSUME up' = up PROVE StaysUp(k, n)
  BY <1>1 DEF StaysUp
<1>2. ASSUME NEW q \in Kind, NEW x \in Names, Create(q, x) PROVE up' = up
  <2>1. MayAskFor(x)
    BY <1>2 DEF Create
  <2> QED
    BY <1>0, <1>2, <2>1, CreateKeepsHeld DEF Create, CreateFails, kernelVars
<1>3. ASSUME NEW q \in Kind, NEW x \in Names, TearDown(q, x) PROVE StaysUp(k, n)
  <2>1. interfaces'[q][x] = NoObject /\ HasObject(q, x) /\ up' = up \ {x}
    <3>1. HasObject(q, x)
      BY <1>3 DEF TearDown, HasObject
    <3> QED
      BY <1>0, <1>3, <3>1, TearDownKeepsHeld
  <2>2. HasObject(k, n) => interfaces[k][n].iface = n
    BY <1>0 DEF HeldInv, OneToAName
  <2>3. HasObject(k, n) /\ n = x => k = q
    BY <1>0, <2>1 DEF HeldInv, OneToAName
  <2> QED
    BY <2>1, <2>2, <2>3 DEF StaysUp, HasObject
<1>4. CASE tearDownInterfaces
  BY <1>0, <1>4, TearDownAllKeepsHeld DEF StaysUp
<1>5. ASSUME NEW c \in Callbacks, RegisterCallback(c) \/ UnregisterCallback(c)
      PROVE  up' = up
  BY <1>5 DEF RegisterCallback, UnregisterCallback, kernelVars
<1>6. ASSUME NEW id \in 1..MaxObjects, scan(id) PROVE up' = up
  BY <1>6 DEF scan, kernelVars
<1>7. ASSUME NEW x \in Names, stopHostapd(x) PROVE StaysUp(k, n)
  <2>1. HasObject("ap", x) /\ interfaces["ap"][x].iface = x
    BY <1>0, <1>7 DEF stopHostapd, HeldInv, OneToAName, HasObject, Kind
  <2>2. up' = up \/ up' = up \ {x}
    BY <1>7, <2>1 DEF stopHostapd
  <2>3. HasObject(k, n) => interfaces[k][n].iface = n
    BY <1>0 DEF HeldInv, OneToAName
  <2>4. HasObject(k, n) /\ n = x => k = "ap"
    BY <1>0, <2>1 DEF HeldInv, OneToAName, Kind
  <2> QED
    BY <1>7, <2>2, <2>3, <2>4 DEF StaysUp, MeantToGoDown, HasObject
<1>8. ASSUME NEW x \in Names, setMacAddress(x) PROVE StaysUp(k, n)
  <2>1. \A i \in up \ up' : i = WifiInterface
    BY <1>8 DEF setMacAddress
  <2> QED
    BY <1>8, <2>1 DEF StaysUp, MeantToGoDown
<1>9. "ap" \in Kind /\ "client" \in Kind
  BY DEF Kind
<1> QED
  BY <1>1, <1>2, <1>3, <1>4, <1>5, <1>6, <1>7, <1>8, <1>9
     DEF FrameworkStep, createApInterface, createClientInterface,
         tearDownApInterface, tearDownClientInterface

(* With the same discipline, creations and tear downs take down no          *)
(* interface whose object they leave in place: the destructors take down    *)
(* their own interface, which is then the one the object was asked for.     *)
(* Of all calls only StopHostapd takes down that of its own object, and     *)
(* SetMacAddress the one that SetWifiUpState stands for.                    *)
THEOREM NothingElseGoesDown == Spec => NoCollateralDown
<1> DEFINE Step == FrameworkStep /\ disciplined' =>
                      \A k \in Kind, n \in Names :
                          LET o == interfaces[k][n] IN
                          /\ o # NoObject /\ interfaces'[k][n] = o
                          /\ o.iface \in up /\ o.iface \notin up'
                          => MeantToGoDown(k, n, o)
<1>1. AliveInv /\ RestOK /\ (disciplined => HeldInv) /\ [Next]_vars => [Step]_vars
  BY FrameworkKeepsUp DEF AliveInv, StaysUp
<1> QED
  BY <1>1, HeldInvariant, PTL DEF Spec, NoCollateralDown
=============================================================================
