---------------------------- MODULE OutputsProofs ----------------------------
(***************************************************************************)
(* Proofs about Outputs, for any number of devices, sessions, slots of the *)
(* register and callbacks, and about OutputsAudio, for any number of       *)
(* backends and qualities. The invariant of Outputs has two halves that    *)
(* are kept apart, as in the code: RegisterSound is about the register and *)
(* the deferred handler, DevicesSound about the devices and sessions,      *)
(* which find each other by id.                                            *)
(***************************************************************************)
EXTENDS Outputs, OutputsAudio, SequenceTheorems, WellFoundedInduction, TLAPS

\* The register, with deferred_cb active or walking.
RegisterSound(reg, active, at) ==
  /\ reg \in [CallbackSlots -> SlotType]
  /\ \A i, j \in CallbackSlots : reg[i].call # 0 /\ reg[j].call # 0 /\ reg[i].device = reg[j].device => i = j
  /\ \A i \in CallbackSlots : reg[i].ready => active \/ (at # NotWalking /\ at <= i)

\* Ids are unique in the list, and the session of a device lives and has its id.
DevicesSound(dev, ses) ==
  /\ dev \in [Addresses -> DeviceType \cup {Null}]
  /\ ses \in [SessionAddresses -> BackendType \cup {Null}]
  /\ \A p, q \in Addresses : dev[p] # Null /\ dev[q] # Null /\ dev[p].id = dev[q].id => p = q
  /\ \A p \in Addresses : dev[p] # Null /\ dev[p].session # Null =>
       ses[dev[p].session] # Null /\ ses[dev[p].session].id = dev[p].id

\* The other variables; a device that a loop has before it is in the list.
RestSound(dev, left) ==
  /\ deferred \in BOOLEAN /\ walk \in 0..RegisterSize
  /\ calls \in 0..MaxCalls /\ handed \in Addresses \cup {Null}
  /\ left \subseteq {"start", "stop", "flush"} \X {p \in Addresses : dev[p] # Null}

IInv ==
  /\ DevicesSound(device, session)
  /\ RegisterSound(register, deferred, walk)
  /\ RestSound(device, work)

-----------------------------------------------------------------------------
(* The register *)

(* A set of numbers that is not empty has a least: the loops of callback_add and           *)
(* callback_get end at one slot.                                                           *)
LEMMA Least == ASSUME NEW T, T \subseteq Nat, T # {} PROVE \E x \in T : \A y \in T : x <= y
<1>1. IsWellFoundedOn(OpToRel(<, Nat), Nat)
  BY NatLessThanWellFounded
<1>2. PICK x \in T : \A y \in T : ~(<<y, x>> \in OpToRel(<, Nat))
  <2> DEFINE R == OpToRel(<, Nat)
  <2>1. IsWellFoundedOn(R, Nat)
    BY <1>1
  <2> HIDE DEF R
  <2>2. \E x \in T : \A y \in T : ~(<<y, x>> \in R)
    BY <2>1, WFMin
  <2> QED BY <2>2 DEF R
<1>3. ASSUME NEW y \in T, y < x PROVE <<y, x>> \in OpToRel(<, Nat)
  BY <1>3 DEF OpToRel
<1>4. \A y \in T : ~(y < x)
  BY <1>2, <1>3, Zenon
<1> QED BY <1>4

LEMMA SlotsNat == CallbackSlots \subseteq Nat /\ NotWalking \notin CallbackSlots /\ NoCallback \notin CallbackSlots
BY OutputsAssumption DEF CallbackSlots, NotWalking, NoCallback

(* callback_add takes a slot of the register, or none. *)
LEMMA CallbackAddType ==
  ASSUME NEW p, NEW call
  PROVE CallbackAdd(p, call) \in CallbackSlots \cup {NoCallback}
<1> DEFINE free == {i \in CallbackSlots : CallbackRemove(register, p)[i].call = 0}
<1>1. CASE call = 0 \/ free = {}
  BY <1>1 DEF CallbackAdd
<1>2. CASE ~(call = 0 \/ free = {})
  <2>1. \E i \in free : \A j \in free : i <= j
    BY <1>2, Least, SlotsNat
  <2>2. CallbackAdd(p, call) = CHOOSE i \in free : \A j \in free : i <= j
    BY <1>2 DEF CallbackAdd
  <2> HIDE DEF free
  <2>3. (CHOOSE i \in free : \A j \in free : i <= j) \in free
    BY <2>1
  <2> QED BY <2>2, <2>3 DEF free
<1> QED BY <1>1, <1>2

(* The slot callback_add takes was free. *)
LEMMA CallbackAddFree ==
  ASSUME NEW p, NEW call, CallbackAdd(p, call) # NoCallback
  PROVE call # 0
BY DEF CallbackAdd

(* callback_get gives a callback of the register. *)
LEMMA CallbackGetType ==
  ASSUME NEW p, register \in [CallbackSlots -> SlotType]
  PROVE CallbackGet(p) \in 0..StopCb
<1> DEFINE mine == {i \in CallbackSlots : register[i].device = p}
<1>0. 0 \in 0..StopCb
  BY OutputsAssumption DEF StopCb
<1>1. CASE mine = {}
  <2>1. ~\E i \in CallbackSlots : register[i].device = p
    BY <1>1
  <2> QED BY <2>1, <1>0 DEF CallbackGet
<1>2. CASE mine # {}
  <2>1. \E i \in mine : \A j \in mine : i <= j
    BY <1>2, Least, SlotsNat
  <2>2. \E i \in CallbackSlots : register[i].device = p /\ \A j \in CallbackSlots : register[j].device = p => i <= j
    BY <2>1
  <2> DEFINE i == CHOOSE i \in CallbackSlots : register[i].device = p /\ \A j \in CallbackSlots : register[j].device = p => i <= j
  <2>3. i \in CallbackSlots
    BY <2>2
  <2>4. CallbackGet(p) = register[i].call
    BY <1>2 DEF CallbackGet
  <2> HIDE DEF i
  <2>5. register[i] \in SlotType
    BY <2>3
  <2>6. register[i].call \in 0..StopCb
    BY <2>5 DEF SlotType
  <2> QED BY <2>4, <2>6
<1> QED BY <1>1, <1>2

LEMMA TakenSlot ==
  ASSUME NEW p \in Addresses \cup {Null}, NEW call \in 0..StopCb
  PROVE /\ Taken(p, call) \in SlotType /\ Taken(p, call).ready = FALSE
        /\ Taken(p, call).call = call /\ Taken(p, call).device = p
BY DEF Taken, SlotType

LEMMA EmptySlot == Empty \in SlotType /\ Empty.call = 0 /\ Empty.ready = FALSE /\ Empty.device = Null
<1>1. 0 \in 0..StopCb
  BY OutputsAssumption DEF StopCb
<1> QED BY <1>1, TakenSlot DEF Empty

(* callback_add replaces the callback of the device and keeps the register sound. *)
LEMMA RegisteredSound ==
  ASSUME NEW p \in Addresses, NEW call \in 0..StopCb, RegisterSound(register, deferred, walk)
  PROVE RegisterSound(Registered(p, call), deferred, walk)
<1> DEFINE removed == CallbackRemove(register, p)
           c == CallbackAdd(p, call)
           slot == Taken(p, call)
<1>1. /\ removed \in [CallbackSlots -> SlotType]
      /\ \A i \in CallbackSlots : (removed[i] = register[i] /\ register[i].device # p) \/ removed[i] = Empty
  BY EmptySlot DEF CallbackRemove, RegisterSound
<1>2. RegisterSound(removed, deferred, walk)
  BY <1>1, EmptySlot DEF RegisterSound
<1>3. CASE call = 0
  BY <1>3 DEF Registered
<1>4. CASE call # 0 /\ c = NoCallback
  BY <1>4, <1>2 DEF Registered
<1>5. CASE call # 0 /\ c # NoCallback
  <2>1. c \in CallbackSlots
    BY <1>5, CallbackAddType
  <2>2. Registered(p, call) = [removed EXCEPT ![c] = slot]
    BY <1>5 DEF Registered
  <2>3. slot \in SlotType /\ slot.ready = FALSE /\ slot.device = p
    BY TakenSlot
  <2> DEFINE new == [removed EXCEPT ![c] = slot]
  <2> HIDE DEF removed, c, slot
  <2>4. \A i \in CallbackSlots : new[i] = IF i = c THEN slot ELSE removed[i]
    BY <2>1, <1>1
  <2>5. new \in [CallbackSlots -> SlotType]
    BY <2>1, <2>3, <1>1
  <2>6. ASSUME NEW i \in CallbackSlots, i # c, removed[i].call # 0 PROVE removed[i].device # p
    BY <2>6, <1>1, EmptySlot
  <2>7. \A i, j \in CallbackSlots : new[i].call # 0 /\ new[j].call # 0 /\ new[i].device = new[j].device => i = j
    <3> SUFFICES ASSUME NEW i \in CallbackSlots, NEW j \in CallbackSlots, new[i].call # 0, new[j].call # 0,
                        new[i].device = new[j].device, i # j
                 PROVE FALSE
      OBVIOUS
    <3>1. CASE i = c
      BY <3>1, <2>3, <2>4, <2>6
    <3>2. CASE j = c
      BY <3>2, <2>3, <2>4, <2>6
    <3>3. CASE i # c /\ j # c
      BY <3>3, <2>4, <1>2 DEF RegisterSound
    <3> QED BY <3>1, <3>2, <3>3
  <2>8. \A i \in CallbackSlots : new[i].ready => deferred \/ (walk # NotWalking /\ walk <= i)
    BY <2>3, <2>4, <1>2 DEF RegisterSound
  <2> HIDE DEF new
  <2>9. RegisterSound(new, deferred, walk)
    BY <2>5, <2>7, <2>8 DEF RegisterSound
  <2> QED BY <2>2, <2>9 DEF new, removed, c, slot
<1> QED BY <1>3, <1>4, <1>5

(* outputs_cb marks a slot as answered and activates the event. *)
LEMMA ReportSound ==
  ASSUME NEW reg, RegisterSound(reg, deferred, walk), NEW c \in CallbackSlots \cup {NoCallback},
         NEW id \in Ids, deferred \in BOOLEAN, Report(reg, c, id)
  PROVE RegisterSound(register', deferred', walk) /\ deferred' \in BOOLEAN
<1>1. CASE c = NoCallback \/ reg[c].call = 0
  <2>1. register' = reg
    BY <1>1 DEF Report, OutputsCb
  <2>2. deferred => deferred'
    BY DEF Report
  <2> QED BY <2>1, <2>2 DEF RegisterSound, Report
<1>2. CASE ~(c = NoCallback \/ reg[c].call = 0)
  <2>1. c \in CallbackSlots /\ c # NoCallback
    BY <1>2
  <2> DEFINE slot == [reg[c] EXCEPT !.ready = TRUE, !.id = id]
  <2>2. /\ slot \in SlotType /\ slot.ready = TRUE
        /\ slot.call = reg[c].call /\ slot.device = reg[c].device
    <3>1. reg[c] \in SlotType
      BY <2>1 DEF RegisterSound
    <3> QED BY <3>1 DEF SlotType
  <2>3. register' = [reg EXCEPT ![c] = slot]
    <3>1. register' = [reg EXCEPT ![c].ready = TRUE, ![c].id = id]
      BY <1>2 DEF Report, OutputsCb
    <3>2. reg[c] \in SlotType
      BY <2>1 DEF RegisterSound
    <3> QED BY <3>1, <3>2, <2>1 DEF RegisterSound, SlotType
  <2> HIDE DEF slot
  <2>4. /\ register' \in [CallbackSlots -> SlotType]
        /\ \A i \in CallbackSlots : register'[i] = IF i = c THEN slot ELSE reg[i]
    BY <2>1, <2>2, <2>3 DEF RegisterSound
  <2>5. register'[c].ready = TRUE
    BY <2>1, <2>2, <2>4
  <2>6. deferred' = TRUE
    BY <2>1, <2>5 DEF Report
  <2>7. \A i \in CallbackSlots : register'[i].call = reg[i].call /\ register'[i].device = reg[i].device
    BY <2>2, <2>4
  <2> QED BY <2>4, <2>6, <2>7 DEF RegisterSound
<1> QED BY <1>1, <1>2

-----------------------------------------------------------------------------
(* Devices and sessions *)

(* What a device in the list and a live session are. *)
LEMMA Members ==
  ASSUME NEW dev, NEW ses, DevicesSound(dev, ses)
  PROVE /\ \A p \in Addresses : dev[p] # Null => dev[p] \in DeviceType
        /\ \A s \in SessionAddresses : ses[s] # Null => ses[s] \in BackendType
        /\ \A p \in Addresses : dev[p] # Null => dev[p].session \in SessionAddresses \cup {Null} /\ dev[p].id \in Ids
        /\ \A s \in SessionAddresses : ses[s] # Null =>
             ses[s].id \in Ids /\ ses[s].callback_id \in CallbackSlots \cup {NoCallback}
BY DEF DevicesSound, DeviceType, BackendType

(* outputs_device_get finds the device of the id, if there is one. *)
LEMMA GetFound ==
  ASSUME NEW dev, NEW ses, DevicesSound(dev, ses), NEW id
  PROVE /\ \A p \in Addresses : dev[p] # Null /\ dev[p].id = id => DeviceGet(dev, id) = p
        /\ DeviceGet(dev, id) # Null =>
             DeviceGet(dev, id) \in Addresses /\ dev[DeviceGet(dev, id)] # Null
             /\ dev[DeviceGet(dev, id)].id = id
<1>1. CASE \E p \in Addresses : dev[p] # Null /\ dev[p].id = id
  <2> DEFINE q == CHOOSE p \in Addresses : dev[p] # Null /\ dev[p].id = id
  <2>1. q \in Addresses /\ dev[q] # Null /\ dev[q].id = id
    BY <1>1
  <2>2. DeviceGet(dev, id) = q
    BY <1>1 DEF DeviceGet
  <2> HIDE DEF q
  <2> QED BY <2>1, <2>2 DEF DevicesSound
<1>2. CASE ~\E p \in Addresses : dev[p] # Null /\ dev[p].id = id
  <2>1. DeviceGet(dev, id) = Null
    BY <1>2 DEF DeviceGet
  <2> QED BY <2>1, <1>2
<1> QED BY <1>1, <1>2

(* A device that keeps its id and its session may change otherwise. *)
LEMMA DeviceChanged ==
  ASSUME NEW dev, NEW ses, DevicesSound(dev, ses), NEW p \in Addresses, dev[p] # Null,
         NEW new \in DeviceType, new.id = dev[p].id, new.session \in {dev[p].session, Null}
  PROVE DevicesSound([dev EXCEPT ![p] = new], ses)
<1>1. new # Null
  BY NullAssumption
<1>2. \A q \in Addresses : [dev EXCEPT ![p] = new][q] = IF q = p THEN new ELSE dev[q]
  BY DEF DevicesSound
<1>3. [dev EXCEPT ![p] = new] \in [Addresses -> DeviceType \cup {Null}]
  BY DEF DevicesSound
<1> DEFINE after == [dev EXCEPT ![p] = new]
<1> HIDE DEF after
<1>4. \A q \in Addresses : /\ after[q] # Null <=> dev[q] # Null
                           /\ after[q].id = dev[q].id
                           /\ after[q].session \in {dev[q].session, Null}
  BY <1>1, <1>2 DEF after
<1>5. after \in [Addresses -> DeviceType \cup {Null}]
  BY <1>3 DEF after
<1>6. DevicesSound(after, ses)
  BY <1>4, <1>5 DEF DevicesSound
<1> QED BY <1>6 DEF after

(* A session that keeps its id may change otherwise. *)
LEMMA SessionChanged ==
  ASSUME NEW dev, NEW ses, DevicesSound(dev, ses), NEW s \in SessionAddresses, ses[s] # Null,
         NEW new \in BackendType, new.id = ses[s].id
  PROVE DevicesSound(dev, [ses EXCEPT ![s] = new])
<1>1. new # Null
  BY NullAssumption
<1> DEFINE after == [ses EXCEPT ![s] = new]
<1>2. /\ after \in [SessionAddresses -> BackendType \cup {Null}]
      /\ \A q \in SessionAddresses : after[q] = IF q = s THEN new ELSE ses[q]
  BY DEF DevicesSound
<1> HIDE DEF after
<1>3. \A q \in SessionAddresses : (after[q] # Null <=> ses[q] # Null) /\ after[q].id = ses[q].id
  BY <1>1, <1>2
<1>4. \A p \in Addresses : dev[p] # Null /\ dev[p].session # Null => dev[p].session \in SessionAddresses
  BY Members
<1>5. DevicesSound(dev, after)
  BY <1>2, <1>3, <1>4 DEF DevicesSound
<1> QED BY <1>5 DEF after

(* outputs_device_session_remove, and the session freed: the device that has it is found    *)
(* by the id, so no device keeps it.                                                        *)
LEMMA SessionRemoveSound ==
  ASSUME NEW dev, NEW ses, DevicesSound(dev, ses), NEW s \in SessionAddresses, ses[s] # Null
  PROVE /\ DevicesSound(SessionRemove(dev, ses[s].id), [ses EXCEPT ![s] = Null])
        /\ \A p \in Addresses : SessionRemove(dev, ses[s].id)[p] # Null <=> dev[p] # Null
<1> DEFINE id == ses[s].id
           g == DeviceGet(dev, id)
           after == SessionRemove(dev, id)
           left == [ses EXCEPT ![s] = Null]
<1>1. \A p \in Addresses : dev[p] # Null /\ dev[p].id = id => g = p
  BY GetFound
<1>2. g # Null => g \in Addresses /\ dev[g] # Null
  BY GetFound
<1>3. \A p \in Addresses : after[p] = IF p = g THEN [dev[p] EXCEPT !.session = Null] ELSE dev[p]
  BY DEF SessionRemove
<1>4. after = [p \in Addresses |-> after[p]]
  BY DEF SessionRemove
<1>5. ASSUME NEW p \in Addresses, p = g
      PROVE after[p] \in DeviceType /\ after[p].id = dev[p].id /\ after[p].session = Null
            /\ dev[p] # Null /\ after[p] # Null
  <2>1. dev[p] # Null
    BY <1>2, <1>5, OutputsAssumption
  <2>2. dev[p] \in DeviceType
    BY <2>1, Members
  <2>3. after[p] = [dev[p] EXCEPT !.session = Null]
    BY <1>3, <1>5
  <2>4. /\ [dev[p] EXCEPT !.session = Null] \in DeviceType
        /\ [dev[p] EXCEPT !.session = Null].id = dev[p].id
        /\ [dev[p] EXCEPT !.session = Null].session = Null
    BY <2>2 DEF DeviceType
  <2> HIDE DEF after
  <2>5. after[p] # Null
    BY <2>3, <2>4, NullAssumption
  <2> QED BY <2>1, <2>3, <2>4, <2>5
<1>6. \A p \in Addresses : p # g => after[p] = dev[p]
  BY <1>3
<1>7. /\ left \in [SessionAddresses -> BackendType \cup {Null}]
      /\ \A q \in SessionAddresses : q # s => left[q] = ses[q]
  BY DEF DevicesSound
<1>8. \A p \in Addresses : dev[p] # Null /\ dev[p].session # Null =>
        dev[p].session \in SessionAddresses /\ (dev[p].session = s => p = g)
  <2> SUFFICES ASSUME NEW p \in Addresses, dev[p] # Null, dev[p].session # Null
               PROVE dev[p].session \in SessionAddresses /\ (dev[p].session = s => p = g)
    OBVIOUS
  <2>1. dev[p].session \in SessionAddresses
    BY Members
  <2>2. dev[p].session = s => dev[p].id = id
    BY DEF DevicesSound
  <2> HIDE DEF g, id
  <2> QED BY <1>1, <2>1, <2>2
<1> HIDE DEF after, g, left, id
<1>9. after \in [Addresses -> DeviceType \cup {Null}]
  <2>1. \A p \in Addresses : after[p] \in DeviceType \cup {Null}
    BY <1>5, <1>6 DEF DevicesSound
  <2> QED BY <2>1, <1>4
<1>10. \A p \in Addresses : (after[p] # Null <=> dev[p] # Null) /\ after[p].id = dev[p].id
  BY <1>5, <1>6
<1>11. \A p \in Addresses : after[p] # Null /\ after[p].session # Null =>
         left[after[p].session] # Null /\ left[after[p].session].id = after[p].id
  BY <1>5, <1>6, <1>7, <1>8 DEF DevicesSound
<1>12. DevicesSound(after, left)
  BY <1>7, <1>9, <1>10, <1>11 DEF DevicesSound
<1> QED BY <1>10, <1>12 DEF after, left, id

(* outputs_device_session_add of a new session. *)
LEMMA SessionAddSound ==
  ASSUME NEW dev, NEW ses, DevicesSound(dev, ses), NEW p \in Addresses, dev[p] # Null,
         NEW s \in SessionAddresses, ses[s] = Null, NEW new \in BackendType, new.id = dev[p].id
  PROVE DevicesSound([dev EXCEPT ![p].session = s], [ses EXCEPT ![s] = new])
<1>1. new # Null
  BY NullAssumption
<1>2. dev[p] \in DeviceType
  BY Members
<1> DEFINE with == [dev[p] EXCEPT !.session = s]
           after == [dev EXCEPT ![p].session = s]
           more == [ses EXCEPT ![s] = new]
<1>3. with \in DeviceType /\ with.id = dev[p].id /\ with.session = s
  BY <1>2 DEF DeviceType
<1>4. /\ after \in [Addresses -> DeviceType \cup {Null}]
      /\ \A q \in Addresses : after[q] = IF q = p THEN with ELSE dev[q]
  BY <1>3 DEF DevicesSound
<1>5. /\ more \in [SessionAddresses -> BackendType \cup {Null}]
      /\ \A q \in SessionAddresses : more[q] = IF q = s THEN new ELSE ses[q]
  BY DEF DevicesSound
<1>6. \A q \in Addresses : dev[q] # Null /\ dev[q].session # Null =>
        dev[q].session \in SessionAddresses /\ dev[q].session # s
  BY Members DEF DevicesSound
<1>7. with # Null
  BY <1>3, NullAssumption
<1> HIDE DEF with, after, more
<1>8. \A q \in Addresses : (after[q] # Null <=> dev[q] # Null) /\ after[q].id = dev[q].id
  BY <1>3, <1>4, <1>7
<1>9. \A q \in Addresses : after[q] # Null /\ after[q].session # Null =>
        more[after[q].session] # Null /\ more[after[q].session].id = after[q].id
  BY <1>1, <1>3, <1>4, <1>5, <1>6 DEF DevicesSound
<1>10. DevicesSound(after, more)
  BY <1>4, <1>5, <1>8, <1>9 DEF DevicesSound
<1> QED BY <1>10 DEF after, more

(* outputs_device_free: what the others point at stays. *)
LEMMA FreeSound ==
  ASSUME NEW dev, NEW ses, DevicesSound(dev, ses), NEW p \in Addresses
  PROVE DevicesSound([dev EXCEPT ![p] = Null], ses)
BY DEF DevicesSound

(* outputs_device_free, and the session of the device freed with it. *)
LEMMA FreeBothSound ==
  ASSUME NEW dev, NEW ses, DevicesSound(dev, ses), NEW p \in Addresses, dev[p] # Null,
         dev[p].session # Null
  PROVE DevicesSound([dev EXCEPT ![p] = Null], [ses EXCEPT ![dev[p].session] = Null])
<1> DEFINE s == dev[p].session
           after == [dev EXCEPT ![p] = Null]
           left == [ses EXCEPT ![s] = Null]
<1>1. s \in SessionAddresses /\ ses[s] # Null /\ ses[s].id = dev[p].id
  BY Members DEF DevicesSound
<1>2. /\ after \in [Addresses -> DeviceType \cup {Null}]
      /\ \A q \in Addresses : after[q] = IF q = p THEN Null ELSE dev[q]
  BY DEF DevicesSound
<1>3. /\ left \in [SessionAddresses -> BackendType \cup {Null}]
      /\ \A q \in SessionAddresses : left[q] = IF q = s THEN Null ELSE ses[q]
  BY DEF DevicesSound
<1>4. \A q \in Addresses : dev[q] # Null /\ dev[q].session # Null =>
        dev[q].session \in SessionAddresses /\ (dev[q].session = s => q = p)
  <2> SUFFICES ASSUME NEW q \in Addresses, dev[q] # Null, dev[q].session # Null
               PROVE dev[q].session \in SessionAddresses /\ (dev[q].session = s => q = p)
    OBVIOUS
  <2>1. dev[q].session \in SessionAddresses
    BY Members
  <2>2. dev[q].session = s => dev[q].id = dev[p].id
    BY <1>1 DEF DevicesSound
  <2>3. dev[q].id = dev[p].id => q = p
    BY DEF DevicesSound
  <2> QED BY <2>1, <2>2, <2>3
<1> HIDE DEF after, left, s
<1>5. DevicesSound(after, left)
  BY <1>2, <1>3, <1>4 DEF DevicesSound
<1> QED BY <1>5 DEF after, left, s

(* outputs_device_add of a device whose id is not in the list. *)
LEMMA AddSound ==
  ASSUME NEW dev, NEW ses, DevicesSound(dev, ses), NEW p \in Addresses, dev[p] = Null,
         NEW new \in DeviceType, new.session = Null, DeviceGet(dev, new.id) = Null
  PROVE DevicesSound([dev EXCEPT ![p] = new], ses)
<1>1. \A q \in Addresses : dev[q] # Null => dev[q].id # new.id
  BY GetFound, OutputsAssumption
<1>2. \A q \in Addresses : [dev EXCEPT ![p] = new][q] = IF q = p THEN new ELSE dev[q]
  BY DEF DevicesSound
<1> QED BY <1>1, <1>2 DEF DevicesSound

-----------------------------------------------------------------------------
(* The operations on a device *)

\* What an operation keeps: both halves of the invariant and which devices are listed.
Kept ==
  /\ DevicesSound(device', session')
  /\ RegisterSound(register', deferred', walk) /\ deferred' \in BOOLEAN
  /\ \A q \in Addresses : device'[q] # Null <=> device[q] # Null

(* session_make: the session gets the slot callback_add took. *)
LEMMA StartKeeps ==
  ASSUME IInv, NEW p \in List, NEW call \in 0..StopCb, DeviceStart(p, call)
  PROVE Kept
<1> DEFINE c == CallbackAdd(p, call)
           id == device[p].id
<1>0. p \in Addresses /\ device[p] # Null /\ deferred \in BOOLEAN
  BY DEF List, IInv, RestSound
<1>1. DevicesSound(device, session) /\ RegisterSound(register, deferred, walk)
  BY DEF IInv
<1>2. RegisterSound(Registered(p, call), deferred, walk)
  BY <1>0, <1>1, RegisteredSound
<1>3. c \in CallbackSlots \cup {NoCallback} /\ id \in Ids
  BY <1>0, <1>1, CallbackAddType, Members
<1>4. CASE UNCHANGED <<device, register, session, deferred>>
  BY <1>4, <1>0, <1>1 DEF Kept
<1>5. CASE register' = Registered(p, call) /\ UNCHANGED <<device, session, deferred>>
  BY <1>5, <1>0, <1>1, <1>2 DEF Kept
<1>6. ASSUME NEW s \in SessionAddresses, session[s] = Null,
             session' = [session EXCEPT ![s] = [id |-> id, callback_id |-> c, state |-> "STARTUP"]],
             device' = [device EXCEPT ![p].session = s],
             register' = Registered(p, call), deferred' = deferred
      PROVE Kept
  <2> DEFINE new == [id |-> id, callback_id |-> c, state |-> "STARTUP"]
  <2>1. new \in BackendType /\ new.id = id
    BY <1>3 DEF BackendType
  <2> HIDE DEF new
  <2>2. DevicesSound([device EXCEPT ![p].session = s], [session EXCEPT ![s] = new])
    BY <2>1, <1>0, <1>1, <1>6, SessionAddSound
  <2>3. DevicesSound(device', session')
    BY <2>2, <1>6 DEF new
  <2>4. device[p] \in DeviceType
    BY <1>0, <1>1, Members
  <2>5. [device[p] EXCEPT !.session = s] \in DeviceType
    BY <2>4 DEF DeviceType
  <2>6. [device[p] EXCEPT !.session = s] # Null
    BY <2>5, NullAssumption
  <2>7. \A q \in Addresses : device'[q] # Null <=> device[q] # Null
    BY <2>6, <1>0, <1>1, <1>6 DEF DevicesSound
  <2> QED BY <2>3, <2>7, <1>0, <1>2, <1>6 DEF Kept
<1>7. CASE Report(Registered(p, call), c, id) /\ UNCHANGED <<device, session>>
  <2>1. RegisterSound(register', deferred', walk) /\ deferred' \in BOOLEAN
    BY <1>0, <1>2, <1>3, <1>7, ReportSound
  <2> QED BY <2>1, <1>1, <1>7 DEF Kept
<1>8. ASSUME NEW s \in SessionAddresses, session[s] = Null,
             session' = [session EXCEPT ![s] = [id |-> id, callback_id |-> c, state |-> "STARTUP"]],
             device' = device,
             register' = Registered(p, call), deferred' = deferred
      PROVE Kept
  <2> DEFINE new == [id |-> id, callback_id |-> c, state |-> "STARTUP"]
  <2>1. new \in BackendType
    BY <1>3 DEF BackendType
  <2> HIDE DEF new
  <2>2. session' = [session EXCEPT ![s] = new]
    BY <1>8 DEF new
  <2>3. /\ session' \in [SessionAddresses -> BackendType \cup {Null}]
        /\ \A t \in SessionAddresses : session[t] # Null => session'[t] = session[t]
    BY <2>1, <2>2, <1>1, <1>8 DEF DevicesSound
  <2>4. \A q \in Addresses : device[q] # Null /\ device[q].session # Null =>
          device[q].session \in SessionAddresses
    BY <1>1 DEF DevicesSound, DeviceType
  <2>5. DevicesSound(device', session')
    BY <2>3, <2>4, <1>1, <1>8 DEF DevicesSound
  <2> QED BY <2>5, <1>0, <1>2, <1>8 DEF Kept
<1> QED BY <1>4, <1>5, <1>6, <1>7, <1>8 DEF DeviceStart, Live

(* A session that is asked something gets the slot, or fails and is freed. *)
LEMMA AskedKeeps ==
  ASSUME IInv, NEW p \in List, NEW call \in 0..StopCb, device[p].session # Null, Asked(p, call)
  PROVE Kept
<1> DEFINE c == CallbackAdd(p, call)
           s == device[p].session
<1>0. p \in Addresses /\ device[p] # Null /\ deferred \in BOOLEAN
  BY DEF List, IInv, RestSound
<1>1. DevicesSound(device, session) /\ RegisterSound(register, deferred, walk)
  BY DEF IInv
<1>2. RegisterSound(Registered(p, call), deferred, walk)
  BY <1>0, <1>1, RegisteredSound
<1>3. c \in CallbackSlots \cup {NoCallback} /\ device[p].id \in Ids
  BY <1>0, <1>1, CallbackAddType, Members
<1>4. s \in SessionAddresses /\ session[s] # Null /\ session[s].id = device[p].id /\ session[s] \in BackendType
  BY <1>0, <1>1, Members DEF DevicesSound
<1>5. CASE session' = [session EXCEPT ![s].callback_id = c]
           /\ register' = Registered(p, call) /\ UNCHANGED <<device, deferred>>
  <2> DEFINE new == [session[s] EXCEPT !.callback_id = c]
  <2>1. new \in BackendType /\ new.id = session[s].id
    BY <1>3, <1>4 DEF BackendType
  <2>2. session' = [session EXCEPT ![s] = new]
    BY <1>5
  <2> HIDE DEF new, s
  <2>3. DevicesSound(device, [session EXCEPT ![s] = new])
    BY <2>1, <1>1, <1>4, SessionChanged
  <2> QED BY <2>2, <2>3, <1>0, <1>2, <1>5 DEF Kept
<1>6. CASE /\ session' = [session EXCEPT ![s] = Null]
           /\ device' = SessionRemove(device, device[p].id)
           /\ Report(Registered(p, call), c, device[p].id)
  <2>1. RegisterSound(register', deferred', walk) /\ deferred' \in BOOLEAN
    BY <1>0, <1>2, <1>3, <1>6, ReportSound
  <2>2. /\ DevicesSound(SessionRemove(device, session[s].id), [session EXCEPT ![s] = Null])
        /\ \A q \in Addresses : SessionRemove(device, session[s].id)[q] # Null <=> device[q] # Null
    BY <1>1, <1>4, SessionRemoveSound
  <2> QED BY <2>1, <2>2, <1>4, <1>6 DEF Kept
<1> QED BY <1>5, <1>6 DEF Asked

LEMMA StopKeeps ==
  ASSUME IInv, NEW p \in List, NEW call \in 0..StopCb, DeviceStop(p, call)
  PROVE Kept
<1>1. CASE device[p].session = Null
  BY <1>1 DEF DeviceStop, Kept, IInv, RestSound
<1>2. CASE device[p].session # Null
  BY <1>2, AskedKeeps DEF DeviceStop
<1> QED BY <1>1, <1>2

(* Also when the backend does not take the callback. *)
LEMMA CommandKeeps ==
  ASSUME IInv, NEW p \in List, NEW call \in 0..StopCb, NEW states, Command(p, call, states)
  PROVE Kept
<1>1. CASE DeviceStop(p, call)
  BY <1>1, StopKeeps
<1>2. CASE register' = Registered(p, call) /\ UNCHANGED <<device, session, deferred>>
  <2>1. p \in Addresses /\ RegisterSound(register, deferred, walk)
    BY DEF List, IInv
  <2>2. RegisterSound(Registered(p, call), deferred, walk)
    BY <2>1, RegisteredSound
  <2> QED BY <1>2, <2>2 DEF Kept, IInv, RestSound
<1> QED BY <1>1, <1>2 DEF Command

(* outputs_device_cb_set changes the register and one session. *)
LEMMA CbSetKeeps ==
  ASSUME IInv, NEW p \in List, NEW call \in 0..StopCb, CbSet(p, call)
  PROVE DevicesSound(device, session') /\ RegisterSound(register', deferred, walk)
<1> DEFINE s == device[p].session
<1>1. DevicesSound(device, session) /\ RegisterSound(register, deferred, walk)
      /\ p \in Addresses /\ device[p] # Null
  BY DEF IInv, List
<1>2. CASE s = Null
  BY <1>1, <1>2 DEF CbSet
<1>3. CASE s # Null
  <2>1. s \in SessionAddresses /\ session[s] # Null /\ session[s] \in BackendType
    BY <1>1, <1>3, Members DEF DevicesSound
  <2> DEFINE new == [session[s] EXCEPT !.callback_id = CallbackAdd(p, call)]
  <2>2. new \in BackendType /\ new.id = session[s].id
    BY <2>1, CallbackAddType DEF BackendType
  <2>3. session' = [session EXCEPT ![s] = new] /\ register' = Registered(p, call)
    BY <1>3 DEF CbSet
  <2> HIDE DEF new, s
  <2>4. DevicesSound(device, [session EXCEPT ![s] = new])
    BY <1>1, <2>1, <2>2, SessionChanged
  <2> QED BY <1>1, <2>3, <2>4, RegisteredSound
<1> QED BY <1>2, <1>3

-----------------------------------------------------------------------------
(* The invariant *)

LEMMA KeptInv ==
  ASSUME IInv, Kept, walk' = walk, handed' = handed, work' \subseteq work, calls' \in 0..MaxCalls
  PROVE IInv'
<1>1. RestSound(device, work)'
  BY DEF IInv, Kept, RestSound
<1>2. DevicesSound(device, session)' /\ RegisterSound(register, deferred, walk)'
  BY DEF Kept
<1> QED BY <1>1, <1>2 DEF IInv

LEMMA InitSound == OutputsInit => IInv
<1> SUFFICES ASSUME OutputsInit PROVE IInv
  OBVIOUS
<1>1. DevicesSound(device, session)
  BY DEF OutputsInit, DevicesSound
<1>2. RegisterSound(register, deferred, walk)
  BY EmptySlot DEF OutputsInit, RegisterSound
<1>3. RestSound(device, work)
  <2>1. deferred = FALSE /\ walk = RegisterSize /\ calls = 0 /\ handed = Null /\ work = {}
    BY DEF OutputsInit, NotWalking
  <2>2. 0 \in 0..MaxCalls /\ RegisterSize \in 0..RegisterSize
    BY OutputsAssumption
  <2>3. work \subseteq {"start", "stop", "flush"} \X {p \in Addresses : device[p] # Null}
    BY <2>1
  <2> QED BY <2>1, <2>2, <2>3 DEF RestSound
<1> QED BY <1>1, <1>2, <1>3 DEF IInv

(* A device found again is updated, a new one has an id of its own. *)
LEMMA DeviceAddSound == ASSUME IInv, NEW id \in Ids, NEW p \in Addresses, DeviceAdd(id, p) PROVE IInv'
<1>1. DevicesSound(device, session) /\ RegisterSound(register, deferred, walk) /\ RestSound(device, work)
  BY DEF IInv
<1>2. UNCHANGED <<register, session, deferred, calls, walk, work, handed>> /\ work = {}
  BY DEF DeviceAdd, Plain
<1>3. DevicesSound(device', session)
  <2>1. CASE DeviceGet(device, id) = Null
    <3> DEFINE new == [id |-> id, advertised |-> TRUE, session |-> Null, stop_timer |-> FALSE]
    <3>1. new \in DeviceType /\ new.session = Null /\ new.id = id
      BY DEF DeviceType
    <3>2. device[p] = Null /\ device' = [device EXCEPT ![p] = new]
      BY <2>1 DEF DeviceAdd, List
    <3> HIDE DEF new
    <3> QED BY <1>1, <2>1, <3>1, <3>2, AddSound
  <2>2. CASE DeviceGet(device, id) # Null
    <3>1. device[p] # Null
      BY <1>1, <2>2, GetFound DEF DeviceAdd
    <3>2. device[p] \in DeviceType
      BY <1>1, <3>1, Members
    <3> DEFINE new == [device[p] EXCEPT !.advertised = TRUE]
    <3>3. new \in DeviceType /\ new.id = device[p].id /\ new.session = device[p].session
      BY <3>2 DEF DeviceType
    <3>4. device' = [device EXCEPT ![p] = new]
      BY <2>2 DEF DeviceAdd
    <3> HIDE DEF new
    <3> QED BY <1>1, <3>1, <3>3, <3>4, DeviceChanged
  <2> QED BY <2>1, <2>2
<1>4. RestSound(device', work)
  BY <1>1, <1>2 DEF RestSound
<1> QED BY <1>1, <1>2, <1>3, <1>4 DEF IInv, RestSound

(* The device is freed, whether its session was or not. *)
LEMMA DeviceRemoveSound == ASSUME IInv, NEW p \in Addresses, DeviceRemove(p) PROVE IInv'
<1> DEFINE s == device[p].session
           c == CallbackAdd(p, StopCb)
<1>1. DevicesSound(device, session) /\ RegisterSound(register, deferred, walk) /\ RestSound(device, work)
  BY DEF IInv
<1>2. /\ UNCHANGED <<calls, walk, work, handed>> /\ work = {} /\ device[p] # Null
      /\ device' = [device EXCEPT ![p] = Null]
  BY DEF DeviceRemove, Plain, DeviceFree, List
<1>3. StopCb \in 0..StopCb /\ deferred \in BOOLEAN
  BY <1>1, OutputsAssumption DEF StopCb, RestSound
<1>4. RegisterSound(Registered(p, StopCb), deferred, walk) /\ c \in CallbackSlots \cup {NoCallback}
      /\ device[p].id \in Ids
  BY <1>1, <1>2, <1>3, RegisteredSound, CallbackAddType, Members
<1>5. /\ DevicesSound(device', session')
      /\ RegisterSound(register', deferred', walk) /\ deferred' \in BOOLEAN
  <2>1. CASE UNCHANGED <<register, session, deferred>>
    BY <1>1, <1>2, <1>3, <2>1, FreeSound
  <2>2. CASE s # Null /\ session' = [session EXCEPT ![s].callback_id = c]
             /\ register' = Registered(p, StopCb) /\ UNCHANGED deferred
    <3>1. s \in SessionAddresses /\ session[s] # Null /\ session[s] \in BackendType
      BY <1>1, <1>2, <2>2, Members DEF DevicesSound
    <3> DEFINE new == [session[s] EXCEPT !.callback_id = c]
    <3>2. new \in BackendType /\ new.id = session[s].id
      BY <3>1, <1>4 DEF BackendType
    <3>3. session' = [session EXCEPT ![s] = new]
      BY <2>2
    <3> HIDE DEF new, s, c
    <3>4. DevicesSound(device, session')
      BY <1>1, <3>1, <3>2, <3>3, SessionChanged
    <3>5. DevicesSound(device', session')
      BY <1>2, <3>4, FreeSound
    <3> QED BY <3>5, <1>3, <1>4, <2>2
  <2>3. CASE s # Null /\ session' = [session EXCEPT ![s] = Null]
             /\ Report(Registered(p, StopCb), c, device[p].id)
    <3>1. DevicesSound(device', session')
      BY <1>1, <1>2, <2>3, FreeBothSound
    <3>2. RegisterSound(register', deferred', walk) /\ deferred' \in BOOLEAN
      BY <1>3, <1>4, <2>3, ReportSound
    <3> QED BY <3>1, <3>2
  <2> QED BY <2>1, <2>2, <2>3 DEF DeviceRemove
<1>6. RestSound(device, work)'
  BY <1>1, <1>2, <1>5 DEF RestSound
<1> QED BY <1>2, <1>5, <1>6 DEF IInv

(* A flag of the device. *)
LEMMA WithdrawnSound == ASSUME IInv, NEW p \in Addresses, Withdrawn(p) PROVE IInv'
<1>1. DevicesSound(device, session) /\ RegisterSound(register, deferred, walk) /\ RestSound(device, work)
  BY DEF IInv
<1>2. /\ UNCHANGED <<register, session, deferred, calls, walk, work, handed>> /\ work = {}
      /\ device[p] # Null
  BY DEF Withdrawn, Plain, List
<1>3. device[p] \in DeviceType
  BY <1>1, <1>2, Members
<1> DEFINE new == [device[p] EXCEPT !.advertised = FALSE]
<1>4. new \in DeviceType /\ new.id = device[p].id /\ new.session = device[p].session
  BY <1>3 DEF DeviceType
<1>5. device' = [device EXCEPT ![p] = new]
  BY DEF Withdrawn
<1> HIDE DEF new
<1>6. DevicesSound(device', session)
  BY <1>1, <1>2, <1>4, <1>5, DeviceChanged
<1> QED BY <1>1, <1>2, <1>6 DEF IInv, RestSound

LEMMA SetCallbackSound == ASSUME IInv, NEW p \in Addresses, SetCallback(p) PROVE IInv'
<1>1. /\ p \in List /\ calls + 1 \in 0..StopCb /\ calls + 1 \in 0..MaxCalls /\ CbSet(p, calls + 1)
      /\ calls' = calls + 1 /\ UNCHANGED <<device, deferred, walk, work, handed>>
  BY OutputsAssumption DEF SetCallback, Calls, CbSet, IInv, RestSound, StopCb
<1>2. DevicesSound(device, session') /\ RegisterSound(register', deferred, walk)
  BY <1>1, CbSetKeeps
<1> QED BY <1>1, <1>2 DEF IInv, RestSound

LEMMA StopDelayedSound == ASSUME IInv, NEW p \in Addresses, StopDelayed(p) PROVE IInv'
<1>1. /\ p \in List /\ calls + 1 \in 0..StopCb /\ calls + 1 \in 0..MaxCalls /\ CbSet(p, calls + 1)
      /\ calls' = calls + 1 /\ UNCHANGED <<deferred, walk, work, handed>> /\ work = {}
  BY OutputsAssumption DEF StopDelayed, Calls, CbSet, IInv, RestSound, StopCb
<1>2. DevicesSound(device, session') /\ RegisterSound(register', deferred, walk)
  BY <1>1, CbSetKeeps
<1>3. device[p] # Null
  BY <1>1 DEF List
<1>4. device[p] \in DeviceType
  BY <1>2, <1>3, Members
<1> DEFINE new == [device[p] EXCEPT !.stop_timer = (@ \/ device[p].session # Null)]
<1>5. new \in DeviceType /\ new.id = device[p].id /\ new.session = device[p].session
  BY <1>4 DEF DeviceType
<1>6. device' = [device EXCEPT ![p] = new]
  BY DEF StopDelayed
<1> HIDE DEF new
<1>7. DevicesSound(device', session')
  BY <1>2, <1>3, <1>5, <1>6, DeviceChanged
<1> QED BY <1>1, <1>2, <1>7 DEF IInv, RestSound

LEMMA StopDelayedCancelSound == ASSUME IInv, StopDelayedCancel PROVE IInv'
<1>1. DevicesSound(device, session) /\ RegisterSound(register, deferred, walk) /\ RestSound(device, work)
  BY DEF IInv
<1>2. /\ UNCHANGED <<register, session, deferred, calls, walk, work, handed>> /\ work = {}
      /\ \A p \in Addresses : device'[p] = IF p \in List THEN [device[p] EXCEPT !.stop_timer = FALSE]
                                           ELSE device[p]
      /\ device' = [p \in Addresses |-> device'[p]]
  BY DEF StopDelayedCancel, Plain
<1>3. ASSUME NEW p \in Addresses, device[p] # Null
      PROVE /\ device'[p] \in DeviceType /\ device'[p] # Null
            /\ device'[p].id = device[p].id /\ device'[p].session = device[p].session
  <2>1. device[p] \in DeviceType
    BY <1>1, <1>3, Members
  <2> DEFINE new == [device[p] EXCEPT !.stop_timer = FALSE]
  <2>2. new \in DeviceType /\ new.id = device[p].id /\ new.session = device[p].session
    BY <2>1 DEF DeviceType
  <2>3. device'[p] = new
    BY <1>2, <1>3 DEF List
  <2> HIDE DEF new
  <2> QED BY <2>2, <2>3, NullAssumption
<1>4. \A p \in Addresses : device[p] = Null => device'[p] = Null
  BY <1>2 DEF List
<1>5. device' \in [Addresses -> DeviceType \cup {Null}]
  <2>1. \A p \in Addresses : device'[p] \in DeviceType \cup {Null}
    BY <1>3, <1>4
  <2> QED BY <1>2, <2>1
<1>6. DevicesSound(device', session)
  BY <1>1, <1>3, <1>4, <1>5 DEF DevicesSound
<1> QED BY <1>1, <1>2, <1>6 DEF IInv, RestSound

(* The callback registered for the device is passed on, with whatever session it has. *)
LEMMA StopTimerSound == ASSUME IInv, NEW p \in Addresses, StopTimer(p) PROVE IInv'
<1> DEFINE s == device[p].session
           call == CallbackGet(p)
           c == CallbackAdd(p, call)
           new == [device[p] EXCEPT !.stop_timer = FALSE]
           fired == [device EXCEPT ![p] = new]
<1>1. DevicesSound(device, session) /\ RegisterSound(register, deferred, walk) /\ RestSound(device, work)
  BY DEF IInv
<1>2. UNCHANGED <<walk, work, calls, handed>> /\ work = {} /\ device[p] # Null /\ deferred \in BOOLEAN
  BY <1>1 DEF StopTimer, List, RestSound
<1>3. call \in 0..StopCb
  BY <1>1, CallbackGetType DEF RegisterSound
<1>4. /\ RegisterSound(Registered(p, call), deferred, walk) /\ c \in CallbackSlots \cup {NoCallback}
      /\ device[p].id \in Ids /\ device[p] \in DeviceType
  BY <1>1, <1>2, <1>3, RegisteredSound, CallbackAddType, Members
<1>5. new \in DeviceType /\ new.id = device[p].id /\ new.session = s
  BY <1>4 DEF DeviceType
<1>6. fired = [device EXCEPT ![p].stop_timer = FALSE]
  OBVIOUS
<1> HIDE DEF new, call, c
<1>7. DevicesSound(fired, session)
  BY <1>1, <1>2, <1>5, DeviceChanged
<1>8. CASE s = Null
  BY <1>1, <1>2, <1>6, <1>7, <1>8 DEF StopTimer, IInv, RestSound
<1>9. CASE s # Null
  <2>1. s \in SessionAddresses /\ session[s] # Null /\ session[s].id = device[p].id /\ session[s] \in BackendType
    BY <1>1, <1>2, <1>9, Members DEF DevicesSound
  <2>2. \/ /\ session' = [session EXCEPT ![s].callback_id = c]
           /\ register' = Registered(p, call) /\ device' = fired /\ UNCHANGED deferred
        \/ /\ session' = [session EXCEPT ![s] = Null]
           /\ device' = SessionRemove(fired, device[p].id)
           /\ Report(Registered(p, call), c, device[p].id)
    BY <1>6, <1>9 DEF StopTimer, call, c
  <2>3. CASE session' = [session EXCEPT ![s].callback_id = c]
             /\ register' = Registered(p, call) /\ device' = fired /\ UNCHANGED deferred
    <3> DEFINE with == [session[s] EXCEPT !.callback_id = c]
    <3>1. with \in BackendType /\ with.id = session[s].id /\ session' = [session EXCEPT ![s] = with]
      BY <1>4, <2>1, <2>3 DEF BackendType
    <3> HIDE DEF with, fired, s
    <3>2. DevicesSound(device', session')
      <4>1. DevicesSound(fired, [session EXCEPT ![s] = with])
        BY <1>7, <2>1, <3>1, SessionChanged
      <4> QED BY <2>3, <3>1, <4>1
    <3>3. RegisterSound(register', deferred', walk')
      BY <1>2, <1>4, <2>3
    <3>4. RestSound(device', work)
      BY <1>1, <1>2 DEF RestSound
    <3> QED BY <1>2, <2>3, <3>2, <3>3, <3>4 DEF IInv, RestSound
  <2>4. CASE /\ session' = [session EXCEPT ![s] = Null]
             /\ device' = SessionRemove(fired, device[p].id)
             /\ Report(Registered(p, call), c, device[p].id)
    <3> HIDE DEF fired, s
    <3>1. DevicesSound(device', session')
      BY <1>7, <2>1, <2>4, SessionRemoveSound
    <3>2. RegisterSound(register', deferred', walk) /\ deferred' \in BOOLEAN
      BY <1>2, <1>4, <2>4, ReportSound
    <3> QED BY <1>1, <1>2, <3>1, <3>2 DEF IInv, RestSound
  <2> QED BY <2>2, <2>3, <2>4
<1> QED BY <1>8, <1>9

-----------------------------------------------------------------------------
(* The deferred handler *)

LEMMA DeferredBeginSound == ASSUME IInv, DeferredBegin PROVE IInv'
<1>1. DevicesSound(device, session) /\ RegisterSound(register, deferred, walk) /\ RestSound(device, work)
  BY DEF IInv
<1>2. RegisterSound(register, FALSE, 0)
  BY <1>1, OutputsAssumption DEF RegisterSound, CallbackSlots, NotWalking
<1>3. 0 \in 0..RegisterSize
  BY OutputsAssumption
<1>4. deferred' = FALSE /\ walk' = 0 /\ UNCHANGED <<device, register, session, work, calls, handed>>
  BY DEF DeferredBegin
<1> QED BY <1>1, <1>2, <1>3, <1>4 DEF IInv, RestSound

(* The slot is free again and the handler is past it, whatever the player does next. *)
LEMMA DeliverSound == ASSUME IInv, Deliver PROVE IInv'
<1>1. DevicesSound(device, session) /\ RegisterSound(register, deferred, walk) /\ RestSound(device, work)
  BY DEF IInv
<1>2. PICK i \in Ready :
        /\ \A j \in Ready : i <= j
        /\ LET p == DeviceGet(device, register[i].id) IN
           /\ IF Gone(p) THEN DeviceFree(p) ELSE UNCHANGED device
           /\ handed' = Handed(p)
        /\ register' = [register EXCEPT ![i] = Empty]
        /\ walk' = i + 1
  BY DEF Deliver
<1>3. walk # NotWalking /\ work = {} /\ UNCHANGED <<session, deferred, work, calls>>
  BY DEF Deliver
<1>4. i \in CallbackSlots
  BY DEF Ready
<1> DEFINE p == DeviceGet(device, register[i].id)
<1>5. p # Null => p \in Addresses
  BY <1>1, GetFound
<1>6. DevicesSound(device', session)
  <2>1. CASE Gone(p)
    BY <1>1, <1>2, <1>5, <2>1, FreeSound DEF Gone, DeviceFree
  <2>2. CASE ~Gone(p)
    BY <1>1, <1>2, <2>2
  <2> QED BY <2>1, <2>2
<1>7. RegisterSound(register', deferred, walk')
  <2>1. /\ register' \in [CallbackSlots -> SlotType]
        /\ \A j \in CallbackSlots : register'[j] = IF j = i THEN Empty ELSE register[j]
    BY <1>1, <1>2, <1>4, EmptySlot DEF RegisterSound
  <2>2. \A j \in CallbackSlots : register'[j].ready => deferred \/ (walk' # NotWalking /\ walk' <= j)
    <3> SUFFICES ASSUME NEW j \in CallbackSlots, register'[j].ready, ~deferred
                 PROVE walk' # NotWalking /\ walk' <= j
      OBVIOUS
    <3>1. j # i /\ register[j].ready
      BY <2>1, EmptySlot
    <3>2. walk <= j
      BY <1>1, <3>1 DEF RegisterSound
    <3>3. j \in Ready
      BY <3>1, <3>2, <1>1, SlotsNat DEF Ready
    <3> QED BY <1>2, <1>4, <3>1, <3>3, OutputsAssumption DEF CallbackSlots, NotWalking
  <2>3. \A j, k \in CallbackSlots :
          register'[j].call # 0 /\ register'[k].call # 0 /\ register'[j].device = register'[k].device => j = k
    BY <1>1, <2>1, EmptySlot DEF RegisterSound
  <2> QED BY <2>1, <2>2, <2>3 DEF RegisterSound
<1>8. walk' \in 0..RegisterSize
  BY <1>2, <1>4, OutputsAssumption DEF CallbackSlots
<1>9. handed' \in Addresses \cup {Null}
  BY <1>2, <1>5 DEF Handed
<1>10. RestSound(device, work)'
  BY <1>1, <1>3, <1>8, <1>9 DEF RestSound
<1> QED BY <1>3, <1>6, <1>7, <1>10 DEF IInv

LEMMA DeferredEndSound == ASSUME IInv, DeferredEnd PROVE IInv'
<1>1. DevicesSound(device, session) /\ RegisterSound(register, deferred, walk) /\ RestSound(device, work)
  BY DEF IInv
<1>2. /\ walk' = NotWalking /\ Ready = {}
      /\ UNCHANGED <<device, register, session, deferred, work, calls, handed>>
  BY DEF DeferredEnd
<1>3. RegisterSound(register, deferred, NotWalking)
  <2>1. \A i \in CallbackSlots : register[i].ready => deferred
    BY <1>1, <1>2, SlotsNat DEF RegisterSound, Ready, RestSound
  <2> QED BY <1>1, <2>1 DEF RegisterSound
<1>4. NotWalking \in 0..RegisterSize
  BY OutputsAssumption DEF NotWalking
<1> QED BY <1>1, <1>2, <1>3, <1>4 DEF IInv, RestSound

-----------------------------------------------------------------------------
(* Sessions *)

LEMMA TellSound == ASSUME IInv, NEW s \in SessionAddresses, NEW ends \in BOOLEAN, Tell(s, ends) PROVE IInv'
<1>1. DevicesSound(device, session) /\ RegisterSound(register, deferred, walk) /\ RestSound(device, work)
  BY DEF IInv
<1>2. session[s] # Null /\ work = {} /\ UNCHANGED <<walk, work, calls, handed>>
      /\ Report(register, session[s].callback_id, session[s].id)
  BY DEF Tell, Live
<1>3. session[s] \in BackendType /\ session[s].callback_id \in CallbackSlots \cup {NoCallback} /\ session[s].id \in Ids
  BY <1>1, <1>2, Members
<1>4. RegisterSound(register', deferred', walk) /\ deferred' \in BOOLEAN
  BY <1>1, <1>2, <1>3, ReportSound DEF RestSound
<1>5. DevicesSound(device', session')
  <2>1. CASE ends
    <3>1. session' = [session EXCEPT ![s] = Null] /\ device' = SessionRemove(device, session[s].id)
      BY <2>1 DEF Tell
    <3> QED BY <1>1, <1>2, <3>1, SessionRemoveSound
  <2>2. CASE ~ends
    <3> DEFINE new == [session[s] EXCEPT !.callback_id = NoCallback, !.state = "CONNECTED"]
    <3>1. new \in BackendType /\ new.id = session[s].id
      BY <1>3 DEF BackendType
    <3>2. session' = [session EXCEPT ![s] = new] /\ device' = device
      BY <2>2 DEF Tell
    <3> HIDE DEF new
    <3> QED BY <1>1, <1>2, <3>1, <3>2, SessionChanged
  <2> QED BY <2>1, <2>2
<1>6. RestSound(device, work)'
  BY <1>1, <1>2, <1>4 DEF RestSound
<1> QED BY <1>2, <1>4, <1>5, <1>6 DEF IInv

LEMMA WriteSound == ASSUME IInv, NEW s \in SessionAddresses, Write(s) PROVE IInv'
<1>1. DevicesSound(device, session) /\ RegisterSound(register, deferred, walk) /\ RestSound(device, work)
  BY DEF IInv
<1>2. session[s] # Null /\ UNCHANGED <<device, register, deferred, walk, work, calls, handed>>
  BY DEF Write, Live
<1>3. session[s] \in BackendType
  BY <1>1, <1>2, Members
<1> DEFINE new == [session[s] EXCEPT !.state = "STREAMING"]
<1>4. new \in BackendType /\ new.id = session[s].id
  BY <1>3 DEF BackendType
<1>5. session' = [session EXCEPT ![s] = new]
  BY DEF Write
<1> HIDE DEF new
<1>6. DevicesSound(device, session')
  BY <1>1, <1>2, <1>4, <1>5, SessionChanged
<1> QED BY <1>1, <1>2, <1>6 DEF IInv, RestSound

-----------------------------------------------------------------------------
(* Commands with a new callback, and loops over the list *)

(* The number of a new callback; calls' + 1 is still that of none. *)
LEMMA NewCall == ASSUME IInv, Calls PROVE calls' = calls + 1 /\ calls + 1 \in 0..MaxCalls /\ calls + 1 \in 0..StopCb
BY OutputsAssumption DEF Calls, IInv, RestSound, StopCb

LEMMA CommandSound ==
  ASSUME IInv, NEW p \in Addresses, Start(p) \/ Stop(p) \/ Flush(p) \/ DeviceVolumeSet(p)
  PROVE IInv'
<1>1. p \in List /\ Calls /\ UNCHANGED <<walk, work, handed>>
  BY DEF Start, Stop, Flush, DeviceVolumeSet, Calls
<1>2. calls' = calls + 1 /\ calls + 1 \in 0..MaxCalls /\ calls + 1 \in 0..StopCb
  BY <1>1, NewCall
<1>3. Kept
  <2>1. CASE Start(p)
    <3>1. DeviceStart(p, calls + 1)
      BY <2>1, <1>2 DEF Start, DeviceStart
    <3> QED BY <3>1, <1>1, <1>2, StartKeeps
  <2>2. CASE Stop(p)
    <3>1. DeviceStop(p, calls + 1)
      BY <2>2, <1>2 DEF Stop, DeviceStop, Asked
    <3> QED BY <3>1, <1>1, <1>2, StopKeeps
  <2>3. CASE Flush(p)
    <3>1. Command(p, calls + 1, {"STREAMING"})
      BY <2>3, <1>2 DEF Flush, Command, DeviceStop, Asked
    <3> QED BY <3>1, <1>1, <1>2, CommandKeeps
  <2>4. CASE DeviceVolumeSet(p)
    <3>1. Command(p, calls + 1, {"CONNECTED", "STREAMING"})
      BY <2>4, <1>2 DEF DeviceVolumeSet, Command, DeviceStop, Asked
    <3> QED BY <3>1, <1>1, <1>2, CommandKeeps
  <2> QED BY <2>1, <2>2, <2>3, <2>4
<1> QED BY <1>1, <1>2, <1>3, KeptInv

LEMMA LoopSound ==
  ASSUME IInv, NEW items, items \subseteq {"start", "stop", "flush"} \X List, Loop(items)
  PROVE IInv'
<1>1. calls' = calls + 1 /\ calls + 1 \in 0..MaxCalls
  BY NewCall DEF Loop
<1>2. RestSound(device, items)
  BY DEF IInv, RestSound, List
<1>3. work' = items /\ UNCHANGED <<device, register, session, deferred, walk, handed>>
  BY DEF Loop
<1>4. RestSound(device, work)'
  BY <1>1, <1>2, <1>3 DEF RestSound
<1> QED BY <1>3, <1>4 DEF IInv

LEMMA IterateSound == ASSUME IInv, Iterate PROVE IInv'
<1>1. PICK p \in Addresses :
        \/ /\ <<"stop", p>> \in work /\ work' = work \ {<<"stop", p>>} /\ DeviceStop(p, calls)
        \/ /\ <<"start", p>> \in work /\ work' = work \ {<<"start", p>>} /\ DeviceStart(p, calls)
        \/ /\ <<"flush", p>> \in work /\ work' = work \ {<<"flush", p>>}
           /\ Command(p, calls, {"STREAMING"})
  BY DEF Iterate
<1>2. p \in List /\ work' \subseteq work
  BY <1>1 DEF IInv, RestSound, List
<1>3. calls \in 0..StopCb /\ calls \in 0..MaxCalls /\ UNCHANGED <<walk, calls, handed>>
  BY OutputsAssumption DEF Iterate, IInv, RestSound, StopCb
<1>4. Kept
  BY <1>1, <1>2, <1>3, StartKeeps, StopKeeps, CommandKeeps
<1> QED BY <1>2, <1>3, <1>4, KeptInv

-----------------------------------------------------------------------------
(* Theorems *)

(* The inductive invariant, whatever the player, the sessions and the event loop do. *)
LEMMA Inductive == IInv /\ [OutputsNext]_outputsVars => IInv'
<1> SUFFICES ASSUME IInv, [OutputsNext]_outputsVars PROVE IInv'
  OBVIOUS
<1>1. CASE UNCHANGED outputsVars
  BY <1>1 DEF outputsVars, IInv, RestSound
<1>2. ASSUME NEW id \in Ids, NEW p \in Addresses, DeviceAdd(id, p) PROVE IInv'
  BY <1>2, DeviceAddSound
<1>3. ASSUME NEW p \in Addresses, DeviceRemove(p) PROVE IInv'
  BY <1>3, DeviceRemoveSound
<1>4. ASSUME NEW p \in Addresses, Withdrawn(p) PROVE IInv'
  BY <1>4, WithdrawnSound
<1>5. ASSUME NEW p \in Addresses, Start(p) \/ Stop(p) \/ Flush(p) \/ DeviceVolumeSet(p) PROVE IInv'
  BY <1>5, CommandSound
<1>6. ASSUME NEW p \in Addresses, SetCallback(p) PROVE IInv'
  BY <1>6, SetCallbackSound
<1>7. ASSUME NEW p \in Addresses, StopDelayed(p) PROVE IInv'
  BY <1>7, StopDelayedSound
<1>8. CASE StopDelayedCancel
  BY <1>8, StopDelayedCancelSound
<1>9. ASSUME NEW selected \in SUBSET List, OutputsStart(selected) PROVE IInv'
  BY <1>9, LoopSound DEF OutputsStart
<1>10. CASE OutputsStop
  BY <1>10, LoopSound DEF OutputsStop
<1>11. CASE OutputsFlush
  BY <1>11, LoopSound DEF OutputsFlush
<1>12. CASE Backend
  BY <1>12, TellSound, WriteSound DEF Backend
<1>13. CASE Iterate
  BY <1>13, IterateSound
<1>14. CASE Deferred
  BY <1>14, DeferredBeginSound, DeliverSound, DeferredEndSound DEF Deferred
<1>15. ASSUME NEW p \in Addresses, StopTimer(p) PROVE IInv'
  BY <1>15, StopTimerSound
<1> QED BY <1>1, <1>2, <1>3, <1>4, <1>5, <1>6, <1>7, <1>8, <1>9, <1>10, <1>11, <1>12, <1>13, <1>14, <1>15
        DEF OutputsNext, Player

LEMMA Invariant == OutputsSpec => []IInv
<1>1. OutputsInit => IInv
  BY InitSound
<1>2. IInv /\ [OutputsNext]_outputsVars => IInv'
  BY Inductive
<1> QED BY <1>1, <1>2, PTL DEF OutputsSpec

(* The type invariant. *)
THEOREM TypeCorrect == OutputsSpec => []TypeOK
<1>1. IInv => TypeOK
  BY DEF IInv, DevicesSound, RegisterSound, RestSound, TypeOK, List
<1> QED BY <1>1, Invariant, PTL

(* outputs.c:634: for any number of devices and sessions the session of a device in the    *)
(* list lives and is its own.                                                              *)
THEOREM SessionPointersCorrect == OutputsSpec => []SessionPointerValid
<1>1. IInv => SessionPointerValid
  BY Members DEF IInv, DevicesSound, SessionPointerValid, List, Live
<1> QED BY <1>1, Invariant, PTL

(* outputs.c:160: the register holds one callback of a device at most, whatever its size.   *)
THEOREM RegisterCorrect == OutputsSpec => []OneSlotPerAddress
<1>1. IInv => OneSlotPerAddress
  BY DEF IInv, RegisterSound, OneSlotPerAddress
<1> QED BY <1>1, Invariant, PTL

(* outputs.c:200: no answer a session gave is forgotten by the deferred handler.            *)
THEOREM AnswersCorrect == OutputsSpec => []AnswerHandedOn
<1>1. IInv => AnswerHandedOn
  BY DEF IInv, RegisterSound, AnswerHandedOn
<1> QED BY <1>1, Invariant, PTL

(* outputs.c:718: the device a callback gets is in the list, after deferred_cb removed it too. *)
THEOREM DevicesCorrect == OutputsSpec => NoDanglingDevice
<1>1. IInv /\ [OutputsNext]_outputsVars => [handed' # handed /\ handed' # Null => device'[handed'] # Null]_outputsVars
  <2> SUFFICES ASSUME IInv, OutputsNext, handed' # handed, handed' # Null PROVE device'[handed'] # Null
    BY DEF outputsVars
  <2>1. Deliver
    BY DEF OutputsNext, Player, DeviceAdd, DeviceRemove, Withdrawn, Plain, Start, Stop, Flush, DeviceVolumeSet,
       SetCallback, StopDelayed, StopDelayedCancel, OutputsStart, OutputsStop, OutputsFlush, Loop,
       Backend, Tell, Write, Iterate, Deferred, DeferredBegin, DeferredEnd, StopTimer
  <2>2. PICK i \in Ready :
          LET p == DeviceGet(device, register[i].id) IN
          /\ IF Gone(p) THEN DeviceFree(p) ELSE UNCHANGED device
          /\ handed' = Handed(p)
    BY <2>1 DEF Deliver
  <2> DEFINE p == DeviceGet(device, register[i].id)
  <2>3. handed' = p /\ ~Gone(p) /\ UNCHANGED device
    BY <2>2 DEF Handed
  <2>4. DevicesSound(device, session)
    BY DEF IInv
  <2>5. device[p] # Null
    BY <2>3, <2>4, GetFound
  <2> QED BY <2>3, <2>5
<1> QED BY <1>1, Invariant, PTL DEF OutputsSpec, NoDanglingDevice

-----------------------------------------------------------------------------
(* OutputsAudio: the master sessions, and what a write hands to the backends *)

Listed(list) == {list[i] : i \in DOMAIN list}
Unrepeated(list) == \A i, j \in DOMAIN list : list[i] = list[j] => i = j

\* Of the list, what the steps add to and take from it; of a session, its quality.
AudioInv ==
  /\ masters \in Seq(Qualities)
  /\ streaming \in [Streams -> Qualities \cup {NoQuality}]
  /\ MastersShared

(* The list without its i-th element, place by place. *)
LEMMA RemoveAtPlaces ==
  ASSUME NEW T, NEW list \in Seq(T), NEW i \in DOMAIN list
  PROVE LET n == Len(list)  less == RemoveAt(list, i)
        IN  /\ n \in Nat /\ i \in 1..n /\ DOMAIN list = 1..n
            /\ less \in Seq(T) /\ DOMAIN less = 1..(n - 1)
            /\ \A k \in 1..(n - 1) : less[k] = IF k < i THEN list[k] ELSE list[k + 1]
<1> DEFINE n == Len(list)
           less == RemoveAt(list, i)
<1>1. n \in Nat /\ i \in 1..n /\ DOMAIN list = 1..n
  OBVIOUS
<1>2. /\ less \in Seq(T) /\ DOMAIN less = 1..(n - 1)
      /\ \A k \in 1..(n - 1) : less[k] = IF k < i THEN list[k] ELSE list[k + 1]
  <2> DEFINE a == SubSeq(list, 1, i - 1)
             b == SubSeq(list, i + 1, n)
  <2>1. /\ a \in Seq(T) /\ Len(a) = i - 1
        /\ \A k \in 1..(i - 1) : a[k] = list[k]
    BY <1>1
  <2>2. /\ b \in Seq(T) /\ Len(b) = n - i
        /\ \A k \in 1..(n - i) : b[k] = list[k + i]
    BY <1>1
  <2>3. less = a \o b
    BY DEF RemoveAt
  <2> HIDE DEF a, b, n, less
  <2>4. less \in Seq(T) /\ Len(less) = n - 1
    <3>1. less \in Seq(T) /\ Len(less) = Len(a) + Len(b)
      BY <2>1, <2>2, <2>3, ConcatProperties
    <3> QED BY <1>1, <2>1, <2>2, <3>1
  <2>5. ASSUME NEW k \in 1..(n - 1)
        PROVE less[k] = IF k < i THEN list[k] ELSE list[k + 1]
    <3>1. less[k] = IF k <= Len(a) THEN a[k] ELSE b[k - Len(a)]
      BY <1>1, <2>1, <2>2, <2>3
    <3>2. CASE k < i
      BY <1>1, <2>1, <3>1, <3>2
    <3>3. CASE k >= i
      <4>1. k - (i - 1) \in 1..(n - i) /\ (k - (i - 1)) + i = k + 1
        BY <1>1, <3>3
      <4>2. b[k - (i - 1)] = list[k + 1]
        BY <2>2, <4>1
      <4> QED BY <1>1, <2>1, <3>1, <3>3, <4>2
    <3> QED BY <1>1, <3>2, <3>3
  <2> QED BY <2>4, <2>5
<1> QED BY <1>1, <1>2

(* What stays of a list when one element is unlinked, as master_session_cleanup does.      *)
LEMMA RemoveAtElements ==
  ASSUME NEW T, NEW list \in Seq(T), NEW i \in DOMAIN list, Unrepeated(list)
  PROVE /\ RemoveAt(list, i) \in Seq(T)
        /\ Unrepeated(RemoveAt(list, i))
        /\ Listed(RemoveAt(list, i)) = Listed(list) \ {list[i]}
<1> DEFINE n == Len(list)
           less == RemoveAt(list, i)
<1>1. n \in Nat /\ i \in 1..n /\ DOMAIN list = 1..n
  OBVIOUS
<1>2. /\ less \in Seq(T) /\ DOMAIN less = 1..(n - 1)
      /\ \A k \in 1..(n - 1) : less[k] = IF k < i THEN list[k] ELSE list[k + 1]
  BY RemoveAtPlaces
<1> HIDE DEF less, n
<1>3. Unrepeated(less)
  <2> SUFFICES ASSUME NEW k \in 1..(n - 1), NEW m \in 1..(n - 1), less[k] = less[m] PROVE k = m
    BY <1>2 DEF Unrepeated
  <2>1. \A x, y \in 1..n : list[x] = list[y] => x = y
    BY <1>1 DEF Unrepeated
  <2> QED BY <1>1, <1>2, <2>1
<1>4. Listed(less) \subseteq Listed(list) \ {list[i]}
  <2> SUFFICES ASSUME NEW k \in 1..(n - 1) PROVE less[k] \in Listed(list) /\ less[k] # list[i]
    BY <1>2 DEF Listed
  <2> DEFINE m == IF k < i THEN k ELSE k + 1
  <2>1. m \in 1..n /\ m # i /\ less[k] = list[m]
    BY <1>1, <1>2
  <2> QED BY <1>1, <2>1 DEF Listed, Unrepeated
<1>5. Listed(list) \ {list[i]} \subseteq Listed(less)
  <2> SUFFICES ASSUME NEW m \in 1..n, list[m] # list[i] PROVE list[m] \in Listed(less)
    BY <1>1 DEF Listed
  <2> DEFINE k == IF m < i THEN m ELSE m - 1
  <2>1. k \in 1..(n - 1) /\ less[k] = list[m]
    BY <1>1, <1>2
  <2> QED BY <1>2, <2>1 DEF Listed
<1> QED BY <1>2, <1>3, <1>4, <1>5 DEF less

LEMMA AudioInitial == AudioInit => AudioInv
BY DEF AudioInit, AudioInv, MastersShared

LEMMA StartsKeeps ==
  ASSUME AudioInv, NEW s \in Streams, NEW q \in Qualities, StreamStarts(s, q)
  PROVE AudioInv'
<1>1. /\ streaming \in [Streams -> Qualities \cup {NoQuality}] /\ streaming[s] = NoQuality
      /\ streaming' = [streaming EXCEPT ![s] = q] /\ q # NoQuality
  BY OutputsAudioAssumption DEF AudioInv, StreamStarts
<1>2. {streaming'[t] : t \in Streams} \ {NoQuality} = {q} \cup ({streaming[t] : t \in Streams} \ {NoQuality})
  BY <1>1
<1>3. masters \in Seq(Qualities) /\ Listed(masters) = {streaming[t] : t \in Streams} \ {NoQuality}
      /\ Unrepeated(masters)
  BY DEF AudioInv, MastersShared, Listed, Unrepeated
<1>4. CASE q \in Listed(masters)
  <2>1. masters' = masters
    BY <1>4 DEF StreamStarts, Listed
  <2>2. Listed(masters') = {streaming'[t] : t \in Streams} \ {NoQuality}
    BY <1>2, <1>3, <1>4, <2>1
  <2>3. streaming' \in [Streams -> Qualities \cup {NoQuality}]
    BY <1>1
  <2>4. MastersShared'
    BY <1>3, <2>1, <2>2 DEF MastersShared, Listed, Unrepeated
  <2> QED BY <1>3, <2>1, <2>3, <2>4 DEF AudioInv
<1>5. CASE q \notin Listed(masters)
  <2> DEFINE n == Len(masters)
  <2>1. masters' = <<q>> \o masters
    BY <1>5 DEF StreamStarts, Listed
  <2>2. n \in Nat /\ DOMAIN masters = 1..n
    BY <1>3
  <2>3. /\ masters' \in Seq(Qualities) /\ DOMAIN masters' = 1..(n + 1) /\ masters'[1] = q
        /\ \A k \in 2..(n + 1) : masters'[k] = masters[k - 1]
    BY <1>3, <2>1
  <2> HIDE DEF n
  <2>4. Listed(masters') = {q} \cup Listed(masters)
    <3>1. ASSUME NEW k \in 1..n PROVE masters[k] = masters'[k + 1] /\ k + 1 \in 1..(n + 1)
      BY <2>2, <2>3
    <3>2. ASSUME NEW k \in 1..(n + 1) PROVE masters'[k] = q \/ (k - 1 \in 1..n /\ masters'[k] = masters[k - 1])
      BY <2>2, <2>3
    <3>3. 1 \in 1..(n + 1)
      BY <2>2
    <3>4. Listed(masters') \subseteq {q} \cup Listed(masters)
      BY <2>2, <2>3, <3>2 DEF Listed
    <3>5. q \in Listed(masters')
      BY <2>3, <3>3 DEF Listed
    <3>6. Listed(masters) \subseteq Listed(masters')
      <4>1. ASSUME NEW k \in 1..n PROVE masters[k] \in Listed(masters')
        BY <2>3, <3>1 DEF Listed
      <4> QED BY <2>2, <4>1 DEF Listed
    <3> QED BY <3>4, <3>5, <3>6
  <2>5. Unrepeated(masters')
    <3> SUFFICES ASSUME NEW k \in 1..(n + 1), NEW m \in 1..(n + 1), masters'[k] = masters'[m] PROVE k = m
      BY <2>3 DEF Unrepeated
    <3>1. \A x \in 1..n : masters[x] # q
      BY <1>5, <2>2 DEF Listed
    <3>2. \A x, y \in 1..n : masters[x] = masters[y] => x = y
      BY <1>3, <2>2 DEF Unrepeated
    <3> QED BY <2>2, <2>3, <3>1, <3>2
  <2>6. streaming' \in [Streams -> Qualities \cup {NoQuality}]
    BY <1>1
  <2>7. Listed(masters') = {streaming'[t] : t \in Streams} \ {NoQuality}
    BY <1>2, <1>3, <2>4
  <2>8. masters' \in Seq(Qualities)
    BY <2>3
  <2>9. MastersShared'
    BY <2>5, <2>7 DEF MastersShared, Listed, Unrepeated
  <2> QED BY <2>6, <2>8, <2>9 DEF AudioInv
<1> QED BY <1>4, <1>5

LEMMA EndsKeeps ==
  ASSUME AudioInv, NEW s \in Streams, StreamEnds(s)
  PROVE AudioInv'
<1> DEFINE q == streaming[s]
<1>1. /\ streaming \in [Streams -> Qualities \cup {NoQuality}] /\ q # NoQuality
      /\ streaming' = [streaming EXCEPT ![s] = NoQuality]
  BY DEF AudioInv, StreamEnds
<1>2. masters \in Seq(Qualities) /\ Listed(masters) = {streaming[t] : t \in Streams} \ {NoQuality}
      /\ Unrepeated(masters)
  BY DEF AudioInv, MastersShared, Listed, Unrepeated
<1>3. CASE \E t \in Streams \ {s} : streaming[t] = q
  <2>1. {streaming'[t] : t \in Streams} \ {NoQuality} = {streaming[t] : t \in Streams} \ {NoQuality}
    BY <1>1, <1>3
  <2>2. masters' = masters
    BY <1>3 DEF StreamEnds
  <2> QED BY <1>1, <1>2, <2>1, <2>2 DEF AudioInv, MastersShared, Listed, Unrepeated
<1>4. CASE ~\E t \in Streams \ {s} : streaming[t] = q
  <2> DEFINE i == CHOOSE k \in DOMAIN masters : masters[k] = q
  <2>1. masters' = RemoveAt(masters, i)
    BY <1>4 DEF StreamEnds, Unlinked
  <2>2. q \in Listed(masters)
    BY <1>1, <1>2
  <2>3. i \in DOMAIN masters /\ masters[i] = q
    BY <2>2 DEF Listed
  <2>4. {streaming'[t] : t \in Streams} \ {NoQuality} = ({streaming[t] : t \in Streams} \ {NoQuality}) \ {q}
    BY <1>1, <1>4
  <2> HIDE DEF i, q
  <2>5. masters' \in Seq(Qualities) /\ Unrepeated(masters') /\ Listed(masters') = Listed(masters) \ {q}
    BY <1>2, <2>1, <2>3, RemoveAtElements
  <2> QED BY <1>1, <1>2, <2>4, <2>5 DEF AudioInv, MastersShared, Listed, Unrepeated
<1> QED BY <1>3, <1>4

LEMMA AudioInductive == AudioInv /\ [AudioNext]_audioVars => AudioInv'
<1> SUFFICES ASSUME AudioInv, [AudioNext]_audioVars PROVE AudioInv'
  OBVIOUS
<1>1. CASE UNCHANGED <<masters, streaming>>
  BY <1>1 DEF AudioInv, MastersShared
<1>2. CASE OutputsDeinit
  BY <1>2 DEF OutputsDeinit, AudioInv, MastersShared
<1> QED BY <1>1, <1>2, StartsKeeps, EndsKeeps
        DEF AudioNext, audioVars, OutputsWrite, BackendSubscribes, BackendUnsubscribes

(* airplay.c:1098, :1227: sessions of a quality share one master session, freed with the   *)
(* last of them, for any number of sessions.                                               *)
THEOREM MastersCorrect == AudioSpec => []MastersShared
<1>1. AudioInv => MastersShared
  BY DEF AudioInv
<1> QED BY <1>1, AudioInitial, AudioInductive, PTL DEF AudioSpec

-----------------------------------------------------------------------------
(* The loop of buffer_fill *)

(* A set of numbers that is not empty has a least.                                         *)
LEMMA LeastOf == ASSUME NEW T, T \subseteq Nat, T # {} PROVE \E x \in T : \A y \in T : x <= y
<1>1. PICK x \in T : \A y \in T : ~(<<y, x>> \in OpToRel(<, Nat))
  <2> DEFINE R == OpToRel(<, Nat)
  <2>1. IsWellFoundedOn(R, Nat)
    BY NatLessThanWellFounded
  <2> HIDE DEF R
  <2>2. \E x \in T : \A y \in T : ~(<<y, x>> \in R)
    BY <2>1, WFMin
  <2> QED BY <2>2 DEF R
<1>2. ASSUME NEW y \in T, y < x PROVE <<y, x>> \in OpToRel(<, Nat)
  BY <1>2 DEF OpToRel
<1>3. \A y \in T : ~(y < x)
  BY <1>1, <1>2, Zenon
<1> QED BY <1>3

Base(q) == <<[quality |-> q, by |-> <<q, q>>]>>
Made(q, sub) == sub.quality # q /\ sub.encoder \notin {NoQuality, Failed}
Coded(sub) == [quality |-> sub.quality, by |-> sub.encoder]

\* The buffer after the n-th subscription, from the one before it.
Turn(q, list, failing, n, before) ==
  IF Made(q, list[n]) /\ n \notin failing THEN Append(before, Coded(list[n])) ELSE before

(* The loop is well defined: each turn adds to what the turns before it left.              *)
LEMMA FilledTurns ==
  ASSUME NEW q, NEW list, Len(list) \in Nat, NEW failing
  PROVE LET f == Filled(q, list, failing)
        IN  f[0] = Base(q) /\ \A n \in 1..Len(list) : f[n] = Turn(q, list, failing, n, f[n - 1])
<1> DEFINE N == Len(list)
           Turned(g, n) == IF n = 0 THEN Base(q) ELSE Turn(q, list, failing, n, g[n - 1])
           Runs(g, n) == g = [k \in 0..n |-> Turned(g, k)]
           Stuck == {n \in 0..N : ~\E g : Runs(g, n)}
<1>1. Stuck = {}
  <2> SUFFICES ASSUME Stuck # {} PROVE FALSE
    OBVIOUS
  <2>1. PICK n \in Stuck : \A m \in Stuck : n <= m
    <3>1. Stuck \subseteq Nat /\ Stuck # {}
      OBVIOUS
    <3> HIDE DEF Stuck
    <3> QED BY <3>1, LeastOf
  <2>2. CASE n = 0
    <3> DEFINE g == [k \in 0..0 |-> Base(q)]
    <3>1. Runs(g, 0)
      OBVIOUS
    <3> HIDE DEF Runs, g
    <3> QED BY <2>1, <2>2, <3>1
  <2>3. CASE n # 0
    <3>1. n \in 1..N /\ n - 1 \in 0..N /\ n - 1 \notin Stuck
      BY <2>1, <2>3
    <3>2. PICK g : Runs(g, n - 1)
      BY <3>1
    <3> DEFINE h == [k \in 0..n |-> IF k = n THEN Turn(q, list, failing, n, g[n - 1]) ELSE g[k]]
    <3>3. ASSUME NEW k \in 0..n PROVE h[k] = Turned(h, k)
      <4>1. CASE k = n
        BY <3>1, <4>1
      <4>2. CASE k \in 0..(n - 1)
        <5>1. g[k] = Turned(g, k)
          BY <3>2, <4>2
        <5>2. h[k] = g[k] /\ (k # 0 => h[k - 1] = g[k - 1])
          BY <3>1, <4>2
        <5> QED BY <5>1, <5>2
      <4> QED BY <3>1, <4>1, <4>2
    <3>4. h = [k \in 0..n |-> h[k]]
      OBVIOUS
    <3> HIDE DEF h, Turned
    <3>5. h = [k \in 0..n |-> Turned(h, k)]
      BY <3>3, <3>4
    <3>6. Runs(h, n)
      BY <3>5
    <3> HIDE DEF Runs
    <3> QED BY <2>1, <3>6
  <2> QED BY <2>2, <2>3
<1>2. N \in 0..N
  OBVIOUS
<1> DEFINE f == Filled(q, list, failing)
<1>3. f = CHOOSE g : Runs(g, N)
  BY DEF Filled, Base, Turn, Made, Coded
<1>4. \E g : Runs(g, N)
  <2> HIDE DEF Runs
  <2> QED BY <1>1, <1>2
<1> HIDE DEF f
<1>5. Runs(f, N)
  <2> HIDE DEF Runs
  <2> QED BY <1>3, <1>4
<1>6. \A k \in 0..N : f[k] = Turned(f, k)
  <2> HIDE DEF Turned
  <2> QED BY <1>5
<1> QED BY <1>6 DEF f

\* A subscription; what its encoder is when the input has quality q.
SubType == [quality : Qualities, count : Nat \ {0},
            encoder : {NoQuality, Failed} \cup (Qualities \X Qualities)]
Encoded(sub, q) == IF sub.quality = q THEN sub.encoder = NoQuality
                   ELSE sub.encoder \in {Failed, <<q, sub.quality>>}
Distinct(list) == \A i, j \in DOMAIN list : list[i].quality = list[j].quality => i = j

\* An encoder, from whatever quality, is to the one of its subscription.
Labelled(sub) == sub.encoder \in {NoQuality, Failed} \/ sub.encoder[2] = sub.quality

PieceType == [quality : Qualities, by : Qualities \X Qualities]

\* The buffer when the first n subscriptions were gone through; with encoders that are not
\* fresh some may not be from the quality of the input, and some may be missing.
Served(buf, q, list, failing, n, fresh) ==
  /\ buf \in Seq(PieceType)
  /\ 1 \in DOMAIN buf /\ buf[1].quality = q
  /\ \A k \in DOMAIN buf : buf[k].by[2] = buf[k].quality /\ (fresh => buf[k].by[1] = q)
  /\ \A k \in DOMAIN buf : buf[k].quality = q \/ \E j \in 1..n : list[j].quality = buf[k].quality
  /\ Distinct(buf)
  /\ fresh => \A i \in 1..n : \/ i \in failing \/ list[i].encoder = Failed
                            \/ \E k \in DOMAIN buf : buf[k].quality = list[i].quality

LEMMA TurnServed ==
  ASSUME NEW q \in Qualities, NEW list \in Seq(SubType), Distinct(list), NEW failing, NEW fresh \in BOOLEAN,
         \A i \in DOMAIN list : Labelled(list[i]) /\ (fresh => Encoded(list[i], q)),
         NEW n \in 1..Len(list), NEW buf, Served(buf, q, list, failing, n - 1, fresh)
  PROVE Served(Turn(q, list, failing, n, buf), q, list, failing, n, fresh)
<1> DEFINE sub == list[n]
<1>1. /\ n \in Nat \ {0} /\ DOMAIN list = 1..Len(list) /\ sub \in SubType
      /\ Labelled(sub) /\ (fresh => Encoded(sub, q))
      /\ n - 1 \in Nat /\ 1..(n - 1) \subseteq 1..n
      /\ \A j \in 1..(n - 1) : list[j].quality # sub.quality
      /\ \A j \in 1..n : j \in 1..(n - 1) \/ j = n
  BY DEF Distinct
<1> HIDE DEF sub
<1>2. CASE ~(Made(q, sub) /\ n \notin failing)
  <2>1. Turn(q, list, failing, n, buf) = buf
    BY <1>2 DEF Turn, sub
  <2>2. fresh => \/ n \in failing \/ sub.encoder = Failed
                 \/ \E k \in DOMAIN buf : buf[k].quality = sub.quality
    <3> SUFFICES ASSUME fresh PROVE \/ n \in failing \/ sub.encoder = Failed
                                    \/ \E k \in DOMAIN buf : buf[k].quality = sub.quality
      OBVIOUS
    <3>1. CASE sub.quality = q
      BY <3>1 DEF Served
    <3>2. CASE sub.quality # q /\ n \notin failing
      <4>1. sub.encoder \in {NoQuality, Failed} /\ sub.encoder \in {Failed, <<q, sub.quality>>}
        BY <1>1, <1>2, <3>2 DEF Made, Encoded
      <4>2. <<q, sub.quality>> # NoQuality
        BY <1>1, OutputsAudioAssumption DEF SubType
      <4> QED BY <4>1, <4>2
    <3> QED BY <3>1, <3>2
  <2>3. Served(buf, q, list, failing, n, fresh)
    BY <1>1, <2>2 DEF Served, sub
  <2> QED BY <2>1, <2>3
<1>3. CASE Made(q, sub) /\ n \notin failing
  <2> DEFINE piece == Coded(sub)
             more == Append(buf, piece)
             m == Len(buf)
  <2>1. Turn(q, list, failing, n, buf) = more
    BY <1>3 DEF Turn, sub
  <2>2. piece \in PieceType /\ piece.quality = sub.quality
        /\ piece.by[2] = piece.quality /\ (fresh => piece.by[1] = q)
        /\ sub.quality # q
    <3>1. /\ sub.encoder \in Qualities \X Qualities /\ sub.encoder[2] = sub.quality
          /\ sub.quality \in Qualities /\ sub.quality # q
      BY <1>1, <1>3 DEF Made, Labelled, SubType
    <3>2. fresh => sub.encoder = <<q, sub.quality>>
      BY <1>1, <1>3 DEF Made, Encoded
    <3> QED BY <3>1, <3>2 DEF Coded, PieceType
  <2>3. buf \in Seq(PieceType) /\ m \in Nat /\ DOMAIN buf = 1..m
    BY LenProperties DEF Served
  <2> HIDE DEF piece
  <2>4. /\ more \in Seq(PieceType) /\ DOMAIN more = 1..(m + 1)
        /\ \A k \in 1..m : more[k] = buf[k]
        /\ more[m + 1] = piece
    BY <2>2, <2>3, AppendProperties, LenProperties
  <2> HIDE DEF more, m
  <2>5. \A k \in 1..(m + 1) : k \in 1..m \/ k = m + 1
    BY <2>3
  <2>6. \A k \in 1..m : buf[k].quality # piece.quality
    BY <1>1, <2>2, <2>3 DEF Served
  <2>7. 1 \in DOMAIN more /\ more[1].quality = q
    BY <2>3, <2>4 DEF Served
  <2>8. \A k \in DOMAIN more : more[k].by[2] = more[k].quality /\ (fresh => more[k].by[1] = q)
    BY <2>2, <2>3, <2>4, <2>5 DEF Served
  <2>9. \A k \in DOMAIN more : more[k].quality = q \/ \E j \in 1..n : list[j].quality = more[k].quality
    <3>1. ASSUME NEW k \in 1..m
          PROVE  more[k].quality = q \/ \E j \in 1..n : list[j].quality = more[k].quality
      <4>1. buf[k].quality = q \/ \E j \in 1..(n - 1) : list[j].quality = buf[k].quality
        BY <2>3 DEF Served
      <4> QED BY <1>1, <2>4, <4>1
    <3>2. n \in 1..n /\ list[n].quality = more[m + 1].quality
      BY <1>1, <2>2, <2>4 DEF sub
    <3> QED BY <2>4, <2>5, <3>1, <3>2
  <2>10. Distinct(more)
    <3> SUFFICES ASSUME NEW i \in 1..(m + 1), NEW j \in 1..(m + 1), more[i].quality = more[j].quality
                 PROVE i = j
      BY <2>4 DEF Distinct
    <3>1. \A x, y \in 1..m : buf[x].quality = buf[y].quality => x = y
      BY <2>3 DEF Served, Distinct
    <3> QED BY <2>3, <2>4, <2>5, <2>6, <3>1
  <2>11. ASSUME fresh, NEW i \in 1..n
         PROVE \/ i \in failing \/ list[i].encoder = Failed
               \/ \E k \in DOMAIN more : more[k].quality = list[i].quality
    <3>1. CASE i = n
      <4>1. m + 1 \in DOMAIN more /\ more[m + 1].quality = list[i].quality
        BY <2>2, <2>3, <2>4, <3>1 DEF sub
      <4> QED BY <4>1
    <3>2. CASE i \in 1..(n - 1)
      <4>1. \/ i \in failing \/ list[i].encoder = Failed
            \/ \E k \in 1..m : buf[k].quality = list[i].quality
        BY <2>3, <2>11, <3>2 DEF Served
      <4>2. ASSUME NEW k \in 1..m PROVE k \in DOMAIN more /\ more[k] = buf[k]
        BY <2>3, <2>4
      <4> QED BY <4>1, <4>2
    <3> QED BY <1>1, <3>1, <3>2
  <2>12. Served(more, q, list, failing, n, fresh)
    BY <2>4, <2>7, <2>8, <2>9, <2>10, <2>11 DEF Served
  <2> QED BY <2>1, <2>12
<1> QED BY <1>2, <1>3

LEMMA FilledServes ==
  ASSUME NEW q \in Qualities, NEW list \in Seq(SubType), Distinct(list), NEW failing, NEW fresh \in BOOLEAN,
         \A i \in DOMAIN list : Labelled(list[i]) /\ (fresh => Encoded(list[i], q))
  PROVE Served(Filled(q, list, failing)[Len(list)], q, list, failing, Len(list), fresh)
<1> DEFINE f == Filled(q, list, failing)
           N == Len(list)
           Unserved == {n \in 0..N : ~Served(f[n], q, list, failing, n, fresh)}
<1>1. N \in Nat
  OBVIOUS
<1>2. f[0] = Base(q) /\ \A n \in 1..N : f[n] = Turn(q, list, failing, n, f[n - 1])
  BY <1>1, FilledTurns
<1> HIDE DEF f
<1>3. Served(f[0], q, list, failing, 0, fresh)
  <2> DEFINE piece == [quality |-> q, by |-> <<q, q>>]
  <2>1. piece \in PieceType /\ piece.quality = q /\ piece.by = <<q, q>>
    BY DEF PieceType
  <2> HIDE DEF piece
  <2>2. f[0] = <<piece>>
    BY <1>2 DEF Base, piece
  <2>3. f[0] \in Seq(PieceType) /\ DOMAIN f[0] = {1} /\ f[0][1] = piece
    BY <2>1, <2>2
  <2> QED BY <2>1, <2>3 DEF Served, Distinct
<1>4. Unserved = {}
  <2> SUFFICES ASSUME Unserved # {} PROVE FALSE
    OBVIOUS
  <2>1. PICK n \in Unserved : \A m \in Unserved : n <= m
    <3>1. Unserved \subseteq Nat /\ Unserved # {}
      BY <1>1
    <3> HIDE DEF Unserved
    <3> QED BY <3>1, LeastOf
  <2>2. n \in 1..N /\ n - 1 \in 0..N /\ n - 1 \notin Unserved
    BY <1>1, <1>3, <2>1
  <2>3. Served(f[n - 1], q, list, failing, n - 1, fresh)
    BY <2>2
  <2>4. Served(f[n], q, list, failing, n, fresh)
    BY <1>2, <2>2, <2>3, TurnServed
  <2> QED BY <2>1, <2>4
<1>5. N \in 0..N
  BY <1>1
<1> QED BY <1>4, <1>5 DEF f

-----------------------------------------------------------------------------
(* Subscriptions *)

\* No quality is subscribed twice, and unless a subscription is new, or the encoders could not
\* be reset, its encoder is from the quality of the last input: what lets a write go on
\* without a reset.
SubsSound ==
  /\ subs \in Seq(SubType) /\ stale \in BOOLEAN /\ newsub \in BOOLEAN
  /\ Distinct(subs)
  /\ \A i \in DOMAIN subs : Labelled(subs[i])
  /\ ~newsub /\ ~stale => \A i \in DOMAIN subs : Encoded(subs[i], lastinput)

SubsInv == SubsSound /\ SubscribersServed

LEMMA SubsInitial == AudioInit => SubsInv
<1> SUFFICES ASSUME AudioInit PROVE SubsInv
  OBVIOUS
<1>1. subs = <<>> /\ chunk = NoChunk /\ newsub \in BOOLEAN /\ stale \in BOOLEAN
  BY DEF AudioInit
<1> QED BY <1>1 DEF SubsInv, SubsSound, SubscribersServed, Distinct

\* One subscription changes, or none, and not its quality nor its encoder.
LEMMA Recounted ==
  ASSUME SubsSound, NEW i \in DOMAIN subs, NEW n \in Nat \ {0},
         subs' = [subs EXCEPT ![i].count = n], UNCHANGED <<newsub, lastinput, stale>>
  PROVE SubsSound'
<1>1. subs \in Seq(SubType) /\ DOMAIN subs = 1..Len(subs)
  BY DEF SubsSound
<1>2. \A k \in DOMAIN subs : subs[k] \in SubType
  BY <1>1
<1> DEFINE sub == [subs[i] EXCEPT !.count = n]
<1>3. sub \in SubType /\ sub.quality = subs[i].quality /\ sub.encoder = subs[i].encoder
  BY <1>2 DEF SubType
<1>4. subs' = [subs EXCEPT ![i] = sub]
  OBVIOUS
<1> HIDE DEF sub
<1>5. subs' \in Seq(SubType) /\ DOMAIN subs' = DOMAIN subs
  BY <1>1, <1>3, <1>4
<1>6. \A k \in DOMAIN subs : subs'[k].quality = subs[k].quality /\ subs'[k].encoder = subs[k].encoder
  BY <1>3, <1>4
<1> QED BY <1>5, <1>6 DEF SubsSound, Distinct, Encoded, Labelled

LEMMA Indexed ==
  ASSUME NEW q, Subscribed(q)
  PROVE IndexOf(q) \in DOMAIN subs /\ subs[IndexOf(q)].quality = q
  BY DEF Subscribed, IndexOf

LEMMA SubscribeKeeps ==
  ASSUME SubsSound, NEW q \in Qualities, Subscribe(q), UNCHANGED <<lastinput, stale>>
  PROVE SubsSound'
<1>1. CASE Subscribed(q)
  <2> DEFINE i == IndexOf(q)
             n == subs[i].count + 1
  <2>1. i \in DOMAIN subs /\ subs[i] \in SubType
    BY <1>1, Indexed DEF SubsSound
  <2>2. n \in Nat \ {0}
    BY <2>1 DEF SubType
  <2>3. subs' = [subs EXCEPT ![i].count = n] /\ UNCHANGED newsub
    BY <1>1 DEF Subscribe
  <2> HIDE DEF i, n
  <2> QED BY <2>1, <2>2, <2>3, Recounted
<1>2. CASE ~Subscribed(q)
  <2> DEFINE sub == [quality |-> q, count |-> 1, encoder |-> NoQuality]
             m == Len(subs)
  <2>1. sub \in SubType /\ sub.quality = q /\ Labelled(sub)
    BY DEF SubType, Labelled
  <2>2. subs' = Append(subs, sub) /\ newsub' = TRUE
    BY <1>2 DEF Subscribe
  <2>3. subs \in Seq(SubType) /\ m \in Nat /\ DOMAIN subs = 1..m
    BY LenProperties DEF SubsSound
  <2> HIDE DEF sub
  <2>4. /\ subs' \in Seq(SubType) /\ DOMAIN subs' = 1..(m + 1)
        /\ \A k \in 1..m : subs'[k] = subs[k]
        /\ subs'[m + 1] = sub
    BY <2>1, <2>2, <2>3, AppendProperties, LenProperties
  <2>5. \A k \in 1..m : subs[k].quality # q
    BY <1>2, <2>3 DEF Subscribed
  <2>6. Distinct(subs')
    <3> SUFFICES ASSUME NEW i \in 1..(m + 1), NEW j \in 1..(m + 1), subs'[i].quality = subs'[j].quality
                 PROVE i = j
      BY <2>4 DEF Distinct
    <3>1. \A x, y \in 1..m : subs[x].quality = subs[y].quality => x = y
      BY <2>3 DEF SubsSound, Distinct
    <3>2. \A k \in 1..(m + 1) : k \in 1..m \/ k = m + 1
      BY <2>3
    <3> HIDE DEF m
    <3> QED BY <2>1, <2>4, <2>5, <3>1, <3>2
  <2>7. \A k \in DOMAIN subs' : Labelled(subs'[k])
    <3>1. \A k \in 1..(m + 1) : k \in 1..m \/ k = m + 1
      BY <2>3
    <3>2. \A k \in 1..m : Labelled(subs[k])
      BY <2>3 DEF SubsSound
    <3> QED BY <2>1, <2>4, <3>1, <3>2
  <2> QED BY <2>2, <2>4, <2>6, <2>7 DEF SubsSound
<1> QED BY <1>1, <1>2

LEMMA UnsubscribeKeeps ==
  ASSUME SubsSound, NEW q, Unsubscribe(q), UNCHANGED <<lastinput, stale>>
  PROVE SubsSound'
<1> DEFINE i == IndexOf(q)
<1>1. newsub' = newsub
  BY DEF Unsubscribe
<1>2. CASE ~Subscribed(q)
  <2>1. subs' = subs
    BY <1>2 DEF Unsubscribe
  <2> QED BY <1>1, <2>1 DEF SubsSound, Distinct
<1>3. CASE Subscribed(q) /\ subs[i].count > 1
  <2> DEFINE n == subs[i].count - 1
  <2>1. i \in DOMAIN subs /\ subs[i] \in SubType
    BY <1>3, Indexed DEF SubsSound
  <2>2. n \in Nat \ {0}
    BY <1>3, <2>1 DEF SubType
  <2>3. subs' = [subs EXCEPT ![i].count = n]
    BY <1>3 DEF Unsubscribe
  <2> HIDE DEF i, n
  <2> QED BY <1>1, <2>1, <2>2, <2>3, Recounted
<1>4. CASE Subscribed(q) /\ ~(subs[i].count > 1)
  <2> DEFINE n == Len(subs)
  <2>1. subs' = RemoveAt(subs, i)
    BY <1>4 DEF Unsubscribe
  <2>2. subs \in Seq(SubType) /\ i \in DOMAIN subs
    BY <1>4, Indexed DEF SubsSound
  <2> HIDE DEF i
  <2>3. /\ n \in Nat /\ i \in 1..n /\ DOMAIN subs = 1..n
        /\ subs' \in Seq(SubType) /\ DOMAIN subs' = 1..(n - 1)
        /\ \A k \in 1..(n - 1) : subs'[k] = IF k < i THEN subs[k] ELSE subs[k + 1]
    BY <2>1, <2>2, RemoveAtPlaces
  <2> HIDE DEF n
  <2> DEFINE old(k) == IF k < i THEN k ELSE k + 1
  <2>4. \A k \in 1..(n - 1) : old(k) \in 1..n /\ subs'[k] = subs[old(k)]
    BY <2>3
  <2>5. \A k, m \in 1..(n - 1) : old(k) = old(m) => k = m
    BY <2>3
  <2> HIDE DEF old
  <2>6. Distinct(subs')
    <3> SUFFICES ASSUME NEW k \in 1..(n - 1), NEW m \in 1..(n - 1), subs'[k].quality = subs'[m].quality
                 PROVE k = m
      BY <2>3 DEF Distinct
    <3>1. old(k) = old(m)
      BY <2>3, <2>4 DEF SubsSound, Distinct
    <3> QED BY <2>5, <3>1
  <2>7. /\ ~newsub /\ ~stale => \A k \in DOMAIN subs' : Encoded(subs'[k], lastinput)
        /\ \A k \in DOMAIN subs' : Labelled(subs'[k])
    BY <2>3, <2>4 DEF SubsSound
  <2> QED BY <1>1, <2>3, <2>6, <2>7 DEF SubsSound, Encoded
<1> QED BY <1>2, <1>3, <1>4

\* encoding_reset: each encoder is from q, or none, or failed.
LEMMA ResetEncodes ==
  ASSUME SubsSound, NEW q \in Qualities, NEW failing
  PROVE LET after == EncodingReset(q, TRUE, failing)
        IN  /\ after \in Seq(SubType) /\ DOMAIN after = DOMAIN subs
            /\ \A i \in DOMAIN subs : /\ after[i].quality = subs[i].quality
                                      /\ Labelled(after[i]) /\ Encoded(after[i], q)
<1> DEFINE after == EncodingReset(q, TRUE, failing)
           encoder(i) == IF subs[i].quality = q THEN NoQuality
                         ELSE IF i \in failing THEN Failed ELSE <<q, subs[i].quality>>
<1>1. subs \in Seq(SubType) /\ DOMAIN subs = 1..Len(subs) /\ Len(subs) \in Nat
  BY DEF SubsSound
<1>2. after = [i \in DOMAIN subs |-> [subs[i] EXCEPT !.encoder = encoder(i)]]
  BY DEF EncodingReset
<1>3. ASSUME NEW i \in DOMAIN subs
      PROVE /\ after[i] \in SubType /\ after[i].quality = subs[i].quality
            /\ Labelled(after[i]) /\ Encoded(after[i], q)
  <2>1. subs[i] \in SubType
    BY <1>1
  <2>2. encoder(i) \in {NoQuality, Failed} \cup (Qualities \X Qualities)
    BY <2>1 DEF SubType
  <2>3. after[i] = [subs[i] EXCEPT !.encoder = encoder(i)]
    BY <1>2
  <2>4. IF subs[i].quality = q THEN encoder(i) = NoQuality
        ELSE encoder(i) \in {Failed, <<q, subs[i].quality>>}
    OBVIOUS
  <2> HIDE DEF encoder, after
  <2>5. after[i] \in SubType /\ after[i].quality = subs[i].quality /\ after[i].encoder = encoder(i)
    BY <2>1, <2>2, <2>3 DEF SubType
  <2> QED BY <2>4, <2>5 DEF Encoded, Labelled
<1>4. DOMAIN after = DOMAIN subs
  BY <1>2
<1> HIDE DEF after
<1>5. after \in Seq(SubType)
  <2>1. after = [i \in 1..Len(subs) |-> after[i]]
    BY <1>1, <1>2
  <2> QED BY <1>1, <1>3, <2>1
<1> QED BY <1>3, <1>4, <1>5 DEF after

\* A write: all encoders are from its quality when the buffer is filled, if they were reset.
LEMMA WriteServes ==
  ASSUME SubsSound, NEW q \in Qualities, OutputsWrite(q)
  PROVE SubsInv'
<1>1. PICK failing \in SUBSET DOMAIN subs, decodable \in BOOLEAN :
        /\ subs' = IF q # lastinput \/ newsub THEN EncodingReset(q, decodable, failing) ELSE subs
        /\ newsub' = FALSE /\ lastinput' = q
        /\ stale' = IF q # lastinput \/ newsub THEN ~decodable ELSE stale
        /\ chunk' = BufferFill(q, subs', failing)
  BY DEF OutputsWrite
<1>2. /\ subs' \in Seq(SubType) /\ DOMAIN subs' = DOMAIN subs /\ stale' \in BOOLEAN
      /\ \A i \in DOMAIN subs : /\ subs'[i].quality = subs[i].quality /\ Labelled(subs'[i])
                                /\ ~stale' => Encoded(subs'[i], q)
  <2>1. CASE (q # lastinput \/ newsub) /\ decodable = TRUE
    BY <1>1, <2>1, ResetEncodes
  <2>2. CASE (q # lastinput \/ newsub) /\ ~decodable
    <3>1. subs' = subs /\ stale' = TRUE
      BY <1>1, <2>2 DEF EncodingReset
    <3> QED BY <3>1 DEF SubsSound
  <2>3. CASE ~(q # lastinput \/ newsub)
    <3>1. subs' = subs /\ lastinput = q /\ ~newsub /\ stale' = stale
      BY <1>1, <2>3
    <3> QED BY <3>1 DEF SubsSound
  <2> QED BY <2>1, <2>2, <2>3
<1>3. Distinct(subs')
  BY <1>2 DEF SubsSound, Distinct
<1>4. SubsSound'
  BY <1>1, <1>2, <1>3 DEF SubsSound
<1> DEFINE list == subs'
           n == Len(list)
           buf == Filled(q, list, failing)[n]
           fresh == ~stale'
<1>5. /\ list \in Seq(SubType) /\ DOMAIN list = 1..n /\ fresh \in BOOLEAN
      /\ \A i \in DOMAIN list : Labelled(list[i]) /\ (fresh => Encoded(list[i], q))
  BY <1>2
<1> HIDE DEF list, n, fresh
<1>6. Served(buf, q, list, failing, n, fresh)
  BY <1>3, <1>5, FilledServes DEF list, n
<1> HIDE DEF buf
<1>7. chunk' = [input |-> q, data |-> buf,
                unmade |-> {list[i].quality : i \in {j \in DOMAIN list : j \in failing \/ list[j].encoder = Failed}}]
  BY <1>1 DEF BufferFill, buf, n, list
<1>8. SubscribersServed'
  <2>1. /\ \A k \in DOMAIN buf : buf[k].by[2] = buf[k].quality /\ (fresh => buf[k].by[1] = q)
        /\ \A k, m \in DOMAIN buf : buf[k].quality = buf[m].quality => k = m
    BY <1>6 DEF Served, Distinct
  <2>2. ASSUME fresh, NEW i \in DOMAIN list
        PROVE list[i].quality \in chunk'.unmade \cup {buf[k].quality : k \in DOMAIN buf}
    <3>1. \/ i \in failing \/ list[i].encoder = Failed
          \/ \E k \in DOMAIN buf : buf[k].quality = list[i].quality
      BY <1>5, <1>6, <2>2 DEF Served
    <3>2. i \in failing \/ list[i].encoder = Failed => list[i].quality \in chunk'.unmade
      BY <1>7
    <3> QED BY <3>1, <3>2
  <2>3. chunk'.input = q /\ chunk'.data = buf
    BY <1>7
  <2> QED BY <2>1, <2>2, <2>3 DEF SubscribersServed, list, fresh
<1> QED BY <1>4, <1>8 DEF SubsInv

LEMMA SubsInductive == SubsInv /\ [AudioNext]_audioVars => SubsInv'
<1> SUFFICES ASSUME SubsInv, [AudioNext]_audioVars PROVE SubsInv'
  OBVIOUS
<1>1. SubsSound
  BY DEF SubsInv
<1>2. CASE SubsSound' /\ chunk' = NoChunk
  BY <1>2 DEF SubsInv, SubscribersServed, NoChunk
<1>3. CASE UNCHANGED <<subs, newsub, lastinput, stale>> /\ chunk' = NoChunk
  <2>1. SubsSound'
    BY <1>1, <1>3 DEF SubsSound, Distinct, Encoded
  <2> QED BY <1>2, <1>3, <2>1
<1>4. ASSUME NEW q \in Qualities, OutputsWrite(q) PROVE SubsInv'
  BY <1>1, <1>4, WriteServes
<1>5. ASSUME NEW q \in Qualities, NEW b \in Backends, BackendSubscribes(b, q) PROVE SubsInv'
  <2>1. chunk' = NoChunk /\ UNCHANGED <<lastinput, stale>> /\ (Subscribe(q) \/ UNCHANGED <<subs, newsub>>)
    BY <1>5 DEF BackendSubscribes
  <2> QED BY <1>1, <1>2, <1>3, <2>1, SubscribeKeeps
<1>6. ASSUME NEW b \in Backends, BackendUnsubscribes(b) PROVE SubsInv'
  <2>1. chunk' = NoChunk /\ UNCHANGED <<lastinput, stale>> /\ Unsubscribe(user[b])
    BY <1>6 DEF BackendUnsubscribes
  <2> QED BY <1>1, <1>2, <2>1, UnsubscribeKeeps
<1>7. CASE OutputsDeinit
  <2>1. subs' = <<>> /\ chunk' = NoChunk /\ UNCHANGED <<newsub, stale>>
    BY <1>7 DEF OutputsDeinit
  <2>2. SubsSound'
    BY <1>1, <2>1 DEF SubsSound, Distinct
  <2> QED BY <1>2, <2>1, <2>2
<1>8. ASSUME NEW s \in Streams, StreamEnds(s) PROVE SubsInv'
  <2>1. chunk' = NoChunk /\ UNCHANGED <<lastinput, stale>>
        /\ (Unsubscribe(streaming[s]) \/ UNCHANGED <<subs, newsub>>)
    BY <1>8 DEF StreamEnds
  <2> QED BY <1>1, <1>2, <1>3, <2>1, UnsubscribeKeeps
<1>9. ASSUME NEW s \in Streams, NEW q \in Qualities, StreamStarts(s, q) PROVE SubsInv'
  BY <1>3, <1>9 DEF StreamStarts
<1>10. CASE UNCHANGED audioVars
  BY <1>10 DEF audioVars, SubsInv, SubsSound, SubscribersServed, Distinct, Encoded, NoChunk
<1> QED BY <1>4, <1>5, <1>6, <1>7, <1>8, <1>9, <1>10 DEF AudioNext

(* outputs.h:30-36: what a write hands to the backends was encoded to the quality it is    *)
(* labelled with, once each; and unless the encoders could not be reset, from its input,   *)
(* and each subscribed quality is there if its encoder did not fail, for any number of     *)
(* qualities and subscribers.                                                              *)
THEOREM ServedCorrect == AudioSpec => []SubscribersServed
<1>1. SubsInv => SubscribersServed
  BY DEF SubsInv
<1> QED BY <1>1, SubsInitial, SubsInductive, PTL DEF AudioSpec
=============================================================================
