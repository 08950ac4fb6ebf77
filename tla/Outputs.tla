------------------------------- MODULE Outputs -------------------------------
(***************************************************************************)
(* The generic output layer, src/src/outputs.c: the list of devices, the   *)
(* register of callbacks promised to the player and the deferred handler   *)
(* that makes them. The player (outside this repository) and the backend's *)
(* sessions (AirplaySession models them) are the environment: the player   *)
(* may call any function of the layer at any moment, also from inside a    *)
(* callback, and a session may report at any moment of the event loop.     *)
(* A device is an address; an address is reused after free.                *)
(***************************************************************************)
EXTENDS Integers, FiniteSets

CONSTANTS
  Ids,            \* the ids mDNS announces devices under
  Addresses,      \* where an output_device can be allocated
  SessionAddresses, \* where the backend can allocate a session
  Null,             \* NULL
  RegisterSize,   \* OUTPUTS_MAX_CALLBACKS, 64 in the code
  MaxCalls        \* bound: callbacks the player passes in a behaviour

ASSUME OutputsAssumption ==
  /\ RegisterSize \in Nat \ {0} /\ MaxCalls \in Nat
  /\ Null \notin Addresses \cup SessionAddresses \cup Ids

VARIABLES
  device,     \* device[p]: the output_device at p, in outputs_device_list, or Null
  register,   \* outputs_cb_register
  session,    \* session[s]: the backend's session at s, or Null
  deferred,   \* outputs_deferredev is active
  walk,       \* the slot deferred_cb looks at next; RegisterSize when it does not run
  work,       \* what is left of the loop over devices that runs: <<operation, address>>
  calls,      \* callbacks passed by the player so far; a callback is known by its number
  handed      \* the device the last callback made got, or Null

outputsVars == <<device, register, session, deferred, walk, work, calls, handed>>

CallbackSlots == 0..(RegisterSize - 1)
NoCallback == -1
NotWalking == RegisterSize
Taken(p, call) == [call |-> call, device |-> p, ready |-> FALSE, id |-> Null]
Empty == Taken(Null, 0)

StopCb == MaxCalls + 1          \* device_stop_cb, the callback of outputs_device_remove

DeviceType ==
  [id : Ids, advertised : BOOLEAN, session : SessionAddresses \cup {Null},
   stop_timer : BOOLEAN]
SlotType ==
  [call : 0..StopCb, device : Addresses \cup {Null}, ready : BOOLEAN,
   id : Ids \cup {Null}]
BackendType ==
  [id : Ids, callback_id : CallbackSlots \cup {NoCallback}, state : {"STARTUP", "CONNECTED", "STREAMING"}]

ASSUME NullAssumption == Null \notin DeviceType \cup BackendType

List == {p \in Addresses : device[p] # Null}
Live == {s \in SessionAddresses : session[s] # Null}

\* outputs_device_get: ids are unique in the list, since outputs_device_add looks there first.
DeviceGet(dev, id) ==
  IF \E p \in Addresses : dev[p] # Null /\ dev[p].id = id
  THEN CHOOSE p \in Addresses : dev[p] # Null /\ dev[p].id = id
  ELSE Null

OutputsInit ==
  /\ device = [p \in Addresses |-> Null]
  /\ register = [i \in CallbackSlots |-> Empty]
  /\ session = [s \in SessionAddresses |-> Null]
  /\ deferred = FALSE /\ walk = NotWalking /\ work = {}
  /\ calls = 0 /\ handed = Null

-----------------------------------------------------------------------------
(* The register *)

\* callback_get
CallbackGet(p) ==
  IF \E i \in CallbackSlots : register[i].device = p
  THEN register[CHOOSE i \in CallbackSlots :
                  /\ register[i].device = p
                  /\ \A j \in CallbackSlots : register[j].device = p => i <= j].call
  ELSE 0

\* Mutant: only the first slot of the device is looked for, and it is not cleared.
CallbackRemoveNone(reg, p) == reg

\* callback_remove
CallbackRemove(reg, p) == [i \in CallbackSlots |-> IF reg[i].device = p THEN Empty ELSE reg[i]]

\* The slot callback_add takes; NoCallback without a callback, or when the register is full.
CallbackAdd(p, call) ==
  LET free == {i \in CallbackSlots : CallbackRemove(register, p)[i].call = 0} IN
  IF call = 0 \/ free = {} THEN NoCallback
  ELSE CHOOSE i \in free : \A j \in free : i <= j

\* The register after callback_add. Without a callback it is not touched.
Registered(p, call) ==
  IF call = 0 THEN register
  ELSE LET removed == CallbackRemove(register, p) IN
       IF CallbackAdd(p, call) = NoCallback THEN removed
       ELSE [removed EXCEPT ![CallbackAdd(p, call)] = Taken(p, call)]

\* outputs_cb: an id that is not of a registered callback is ignored.
OutputsCb(reg, c, id) ==
  IF c = NoCallback \/ reg[c].call = 0 THEN reg
  ELSE [reg EXCEPT ![c].ready = TRUE, ![c].id = id]

\* Mutant: the event is not activated while deferred_cb runs.
ReportQuiet(reg, c, id) ==
  /\ register' = OutputsCb(reg, c, id)
  /\ deferred' = (deferred \/ (c # NoCallback /\ register'[c].ready /\ walk = NotWalking))

\* What a session reports, and the event outputs_cb activates when it hears it.
Report(reg, c, id) ==
  /\ register' = OutputsCb(reg, c, id)
  /\ deferred' = (deferred \/ (c # NoCallback /\ register'[c].ready))

-----------------------------------------------------------------------------
(* The backend, as outputs.c uses it *)

\* Mutant: by the address of the session.
SessionRemoveNone(dev, id) == dev

\* outputs_device_session_remove
SessionRemove(dev, id) ==
  [p \in Addresses |-> IF p = DeviceGet(dev, id) THEN [dev[p] EXCEPT !.session = Null] ELSE dev[p]]

\* A session reports that it is connected, or how it ended: then it is freed.
Tell(s, ends) ==
  /\ walk = NotWalking /\ work = {} /\ s \in Live
  /\ Report(register, session[s].callback_id, session[s].id)
  /\ IF ends THEN /\ session' = [session EXCEPT ![s] = Null]
                  /\ device' = SessionRemove(device, session[s].id)
     ELSE /\ session' = [session EXCEPT ![s] = [@ EXCEPT !.callback_id = NoCallback,
                                                       !.state = "CONNECTED"]]
          /\ UNCHANGED device
  /\ UNCHANGED <<walk, work, calls, handed>>

\* airplay_write: nothing is reported when a connected session streams.
Write(s) ==
  /\ walk = NotWalking /\ work = {} /\ s \in Live /\ session[s].state = "CONNECTED"
  /\ session' = [session EXCEPT ![s].state = "STREAMING"]
  /\ UNCHANGED <<device, register, deferred, walk, work, calls, handed>>

-----------------------------------------------------------------------------
(* The operations on a device: call is the number of the callback passed, 0 for NULL *)

\* outputs_device_start, outputs_device_probe, outputs_device_authorize: the backend
\* makes a session, cannot make one, or makes one that fails at once. A backend is to
\* call outputs_device_session_add for the session, but session_make of airplay.c has the
\* call commented out (airplay.c:1563-1565): it may be made or not.
DeviceStart(p, call) ==
  IF device[p].session # Null THEN UNCHANGED <<device, register, session, deferred>>
  ELSE LET c == CallbackAdd(p, call)   id == device[p].id IN
    \/ /\ register' = Registered(p, call)
       /\ UNCHANGED <<device, session, deferred>>
    \/ \E s \in SessionAddresses \ Live :
         /\ session' = [session EXCEPT ![s] = [id |-> id, callback_id |-> c, state |-> "STARTUP"]]
         /\ device' \in {device, [device EXCEPT ![p].session = s]}
         /\ register' = Registered(p, call) /\ UNCHANGED deferred
    \/ /\ Report(Registered(p, call), c, id)
       /\ UNCHANGED <<device, session>>

\* The session of the device gets the callback and a request to send, or fails at once.
Asked(p, call) ==
  LET c == CallbackAdd(p, call)   s == device[p].session IN
  \/ /\ session' = [session EXCEPT ![s].callback_id = c]
     /\ register' = Registered(p, call) /\ UNCHANGED <<device, deferred>>
  \/ /\ session' = [session EXCEPT ![s] = Null]
     /\ device' = SessionRemove(device, device[p].id)
     /\ Report(Registered(p, call), c, device[p].id)

\* outputs_device_stop, and the other commands where the backend takes the callback.
DeviceStop(p, call) ==
  IF device[p].session = Null THEN UNCHANGED <<device, register, session, deferred>>
  ELSE Asked(p, call)

\* outputs_device_flush and outputs_device_volume_set: when the session is not in one of
\* the states, the backend returns 0 and does not take the callback that was registered.
Command(p, call, states) ==
  IF device[p].session = Null \/ session[device[p].session].state \in states
  THEN DeviceStop(p, call)
  ELSE register' = Registered(p, call) /\ UNCHANGED <<device, session, deferred>>

\* outputs_device_cb_set
CbSet(p, call) ==
  LET s == device[p].session IN
  IF s = Null THEN UNCHANGED <<register, session>>
  ELSE /\ session' = [session EXCEPT ![s].callback_id = CallbackAdd(p, call)]
       /\ register' = Registered(p, call)

-----------------------------------------------------------------------------
(* Calls by the player *)

\* The player calls with a new callback; it does not while a loop is running.
Calls == work = {} /\ calls < MaxCalls /\ calls' = calls + 1
Plain == work = {} /\ UNCHANGED <<calls, walk, work, handed>>

\* outputs_device_add: a new device, or an update of the one with the id. There is one
\* type of output, so the device in the list always has the type of the one added.
DeviceAdd(id, p) ==
  /\ Plain
  /\ IF DeviceGet(device, id) = Null
     THEN /\ p \notin List
          /\ device' = [device EXCEPT ![p] =
               [id |-> id, advertised |-> TRUE, session |-> Null,
                stop_timer |-> FALSE]]
     ELSE /\ p = DeviceGet(device, id)
          /\ device' = [device EXCEPT ![p].advertised = TRUE]
  /\ UNCHANGED <<register, session, deferred>>

\* outputs_device_free, with the timer, also of a device that has a session.
DeviceFree(p) == device' = [device EXCEPT ![p] = Null]

\* outputs_device_remove: the session, if there is one, is told to stop and will report
\* to device_stop_cb; the device is freed at once.
DeviceRemove(p) ==
  /\ Plain /\ p \in List
  /\ LET s == device[p].session   c == CallbackAdd(p, StopCb) IN
     IF s = Null THEN UNCHANGED <<register, session, deferred>>
     ELSE \/ /\ session' = [session EXCEPT ![s].callback_id = c]
             /\ register' = Registered(p, StopCb) /\ UNCHANGED deferred
          \/ /\ session' = [session EXCEPT ![s] = Null]
             /\ Report(Registered(p, StopCb), c, device[p].id)
  /\ DeviceFree(p)

\* mDNS withdrew the device: the player clears the flag that deferred_cb reads.
Withdrawn(p) ==
  /\ Plain /\ p \in List /\ device[p].advertised
  /\ device' = [device EXCEPT ![p].advertised = FALSE]
  /\ UNCHANGED <<register, session, deferred>>

Start(p) == Calls /\ p \in List /\ DeviceStart(p, calls') /\ UNCHANGED <<walk, work, handed>>
Stop(p) == Calls /\ p \in List /\ DeviceStop(p, calls') /\ UNCHANGED <<walk, work, handed>>
Flush(p) ==
  /\ Calls /\ p \in List /\ Command(p, calls', {"STREAMING"})
  /\ UNCHANGED <<walk, work, handed>>
DeviceVolumeSet(p) ==
  /\ Calls /\ p \in List /\ Command(p, calls', {"CONNECTED", "STREAMING"})
  /\ UNCHANGED <<walk, work, handed>>
SetCallback(p) ==
  Calls /\ p \in List /\ CbSet(p, calls') /\ UNCHANGED <<device, deferred, walk, work, handed>>

\* outputs_device_stop_delayed
StopDelayed(p) ==
  /\ Calls /\ p \in List /\ CbSet(p, calls')
  /\ device' = [device EXCEPT ![p].stop_timer = (@ \/ device[p].session # Null)]
  /\ UNCHANGED <<deferred, walk, work, handed>>

\* outputs_stop_delayed_cancel
StopDelayedCancel ==
  /\ Plain
  /\ device' = [p \in Addresses |-> IF p \in List THEN [device[p] EXCEPT !.stop_timer = FALSE]
                                    ELSE device[p]]
  /\ UNCHANGED <<register, session, deferred>>

\* outputs_start, outputs_stop, outputs_flush: one callback for a loop over the list.
Loop(items) ==
  /\ Calls /\ work' = items
  /\ UNCHANGED <<device, register, session, deferred, walk, handed>>

\* The selected devices are started after the others are stopped; which the user has
\* selected is an input here (OutputsVolume has the flag).
OutputsStart(selected) ==
  Loop({<<"stop", p>> : p \in List \ selected} \cup {<<"start", p>> : p \in selected})
OutputsStop == Loop({<<"stop", p>> : p \in List})
OutputsFlush == Loop({<<"flush", p>> : p \in List})

\* One round of the loop.
Iterate ==
  /\ \E p \in Addresses :
       \/ /\ <<"stop", p>> \in work /\ work' = work \ {<<"stop", p>>}
          /\ DeviceStop(p, calls)
       \/ /\ <<"start", p>> \in work /\ work' = work \ {<<"start", p>>}
          /\ ~\E q \in Addresses : <<"stop", q>> \in work
          /\ DeviceStart(p, calls)
       \/ /\ <<"flush", p>> \in work /\ work' = work \ {<<"flush", p>>}
          /\ Command(p, calls, {"STREAMING"})
  /\ UNCHANGED <<walk, calls, handed>>

-----------------------------------------------------------------------------
(* Callbacks of the event loop *)

\* stop_timer_cb: the callback registered for the device, if it was not made yet, is
\* registered again; otherwise nobody hears of the stop.
StopTimer(p) ==
  /\ walk = NotWalking /\ work = {} /\ p \in List /\ device[p].stop_timer
  /\ IF device[p].session = Null
     THEN /\ device' = [device EXCEPT ![p].stop_timer = FALSE]
          /\ UNCHANGED <<register, session, deferred>>
     ELSE LET c == CallbackAdd(p, CallbackGet(p))   s == device[p].session
              reg == Registered(p, CallbackGet(p))
              fired == [device EXCEPT ![p].stop_timer = FALSE] IN
          \/ /\ session' = [session EXCEPT ![s].callback_id = c]
             /\ register' = reg /\ device' = fired /\ UNCHANGED deferred
          \/ /\ session' = [session EXCEPT ![s] = Null]
             /\ device' = SessionRemove(fired, device[p].id)
             /\ Report(reg, c, device[p].id)
  /\ UNCHANGED <<walk, work, calls, handed>>

\* deferred_cb begins; its event is no longer active.
DeferredBegin ==
  /\ deferred /\ walk = NotWalking /\ work = {}
  /\ deferred' = FALSE /\ walk' = 0
  /\ UNCHANGED <<device, register, session, work, calls, handed>>

Ready == {i \in CallbackSlots : i >= walk /\ register[i].ready}

\* A device that left is removed before the callback, which gets NULL instead.
Gone(p) == p # Null /\ ~device[p].advertised /\ device[p].session = Null

\* Mutant: the device is removed, and handed over all the same.
HandedStale(p) == p

Handed(p) == IF Gone(p) THEN Null ELSE p

\* deferred_cb makes the next callback; what the player does in it follows, while
\* walk stays where it is.
Deliver ==
  /\ walk # NotWalking /\ work = {}
  /\ \E i \in Ready :
       /\ \A j \in Ready : i <= j
       /\ LET p == DeviceGet(device, register[i].id) IN
          /\ IF Gone(p) THEN DeviceFree(p) ELSE UNCHANGED device
          /\ handed' = Handed(p)
       /\ register' = [register EXCEPT ![i] = Empty]
       /\ walk' = i + 1
  /\ UNCHANGED <<session, deferred, work, calls>>

DeferredEnd ==
  /\ walk # NotWalking /\ work = {} /\ Ready = {}
  /\ walk' = NotWalking
  /\ UNCHANGED <<device, register, session, deferred, work, calls, handed>>

Deferred == DeferredBegin \/ Deliver \/ DeferredEnd

Player ==
  \/ \E id \in Ids, p \in Addresses : DeviceAdd(id, p)
  \/ \E p \in Addresses :
       \/ DeviceRemove(p) \/ Withdrawn(p)
       \/ Start(p) \/ Stop(p) \/ Flush(p) \/ DeviceVolumeSet(p) \/ SetCallback(p) \/ StopDelayed(p)
  \/ StopDelayedCancel \/ (\E selected \in SUBSET List : OutputsStart(selected)) \/ OutputsStop \/ OutputsFlush

Backend ==
  \E s \in SessionAddresses : Write(s) \/ \E ends \in BOOLEAN : Tell(s, ends)

OutputsNext == Player \/ Backend \/ Iterate \/ Deferred \/ \E p \in Addresses : StopTimer(p)

OutputsSpec == OutputsInit /\ [][OutputsNext]_outputsVars

-----------------------------------------------------------------------------
(* Properties *)

(* Type invariant. *)
TypeOK ==
  /\ device \in [Addresses -> DeviceType \cup {Null}]
  /\ register \in [CallbackSlots -> SlotType]
  /\ session \in [SessionAddresses -> BackendType \cup {Null}]
  /\ deferred \in BOOLEAN /\ walk \in 0..RegisterSize
  /\ work \subseteq {"start", "stop", "flush"} \X List
  /\ calls \in 0..MaxCalls
  /\ handed \in Addresses \cup {Null}

(* The session pointer of a device in the list is never dangling: the session it      *)
(* points to lives and is of the device's id, although sessions are freed by the      *)
(* backend, devices by the player, and both find each other by id only.               *)
SessionPointerValid ==
  \A p \in List : device[p].session # Null =>
    device[p].session \in Live /\ session[device[p].session].id = device[p].id

(* However often callbacks replace each other, the register holds at most one for an  *)
(* address, so it can only be full when RegisterSize different addresses wait.        *)
OneSlotPerAddress ==
  \A i, j \in CallbackSlots : register[i].call # 0 /\ register[j].call # 0
                        /\ register[i].device = register[j].device => i = j

(* outputs.c:718: a callback never gets a device that has left the list: not when the *)
(* device was removed while the session answered, nor when deferred_cb removes it.    *)
NoDanglingDevice ==
  [][handed' # handed /\ handed' # Null => device'[handed'] # Null]_outputsVars

(* No answer is forgotten: while a slot holds one, deferred_cb is active or has the     *)
(* slot still before it, also when the answer came, or the slot was given to another    *)
(* callback, while deferred_cb was calling the player.                                  *)
AnswerHandedOn ==
  \A i \in CallbackSlots : register[i].ready => deferred \/ (walk # NotWalking /\ walk <= i)
=============================================================================
