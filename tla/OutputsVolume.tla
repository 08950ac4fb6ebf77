---------------------------- MODULE OutputsVolume ----------------------------
(***************************************************************************)
(* Volumes, src/src/outputs.c: each device has one of its own, the master  *)
(* is that of the loudest device shown as selected, and the volume of a    *)
(* device relative to the master is recomputed with every change of a      *)
(* device, so that a change of the master moves the selected devices       *)
(* alike. They are meant to be 0..100; a relative volume may be more, and  *)
(* then the volume of a device may. The C floats, cut to int, give what    *)
(* the integers here give, but for quotients that should come out exact    *)
(* and fall short of it: of volumes up to 1677 the products stay under the *)
(* 2^24 that a float is exact to. busy and prevent_playback, which only    *)
(* the player sets, are left out.                                          *)
(***************************************************************************)
EXTENDS Integers, FiniteSets

CONSTANTS
  Speakers,        \* device ids
  Levels,          \* volumes somebody asks for
  MaxVolume,       \* bound: volumes a device is followed with
  Short,           \* <<volume, master>> whose quotient in floats falls short of the exact one
  IntOfInfinity    \* what the build makes of an infinite float cut to int, of either sign

ASSUME OutputsVolumeAssumption ==
  /\ Levels \subseteq 0..100
  /\ MaxVolume \in 100..1677
  /\ Short \subseteq {p \in (1..MaxVolume) \X (1..MaxVolume) : (p[1] * 100) % p[2] = 0}
  /\ IntOfInfinity \in Int /\ IntOfInfinity \notin (-100 * MaxVolume)..(100 * MaxVolume)

VARIABLES
  speaker,         \* speaker[d]: the fields of struct output_device used here
  master,          \* outputs_master_volume
  failedOnce       \* history: devices that have failed

volumeVars == <<speaker, master, failedOnce>>

Unlisted == [listed |-> FALSE, selected |-> FALSE, ok |-> TRUE, volume |-> 0, relvol |-> 100]

\* outputs_init
VolumeInit == speaker = [d \in Speakers |-> Unlisted] /\ master = -1 /\ failedOnce = {}

\* (int) of a number of hundredths
CutToInt(x) == IF x >= 0 THEN x \div 100 ELSE -((-x) \div 100)

\* rel_to_vol
RelToVol(relvol, m) == IF relvol = 100 THEN m ELSE CutToInt(relvol * m)

\* vol_to_rel, of a device in the list: the master is the volume of one of them.
VolToRel(volume, m) ==
  IF volume = m THEN 100
  ELSE IF m = 0 THEN IntOfInfinity
  ELSE (volume * 100) \div m - (IF <<volume, m>> \in Short THEN 1 ELSE 0)

Listed(s) == {d \in Speakers : s[d].listed}

\* OUTPUTS_DEVICE_DISPLAY_SELECTED
Shown(s) == {d \in Listed(s) : s[d].selected /\ s[d].ok}

Highest(s, set) ==
  IF \E d \in set : s[d].volume >= 0
  THEN CHOOSE v \in {s[d].volume : d \in set} : \A d \in set : s[d].volume <= v
  ELSE -1

NewMaster(s) == IF Highest(s, Shown(s)) >= 0 THEN Highest(s, Shown(s)) ELSE Highest(s, Listed(s))

\* Mutant: the relative volumes are computed before the new master is.
VolAdjustBefore(s) ==
  /\ master' = NewMaster(s)
  /\ speaker' = [d \in Speakers |->
       IF s[d].listed /\ master >= 0 THEN [s[d] EXCEPT !.relvol = VolToRel(s[d].volume, master)] ELSE s[d]]

\* vol_adjust, of the devices as the caller has changed them.
VolAdjust(s) ==
  /\ master' = NewMaster(s)
  /\ speaker' = [d \in Speakers |->
       IF s[d].listed THEN [s[d] EXCEPT !.relvol = VolToRel(s[d].volume, NewMaster(s))] ELSE s[d]]

-----------------------------------------------------------------------------
\* outputs_device_add of a device that is not in the list; the database may know it.
SpeakerAdd(d) ==
  /\ ~speaker[d].listed
  /\ \/ \E v \in Levels, selected \in BOOLEAN :
          VolAdjust([speaker EXCEPT ![d] = [Unlisted EXCEPT !.listed = TRUE, !.selected = selected, !.volume = v]])
     \/ VolAdjust([speaker EXCEPT ![d] =
          [Unlisted EXCEPT !.listed = TRUE, !.volume = IF master >= 0 THEN master ELSE 50]])
  /\ UNCHANGED failedOnce

\* outputs_device_remove
SpeakerRemove(d) ==
  /\ speaker[d].listed /\ VolAdjust([speaker EXCEPT ![d] = Unlisted])
  /\ UNCHANGED failedOnce

\* outputs_device_select; the player gives -1 or the most the device may have.
SpeakerSelect(d) ==
  /\ speaker[d].listed
  /\ \E max \in {-1} \cup Levels :
       VolAdjust([speaker EXCEPT ![d].selected = TRUE,
                                 ![d].volume = IF max >= 0 /\ @ > max THEN max ELSE @])
  /\ UNCHANGED failedOnce

\* outputs_device_deselect
SpeakerDeselect(d) ==
  /\ speaker[d].listed /\ VolAdjust([speaker EXCEPT ![d].selected = FALSE])
  /\ UNCHANGED failedOnce

\* outputs_device_volume_register: an absolute or a relative volume.
VolumeRegister(d) ==
  /\ speaker[d].listed
  /\ \E v \in Levels \cup {RelToVol(r, master) : r \in Levels} :
       VolAdjust([speaker EXCEPT ![d].volume = v])
  /\ UNCHANGED failedOnce

\* outputs_volume_set
VolumeSet(v) ==
  /\ master # v /\ master' = v
  /\ speaker' = [d \in Speakers |->
       IF speaker[d].selected THEN [speaker[d] EXCEPT !.volume = RelToVol(speaker[d].relvol, v)] ELSE speaker[d]]
  /\ UNCHANGED failedOnce

\* outputs_cb and device_state_update set the state, and do not adjust the volumes.
SpeakerState(d) ==
  /\ speaker[d].listed
  /\ speaker' = [speaker EXCEPT ![d].ok = ~@]
  /\ failedOnce' = failedOnce \cup {d} /\ UNCHANGED master

\* Bound: a behaviour in which a volume has left 0..MaxVolume is not followed further.
VolumesBound == \A d \in Speakers : speaker[d].volume \in 0..MaxVolume

VolumeNext ==
  /\ VolumesBound
  /\ \/ \E d \in Speakers : \/ SpeakerAdd(d) \/ SpeakerRemove(d) \/ SpeakerSelect(d)
                            \/ SpeakerDeselect(d) \/ VolumeRegister(d) \/ SpeakerState(d)
     \/ \E v \in Levels : VolumeSet(v)

VolumeSpec == VolumeInit /\ [][VolumeNext]_volumeVars

-----------------------------------------------------------------------------
(* Properties *)

(* Every selected device plays at its share of the master volume, also at more than 100,   *)
(* however often volumes were recomputed from each other: what the two cuts to int lose is *)
(* one at most while the master is 0..100, and one for every hundred of it above that. A   *)
(* device whose relative volume was made of a master of 0 has no share to play at. As long *)
(* as no device has failed, volumes are 0..100 and the loudest plays at the master volume  *)
(* (outputs.c:541-579, 1185-1203).                                                         *)
VolumesFollowMaster ==
  LET selected == {d \in Speakers : speaker[d].selected}
  IN /\ failedOnce = {} =>
          /\ \A d \in Speakers : speaker[d].volume \in 0..100
          /\ selected # {} => Highest(speaker, selected) = master
     /\ \A d \in selected : speaker[d].relvol # IntOfInfinity =>
          speaker[d].volume - RelToVol(speaker[d].relvol, master) \in 0..((master + 99) \div 100)

(* "Volume in [0 - 100]" (airplay.c:1799), of the volume that a device which has not failed *)
(* is to be set to with a change of the master: outside of it the device is muted.          *)
VolumeWithinScale ==
  [][(\E v \in Levels : VolumeSet(v)) =>
       \A d \in Speakers : speaker[d].selected /\ speaker[d].ok => speaker'[d].volume \in 0..100]_volumeVars
=============================================================================
