------------------------------ MODULE BurstFeed ------------------------------
(***************************************************************************)
(* BurstProcessor under any order of calls the event loop of main.rs and   *)
(* the web server can make of it, with a wall clock that moves by a member *)
(* of ClockSteps between two bursts.  Acquisition drives the same module   *)
(* with the calls a real device causes.                                    *)
(***************************************************************************)
EXTENDS BurstProcessor

CONSTANTS
  TriggerStamps,   (* trigger timestamps the device may report; they recur   *)
  ClockSteps,      (* how far the wall clock moves between two bursts        *)
  MaxClock,        (* bound: no burst is started at or after this time       *)
  MaxNumber        (* bound: the highest sequence_in_burst                   *)

ASSUME FeedAssumption ==
  /\ TriggerStamps \subseteq Nat /\ ClockSteps \subseteq Int
  /\ MaxClock \in Int /\ MaxNumber \in Nat

VARIABLES
  clock,           (* chrono::Utc::now(), in milliseconds                    *)
  newest           (* history: the id completed last, until it is deleted    *)

vars == <<procVars, clock, newest>>

Packets ==
       [valid : BOOLEAN, source : {"Continuous"}, tag : Tags]
  \cup [valid : BOOLEAN, source : {"Trigger"}, trigger_timestamp : TriggerStamps, tag : Tags]

Start ==
  /\ clock < MaxClock
  /\ \E ts \in TriggerStamps, step \in ClockSteps, lag \in {0, 1} :
       /\ StartTriggerBurst(ts, clock + step, clock + step + lag)
       /\ clock' = clock + step + lag
  /\ UNCHANGED newest

Packet ==
  /\ trigger_burst_sequence < MaxNumber
  /\ current_trigger_burst # None => Len(current_trigger_burst.data_packets) < MaxNumber
  /\ \E pkt \in Packets : ProcessPacket(pkt)
  /\ UNCHANGED <<clock, newest>>

Complete ==
  /\ CompleteTriggerBurst
  /\ newest' = current_trigger_burst.burst_id
  /\ UNCHANGED clock

SpuriousComplete == CompleteNothing /\ UNCHANGED <<clock, newest>>

Remove ==
  \E id \in DOMAIN completed_trigger_bursts :
    /\ RemoveTriggerBurst(id)
    /\ newest' = IF newest = id THEN None ELSE newest
    /\ UNCHANGED clock

Reset == ResetTriggerState /\ UNCHANGED <<clock, newest>>

Init == ProcInit /\ clock = 0 /\ newest = None

Next ==
  \/ Start
  \/ Packet
  \/ Complete
  \/ SpuriousComplete
  \/ Remove
  \/ Reset

Spec == Init /\ [][Next]_vars

-----------------------------------------------------------------------------
TypeOK ==
  /\ ProcTypeOK
  /\ clock \in Int
  /\ newest \in BurstIds \cup {None}

(* The burst completed last is there for the user until he deletes it: the    *)
(* eviction never takes the newcomer (data_processing.rs:298-309).  True     *)
(* because bursts complete in the order they were created in, as long as the *)
(* wall clock moves forward.                                                 *)
NewestCached == newest # None => newest \in DOMAIN completed_trigger_bursts

(* Eviction takes a burst as old as any: whatever a completion pushes out of  *)
(* the cache was created no later than everything that stays.                *)
EvictsOldest ==
  [][Complete =>
       \A gone \in DOMAIN completed_trigger_bursts \ DOMAIN completed_trigger_bursts',
          kept \in DOMAIN completed_trigger_bursts' :
         completed_trigger_bursts[gone].created_at <= completed_trigger_bursts'[kept].created_at]_vars

(* A completed burst is what was completed: nothing replaces or edits it      *)
(* while it is cached, although device timestamps recur (data_processing.rs: *)
(* 260-262, the id, and 293-296, the insertion).                             *)
CompletedUnchanged ==
  [][\A id \in DOMAIN completed_trigger_bursts \cap DOMAIN completed_trigger_bursts' :
       completed_trigger_bursts'[id] = completed_trigger_bursts[id]]_vars

=============================================================================
