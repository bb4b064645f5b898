--------------------------- MODULE BurstProcessor ---------------------------
(***************************************************************************)
(* The trigger-burst side of the gateway's data processor,                 *)
(* data-gateway/src/data_processing.rs: the burst being collected, the     *)
(* numbering of its packets, and the bounded cache of completed bursts.    *)
(* Every operation runs under the mutex of DataProcessor, so each is one   *)
(* action.  Sample values, channel statistics, quality and packet_sequence *)
(* (a statistic) are left out; a packet is kept as what identifies it.     *)
(***************************************************************************)
EXTENDS Integers, Sequences, FiniteSets, Functions

CONSTANTS
  MaxCachedBursts,   (* max_cached_bursts, 10 in the code                    *)
  Tags,              (* what the samples of a packet can be                  *)
  None               (* Option::None                                         *)

ASSUME MaxCachedAssumption == MaxCachedBursts \in Nat \ {0}
ASSUME NoneAssumption      == None \notin Nat

VARIABLES
  current_trigger_timestamp,   (* the trigger the numbering belongs to       *)
  trigger_burst_sequence,      (* packets numbered for it so far             *)
  current_trigger_burst,       (* the open burst, or None                    *)
  completed_trigger_bursts     (* burst_id -> completed burst                *)

procVars == <<current_trigger_timestamp, trigger_burst_sequence,
              current_trigger_burst, completed_trigger_bursts>>

(* A burst id is made of the trigger timestamp and the wall clock.            *)
BurstIds == Nat \X Int

StoredPacket == [trigger_timestamp : Nat, sequence_in_burst : Nat, tag : Tags]

Burst == [burst_id : BurstIds, trigger_timestamp : Nat, created_at : Int,
          data_packets : Seq(StoredPacket), is_complete : BOOLEAN]

-----------------------------------------------------------------------------
(* process_packet.  A packet with no enabled channel, or of the wrong length, *)
(* is refused before anything but packet_sequence has changed.               *)

ProcessRefused(pkt) ==
  /\ ~pkt.valid
  /\ UNCHANGED procVars

ProcessContinuous(pkt) ==
  /\ pkt.valid /\ pkt.source = "Continuous"
  /\ current_trigger_timestamp' = None
  /\ trigger_burst_sequence' = 0
  /\ UNCHANGED <<current_trigger_burst, completed_trigger_bursts>>

(* A trigger packet is numbered, and added to the open burst if there is one, *)
(* whichever trigger that burst was opened for.                              *)
ProcessTrigger(pkt) ==
  LET seq == IF current_trigger_timestamp = pkt.trigger_timestamp
               THEN trigger_burst_sequence + 1 ELSE 1
      stored == [trigger_timestamp |-> pkt.trigger_timestamp,
                 sequence_in_burst |-> seq, tag |-> pkt.tag]
  IN
  /\ pkt.valid /\ pkt.source = "Trigger"
  /\ current_trigger_timestamp' = pkt.trigger_timestamp
  /\ trigger_burst_sequence' = seq
  /\ current_trigger_burst' =
       IF current_trigger_burst = None THEN None
       ELSE [current_trigger_burst EXCEPT !.data_packets = Append(@, stored)]
  /\ UNCHANGED completed_trigger_bursts

ProcessPacket(pkt) ==
  \/ ProcessRefused(pkt)
  \/ ProcessContinuous(pkt)
  \/ ProcessTrigger(pkt)

-----------------------------------------------------------------------------
(* start_trigger_burst, with the two readings of the wall clock it takes: one *)
(* for the id and one for created_at.  A burst still open is dropped.         *)
(* Mutants: named after the trigger alone; an open burst is kept.             *)
StartTriggerBurstByStamp(ts, idTime, createdAt) ==
  /\ current_trigger_burst' =
       [burst_id |-> <<ts, 0>>, trigger_timestamp |-> ts, created_at |-> createdAt,
        data_packets |-> <<>>, is_complete |-> FALSE]
  /\ UNCHANGED <<current_trigger_timestamp, trigger_burst_sequence, completed_trigger_bursts>>

StartTriggerBurstOnce(ts, idTime, createdAt) ==
  /\ current_trigger_burst' =
       IF current_trigger_burst # None THEN current_trigger_burst ELSE
         [burst_id |-> <<ts, idTime>>, trigger_timestamp |-> ts, created_at |-> createdAt,
          data_packets |-> <<>>, is_complete |-> FALSE]
  /\ UNCHANGED <<current_trigger_timestamp, trigger_burst_sequence, completed_trigger_bursts>>

StartTriggerBurst(ts, idTime, createdAt) ==
  /\ current_trigger_burst' =
       [burst_id |-> <<ts, idTime>>, trigger_timestamp |-> ts, created_at |-> createdAt,
        data_packets |-> <<>>, is_complete |-> FALSE]
  /\ UNCHANGED <<current_trigger_timestamp, trigger_burst_sequence, completed_trigger_bursts>>

(* complete_trigger_burst: the open burst moves to the cache, and when that   *)
(* makes it too large one burst with the smallest created_at leaves; equal   *)
(* ones are told apart by nothing but the iteration order of the hash map.   *)

(* Mutant: sorted the other way round.                                       *)
OldestReversed(cache) ==
  {id \in DOMAIN cache : \A other \in DOMAIN cache : cache[id].created_at >= cache[other].created_at}

Oldest(cache) ==
  {id \in DOMAIN cache : \A other \in DOMAIN cache : cache[id].created_at <= cache[other].created_at}

Insert(cache, b) == [id \in DOMAIN cache \cup {b.burst_id} |-> IF id = b.burst_id THEN b ELSE cache[id]]

(* Mutant: the entry is emptied and stays.                                   *)
WithoutValue(cache, id) == [cache EXCEPT ![id] = None]

Without(cache, id) == Restrict(cache, DOMAIN cache \ {id})

(* Mutants: one too many allowed; any burst evicted.                         *)
TrimmedLate(cache) ==
  IF Cardinality(DOMAIN cache) > MaxCachedBursts + 1
    THEN {Without(cache, id) : id \in Oldest(cache)} ELSE {cache}

TrimmedAnywhere(cache) ==
  IF Cardinality(DOMAIN cache) > MaxCachedBursts
    THEN {Without(cache, id) : id \in DOMAIN cache} ELSE {cache}

Trimmed(cache) ==
  IF Cardinality(DOMAIN cache) > MaxCachedBursts
    THEN {Without(cache, id) : id \in Oldest(cache)}
    ELSE {cache}

CompleteTriggerBurst ==
  /\ current_trigger_burst # None
  /\ current_trigger_burst' = None
  /\ LET b == [current_trigger_burst EXCEPT !.is_complete = TRUE]
     IN  completed_trigger_bursts' \in Trimmed(Insert(completed_trigger_bursts, b))
  /\ UNCHANGED <<current_trigger_timestamp, trigger_burst_sequence>>

(* A completion signal without an open burst returns None.                   *)
CompleteNothing ==
  /\ current_trigger_burst = None
  /\ UNCHANGED procVars

(* remove_trigger_burst, from the DELETE handler of the web server.          *)
RemoveTriggerBurst(id) ==
  /\ id \in DOMAIN completed_trigger_bursts
  /\ completed_trigger_bursts' = Without(completed_trigger_bursts, id)
  /\ UNCHANGED <<current_trigger_timestamp, trigger_burst_sequence, current_trigger_burst>>

(* reset_trigger_state, called when the device connects.  Mutant: the open    *)
(* burst survives it.                                                        *)
ResetTriggerStateKeepsBurst ==
  /\ current_trigger_timestamp' = None /\ trigger_burst_sequence' = 0
  /\ UNCHANGED <<current_trigger_burst, completed_trigger_bursts>>

ResetTriggerState ==
  /\ current_trigger_timestamp' = None
  /\ trigger_burst_sequence' = 0
  /\ current_trigger_burst' = None
  /\ UNCHANGED completed_trigger_bursts

ProcInit ==
  /\ current_trigger_timestamp = None
  /\ trigger_burst_sequence = 0
  /\ current_trigger_burst = None
  /\ completed_trigger_bursts = [id \in {} |-> None]

-----------------------------------------------------------------------------
ProcTypeOK ==
  /\ current_trigger_timestamp \in Nat \cup {None}
  /\ trigger_burst_sequence \in Nat
  /\ current_trigger_burst \in Burst \cup {None}
  /\ IsFiniteSet(DOMAIN completed_trigger_bursts)
  /\ \A id \in DOMAIN completed_trigger_bursts : completed_trigger_bursts[id] \in Burst

(* "Keeps the 10 most recent bursts": at most so many are cached, every one   *)
(* of them complete and filed under its own id (data_processing.rs:287-309). *)
CacheSound ==
  /\ Cardinality(DOMAIN completed_trigger_bursts) <= MaxCachedBursts
  /\ \A id \in DOMAIN completed_trigger_bursts :
       completed_trigger_bursts[id].burst_id = id /\ completed_trigger_bursts[id].is_complete

=============================================================================
