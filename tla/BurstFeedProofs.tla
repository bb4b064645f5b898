--------------------------- MODULE BurstFeedProofs ---------------------------
(***************************************************************************)
(* Proofs about the burst cache of the gateway, for every cache size, every *)
(* set of trigger timestamps and every set of clock steps.                 *)
(***************************************************************************)
EXTENDS BurstFeed, FiniteSetTheorems, TLAPS

-----------------------------------------------------------------------------
(* The operators on the cache.                                               *)

(* Inserting a burst adds its id and changes nothing else.                   *)
LEMMA InsertFacts ==
  ASSUME NEW cache, NEW b, IsFiniteSet(DOMAIN cache)
  PROVE  /\ DOMAIN Insert(cache, b) = DOMAIN cache \cup {b.burst_id}
         /\ Insert(cache, b)[b.burst_id] = b
         /\ \A id \in DOMAIN cache : id # b.burst_id => Insert(cache, b)[id] = cache[id]
         /\ IsFiniteSet(DOMAIN Insert(cache, b))
         /\ Cardinality(DOMAIN Insert(cache, b)) <= Cardinality(DOMAIN cache) + 1
<1>1. DOMAIN Insert(cache, b) = DOMAIN cache \cup {b.burst_id} BY DEF Insert
<1>2. Cardinality(DOMAIN cache) \in Nat BY FS_CardinalityType
<1>3. /\ IsFiniteSet(DOMAIN cache \cup {b.burst_id})
      /\ Cardinality(DOMAIN cache \cup {b.burst_id}) <= Cardinality(DOMAIN cache) + 1
  BY <1>2, FS_AddElement
<1>4. QED BY <1>1, <1>3 DEF Insert

(* Removing an id leaves the other entries as they are.                      *)
LEMMA WithoutFacts ==
  ASSUME NEW cache, NEW id \in DOMAIN cache, IsFiniteSet(DOMAIN cache)
  PROVE  /\ DOMAIN Without(cache, id) = DOMAIN cache \ {id}
         /\ \A other \in DOMAIN cache \ {id} : Without(cache, id)[other] = cache[other]
         /\ IsFiniteSet(DOMAIN Without(cache, id))
         /\ Cardinality(DOMAIN Without(cache, id)) = Cardinality(DOMAIN cache) - 1
<1>1. /\ DOMAIN Without(cache, id) = DOMAIN cache \ {id}
      /\ \A other \in DOMAIN cache \ {id} : Without(cache, id)[other] = cache[other]
  BY DEF Without, Restrict
<1>2. QED BY <1>1, FS_RemoveElement

(* What is left after trimming was there before and unchanged; what is gone,   *)
(* if anything, is one burst as old as any; and the cache is small enough    *)
(* again if it was one too large at most.                                    *)
LEMMA TrimmedFacts ==
  ASSUME NEW cache, IsFiniteSet(DOMAIN cache), NEW t \in Trimmed(cache)
  PROVE  /\ DOMAIN t \subseteq DOMAIN cache
         /\ \A id \in DOMAIN t : t[id] = cache[id]
         /\ IsFiniteSet(DOMAIN t)
         /\ \A gone \in DOMAIN cache \ DOMAIN t : gone \in Oldest(cache)
         /\ Cardinality(DOMAIN cache) <= MaxCachedBursts + 1
              => Cardinality(DOMAIN t) <= MaxCachedBursts
         /\ Cardinality(DOMAIN cache) <= MaxCachedBursts => t = cache
<1>0. Cardinality(DOMAIN cache) \in Nat /\ MaxCachedBursts \in Nat
  BY FS_CardinalityType, MaxCachedAssumption
<1>1. CASE Cardinality(DOMAIN cache) > MaxCachedBursts
  <2>1. PICK id \in Oldest(cache) : t = Without(cache, id) BY <1>1 DEF Trimmed
  <2>2. id \in DOMAIN cache BY DEF Oldest
  <2>3. /\ DOMAIN t = DOMAIN cache \ {id}
        /\ \A other \in DOMAIN cache \ {id} : t[other] = cache[other]
        /\ IsFiniteSet(DOMAIN t)
        /\ Cardinality(DOMAIN t) = Cardinality(DOMAIN cache) - 1
    BY <2>1, <2>2, WithoutFacts
  <2>4. Cardinality(DOMAIN cache) <= MaxCachedBursts + 1 => Cardinality(DOMAIN t) <= MaxCachedBursts
    BY <1>0, <2>3
  <2>5. QED BY <1>0, <1>1, <2>1, <2>3, <2>4
<1>2. CASE ~(Cardinality(DOMAIN cache) > MaxCachedBursts)
  <2>1. t = cache BY <1>2 DEF Trimmed
  <2>2. QED BY <1>0, <1>2, <2>1
<1>3. QED BY <1>1, <1>2

-----------------------------------------------------------------------------
(* Type correctness.                                                         *)

Completed == [current_trigger_burst EXCEPT !.is_complete = TRUE]

(* The burst that is completed keeps its id and its creation time.           *)
LEMMA CompletedType ==
  ASSUME TypeOK, current_trigger_burst # None
  PROVE  /\ Completed \in Burst /\ Completed.is_complete
         /\ Completed.burst_id = current_trigger_burst.burst_id
         /\ Completed.created_at = current_trigger_burst.created_at
         /\ current_trigger_burst \in Burst
BY DEF TypeOK, ProcTypeOK, Burst, Completed

(* The cache with the burst just completed, before it is trimmed, and what a   *)
(* completion leaves of it.                                                  *)
Before == Insert(completed_trigger_bursts, Completed)

(* The cache before it is trimmed: the old entries and the burst just done.  *)
LEMMA BeforeFacts ==
  ASSUME TypeOK
  PROVE  /\ DOMAIN Before = DOMAIN completed_trigger_bursts \cup {Completed.burst_id}
         /\ Before[Completed.burst_id] = Completed
         /\ \A id \in DOMAIN completed_trigger_bursts :
              id # Completed.burst_id => Before[id] = completed_trigger_bursts[id]
         /\ IsFiniteSet(DOMAIN Before)
         /\ Cardinality(DOMAIN Before) <= Cardinality(DOMAIN completed_trigger_bursts) + 1
<1>1. IsFiniteSet(DOMAIN completed_trigger_bursts) BY DEF TypeOK, ProcTypeOK
<1>2. QED BY <1>1, InsertFacts DEF Before

(* A completion leaves a part of that cache.                                 *)
LEMMA CompleteFacts ==
  ASSUME TypeOK, CompleteTriggerBurst
  PROVE  /\ completed_trigger_bursts' \in Trimmed(Before)
         /\ DOMAIN completed_trigger_bursts' \subseteq DOMAIN Before
         /\ \A id \in DOMAIN completed_trigger_bursts' : completed_trigger_bursts'[id] = Before[id]
         /\ IsFiniteSet(DOMAIN completed_trigger_bursts')
         /\ current_trigger_burst # None
<1>1. completed_trigger_bursts' \in Trimmed(Before) /\ current_trigger_burst # None
  BY DEF CompleteTriggerBurst, Completed, Before
<1>2. QED BY <1>1, BeforeFacts, TrimmedFacts

(* What the DELETE handler does to the cache.                                 *)
LEMMA RemoveFacts ==
  ASSUME TypeOK, Remove
  PROVE  \E id \in DOMAIN completed_trigger_bursts :
           /\ DOMAIN completed_trigger_bursts' = DOMAIN completed_trigger_bursts \ {id}
           /\ \A other \in DOMAIN completed_trigger_bursts' :
                completed_trigger_bursts'[other] = completed_trigger_bursts[other]
           /\ IsFiniteSet(DOMAIN completed_trigger_bursts')
           /\ Cardinality(DOMAIN completed_trigger_bursts')
                = Cardinality(DOMAIN completed_trigger_bursts) - 1
           /\ newest' = IF newest = id THEN None ELSE newest
           /\ UNCHANGED <<current_trigger_timestamp, trigger_burst_sequence,
                          current_trigger_burst, clock>>
<1>1. PICK id \in DOMAIN completed_trigger_bursts :
        RemoveTriggerBurst(id) /\ newest' = (IF newest = id THEN None ELSE newest) /\ clock' = clock
  BY DEF Remove
<1>2. completed_trigger_bursts' = Without(completed_trigger_bursts, id)
  BY <1>1 DEF RemoveTriggerBurst
<1>3. /\ DOMAIN completed_trigger_bursts' = DOMAIN completed_trigger_bursts \ {id}
      /\ \A other \in DOMAIN completed_trigger_bursts' :
           completed_trigger_bursts'[other] = completed_trigger_bursts[other]
      /\ IsFiniteSet(DOMAIN completed_trigger_bursts')
      /\ Cardinality(DOMAIN completed_trigger_bursts')
           = Cardinality(DOMAIN completed_trigger_bursts) - 1
  BY <1>2, WithoutFacts DEF TypeOK, ProcTypeOK
<1>4. QED BY <1>1, <1>3 DEF RemoveTriggerBurst

(* A packet keeps the processor well typed, whatever its label.              *)
LEMMA PacketType ==
  ASSUME TypeOK, NEW pkt \in Packets, ProcessPacket(pkt)
  PROVE  ProcTypeOK'
<1> USE DEF TypeOK, ProcTypeOK
<1>1. CASE ProcessRefused(pkt)    BY <1>1 DEF ProcessRefused, procVars
<1>2. CASE ProcessContinuous(pkt) BY <1>2 DEF ProcessContinuous
<1>3. CASE ProcessTrigger(pkt)
  <2> DEFINE seq == IF current_trigger_timestamp = pkt.trigger_timestamp
                      THEN trigger_burst_sequence + 1 ELSE 1
             stored == [trigger_timestamp |-> pkt.trigger_timestamp,
                        sequence_in_burst |-> seq, tag |-> pkt.tag]
  <2>1. pkt.trigger_timestamp \in Nat /\ pkt.tag \in Tags
    BY <1>3, FeedAssumption DEF ProcessTrigger, Packets
  <2>2. seq \in Nat OBVIOUS
  <2>3. stored \in StoredPacket BY <2>1, <2>2 DEF StoredPacket
  <2>4. current_trigger_burst' \in Burst \cup {None}
    <3>1. CASE current_trigger_burst = None BY <1>3, <3>1 DEF ProcessTrigger
    <3>2. CASE current_trigger_burst # None
      <4>1. current_trigger_burst' =
              [current_trigger_burst EXCEPT !.data_packets = Append(@, stored)]
        BY <1>3, <3>2 DEF ProcessTrigger
      <4>2. current_trigger_burst \in Burst BY <3>2
      <4>3. Append(current_trigger_burst.data_packets, stored) \in Seq(StoredPacket)
        BY <2>3, <4>2 DEF Burst
      <4> HIDE DEF stored
      <4>4. QED BY <4>1, <4>2, <4>3 DEF Burst
    <3>3. QED BY <3>1, <3>2
  <2>5. current_trigger_timestamp' \in Nat /\ trigger_burst_sequence' \in Nat
    BY <1>3, <2>1, <2>2 DEF ProcessTrigger
  <2>6. QED BY <1>3, <2>4, <2>5 DEF ProcessTrigger
<1>4. QED BY <1>1, <1>2, <1>3 DEF ProcessPacket

(* So does a completion.                                                     *)
LEMMA CompleteType ==
  ASSUME TypeOK, CompleteTriggerBurst
  PROVE  ProcTypeOK'
<1>1. current_trigger_burst' = None /\ UNCHANGED <<current_trigger_timestamp, trigger_burst_sequence>>
  BY DEF CompleteTriggerBurst
<1>2. Completed \in Burst BY CompleteFacts, CompletedType
<1>3. \A id \in DOMAIN Before : Before[id] \in Burst
  BY <1>2, BeforeFacts DEF TypeOK, ProcTypeOK
<1>4. QED BY <1>1, <1>3, CompleteFacts DEF TypeOK, ProcTypeOK

(* The processor starts well typed.                                          *)
LEMMA TypeInit == Init => TypeOK
<1> SUFFICES ASSUME Init PROVE TypeOK
  OBVIOUS
<1>1. DOMAIN completed_trigger_bursts = {} BY DEF Init, ProcInit
<1>2. IsFiniteSet(DOMAIN completed_trigger_bursts) BY <1>1, FS_EmptySet
<1>3. QED BY <1>1, <1>2 DEF Init, ProcInit, TypeOK, ProcTypeOK

(* Every call keeps the processor well typed.                                *)
LEMMA TypeStep == TypeOK /\ [Next]_vars => TypeOK'
<1> SUFFICES ASSUME TypeOK, [Next]_vars PROVE TypeOK'
  OBVIOUS
<1>1. CASE Start
  <2>1. PICK ts \in TriggerStamps, step \in ClockSteps, lag \in {0, 1} :
          /\ StartTriggerBurst(ts, clock + step, clock + step + lag)
          /\ clock' = clock + step + lag
    BY <1>1 DEF Start
  <2>2. ts \in Nat /\ clock + step \in Int /\ clock + step + lag \in Int
    BY FeedAssumption DEF TypeOK
  <2>3. current_trigger_burst' \in Burst
    BY <2>1, <2>2 DEF StartTriggerBurst, Burst, BurstIds
  <2>4. QED BY <1>1, <2>1, <2>2, <2>3 DEF Start, StartTriggerBurst, TypeOK, ProcTypeOK
<1>2. CASE Packet
  <2>1. ProcTypeOK' BY <1>2, PacketType DEF Packet
  <2>2. QED BY <1>2, <2>1 DEF Packet, TypeOK
<1>3. CASE Complete
  <2>1. ProcTypeOK' BY <1>3, CompleteType DEF Complete
  <2>2. current_trigger_burst.burst_id \in BurstIds
    BY <1>3, CompletedType DEF Complete, CompleteTriggerBurst, Burst
  <2>3. QED BY <1>3, <2>1, <2>2 DEF Complete, TypeOK
<1>4. CASE SpuriousComplete
  BY <1>4 DEF SpuriousComplete, CompleteNothing, procVars, TypeOK, ProcTypeOK
<1>5. CASE Remove BY <1>5, RemoveFacts DEF TypeOK, ProcTypeOK
<1>6. CASE Reset
  BY <1>6 DEF Reset, ResetTriggerState, TypeOK, ProcTypeOK
<1>7. CASE UNCHANGED vars
  BY <1>7 DEF vars, procVars, TypeOK, ProcTypeOK
<1>8. QED BY <1>1, <1>2, <1>3, <1>4, <1>5, <1>6, <1>7 DEF Next

(* Every state of the processor is well typed.                                *)
THEOREM TypeCorrect == Spec => []TypeOK
BY TypeInit, TypeStep, PTL DEF Spec

-----------------------------------------------------------------------------
(* The cache is bounded, complete and filed under the right names.            *)

(* The cache is empty at the start.                                          *)
LEMMA CacheInit == Init => CacheSound
<1> SUFFICES ASSUME Init PROVE CacheSound
  OBVIOUS
<1>1. DOMAIN completed_trigger_bursts = {} BY DEF Init, ProcInit
<1>2. Cardinality(DOMAIN completed_trigger_bursts) <= MaxCachedBursts
  BY <1>1, FS_EmptySet, MaxCachedAssumption
<1>3. QED BY <1>1, <1>2 DEF CacheSound

(* Only a completion makes it larger, and trims it again.                    *)
LEMMA CacheStep == TypeOK /\ CacheSound /\ [Next]_vars => CacheSound'
<1> SUFFICES ASSUME TypeOK, CacheSound, [Next]_vars PROVE CacheSound'
  OBVIOUS
<1>1. CASE Complete
  <2>1. CompleteTriggerBurst BY <1>1 DEF Complete
  <2>2. Completed.is_complete BY <2>1, CompleteFacts, CompletedType
  <2>3. \A id \in DOMAIN Before : Before[id].burst_id = id /\ Before[id].is_complete
    BY <2>2, BeforeFacts DEF CacheSound
  <2>4. Cardinality(DOMAIN Before) <= MaxCachedBursts + 1
    <3>1. /\ Cardinality(DOMAIN Before) \in Nat /\ MaxCachedBursts \in Nat
          /\ Cardinality(DOMAIN completed_trigger_bursts) \in Nat
      BY BeforeFacts, FS_CardinalityType, MaxCachedAssumption DEF TypeOK, ProcTypeOK
    <3>2. QED BY <3>1, BeforeFacts DEF CacheSound
  <2>5. Cardinality(DOMAIN completed_trigger_bursts') <= MaxCachedBursts
    BY <2>1, <2>4, BeforeFacts, CompleteFacts, TrimmedFacts
  <2>6. QED BY <2>1, <2>3, <2>5, CompleteFacts DEF CacheSound
<1>2. CASE Remove
  <2>1. Cardinality(DOMAIN completed_trigger_bursts) \in Nat /\ MaxCachedBursts \in Nat
    BY FS_CardinalityType, MaxCachedAssumption DEF TypeOK, ProcTypeOK
  <2>2. Cardinality(DOMAIN completed_trigger_bursts') <= MaxCachedBursts
    <3>1. Cardinality(DOMAIN completed_trigger_bursts')
            = Cardinality(DOMAIN completed_trigger_bursts) - 1
      BY <1>2, RemoveFacts
    <3>2. Cardinality(DOMAIN completed_trigger_bursts) <= MaxCachedBursts BY DEF CacheSound
    <3>3. QED BY <2>1, <3>1, <3>2
  <2>3. \A id \in DOMAIN completed_trigger_bursts' :
          /\ completed_trigger_bursts'[id] = completed_trigger_bursts[id]
          /\ id \in DOMAIN completed_trigger_bursts
    BY <1>2, RemoveFacts
  <2>4. QED BY <2>2, <2>3 DEF CacheSound
<1>3. ASSUME UNCHANGED completed_trigger_bursts PROVE CacheSound'
  BY <1>3 DEF CacheSound
<1>4. CASE Start            BY <1>3, <1>4 DEF Start, StartTriggerBurst
<1>5. CASE Packet
  BY <1>3, <1>5 DEF Packet, ProcessPacket, ProcessRefused, ProcessContinuous, ProcessTrigger, procVars
<1>6. CASE SpuriousComplete BY <1>3, <1>6 DEF SpuriousComplete, CompleteNothing, procVars
<1>7. CASE Reset            BY <1>3, <1>7 DEF Reset, ResetTriggerState
<1>8. CASE UNCHANGED vars   BY <1>3, <1>8 DEF vars, procVars
<1>9. QED BY <1>1, <1>2, <1>4, <1>5, <1>6, <1>7, <1>8 DEF Next

(* At most MaxCachedBursts bursts are cached, each complete and under its id   *)
(* (data_processing.rs:287-309).                                             *)
THEOREM CacheIsSound == Spec => []CacheSound
BY TypeInit, TypeStep, CacheInit, CacheStep, PTL DEF Spec

(* Eviction takes a burst as old as any, also when the wall clock has moved    *)
(* backwards (data_processing.rs:299-308).                                   *)
THEOREM EvictionTakesOldest == Spec => EvictsOldest
<1> DEFINE Evicts ==
      Complete =>
        \A gone \in DOMAIN completed_trigger_bursts \ DOMAIN completed_trigger_bursts',
           kept \in DOMAIN completed_trigger_bursts' :
          completed_trigger_bursts[gone].created_at <= completed_trigger_bursts'[kept].created_at
<1>1. TypeOK /\ CacheSound => Evicts
  <2> SUFFICES ASSUME TypeOK, CacheSound, Complete,
                      NEW gone \in DOMAIN completed_trigger_bursts \ DOMAIN completed_trigger_bursts',
                      NEW kept \in DOMAIN completed_trigger_bursts'
               PROVE  completed_trigger_bursts[gone].created_at
                        <= completed_trigger_bursts'[kept].created_at
    OBVIOUS
  <2>1. CompleteTriggerBurst BY DEF Complete
  <2>2. kept \in DOMAIN Before /\ completed_trigger_bursts'[kept] = Before[kept]
    BY <2>1, CompleteFacts
  <2>3. gone \in DOMAIN Before /\ gone \in Oldest(Before)
    BY <2>1, BeforeFacts, CompleteFacts, TrimmedFacts
  (* An id that was in the cache already has not made it grow, so that        *)
  (* nothing has been evicted.                                               *)
  <2>4. Completed.burst_id \notin DOMAIN completed_trigger_bursts
    <3> SUFFICES ASSUME Completed.burst_id \in DOMAIN completed_trigger_bursts PROVE FALSE
      OBVIOUS
    <3>1. DOMAIN Before = DOMAIN completed_trigger_bursts BY BeforeFacts
    <3>2. completed_trigger_bursts' = Before
      BY <2>1, <3>1, BeforeFacts, CompleteFacts, TrimmedFacts DEF CacheSound
    <3>3. QED BY <3>1, <3>2
  <2>5. Before[gone] = completed_trigger_bursts[gone] BY <2>4, BeforeFacts
  <2>6. QED BY <2>2, <2>3, <2>5 DEF Oldest
<1>2. TypeOK /\ CacheSound => [Evicts]_vars BY <1>1
<1>3. QED BY <1>2, TypeCorrect, CacheIsSound, PTL DEF EvictsOldest

-----------------------------------------------------------------------------
(* While the wall clock moves forward.                                        *)

(* Bursts are created, and named, in the order of the clock, and complete in   *)
(* that order: the open burst is younger than every cached one.              *)
ForwardInv ==
  /\ \A id \in DOMAIN completed_trigger_bursts :
       id[2] <= clock /\ completed_trigger_bursts[id].created_at <= clock
  /\ current_trigger_burst # None =>
       /\ current_trigger_burst.burst_id[2] <= clock /\ current_trigger_burst.created_at <= clock
       /\ \A id \in DOMAIN completed_trigger_bursts :
            /\ id[2] < current_trigger_burst.burst_id[2]
            /\ completed_trigger_bursts[id].created_at < current_trigger_burst.created_at

(* The parts of a burst that are compared are numbers.                       *)
LEMMA BurstNumbers ==
  ASSUME NEW b \in Burst
  PROVE  b.burst_id \in BurstIds /\ b.burst_id[2] \in Int /\ b.created_at \in Int
BY DEF Burst, BurstIds

(* No call disturbs the order of creation.                                   *)
LEMMA ForwardStep ==
  ASSUME ClockSteps \subseteq Nat \ {0}, TypeOK, CacheSound, ForwardInv, [Next]_vars
  PROVE  ForwardInv'
<1>t. /\ clock \in Int
      /\ \A id \in DOMAIN completed_trigger_bursts :
           /\ completed_trigger_bursts[id] \in Burst
           /\ id[2] \in Int /\ completed_trigger_bursts[id].created_at \in Int
  <2>1. clock \in Int /\ \A id \in DOMAIN completed_trigger_bursts : completed_trigger_bursts[id] \in Burst
    BY DEF TypeOK, ProcTypeOK
  <2>2. QED BY <2>1, BurstNumbers DEF CacheSound
<1>1. CASE Start
  <2>1. PICK ts \in TriggerStamps, step \in ClockSteps, lag \in {0, 1} :
          /\ StartTriggerBurst(ts, clock + step, clock + step + lag)
          /\ clock' = clock + step + lag
    BY <1>1 DEF Start
  <2>2. /\ current_trigger_burst'.burst_id[2] = clock + step
        /\ current_trigger_burst'.created_at = clock + step + lag
        /\ completed_trigger_bursts' = completed_trigger_bursts
    BY <2>1 DEF StartTriggerBurst
  <2>3. clock < clock + step /\ clock + step <= clock' /\ clock + step + lag = clock' /\ clock <= clock'
        /\ clock < clock + step + lag
    BY <1>t, <2>1
  <2>4. clock' \in Int /\ clock + step \in Int BY <1>t, <2>1
  <2>5. QED BY <1>t, <2>2, <2>3, <2>4 DEF ForwardInv
<1>2. CASE Packet
  <2>1. clock' = clock /\ completed_trigger_bursts' = completed_trigger_bursts
    BY <1>2 DEF Packet, ProcessPacket, ProcessRefused, ProcessContinuous, ProcessTrigger, procVars
  <2>2. current_trigger_burst' # None =>
          /\ current_trigger_burst # None
          /\ current_trigger_burst'.burst_id = current_trigger_burst.burst_id
          /\ current_trigger_burst'.created_at = current_trigger_burst.created_at
    <3>1. current_trigger_burst # None => current_trigger_burst \in Burst
      BY DEF TypeOK, ProcTypeOK
    <3>2. PICK pkt \in Packets : ProcessPacket(pkt) BY <1>2 DEF Packet
    <3>3. QED
      BY <3>1, <3>2
      DEF ProcessPacket, ProcessRefused, ProcessContinuous, ProcessTrigger, procVars, Burst
  <2>3. QED BY <2>1, <2>2 DEF ForwardInv
<1>3. CASE Complete
  <2>1. CompleteTriggerBurst /\ clock' = clock /\ current_trigger_burst' = None
    BY <1>3 DEF Complete, CompleteTriggerBurst
  <2>2. /\ Completed.burst_id = current_trigger_burst.burst_id
        /\ Completed.created_at = current_trigger_burst.created_at
        /\ current_trigger_burst # None
    BY <2>1, CompleteFacts, CompletedType
  <2>3. \A id \in DOMAIN Before : id[2] <= clock /\ Before[id].created_at <= clock
    BY <2>2, BeforeFacts DEF ForwardInv
  <2>4. QED BY <2>1, <2>3, CompleteFacts DEF ForwardInv
<1>4. CASE Remove           BY <1>4, RemoveFacts DEF ForwardInv
<1>5. CASE SpuriousComplete BY <1>5 DEF SpuriousComplete, CompleteNothing, procVars, ForwardInv
<1>6. CASE Reset            BY <1>6 DEF Reset, ResetTriggerState, ForwardInv
<1>7. CASE UNCHANGED vars   BY <1>7 DEF vars, procVars, ForwardInv
<1>8. QED BY <1>1, <1>2, <1>3, <1>4, <1>5, <1>6, <1>7 DEF Next

(* There are no bursts at the start.                                         *)
LEMMA ForwardInit == Init => ForwardInv
BY DEF Init, ProcInit, ForwardInv

(* With a clock that moves forward the order holds in every state.           *)
LEMMA ForwardInvariant ==
  ASSUME ClockSteps \subseteq Nat \ {0}
  PROVE  Spec => [](TypeOK /\ CacheSound /\ ForwardInv)
<1>1. TypeOK /\ CacheSound /\ ForwardInv /\ [Next]_vars => ForwardInv'
  BY ForwardStep
<1>2. QED BY <1>1, ForwardInit, TypeCorrect, CacheIsSound, PTL DEF Spec

(* Then the newcomer is never the one that is evicted ...                     *)
LEMMA NewcomerStays ==
  ASSUME TypeOK, CacheSound, ForwardInv, CompleteTriggerBurst
  PROVE  current_trigger_burst.burst_id \in DOMAIN completed_trigger_bursts'
<1> DEFINE new == Completed.burst_id
<1>1. /\ new = current_trigger_burst.burst_id
      /\ Completed.created_at = current_trigger_burst.created_at
      /\ current_trigger_burst # None /\ Completed \in Burst
  BY CompleteFacts, CompletedType
<1>2. SUFFICES ASSUME new \notin DOMAIN completed_trigger_bursts' PROVE FALSE
  BY <1>1
<1>3. new \in Oldest(Before) BY <1>2, BeforeFacts, CompleteFacts, TrimmedFacts
<1>4. PICK id \in DOMAIN completed_trigger_bursts : id # new
  <2>1. SUFFICES ASSUME \A id \in DOMAIN completed_trigger_bursts : id = new PROVE FALSE
    OBVIOUS
  <2>2. DOMAIN Before = {new} BY <2>1, BeforeFacts
  <2>3. Cardinality(DOMAIN Before) <= MaxCachedBursts
    <3>1. Cardinality({new}) = 1 BY FS_Singleton
    <3>2. 1 <= MaxCachedBursts BY MaxCachedAssumption
    <3>3. QED BY <2>2, <3>1, <3>2
  <2>4. completed_trigger_bursts' = Before
    BY <2>3, BeforeFacts, CompleteFacts, TrimmedFacts
  <2>5. QED BY <1>2, <2>2, <2>4
<1>5. Before[id] = completed_trigger_bursts[id] /\ id \in DOMAIN Before /\ Before[new] = Completed
  BY <1>4, BeforeFacts
<1>6. Completed.created_at <= completed_trigger_bursts[id].created_at
  BY <1>3, <1>5 DEF Oldest
<1>7. completed_trigger_bursts[id].created_at < Completed.created_at
  BY <1>1, <1>4 DEF ForwardInv
<1>8. Completed.created_at \in Int /\ completed_trigger_bursts[id].created_at \in Int
  BY <1>1, <1>4, BurstNumbers DEF TypeOK, ProcTypeOK
<1>9. QED BY <1>6, <1>7, <1>8

(* ... so that the burst completed last is in the cache until it is deleted    *)
(* (data_processing.rs:287-309).                                             *)
THEOREM NewestIsCached ==
  ASSUME ClockSteps \subseteq Nat \ {0}
  PROVE  Spec => []NewestCached
<1>1. Init => NewestCached BY DEF Init, NewestCached
<1>2. TypeOK /\ CacheSound /\ ForwardInv /\ NewestCached /\ [Next]_vars => NewestCached'
  <2> SUFFICES ASSUME TypeOK, CacheSound, ForwardInv, NewestCached, [Next]_vars
               PROVE  NewestCached'
    OBVIOUS
  <2>1. CASE Complete
    <3>1. newest' \in DOMAIN completed_trigger_bursts'
      BY <2>1, NewcomerStays DEF Complete
    <3>2. QED BY <3>1 DEF NewestCached
  <2>2. CASE Remove
    BY <2>2, RemoveFacts DEF NewestCached
  <2>3. ASSUME UNCHANGED <<newest, completed_trigger_bursts>> PROVE NewestCached'
    BY <2>3 DEF NewestCached
  <2>4. CASE Start            BY <2>3, <2>4 DEF Start, StartTriggerBurst
  <2>5. CASE Packet
    BY <2>3, <2>5 DEF Packet, ProcessPacket, ProcessRefused, ProcessContinuous, ProcessTrigger, procVars
  <2>6. CASE SpuriousComplete BY <2>3, <2>6 DEF SpuriousComplete, CompleteNothing, procVars
  <2>7. CASE Reset            BY <2>3, <2>7 DEF Reset, ResetTriggerState
  <2>8. CASE UNCHANGED vars   BY <2>3, <2>8 DEF vars, procVars
  <2>9. QED BY <2>1, <2>2, <2>4, <2>5, <2>6, <2>7, <2>8 DEF Next
<1>3. QED BY <1>1, <1>2, ForwardInvariant, PTL DEF Spec

(* A cached burst is never replaced or edited (data_processing.rs:260-262,     *)
(* 293-296).                                                                 *)
THEOREM CachedBurstsStayUnchanged ==
  ASSUME ClockSteps \subseteq Nat \ {0}
  PROVE  Spec => CompletedUnchanged
<1> DEFINE Same ==
      \A id \in DOMAIN completed_trigger_bursts \cap DOMAIN completed_trigger_bursts' :
        completed_trigger_bursts'[id] = completed_trigger_bursts[id]
<1>1. TypeOK /\ CacheSound /\ ForwardInv /\ [Next]_vars => Same
  <2> SUFFICES ASSUME TypeOK, CacheSound, ForwardInv, [Next]_vars PROVE Same
    OBVIOUS
  <2>1. CASE Complete
    <3>1. CompleteTriggerBurst BY <2>1 DEF Complete
    <3>2. \A id \in DOMAIN completed_trigger_bursts : id # Completed.burst_id
      <4> SUFFICES ASSUME Completed.burst_id \in DOMAIN completed_trigger_bursts PROVE FALSE
        OBVIOUS
      <4>1. /\ Completed.burst_id = current_trigger_burst.burst_id
            /\ current_trigger_burst # None /\ current_trigger_burst \in Burst
        BY <3>1, CompleteFacts, CompletedType
      <4>2. Completed.burst_id[2] \in Int BY <4>1, BurstNumbers
      <4>3. QED BY <4>1, <4>2 DEF ForwardInv
    <3>3. QED BY <3>1, <3>2, BeforeFacts, CompleteFacts
  <2>2. CASE Remove
    BY <2>2, RemoveFacts
  <2>3. CASE UNCHANGED completed_trigger_bursts BY <2>3
  <2>4. CASE Start            BY <2>3, <2>4 DEF Start, StartTriggerBurst
  <2>5. CASE Packet
    BY <2>3, <2>5 DEF Packet, ProcessPacket, ProcessRefused, ProcessContinuous, ProcessTrigger, procVars
  <2>6. CASE SpuriousComplete BY <2>3, <2>6 DEF SpuriousComplete, CompleteNothing, procVars
  <2>7. CASE Reset            BY <2>3, <2>7 DEF Reset, ResetTriggerState
  <2>8. CASE UNCHANGED vars   BY <2>3, <2>8 DEF vars, procVars
  <2>9. QED BY <2>1, <2>2, <2>4, <2>5, <2>6, <2>7, <2>8 DEF Next
<1>2. TypeOK /\ CacheSound /\ ForwardInv /\ [Next]_vars => [Same]_vars
  BY <1>1
<1>3. QED BY <1>2, ForwardInvariant, PTL DEF Spec, CompletedUnchanged

=============================================================================
