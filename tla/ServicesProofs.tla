---------------------------- MODULE ServicesProofs ----------------------------
(***************************************************************************)
(* Proofs about what the gateway offers its users: the messages to          *)
(* WebSocket clients (WebSocketHub), saving bursts (BurstSaves) and the      *)
(* control requests (WebControl), each for any number of clients, handlers,  *)
(* messages and requests.                                                  *)
(***************************************************************************)
EXTENDS WebSocketHub, BurstSaves, WebControl, FiniteSetTheorems, WellFoundedInduction, TLAPS

-----------------------------------------------------------------------------
(* WebSocketHub: what is put into a mailbox.                                 *)
Topics    == DefaultSubs \cup {"continuous_only", "trigger_only"}
Carriage == UNION {Messages(k, n) : k \in Channels, n \in Nat}
Letters  == Carriage \cup {Note("welcome"), Note("pong")}
                     \cup {Confirmation(s) : s \in SUBSET Topics}

(* A message of a channel says of which one it is and its number, and one who  *)
(* has subscribed to everything wants it.                                    *)
LEMMA MessageSays ==
  ASSUME NEW k \in Channels, NEW n \in Nat, NEW m \in Messages(k, n)
  PROVE  /\ m.of = k /\ m.n = n /\ m \in Letters
         /\ k # "subscription_updated" /\ Wants(DefaultSubs, m)
<1>1. k \in {"data", "event", "burst"} BY ChannelsAssumption
<1>2. m \in Letters BY DEF Letters, Carriage
<1>3. CASE k = "data"
  <2>1. m \in DataMessages(n) BY <1>3 DEF Messages
  <2>2. m.of = "data" /\ m.n = n BY <2>1 DEF DataMessages
  <2>3. "data" \in DefaultSubs /\ "trigger_only" \notin DefaultSubs /\ "continuous_only" \notin DefaultSubs
    BY DEF DefaultSubs
  <2>4. Wants(DefaultSubs, m) BY <2>2, <2>3 DEF Wants, WantsData
  <2>5. QED BY <1>2, <1>3, <2>2, <2>4
<1>4. CASE k = "event"
  <2>1. m = EventMessage(n) BY <1>4 DEF Messages
  <2>2. m.of = "event" /\ m.n = n BY <2>1 DEF EventMessage
  <2>3. Wants(DefaultSubs, m) BY <2>2 DEF Wants, WantsEvent, DefaultSubs
  <2>4. QED BY <1>2, <1>4, <2>2, <2>3
<1>5. CASE k = "burst"
  <2>1. m = BurstMessage(n) BY <1>5 DEF Messages
  <2>2. m.of = "burst" /\ m.n = n BY <2>1 DEF BurstMessage
  <2>3. Wants(DefaultSubs, m) BY <2>2 DEF Wants, WantsBurst, DefaultSubs
  <2>4. QED BY <1>2, <1>5, <2>2, <2>3
<1>6. QED BY <1>1, <1>3, <1>4, <1>5

(* The other letters belong to no channel.                                   *)
LEMMA NoteSays ==
  ASSUME NEW m \in {Note("welcome"), Note("pong")}
  PROVE  m \in Letters /\ m.of \notin Channels /\ m.of # "subscription_updated"
BY ChannelsAssumption DEF Letters, Note

LEMMA ConfirmationSays ==
  ASSUME NEW s \in SUBSET Topics
  PROVE  /\ Confirmation(s) \in Letters /\ Confirmation(s).of \notin Channels
         /\ Confirmation(s).of = "subscription_updated" /\ Confirmation(s).subs = s
BY ChannelsAssumption DEF Letters, Confirmation

LEMMA SubscribedNames == \A names : Subscribed(names) \in SUBSET Topics
BY DEF Subscribed, Topics, DefaultSubs

(* What an appended letter does to a mailbox.                                *)
LEMMA AppendLetter ==
  ASSUME NEW box \in Seq(Letters), NEW m \in Letters
  PROVE  /\ Append(box, m) \in Seq(Letters)
         /\ Len(box) \in Nat /\ Len(Append(box, m)) = Len(box) + 1
         /\ DOMAIN box = 1..Len(box) /\ DOMAIN Append(box, m) = 1..(Len(box) + 1)
         /\ \A i \in 1..Len(box) : Append(box, m)[i] = box[i]
         /\ Append(box, m)[Len(box) + 1] = m
OBVIOUS

(* The subscription a mailbox last confirms.                                 *)
InEffect(box, s) ==
  /\ (\A l \in 1..Len(box) : ~Confirms(box, l)) => s = DefaultSubs
  /\ \A j \in 1..Len(box) : InForce(box, j, Len(box) + 1) => box[j].subs = s

LEMMA PutMessage ==
  ASSUME NEW box \in Seq(Letters), NEW s \in SUBSET Topics, NEW m \in Letters,
         AsSubscribed(box), InEffect(box, s),
         m.of # "subscription_updated", m.of \in Channels => Wants(s, m)
  PROVE  AsSubscribed(Append(box, m)) /\ InEffect(Append(box, m), s)
<1> DEFINE more == Append(box, m)
<1>1. /\ Len(box) \in Nat /\ Len(more) = Len(box) + 1
      /\ DOMAIN box = 1..Len(box) /\ DOMAIN more = 1..(Len(box) + 1)
      /\ \A i \in 1..Len(box) : more[i] = box[i]
      /\ more[Len(box) + 1] = m
  BY AppendLetter
<1>2. \A l \in 1..Len(box) : Confirms(more, l) <=> Confirms(box, l) BY <1>1 DEF Confirms
<1>3. ~Confirms(more, Len(box) + 1) BY <1>1 DEF Confirms
<1> HIDE DEF more
<1>4. ASSUME NEW i \in 1..(Len(box) + 1), NEW j \in 1..(i - 1)
      PROVE  InForce(more, j, i) <=> InForce(box, j, i)
  <2>1. j \in 1..Len(box) /\ \A l \in j+1..i-1 : l \in 1..Len(box) BY <1>1
  <2>2. QED BY <1>2, <2>1 DEF InForce
<1>5. AsSubscribed(more)
  <2> SUFFICES ASSUME NEW i \in 1..(Len(box) + 1), more[i].of \in Channels
               PROVE  /\ (\A l \in 1..i-1 : ~Confirms(more, l)) => Wants(DefaultSubs, more[i])
                      /\ \A j \in 1..i-1 : InForce(more, j, i) => Wants(more[j].subs, more[i])
    BY <1>1 DEF AsSubscribed
  <2>1. CASE i \in 1..Len(box)
    <3>1. more[i] = box[i] /\ \A j \in 1..i-1 : j \in 1..Len(box) /\ more[j] = box[j] BY <1>1, <2>1
    <3>2. /\ (\A l \in 1..i-1 : ~Confirms(box, l)) => Wants(DefaultSubs, box[i])
          /\ \A j \in 1..i-1 : InForce(box, j, i) => Wants(box[j].subs, box[i])
      BY <1>1, <2>1, <3>1 DEF AsSubscribed
    <3>3. QED BY <1>2, <1>4, <2>1, <3>1, <3>2
  <2>2. CASE i = Len(box) + 1
    <3>1. more[i] = m /\ i - 1 = Len(box) /\ \A j \in 1..i-1 : more[j] = box[j] BY <1>1, <2>2
    <3>2. Wants(s, m) BY <3>1
    <3>3. (\A l \in 1..i-1 : ~Confirms(more, l)) => s = DefaultSubs BY <1>2, <3>1 DEF InEffect
    <3>4. \A j \in 1..i-1 : InForce(more, j, i) => box[j].subs = s BY <1>4, <2>2, <3>1 DEF InEffect
    <3>5. QED BY <3>1, <3>2, <3>3, <3>4
  <2>3. QED BY <1>1, <2>1, <2>2
<1>6. InEffect(more, s)
  <2>1. (\A l \in 1..Len(more) : ~Confirms(more, l)) => s = DefaultSubs
    BY <1>1, <1>2 DEF InEffect
  <2>2. ASSUME NEW j \in 1..Len(more), InForce(more, j, Len(more) + 1) PROVE more[j].subs = s
    <3>1. j # Len(box) + 1 BY <1>3, <2>2 DEF InForce
    <3>2. j \in 1..Len(box) BY <1>1, <3>1
    <3>3. InForce(box, j, Len(box) + 1)
      <4>1. Confirms(box, j) BY <1>2, <2>2, <3>2 DEF InForce
      <4>2. ASSUME NEW l \in j+1..(Len(box) + 1)-1 PROVE ~Confirms(box, l)
        <5>1. l \in 1..Len(box) /\ l \in j+1..(Len(more) + 1)-1 BY <1>1, <3>2
        <5>2. QED BY <1>2, <2>2, <5>1 DEF InForce
      <4>3. QED BY <4>1, <4>2 DEF InForce
    <3>4. QED BY <1>1, <3>2, <3>3 DEF InEffect
  <2>3. QED BY <2>1, <2>2 DEF InEffect
<1>7. QED BY <1>5, <1>6 DEF more

LEMMA PutConfirmation ==
  ASSUME NEW box \in Seq(Letters), NEW s \in SUBSET Topics, AsSubscribed(box)
  PROVE  /\ AsSubscribed(Append(box, Confirmation(s)))
         /\ InEffect(Append(box, Confirmation(s)), s)
<1> DEFINE more == Append(box, Confirmation(s))
<1>0. /\ Confirmation(s) \in Letters /\ Confirmation(s).of \notin Channels
      /\ Confirmation(s).of = "subscription_updated" /\ Confirmation(s).subs = s
  BY ConfirmationSays
<1>1. /\ Len(box) \in Nat /\ Len(more) = Len(box) + 1
      /\ DOMAIN box = 1..Len(box) /\ DOMAIN more = 1..(Len(box) + 1)
      /\ \A i \in 1..Len(box) : more[i] = box[i]
      /\ more[Len(box) + 1] = Confirmation(s)
  BY <1>0, AppendLetter
<1> HIDE DEF more
<1>2. \A l \in 1..Len(box) : Confirms(more, l) <=> Confirms(box, l) BY <1>1 DEF Confirms
<1>3. Confirms(more, Len(box) + 1) /\ more[Len(box) + 1].subs = s BY <1>0, <1>1 DEF Confirms
<1>4. AsSubscribed(more)
  <2> SUFFICES ASSUME NEW i \in 1..(Len(box) + 1), more[i].of \in Channels
               PROVE  /\ (\A l \in 1..i-1 : ~Confirms(more, l)) => Wants(DefaultSubs, more[i])
                      /\ \A j \in 1..i-1 : InForce(more, j, i) => Wants(more[j].subs, more[i])
    BY <1>1 DEF AsSubscribed
  <2>1. i \in 1..Len(box)
    <3>1. i # Len(box) + 1 BY <1>0, <1>1
    <3>2. QED BY <1>1, <3>1
  <2>2. more[i] = box[i] /\ \A j \in 1..i-1 : j \in 1..Len(box) /\ more[j] = box[j] BY <1>1, <2>1
  <2>3. /\ (\A l \in 1..i-1 : ~Confirms(box, l)) => Wants(DefaultSubs, box[i])
        /\ \A j \in 1..i-1 : InForce(box, j, i) => Wants(box[j].subs, box[i])
    BY <1>1, <2>1, <2>2 DEF AsSubscribed
  <2>4. \A j \in 1..i-1 : InForce(more, j, i) => InForce(box, j, i)
    <3> SUFFICES ASSUME NEW j \in 1..i-1, InForce(more, j, i) PROVE InForce(box, j, i)
      OBVIOUS
    <3>1. j \in 1..Len(box) /\ \A l \in j+1..i-1 : l \in 1..Len(box) BY <1>1, <2>1
    <3>2. QED BY <1>2, <3>1 DEF InForce
  <2>5. QED BY <1>2, <2>2, <2>3, <2>4
<1>5. InEffect(more, s)
  <2>1. ASSUME NEW j \in 1..Len(more), InForce(more, j, Len(more) + 1) PROVE more[j].subs = s
    <3>1. CASE j \in 1..Len(box)
      <4>1. Len(box) + 1 \in j+1..(Len(more) + 1)-1 BY <1>1, <3>1
      <4>2. QED BY <1>3, <2>1, <4>1 DEF InForce
    <3>2. CASE j = Len(box) + 1 BY <1>3, <3>2
    <3>3. QED BY <1>1, <3>1, <3>2
  <2>2. Len(box) + 1 \in 1..Len(more) BY <1>1
  <2>3. QED BY <1>3, <2>1, <2>2 DEF InEffect
<1>6. QED BY <1>4, <1>5 DEF more

(* The last letter of channel k, if there is one, is message n.               *)
EndsAt(box, k, n) ==
  \A j \in 1..Len(box) :
    box[j].of = k /\ (\A l \in j+1..Len(box) : box[l].of # k) => box[j].n = n

(* The next message of the channel, or a letter that is none of its messages.   *)
LEMMA NextOfChannel ==
  ASSUME NEW box \in Seq(Letters), NEW k, NEW n \in Nat, NEW m \in Letters,
         m.of = k, m.n = n + 1, Unbroken(box, k), EndsAt(box, k, n)
  PROVE  Unbroken(Append(box, m), k) /\ EndsAt(Append(box, m), k, n + 1)
<1> DEFINE more == Append(box, m)
<1>1. /\ Len(box) \in Nat /\ Len(more) = Len(box) + 1
      /\ DOMAIN box = 1..Len(box) /\ DOMAIN more = 1..(Len(box) + 1)
      /\ \A i \in 1..Len(box) : more[i] = box[i]
      /\ more[Len(box) + 1] = m
  BY AppendLetter
<1> HIDE DEF more
<1>2. Unbroken(more, k)
  <2> SUFFICES ASSUME NEW j \in 1..(Len(box) + 1), NEW i \in 1..j-1,
                      more[i].of = k, more[j].of = k, \A l \in i+1..j-1 : more[l].of # k
               PROVE  more[j].n = more[i].n + 1
    BY <1>1 DEF Unbroken
  <2>1. /\ i \in 1..Len(box) /\ more[i] = box[i]
        /\ \A l \in i+1..j-1 : l \in 1..Len(box) /\ more[l] = box[l]
    BY <1>1
  <2>2. CASE j \in 1..Len(box) BY <1>1, <2>1, <2>2 DEF Unbroken
  <2>3. CASE j = Len(box) + 1
    <3>1. \A l \in i+1..Len(box) : l \in i+1..j-1 BY <1>1, <2>3
    <3>2. \A l \in i+1..Len(box) : box[l].of # k BY <2>1, <3>1
    <3>3. box[i].n = n BY <2>1, <3>2 DEF EndsAt
    <3>4. QED BY <1>1, <2>1, <2>3, <3>3
  <2>4. QED BY <1>1, <2>2, <2>3
<1>3. EndsAt(more, k, n + 1)
  <2> SUFFICES ASSUME NEW j \in 1..(Len(box) + 1),
                      more[j].of = k, \A l \in j+1..(Len(box) + 1) : more[l].of # k
               PROVE  more[j].n = n + 1
    BY <1>1 DEF EndsAt
  <2>1. CASE j \in 1..Len(box)
    <3>1. Len(box) + 1 \in j+1..(Len(box) + 1) BY <1>1, <2>1
    <3>2. QED BY <1>1, <3>1
  <2>2. CASE j = Len(box) + 1 BY <1>1, <2>2
  <2>3. QED BY <1>1, <2>1, <2>2
<1>4. QED BY <1>2, <1>3 DEF more

LEMMA NotOfChannel ==
  ASSUME NEW box \in Seq(Letters), NEW k, NEW m \in Letters, m.of # k
  PROVE  /\ Unbroken(box, k) => Unbroken(Append(box, m), k)
         /\ \A n : EndsAt(box, k, n) => EndsAt(Append(box, m), k, n)
<1> DEFINE more == Append(box, m)
<1>1. /\ Len(box) \in Nat /\ Len(more) = Len(box) + 1
      /\ DOMAIN box = 1..Len(box) /\ DOMAIN more = 1..(Len(box) + 1)
      /\ \A i \in 1..Len(box) : more[i] = box[i]
      /\ more[Len(box) + 1] = m
  BY AppendLetter
<1> HIDE DEF more
<1>2. ASSUME Unbroken(box, k) PROVE Unbroken(more, k)
  <2> SUFFICES ASSUME NEW j \in 1..(Len(box) + 1), NEW i \in 1..j-1,
                      more[i].of = k, more[j].of = k, \A l \in i+1..j-1 : more[l].of # k
               PROVE  more[j].n = more[i].n + 1
    BY <1>1 DEF Unbroken
  <2>1. j \in 1..Len(box)
    <3>1. j # Len(box) + 1 BY <1>1
    <3>2. QED BY <1>1, <3>1
  <2>2. /\ i \in 1..Len(box) /\ more[i] = box[i] /\ more[j] = box[j]
        /\ \A l \in i+1..j-1 : l \in 1..Len(box) /\ more[l] = box[l]
    BY <1>1, <2>1
  <2>3. QED BY <1>1, <1>2, <2>1, <2>2 DEF Unbroken
<1>3. ASSUME NEW n, EndsAt(box, k, n) PROVE EndsAt(more, k, n)
  <2> SUFFICES ASSUME NEW j \in 1..(Len(box) + 1),
                      more[j].of = k, \A l \in j+1..(Len(box) + 1) : more[l].of # k
               PROVE  more[j].n = n
    BY <1>1 DEF EndsAt
  <2>1. j \in 1..Len(box)
    <3>1. j # Len(box) + 1 BY <1>1
    <3>2. QED BY <1>1, <3>1
  <2>2. \A l \in j+1..Len(box) : l \in j+1..(Len(box) + 1) /\ more[l] = box[l] BY <1>1, <2>1
  <2>3. QED BY <1>1, <1>3, <2>1, <2>2 DEF EndsAt
<1>4. QED BY <1>2, <1>3 DEF more

-----------------------------------------------------------------------------
(* The types, as far as the steps rest on them; a channel's queue is the last   *)
(* of what was published, and a client that has not connected has nothing.    *)
HubTypes ==
  /\ published \in [Channels -> Nat]
  /\ queue \in [Channels -> Seq(Letters)]
  /\ lagged \in [Channels -> BOOLEAN]
  /\ table \subseteq Clients
  /\ subs \in [Clients -> SUBSET Topics]
  /\ socket \in [Clients -> {"new", "open", "closed"}]
  /\ sender \in [Clients -> {"none", "greet", "run", "remove", "end"}]
  /\ receiver \in [Clients -> {"none", "run", "end"}]
  /\ mail \in [Clients -> Seq(Letters)]
  /\ requests \in [Clients -> Nat]

Taken(k) == published[k] - Len(queue[k])

QueueIsLatest ==
  \A k \in Channels :
    /\ Len(queue[k]) <= published[k]
    /\ \A i \in 1..Len(queue[k]) : queue[k][i] \in Messages(k, Taken(k) + i)

NewIsEmpty ==
  \A c \in Clients : socket[c] = "new" =>
    c \notin table /\ mail[c] = <<>> /\ requests[c] = 0 /\ sender[c] = "none" /\ receiver[c] = "none"

(* What a client in the table is subscribed to is what its mailbox confirmed    *)
(* last, and while it has asked for nothing else, the last message of a channel *)
(* it got is the last that was taken from that channel's queue.               *)
InEffectAll == \A c \in table : InEffect(mail[c], subs[c])

UpToDate ==
  \A c \in table : requests[c] = 0 =>
    /\ subs[c] = DefaultSubs
    /\ \A k \in Channels : ~lagged[k] => EndsAt(mail[c], k, Taken(k))

HubInv == HubTypes /\ QueueIsLatest /\ NewIsEmpty
GreetedAreIn == \A c \in Clients : sender[c] = "greet" => c \in table

DeliveryInv == SubscriptionOrdered /\ NoHoles /\ InEffectAll /\ UpToDate /\ GreetedAreIn

(* The invariant holds at the start.                                          *)
LEMMA HubStarts == Init => HubInv /\ DeliveryInv
<1> SUFFICES ASSUME Init PROVE HubInv /\ DeliveryInv
  OBVIOUS
<1> USE DEF Init
<1>1. <<>> \in Seq(Letters) /\ Len(<<>>) = 0 /\ {} \in SUBSET Topics OBVIOUS
<1>2. HubTypes BY <1>1 DEF HubTypes
<1>3. QueueIsLatest BY <1>1 DEF QueueIsLatest
<1>4. NewIsEmpty BY DEF NewIsEmpty
<1>5. SubscriptionOrdered /\ NoHoles BY <1>1 DEF SubscriptionOrdered, AsSubscribed, NoHoles, Unbroken
<1>6. InEffectAll /\ UpToDate /\ GreetedAreIn BY DEF InEffectAll, UpToDate, GreetedAreIn
<1>7. QED BY <1>2, <1>3, <1>4, <1>5, <1>6 DEF HubInv, DeliveryInv

(* A queue to which the next message is added, its oldest given up if need be,  *)
(* and one from which the oldest is taken.                                    *)
LEMMA LatestWithNext ==
  ASSUME NEW k \in Channels, NEW p \in Nat, NEW q \in Seq(Letters), Len(q) <= p,
         \A i \in 1..Len(q) : q[i] \in Messages(k, p - Len(q) + i),
         NEW m \in Messages(k, p + 1), NEW r,
         r = Append(q, m) \/ (q # <<>> /\ r = Append(Tail(q), m))
  PROVE  /\ r \in Seq(Letters) /\ Len(r) <= p + 1
         /\ \A i \in 1..Len(r) : r[i] \in Messages(k, (p + 1) - Len(r) + i)
<1>1. m \in Letters BY MessageSays
<1>2. CASE r = Append(q, m)
  <2>1. /\ r \in Seq(Letters) /\ Len(q) \in Nat /\ Len(r) = Len(q) + 1
        /\ \A i \in 1..Len(q) : r[i] = q[i]
        /\ r[Len(q) + 1] = m
    BY <1>1, <1>2, AppendLetter
  <2>2. ASSUME NEW i \in 1..Len(r) PROVE r[i] \in Messages(k, (p + 1) - Len(r) + i)
    <3>1. CASE i \in 1..Len(q)
      <4>1. (p + 1) - Len(r) + i = p - Len(q) + i BY <2>1, <3>1
      <4>2. QED BY <2>1, <3>1, <4>1
    <3>2. CASE i = Len(q) + 1
      <4>1. (p + 1) - Len(r) + i = p + 1 BY <2>1, <3>2
      <4>2. QED BY <2>1, <3>2, <4>1
    <3>3. QED BY <2>1, <3>1, <3>2
  <2>3. QED BY <2>1, <2>2
<1>3. CASE q # <<>> /\ r = Append(Tail(q), m)
  <2>1. /\ Tail(q) \in Seq(Letters) /\ Len(q) \in Nat /\ Len(q) >= 1 /\ Len(Tail(q)) = Len(q) - 1
        /\ \A i \in 1..(Len(q) - 1) : Tail(q)[i] = q[i + 1]
    BY <1>3
  <2>2. /\ r \in Seq(Letters) /\ Len(r) = Len(q)
        /\ \A i \in 1..(Len(q) - 1) : r[i] = Tail(q)[i]
        /\ r[Len(q)] = m
    <3> DEFINE box == Tail(q)
    <3>1. box \in Seq(Letters) /\ Len(box) = Len(q) - 1 /\ Len(box) + 1 = Len(q) BY <2>1
    <3>2. r = Append(box, m) BY <1>3
    <3> HIDE DEF box
    <3>3. /\ r \in Seq(Letters) /\ Len(r) = Len(box) + 1
          /\ \A i \in 1..Len(box) : r[i] = box[i]
          /\ r[Len(box) + 1] = m
      BY <1>1, <3>1, <3>2, AppendLetter
    <3>4. QED BY <3>1, <3>3 DEF box
  <2>3. ASSUME NEW i \in 1..Len(r) PROVE r[i] \in Messages(k, (p + 1) - Len(r) + i)
    <3>1. CASE i \in 1..(Len(q) - 1)
      <4>1. (p + 1) - Len(r) + i = p - Len(q) + (i + 1) BY <2>1, <2>2, <3>1
      <4>2. i + 1 \in 1..Len(q) BY <2>1, <3>1
      <4>3. r[i] = q[i + 1] BY <2>1, <2>2, <3>1
      <4>4. QED BY <4>1, <4>2, <4>3
    <3>2. CASE i = Len(q)
      <4>1. (p + 1) - Len(r) + i = p + 1 BY <2>1, <2>2, <3>2
      <4>2. QED BY <2>2, <3>2, <4>1
    <3>3. i \in 1..Len(q) BY <2>2
    <3>4. i \in 1..(Len(q) - 1) \/ i = Len(q)
      <4>1. PICK n \in Nat : n = Len(q) BY <2>1
      <4>2. i \in 1..n BY <3>3, <4>1
      <4>3. i \in 1..(n - 1) \/ i = n BY <4>2
      <4>4. QED BY <4>1, <4>3
    <3>5. QED BY <3>1, <3>2, <3>4
  <2>4. QED BY <2>1, <2>2, <2>3
<1>4. QED BY <1>2, <1>3

LEMMA LatestWithoutFirst ==
  ASSUME NEW k \in Channels, NEW p \in Nat, NEW q \in Seq(Letters), Len(q) <= p, q # <<>>,
         \A i \in 1..Len(q) : q[i] \in Messages(k, p - Len(q) + i)
  PROVE  /\ Tail(q) \in Seq(Letters) /\ Len(Tail(q)) <= p
         /\ p - Len(Tail(q)) = (p - Len(q)) + 1 /\ p - Len(q) \in Nat
         /\ Head(q) \in Messages(k, (p - Len(q)) + 1)
         /\ \A i \in 1..Len(Tail(q)) : Tail(q)[i] \in Messages(k, p - Len(Tail(q)) + i)
<1>1. /\ Tail(q) \in Seq(Letters) /\ Len(q) \in Nat /\ Len(q) >= 1 /\ Len(Tail(q)) = Len(q) - 1
      /\ \A i \in 1..(Len(q) - 1) : Tail(q)[i] = q[i + 1]
      /\ Head(q) = q[1]
  OBVIOUS
<1>2. ASSUME NEW i \in 1..Len(Tail(q)) PROVE Tail(q)[i] \in Messages(k, p - Len(Tail(q)) + i)
  <2>1. i + 1 \in 1..Len(q) /\ p - Len(Tail(q)) + i = p - Len(q) + (i + 1) /\ Tail(q)[i] = q[i + 1]
    BY <1>1
  <2>2. QED BY <2>1
<1>3. 1 \in 1..Len(q) BY <1>1
<1>4. QED BY <1>1, <1>2, <1>3

(* HubInv is kept by every step.                                              *)
LEMMA HubStep == HubInv /\ [Next]_vars => HubInv'
<1> SUFFICES ASSUME HubInv, [Next]_vars PROVE HubInv'
  OBVIOUS
<1> USE DEF HubInv
<1>1. ASSUME NEW k \in Channels, Publish(k) PROVE HubInv'
  <2>1. UNCHANGED clientVars BY <1>1 DEF Publish
  <2>2. published' = [published EXCEPT ![k] = @ + 1] /\ lagged' \in [Channels -> BOOLEAN]
    BY <1>1 DEF Publish, HubTypes
  <2>3. PICK m \in Messages(k, published[k] + 1) :
          queue' = [queue EXCEPT ![k] = IF Len(@) = Capacity THEN Append(Tail(@), m) ELSE Append(@, m)]
    BY <1>1 DEF Publish
  <2>4. queue[k] \in Seq(Letters) /\ published[k] \in Nat BY DEF HubTypes
  <2>5. /\ Len(queue[k]) <= published[k]
        /\ \A i \in 1..Len(queue[k]) : queue[k][i] \in Messages(k, published[k] - Len(queue[k]) + i)
    BY DEF QueueIsLatest, Taken
  <2>6. queue'[k] = Append(queue[k], m) \/ (queue[k] # <<>> /\ queue'[k] = Append(Tail(queue[k]), m))
    <3>1. Len(queue[k]) = Capacity => queue[k] # <<>> BY <2>4, CapacityAssumption
    <3>2. QED BY <2>3, <3>1 DEF HubTypes
  <2>7. PICK r : r = queue'[k] OBVIOUS
  <2>8. /\ r \in Seq(Letters) /\ Len(r) <= published[k] + 1
        /\ \A i \in 1..Len(r) : r[i] \in Messages(k, (published[k] + 1) - Len(r) + i)
    BY <2>4, <2>5, <2>6, <2>7, LatestWithNext
  <2>9. queue' = [queue EXCEPT ![k] = r] BY <2>3, <2>7 DEF HubTypes
  <2>10. HubTypes' BY <2>1, <2>2, <2>8, <2>9 DEF HubTypes, clientVars
  <2>11. QueueIsLatest'
    <3> SUFFICES ASSUME NEW j \in Channels
                 PROVE  /\ Len(queue'[j]) <= published'[j]
                        /\ \A i \in 1..Len(queue'[j]) :
                             queue'[j][i] \in Messages(j, (published'[j] - Len(queue'[j])) + i)
      BY DEF QueueIsLatest, Taken
    <3>1. CASE j = k
      <4>1. queue'[j] = r /\ published'[j] = published[k] + 1 BY <2>2, <2>9, <3>1 DEF HubTypes
      <4>2. QED BY <2>8, <3>1, <4>1
    <3>2. CASE j # k
      <4>1. queue'[j] = queue[j] /\ published'[j] = published[j] BY <2>2, <2>9, <3>2 DEF HubTypes
      <4>2. QED BY <4>1 DEF QueueIsLatest, Taken
    <3>3. QED BY <3>1, <3>2
  <2>12. NewIsEmpty' BY <2>1 DEF NewIsEmpty, clientVars
  <2>13. QED BY <2>10, <2>11, <2>12
<1>2. ASSUME NEW k \in Channels, Broadcast(k) PROVE HubInv'
  <2>1. /\ queue[k] # <<>> /\ queue' = [queue EXCEPT ![k] = Tail(@)]
        /\ UNCHANGED <<published, lagged, table, subs, socket, sender, receiver, requests>>
    BY <1>2 DEF Broadcast
  <2>2. mail' = [c \in Clients |-> IF c \in table /\ Wants(subs[c], Head(queue[k]))
                                     THEN Append(mail[c], Head(queue[k])) ELSE mail[c]]
    BY <1>2 DEF Broadcast
  <2>3. /\ queue[k] \in Seq(Letters) /\ published[k] \in Nat /\ Len(queue[k]) <= published[k]
        /\ \A i \in 1..Len(queue[k]) : queue[k][i] \in Messages(k, published[k] - Len(queue[k]) + i)
    BY DEF HubTypes, QueueIsLatest, Taken
  <2>4. /\ Tail(queue[k]) \in Seq(Letters) /\ Len(Tail(queue[k])) <= published[k]
        /\ Head(queue[k]) \in Letters
        /\ \A i \in 1..Len(Tail(queue[k])) :
             Tail(queue[k])[i] \in Messages(k, published[k] - Len(Tail(queue[k])) + i)
    BY <2>1, <2>3, LatestWithoutFirst
  <2>5. mail' \in [Clients -> Seq(Letters)]
    <3>1. ASSUME NEW c \in Clients PROVE Append(mail[c], Head(queue[k])) \in Seq(Letters)
      BY <2>4 DEF HubTypes
    <3>2. QED BY <2>2, <3>1 DEF HubTypes
  <2>6. HubTypes' BY <2>1, <2>4, <2>5 DEF HubTypes
  <2>7. QueueIsLatest'
    <3> SUFFICES ASSUME NEW j \in Channels
                 PROVE  /\ Len(queue'[j]) <= published'[j]
                        /\ \A i \in 1..Len(queue'[j]) :
                             queue'[j][i] \in Messages(j, (published'[j] - Len(queue'[j])) + i)
      BY DEF QueueIsLatest, Taken
    <3>1. CASE j = k
      <4>1. queue'[j] = Tail(queue[k]) /\ published'[j] = published[k] BY <2>1, <3>1 DEF HubTypes
      <4>2. QED BY <2>4, <3>1, <4>1
    <3>2. CASE j # k
      <4>1. queue'[j] = queue[j] /\ published'[j] = published[j] BY <2>1, <3>2 DEF HubTypes
      <4>2. QED BY <4>1 DEF QueueIsLatest, Taken
    <3>3. QED BY <3>1, <3>2
  <2>8. NewIsEmpty' BY <2>1, <2>2 DEF NewIsEmpty
  <2>9. QED BY <2>6, <2>7, <2>8
<1>3. ASSUME UNCHANGED <<published, queue, lagged>>, HubTypes', NewIsEmpty' PROVE HubInv'
  BY <1>3 DEF QueueIsLatest, Taken
<1>4. ASSUME NEW k \in Channels, BroadcastEnds(k) PROVE HubInv'
  <2>1. UNCHANGED <<published, queue, lagged, clientVars>> BY <1>4 DEF BroadcastEnds
  <2>2. HubTypes' /\ NewIsEmpty' BY <2>1 DEF HubTypes, NewIsEmpty, clientVars
  <2>3. QED BY <1>3, <2>1, <2>2
<1>5. ASSUME NEW c \in Clients, Connect(c) PROVE HubInv'
  <2>1. HubTypes'
    <3>1. DefaultSubs \in SUBSET Topics BY DEF Topics
    <3>2. QED BY <1>5, <3>1 DEF Connect, HubTypes, pubVars
  <2>2. NewIsEmpty' BY <1>5 DEF Connect, NewIsEmpty, HubTypes
  <2>3. QED BY <1>3, <1>5, <2>1, <2>2 DEF Connect, pubVars
<1>6. ASSUME NEW c \in Clients, Greet(c) PROVE HubInv'
  <2>1. Append(mail[c], Note("welcome")) \in Seq(Letters) BY NoteSays DEF HubTypes
  <2>2. HubTypes' BY <1>6, <2>1 DEF Greet, Put, HubTypes, pubVars
  <2>3. NewIsEmpty' BY <1>6 DEF Greet, Put, NewIsEmpty, HubTypes
  <2>4. QED BY <1>3, <1>6, <2>2, <2>3 DEF Greet, pubVars
<1>7. ASSUME NEW c \in Clients, SendToSocket(c) PROVE HubInv'
  <2>1. HubTypes' /\ NewIsEmpty' BY <1>7 DEF SendToSocket, HubTypes, NewIsEmpty, pubVars
  <2>2. QED BY <1>3, <1>7, <2>1 DEF SendToSocket, pubVars
<1>8. ASSUME NEW c \in Clients, SendFails(c) PROVE HubInv'
  <2>1. HubTypes' BY <1>8 DEF SendFails, HubTypes, pubVars
  <2>2. NewIsEmpty' BY <1>8 DEF SendFails, NewIsEmpty, HubTypes
  <2>3. QED BY <1>3, <1>8, <2>1, <2>2 DEF SendFails, pubVars
<1>9. ASSUME NEW c \in Clients, RemoveClient(c) PROVE HubInv'
  <2>1. HubTypes' BY <1>9 DEF RemoveClient, HubTypes, pubVars
  <2>2. NewIsEmpty' BY <1>9 DEF RemoveClient, NewIsEmpty, HubTypes
  <2>3. QED BY <1>3, <1>9, <2>1, <2>2 DEF RemoveClient, pubVars
<1>10. ASSUME NEW c \in Clients, Subscribe(c) PROVE HubInv'
  <2>1. PICK names \in Requests :
          IF c \in table
            THEN /\ subs' = [subs EXCEPT ![c] = Subscribed(names)]
                 /\ Put(c, Confirmation(Subscribed(names)))
            ELSE UNCHANGED <<subs, mail>>
    BY <1>10 DEF Subscribe
  <2>2. Subscribed(names) \in SUBSET Topics BY SubscribedNames
  <2>3. Append(mail[c], Confirmation(Subscribed(names))) \in Seq(Letters)
    BY <2>2, ConfirmationSays DEF HubTypes
  <2>4. subs' \in [Clients -> SUBSET Topics] /\ mail' \in [Clients -> Seq(Letters)]
    BY <2>1, <2>2, <2>3 DEF HubTypes, Put
  <2>5. requests' \in [Clients -> Nat] BY <1>10 DEF Subscribe, HubTypes
  <2>6. HubTypes' BY <1>10, <2>4, <2>5 DEF Subscribe, HubTypes, pubVars
  <2>7. socket[c] = "open" /\ UNCHANGED <<table, socket, sender, receiver>> BY <1>10 DEF Subscribe
  <2>8. \A d \in Clients : d # c => mail'[d] = mail[d] /\ requests'[d] = requests[d]
    BY <1>10, <2>1 DEF Subscribe, HubTypes, Put
  <2>9. NewIsEmpty' BY <2>7, <2>8 DEF NewIsEmpty
  <2>10. QED BY <1>3, <1>10, <2>6, <2>9 DEF Subscribe, pubVars
<1>11. ASSUME NEW c \in Clients, Ping(c) PROVE HubInv'
  <2>1. Append(mail[c], Note("pong")) \in Seq(Letters) BY NoteSays DEF HubTypes
  <2>2. mail' \in [Clients -> Seq(Letters)] BY <1>11, <2>1 DEF Ping, Put, HubTypes
  <2>3. requests' \in [Clients -> Nat] BY <1>11 DEF Ping, HubTypes
  <2>4. HubTypes' BY <1>11, <2>2, <2>3 DEF Ping, HubTypes, pubVars
  <2>5. socket[c] = "open" /\ UNCHANGED <<table, socket, sender, receiver>> BY <1>11 DEF Ping
  <2>6. \A d \in Clients : d # c => mail'[d] = mail[d] /\ requests'[d] = requests[d]
    BY <1>11 DEF Ping, HubTypes, Put
  <2>7. NewIsEmpty' BY <2>5, <2>6 DEF NewIsEmpty
  <2>8. QED BY <1>3, <1>11, <2>4, <2>7 DEF Ping, pubVars
<1>12. ASSUME NEW c \in Clients, ReceiverEnds(c) PROVE HubInv'
  <2>1. HubTypes' BY <1>12 DEF ReceiverEnds, HubTypes, pubVars
  <2>2. NewIsEmpty' BY <1>12 DEF ReceiverEnds, NewIsEmpty, HubTypes
  <2>3. QED BY <1>3, <1>12, <2>1, <2>2 DEF ReceiverEnds, pubVars
<1>13. ASSUME NEW c \in Clients, PeerCloses(c) PROVE HubInv'
  <2>1. HubTypes' BY <1>13 DEF PeerCloses, HubTypes, pubVars
  <2>2. NewIsEmpty' BY <1>13 DEF PeerCloses, NewIsEmpty, HubTypes
  <2>3. QED BY <1>3, <1>13, <2>1, <2>2 DEF PeerCloses, pubVars
<1>14. CASE UNCHANGED vars
  <2>1. HubTypes' /\ NewIsEmpty' BY <1>14 DEF HubTypes, NewIsEmpty, vars, pubVars, clientVars
  <2>2. QED BY <1>3, <1>14, <2>1 DEF vars, pubVars
<1>15. QED
  BY <1>1, <1>2, <1>4, <1>5, <1>6, <1>7, <1>8, <1>9, <1>10, <1>11, <1>12, <1>13, <1>14
  DEF Next, Server, Users

(* What a message published to a channel leaves of the invariant: either the    *)
(* channel has not lost one, and the next to be taken is the same, or it is     *)
(* lagged from now on.                                                        *)
LEMMA PublishTakesNone ==
  ASSUME HubInv, NEW k \in Channels, Publish(k), NEW j \in Channels, ~lagged'[j]
  PROVE  ~lagged[j] /\ Taken(j)' = Taken(j)
<1>1. /\ published' = [published EXCEPT ![k] = @ + 1]
      /\ lagged' = [lagged EXCEPT ![k] = @ \/ Len(queue[k]) = Capacity]
  BY DEF Publish
<1>2. PICK m : queue' = [queue EXCEPT ![k] = IF Len(@) = Capacity THEN Append(Tail(@), m) ELSE Append(@, m)]
  BY DEF Publish
<1>3. queue[k] \in Seq(Letters) /\ published[k] \in Nat /\ lagged[k] \in BOOLEAN BY DEF HubInv, HubTypes
<1>4. CASE j = k
  <2>1. lagged'[k] = (lagged[k] \/ Len(queue[k]) = Capacity) BY <1>1 DEF HubInv, HubTypes
  <2>2. ~lagged[k] /\ Len(queue[k]) # Capacity BY <1>4, <2>1
  <2>3. queue'[k] = Append(queue[k], m) /\ published'[k] = published[k] + 1
    BY <1>1, <1>2, <2>2 DEF HubInv, HubTypes
  <2>4. Len(queue[k]) \in Nat /\ Len(queue'[k]) = Len(queue[k]) + 1 BY <1>3, <2>3
  <2>5. published'[k] - Len(queue'[k]) = published[k] - Len(queue[k]) BY <1>3, <2>3, <2>4
  <2>6. QED BY <1>4, <2>2, <2>5 DEF Taken
<1>5. CASE j # k
  <2>1. queue'[j] = queue[j] /\ published'[j] = published[j] /\ lagged'[j] = lagged[j]
    BY <1>1, <1>2, <1>5 DEF HubInv, HubTypes
  <2>2. QED BY <2>1 DEF Taken
<1>6. QED BY <1>4, <1>5

(* A letter that is neither a message nor a confirmation, put into the mailbox  *)
(* of a client in the table.                                                  *)
LEMMA NotePut ==
  ASSUME HubInv, DeliveryInv, NEW c \in table, NEW m \in {Note("welcome"), Note("pong")},
         mail' = [mail EXCEPT ![c] = Append(@, m)],
         UNCHANGED <<published, queue, lagged, table, subs>>,
         \A d \in Clients : requests'[d] = 0 => requests[d] = 0,
         GreetedAreIn'
  PROVE  DeliveryInv'
<1>1. c \in Clients /\ mail[c] \in Seq(Letters) /\ subs[c] \in SUBSET Topics BY DEF HubInv, HubTypes
<1>2. m \in Letters /\ m.of \notin Channels /\ m.of # "subscription_updated" BY NoteSays
<1>3. AsSubscribed(mail[c]) /\ InEffect(mail[c], subs[c])
  BY <1>1 DEF DeliveryInv, SubscriptionOrdered, InEffectAll
<1>4. AsSubscribed(Append(mail[c], m)) /\ InEffect(Append(mail[c], m), subs[c])
  BY <1>1, <1>2, <1>3, PutMessage
<1>5. \A k \in Channels : /\ Unbroken(mail[c], k) => Unbroken(Append(mail[c], m), k)
                          /\ \A n : EndsAt(mail[c], k, n) => EndsAt(Append(mail[c], m), k, n)
  <2> SUFFICES ASSUME NEW k \in Channels
               PROVE  /\ Unbroken(mail[c], k) => Unbroken(Append(mail[c], m), k)
                      /\ \A n : EndsAt(mail[c], k, n) => EndsAt(Append(mail[c], m), k, n)
    OBVIOUS
  <2>1. m.of # k BY <1>2
  <2>2. QED BY <1>1, <1>2, <2>1, NotOfChannel
<1>6. mail'[c] = Append(mail[c], m) /\ \A d \in Clients : d # c => mail'[d] = mail[d]
  BY <1>1 DEF HubInv, HubTypes
<1>7. SubscriptionOrdered' BY <1>4, <1>6 DEF DeliveryInv, SubscriptionOrdered
<1>8. NoHoles' BY <1>5, <1>6 DEF DeliveryInv, NoHoles
<1>9. \A d \in table : d \in Clients BY DEF HubInv, HubTypes
<1>10. InEffectAll' BY <1>4, <1>6, <1>9 DEF DeliveryInv, InEffectAll
<1>11. \A k \in Channels : Taken(k)' = Taken(k) BY DEF Taken
<1>12. UpToDate'
  <2> SUFFICES ASSUME NEW d \in table, requests'[d] = 0
               PROVE  /\ subs[d] = DefaultSubs
                      /\ \A k \in Channels : ~lagged[k] => EndsAt(mail'[d], k, Taken(k)')
    BY DEF UpToDate
  <2>1. /\ subs[d] = DefaultSubs
        /\ \A k \in Channels : ~lagged[k] => EndsAt(mail[d], k, Taken(k))
    BY <1>9 DEF DeliveryInv, UpToDate
  <2>2. CASE d = c
    <3>1. \A k \in Channels : EndsAt(mail[c], k, Taken(k)) => EndsAt(mail'[c], k, Taken(k)) BY <1>5, <1>6
    <3>2. QED BY <1>11, <2>1, <2>2, <3>1
  <2>3. CASE d # c BY <1>6, <1>9, <1>11, <2>1, <2>3
  <2>4. QED BY <2>2, <2>3
<1>13. QED BY <1>7, <1>8, <1>10, <1>12 DEF DeliveryInv

(* A broadcast puts the next message of its channel into the mailboxes of those  *)
(* in the table that want it.                                                 *)
LEMMA BroadcastDelivers ==
  ASSUME HubInv, DeliveryInv, NEW k \in Channels, Broadcast(k)
  PROVE  DeliveryInv'
<1> DEFINE m == Head(queue[k])
           n == Taken(k)
<1>1. /\ ~lagged[k] /\ queue[k] # <<>> /\ queue' = [queue EXCEPT ![k] = Tail(@)]
      /\ mail' = [c \in Clients |-> IF c \in table /\ Wants(subs[c], m)
                                      THEN Append(mail[c], m) ELSE mail[c]]
      /\ UNCHANGED <<published, lagged, table, subs, socket, sender, requests>>
  BY DEF Broadcast
<1>2. /\ queue[k] \in Seq(Letters) /\ published[k] \in Nat /\ Len(queue[k]) <= published[k]
      /\ \A i \in 1..Len(queue[k]) : queue[k][i] \in Messages(k, published[k] - Len(queue[k]) + i)
  BY DEF HubInv, HubTypes, QueueIsLatest, Taken
<1>3. n \in Nat /\ m \in Messages(k, n + 1) /\ published[k] - Len(Tail(queue[k])) = n + 1
  BY <1>1, <1>2, LatestWithoutFirst DEF Taken
<1>4. Taken(k)' = n + 1
  <2>1. queue'[k] = Tail(queue[k]) /\ published'[k] = published[k] BY <1>1 DEF HubInv, HubTypes
  <2>2. QED BY <1>3, <2>1 DEF Taken
<1>5. \A j \in Channels : j # k => Taken(j)' = Taken(j)
  <2>1. \A j \in Channels : j # k => queue'[j] = queue[j] BY <1>1 DEF HubInv, HubTypes
  <2>2. QED BY <1>1, <2>1 DEF Taken
<1>6. m.of = k /\ m.n = n + 1 /\ m \in Letters /\ m.of # "subscription_updated" /\ Wants(DefaultSubs, m)
  <2>1. n + 1 \in Nat BY <1>3
  <2>2. QED BY <1>3, <2>1, MessageSays
<1> HIDE DEF m, n
<1>7. \A c \in table : c \in Clients BY DEF HubInv, HubTypes
<1>8. \A c \in Clients : mail[c] \in Seq(Letters) /\ subs[c] \in SUBSET Topics BY DEF HubInv, HubTypes
<1>9. ASSUME NEW c \in Clients
      PROVE  AsSubscribed(mail'[c]) /\ (c \in table => InEffect(mail'[c], subs[c]))
  <2>1. AsSubscribed(mail[c]) /\ (c \in table => InEffect(mail[c], subs[c]))
    BY DEF DeliveryInv, SubscriptionOrdered, InEffectAll
  <2>2. CASE c \in table /\ Wants(subs[c], m)
    <3>1. mail'[c] = Append(mail[c], m) BY <1>1, <2>2
    <3>2. AsSubscribed(Append(mail[c], m)) /\ InEffect(Append(mail[c], m), subs[c])
      BY <1>6, <1>8, <2>1, <2>2, PutMessage
    <3>3. QED BY <3>1, <3>2
  <2>3. CASE ~(c \in table /\ Wants(subs[c], m))
    <3>1. mail'[c] = mail[c] BY <1>1, <2>3
    <3>2. QED BY <2>1, <3>1
  <2>4. QED BY <2>2, <2>3
<1>10. ASSUME NEW c \in Clients, requests[c] = 0, NEW j \in Channels
       PROVE  /\ Unbroken(mail'[c], j)
              /\ c \in table /\ ~lagged[j] => EndsAt(mail'[c], j, Taken(j)')
  <2>1. Unbroken(mail[c], j) BY <1>10 DEF DeliveryInv, NoHoles
  <2>2. c \in table => /\ subs[c] = DefaultSubs
                       /\ ~lagged[j] => EndsAt(mail[c], j, Taken(j))
    BY <1>10 DEF DeliveryInv, UpToDate
  <2>3. CASE c \in table
    <3>1. mail'[c] = Append(mail[c], m) BY <1>1, <1>6, <2>2, <2>3
    <3>2. CASE j = k
      <4>1. EndsAt(mail[c], k, n) /\ Unbroken(mail[c], k) BY <1>1, <2>1, <2>2, <2>3, <3>2 DEF n
      <4>2. Unbroken(Append(mail[c], m), k) /\ EndsAt(Append(mail[c], m), k, n + 1)
        BY <1>3, <1>6, <1>8, <4>1, NextOfChannel
      <4>3. QED BY <1>4, <3>1, <3>2, <4>2
    <3>3. CASE j # k
      <4>1. m.of # j BY <1>6, <3>3
      <4>2. /\ Unbroken(mail[c], j) => Unbroken(Append(mail[c], m), j)
            /\ \A x : EndsAt(mail[c], j, x) => EndsAt(Append(mail[c], m), j, x)
        BY <1>6, <1>8, <4>1, NotOfChannel
      <4>3. QED BY <1>5, <2>1, <2>2, <3>1, <3>3, <4>2
    <3>4. QED BY <3>2, <3>3
  <2>4. CASE c \notin table
    <3>1. mail'[c] = mail[c] BY <1>1, <2>4
    <3>2. QED BY <2>1, <2>4, <3>1
  <2>5. QED BY <2>3, <2>4
<1>11. SubscriptionOrdered' BY <1>9 DEF SubscriptionOrdered
<1>12. NoHoles' BY <1>1, <1>10 DEF NoHoles
<1>13. InEffectAll' BY <1>1, <1>7, <1>9 DEF InEffectAll
<1>14. UpToDate'
  <2> SUFFICES ASSUME NEW c \in table, requests[c] = 0
               PROVE  /\ subs[c] = DefaultSubs
                      /\ \A j \in Channels : ~lagged[j] => EndsAt(mail'[c], j, Taken(j)')
    BY <1>1 DEF UpToDate
  <2>1. subs[c] = DefaultSubs BY DEF DeliveryInv, UpToDate
  <2>2. QED BY <1>7, <1>10, <2>1
<1>15. GreetedAreIn' BY <1>1 DEF DeliveryInv, GreetedAreIn
<1>16. QED BY <1>11, <1>12, <1>13, <1>14, <1>15 DEF DeliveryInv

LEMMA DeliveryStep == HubInv /\ DeliveryInv /\ [Next]_vars => DeliveryInv'
<1> SUFFICES ASSUME HubInv, DeliveryInv, [Next]_vars PROVE DeliveryInv'
  OBVIOUS
<1>0. \A c \in table : c \in Clients BY DEF HubInv, HubTypes
<1>1. ASSUME UNCHANGED <<mail, subs, requests>>, table' \subseteq table, GreetedAreIn',
             \A k \in Channels : ~lagged'[k] => ~lagged[k] /\ Taken(k)' = Taken(k)
      PROVE  DeliveryInv'
  <2>1. SubscriptionOrdered' /\ NoHoles' BY <1>1 DEF DeliveryInv, SubscriptionOrdered, NoHoles
  <2>2. InEffectAll' BY <1>1 DEF DeliveryInv, InEffectAll
  <2>3. UpToDate' BY <1>1 DEF DeliveryInv, UpToDate
  <2>4. QED BY <1>1, <2>1, <2>2, <2>3 DEF DeliveryInv
<1>2. ASSUME UNCHANGED <<published, queue, lagged>>
      PROVE  \A k \in Channels : ~lagged'[k] => ~lagged[k] /\ Taken(k)' = Taken(k)
  BY <1>2 DEF Taken
<1>3. ASSUME NEW k \in Channels, Publish(k) PROVE DeliveryInv'
  <2>1. UNCHANGED clientVars BY <1>3 DEF Publish
  <2>2. \A j \in Channels : ~lagged'[j] => ~lagged[j] /\ Taken(j)' = Taken(j) BY <1>3, PublishTakesNone
  <2>3. GreetedAreIn' BY <2>1 DEF DeliveryInv, GreetedAreIn, clientVars
  <2>4. QED BY <1>1, <2>1, <2>2, <2>3 DEF clientVars
<1>4. ASSUME NEW k \in Channels, Broadcast(k) PROVE DeliveryInv'
  BY <1>4, BroadcastDelivers
<1>5. ASSUME NEW k \in Channels, BroadcastEnds(k) PROVE DeliveryInv'
  <2>1. UNCHANGED <<published, queue, lagged, clientVars>> BY <1>5 DEF BroadcastEnds
  <2>2. GreetedAreIn' BY <2>1 DEF DeliveryInv, GreetedAreIn, clientVars
  <2>3. QED BY <1>1, <1>2, <2>1, <2>2 DEF clientVars
<1>6. ASSUME NEW c \in Clients, Connect(c) PROVE DeliveryInv'
  <2>1. /\ socket[c] = "new" /\ table' = table \cup {c} /\ subs' = [subs EXCEPT ![c] = DefaultSubs]
        /\ sender' = [sender EXCEPT ![c] = "greet"]
        /\ UNCHANGED <<published, queue, lagged, mail, requests>>
    BY <1>6 DEF Connect, pubVars
  <2>2. c \notin table /\ mail[c] = <<>> /\ requests[c] = 0 BY <2>1 DEF HubInv, NewIsEmpty
  <2>3. subs'[c] = DefaultSubs /\ \A d \in Clients : d # c => subs'[d] = subs[d] /\ sender'[d] = sender[d]
    BY <2>1 DEF HubInv, HubTypes
  <2>4. SubscriptionOrdered' /\ NoHoles' BY <2>1 DEF DeliveryInv, SubscriptionOrdered, NoHoles
  <2>5. Len(mail[c]) = 0 BY <2>2
  <2>6. InEffect(mail[c], DefaultSubs) /\ \A k \in Channels : \A n : EndsAt(mail[c], k, n)
    BY <2>5 DEF InEffect, EndsAt
  <2>7. InEffectAll'
    <3> SUFFICES ASSUME NEW d \in table \cup {c} PROVE InEffect(mail[d], subs'[d])
      BY <2>1 DEF InEffectAll
    <3>1. CASE d = c BY <2>3, <2>6, <3>1
    <3>2. CASE d # c BY <1>0, <2>3, <3>2 DEF DeliveryInv, InEffectAll
    <3>3. QED BY <3>1, <3>2
  <2>8. UpToDate'
    <3> SUFFICES ASSUME NEW d \in table \cup {c}, requests[d] = 0
                 PROVE  /\ subs'[d] = DefaultSubs
                        /\ \A k \in Channels : ~lagged[k] => EndsAt(mail[d], k, Taken(k))
      BY <2>1 DEF UpToDate, Taken
    <3>1. CASE d = c BY <2>3, <2>6, <3>1
    <3>2. CASE d # c BY <1>0, <2>3, <3>2 DEF DeliveryInv, UpToDate
    <3>3. QED BY <3>1, <3>2
  <2>9. GreetedAreIn' BY <2>1, <2>3 DEF DeliveryInv, GreetedAreIn
  <2>10. QED BY <2>4, <2>7, <2>8, <2>9 DEF DeliveryInv
<1>7. ASSUME NEW c \in Clients, Greet(c) PROVE DeliveryInv'
  <2>1. /\ sender[c] = "greet" /\ mail' = [mail EXCEPT ![c] = Append(@, Note("welcome"))]
        /\ sender' = [sender EXCEPT ![c] = "run"]
        /\ UNCHANGED <<published, queue, lagged, table, subs, requests>>
    BY <1>7 DEF Greet, Put, pubVars
  <2>2. c \in table BY <2>1 DEF DeliveryInv, GreetedAreIn
  <2>3. GreetedAreIn' BY <2>1 DEF DeliveryInv, GreetedAreIn, HubInv, HubTypes
  <2>4. QED BY <2>1, <2>2, <2>3, NotePut
<1>8. ASSUME NEW c \in Clients, SendToSocket(c) \/ ReceiverEnds(c) \/ PeerCloses(c) PROVE DeliveryInv'
  <2>1. UNCHANGED <<published, queue, lagged, mail, subs, requests, table, sender>>
    BY <1>8 DEF SendToSocket, ReceiverEnds, PeerCloses, pubVars
  <2>2. GreetedAreIn' BY <2>1 DEF DeliveryInv, GreetedAreIn
  <2>3. QED BY <1>1, <1>2, <2>1, <2>2
<1>9. ASSUME NEW c \in Clients, SendFails(c) \/ RemoveClient(c) PROVE DeliveryInv'
  <2>1. /\ sender[c] \in {"run", "remove"} /\ table' \in {table, table \ {c}}
        /\ UNCHANGED <<published, queue, lagged, mail, subs, requests>>
    BY <1>9 DEF SendFails, RemoveClient, pubVars
  <2>2. \E to \in {"remove", "end"} : sender' = [sender EXCEPT ![c] = to]
    BY <1>9 DEF SendFails, RemoveClient
  <2>3. GreetedAreIn' BY <2>1, <2>2 DEF DeliveryInv, GreetedAreIn, HubInv, HubTypes
  <2>4. QED BY <1>1, <1>2, <2>1, <2>3
<1>10. ASSUME NEW c \in Clients, Subscribe(c) PROVE DeliveryInv'
  <2>1. PICK names \in Requests :
          IF c \in table
            THEN /\ subs' = [subs EXCEPT ![c] = Subscribed(names)]
                 /\ Put(c, Confirmation(Subscribed(names)))
            ELSE UNCHANGED <<subs, mail>>
    BY <1>10 DEF Subscribe
  <2>2. /\ requests' = [requests EXCEPT ![c] = @ + 1]
        /\ UNCHANGED <<published, queue, lagged, table, sender>>
    BY <1>10 DEF Subscribe, pubVars
  <2>3. requests'[c] # 0 /\ \A d \in Clients : d # c => requests'[d] = requests[d]
    BY <2>2 DEF HubInv, HubTypes
  <2>4. \A d \in Clients : d # c => mail'[d] = mail[d] /\ subs'[d] = subs[d]
    BY <2>1 DEF Put, HubInv, HubTypes
  <2>5. GreetedAreIn' BY <2>2 DEF DeliveryInv, GreetedAreIn
  <2>6. \A k \in Channels : Taken(k)' = Taken(k) BY <2>2 DEF Taken
  <2>7. AsSubscribed(mail'[c]) /\ (c \in table => InEffect(mail'[c], subs'[c]))
    <3>1. AsSubscribed(mail[c]) BY DEF DeliveryInv, SubscriptionOrdered
    <3>2. CASE c \in table
      <4>1. mail'[c] = Append(mail[c], Confirmation(Subscribed(names))) /\ subs'[c] = Subscribed(names)
        BY <2>1, <3>2 DEF Put, HubInv, HubTypes
      <4>2. Subscribed(names) \in SUBSET Topics /\ mail[c] \in Seq(Letters)
        BY SubscribedNames DEF HubInv, HubTypes
      <4>3. QED BY <3>1, <4>1, <4>2, PutConfirmation
    <3>3. CASE c \notin table BY <2>1, <3>1, <3>3
    <3>4. QED BY <3>2, <3>3
  <2>8. SubscriptionOrdered' BY <2>4, <2>7 DEF DeliveryInv, SubscriptionOrdered
  <2>9. NoHoles' BY <2>3, <2>4 DEF DeliveryInv, NoHoles
  <2>10. InEffectAll' BY <1>0, <2>2, <2>4, <2>7 DEF DeliveryInv, InEffectAll
  <2>11. UpToDate'
    <3> SUFFICES ASSUME NEW d \in table, requests'[d] = 0
                 PROVE  /\ subs'[d] = DefaultSubs
                        /\ \A k \in Channels : ~lagged[k] => EndsAt(mail'[d], k, Taken(k)')
      BY <2>2 DEF UpToDate
    <3>1. d # c /\ d \in Clients BY <1>0, <2>3
    <3>2. mail'[d] = mail[d] /\ subs'[d] = subs[d] /\ requests[d] = 0 BY <2>3, <2>4, <3>1
    <3>3. QED BY <2>6, <3>2 DEF DeliveryInv, UpToDate
  <2>12. QED BY <2>5, <2>8, <2>9, <2>10, <2>11 DEF DeliveryInv
<1>11. ASSUME NEW c \in Clients, Ping(c) PROVE DeliveryInv'
  <2>1. /\ requests' = [requests EXCEPT ![c] = @ + 1]
        /\ UNCHANGED <<published, queue, lagged, table, subs, sender>>
    BY <1>11 DEF Ping, pubVars
  <2>2. GreetedAreIn' BY <2>1 DEF DeliveryInv, GreetedAreIn
  <2>3. \A d \in Clients : requests'[d] = 0 => requests[d] = 0 BY <2>1 DEF HubInv, HubTypes
  <2>4. CASE c \in table
    <3>1. mail' = [mail EXCEPT ![c] = Append(@, Note("pong"))] BY <1>11, <2>4 DEF Ping, Put
    <3>2. QED BY <2>1, <2>2, <2>3, <2>4, <3>1, NotePut
  <2>5. CASE c \notin table
    <3>1. mail' = mail BY <1>11, <2>5 DEF Ping
    <3>2. SubscriptionOrdered' /\ NoHoles' /\ InEffectAll'
      BY <2>1, <2>3, <3>1 DEF DeliveryInv, SubscriptionOrdered, NoHoles, InEffectAll
    <3>3. UpToDate' BY <1>0, <2>1, <2>3, <3>1 DEF DeliveryInv, UpToDate, Taken
    <3>4. QED BY <2>2, <3>2, <3>3 DEF DeliveryInv
  <2>6. QED BY <2>4, <2>5
<1>12. CASE UNCHANGED vars
  <2>1. UNCHANGED <<published, queue, lagged, mail, subs, requests, table, sender>>
    BY <1>12 DEF vars, pubVars, clientVars
  <2>2. GreetedAreIn' BY <2>1 DEF DeliveryInv, GreetedAreIn
  <2>3. QED BY <1>1, <1>2, <2>1, <2>2
<1>13. QED
  BY <1>3, <1>4, <1>5, <1>6, <1>7, <1>8, <1>9, <1>10, <1>11, <1>12 DEF Next, Server, Users

(* Whatever follows a confirmation in a mailbox, up to the next one, is what the *)
(* client then subscribed to, however subscriptions, broadcasts and closing race: *)
(* handle_client_message changes the subscriptions and sends the confirmation    *)
(* under one write lock.                                                      *)
THEOREM SubscriptionIsOrdered == Spec => []SubscriptionOrdered
<1>1. Init => HubInv /\ DeliveryInv BY HubStarts
<1>2. HubInv /\ DeliveryInv /\ [Next]_vars => (HubInv /\ DeliveryInv)' BY HubStep, DeliveryStep
<1>3. HubInv /\ DeliveryInv => SubscriptionOrdered BY DEF DeliveryInv
<1>4. QED BY <1>1, <1>2, <1>3, PTL DEF Spec

(* What a client gets of a channel while it keeps its first subscriptions is an   *)
(* unbroken piece of what was published: a broadcast channel that lost a message *)
(* ends its task.                                                             *)
THEOREM NoHolesInMail == Spec => []NoHoles
<1>1. Init => HubInv /\ DeliveryInv BY HubStarts
<1>2. HubInv /\ DeliveryInv /\ [Next]_vars => (HubInv /\ DeliveryInv)' BY HubStep, DeliveryStep
<1>3. HubInv /\ DeliveryInv => NoHoles BY DEF DeliveryInv
<1>4. QED BY <1>1, <1>2, <1>3, PTL DEF Spec

-----------------------------------------------------------------------------
(* WebControl: where the commands still queued lead a part of the device: f     *)
(* gives what each command that concerns that part makes of it.               *)
Leads(q, f, now0, shown) ==
  /\ (\A i \in 1..Len(q) : q[i] \notin DOMAIN f) => shown = now0
  /\ \A j \in 1..Len(q) :
       q[j] \in DOMAIN f /\ (\A l \in j+1..Len(q) : q[l] \notin DOMAIN f) => shown = f[q[j]]

LEMMA LeadsThrough ==
  ASSUME NEW S, NEW q \in Seq(S), NEW c \in S, NEW f, NEW now0, NEW shown,
         IF c \in DOMAIN f THEN shown = f[c] ELSE Leads(q, f, now0, shown)
  PROVE  Leads(Append(q, c), f, now0, shown)
<1> DEFINE r == Append(q, c)
<1>1. /\ Len(q) \in Nat /\ Len(r) = Len(q) + 1
      /\ \A i \in 1..Len(q) : r[i] = q[i]
      /\ r[Len(q) + 1] = c
  OBVIOUS
<1> HIDE DEF r
<1>2. Len(q) + 1 \in 1..Len(r) BY <1>1
<1>3. CASE c \in DOMAIN f
  <2>1. ASSUME NEW j \in 1..Len(r), r[j] \in DOMAIN f, \A l \in j+1..Len(r) : r[l] \notin DOMAIN f
        PROVE  shown = f[r[j]]
    <3>1. CASE j \in 1..Len(q)
      <4>1. Len(q) + 1 \in j+1..Len(r) BY <1>1, <3>1
      <4>2. QED BY <1>1, <1>3, <2>1, <4>1
    <3>2. CASE j = Len(q) + 1 BY <1>1, <1>3, <3>2
    <3>3. QED BY <1>1, <3>1, <3>2
  <2>2. QED BY <1>1, <1>2, <1>3, <2>1 DEF Leads, r
<1>4. CASE c \notin DOMAIN f
  <2>1. (\A i \in 1..Len(r) : r[i] \notin DOMAIN f) => shown = now0 BY <1>1, <1>4 DEF Leads
  <2>2. ASSUME NEW j \in 1..Len(r), r[j] \in DOMAIN f, \A l \in j+1..Len(r) : r[l] \notin DOMAIN f
        PROVE  shown = f[r[j]]
    <3>1. j # Len(q) + 1 BY <1>1, <1>4, <2>2
    <3>2. j \in 1..Len(q) /\ \A l \in j+1..Len(q) : l \in j+1..Len(r) /\ l \in 1..Len(q) BY <1>1, <3>1
    <3>3. QED BY <1>1, <1>4, <2>2, <3>2 DEF Leads
  <2>3. QED BY <2>1, <2>2 DEF Leads, r
<1>5. QED BY <1>3, <1>4

LEMMA LeadsOn ==
  ASSUME NEW S, NEW q \in Seq(S), q # <<>>, NEW f, NEW now0, NEW shown, Leads(q, f, now0, shown)
  PROVE  Leads(Tail(q), f, IF Head(q) \in DOMAIN f THEN f[Head(q)] ELSE now0, shown)
<1> DEFINE r == Tail(q)
<1>1. /\ Len(q) \in Nat /\ Len(q) >= 1 /\ Len(r) = Len(q) - 1
      /\ \A i \in 1..Len(r) : r[i] = q[i + 1]
      /\ Head(q) = q[1]
  OBVIOUS
<1> HIDE DEF r
<1>2. \A l \in 2..Len(q) : l - 1 \in 1..Len(r) /\ q[l] = r[l - 1] BY <1>1
<1>3. (\A i \in 1..Len(r) : r[i] \notin DOMAIN f)
         => shown = (IF Head(q) \in DOMAIN f THEN f[Head(q)] ELSE now0)
  <2> SUFFICES ASSUME \A i \in 1..Len(r) : r[i] \notin DOMAIN f
               PROVE  shown = (IF Head(q) \in DOMAIN f THEN f[Head(q)] ELSE now0)
    OBVIOUS
  <2>1. \A l \in 2..Len(q) : q[l] \notin DOMAIN f BY <1>2
  <2>2. 1 \in 1..Len(q) BY <1>1
  <2>3. CASE q[1] \in DOMAIN f
    <3>1. \A l \in 1+1..Len(q) : q[l] \notin DOMAIN f BY <2>1
    <3>2. QED BY <1>1, <2>2, <2>3, <3>1 DEF Leads
  <2>4. CASE q[1] \notin DOMAIN f
    <3>1. \A l \in 1..Len(q) : l = 1 \/ l \in 2..Len(q) BY <1>1
    <3>2. QED BY <1>1, <2>1, <2>4, <3>1 DEF Leads
  <2>5. QED BY <2>3, <2>4
<1>4. ASSUME NEW j \in 1..Len(r), r[j] \in DOMAIN f, \A l \in j+1..Len(r) : r[l] \notin DOMAIN f
      PROVE  shown = f[r[j]]
  <2>1. j + 1 \in 1..Len(q) /\ q[j + 1] = r[j] BY <1>1
  <2>2. ASSUME NEW l \in (j+1)+1..Len(q) PROVE q[l] \notin DOMAIN f
    <3>1. l \in 2..Len(q) /\ l - 1 \in j+1..Len(r) BY <1>1
    <3>2. QED BY <1>2, <1>4, <3>1
  <2>3. QED BY <1>4, <2>1, <2>2 DEF Leads
<1>5. QED BY <1>3, <1>4 DEF Leads, r

(* What is shown of one part of the device, f, agrees with what the device is led  *)
(* to: it is the value of the last handler that has stored and not yet posted, or    *)
(* the value the commands still queued lead to; x is what the last command taken     *)
(* asked for, and what the device is in unless that command was lost.              *)
Led(q, f, now0, shown, k, gone) ==
  \E x : Leads(q, f, x, shown) /\ (k \notin gone => x = now0)

Agrees(run, q, f, waiting, now0, shown, k, gone) ==
  /\ waiting # <<>> => shown = f[run[waiting[Len(waiting)]].request]
  /\ waiting = <<>> => Led(q, f, now0, shown, k, gone)

ModeOf   == [c \in {"SetModeContinuous", "SetModeTrigger"} |->
               IF c = "SetModeTrigger" THEN "trigger" ELSE "continuous"]
StreamOf == [c \in {"StartStream", "StopStream"} |-> IF c = "StartStream" THEN "running" ELSE "stopped"]
ShownMode   == IF current_mode = "None" THEN "continuous" ELSE current_mode
ShownStream == IF collecting THEN "running" ELSE "stopped"

WebTypes ==
  /\ running \in [Handlers -> {Idle} \cup [at : {"store", "send"}, request : Controls]]
  /\ command_rx \in Seq(Controls)
  /\ collecting \in BOOLEAN /\ status \in {"running", "stopped"}
  /\ owed \in [Kinds -> Seq(Handlers)]

(* Who is owed has stored a value of that kind, once.                           *)
Owing(run, k, waiting) ==
  /\ \A i \in 1..Len(waiting) : run[waiting[i]].at = "send" /\ Kind(run[waiting[i]].request) = k
  /\ \A i, j \in 1..Len(waiting) : waiting[i] = waiting[j] => i = j

(* The device task and the device agree on the mode, and where the order is kept    *)
(* the state the server shows is the one the commands lead to.                  *)
WebInv ==
  /\ WebTypes
  /\ "mode" \in lost \/ (trigger_active <=> mode = "trigger")
  /\ ~misled
  /\ \A k \in Kinds : Owing(running, k, owed[k]) /\ (k \in crossed => owed[k] = <<>>)
  /\ "mode" \in crossed
       \/ Agrees(running, command_rx, ModeOf, owed["mode"], mode, ShownMode, "mode", lost)
  /\ "stream" \in crossed
       \/ Agrees(running, command_rx, StreamOf, owed["stream"], status, ShownStream, "stream", lost)

LEMMA KindsAre ==
  /\ Kinds = {"mode", "stream"} /\ "mode" # "stream"
  /\ \A c : Kind(c) = "mode" <=> c \in DOMAIN ModeOf
  /\ \A c : Kind(c) = "stream" <=> c \in DOMAIN StreamOf
BY DEF Kinds, Kind, ModeOf, StreamOf

LEMMA Ends ==
  ASSUME NEW S, NEW q \in Seq(S), NEW e \in S
  PROVE  /\ Append(q, e) \in Seq(S) /\ Append(q, e) # <<>>
         /\ Len(q) \in Nat /\ Len(Append(q, e)) = Len(q) + 1
         /\ Append(q, e)[Len(q) + 1] = e
         /\ \A i \in 1..Len(q) : Append(q, e)[i] = q[i]
OBVIOUS

LEMMA Tails ==
  ASSUME NEW S, NEW q \in Seq(S), q # <<>>
  PROVE  /\ Tail(q) \in Seq(S) /\ Head(q) = q[1]
         /\ Len(q) \in Nat /\ Len(q) >= 1 /\ Len(Tail(q)) = Len(q) - 1
         /\ \A i \in 1..Len(Tail(q)) : Tail(q)[i] = q[i + 1]
         /\ Tail(q) = <<>> <=> Len(q) = 1
<1>1. /\ Tail(q) \in Seq(S) /\ Head(q) = q[1]
      /\ Len(q) \in Nat /\ Len(q) >= 1 /\ Len(Tail(q)) = Len(q) - 1
      /\ \A i \in 1..Len(Tail(q)) : Tail(q)[i] = q[i + 1]
  OBVIOUS
<1>2. Tail(q) = <<>> <=> Len(Tail(q)) = 0 BY <1>1
<1>3. QED BY <1>1, <1>2

(* Those that are owed stay so as long as their handlers rest.                   *)
LEMMA OthersOwe ==
  ASSUME NEW run, NEW run2, NEW k, NEW waiting \in Seq(Handlers), Owing(run, k, waiting),
         \A o \in Handlers : run[o].at = "send" /\ Kind(run[o].request) = k => run2[o] = run[o]
  PROVE  /\ Owing(run2, k, waiting)
         /\ \A i \in 1..Len(waiting) : run2[waiting[i]] = run[waiting[i]]
<1>1. \A i \in 1..Len(waiting) : waiting[i] \in Handlers OBVIOUS
<1>2. \A i \in 1..Len(waiting) : run2[waiting[i]] = run[waiting[i]] BY <1>1 DEF Owing
<1>3. QED BY <1>2 DEF Owing

LEMMA OthersAgree ==
  ASSUME NEW run, NEW run2, NEW q, NEW f, NEW waiting \in Seq(Handlers), NEW now0, NEW shown, NEW k, NEW gone,
         \A i \in 1..Len(waiting) : run2[waiting[i]] = run[waiting[i]],
         Agrees(run, q, f, waiting, now0, shown, k, gone)
  PROVE  Agrees(run2, q, f, waiting, now0, shown, k, gone)
<1>1. waiting # <<>> => Len(waiting) \in 1..Len(waiting) OBVIOUS
<1>2. QED BY <1>1 DEF Agrees

(* A handler stores a value and is owed its post.                               *)
LEMMA StoreOwes ==
  ASSUME NEW run, NEW run2, NEW h \in Handlers, NEW k, NEW waiting \in Seq(Handlers), Owing(run, k, waiting),
         \A o \in Handlers : o # h => run2[o] = run[o],
         run[h].at = "store", run2[h].at = "send", Kind(run2[h].request) = k
  PROVE  Owing(run2, k, Append(waiting, h))
<1> DEFINE w == Append(waiting, h)
<1>1. /\ Len(waiting) \in Nat /\ Len(w) = Len(waiting) + 1 /\ w[Len(waiting) + 1] = h
      /\ \A i \in 1..Len(waiting) : w[i] = waiting[i]
  BY Ends
<1>2. Owing(run2, k, waiting) /\ \A i \in 1..Len(waiting) : waiting[i] # h
  <2>1. \A o \in Handlers : run[o].at = "send" /\ Kind(run[o].request) = k => run2[o] = run[o]
    OBVIOUS
  <2>2. \A i \in 1..Len(waiting) : waiting[i] # h BY DEF Owing
  <2>3. QED BY <2>1, <2>2, OthersOwe
<1> HIDE DEF w
<1>3. \A i \in 1..Len(w) : i \in 1..Len(waiting) \/ i = Len(waiting) + 1 BY <1>1
<1>4. \A i \in 1..Len(w) : run2[w[i]].at = "send" /\ Kind(run2[w[i]].request) = k
  BY <1>1, <1>2, <1>3 DEF Owing
<1>5. \A i, j \in 1..Len(w) : w[i] = w[j] => i = j
  BY <1>1, <1>2, <1>3 DEF Owing
<1>6. QED BY <1>4, <1>5 DEF Owing, w

(* The first that is owed posts.                                             *)
LEMMA PostOwes ==
  ASSUME NEW run, NEW run2, NEW k, NEW waiting \in Seq(Handlers), Owing(run, k, waiting),
         waiting # <<>>, \A o \in Handlers : o # Head(waiting) => run2[o] = run[o]
  PROVE  /\ Owing(run2, k, Tail(waiting))
         /\ \A i \in 1..Len(Tail(waiting)) : run2[Tail(waiting)[i]] = run[Tail(waiting)[i]]
<1> DEFINE w == Tail(waiting)
<1>1. /\ w \in Seq(Handlers) /\ waiting[1] = Head(waiting)
      /\ Len(waiting) \in Nat /\ Len(waiting) >= 1 /\ Len(w) = Len(waiting) - 1
      /\ \A i \in 1..Len(w) : w[i] = waiting[i + 1]
  BY Tails
<1> HIDE DEF w
<1>2. \A i \in 1..Len(w) : i + 1 \in 1..Len(waiting) /\ i + 1 # 1 /\ 1 \in 1..Len(waiting) BY <1>1
<1>3. \A i \in 1..Len(w) : w[i] # Head(waiting) /\ w[i] \in Handlers BY <1>1, <1>2 DEF Owing
<1>4. \A i \in 1..Len(w) : run2[w[i]] = run[w[i]] BY <1>3
<1>5. \A i \in 1..Len(w) : run2[w[i]].at = "send" /\ Kind(run2[w[i]].request) = k
  BY <1>1, <1>2, <1>4 DEF Owing
<1>6. \A i, j \in 1..Len(w) : w[i] = w[j] => i = j
  <2> SUFFICES ASSUME NEW i \in 1..Len(w), NEW j \in 1..Len(w), w[i] = w[j] PROVE i = j
    OBVIOUS
  <2>1. i + 1 = j + 1 BY <1>1, <1>2 DEF Owing
  <2>2. QED BY <2>1
<1>7. QED BY <1>4, <1>5, <1>6 DEF Owing, w

LEMMA PostAgrees ==
  ASSUME NEW run, NEW run2, NEW q \in Seq(Controls), NEW f, NEW waiting \in Seq(Handlers),
         NEW now0, NEW shown, NEW k, NEW gone,
         Agrees(run, q, f, waiting, now0, shown, k, gone),
         NEW h \in Handlers, run[h].request \in Controls, run[h].request \in DOMAIN f,
         waiting # <<>>, Head(waiting) = h,
         \A i \in 1..Len(Tail(waiting)) : run2[Tail(waiting)[i]] = run[Tail(waiting)[i]]
  PROVE  Agrees(run2, Append(q, run[h].request), f, Tail(waiting), now0, shown, k, gone)
<1>1. /\ Tail(waiting) \in Seq(Handlers) /\ waiting[1] = h
      /\ Len(waiting) \in Nat /\ Len(waiting) >= 1 /\ Len(Tail(waiting)) = Len(waiting) - 1
      /\ \A i \in 1..Len(Tail(waiting)) : Tail(waiting)[i] = waiting[i + 1]
      /\ Tail(waiting) = <<>> <=> Len(waiting) = 1
  BY Tails
<1>2. shown = f[run[waiting[Len(waiting)]].request] BY DEF Agrees
<1>3. CASE Tail(waiting) = <<>>
  <2>1. shown = f[run[h].request] BY <1>1, <1>2, <1>3
  <2>2. Leads(Append(q, run[h].request), f, now0, shown) BY <2>1, LeadsThrough
  <2>3. QED BY <1>3, <2>2 DEF Agrees, Led
<1>4. CASE Tail(waiting) # <<>>
  <2> DEFINE n == Len(Tail(waiting))
  <2>1. n \in 1..n /\ n + 1 = Len(waiting) BY <1>1, <1>4
  <2>2. Tail(waiting)[n] = waiting[Len(waiting)] BY <1>1, <2>1
  <2>3. run2[Tail(waiting)[n]] = run[waiting[Len(waiting)]] BY <2>1, <2>2
  <2>4. QED BY <1>2, <1>4, <2>3 DEF Agrees
<1>5. QED BY <1>3, <1>4

(* A command of another kind is queued.                                       *)
LEMMA QueueAgrees ==
  ASSUME NEW run, NEW q \in Seq(Controls), NEW f, NEW waiting, NEW now0, NEW shown, NEW k, NEW gone,
         Agrees(run, q, f, waiting, now0, shown, k, gone),
         NEW c \in Controls, c \notin DOMAIN f
  PROVE  Agrees(run, Append(q, c), f, waiting, now0, shown, k, gone)
<1>1. \A x : Leads(q, f, x, shown) => Leads(Append(q, c), f, x, shown) BY LeadsThrough
<1>2. QED BY <1>1 DEF Agrees, Led

LEMMA HandleAgrees ==
  ASSUME NEW run, NEW q \in Seq(Controls), q # <<>>, NEW f, NEW waiting,
         NEW now0, NEW shown, NEW k, NEW gone, NEW now1, NEW gone1,
         Agrees(run, q, f, waiting, now0, shown, k, gone),
         Head(q) \in DOMAIN f => (k \notin gone1 => now1 = f[Head(q)]),
         Head(q) \notin DOMAIN f => now1 = now0 /\ (k \in gone1 <=> k \in gone)
  PROVE  Agrees(run, Tail(q), f, waiting, now1, shown, k, gone1)
<1> SUFFICES ASSUME waiting = <<>> PROVE Led(Tail(q), f, now1, shown, k, gone1)
  BY DEF Agrees
<1>1. PICK x : Leads(q, f, x, shown) /\ (k \notin gone => x = now0) BY DEF Agrees, Led
<1>2. Leads(Tail(q), f, IF Head(q) \in DOMAIN f THEN f[Head(q)] ELSE x, shown) BY <1>1, LeadsOn
<1>3. CASE Head(q) \in DOMAIN f BY <1>2, <1>3 DEF Led
<1>4. CASE Head(q) \notin DOMAIN f BY <1>1, <1>2, <1>4 DEF Led
<1>5. QED BY <1>3, <1>4

(* What a store does to one kind: it is the one stored, or it is left alone.      *)
LEMMA StoreKind ==
  ASSUME WebInv, NEW h \in Handlers, Store(h), NEW k \in Kinds, NEW f, NEW now0, NEW shown, NEW shown2, NEW gone,
         \A c : Kind(c) = k <=> c \in DOMAIN f,
         k \in crossed \/ Agrees(running, command_rx, f, owed[k], now0, shown, k, gone),
         shown2 = IF running[h].request \in DOMAIN f THEN f[running[h].request] ELSE shown
  PROVE  /\ owed'[k] \in Seq(Handlers)
         /\ Owing(running', k, owed'[k]) /\ (k \in crossed' => owed'[k] = <<>>)
         /\ k \in crossed' \/ Agrees(running', command_rx, f, owed'[k], now0, shown2, k, gone)
<1> DEFINE r == running[h].request
<1>1. /\ running[h].at = "store"
      /\ running' = [running EXCEPT ![h] = IF Refused(r) THEN Idle ELSE [at |-> "send", request |-> r]]
      /\ NoteStored(h, Kind(r))
  BY DEF Store
<1>2. /\ running \in [Handlers -> {Idle} \cup [at : {"store", "send"}, request : Controls]]
      /\ owed \in [Kinds -> Seq(Handlers)]
      /\ Owing(running, k, owed[k]) /\ (k \in crossed => owed[k] = <<>>)
  BY DEF WebInv, WebTypes
<1>3. \A o \in Handlers : o # h => running'[o] = running[o] BY <1>1, <1>2
<1>4. owed[k] \in Seq(Handlers) BY <1>2
<1>5. /\ Owing(running', k, owed[k])
      /\ \A i \in 1..Len(owed[k]) : running'[owed[k][i]] = running[owed[k][i]]
  <2>1. \A o \in Handlers : running[o].at = "send" /\ Kind(running[o].request) = k => running'[o] = running[o]
    BY <1>1, <1>3
  <2>2. Owing(running', k, owed[k]) BY <1>2, <1>4, <2>1, OthersOwe
  <2>3. QED BY <1>2, <1>4, <2>1, <2>2, OthersOwe
<1>6. CASE Kind(r) # k
  <2>1. owed'[k] = owed[k] /\ (k \in crossed' <=> k \in crossed)
    BY <1>1, <1>2, <1>6 DEF NoteStored, posting
  <2>2. shown2 = shown BY <1>6
  <2>3. QED BY <1>2, <1>4, <1>5, <2>1, <2>2, OthersAgree
<1>7. CASE Kind(r) = k
  <2>1. r # "RequestBufferedData" BY <1>7 DEF Kind, Kinds
  <2>2. running'[h] = [at |-> "send", request |-> r] BY <1>1, <1>2, <2>1 DEF Refused
  <2>3. running'[h].at = "send" /\ running'[h].request = r BY <2>2
  <2>4. owed'[k] = (IF k \in crossed' THEN <<>> ELSE Append(owed[k], h))
    BY <1>1, <1>2, <1>7 DEF NoteStored
  <2>5. CASE k \in crossed'
    <3>1. owed'[k] = <<>> /\ Len(<<>>) = 0 BY <2>4, <2>5
    <3>2. QED BY <2>5, <3>1 DEF Owing
  <2>6. CASE k \notin crossed'
    <3>1. owed'[k] = Append(owed[k], h) BY <2>4, <2>6
    <3>2. Owing(running', k, Append(owed[k], h))
      BY <1>1, <1>2, <1>3, <1>4, <1>7, <2>3, StoreOwes
    <3>3. /\ Append(owed[k], h) \in Seq(Handlers) /\ Append(owed[k], h) # <<>>
          /\ Append(owed[k], h)[Len(Append(owed[k], h))] = h
      BY <1>4, Ends
    <3>4. shown2 = f[r] BY <1>7
    <3>5. Agrees(running', command_rx, f, Append(owed[k], h), now0, shown2, k, gone)
      BY <2>3, <3>3, <3>4 DEF Agrees
    <3>6. QED BY <2>6, <3>1, <3>2, <3>3, <3>5
  <2>7. QED BY <2>5, <2>6
<1>8. QED BY <1>6, <1>7

(* What a post does to one kind.                                              *)
LEMMA PostKind ==
  ASSUME WebInv, NEW h \in Handlers, Post(h), NEW k \in Kinds, NEW f, NEW now0, NEW shown, NEW gone,
         \A c : Kind(c) = k <=> c \in DOMAIN f,
         k \in crossed \/ Agrees(running, command_rx, f, owed[k], now0, shown, k, gone)
  PROVE  /\ owed'[k] \in Seq(Handlers)
         /\ Owing(running', k, owed'[k]) /\ (k \in crossed' => owed'[k] = <<>>)
         /\ k \in crossed' \/ Agrees(running', command_rx', f, owed'[k], now0, shown, k, gone)
<1> DEFINE r == running[h].request
<1>1. /\ running[h].at = "send" /\ command_rx' = Append(command_rx, r)
      /\ running' = [running EXCEPT ![h] = Idle]
      /\ NotePosted(h, Kind(r))
  BY DEF Post
<1>2. /\ running \in [Handlers -> {Idle} \cup [at : {"store", "send"}, request : Controls]]
      /\ owed \in [Kinds -> Seq(Handlers)] /\ command_rx \in Seq(Controls)
      /\ Owing(running, k, owed[k]) /\ (k \in crossed => owed[k] = <<>>)
  BY DEF WebInv, WebTypes
<1>3. \A o \in Handlers : o # h => running'[o] = running[o] BY <1>1, <1>2
<1>4. owed[k] \in Seq(Handlers) BY <1>2
<1>5. r \in Controls
  <2>1. running[h] # Idle BY <1>1 DEF Idle
  <2>2. QED BY <1>2, <2>1
<1>6. CASE Kind(r) # k
  <2>1. owed'[k] = owed[k] /\ (k \in crossed' <=> k \in crossed)
    BY <1>1, <1>2, <1>6 DEF NotePosted, posting
  <2>2. /\ Owing(running', k, owed[k])
        /\ \A i \in 1..Len(owed[k]) : running'[owed[k][i]] = running[owed[k][i]]
    <3>1. \A o \in Handlers : running[o].at = "send" /\ Kind(running[o].request) = k => running'[o] = running[o]
      BY <1>3, <1>6
    <3>2. Owing(running', k, owed[k]) BY <1>2, <1>4, <3>1, OthersOwe
    <3>3. QED BY <1>2, <1>4, <3>1, <3>2, OthersOwe
  <2>3. r \notin DOMAIN f BY <1>6
  <2>4. Agrees(running, command_rx, f, owed[k], now0, shown, k, gone)
          => Agrees(running', Append(command_rx, r), f, owed[k], now0, shown, k, gone)
    BY <1>2, <1>4, <1>5, <2>2, <2>3, OthersAgree, QueueAgrees
  <2>5. QED BY <1>1, <1>2, <1>4, <2>1, <2>2, <2>4
<1>7. CASE Kind(r) = k
  <2>1. CASE owed[k] # <<>> /\ Head(owed[k]) = h
    <3>1. owed'[k] = Tail(owed[k]) /\ (k \in crossed' <=> k \in crossed)
      BY <1>1, <1>2, <1>7, <2>1 DEF NotePosted
    <3>2. /\ Owing(running', k, Tail(owed[k]))
          /\ \A i \in 1..Len(Tail(owed[k])) : running'[Tail(owed[k])[i]] = running[Tail(owed[k])[i]]
      <4>1. \A o \in Handlers : o # Head(owed[k]) => running'[o] = running[o] BY <1>3, <2>1
      <4>2. Owing(running', k, Tail(owed[k])) BY <1>2, <1>4, <2>1, <4>1, PostOwes
      <4>3. QED BY <1>2, <1>4, <2>1, <4>1, <4>2, PostOwes
    <3>3. k \notin crossed BY <1>2, <2>1
    <3>4. r \in DOMAIN f BY <1>7
    <3>5. Agrees(running', Append(command_rx, r), f, Tail(owed[k]), now0, shown, k, gone)
      BY <1>2, <1>4, <1>5, <2>1, <3>2, <3>3, <3>4, PostAgrees
    <3>6. Tail(owed[k]) \in Seq(Handlers) BY <1>4, <2>1, Tails
    <3>7. QED BY <1>1, <3>1, <3>2, <3>3, <3>5, <3>6
  <2>2. CASE ~(owed[k] # <<>> /\ Head(owed[k]) = h)
    <3>1. owed'[k] = <<>> /\ k \in crossed' /\ Len(<<>>) = 0
      BY <1>1, <1>2, <1>7, <2>2 DEF NotePosted
    <3>2. QED BY <3>1 DEF Owing
  <2>3. QED BY <2>1, <2>2
<1>8. QED BY <1>6, <1>7

LEMMA WebStep == WebInv /\ [WebNext]_webVars => WebInv'
<1> SUFFICES ASSUME WebInv, [WebNext]_webVars PROVE WebInv'
  OBVIOUS
<1>0. /\ WebTypes /\ ~misled
      /\ "mode" \in lost \/ (trigger_active <=> mode = "trigger")
      /\ \A k \in Kinds : Owing(running, k, owed[k]) /\ (k \in crossed => owed[k] = <<>>)
      /\ "mode" \in crossed
           \/ Agrees(running, command_rx, ModeOf, owed["mode"], mode, ShownMode, "mode", lost)
      /\ "stream" \in crossed
           \/ Agrees(running, command_rx, StreamOf, owed["stream"], status, ShownStream, "stream", lost)
      /\ owed["mode"] \in Seq(Handlers) /\ owed["stream"] \in Seq(Handlers)
  BY KindsAre DEF WebInv, WebTypes
<1>1. ASSUME NEW h \in Handlers, NEW r \in Controls, Call(h, r) PROVE WebInv'
  <2>1. /\ running[h] = Idle /\ running' = [running EXCEPT ![h] = [at |-> "store", request |-> r]]
        /\ UNCHANGED <<collecting, current_mode, command_rx, trigger_active, mode, status, misled, lost, owed, crossed>>
    BY <1>1 DEF Call, server, device, posting
  <2>2. WebTypes' BY <1>0, <2>1 DEF WebTypes
  <2>3. \A o \in Handlers : o # h => running'[o] = running[o] BY <1>0, <2>1 DEF WebTypes
  <2>4. running[h].at # "send" BY <2>1 DEF Idle
  <2>5. ASSUME NEW k \in Kinds
        PROVE  /\ Owing(running', k, owed[k])
               /\ \A i \in 1..Len(owed[k]) : running'[owed[k][i]] = running[owed[k][i]]
    <3>1. owed[k] \in Seq(Handlers) /\ Owing(running, k, owed[k]) BY <1>0 DEF WebTypes
    <3>2. \A o \in Handlers : running[o].at = "send" /\ Kind(running[o].request) = k => running'[o] = running[o]
      BY <2>3, <2>4
    <3>3. Owing(running', k, owed[k]) BY <3>1, <3>2, OthersOwe
    <3>4. QED BY <3>1, <3>2, <3>3, OthersOwe
  <2>6. ShownMode' = ShownMode /\ ShownStream' = ShownStream BY <2>1 DEF ShownMode, ShownStream
  <2>7. "mode" \in crossed
          \/ Agrees(running', command_rx, ModeOf, owed["mode"], mode, ShownMode, "mode", lost)
    BY <1>0, <2>5, KindsAre, OthersAgree
  <2>8. "stream" \in crossed
          \/ Agrees(running', command_rx, StreamOf, owed["stream"], status, ShownStream, "stream", lost)
    BY <1>0, <2>5, KindsAre, OthersAgree
  <2>9. QED BY <1>0, <2>1, <2>2, <2>5, <2>6, <2>7, <2>8 DEF WebInv
<1>2. ASSUME NEW h \in Handlers, Store(h) PROVE WebInv'
  <2> DEFINE r == running[h].request
  <2>1. /\ running[h].at = "store"
        /\ running' = [running EXCEPT ![h] = IF Refused(r) THEN Idle ELSE [at |-> "send", request |-> r]]
        /\ collecting' = Stored(r, collecting, current_mode).collecting
        /\ current_mode' = Stored(r, collecting, current_mode).current_mode
        /\ NoteStored(h, Kind(r))
        /\ UNCHANGED <<command_rx, trigger_active, mode, status, misled, lost>>
    BY <1>2 DEF Store, device
  <2>2. r \in Controls
    <3>1. running[h] # Idle BY <2>1 DEF Idle
    <3>2. QED BY <1>0, <3>1 DEF WebTypes
  <2>4. collecting' = (CASE r = "StartStream" -> TRUE [] r = "StopStream" -> FALSE [] OTHER -> collecting)
    BY <2>1 DEF Stored
  <2>5. current_mode' = (CASE r = "SetModeContinuous" -> "continuous"
                           [] r = "SetModeTrigger" -> "trigger" [] OTHER -> current_mode)
    BY <2>1 DEF Stored
  <2>6. ShownMode' = IF r \in DOMAIN ModeOf THEN ModeOf[r] ELSE ShownMode
    <3>1. CASE r = "SetModeContinuous" BY <2>5, <3>1 DEF ModeOf, ShownMode
    <3>2. CASE r = "SetModeTrigger" BY <2>5, <3>2 DEF ModeOf, ShownMode
    <3>3. CASE r \notin {"SetModeContinuous", "SetModeTrigger"} BY <2>5, <3>3 DEF ModeOf, ShownMode
    <3>4. QED BY <3>1, <3>2, <3>3
  <2>7. ShownStream' = IF r \in DOMAIN StreamOf THEN StreamOf[r] ELSE ShownStream
    <3>1. CASE r = "StartStream" BY <2>4, <3>1 DEF StreamOf, ShownStream
    <3>2. CASE r = "StopStream" BY <2>4, <3>2 DEF StreamOf, ShownStream
    <3>3. CASE r \notin {"StartStream", "StopStream"} BY <2>4, <3>3 DEF StreamOf, ShownStream
    <3>4. QED BY <3>1, <3>2, <3>3
  <2>8. /\ owed'["mode"] \in Seq(Handlers)
        /\ Owing(running', "mode", owed'["mode"]) /\ ("mode" \in crossed' => owed'["mode"] = <<>>)
        /\ "mode" \in crossed'
             \/ Agrees(running', command_rx, ModeOf, owed'["mode"], mode, ShownMode', "mode", lost)
    BY <1>0, <1>2, <2>6, KindsAre, StoreKind
  <2>9. /\ owed'["stream"] \in Seq(Handlers)
        /\ Owing(running', "stream", owed'["stream"]) /\ ("stream" \in crossed' => owed'["stream"] = <<>>)
        /\ "stream" \in crossed'
             \/ Agrees(running', command_rx, StreamOf, owed'["stream"], status, ShownStream', "stream", lost)
    BY <1>0, <1>2, <2>7, KindsAre, StoreKind
  <2>10. WebTypes'
    <3>1. collecting' \in BOOLEAN BY <1>0, <2>4 DEF WebTypes
    <3>2. owed' \in [Kinds -> Seq(Handlers)]
      <4>1. \E v : owed' = [owed EXCEPT ![Kind(r)] = v] \/ owed' = owed BY <2>1 DEF NoteStored, posting
      <4>2. DOMAIN owed' = Kinds /\ owed' = [k \in Kinds |-> owed'[k]] BY <1>0, <4>1 DEF WebTypes
      <4>3. QED BY <2>8, <2>9, <4>2, KindsAre
    <3>3. QED BY <1>0, <2>1, <2>2, <3>1, <3>2 DEF WebTypes
  <2>11. QED BY <1>0, <2>1, <2>8, <2>9, <2>10, KindsAre DEF WebInv
<1>3. ASSUME NEW h \in Handlers, Post(h) PROVE WebInv'
  <2> DEFINE r == running[h].request
  <2>1. /\ running[h].at = "send" /\ command_rx' = Append(command_rx, r)
        /\ running' = [running EXCEPT ![h] = Idle]
        /\ NotePosted(h, Kind(r))
        /\ UNCHANGED <<collecting, current_mode, trigger_active, mode, status, misled, lost>>
    BY <1>3 DEF Post, server, device
  <2>2. r \in Controls
    <3>1. running[h] # Idle BY <2>1 DEF Idle
    <3>2. QED BY <1>0, <3>1 DEF WebTypes
  <2>3. ShownMode' = ShownMode /\ ShownStream' = ShownStream BY <2>1 DEF ShownMode, ShownStream
  <2>4. /\ owed'["mode"] \in Seq(Handlers)
        /\ Owing(running', "mode", owed'["mode"]) /\ ("mode" \in crossed' => owed'["mode"] = <<>>)
        /\ "mode" \in crossed'
             \/ Agrees(running', command_rx', ModeOf, owed'["mode"], mode, ShownMode, "mode", lost)
    BY <1>0, <1>3, KindsAre, PostKind
  <2>5. /\ owed'["stream"] \in Seq(Handlers)
        /\ Owing(running', "stream", owed'["stream"]) /\ ("stream" \in crossed' => owed'["stream"] = <<>>)
        /\ "stream" \in crossed'
             \/ Agrees(running', command_rx', StreamOf, owed'["stream"], status, ShownStream, "stream", lost)
    BY <1>0, <1>3, KindsAre, PostKind
  <2>6. WebTypes'
    <3>1. owed' \in [Kinds -> Seq(Handlers)]
      <4>1. \E v : owed' = [owed EXCEPT ![Kind(r)] = v] \/ owed' = owed BY <2>1 DEF NotePosted, posting
      <4>2. DOMAIN owed' = Kinds /\ owed' = [k \in Kinds |-> owed'[k]] BY <1>0, <4>1 DEF WebTypes
      <4>3. QED BY <2>4, <2>5, <4>2, KindsAre
    <3>2. command_rx' \in Seq(Controls) BY <1>0, <2>1, <2>2, Ends DEF WebTypes
    <3>3. QED BY <1>0, <2>1, <3>1, <3>2 DEF WebTypes
  <2>7. QED BY <1>0, <2>1, <2>3, <2>4, <2>5, <2>6, KindsAre DEF WebInv
<1>4. ASSUME NEW delivered \in BOOLEAN, Handle(delivered) PROVE WebInv'
  <2> DEFINE c == Head(command_rx)
  <2>1. /\ command_rx # <<>> /\ command_rx' = Tail(command_rx)
        /\ trigger_active' = (c = "SetModeTrigger" \/ (trigger_active /\ c # "SetModeContinuous"))
        /\ IF Written(c) /\ delivered THEN Obey(c) ELSE UNCHANGED <<mode, status, misled>>
        /\ lost' = IF delivered THEN lost \ {Kind(c)} ELSE lost \cup ({Kind(c)} \cap Kinds)
        /\ UNCHANGED <<running, collecting, current_mode, owed, crossed>>
    BY <1>4 DEF Handle, server, posting
  <2>2. command_rx \in Seq(Controls) BY <1>0 DEF WebTypes
  <2>3. /\ "mode" \notin lost' /\ c \in DOMAIN ModeOf => delivered
        /\ c \notin DOMAIN ModeOf => ("mode" \in lost' <=> "mode" \in lost)
    BY <2>1, KindsAre
  <2>4. /\ "stream" \notin lost' /\ c \in DOMAIN StreamOf => delivered
        /\ c \notin DOMAIN StreamOf => ("stream" \in lost' <=> "stream" \in lost)
    BY <2>1, KindsAre
  <2>5. /\ c \in DOMAIN ModeOf /\ delivered => mode' = ModeOf[c]
        /\ c \notin DOMAIN ModeOf => mode' = mode
    <3>1. CASE c = "SetModeContinuous" BY <2>1, <3>1 DEF Written, Obey, ModeOf
    <3>2. CASE c = "SetModeTrigger" BY <2>1, <3>2 DEF Written, Obey, ModeOf
    <3>3. CASE c \notin {"SetModeContinuous", "SetModeTrigger"} BY <2>1, <3>3 DEF Obey, ModeOf
    <3>4. QED BY <3>1, <3>2, <3>3
  <2>6. /\ c \in DOMAIN StreamOf /\ delivered => status' = StreamOf[c]
        /\ c \notin DOMAIN StreamOf => status' = status
    <3>1. CASE c = "StartStream" BY <2>1, <3>1 DEF Written, Obey, StreamOf
    <3>2. CASE c = "StopStream" BY <2>1, <3>2 DEF Written, Obey, StreamOf
    <3>3. CASE c \notin {"StartStream", "StopStream"} BY <2>1, <3>3 DEF Obey, StreamOf
    <3>4. QED BY <3>1, <3>2, <3>3
  <2>7. ~misled' BY <1>0, <2>1 DEF Written, Obey
  <2>8. "mode" \in lost' \/ (trigger_active' <=> mode' = "trigger")
    <3>1. CASE c = "SetModeContinuous" BY <2>1, <2>3, <2>5, <3>1 DEF ModeOf
    <3>2. CASE c = "SetModeTrigger" BY <2>1, <2>3, <2>5, <3>2 DEF ModeOf
    <3>3. CASE c \notin {"SetModeContinuous", "SetModeTrigger"}
      <4>1. c \notin DOMAIN ModeOf BY <3>3 DEF ModeOf
      <4>2. QED BY <1>0, <2>1, <2>3, <2>5, <3>3, <4>1
    <3>4. QED BY <3>1, <3>2, <3>3
  <2>9. WebTypes'
    <3>1. status' \in {"running", "stopped"}
      <4>1. status' = status \/ status' \in {"running", "stopped"}
        BY <2>1 DEF Obey
      <4>2. QED BY <1>0, <4>1 DEF WebTypes
    <3>2. Tail(command_rx) \in Seq(Controls) BY <2>1, <2>2, Tails
    <3>3. QED BY <1>0, <2>1, <3>1, <3>2 DEF WebTypes
  <2>10. ShownMode' = ShownMode /\ ShownStream' = ShownStream BY <2>1 DEF ShownMode, ShownStream
  <2>11. "mode" \in crossed
           \/ Agrees(running, Tail(command_rx), ModeOf, owed["mode"], mode', ShownMode, "mode", lost')
    BY <1>0, <2>1, <2>2, <2>3, <2>5, HandleAgrees
  <2>12. "stream" \in crossed
           \/ Agrees(running, Tail(command_rx), StreamOf, owed["stream"], status', ShownStream, "stream", lost')
    BY <1>0, <2>1, <2>2, <2>4, <2>6, HandleAgrees
  <2>13. QED BY <1>0, <2>1, <2>7, <2>8, <2>9, <2>10, <2>11, <2>12 DEF WebInv
<1>5. CASE UNCHANGED webVars
  <2>1. UNCHANGED <<running, collecting, current_mode, command_rx, trigger_active, mode, status, misled, lost, owed, crossed>>
    BY <1>5 DEF webVars, server, device, posting
  <2>2. QED BY <2>1 DEF WebInv, WebTypes, ShownMode, ShownStream
<1>6. QED BY <1>1, <1>2, <1>3, <1>4, <1>5 DEF WebNext

LEMMA WebStarts == WebInit => WebInv
<1> SUFFICES ASSUME WebInit PROVE WebInv
  OBVIOUS
<1>1. /\ running = [h \in Handlers |-> Idle] /\ command_rx = <<>> /\ collecting = FALSE
      /\ current_mode = "None" /\ mode = "continuous" /\ status = "stopped" /\ trigger_active = FALSE
      /\ misled = FALSE /\ owed = [k \in Kinds |-> <<>>]
  BY DEF WebInit
<1>2. WebTypes
  <2>1. <<>> \in Seq(Controls) /\ <<>> \in Seq(Handlers) OBVIOUS
  <2>2. owed \in [Kinds -> Seq(Handlers)] BY <1>1, <2>1
  <2>3. running \in [Handlers -> {Idle} \cup [at : {"store", "send"}, request : Controls]]
    BY <1>1
  <2>4. QED BY <1>1, <2>1, <2>2, <2>3 DEF WebTypes
<1>3. \A k \in Kinds : Owing(running, k, owed[k]) /\ owed[k] = <<>>
  <2>1. \A k \in Kinds : owed[k] = <<>> /\ Len(owed[k]) = 0 BY <1>1
  <2>2. QED BY <2>1 DEF Owing
<1>4. \A f, x : Leads(command_rx, f, x, x)
  <2>1. Len(command_rx) = 0 BY <1>1
  <2>2. QED BY <2>1 DEF Leads
<1>5. ShownMode = mode /\ ShownStream = status BY <1>1 DEF ShownMode, ShownStream
<1>6. \A f, x, k, gone : Agrees(running, command_rx, f, <<>>, x, x, k, gone) BY <1>4 DEF Agrees, Led
<1>7. QED BY <1>1, <1>2, <1>3, <1>5, <1>6, KindsAre DEF WebInv

(* A request for buffered data never reaches a device outside trigger mode, whatever  *)
(* comes between the check of the mode and the post of the command, unless the last   *)
(* mode command was lost: the device task takes note of the mode with every mode      *)
(* command it writes, and what it writes arrives in its order.                  *)
THEOREM NeverAskedInContinuousMode == WebSpec => []DataAskedInTriggerMode
<1>1. WebInit => WebInv BY WebStarts
<1>2. WebInv /\ [WebNext]_webVars => WebInv' BY WebStep
<1>3. WebInv => DataAskedInTriggerMode BY DEF WebInv, DataAskedInTriggerMode
<1>4. QED BY <1>1, <1>2, <1>3, PTL DEF WebSpec

(* What get_status shows once every command is carried out is what the device is in,   *)
(* unless the last command of that kind was lost or handlers of that kind posted in     *)
(* another order than they stored: the store comes before the post.               *)
THEOREM WhatIsShownIsTrue == WebSpec => []ShownIsTrue
<1>1. WebInit => WebInv BY WebStarts
<1>2. WebInv /\ [WebNext]_webVars => WebInv' BY WebStep
<1>3. WebInv => ShownIsTrue
  <2> SUFFICES ASSUME WebInv, Quiet
               PROVE  /\ "mode" \in lost \cup crossed \/ current_mode \in {mode, "None"}
                      /\ "stream" \in lost \cup crossed \/ collecting = (status = "running")
    BY DEF ShownIsTrue
  <2>1. ASSUME NEW k \in Kinds PROVE owed[k] = <<>>
    <3>1. owed[k] \in Seq(Handlers) /\ Owing(running, k, owed[k]) BY DEF WebInv, WebTypes
    <3>2. \A h \in Handlers : running[h].at # "send" BY DEF Quiet, Idle
    <3>3. ASSUME owed[k] # <<>> PROVE FALSE
      <4>1. 1 \in 1..Len(owed[k]) /\ owed[k][1] \in Handlers BY <3>1, <3>3
      <4>2. QED BY <3>1, <3>2, <4>1 DEF Owing
    <3>4. QED BY <3>3
  <2>2. Len(command_rx) = 0 BY DEF Quiet
  <2>3. \A f, x, shown : Leads(command_rx, f, x, shown) => shown = x BY <2>2 DEF Leads
  <2>4. "mode" \in lost \cup crossed \/ ShownMode = mode
    BY <2>1, <2>3, KindsAre DEF WebInv, Agrees, Led
  <2>5. "stream" \in lost \cup crossed \/ ShownStream = status
    BY <2>1, <2>3, KindsAre DEF WebInv, Agrees, Led
  <2>6. ShownMode = mode => current_mode \in {mode, "None"} BY DEF ShownMode
  <2>7. ShownStream = status => collecting = (status = "running")
    <3>1. collecting \in BOOLEAN BY DEF WebInv, WebTypes
    <3>2. CASE collecting BY <3>2 DEF ShownStream
    <3>3. CASE ~collecting BY <3>1, <3>3 DEF ShownStream
    <3>4. QED BY <3>1, <3>2, <3>3
  <2>8. QED BY <2>4, <2>5, <2>6, <2>7
<1>4. QED BY <1>1, <1>2, <1>3, PTL DEF WebSpec

-----------------------------------------------------------------------------
(* BurstSaves: types of requests and of the directory, in which no two files were *)
(* created at the same time.                                                  *)
SavedFormats == {"binary", "csv", "json", "wave"}
Paths    == Seq(Dirs \cup Names \cup Bursts \cup SavedFormats)

SaveRequests ==
  [at : {"idle", "export", "write", "remove", "answer"}, of : Bursts \cup {"none", "upload"},
   path : Paths, todo : Seq(SavedFormats), done : Seq(Paths),
   created : SUBSET Paths, doomed : SUBSET Paths, ok : BOOLEAN]

DirTypes ==
  /\ now \in Nat /\ IsFiniteSet(DOMAIN files) /\ DOMAIN files \subseteq Paths
  /\ \A p \in DOMAIN files : files[p].born \in 1..now
  /\ \A p, q \in DOMAIN files : p # q => files[p].born # files[q].born

SavesTypes ==
  /\ req \in [Savers -> SaveRequests]
  /\ \A r \in Savers : req[r].at = "write" => req[r].todo # <<>>
  /\ DirTypes

LEMMA NormalisedFormats == ASSUME NEW list PROVE Normalised(list) \in Seq(SavedFormats)
<1>1. \A f \in Supported : Canonical(f) \in SavedFormats BY DEF Supported, Canonical, SavedFormats
<1>2. \A f \in Supported : <<Canonical(f)>> \in Seq(SavedFormats) BY <1>1
<1>3. \A f \in Supported : Asked(f, list) \in Seq(SavedFormats) BY <1>2 DEF Asked
<1>4. /\ Asked("bin", list) \in Seq(SavedFormats) /\ Asked("binary", list) \in Seq(SavedFormats)
      /\ Asked("csv", list) \in Seq(SavedFormats) /\ Asked("json", list) \in Seq(SavedFormats)
  BY <1>3 DEF Supported
<1>5. QED BY <1>4 DEF Normalised

LEMMA NoRequestTypes == NoRequest \in SaveRequests
<1>1. <<>> \in Paths /\ <<>> \in Seq(SavedFormats) /\ <<>> \in Seq(Paths) BY DEF Paths
<1>2. QED BY <1>1 DEF NoRequest, SaveRequests

(* A written file is a new one, younger than all others, or it takes the place of    *)
(* the one of that name and keeps its age.                                     *)
LEMMA WriteTypes ==
  ASSUME SavesTypes, NEW r \in Savers, Write(r)
  PROVE  /\ Append(req[r].path, Head(req[r].todo)) \in Paths
         /\ req'[r] \in SaveRequests /\ req'[r].at = "export"
         /\ req' = [req EXCEPT ![r] = req'[r]]
         /\ DirTypes'
<1> DEFINE p == Append(req[r].path, Head(req[r].todo))
<1>1. req[r] \in SaveRequests /\ req[r].todo # <<>> BY DEF SavesTypes, Write
<1>2. req[r].path \in Paths /\ req[r].todo \in Seq(SavedFormats) BY <1>1 DEF SaveRequests
<1>3. Head(req[r].todo) \in SavedFormats /\ Tail(req[r].todo) \in Seq(SavedFormats) BY <1>1, <1>2
<1>4. p \in Paths BY <1>2, <1>3 DEF Paths
<1>5. /\ files' = [q \in DOMAIN files \cup {p} |->
                     IF q # p THEN files[q]
                     ELSE [of |-> req[r].of, born |-> IF p \notin DOMAIN files THEN now + 1 ELSE files[p].born]]
      /\ now' = IF p \notin DOMAIN files THEN now + 1 ELSE now
      /\ req' = [req EXCEPT ![r].at = "export", ![r].todo = Tail(@), ![r].done = Append(@, p),
                            ![r].created = IF p \notin DOMAIN files THEN @ \cup {p} ELSE @]
  BY DEF Write
<1> HIDE DEF p
<1>6. /\ req'[r] \in SaveRequests /\ req'[r].at = "export"
      /\ req' = [req EXCEPT ![r] = req'[r]]
  <2>1. Append(req[r].done, p) \in Seq(Paths) BY <1>1, <1>4 DEF SaveRequests
  <2>2. req'[r] = [req[r] EXCEPT !.at = "export", !.todo = Tail(@), !.done = Append(@, p),
                                 !.created = IF p \notin DOMAIN files THEN @ \cup {p} ELSE @]
    BY <1>5 DEF SavesTypes
  <2>3. PICK made0 \in SUBSET Paths : made0 = IF p \notin DOMAIN files THEN req[r].created \cup {p} ELSE req[r].created
    BY <1>1, <1>4 DEF SaveRequests
  <2>4. req'[r] = [at |-> "export", of |-> req[r].of, path |-> req[r].path, todo |-> Tail(req[r].todo),
                   done |-> Append(req[r].done, p), created |-> made0,
                   doomed |-> req[r].doomed, ok |-> req[r].ok]
    BY <1>1, <2>2, <2>3 DEF SaveRequests
  <2>5. req'[r] \in SaveRequests /\ req'[r].at = "export" BY <1>1, <1>3, <2>1, <2>4 DEF SaveRequests
  <2>6. req' = [req EXCEPT ![r] = req'[r]] BY <1>5 DEF SavesTypes
  <2>7. QED BY <2>5, <2>6
<1>7. DOMAIN files' = DOMAIN files \cup {p} BY <1>5
<1>8. now' \in Nat /\ now' >= now BY <1>5 DEF SavesTypes, DirTypes
<1>9. IsFiniteSet(DOMAIN files') /\ DOMAIN files' \subseteq Paths
  BY <1>4, <1>7, FS_AddElement DEF SavesTypes, DirTypes
<1>10. \A q \in DOMAIN files : files'[q].born = files[q].born
  <2> SUFFICES ASSUME NEW q \in DOMAIN files PROVE files'[q].born = files[q].born
    OBVIOUS
  <2>1. CASE q = p
    <3>1. files'[p] = [of |-> req[r].of, born |-> files[p].born] BY <1>5, <2>1
    <3>2. QED BY <2>1, <3>1
  <2>2. CASE q # p BY <1>5, <2>2
  <2>3. QED BY <2>1, <2>2
<1>11. p \notin DOMAIN files => files'[p].born = now + 1 /\ now' = now + 1
  <2> SUFFICES ASSUME p \notin DOMAIN files PROVE files'[p].born = now + 1 /\ now' = now + 1
    OBVIOUS
  <2>1. files'[p] = [of |-> req[r].of, born |-> now + 1] BY <1>5
  <2>2. QED BY <1>5, <2>1
<1>12. \A q \in DOMAIN files : files[q].born \in Nat /\ 1 <= files[q].born /\ files[q].born <= now
  BY DEF SavesTypes, DirTypes
<1>13. now \in Nat BY DEF SavesTypes, DirTypes
<1>14. \A q \in DOMAIN files' : files'[q].born \in 1..now'
  <2> SUFFICES ASSUME NEW q \in DOMAIN files' PROVE files'[q].born \in 1..now'
    OBVIOUS
  <2>1. CASE q \in DOMAIN files BY <1>8, <1>10, <1>12, <1>13, <2>1
  <2>2. CASE q \notin DOMAIN files
    <3>1. q = p BY <1>7, <2>2
    <3>2. QED BY <1>11, <1>13, <2>2, <3>1
  <2>3. QED BY <2>1, <2>2
<1>15. \A q, o \in DOMAIN files' : q # o => files'[q].born # files'[o].born
  <2> SUFFICES ASSUME NEW q \in DOMAIN files', NEW o \in DOMAIN files', q # o
               PROVE  files'[q].born # files'[o].born
    OBVIOUS
  <2>1. CASE q \in DOMAIN files /\ o \in DOMAIN files BY <1>10, <2>1 DEF SavesTypes, DirTypes
  <2>2. CASE q \notin DOMAIN files
    <3>1. q = p /\ o \in DOMAIN files BY <1>7, <2>2
    <3>2. files'[q].born = now + 1 /\ files'[o].born = files[o].born /\ files[o].born <= now
      BY <1>10, <1>11, <1>12, <2>2, <3>1
    <3>3. QED BY <1>12, <1>13, <3>1, <3>2
  <2>3. CASE o \notin DOMAIN files
    <3>1. o = p /\ q \in DOMAIN files BY <1>7, <2>3
    <3>2. files'[o].born = now + 1 /\ files'[q].born = files[q].born /\ files[q].born <= now
      BY <1>10, <1>11, <1>12, <2>3, <3>1
    <3>3. QED BY <1>12, <1>13, <3>1, <3>2
  <2>4. QED BY <2>1, <2>2, <2>3
<1>16. QED BY <1>4, <1>6, <1>8, <1>9, <1>14, <1>15 DEF DirTypes, p

(* Removing files.                                                            *)
LEMMA RemoveTypes ==
  ASSUME SavesTypes, NEW p, files' = Restrict(files, DOMAIN files \ {p}), now' = now
  PROVE  DirTypes'
<1>1. DOMAIN files' = DOMAIN files \ {p} /\ \A q \in DOMAIN files' : files'[q] = files[q]
  BY DEF Restrict
<1>2. IsFiniteSet(DOMAIN files \ {p}) BY FS_RemoveElement DEF SavesTypes, DirTypes
<1>3. \A q \in DOMAIN files' : q \in DOMAIN files /\ files'[q].born = files[q].born BY <1>1
<1>4. IsFiniteSet(DOMAIN files') BY <1>1, <1>2
<1>5. \A q \in DOMAIN files' : files'[q].born \in 1..now' BY <1>3 DEF SavesTypes, DirTypes
<1>6. \A q, o \in DOMAIN files' : q # o => files'[q].born # files'[o].born
  <2> SUFFICES ASSUME NEW q \in DOMAIN files', NEW o \in DOMAIN files', q # o
               PROVE  files'[q].born # files'[o].born
    OBVIOUS
  <2>1. q \in DOMAIN files /\ o \in DOMAIN files BY <1>3
  <2>2. files[q].born # files[o].born BY <2>1 DEF SavesTypes, DirTypes
  <2>3. QED BY <1>3, <2>2
<1>7. now' \in Nat /\ DOMAIN files' \subseteq Paths BY <1>3 DEF SavesTypes, DirTypes
<1>8. QED BY <1>4, <1>5, <1>6, <1>7 DEF DirTypes

(* A request that changes nothing but its own record and no file keeps the types.  *)
LEMMA RequestTypes ==
  ASSUME SavesTypes, NEW r \in Savers, NEW q \in SaveRequests,
         req' = [req EXCEPT ![r] = q], q.at = "write" => q.todo # <<>>, DirTypes'
  PROVE  SavesTypes'
BY DEF SavesTypes

LEMMA SavesStep == SavesTypes /\ [SavesNext]_savesVars => SavesTypes'
<1> SUFFICES ASSUME SavesTypes, [SavesNext]_savesVars PROVE SavesTypes'
  OBVIOUS
<1>1. \A r \in Savers : req[r] \in SaveRequests BY DEF SavesTypes
<1>2. UNCHANGED <<files, now>> => DirTypes' BY DEF SavesTypes, DirTypes
<1>3. ASSUME NEW r \in Savers, NEW ok \in BOOLEAN, Finish(r, ok), UNCHANGED <<files, now>> PROVE SavesTypes'
  <2> DEFINE q == [req[r] EXCEPT !.at = "answer", !.ok = ok]
  <2>1. req' = [req EXCEPT ![r] = q] BY <1>3 DEF Finish, SavesTypes
  <2>2. q \in SaveRequests /\ q.at = "answer" BY <1>1 DEF SaveRequests
  <2> HIDE DEF q
  <2>3. QED BY <1>2, <1>3, <2>1, <2>2, RequestTypes
<1>4. ASSUME NEW r \in Savers, Ask(r) PROVE SavesTypes'
  <2>1. UNCHANGED <<files, now>> BY <1>4 DEF Ask
  <2>2. PICK b \in Bursts, list \in FormatLists, d \in Dirs : \E base \in Names \cup {b} :
          IF ToSet(list) \subseteq Supported /\ b \in cache
            THEN req' = [req EXCEPT ![r] = [NoRequest EXCEPT !.at = "export", !.of = b,
                                            !.path = <<d, base>>, !.todo = Normalised(list)]]
            ELSE Finish(r, FALSE)
    BY <1>4 DEF Ask
  <2>3. PICK base \in Names \cup {b} :
          IF ToSet(list) \subseteq Supported /\ b \in cache
            THEN req' = [req EXCEPT ![r] = [NoRequest EXCEPT !.at = "export", !.of = b,
                                            !.path = <<d, base>>, !.todo = Normalised(list)]]
            ELSE Finish(r, FALSE)
    BY <2>2
  <2>4. CASE Finish(r, FALSE) BY <1>3, <2>1, <2>4
  <2>5. CASE req' = [req EXCEPT ![r] = [NoRequest EXCEPT !.at = "export", !.of = b,
                                            !.path = <<d, base>>, !.todo = Normalised(list)]]
    <3> DEFINE q == [NoRequest EXCEPT !.at = "export", !.of = b, !.path = <<d, base>>, !.todo = Normalised(list)]
    <3>1. <<d, base>> \in Paths BY DEF Paths
    <3>2. q \in SaveRequests /\ q.at = "export" BY <3>1, NormalisedFormats, NoRequestTypes DEF SaveRequests
    <3>3. req' = [req EXCEPT ![r] = q] BY <2>5
    <3> HIDE DEF q
    <3>4. QED BY <1>2, <2>1, <3>2, <3>3, RequestTypes
  <2>6. QED BY <2>3, <2>4, <2>5
<1>5. ASSUME NEW r \in Savers, Upload(r) PROVE SavesTypes'
  <2>1. UNCHANGED <<files, now>> BY <1>5 DEF Upload
  <2>2. PICK base \in Names, d \in Dirs :
          req' = [req EXCEPT ![r] = [NoRequest EXCEPT !.at = "write", !.of = "upload",
                                     !.path = <<d, base>>, !.todo = <<"wave">>]]
    BY <1>5 DEF Upload
  <2> DEFINE q == [NoRequest EXCEPT !.at = "write", !.of = "upload", !.path = <<d, base>>, !.todo = <<"wave">>]
  <2>3. <<d, base>> \in Paths BY DEF Paths
  <2>4. <<"wave">> \in Seq(SavedFormats) /\ <<"wave">> # <<>> BY DEF SavedFormats
  <2>5. q \in SaveRequests /\ q.todo = <<"wave">> BY <2>3, <2>4, NoRequestTypes DEF SaveRequests
  <2>6. req' = [req EXCEPT ![r] = q] BY <2>2
  <2> HIDE DEF q
  <2>7. QED BY <1>2, <2>1, <2>4, <2>5, <2>6, RequestTypes
<1>6. ASSUME NEW r \in Savers, Export(r) PROVE SavesTypes'
  <2>1. UNCHANGED <<files, now>> /\ req[r].todo # <<>> BY <1>6 DEF Export
  <2>2. CASE Finish(r, FALSE) BY <1>3, <2>1, <2>2
  <2>3. CASE req' = [req EXCEPT ![r].at = "write"]
    <3> DEFINE q == [req[r] EXCEPT !.at = "write"]
    <3>1. req' = [req EXCEPT ![r] = q] BY <2>3 DEF SavesTypes
    <3>2. q \in SaveRequests /\ q.todo # <<>> BY <1>1, <2>1 DEF SaveRequests
    <3> HIDE DEF q
    <3>3. QED BY <1>2, <2>1, <3>1, <3>2, RequestTypes
  <2>4. QED BY <1>6, <2>2, <2>3 DEF Export
<1>7. ASSUME NEW r \in Savers, Write(r) PROVE SavesTypes'
  <2>1. /\ req'[r] \in SaveRequests /\ req'[r].at = "export"
        /\ req' = [req EXCEPT ![r] = req'[r]] /\ DirTypes'
    BY <1>7, WriteTypes
  <2>2. PICK q : q = req'[r] OBVIOUS
  <2>3. QED BY <2>1, <2>2, RequestTypes
<1>8. ASSUME NEW r \in Savers, CleanupLists(r) PROVE SavesTypes'
  <2> DEFINE q == [req[r] EXCEPT !.at = "remove", !.doomed = Excess]
  <2>1. req' = [req EXCEPT ![r] = q] /\ UNCHANGED <<files, now>> BY <1>8 DEF CleanupLists, SavesTypes
  <2>2. Excess \in SUBSET Paths BY DEF Excess, RootFiles, SavesTypes, DirTypes
  <2>3. q \in SaveRequests /\ q.at = "remove" BY <1>1, <2>2 DEF SaveRequests
  <2> HIDE DEF q
  <2>4. QED BY <1>2, <2>1, <2>3, RequestTypes
<1>9. ASSUME NEW r \in Savers, CleanupRemoves(r) PROVE SavesTypes'
  <2>1. PICK p \in req[r].doomed : /\ files' = Restrict(files, DOMAIN files \ {p})
                                   /\ req' = [req EXCEPT ![r].doomed = @ \ {p}]
    BY <1>9 DEF CleanupRemoves
  <2>2. DirTypes' BY <1>9, <2>1, RemoveTypes DEF CleanupRemoves
  <2> DEFINE q == [req[r] EXCEPT !.doomed = @ \ {p}]
  <2>3. req' = [req EXCEPT ![r] = q] BY <2>1 DEF SavesTypes
  <2>4. q \in SaveRequests /\ q.at = "remove" BY <1>1, <1>9 DEF SaveRequests, CleanupRemoves
  <2> HIDE DEF q
  <2>5. QED BY <2>2, <2>3, <2>4, RequestTypes
<1>10. ASSUME NEW r \in Savers, WriteFails(r) \/ CleanupFails(r) \/ CleanupEnds(r) PROVE SavesTypes'
  <2>1. \E ok \in BOOLEAN : Finish(r, ok) BY <1>10 DEF WriteFails, CleanupFails, CleanupEnds
  <2>2. UNCHANGED <<files, now>> BY <1>10 DEF WriteFails, CleanupFails, CleanupEnds
  <2>3. QED BY <1>3, <2>1, <2>2
<1>11. ASSUME NEW r \in Savers, Answered(r) PROVE SavesTypes'
  <2>1. req' = [req EXCEPT ![r] = NoRequest] /\ UNCHANGED <<files, now>> BY <1>11 DEF Answered
  <2>2. NoRequest.at = "idle" BY DEF NoRequest
  <2>3. QED BY <1>2, <2>1, <2>2, NoRequestTypes, RequestTypes
<1>12. ASSUME UNCHANGED <<files, now, req>> PROVE SavesTypes'
  BY <1>2, <1>12 DEF SavesTypes
<1>13. ASSUME NEW b \in Bursts, Complete(b) \/ Delete(b) PROVE SavesTypes'
  BY <1>12, <1>13 DEF Complete, Delete
<1>14. CASE UNCHANGED savesVars BY <1>12, <1>14 DEF savesVars
<1>15. QED
  BY <1>4, <1>5, <1>6, <1>7, <1>8, <1>9, <1>10, <1>11, <1>13, <1>14 DEF SavesNext

LEMMA SavesStarts == SavesInit => SavesTypes
<1> SUFFICES ASSUME SavesInit PROVE SavesTypes
  OBVIOUS
<1>1. DOMAIN files = {} /\ now = 0 BY DEF SavesInit
<1>2. DirTypes BY <1>1, FS_EmptySet DEF DirTypes
<1>3. NoRequest.at = "idle" BY DEF NoRequest
<1>4. QED BY <1>2, <1>3, NoRequestTypes DEF SavesInit, SavesTypes

(* The oldest of a set of files.                                               *)
LEMMA OldestFile ==
  ASSUME DirTypes, NEW K, K \subseteq DOMAIN files, K # {}
  PROVE  \E o \in K : \A p \in K : files[o].born <= files[p].born
<1> DEFINE B == {files[p].born : p \in K}
<1>1. B \subseteq Nat /\ B # {} BY DEF DirTypes
<1>2. PICK x \in B : \A y \in B : ~(<<y, x>> \in OpToRel(<, Nat))
  <2> HIDE DEF B
  <2>1. QED BY <1>1, NatLessThanWellFounded, WFMin
<1>3. \A y \in B : x <= y
  <2> SUFFICES ASSUME NEW y \in B PROVE x <= y
    OBVIOUS
  <2>1. x \in Nat /\ y \in Nat BY <1>1
  <2>2. ~(y < x) BY <1>2, <2>1 DEF OpToRel
  <2>3. QED BY <2>1, <2>2
<1>4. QED BY <1>3

(* Of the files a cleanup leaves there are at most MaxFiles.                       *)
LEMMA CleanupKeeps ==
  ASSUME DirTypes
  PROVE  IsFiniteSet(RootFiles) /\ Cardinality(RootFiles \ Excess) <= MaxFiles
<1> DEFINE K == RootFiles \ Excess
<1>1. RootFiles \subseteq DOMAIN files BY DEF RootFiles
<1>2. IsFiniteSet(DOMAIN files) BY DEF DirTypes
<1>3. IsFiniteSet(RootFiles) BY <1>1, <1>2, FS_Subset
<1>4. K \subseteq RootFiles OBVIOUS
<1>5. IsFiniteSet(K) BY <1>3, <1>4, FS_Subset
<1>6. \A p : Younger(p) \subseteq RootFiles BY DEF Younger
<1>7. \A p : IsFiniteSet(Younger(p)) BY <1>3, <1>6, FS_Subset
<1>8. \A p : Cardinality(Younger(p)) \in Nat BY <1>7, FS_CardinalityType
<1>9. \A p \in K : ~(Cardinality(Younger(p)) >= MaxFiles) BY DEF Excess
<1>10. CASE K = {}
  <2>1. Cardinality(K) = 0 BY <1>10, FS_EmptySet
  <2>2. QED BY <1>3, <2>1, MaxFilesAssumption
<1>11. CASE K # {}
  <2>1. K \subseteq DOMAIN files BY <1>1, <1>4
  <2> HIDE DEF K
  <2>2. PICK o \in K : \A p \in K : files[o].born <= files[p].born BY <1>11, <2>1, OldestFile
  <2>3. ASSUME NEW p \in K \ {o} PROVE p \in Younger(o)
    <3>1. p \in DOMAIN files /\ o \in DOMAIN files /\ p # o BY <2>1
    <3>2. files[p].born # files[o].born /\ files[p].born \in Nat /\ files[o].born \in Nat BY <3>1 DEF DirTypes
    <3>3. files[p].born > files[o].born BY <2>2, <3>2
    <3>4. QED BY <1>4, <3>3 DEF Younger
  <2>4. K \ {o} \subseteq Younger(o) BY <2>3
  <2>5. IsFiniteSet(K \ {o}) /\ Cardinality(K \ {o}) = Cardinality(K) - 1 BY <1>5, FS_RemoveElement
  <2>6. Cardinality(K \ {o}) <= Cardinality(Younger(o)) BY <1>7, <2>4, FS_Subset
  <2>7. Cardinality(K) \in Nat BY <1>5, FS_CardinalityType
  <2>8. Cardinality(K) - 1 <= Cardinality(Younger(o)) BY <2>5, <2>6
  <2>9. Cardinality(Younger(o)) \in Nat /\ ~(Cardinality(Younger(o)) >= MaxFiles) BY <1>8, <1>9
  <2>10. Cardinality(K) <= MaxFiles BY <2>7, <2>8, <2>9, MaxFilesAssumption
  <2>11. QED BY <1>3, <2>10 DEF K
<1>12. QED BY <1>10, <1>11

(* While no request is on its way to its cleanup, there are no more files than may be *)
(* kept once those the cleanups under way have listed are gone; unless one broke off. *)
Remaining == {p \in RootFiles : \A r \in Savers : req[r].at = "remove" => p \notin req[r].doomed}
Active    == \E r \in Savers : req[r].at \in {"export", "write"}
LimitInv  == ~failed => Active \/ Cardinality(Remaining) <= MaxFiles

LEMMA RemainingIsFinite == SavesTypes => IsFiniteSet(Remaining) /\ Cardinality(Remaining) \in Nat
<1> SUFFICES ASSUME SavesTypes PROVE IsFiniteSet(Remaining) /\ Cardinality(Remaining) \in Nat
  OBVIOUS
<1>1. IsFiniteSet(RootFiles) BY CleanupKeeps DEF SavesTypes
<1>2. Remaining \subseteq RootFiles BY DEF Remaining
<1>3. QED BY <1>1, <1>2, FS_Subset, FS_CardinalityType

LEMMA LimitAfter ==
  ASSUME SavesTypes, LimitInv, failed' = failed, Active => Active', Remaining' \subseteq Remaining
  PROVE  LimitInv'
<1> SUFFICES ASSUME ~failed', ~Active' PROVE Cardinality(Remaining') <= MaxFiles
  BY DEF LimitInv
<1>1. Cardinality(Remaining) <= MaxFiles BY DEF LimitInv
<1>2. IsFiniteSet(Remaining) /\ Cardinality(Remaining) \in Nat BY RemainingIsFinite
<1>3. PICK R : R = Remaining' OBVIOUS
<1>4. IsFiniteSet(R) /\ Cardinality(R) <= Cardinality(Remaining) BY <1>2, <1>3, FS_Subset
<1>5. Cardinality(R) \in Nat BY <1>4, FS_CardinalityType
<1>6. QED BY <1>1, <1>2, <1>3, <1>4, <1>5, MaxFilesAssumption

LEMMA LimitStep == SavesTypes /\ LimitInv /\ [SavesNext]_savesVars => LimitInv'
<1> SUFFICES ASSUME SavesTypes, LimitInv, [SavesNext]_savesVars PROVE LimitInv'
  OBVIOUS
<1>0. \A r \in Savers : req[r] \in SaveRequests BY DEF SavesTypes
<1>1. ASSUME NEW r \in Savers, \A o \in Savers \ {r} : req'[o] = req[o],
             req'[r].at \in {"export", "write"}
      PROVE  LimitInv'
  BY <1>1 DEF LimitInv, Active
<1>2. ASSUME NEW r \in Savers, \A o \in Savers \ {r} : req'[o] = req[o],
             req[r].at \in {"idle", "answer"} \/ (req[r].at = "remove" /\ req[r].doomed = {}),
             UNCHANGED <<files, failed>>
      PROVE  LimitInv'
  <2>1. Active => Active' BY <1>2 DEF Active
  <2>2. Remaining' \subseteq Remaining
    <3>1. ASSUME NEW p \in Remaining' PROVE p \in Remaining
      <4>1. p \in RootFiles BY <1>2, <3>1 DEF Remaining, RootFiles
      <4>2. \A o \in Savers \ {r} : req[o].at = "remove" => p \notin req[o].doomed
        BY <1>2, <3>1 DEF Remaining
      <4>3. req[r].at = "remove" => p \notin req[r].doomed BY <1>2
      <4>4. QED BY <4>1, <4>2, <4>3 DEF Remaining
    <3>2. QED BY <3>1
  <2>3. QED BY <1>2, <2>1, <2>2, LimitAfter
<1>3. ASSUME NEW r \in Savers, NEW ok \in BOOLEAN, Finish(r, ok)
      PROVE  \A o \in Savers \ {r} : req'[o] = req[o]
  BY <1>3 DEF Finish, SavesTypes
<1>4. ASSUME NEW r \in Savers, Ask(r) PROVE LimitInv'
  <2>1. \A o \in Savers \ {r} : req'[o] = req[o]
    <3>1. \E q : req' = [req EXCEPT ![r] = q] BY <1>4 DEF Ask, Finish, SavesTypes
    <3>2. QED BY <3>1 DEF SavesTypes
  <2>2. req[r].at = "idle" /\ UNCHANGED <<files, failed>> BY <1>4 DEF Ask
  <2>3. QED BY <1>2, <2>1, <2>2
<1>5. ASSUME NEW r \in Savers, Upload(r) PROVE LimitInv'
  <2>1. \A o \in Savers \ {r} : req'[o] = req[o] BY <1>5 DEF Upload, SavesTypes
  <2>2. req[r].at = "idle" /\ UNCHANGED <<files, failed>> BY <1>5 DEF Upload
  <2>3. QED BY <1>2, <2>1, <2>2
<1>6. ASSUME NEW r \in Savers, Export(r) PROVE LimitInv'
  <2>1. CASE failed' = TRUE BY <2>1 DEF LimitInv
  <2>2. CASE req' = [req EXCEPT ![r].at = "write"]
    <3>1. /\ \A o \in Savers \ {r} : req'[o] = req[o]
          /\ req'[r] = [req[r] EXCEPT !.at = "write"]
      BY <2>2 DEF SavesTypes
    <3>2. req'[r].at = "write" BY <1>0, <3>1 DEF SaveRequests
    <3>3. QED BY <1>1, <3>1, <3>2
  <2>3. QED BY <1>6, <2>1, <2>2 DEF Export
<1>7. ASSUME NEW r \in Savers, Write(r) PROVE LimitInv'
  <2>1. req'[r].at = "export" /\ req' = [req EXCEPT ![r] = req'[r]] BY <1>7, WriteTypes
  <2>2. \A o \in Savers \ {r} : req'[o] = req[o] BY <2>1 DEF SavesTypes
  <2>3. QED BY <1>1, <2>1, <2>2
<1>8. ASSUME NEW r \in Savers, WriteFails(r) \/ CleanupFails(r) PROVE LimitInv'
  BY <1>8 DEF WriteFails, CleanupFails, LimitInv
<1>9. ASSUME NEW r \in Savers, CleanupLists(r) PROVE LimitInv'
  <2>1. req' = [req EXCEPT ![r].at = "remove", ![r].doomed = Excess] /\ files' = files
    BY <1>9 DEF CleanupLists
  <2>2. req'[r] = [req[r] EXCEPT !.at = "remove", !.doomed = Excess] BY <2>1 DEF SavesTypes
  <2>3. req'[r].at = "remove" /\ req'[r].doomed = Excess BY <1>0, <2>2 DEF SaveRequests
  <2>4. PICK R : R = Remaining' OBVIOUS
  <2>5. R \subseteq RootFiles \ Excess
    <3>1. RootFiles' = RootFiles BY <2>1 DEF RootFiles
    <3>2. QED BY <2>3, <2>4, <3>1 DEF Remaining
  <2>6. IsFiniteSet(RootFiles) /\ Cardinality(RootFiles \ Excess) <= MaxFiles
    BY CleanupKeeps DEF SavesTypes
  <2>7. IsFiniteSet(RootFiles \ Excess) BY <2>6, FS_Subset
  <2>8. Cardinality(R) <= Cardinality(RootFiles \ Excess) /\ IsFiniteSet(R) BY <2>5, <2>7, FS_Subset
  <2>9. Cardinality(R) \in Nat /\ Cardinality(RootFiles \ Excess) \in Nat BY <2>7, <2>8, FS_CardinalityType
  <2>10. Cardinality(R) <= MaxFiles BY <2>6, <2>8, <2>9, MaxFilesAssumption
  <2>11. QED BY <2>4, <2>10 DEF LimitInv
<1>10. ASSUME NEW r \in Savers, CleanupRemoves(r) PROVE LimitInv'
  <2>1. PICK p \in req[r].doomed : /\ files' = Restrict(files, DOMAIN files \ {p})
                                   /\ req' = [req EXCEPT ![r].doomed = @ \ {p}]
    BY <1>10 DEF CleanupRemoves
  <2>2. req'[r] = [req[r] EXCEPT !.doomed = @ \ {p}] /\ \A o \in Savers \ {r} : req'[o] = req[o]
    BY <2>1 DEF SavesTypes
  <2>3. req'[r].at = req[r].at /\ req'[r].doomed = req[r].doomed \ {p} BY <1>0, <2>2 DEF SaveRequests
  <2>4. DOMAIN files' = DOMAIN files \ {p} BY <2>1 DEF Restrict
  <2>5. Remaining' \subseteq Remaining
    <3>1. ASSUME NEW q \in Remaining' PROVE q \in Remaining
      <4>1. q \in RootFiles /\ q # p BY <2>4, <3>1 DEF Remaining, RootFiles
      <4>2. \A o \in Savers \ {r} : req[o].at = "remove" => q \notin req[o].doomed
        BY <2>2, <3>1 DEF Remaining
      <4>3. req[r].at = "remove" => q \notin req[r].doomed BY <2>3, <3>1, <4>1 DEF Remaining
      <4>4. QED BY <4>1, <4>2, <4>3 DEF Remaining
    <3>2. QED BY <3>1
  <2>6. Active => Active' BY <2>2, <2>3 DEF Active
  <2>7. failed' = failed BY <1>10 DEF CleanupRemoves
  <2>8. QED BY <2>5, <2>6, <2>7, LimitAfter
<1>11. ASSUME NEW r \in Savers, CleanupEnds(r) PROVE LimitInv'
  <2>1. /\ req[r].at = "remove" /\ req[r].doomed = {} /\ Finish(r, TRUE)
        /\ UNCHANGED <<files, failed>>
    BY <1>11 DEF CleanupEnds
  <2>2. QED BY <1>2, <1>3, <2>1
<1>12. ASSUME NEW r \in Savers, Answered(r) PROVE LimitInv'
  <2>1. /\ req[r].at = "answer" /\ UNCHANGED <<files, failed>>
        /\ \A o \in Savers \ {r} : req'[o] = req[o]
    BY <1>12 DEF Answered, SavesTypes
  <2>2. QED BY <1>2, <2>1
<1>13. ASSUME UNCHANGED <<files, req, failed>> PROVE LimitInv'
  BY <1>13 DEF LimitInv, Active, Remaining, RootFiles
<1>14. ASSUME NEW b \in Bursts, Complete(b) \/ Delete(b) PROVE LimitInv'
  BY <1>13, <1>14 DEF Complete, Delete
<1>15. CASE UNCHANGED savesVars BY <1>13, <1>15 DEF savesVars
<1>16. QED
  BY <1>4, <1>5, <1>6, <1>7, <1>8, <1>9, <1>10, <1>11, <1>12, <1>14, <1>15 DEF SavesNext

(* However the saves and the cleanups of any number of requests overlap, once the     *)
(* last has answered there are at most max_files files in the root directory, as     *)
(* long as none broke off: the last cleanup to list lists after every write.        *)
THEOREM LimitIsKept == SavesSpec => []LimitKept
<1>1. SavesInit => SavesTypes /\ LimitInv
  <2> SUFFICES ASSUME SavesInit PROVE LimitInv
    BY SavesStarts
  <2>1. RootFiles = {} BY DEF SavesInit, RootFiles
  <2>2. Remaining = {} BY <2>1 DEF Remaining
  <2>3. Cardinality(Remaining) = 0 BY <2>2, FS_EmptySet
  <2>4. QED BY <2>3, MaxFilesAssumption DEF LimitInv
<1>2. SavesTypes /\ LimitInv /\ [SavesNext]_savesVars => (SavesTypes /\ LimitInv)'
  BY SavesStep, LimitStep
<1>3. LimitInv => LimitKept
  <2> SUFFICES ASSUME LimitInv, NoSaves, ~failed PROVE Cardinality(RootFiles) <= MaxFiles
    BY DEF LimitKept
  <2>1. ~Active /\ Remaining = RootFiles BY DEF NoSaves, Active, Remaining
  <2>2. QED BY <2>1 DEF LimitInv
<1>4. QED BY <1>1, <1>2, <1>3, PTL DEF SavesSpec

(* A request alone: what it has created is there and is younger than anything else,    *)
(* and it is at most as many files as it has formats.                            *)
FilesOf(q, F) == {Append(q.path, f) : f \in F}

Fresh(q, fs) ==
  /\ \A p \in q.created : p \in DOMAIN fs /\ fs[p].of = q.of
  /\ \A p \in q.created : \A o \in DOMAIN fs \ q.created : fs[o].born < fs[p].born
  /\ \E F : /\ IsFiniteSet(F) /\ Cardinality(F) <= MaxFiles
            /\ q.todo \in Seq(F) /\ q.created \subseteq FilesOf(q, F)
  /\ q.at = "remove" => q.doomed \cap q.created = {}

CreatedInv ==
  /\ \A r \in Savers : req[r].at = "idle" => req[r] = NoRequest
  /\ ~crowded => /\ \A r, o \in Savers : req[r].at # "idle" /\ req[o].at # "idle" => r = o
                 /\ \A r \in Savers : Fresh(req[r], files)

LEMMA NothingCreated ==
  ASSUME NEW q, NEW fs, q.created = {}, q.at # "remove",
         NEW F, IsFiniteSet(F), Cardinality(F) <= MaxFiles, q.todo \in Seq(F)
  PROVE  Fresh(q, fs)
BY DEF Fresh

LEMMA NoRequestIsFresh == \A fs : Fresh(NoRequest, fs)
<1>1. NoRequest.created = {} /\ NoRequest.at # "remove" /\ NoRequest.todo \in Seq({}) BY DEF NoRequest
<1>2. IsFiniteSet({}) /\ Cardinality({}) <= MaxFiles BY FS_EmptySet, MaxFilesAssumption
<1>3. QED BY <1>1, <1>2, NothingCreated

LEMMA CreatedIsSmall ==
  ASSUME NEW q, NEW F, IsFiniteSet(F), q.created \subseteq FilesOf(q, F)
  PROVE  IsFiniteSet(q.created) /\ Cardinality(q.created) <= Cardinality(F)
<1> DEFINE g == [f \in F |-> Append(q.path, f)]
<1>1. g \in Surjection(F, FilesOf(q, F)) BY DEF Surjection, FilesOf
<1> HIDE DEF g
<1>2. IsFiniteSet(FilesOf(q, F)) /\ Cardinality(FilesOf(q, F)) <= Cardinality(F) BY <1>1, FS_Surjection
<1>3. IsFiniteSet(q.created) /\ Cardinality(q.created) <= Cardinality(FilesOf(q, F)) BY <1>2, FS_Subset
<1>4. /\ Cardinality(q.created) \in Nat /\ Cardinality(FilesOf(q, F)) \in Nat /\ Cardinality(F) \in Nat
  BY <1>2, <1>3, FS_CardinalityType
<1>5. QED BY <1>2, <1>3, <1>4

(* What the acting request leaves is all there is to show.                          *)
LEMMA CreatedAfter ==
  ASSUME SavesTypes, CreatedInv, NEW r \in Savers,
         \A o \in Savers \ {r} : req'[o] = req[o],
         ~crowded' => ~crowded /\ \A o \in Savers \ {r} : req[o].at = "idle",
         req'[r].at = "idle" => req'[r] = NoRequest,
         ~crowded' => Fresh(req'[r], files')
  PROVE  CreatedInv'
<1>1. \A o \in Savers : req'[o].at = "idle" => req'[o] = NoRequest BY DEF CreatedInv
<1>2. ASSUME ~crowded'
      PROVE  /\ \A p, o \in Savers : req'[p].at # "idle" /\ req'[o].at # "idle" => p = o
             /\ \A o \in Savers : Fresh(req'[o], files')
  <2>1. \A o \in Savers \ {r} : req'[o] = NoRequest /\ req'[o].at = "idle" BY <1>2 DEF CreatedInv
  <2>2. \A o \in Savers \ {r} : Fresh(req'[o], files') BY <2>1, NoRequestIsFresh
  <2>3. QED BY <1>2, <2>1, <2>2
<1>3. QED BY <1>1, <1>2 DEF CreatedInv

(* A file just written is the youngest, unless it was there before.                  *)
LEMMA WriteIsFresh ==
  ASSUME SavesTypes, NEW r \in Savers, Write(r), Fresh(req[r], files)
  PROVE  Fresh(req'[r], files')
<1> DEFINE p == Append(req[r].path, Head(req[r].todo))
           q == req[r]
<1>1. q \in SaveRequests /\ q.todo # <<>> /\ q.at = "write" BY DEF SavesTypes, Write
<1>2. /\ files' = [o \in DOMAIN files \cup {p} |->
                     IF o # p THEN files[o]
                     ELSE [of |-> q.of, born |-> IF p \notin DOMAIN files THEN now + 1 ELSE files[p].born]]
      /\ req' = [req EXCEPT ![r].at = "export", ![r].todo = Tail(@), ![r].done = Append(@, p),
                            ![r].created = IF p \notin DOMAIN files THEN @ \cup {p} ELSE @]
  BY DEF Write
<1>3. /\ req'[r].at = "export" /\ req'[r].todo = Tail(q.todo) /\ req'[r].path = q.path /\ req'[r].of = q.of
      /\ req'[r].created = IF p \notin DOMAIN files THEN q.created \cup {p} ELSE q.created
  <2>1. req'[r] = [q EXCEPT !.at = "export", !.todo = Tail(@), !.done = Append(@, p),
                            !.created = IF p \notin DOMAIN files THEN @ \cup {p} ELSE @]
    BY <1>2 DEF SavesTypes
  <2>2. QED BY <1>1, <2>1 DEF SaveRequests
<1>4. PICK F : /\ IsFiniteSet(F) /\ Cardinality(F) <= MaxFiles
               /\ q.todo \in Seq(F) /\ q.created \subseteq FilesOf(q, F)
  BY DEF Fresh
<1>5. Head(q.todo) \in F /\ Tail(q.todo) \in Seq(F) BY <1>1, <1>4
<1>6. p \in FilesOf(q, F) BY <1>5 DEF FilesOf
<1> HIDE DEF p
<1>7. DOMAIN files' = DOMAIN files \cup {p} BY <1>2
<1>8. \A o \in DOMAIN files : files'[o].born = files[o].born /\ (o # p => files'[o] = files[o])
  <2> SUFFICES ASSUME NEW o \in DOMAIN files
               PROVE  files'[o].born = files[o].born /\ (o # p => files'[o] = files[o])
    OBVIOUS
  <2>1. CASE o = p
    <3>1. files'[p] = [of |-> q.of, born |-> files[p].born] BY <1>2, <2>1
    <3>2. QED BY <2>1, <3>1
  <2>2. CASE o # p BY <1>2, <2>2
  <2>3. QED BY <2>1, <2>2
<1>9. files'[p].of = q.of
  <2>1. \E x : files'[p] = [of |-> q.of, born |-> x] BY <1>2
  <2>2. QED BY <2>1
<1>10. \A o \in DOMAIN files : files[o].born \in Nat /\ files[o].born <= now /\ now \in Nat
  BY DEF SavesTypes, DirTypes
<1>11. p \notin DOMAIN files => files'[p].born = now + 1
  <2> SUFFICES ASSUME p \notin DOMAIN files PROVE files'[p].born = now + 1
    OBVIOUS
  <2>1. files'[p] = [of |-> q.of, born |-> now + 1] BY <1>2
  <2>2. QED BY <2>1
<1>12. \A o \in q.created : o \in DOMAIN files /\ files[o].of = q.of BY DEF Fresh
<1>13. ASSUME NEW o \in req'[r].created PROVE o \in DOMAIN files' /\ files'[o].of = req'[r].of
  <2>1. CASE o = p BY <1>3, <1>7, <1>9, <2>1
  <2>2. CASE o # p
    <3>1. o \in q.created BY <1>3, <1>13, <2>2
    <3>2. QED BY <1>3, <1>7, <1>8, <1>12, <2>2, <3>1
  <2>3. QED BY <2>1, <2>2
<1>14. ASSUME NEW c \in req'[r].created, NEW o \in DOMAIN files' \ req'[r].created
       PROVE  files'[o].born < files'[c].born
  <2>1. o \in DOMAIN files /\ o \notin q.created BY <1>3, <1>7, <1>14
  <2>2. files'[o].born = files[o].born BY <1>8, <2>1
  <2>3. CASE c \in q.created
    <3>1. c \in DOMAIN files /\ files'[c].born = files[c].born BY <1>8, <1>12, <2>3
    <3>2. files[o].born < files[c].born BY <2>1, <2>3 DEF Fresh
    <3>3. QED BY <2>2, <3>1, <3>2
  <2>4. CASE c \notin q.created
    <3>1. c = p /\ p \notin DOMAIN files BY <1>3, <1>14, <2>4
    <3>2. files'[c].born = now + 1 BY <1>11, <3>1
    <3>3. QED BY <1>10, <2>1, <2>2, <3>2
  <2>5. QED BY <2>3, <2>4
<1>15. req'[r].todo \in Seq(F) /\ req'[r].created \subseteq FilesOf(req'[r], F)
  <2>1. FilesOf(req'[r], F) = FilesOf(q, F) BY <1>3 DEF FilesOf
  <2>2. req'[r].created \subseteq FilesOf(q, F) BY <1>3, <1>4, <1>6
  <2>3. QED BY <1>3, <1>5, <2>1, <2>2
<1>16. req'[r].at # "remove" BY <1>3
<1>17. QED BY <1>4, <1>13, <1>14, <1>15, <1>16 DEF Fresh

(* A cleanup does not list what its own request has created.                         *)
LEMMA CleanupIsFresh ==
  ASSUME SavesTypes, NEW r \in Savers, CleanupLists(r), Fresh(req[r], files)
  PROVE  Fresh(req'[r], files')
<1> DEFINE q == req[r]
<1>1. q \in SaveRequests BY DEF SavesTypes
<1>2. files' = files /\ req'[r] = [q EXCEPT !.at = "remove", !.doomed = Excess]
  BY DEF CleanupLists, SavesTypes
<1>3. /\ req'[r].created = q.created /\ req'[r].path = q.path /\ req'[r].of = q.of
      /\ req'[r].todo = q.todo /\ req'[r].doomed = Excess
  BY <1>1, <1>2 DEF SaveRequests
<1>4. PICK F : /\ IsFiniteSet(F) /\ Cardinality(F) <= MaxFiles
               /\ q.todo \in Seq(F) /\ q.created \subseteq FilesOf(q, F)
  BY DEF Fresh
<1>5. IsFiniteSet(q.created) /\ Cardinality(q.created) <= Cardinality(F) BY <1>4, CreatedIsSmall
<1>6. Cardinality(F) \in Nat /\ Cardinality(q.created) \in Nat BY <1>4, <1>5, FS_CardinalityType
<1>7. ASSUME NEW p \in q.created PROVE p \notin Excess
  <2>1. p \in DOMAIN files BY DEF Fresh
  <2>2. ASSUME NEW o \in Younger(p) PROVE o \in q.created \ {p}
    <3>1. o \in DOMAIN files /\ files[o].born > files[p].born BY <2>2 DEF Younger, RootFiles
    <3>2. files[o].born \in Nat /\ files[p].born \in Nat BY <2>1, <3>1 DEF SavesTypes, DirTypes
    <3>3. o # p BY <3>1, <3>2
    <3>4. CASE o \notin q.created
      <4>1. files[o].born < files[p].born BY <3>1, <3>4 DEF Fresh
      <4>2. QED BY <3>1, <3>2, <4>1
    <3>5. QED BY <3>3, <3>4
  <2>3. IsFiniteSet(q.created \ {p}) /\ Cardinality(q.created \ {p}) = Cardinality(q.created) - 1
    BY <1>5, FS_RemoveElement
  <2>4. Younger(p) \subseteq q.created \ {p} BY <2>2
  <2>5. IsFiniteSet(Younger(p)) /\ Cardinality(Younger(p)) <= Cardinality(q.created \ {p})
    BY <2>3, <2>4, FS_Subset
  <2>6. Cardinality(Younger(p)) \in Nat BY <2>5, FS_CardinalityType
  <2>7. Cardinality(Younger(p)) < MaxFiles
    <3>1. Cardinality(Younger(p)) <= Cardinality(q.created) - 1 BY <2>3, <2>5
    <3>2. QED BY <1>4, <1>5, <1>6, <2>6, <3>1, MaxFilesAssumption
  <2>8. ~(Cardinality(Younger(p)) >= MaxFiles) BY <2>6, <2>7, MaxFilesAssumption
  <2>9. QED BY <2>8 DEF Excess
<1>8. FilesOf(req'[r], F) = FilesOf(q, F) BY <1>3 DEF FilesOf
<1>9. /\ \A p \in q.created : p \in DOMAIN files /\ files[p].of = q.of
      /\ \A p \in q.created : \A o \in DOMAIN files \ q.created : files[o].born < files[p].born
  BY DEF Fresh
<1>10. req'[r].doomed \cap req'[r].created = {} BY <1>3, <1>7
<1> HIDE DEF q
<1>11. QED BY <1>2, <1>3, <1>4, <1>8, <1>9, <1>10 DEF Fresh

LEMMA SeqOfItsRange ==
  ASSUME NEW S, NEW s \in Seq(S)
  PROVE  s \in Seq(ToSet(s)) /\ IsFiniteSet(ToSet(s))
<1>1. Len(s) \in Nat /\ DOMAIN s = 1..Len(s) OBVIOUS
<1>2. \A i \in 1..Len(s) : s[i] \in ToSet(s) BY <1>1 DEF ToSet
<1>3. s \in Seq(ToSet(s)) BY <1>1, <1>2
<1>4. s \in Surjection(1..Len(s), ToSet(s)) BY <1>1, <1>2 DEF ToSet, Surjection
<1>5. IsFiniteSet(1..Len(s)) BY <1>1, FS_Interval
<1>6. IsFiniteSet(ToSet(s)) BY <1>4, <1>5, FS_Surjection
<1>7. QED BY <1>3, <1>6

(* The limit leaves room for the files of one request.                              *)
RoomForOne ==
  /\ MaxFiles >= 1
  /\ \A list \in FormatLists : Cardinality(ToSet(Normalised(list))) <= MaxFiles

LEMMA CreatedStep ==
  ASSUME RoomForOne PROVE SavesTypes /\ CreatedInv /\ [SavesNext]_savesVars => CreatedInv'
<1> SUFFICES ASSUME SavesTypes, CreatedInv, [SavesNext]_savesVars PROVE CreatedInv'
  OBVIOUS
<1>0. \A r \in Savers : req[r] \in SaveRequests BY DEF SavesTypes
<1>1. ASSUME NEW r \in Savers, req[r].at # "idle", crowded' = crowded
      PROVE  ~crowded' => /\ ~crowded /\ \A o \in Savers \ {r} : req[o].at = "idle"
                          /\ Fresh(req[r], files)
  BY <1>1 DEF CreatedInv
<1>2. ASSUME NEW r \in Savers, crowded' = (crowded \/ Others(r))
      PROVE  ~crowded' => ~crowded /\ \A o \in Savers \ {r} : req[o].at = "idle"
  BY <1>2 DEF Others
<1>3. ASSUME NEW r \in Savers, NEW ok \in BOOLEAN, Finish(r, ok)
      PROVE  /\ \A o \in Savers \ {r} : req'[o] = req[o]
             /\ req'[r].at = "answer" /\ req'[r].created = req[r].created /\ req'[r].path = req[r].path
             /\ req'[r].todo = req[r].todo /\ req'[r].of = req[r].of
  <2>1. \A o \in Savers \ {r} : req'[o] = req[o] BY <1>3 DEF Finish, SavesTypes
  <2>2. req'[r] = [req[r] EXCEPT !.at = "answer", !.ok = ok] BY <1>3 DEF Finish, SavesTypes
  <2>3. QED BY <1>0, <2>1, <2>2 DEF SaveRequests
<1>4. ASSUME NEW r \in Savers, Ask(r) PROVE CreatedInv'
  <2>1. req[r] = NoRequest /\ crowded' = (crowded \/ Others(r)) BY <1>4 DEF Ask, CreatedInv
  <2>2. PICK b \in Bursts, list \in FormatLists, d \in Dirs : \E base \in Names \cup {b} :
          IF ToSet(list) \subseteq Supported /\ b \in cache
            THEN req' = [req EXCEPT ![r] = [NoRequest EXCEPT !.at = "export", !.of = b,
                                            !.path = <<d, base>>, !.todo = Normalised(list)]]
            ELSE Finish(r, FALSE)
    BY <1>4 DEF Ask
  <2>3. CASE Finish(r, FALSE)
    <3>0. NoRequest.created = {} /\ NoRequest.todo = <<>> BY DEF NoRequest
    <3>1. /\ \A o \in Savers \ {r} : req'[o] = req[o]
          /\ req'[r].at = "answer" /\ req'[r].created = {} /\ req'[r].todo = <<>>
      BY <1>3, <2>1, <2>3, <3>0
    <3>2. IsFiniteSet({}) /\ Cardinality({}) <= MaxFiles /\ <<>> \in Seq({}) BY FS_EmptySet, MaxFilesAssumption
    <3>3. Fresh(req'[r], files') BY <3>1, <3>2, NothingCreated
    <3>4. QED BY <1>2, <2>1, <3>1, <3>3, CreatedAfter
  <2>4. CASE \E base : req' = [req EXCEPT ![r] = [NoRequest EXCEPT !.at = "export", !.of = b,
                                            !.path = <<d, base>>, !.todo = Normalised(list)]]
    <3>1. /\ \A o \in Savers \ {r} : req'[o] = req[o]
          /\ \E base : req'[r] = [NoRequest EXCEPT !.at = "export", !.of = b,
                                                   !.path = <<d, base>>, !.todo = Normalised(list)]
      BY <2>4 DEF SavesTypes
    <3>2. req'[r].at = "export" /\ req'[r].created = {} /\ req'[r].todo = Normalised(list)
      BY <3>1 DEF NoRequest
    <3>3. /\ Normalised(list) \in Seq(ToSet(Normalised(list)))
          /\ IsFiniteSet(ToSet(Normalised(list))) /\ Cardinality(ToSet(Normalised(list))) <= MaxFiles
      BY NormalisedFormats, SeqOfItsRange DEF RoomForOne
    <3>4. Fresh(req'[r], files') BY <3>2, <3>3, NothingCreated
    <3>5. QED BY <1>2, <2>1, <3>1, <3>2, <3>4, CreatedAfter
  <2>5. QED BY <2>2, <2>3, <2>4
<1>5. ASSUME NEW r \in Savers, Upload(r) PROVE CreatedInv'
  <2>1. req[r] = NoRequest /\ crowded' = (crowded \/ Others(r)) BY <1>5 DEF Upload, CreatedInv
  <2>2. PICK base \in Names, d \in Dirs :
          req' = [req EXCEPT ![r] = [NoRequest EXCEPT !.at = "write", !.of = "upload",
                                     !.path = <<d, base>>, !.todo = <<"wave">>]]
    BY <1>5 DEF Upload
  <2>3. /\ \A o \in Savers \ {r} : req'[o] = req[o]
        /\ req'[r] = [NoRequest EXCEPT !.at = "write", !.of = "upload",
                                       !.path = <<d, base>>, !.todo = <<"wave">>]
    BY <2>2 DEF SavesTypes
  <2>4. req'[r].at = "write" /\ req'[r].created = {} /\ req'[r].todo = <<"wave">> BY <2>3 DEF NoRequest
  <2>5. IsFiniteSet({"wave"}) /\ Cardinality({"wave"}) = 1 BY FS_Singleton
  <2>6. Cardinality({"wave"}) <= MaxFiles BY <2>5 DEF RoomForOne
  <2>7. <<"wave">> \in Seq({"wave"}) OBVIOUS
  <2>8. Fresh(req'[r], files') BY <2>4, <2>5, <2>6, <2>7, NothingCreated
  <2>9. QED BY <1>2, <2>1, <2>3, <2>4, <2>8, CreatedAfter
<1>6. ASSUME NEW r \in Savers, req[r].at # "idle", UNCHANGED <<files, crowded>>,
             \A o \in Savers \ {r} : req'[o] = req[o],
             req'[r].at \in {"answer", "write"}, req'[r].created = req[r].created,
             req'[r].path = req[r].path, req'[r].todo = req[r].todo, req'[r].of = req[r].of
      PROVE  CreatedInv'
  <2>1. ~crowded' => Fresh(req'[r], files')
    <3> SUFFICES ASSUME ~crowded' PROVE Fresh(req'[r], files)
      BY <1>6
    <3>1. Fresh(req[r], files) BY <1>1, <1>6
    <3>2. \A F : FilesOf(req'[r], F) = FilesOf(req[r], F) BY <1>6 DEF FilesOf
    <3>3. QED BY <1>6, <3>1, <3>2 DEF Fresh
  <2>2. QED BY <1>1, <1>6, <2>1, CreatedAfter
<1>7. ASSUME NEW r \in Savers, Export(r) PROVE CreatedInv'
  <2>1. req[r].at = "export" /\ UNCHANGED <<files, crowded>> BY <1>7 DEF Export
  <2>2. CASE Finish(r, FALSE) BY <1>3, <1>6, <2>1, <2>2
  <2>3. CASE req' = [req EXCEPT ![r].at = "write"]
    <3>1. /\ \A o \in Savers \ {r} : req'[o] = req[o]
          /\ req'[r] = [req[r] EXCEPT !.at = "write"]
      BY <2>3 DEF SavesTypes
    <3>2. /\ req'[r].at = "write" /\ req'[r].created = req[r].created /\ req'[r].path = req[r].path
          /\ req'[r].todo = req[r].todo /\ req'[r].of = req[r].of
      BY <1>0, <3>1 DEF SaveRequests
    <3>3. QED BY <1>6, <2>1, <3>1, <3>2
  <2>4. QED BY <1>7, <2>2, <2>3 DEF Export
<1>8. ASSUME NEW r \in Savers, Write(r) PROVE CreatedInv'
  <2>1. req'[r].at = "export" /\ req' = [req EXCEPT ![r] = req'[r]] BY <1>8, WriteTypes
  <2>2. \A o \in Savers \ {r} : req'[o] = req[o] BY <2>1 DEF SavesTypes
  <2>3. req[r].at = "write" /\ crowded' = crowded BY <1>8 DEF Write
  <2>4. ~crowded' => Fresh(req'[r], files') BY <1>1, <1>8, <2>3, WriteIsFresh
  <2>5. QED BY <1>1, <2>1, <2>2, <2>3, <2>4, CreatedAfter
<1>9. ASSUME NEW r \in Savers, CleanupLists(r) PROVE CreatedInv'
  <2>1. req'[r] = [req[r] EXCEPT !.at = "remove", !.doomed = Excess] /\ \A o \in Savers \ {r} : req'[o] = req[o]
    BY <1>9 DEF CleanupLists, SavesTypes
  <2>2. req'[r].at = "remove" BY <1>0, <2>1 DEF SaveRequests
  <2>3. req[r].at = "export" /\ crowded' = crowded BY <1>9 DEF CleanupLists
  <2>4. ~crowded' => Fresh(req'[r], files') BY <1>1, <1>9, <2>3, CleanupIsFresh
  <2>5. QED BY <1>1, <2>1, <2>2, <2>3, <2>4, CreatedAfter
<1>10. ASSUME NEW r \in Savers, CleanupRemoves(r) PROVE CreatedInv'
  <2>1. PICK p \in req[r].doomed : /\ files' = Restrict(files, DOMAIN files \ {p})
                                   /\ req' = [req EXCEPT ![r].doomed = @ \ {p}]
    BY <1>10 DEF CleanupRemoves
  <2>2. req'[r] = [req[r] EXCEPT !.doomed = @ \ {p}] /\ \A o \in Savers \ {r} : req'[o] = req[o]
    BY <2>1 DEF SavesTypes
  <2>3. /\ req'[r].at = req[r].at /\ req'[r].doomed = req[r].doomed \ {p}
        /\ req'[r].created = req[r].created /\ req'[r].path = req[r].path
        /\ req'[r].todo = req[r].todo /\ req'[r].of = req[r].of
    BY <1>0, <2>2 DEF SaveRequests
  <2>4. req[r].at = "remove" /\ crowded' = crowded BY <1>10 DEF CleanupRemoves
  <2>5. DOMAIN files' = DOMAIN files \ {p} /\ \A o \in DOMAIN files' : files'[o] = files[o]
    BY <2>1 DEF Restrict
  <2>6. ASSUME ~crowded' PROVE Fresh(req'[r], files')
    <3>1. Fresh(req[r], files) BY <1>1, <2>4, <2>6
    <3>2. p \notin req[r].created BY <2>4, <3>1 DEF Fresh
    <3>3. \A o \in req[r].created : o \in DOMAIN files' /\ files'[o] = files[o] BY <2>5, <3>1, <3>2 DEF Fresh
    <3>4. \A o \in req'[r].created : o \in DOMAIN files' /\ files'[o].of = req'[r].of
      BY <2>3, <3>1, <3>3 DEF Fresh
    <3>5. \A c \in req'[r].created : \A o \in DOMAIN files' \ req'[r].created : files'[o].born < files'[c].born
      BY <2>3, <2>5, <3>1, <3>3 DEF Fresh
    <3>6. \A F : FilesOf(req'[r], F) = FilesOf(req[r], F) BY <2>3 DEF FilesOf
    <3>7. \E F : /\ IsFiniteSet(F) /\ Cardinality(F) <= MaxFiles
                 /\ req'[r].todo \in Seq(F) /\ req'[r].created \subseteq FilesOf(req'[r], F)
      BY <2>3, <3>1, <3>6 DEF Fresh
    <3>8. req'[r].doomed \cap req'[r].created = {} BY <2>3, <2>4, <3>1 DEF Fresh
    <3>9. QED BY <3>4, <3>5, <3>7, <3>8 DEF Fresh
  <2>7. QED BY <1>1, <2>2, <2>3, <2>4, <2>6, CreatedAfter
<1>11. ASSUME NEW r \in Savers, WriteFails(r) \/ CleanupFails(r) \/ CleanupEnds(r) PROVE CreatedInv'
  <2>1. \E ok \in BOOLEAN : Finish(r, ok) BY <1>11 DEF WriteFails, CleanupFails, CleanupEnds
  <2>2. UNCHANGED <<files, crowded>> /\ req[r].at # "idle" BY <1>11 DEF WriteFails, CleanupFails, CleanupEnds
  <2>3. QED BY <1>3, <1>6, <2>1, <2>2
<1>12. ASSUME NEW r \in Savers, Answered(r) PROVE CreatedInv'
  <2>1. req[r].at # "idle" /\ req' = [req EXCEPT ![r] = NoRequest] /\ crowded' = crowded
    BY <1>12 DEF Answered
  <2>2. req'[r] = NoRequest /\ \A o \in Savers \ {r} : req'[o] = req[o] BY <2>1 DEF SavesTypes
  <2>3. QED BY <1>1, <2>1, <2>2, NoRequestIsFresh, CreatedAfter
<1>13. ASSUME UNCHANGED <<files, req, crowded>> PROVE CreatedInv'
  BY <1>13 DEF CreatedInv
<1>14. ASSUME NEW b \in Bursts, Complete(b) \/ Delete(b) PROVE CreatedInv'
  BY <1>13, <1>14 DEF Complete, Delete
<1>15. CASE UNCHANGED savesVars BY <1>13, <1>15 DEF savesVars
<1>16. QED
  BY <1>4, <1>5, <1>7, <1>8, <1>9, <1>10, <1>11, <1>12, <1>14, <1>15 DEF SavesNext

(* As long as requests do not overlap and the limit leaves room for the files of one,  *)
(* every file a request has created is there when it answers, with what was exported: *)
(* its cleanup takes older ones, in whatever state earlier requests left the directory. *)
THEOREM CreatedStays == ASSUME RoomForOne PROVE SavesSpec => []CreatedIsThere
<1>1. SavesInit => SavesTypes /\ CreatedInv
  <2> SUFFICES ASSUME SavesInit PROVE CreatedInv
    BY SavesStarts
  <2>1. \A r \in Savers : req[r] = NoRequest /\ req[r].at = "idle" BY DEF SavesInit, NoRequest
  <2>2. QED BY <2>1, NoRequestIsFresh DEF CreatedInv
<1>2. SavesTypes /\ CreatedInv /\ [SavesNext]_savesVars => (SavesTypes /\ CreatedInv)'
  BY SavesStep, CreatedStep
<1>3. CreatedInv => CreatedIsThere BY DEF CreatedInv, CreatedIsThere, Fresh
<1>4. QED BY <1>1, <1>2, <1>3, PTL DEF SavesSpec

=============================================================================
