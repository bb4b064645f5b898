---------------------------- MODULE WebSocketHub -----------------------------
(***************************************************************************)
(* The gateway's WebSocket server, data-gateway/src/websocket.rs.  Three    *)
(* tasks take what the event loop publishes from bounded broadcast channels *)
(* and put it into the unbounded mailboxes of the subscribed clients; each  *)
(* client has a sender task that empties its mailbox into the socket and a  *)
(* receiver task that changes its subscriptions.  The client table is one   *)
(* read-write lock, so that a step under it is one action.                  *)
(*                                                                         *)
(* Messages are numbered per channel.  A closed client never comes back: a  *)
(* new connection has a new id.                                             *)
(***************************************************************************)
EXTENDS Naturals, Sequences, FiniteSets

CONSTANTS
  Clients,       (* connection ids                                          *)
  Channels,      (* a subset of {"data", "event", "burst"}                    *)
  Requests,      (* the channel lists clients subscribe to                  *)
  Capacity,      (* of a broadcast channel: 1000 for data, 100 for the others *)
  MaxPublished, MaxRequests  (* bounds of a run: per channel, per client     *)

ASSUME ChannelsAssumption == Channels \subseteq {"data", "event", "burst"}
ASSUME CapacityAssumption == Capacity \in Nat \ {0}

VARIABLES
  published,     (* per channel: how many messages the event loop has sent   *)
  queue,         (* per channel: messages its broadcast task has not taken   *)
  lagged, alive, (* per channel: messages were overwritten; the task runs    *)
  table,         (* ids in the client table                                 *)
  count,         (* the published client count                              *)
  subs,          (* subscriptions of the clients in the table                *)
  socket,        (* new, open, or closed by the peer or a failure            *)
  sender, receiver, (* the tasks of a connection                             *)
  mail, sent,    (* everything put into a mailbox; how much has left it      *)
  requests       (* how many requests a client has made                      *)

pubVars    == <<published, queue, lagged, alive>>
clientVars == <<table, count, subs, socket, sender, receiver, mail, sent, requests>>
vars       == <<pubVars, clientVars>>

-----------------------------------------------------------------------------
DataMessages(n) == [of : {"data"}, n : {n}, source : {"Continuous", "Trigger"}]
EventMessage(n) == [of |-> "event", n |-> n]
BurstMessage(n) == [of |-> "burst", n |-> n]
Messages(k, n)  == IF k = "data" THEN DataMessages(n)
                   ELSE {IF k = "event" THEN EventMessage(n) ELSE BurstMessage(n)}
Note(what) == [of |-> what]
Confirmation(s) == [of |-> "subscription_updated", subs |-> s]

DefaultSubs == {"data", "event", "burst"}

(* What a subscribe message sets, starting from nothing.                     *)
Subscribed(names) ==
       {s \in {"data"}  : names \cap {"data", "continuous_only", "trigger_only", "all"} # {}}
  \cup {s \in {"event"} : names \cap {"trigger_events", "all"} # {}}
  \cup {s \in {"burst"} : names \cap {"trigger_bursts", "all"} # {}}
  \cup (names \cap {"continuous_only", "trigger_only"})

(* The filters of the three broadcast functions.                             *)
WantsData(s, m) == /\ "data" \in s
                   /\ m.source = "Continuous" => "trigger_only" \notin s
                   /\ m.source = "Trigger" => "continuous_only" \notin s
WantsEvent(s)   == "event" \in s
WantsBurst(s)   == "burst" \in s
Wants(s, m) ==
  CASE m.of = "data" -> WantsData(s, m) [] m.of = "event" -> WantsEvent(s) [] OTHER -> WantsBurst(s)

Put(c, m) == mail' = [mail EXCEPT ![c] = Append(@, m)]

-----------------------------------------------------------------------------
Init ==
  /\ published = [k \in Channels |-> 0] /\ queue = [k \in Channels |-> <<>>]
  /\ lagged = [k \in Channels |-> FALSE] /\ alive = [k \in Channels |-> TRUE]
  /\ table = {} /\ count = 0
  /\ subs = [c \in Clients |-> {}] /\ socket = [c \in Clients |-> "new"]
  /\ sender = [c \in Clients |-> "none"] /\ receiver = sender
  /\ mail = [c \in Clients |-> <<>>] /\ sent = [c \in Clients |-> 0]
  /\ requests = [c \in Clients |-> 0]

(* The event loop sends on a broadcast channel; a full one forgets its oldest. *)
Publish(k) ==
  /\ published[k] < MaxPublished
  /\ published' = [published EXCEPT ![k] = @ + 1]
  /\ \E m \in Messages(k, published[k] + 1) :
       queue' = [queue EXCEPT ![k] = IF Len(@) = Capacity THEN Append(Tail(@), m)
                                                          ELSE Append(@, m)]
  /\ lagged' = [lagged EXCEPT ![k] = @ \/ Len(queue[k]) = Capacity]
  /\ UNCHANGED <<alive, clientVars>>

(* Mutant: the filter of the data type is not consulted.                      *)
BroadcastUnfiltered(k) ==
  /\ alive[k] /\ ~lagged[k] /\ queue[k] # <<>>
  /\ queue' = [queue EXCEPT ![k] = Tail(@)]
  /\ mail'  = [c \in Clients |-> IF c \in table /\ k \in subs[c]
                                   THEN Append(mail[c], Head(queue[k])) ELSE mail[c]]
  /\ UNCHANGED <<published, lagged, alive, table, count, subs, socket, sender, receiver, sent, requests>>

(* Mutant: a client is served only once its welcome is out.                   *)
BroadcastGreeted(k) ==
  /\ alive[k] /\ ~lagged[k] /\ queue[k] # <<>>
  /\ queue' = [queue EXCEPT ![k] = Tail(@)]
  /\ mail'  = [c \in Clients |-> IF c \in table /\ receiver[c] = "run" /\ Wants(subs[c], Head(queue[k]))
                                   THEN Append(mail[c], Head(queue[k])) ELSE mail[c]]
  /\ UNCHANGED <<published, lagged, alive, table, count, subs, socket, sender, receiver, sent, requests>>

(* Mutant: a lagged receiver goes on with the oldest message it still has.    *)
BroadcastAfterLag(k) ==
  /\ alive[k] /\ queue[k] # <<>>
  /\ queue' = [queue EXCEPT ![k] = Tail(@)]
  /\ mail'  = [c \in Clients |-> IF c \in table /\ Wants(subs[c], Head(queue[k]))
                                   THEN Append(mail[c], Head(queue[k])) ELSE mail[c]]
  /\ UNCHANGED <<published, lagged, alive, table, count, subs, socket, sender, receiver, sent, requests>>

(* A broadcast task takes a message and, under the read lock, puts it into   *)
(* the mailbox of each client that wants it.                                 *)
Broadcast(k) ==
  /\ alive[k] /\ ~lagged[k] /\ queue[k] # <<>>
  /\ queue' = [queue EXCEPT ![k] = Tail(@)]
  /\ mail'  = [c \in Clients |-> IF c \in table /\ Wants(subs[c], Head(queue[k]))
                                   THEN Append(mail[c], Head(queue[k])) ELSE mail[c]]
  /\ UNCHANGED <<published, lagged, alive, table, count, subs, socket, sender, receiver, sent, requests>>

(* Lagged is an error, and "while let Ok" ends at the first one.              *)
BroadcastEnds(k) ==
  /\ alive[k] /\ lagged[k]
  /\ alive' = [alive EXCEPT ![k] = FALSE]
  /\ UNCHANGED <<published, queue, lagged, clientVars>>

-----------------------------------------------------------------------------
(* handle_connection: the client enters the table, ...                       *)
Connect(c) ==
  /\ socket[c] = "new"
  /\ socket' = [socket EXCEPT ![c] = "open"]
  /\ table'  = table \cup {c} /\ count' = Cardinality(table')
  /\ subs'   = [subs EXCEPT ![c] = DefaultSubs]
  /\ sender' = [sender EXCEPT ![c] = "greet"]
  /\ UNCHANGED <<pubVars, receiver, mail, sent, requests>>

(* ... the welcome is put into its mailbox, and the two tasks are started.    *)
Greet(c) ==
  /\ sender[c] = "greet"
  /\ Put(c, Note("welcome"))
  /\ sender'   = [sender EXCEPT ![c] = "run"]
  /\ receiver' = [receiver EXCEPT ![c] = "run"]
  /\ UNCHANGED <<pubVars, table, count, subs, socket, sent, requests>>

SendToSocket(c) ==
  /\ sender[c] = "run" /\ sent[c] < Len(mail[c])
  /\ sent' = [sent EXCEPT ![c] = @ + 1]
  /\ UNCHANGED <<pubVars, table, count, subs, socket, sender, receiver, mail, requests>>

(* A send to a peer that is gone may fail: the task leaves its loop, ...      *)
SendFails(c) ==
  /\ sender[c] = "run" /\ sent[c] < Len(mail[c]) /\ socket[c] = "closed"
  /\ sender' = [sender EXCEPT ![c] = "remove"]
  /\ UNCHANGED <<pubVars, table, count, subs, socket, receiver, mail, sent, requests>>

(* Mutant: the count is published before the client is taken out.             *)
RemoveCountedFirst(c) ==
  /\ sender[c] = "remove"
  /\ sender' = [sender EXCEPT ![c] = "end"]
  /\ table' = table \ {c} /\ count' = Cardinality(table)
  /\ UNCHANGED <<pubVars, subs, socket, receiver, mail, sent, requests>>

(* ... and takes the client out of the table.                                *)
RemoveClient(c) ==
  /\ sender[c] = "remove"
  /\ sender' = [sender EXCEPT ![c] = "end"]
  /\ table' = table \ {c} /\ count' = Cardinality(table')
  /\ UNCHANGED <<pubVars, subs, socket, receiver, mail, sent, requests>>

(* handle_client_message, subscribe: the client may be out of the table        *)
(* although its receiver still runs.                                         *)
Subscribe(c) ==
  /\ receiver[c] = "run" /\ socket[c] = "open" /\ requests[c] < MaxRequests
  /\ requests' = [requests EXCEPT ![c] = @ + 1]
  /\ \E names \in Requests :
       IF c \in table
         THEN /\ subs' = [subs EXCEPT ![c] = Subscribed(names)]
              /\ Put(c, Confirmation(Subscribed(names)))
         ELSE UNCHANGED <<subs, mail>>
  /\ UNCHANGED <<pubVars, table, count, socket, sender, receiver, sent>>

Ping(c) ==
  /\ receiver[c] = "run" /\ socket[c] = "open" /\ requests[c] < MaxRequests
  /\ requests' = [requests EXCEPT ![c] = @ + 1]
  /\ IF c \in table THEN Put(c, Note("pong")) ELSE UNCHANGED mail
  /\ UNCHANGED <<pubVars, table, count, subs, socket, sender, receiver, sent>>

(* A close message or an error ends the receiver, and nothing else.           *)
ReceiverEnds(c) ==
  /\ receiver[c] = "run" /\ socket[c] = "closed"
  /\ receiver' = [receiver EXCEPT ![c] = "end"]
  /\ UNCHANGED <<pubVars, table, count, subs, socket, sender, mail, sent, requests>>

PeerCloses(c) ==
  /\ socket[c] = "open"
  /\ socket' = [socket EXCEPT ![c] = "closed"]
  /\ UNCHANGED <<pubVars, table, count, subs, sender, receiver, mail, sent, requests>>

-----------------------------------------------------------------------------
Server == \/ \E k \in Channels : Broadcast(k) \/ BroadcastEnds(k)
          \/ \E c \in Clients : Greet(c) \/ SendToSocket(c) \/ SendFails(c) \/ RemoveClient(c) \/ ReceiverEnds(c)
Users  == \E c \in Clients : Connect(c) \/ Subscribe(c) \/ Ping(c) \/ PeerCloses(c)
Next   == Server \/ Users \/ \E k \in Channels : Publish(k)

Spec == Init /\ [][Next]_vars

(* The runtime schedules every task that can go on.                          *)
FairSpec ==
  /\ Spec
  /\ \A k \in Channels : WF_vars(Broadcast(k)) /\ WF_vars(BroadcastEnds(k))
  /\ \A c \in Clients : /\ WF_vars(Greet(c)) /\ WF_vars(ReceiverEnds(c)) /\ WF_vars(RemoveClient(c))
                        /\ WF_vars(SendToSocket(c) \/ SendFails(c))

-----------------------------------------------------------------------------
Carried(c) == {i \in DOMAIN mail[c] : mail[c][i].of \in Channels}

TypeOK ==
  /\ published \in [Channels -> 0..MaxPublished]
  /\ \A k \in Channels : Len(queue[k]) <= Capacity
  /\ lagged \in [Channels -> BOOLEAN] /\ alive \in [Channels -> BOOLEAN]
  /\ table \subseteq Clients /\ count = Cardinality(table)
  /\ socket \in [Clients -> {"new", "open", "closed"}]
  /\ sender \in [Clients -> {"none", "greet", "run", "remove", "end"}]
  /\ receiver \in [Clients -> {"none", "run", "end"}]
  /\ \A c \in Clients : sent[c] <= Len(mail[c])

(* Broadcasts and subscription changes race, but a client can rely on the     *)
(* confirmation: whatever follows it in its mailbox, up to the next one, is  *)
(* what it then subscribed to.                                               *)
Confirms(box, j)   == box[j].of = "subscription_updated"
InForce(box, j, i) == Confirms(box, j) /\ \A l \in j+1..i-1 : ~Confirms(box, l)

AsSubscribed(box) ==
  \A i \in DOMAIN box : box[i].of \in Channels =>
    /\ (\A l \in 1..i-1 : ~Confirms(box, l)) => Wants(DefaultSubs, box[i])
    /\ \A j \in 1..i-1 : InForce(box, j, i) => Wants(box[j].subs, box[i])

SubscriptionOrdered == \A c \in Clients : AsSubscribed(mail[c])

(* A slow broadcast task does not make holes: what a client gets of a channel *)
(* under its first subscriptions is an unbroken piece of what was published. *)
Unbroken(box, k) ==
  \A j \in DOMAIN box : \A i \in 1..j-1 :
    box[i].of = k /\ box[j].of = k /\ (\A l \in i+1..j-1 : box[l].of # k)
      => box[j].n = box[i].n + 1

NoHoles ==
  \A c \in Clients, k \in Channels : requests[c] = 0 => Unbroken(mail[c], k)

(* docs/api_doc_en.md: after connecting, the client receives the welcome and  *)
(* then real-time data.                                                      *)
WelcomeFirst == \A c \in Clients : mail[c] # <<>> => mail[c][1].of = "welcome"

(* data-gateway/README.md: data is distributed to the clients in real time.   *)
(* What waits to be broadcast while a client is connected and subscribed to   *)
(* everything reaches its mailbox, unless it closes or changes its mind.      *)
Waits(k, n)    == \E i \in DOMAIN queue[k] : queue[k][i].n = n
Served(c)      == c \in table /\ socket[c] = "open" /\ requests[c] = 0
Has(c, k, n)   == \E i \in Carried(c) : mail[c][i].of = k /\ mail[c][i].n = n
Due(c, k, n)     == Waits(k, n) /\ Served(c) /\ ~lagged[k]
Settled(c, k, n) == Has(c, k, n) \/ ~Served(c) \/ lagged[k]
PublishedArrives ==
  \A c \in Clients, k \in Channels, n \in 1..MaxPublished : Due(c, k, n) ~> Settled(c, k, n)

(* docs/api_doc_en.md: connected_clients is the number of WebSocket connected *)
(* clients.  A client that has gone is not counted for ever.                 *)
GoneIsUncounted == \A c \in Clients : socket[c] = "closed" ~> c \notin table
=============================================================================
