------------------------------ MODULE MCServices -------------------------------
(* What the gateway offers its users, for model checking: the stream of messages to *)
(* WebSocket clients (WebSocketHub), saving and deleting bursts (BurstSaves) and the   *)
(* control requests (WebControl).  They share no state that changes what they do; part   *)
(* says which of them runs, and in what situation.  The variables of the others rest.    *)
EXTENDS WebSocketHub, BurstSaves, WebControl

VARIABLE part

LOCAL Subscriptions == {{"continuous_only"}, {"trigger_events", "trigger_only"}, {"trigger_bursts"}}

(* For the cfg: what the scenarios use of each. *)
AllFormatLists == {<<"json">>, <<"json", "csv">>, <<"bin">>, <<"xml">>}

(* A client that changes its subscription. *)
HubChanges == INSTANCE WebSocketHub WITH
  Clients <- {"a"}, Channels <- {"data", "burst"}, Requests <- Subscriptions,
  Capacity <- 2, MaxPublished <- 2, MaxRequests <- 1

(* Two clients and a broadcast task that falls behind. *)
HubLags == INSTANCE WebSocketHub WITH
  Clients <- {"a", "b"}, Channels <- {"burst"}, Requests <- {},
  Capacity <- 1, MaxPublished <- 3, MaxRequests <- 0

(* A client that is to get what is published, and may change its mind. *)
HubServes == INSTANCE WebSocketHub WITH
  Clients <- {"a"}, Channels <- {"event"}, Requests <- {{"continuous_only"}},
  Capacity <- 2, MaxPublished <- 3, MaxRequests <- 1

(* Two requests that write the same names; and one with all it may ask for. *)
SavesTwo == INSTANCE BurstSaves WITH
  FormatLists <- {<<"json">>, <<"json", "csv">>}, Dirs <- {"root"}

SavesOne == INSTANCE BurstSaves WITH
  Savers <- {"h1"}, FormatLists <- {<<"bin">>, <<"json", "csv">>, <<"xml">>}

(* One request at a time gets further than two. *)
WebOne == INSTANCE WebControl WITH Handlers <- {"h1"}, MaxCalls <- 5

hubVars == vars
allVars == <<part, hubVars, savesVars, webVars>>

ServicesInit ==
  /\ part \in {"hub changes", "hub lags", "hub serves", "saves two", "saves one", "web one", "web two"}
  /\ CASE part = "hub lags"   -> HubLags!Init
       [] part = "hub serves" -> HubServes!Init
       [] OTHER               -> HubChanges!Init
  /\ SavesInit /\ WebInit

ServicesNext ==
  /\ UNCHANGED part
  /\ \/ /\ \/ part = "hub changes" /\ HubChanges!Next
           \/ part = "hub lags" /\ HubLags!Next
           \/ part = "hub serves" /\ HubServes!Next
        /\ UNCHANGED <<savesVars, webVars>>
     \/ /\ \/ part = "saves two" /\ SavesTwo!SavesNext
           \/ part = "saves one" /\ SavesOne!SavesNext
        /\ UNCHANGED <<hubVars, webVars>>
     \/ /\ \/ part = "web one" /\ WebOne!WebNext
           \/ part = "web two" /\ WebNext
        /\ UNCHANGED <<hubVars, savesVars>>

(* FairSpec of WebSocketHub, for one client.                                     *)
HubFairness ==
  LET runs == part = "hub serves" IN
  /\ WF_hubVars(runs /\ HubServes!Broadcast("event"))
  /\ WF_hubVars(runs /\ HubServes!BroadcastEnds("event"))
  /\ WF_hubVars(runs /\ HubServes!Greet("a"))
  /\ WF_hubVars(runs /\ HubServes!ReceiverEnds("a"))
  /\ WF_hubVars(runs /\ HubServes!RemoveClient("a"))
  /\ WF_hubVars(runs /\ (HubServes!SendToSocket("a") \/ HubServes!SendFails("a")))

ServicesSpec == ServicesInit /\ [][ServicesNext]_allVars /\ HubFairness

-----------------------------------------------------------------------------
(* data-gateway/README.md:9: what waits to be broadcast while a client is connected and      *)
(* subscribed to everything reaches its mailbox, unless the client goes, changes its mind,  *)
(* or the broadcast task is overtaken.                                              *)
ServedArrives ==
  \A n \in 1..3 :
    (part = "hub serves" /\ HubServes!Due("a", "event", n))
      ~> (part = "hub serves" => HubServes!Settled("a", "event", n))
=============================================================================
