---------------------------- MODULE EthernetDevice ----------------------------
(***************************************************************************)
(* NetX/src/u_nx_ethernet.c and NetX/src/u_nx_protobuf.c: bringing up the  *)
(* one Ethernet device of a board, creating and sending MQTT messages, and *)
(* reconnecting to the broker, by threads that run at the same time.       *)
(*                                                                         *)
(* NetX (external) sets a thing up once and refuses it a second time; any  *)
(* of its calls may fail.  What is enabled before the driver has the link  *)
(* "fails silently" (the comment in ethernet_init).  A connection may be   *)
(* lost at any time.  A message is abstracted to whether its arguments are *)
(* in the ranges _nx_protobuf_mqtt_message_create checks, and to the       *)
(* length of its unit.  A suffixed name is a seeded fault.                 *)
(***************************************************************************)
EXTENDS Naturals, Sequences, Functions

CONSTANTS
  Threads,
  NetThread,    \* the thread that reconnects when it sees the connection gone
  MaxFaults,    \* bound on the NetX calls that fail
  MaxDrops,     \* bound on the connections lost
  UnitLengths,  \* lengths of the units of the messages created
  UnitSize      \* char unit[15] of serverdata_v2_ServerData

ASSUME NetThreadAssumption == NetThread \in Threads
ASSUME BoundsAssumption == MaxFaults \in Nat /\ MaxDrops \in Nat

(* The NetX calls of ethernet_init, in their order; "link" is the loop     *)
(* that asks the driver for its state.                                     *)
InitCalls ==
  <<"packet_pool", "ip", "link", "arp", "igmp", "icmp", "udp", "tcp",
    "ptp_client", "ptp_start",
    "mqtt_client", "disconnect_notify", "receive_notify", "connect">>

Callbacks == {"disconnect_notify", "receive_notify"}
Mqtt == {"mqtt_client"} \union Callbacks
Base == Range(InitCalls) \ (Mqtt \union {"link", "connect"})

PB_MAX_UNIT_LENGTH == 15

VARIABLES
  works,           \* what is set up and works
  link,            \* the driver's state is NX_DRIVER_STATE_LINK_ENABLED
  is_initialized,
  connected,       \* the MQTT client's connection
  node_id,         \* the caller whose parameters the device holds, and those
                   \* whose node the IP instance and the MQTT client were
                   \* created for
  ptp_utc_offset,  \* device.ptp_utc_offset
  message,         \* each thread's ethernet_mqtt_message_t
  pc, result,      \* of each thread
  faults, drops,
  deleted,         \* history: a reconnect deleted the client and has not
                   \* created it again
  overlapped       \* history: a call of ethernet_init began inside another

nodeVars == <<node_id, ptp_utc_offset, overlapped>>
vars == <<works, link, is_initialized, connected, message, pc, result,
          faults, drops, deleted, nodeVars>>

NoMessage == [initialized |-> FALSE, unit |-> 0]
Nobody == "nobody"
MasterOffset == 37   \* stands for what any master announces

Init ==
  /\ works = {} /\ link = FALSE /\ is_initialized = FALSE /\ connected = FALSE
  /\ message = [t \in Threads |-> NoMessage]
  /\ pc = [t \in Threads |-> "idle"]
  /\ result = [t \in Threads |-> "none"]
  /\ faults = 0 /\ drops = 0 /\ deleted = FALSE
  /\ node_id = [device |-> Nobody, ip |-> Nobody, mqtt_client |-> Nobody]
  /\ ptp_utc_offset = 0 /\ overlapped = FALSE

GoTo(t, label) ==
  /\ pc' = [pc EXCEPT ![t] = label]
  /\ UNCHANGED result

Return(t, status) ==
  /\ pc' = [pc EXCEPT ![t] = "idle"]
  /\ result' = [result EXCEPT ![t] = status]

(* A NetX call fails: by itself, or because of what it finds.              *)
FailsIf(condition) ==
  \/ faults < MaxFaults /\ faults' = faults + 1
  \/ condition /\ UNCHANGED faults

-------------------------------------------------------------------------------
(* ethernet_init.  The offset is reset before the check, whoever calls;    *)
(* the caller's node id, driver and callback are stored before the packet  *)
(* pool can refuse a second call.                                          *)
Initializing == {t \in Threads : pc[t] \in Range(InitCalls) \union {"store", "mark"}}

BeginInit(t) ==
  /\ pc[t] = "idle"
  /\ ptp_utc_offset' = 0
  /\ IF is_initialized
     THEN Return(t, "U_ERROR") /\ UNCHANGED overlapped
     ELSE GoTo(t, "store") /\ overlapped' = (overlapped \/ Initializing # {})
  /\ UNCHANGED <<works, link, is_initialized, connected, message, faults, drops, deleted, node_id>>

StoreParameters(t) ==
  /\ pc[t] = "store"
  /\ node_id' = [node_id EXCEPT !.device = t]
  /\ GoTo(t, "packet_pool")
  /\ UNCHANGED <<works, link, is_initialized, connected, message, faults, drops, deleted,
                 ptp_utc_offset, overlapped>>

After(call) ==
  LET i == CHOOSE i \in DOMAIN InitCalls : InitCalls[i] = call
  IN  InitCalls[i + 1]

NeedsLink == {"arp", "tcp"}

(* The IP address and the client's id are made of device.node_id.          *)
Named == {"ip", "mqtt_client"}
NameOf(call) ==
  node_id' = IF call \in Named THEN [node_id EXCEPT ![call] = node_id.device] ELSE node_id

(* One NetX call: it fails, or does what it is for.                        *)
SetUp_Retries(t) ==
  /\ pc[t] \in Range(InitCalls) \ {"link", "connect"}
  /\ \/ /\ FailsIf(pc[t] \in works)
        /\ UNCHANGED <<pc, result, works, node_id>>
     \/ /\ pc[t] \notin works
        /\ works' = IF pc[t] \in NeedsLink /\ ~link THEN works ELSE works \union {pc[t]}
        /\ NameOf(pc[t])
        /\ GoTo(t, After(pc[t]))
        /\ UNCHANGED faults
  /\ UNCHANGED <<link, is_initialized, connected, message, drops, deleted,
                 ptp_utc_offset, overlapped>>

SetUp(t) ==
  /\ pc[t] \in Range(InitCalls) \ {"link", "connect"}
  /\ \/ /\ FailsIf(pc[t] \in works)
        /\ Return(t, "NX_ERROR")
        /\ UNCHANGED <<works, node_id>>
     \/ /\ pc[t] \notin works
        /\ works' = IF pc[t] \in NeedsLink /\ ~link THEN works ELSE works \union {pc[t]}
        /\ NameOf(pc[t])
        /\ GoTo(t, After(pc[t]))
        /\ UNCHANGED faults
  /\ UNCHANGED <<link, is_initialized, connected, message, drops, deleted,
                 ptp_utc_offset, overlapped>>

PollLink_Once(t) ==
  /\ pc[t] = "link"
  /\ GoTo(t, After("link"))
  /\ UNCHANGED <<works, link, is_initialized, connected, message, faults, drops, deleted,
                 nodeVars>>

PollLink(t) ==
  /\ pc[t] = "link"
  /\ link
  /\ GoTo(t, After("link"))
  /\ UNCHANGED <<works, link, is_initialized, connected, message, faults, drops, deleted,
                 nodeVars>>

(* nxd_mqtt_client_connect: ethernet_init goes on without a connection.    *)
Connect(t) ==
  /\ pc[t] = "connect"
  /\ \/ /\ FailsIf(FALSE)
        /\ UNCHANGED connected
     \/ /\ connected' = TRUE
        /\ UNCHANGED faults
  /\ GoTo(t, "mark")
  /\ UNCHANGED <<works, link, is_initialized, message, drops, deleted, nodeVars>>

MarkInitialized(t) ==
  /\ pc[t] = "mark"
  /\ is_initialized' = TRUE
  /\ Return(t, "NX_SUCCESS")
  /\ UNCHANGED <<works, link, connected, message, faults, drops, deleted, nodeVars>>

ethernet_init(t) ==
  \/ BeginInit(t) \/ StoreParameters(t) \/ SetUp(t) \/ PollLink(t)
  \/ Connect(t) \/ MarkInitialized(t)

-------------------------------------------------------------------------------
(* ethernet_mqtt_reconnect, called by the network thread when a publish    *)
(* has told it that there is no connection.  What deleting answers is not  *)
(* looked at.                                                              *)
Delete(t) ==
  /\ t = NetThread /\ pc[t] = "idle"
  /\ is_initialized /\ ~connected
  /\ \/ /\ FailsIf("mqtt_client" \notin works)
        /\ UNCHANGED <<works, deleted>>
     \/ /\ "mqtt_client" \in works
        /\ works' = works \ Mqtt
        /\ deleted' = TRUE
        /\ UNCHANGED faults
  /\ GoTo(t, "recreate")
  /\ UNCHANGED <<link, is_initialized, connected, message, drops, nodeVars>>

Recreate(t) ==
  /\ pc[t] = "recreate"
  /\ \/ /\ FailsIf("mqtt_client" \in works)
        /\ Return(t, "NX_ERROR")
        /\ UNCHANGED <<works, deleted, node_id>>
     \/ /\ "mqtt_client" \notin works
        /\ works' = works \union {"mqtt_client"}
        /\ NameOf("mqtt_client")
        /\ deleted' = FALSE
        /\ GoTo(t, "reconnect")
        /\ UNCHANGED faults
  /\ UNCHANGED <<link, is_initialized, connected, message, drops, ptp_utc_offset, overlapped>>

Reconnect(t) ==
  /\ pc[t] = "reconnect"
  /\ \/ FailsIf(FALSE) /\ Return(t, "NX_ERROR") /\ UNCHANGED connected
     \/ connected' = TRUE /\ Return(t, "NX_SUCCESS") /\ UNCHANGED faults
  /\ UNCHANGED <<works, link, is_initialized, message, drops, deleted, nodeVars>>

ethernet_mqtt_reconnect(t) == Delete(t) \/ Recreate(t) \/ Reconnect(t)

-------------------------------------------------------------------------------
(* _nx_protobuf_mqtt_message_create: the checks of the arguments, then the *)
(* time, which there is only once the device is initialized.               *)
Created(t, unit) == message' = [message EXCEPT ![t] = [initialized |-> TRUE, unit |-> unit]]
NotCreated(t) == message' = [message EXCEPT ![t] = NoMessage]

CreateMessage(t, valid, unit) ==
  /\ pc[t] = "idle"
  /\ \/ /\ FailsIf(~valid \/ unit > PB_MAX_UNIT_LENGTH \/ ~is_initialized)
        /\ NotCreated(t)
     \/ /\ valid /\ unit <= PB_MAX_UNIT_LENGTH /\ is_initialized
        /\ Created(t, unit)
        /\ UNCHANGED faults
  /\ GoTo(t, "send")
  /\ UNCHANGED <<works, link, is_initialized, connected, drops, deleted, nodeVars>>

(* pb_encode takes a string only with its terminating NUL inside the array.*)
Encodes(m) == m.unit < UnitSize

(* nx_protobuf_mqtt_message_send.                                          *)
Encode_Unchecked(t) ==
  /\ pc[t] = "send"
  /\ IF Encodes(message[t]) THEN GoTo(t, "publish") ELSE Return(t, "U_ERROR")
  /\ UNCHANGED <<works, link, is_initialized, connected, message, faults, drops, deleted,
                 nodeVars>>

Encode(t) ==
  /\ pc[t] = "send"
  /\ IF message[t].initialized /\ Encodes(message[t])
     THEN GoTo(t, "publish")
     ELSE Return(t, "U_ERROR")
  /\ UNCHANGED <<works, link, is_initialized, connected, message, faults, drops, deleted,
                 nodeVars>>

(* ethernet_mqtt_publish.                                                  *)
Publish(t) ==
  /\ pc[t] = "publish"
  /\ \/ /\ FailsIf(~connected)
        /\ Return(t, "U_ERROR")
     \/ /\ connected
        /\ UNCHANGED faults
        /\ Return(t, "U_SUCCESS")
  /\ UNCHANGED <<works, link, is_initialized, connected, message, drops, deleted, nodeVars>>

Send(t) ==
  \/ \E valid \in BOOLEAN, unit \in UnitLengths : CreateMessage(t, valid, unit)
  \/ Encode(t)
  \/ Publish(t)

-------------------------------------------------------------------------------
(* _ptp_event_callback: the client reports the master's offset.            *)
PtpEvent ==
  /\ "ptp_start" \in works
  /\ ptp_utc_offset' = MasterOffset
  /\ UNCHANGED <<works, link, is_initialized, connected, message, pc, result, faults, drops,
                 deleted, node_id, overlapped>>

(* The driver gets the link; the broker or the network drops a connection. *)
LinkUp ==
  /\ ~link
  /\ link' = TRUE
  /\ UNCHANGED <<works, is_initialized, connected, message, pc, result, faults, drops,
                 deleted, nodeVars>>

Drop ==
  /\ connected
  /\ drops < MaxDrops
  /\ drops' = drops + 1
  /\ connected' = FALSE
  /\ UNCHANGED <<works, link, is_initialized, message, pc, result, faults, deleted, nodeVars>>

Next ==
  \/ \E t \in Threads : ethernet_init(t) \/ ethernet_mqtt_reconnect(t) \/ Send(t)
  \/ PtpEvent
  \/ LinkUp
  \/ Drop

Spec == Init /\ [][Next]_vars

(* A call once begun goes on, but for the two waits for the broker, which  *)
(* have no time limit; the link comes up.                                  *)
Continue(t) ==
  \/ StoreParameters(t) \/ SetUp(t) \/ PollLink(t) \/ MarkInitialized(t)
  \/ Recreate(t) \/ Encode(t) \/ Publish(t)

FairSpec ==
  /\ Spec
  /\ WF_vars(LinkUp)
  /\ \A t \in Threads : WF_vars(Continue(t))

-------------------------------------------------------------------------------
(* Once is_initialized is set, by whichever of several overlapping calls,  *)
(* everything ethernet_init sets up works: nothing was refused or failed,  *)
(* silently or not, and the MQTT client is there unless a reconnect has    *)
(* deleted it and failed to create it, or not done so yet.  The client, a  *)
(* recreated one too, has the node id of the IP address, unless one call   *)
(* began inside another and stored its own parameters for both.            *)
ReadyMeansComplete ==
  is_initialized =>
    /\ Base \subseteq works
    /\ deleted \/ "mqtt_client" \in works
    /\ overlapped \/ node_id.mqtt_client = node_id.ip

(* Every message that reaches the broker was created in full, with a time  *)
(* from the running PTP client.                                            *)
SentIsComplete ==
  [][\A t \in Threads :
       pc[t] = "publish" /\ pc'[t] = "idle" /\ result'[t] = "U_SUCCESS"
       => message[t].initialized /\ is_initialized]_vars

(* A call returns or comes to the wait for the broker: the wait for the    *)
(* link ends, and no other call is stuck, whatever fails and whatever the  *)
(* other threads have set up or deleted before.                            *)
CallsReturn ==
  \A t \in Threads : []<>(pc[t] \in {"idle", "connect", "reconnect"})

(* u_nx_protobuf.h: if creation was not completed .initialized is false;   *)
(* the maximum length of a unit is 15 characters.  So an initialized       *)
(* message can be sent.                                                    *)
InitializedCanBeSent ==
  \A t \in Threads : message[t].initialized => Encodes(message[t])
===============================================================================
