---------------------------- MODULE ClientWrapper -----------------------------
(***************************************************************************)
(* The wrapper for applications (mqtt_client.c) as the user of a client    *)
(* session: one application thread calls mqtt_connect, mqtt_publish,       *)
(* mqtt_yield and mqtt_disconnect, always with a clean session and without *)
(* a persistent store.  mqtt_publish is MQTTClient_publishMessage followed *)
(* by the steps of MQTTClient_waitForCompletion, between which the session *)
(* goes on.                                                                *)
(***************************************************************************)
EXTENDS OutboundSession

CONSTANT Threaded   \* a callback was set: MQTTClient_run serves the session

VARIABLES
  at,      \* the application: outside ("idle"), or where it is in mqtt_publish
  token,   \* the delivery token, -1 until publishMessage sets it
  result,  \* what the last mqtt_publish returned
  about    \* history: the publication of that call

wrapper == <<at, token, result, about>>
allVars == <<vars, wrapper>>

NoToken == -1               \* also MQTT_FAILURE
MQTT_SUCCESS == 0
MQTT_DISCONNECTED == -3

Return(rc) == at' = "idle" /\ result' = rc /\ UNCHANGED <<token, about>>

mqtt_connect ==
  /\ at = "idle"
  /\ connect(TRUE) \/ \E stage \in {"refused", "sent", "answered"} : connectFails(TRUE, stage)
  /\ UNCHANGED wrapper

mqtt_disconnect == at = "idle" /\ disconnect /\ UNCHANGED wrapper

\* mqtt_publish_data up to the end of MQTTClient_publishMessage, which tells
\* the token of a QoS 1 or 2 message only.
mqtt_publish ==
  /\ at = "idle"
  /\ \/ publishQoS0 /\ token' = NoToken
     \/ \E qos \in 1..2 : (publish(qos) \/ publishFails(qos)) /\ token' = ledger'[Len(ledger')].id
  /\ at' = "published"
  /\ about' = Len(ledger')
  /\ UNCHANGED result

\* The client is not connected: the error of publishMessage is returned.
mqtt_publishRefused ==
  /\ at = "idle"
  /\ ~connected
  /\ Return(MQTT_DISCONNECTED)
  /\ UNCHANGED vars

Look(first) ==
  LET answer == waitForCompletion(token, first)
  IN CASE answer = "DISCONNECTED" -> Return(MQTT_DISCONNECTED)
       [] answer = "SUCCESS" -> Return(token)
       [] answer = "FAILURE" -> at' = "waiting" /\ UNCHANGED <<token, result, about>>

\* MQTTClient_waitForCompletion: the look before its loop, those in the loop,
\* and the end of the time.
mqtt_waits ==
  /\ \/ at = "published" /\ Look(TRUE)
     \/ at = "waiting" /\ Look(FALSE)
  /\ UNCHANGED vars

mqtt_timesOut ==
  /\ at = "waiting"
  /\ HasId(outboundMsgs, token)
  /\ Return(NoToken)
  /\ UNCHANGED vars

\* The session is served by MQTTClient_run, or by the application's own
\* mqtt_yield, mqtt_receive and mqtt_publish calls.
Served == Threaded \/ at \in {"idle", "waiting"}

mqtt_yield ==
  /\ Served
  /\ receive \/ retries \/ disconnect_internal \/ protocolCloseSession
  /\ UNCHANGED wrapper

external == (linkBreaks \/ brokerStep) /\ UNCHANGED wrapper

WrapperInit == /\ Init
               /\ at = "idle" /\ token = NoToken /\ result = MQTT_SUCCESS /\ about = 0

WrapperNext == \/ mqtt_connect \/ mqtt_disconnect
               \/ mqtt_publish \/ mqtt_publishRefused \/ mqtt_waits \/ mqtt_timesOut
               \/ mqtt_yield
               \/ external

WrapperSpec == WrapperInit /\ [][WrapperNext]_allVars

-----------------------------------------------------------------------------
\* A mqtt_publish that returns a token, "positive integer of message token if
\* success" (mqtt_client.c:210), has delivered its message: it has waited for
\* the acknowledgement.
PublishedWasDelivered == result > 0 => ledger[about].got > 0
=============================================================================
