--------------------------- MODULE CloudDownlink ----------------------------
(***************************************************************************)
(* Reassembly of downlink messages in components/cloud_mqtt/cloud_mqtt.c:  *)
(* esp-mqtt hands a message over in one or more MQTT_EVENT_DATA events,    *)
(* which the handler gathers in s_downlink until the last one, and then    *)
(* passes the whole to handle_downlink.  A connection may be lost in the   *)
(* middle of a message; the rest of that message never comes.              *)
(* Contents are byte positions: the buffer holds the bytes from..to-1 of   *)
(* the current message.                                                    *)
(***************************************************************************)
EXTENDS Naturals

CONSTANTS
    DownlinkMax, \* CLOUD_MQTT_DOWNLINK_MAX, size of s_downlink
    EventMax,    \* CLOUD_MQTT_BUFFER_SIZE, most data in one event
    MessageMax   \* longest message, a bound of the model

ASSUME SizesAssumption ==
    /\ DownlinkMax \in Nat \ {0}
    /\ EventMax \in Nat \ {0}
    /\ MessageMax \in Nat \ {0}

VARIABLES
    total,  \* total_data_len of the message being received; 0 between two
    offset, \* current_data_offset of its next event
    len,    \* s_downlink_len
    from,   \* ghost: position in the message of the first byte gathered
    handled \* ghost: what the last call of handle_downlink was given

downlinkVars == <<total, offset, len, from, handled>>

\* Bytes a..b-1 of a message of n bytes.
Piece(a, b, n) == [first |-> a, end |-> b, total |-> n]
Nothing == Piece(0, 0, 0)
Pieces == [first : Nat, end : Nat, total : Nat]

DownlinkTypeOK ==
    /\ total \in 0..MessageMax
    /\ offset \in 0..MessageMax
    /\ len \in 0..DownlinkMax
    /\ from \in 0..MessageMax
    /\ handled \in Pieces

DownlinkInit ==
    /\ total = 0 /\ offset = 0
    /\ len = 0
    /\ from = 0
    /\ handled = Nothing

\* The server publishes; nothing reaches the handler yet.
NewMessage ==
    /\ total = 0
    /\ total' \in 1..MessageMax
    /\ offset' = 0
    /\ UNCHANGED <<len, from, handled>>

\* A mutant: only a finished message empties the buffer.
Gathered_NotReset == len

\* The length the event finds: offset 0 starts afresh.
Gathered == IF offset = 0 THEN 0 ELSE len

\* A mutant: the final zero is forgotten.
TooLong_OffByOne(n) == Gathered + n > DownlinkMax

\* The event does not fit together with what was gathered and a final zero.
TooLong(n) == Gathered + n >= DownlinkMax

\* What follows the event in esp-mqtt: the next event of the message, or the
\* next message.
Advance(n) ==
    IF offset + n < total
    THEN offset' = offset + n /\ UNCHANGED total
    ELSE offset' = 0 /\ total' = 0

\* MQTT_EVENT_DATA that does not fit: the buffer is emptied.
DataDropped(n) ==
    /\ TooLong(n)
    /\ len' = 0
    /\ Advance(n)
    /\ UNCHANGED <<from, handled>>

\* MQTT_EVENT_DATA that fits: gathered and, if it is the last of the message,
\* handled.
DataGathered(n) ==
    /\ ~TooLong(n)
    /\ from' = IF Gathered = 0 THEN offset ELSE from
    /\ IF offset + n < total
       THEN /\ len' = Gathered + n
            /\ UNCHANGED handled
       ELSE /\ len' = 0
            /\ handled' = Piece(from', from' + Gathered + n, total)
    /\ Advance(n)

\* MQTT_EVENT_DATA with n bytes of the message.
Data ==
    /\ total > 0
    /\ \E n \in 1..EventMax :
         /\ offset + n <= total
         /\ DataDropped(n) \/ DataGathered(n)

\* The connection is lost; s_downlink_len stays as it is.
Abandon ==
    /\ total > 0
    /\ total' = 0 /\ offset' = 0
    /\ UNCHANGED <<len, from, handled>>

DownlinkNext == NewMessage \/ Data \/ Abandon

DownlinkSpec == DownlinkInit /\ [][DownlinkNext]_downlinkVars

-----------------------------------------------------------------------------
(* Properties *)

\* The buffer always has room for the final zero the handler writes after
\* the last event, however the message is cut into events and whatever an
\* abandoned or dropped message left behind.
RoomForZero ==
    /\ len < DownlinkMax
    /\ handled.end < handled.first + DownlinkMax

\* handle_downlink is only ever given consecutive bytes of one message up to
\* its last one, and a message that fits is given whole: no rest of an
\* abandoned or dropped message gets into the next one.
NeverMixed ==
    /\ handled.end = handled.total
    /\ handled.total < DownlinkMax => handled.first = 0
=============================================================================
