------------------------------ MODULE UdpChannel ------------------------------
(***************************************************************************)
(* The encrypted UDP channel of one voice session (components/cloud_udp).   *)
(* The voice control task starts and stops it, the encoder sends on it and  *)
(* a receive task of its own hands the audio of the gateway to a callback.   *)
(* One mutex is held around everything that uses the key.                   *)
(*                                                                         *)
(* A session is a number from 1, and stands for its socket and its key.     *)
(* The network loses, repeats and reorders packets: any packet of the        *)
(* session the socket belongs to may arrive at any time.  shutdown() does    *)
(* nothing to a UDP socket of lwIP, so a receive task that was told to stop  *)
(* may stay in recvfrom until its timeout of a second.                      *)
(***************************************************************************)
EXTENDS Integers, Sequences

CONSTANTS MaxSession, \* how many sessions are opened
          Sent,       \* how many packets the gateway sends in each
          SeqSpace,   \* how many sequence numbers there are (2^32)
          FirstSeq    \* the one before the first the gateway uses

ASSUME UdpAssumption ==
    /\ MaxSession \in Nat
    /\ Sent \in [1 .. MaxSession -> Nat]
    /\ SeqSpace \in Nat /\ FirstSeq \in 0 .. SeqSpace - 1
    /\ \A s \in 1 .. MaxSession : 2 * Sent[s] < SeqSpace

VARIABLES
    sock,    \* s_sock: the session of the open socket, 0 for none
    ready,   \* s_ready
    running, \* s_running
    key,     \* s_key, s_gcm_tx and s_gcm_rx: the session of the key, 0 for none
    mutex,   \* s_crypto_mutex: who uses the key, "free" when nobody does
    rx,      \* where the receive task is; "none" when s_rx_task is NULL
    rxSock,  \* task_sock: the session of its socket
    packet,  \* the packet it has received
    rxSeq    \* s_rx_sequence, 0 for not valid: the number of the packet

udpVars == <<sock, ready, running, key, mutex, rx, rxSock, packet, rxSeq>>

Sessions == 1 .. MaxSession
Packets == UNION {1 .. Sent[s] : s \in Sessions}

UdpTypeOK ==
    /\ sock \in Sessions \cup {0}
    /\ ready \in BOOLEAN /\ running \in BOOLEAN
    /\ key \in Sessions \cup {0}
    /\ mutex \in {"free", "sender", "rx"}
    /\ rx \in {"none", "recv", "got", "decrypt", "deliver", "enqueue", "evict",
               "requeue", "exit", "leave"}
    /\ rxSock \in Sessions \cup {0}
    /\ packet \in Packets \cup {0}
    /\ rxSeq \in Packets \cup {0}

UdpInit ==
    /\ sock = 0 /\ ready = FALSE /\ running = FALSE /\ key = 0
    /\ mutex = "free"
    /\ rx = "none" /\ rxSock = 0 /\ packet = 0 /\ rxSeq = 0

-----------------------------------------------------------------------------
(* cloud_udp_start and cloud_udp_stop, on the voice control task.           *)

\* Mutant: a receive task that is left is overlooked.
UdpStart_BesideOldTask(s) ==
    /\ ~ready
    /\ key' = s /\ sock' = s
    /\ running' = TRUE /\ ready' = TRUE
    /\ rx' = (IF rx = "none" THEN "recv" ELSE rx)
    /\ rxSock' = (IF rx = "none" THEN s ELSE rxSock)
    /\ rxSeq' = 0
    /\ UNCHANGED <<mutex, packet>>

\* The checks, the key, the contexts, the socket and the receive task: all in
\* one step, for nobody else looks at the channel before it is ready.  While a
\* receive task is left from another session nothing is touched.
UdpStart(s) ==
    /\ ~ready
    /\ rx = "none"
    /\ key' = s /\ sock' = s
    /\ running' = TRUE /\ ready' = TRUE
    /\ rx' = "recv" /\ rxSock' = s /\ rxSeq' = 0
    /\ UNCHANGED <<mutex, packet>>

\* No server, no cipher, no socket, no task: whatever was made is unmade, and
\* the caller is told, as it is when a receive task is left.
UdpStartFails == ~ready /\ UNCHANGED udpVars

NothingToStop == sock = 0 /\ ~ready /\ rx = "none"

UdpRevoke ==
    /\ running' = FALSE /\ ready' = FALSE
    /\ UNCHANGED <<sock, key, mutex, rx, rxSock, packet, rxSeq>>

\* The socket is closed when nobody is sending on it.
UdpClose ==
    /\ mutex = "free"
    /\ sock' = 0
    /\ UNCHANGED <<ready, running, key, mutex, rx, rxSock, packet, rxSeq>>

\* After the wait for the receive task: a task that is left does this itself.
UdpForgetKey ==
    /\ mutex = "free"
    /\ key' = IF rx = "none" THEN 0 ELSE key
    /\ UNCHANGED <<sock, ready, running, mutex, rx, rxSock, packet, rxSeq>>

-----------------------------------------------------------------------------
(* cloud_udp_send_opus.  The sequence number, the encryption and sendto are  *)
(* one critical section.  Its callers hold encoder_guard and have seen an    *)
(* active session, so it finds the channel ready: were it not, the sender    *)
(* would stop here for good.                                                *)

SendBegin ==
    /\ ready /\ sock # 0
    /\ mutex = "free"
    /\ mutex' = "sender"
    /\ UNCHANGED <<sock, ready, running, key, rx, rxSock, packet, rxSeq>>

SendEnd ==
    /\ mutex = "sender"
    /\ mutex' = "free"
    /\ UNCHANGED <<sock, ready, running, key, rx, rxSock, packet, rxSeq>>

-----------------------------------------------------------------------------
(* cloud_udp_rx_task.                                                       *)

RxGoto(place) ==
    /\ rx' = place
    /\ UNCHANGED <<sock, ready, running, key, mutex, rxSock, packet, rxSeq>>

\* Back to recvfrom; the packet is done with.
RxAgain ==
    /\ rx' = "recv" /\ packet' = 0
    /\ UNCHANGED <<sock, ready, running, key, mutex, rxSock, rxSeq>>

RxReceive(p) ==
    /\ rx = "recv"
    /\ sock = rxSock
    /\ p <= Sent[rxSock]
    /\ packet' = p
    /\ rx' = "got"
    /\ UNCHANGED <<sock, ready, running, key, mutex, rxSock, rxSeq>>

\* recvfrom returns, for its timeout or for the closed socket.
RxRevoked == rx = "recv" /\ ~running /\ RxGoto("exit")

\* The packet is that of a stopped session, malformed, or decrypted when nobody
\* has held the mutex for 100 ms.
RxGot ==
    /\ rx = "got"
    /\ \/ ~running /\ RxGoto("exit")
       \/ running /\ RxAgain
       \/ /\ running /\ mutex = "free"
          /\ mutex' = "rx"
          /\ rx' = "decrypt"
          /\ UNCHANGED <<sock, ready, running, key, rxSock, packet, rxSeq>>

Sequence(p) == (FirstSeq + p) % SeqSpace

\* Mutant: a repetition is not older than what it repeats.
Newer_OrSame(a, b) == (a - b) % SeqSpace \in 0 .. (SeqSpace - 1) \div 2

\* sequence_is_newer: the difference as a signed 32-bit number.
Newer(a, b) == (a - b) % SeqSpace \in 1 .. (SeqSpace - 1) \div 2

\* What is not authentic, old or a repetition goes no further.
RxDecrypt ==
    /\ rx = "decrypt"
    /\ mutex' = "free"
    /\ \/ rx' = "recv" /\ packet' = 0 /\ UNCHANGED rxSeq
       \/ /\ rxSeq = 0 \/ Newer(Sequence(packet), Sequence(rxSeq))
          /\ rxSeq' = packet
          /\ rx' = "deliver" /\ UNCHANGED packet
    /\ UNCHANGED <<sock, ready, running, key, rxSock>>

\* The task forgets the key after its last use of it, and only then lets the
\* next session begin.
RxExit ==
    /\ rx = "exit"
    /\ mutex = "free"
    /\ key' = 0
    /\ rx' = "leave"
    /\ UNCHANGED <<sock, ready, running, mutex, rxSock, packet, rxSeq>>

RxLeave ==
    /\ rx = "leave"
    /\ rx' = "none"
    /\ rxSock' = 0 /\ packet' = 0 /\ rxSeq' = 0
    /\ UNCHANGED <<sock, ready, running, key, mutex>>

=============================================================================
