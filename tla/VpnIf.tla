-------------------------------- MODULE VpnIf --------------------------------
(***************************************************************************)
(* The virtual interface between lwIP and OpenVPN: Src/ethernet_openvpn.c. *)
(*                                                                         *)
(* Two FreeRTOS queues stand for the tun device.  lwIP's output goes into  *)
(* qRx, which openvpnif_read polls; openvpnif_write puts frames into qTx,  *)
(* which the task openvpnif_input hands to lwIP.  lwIP is built with       *)
(* LWIP_TCPIP_CORE_LOCKING: whatever thread sends a frame holds the core   *)
(* lock while it does, and a send on a socket takes the same lock.         *)
(***************************************************************************)
EXTENDS Integers, Sequences

CONSTANTS
    Clients,          \* the clients of the server
    Everyone,         \* the destination of a broadcast frame
    QSize,            \* length of qRx and of qTx
    MaxFrames         \* bound: frames lwIP sends

ASSUME DestinationAssumption == Everyone \notin Clients
ASSUME QueueAssumption == QSize \in Nat \ {0} /\ MaxFrames \in Nat

VARIABLES
    qRx,              \* frames from lwIP, oldest first
    qTx,              \* how many frames to lwIP are queued
    output,           \* the frame, if any, whose sender is blocked on a full
                      \* qRx, and holds the core lock
    frames            \* how many frames lwIP has sent

vpnIfVars == <<qRx, qTx, output, frames>>

\* A frame has a destination and a number: its place in what lwIP sent.
Frames == [dest : Clients \union {Everyone}, number : Nat]

VpnIfInit ==
    /\ qRx = << >>
    /\ qTx = 0
    /\ output = << >>
    /\ frames = 0

\* The core lock is free between two outputs.
CoreUnlocked == output = << >>

\* openvpnif_low_level_output: xQueueSend(qRx, portMAX_DELAY).
StackOutput(dest) ==
    LET frame == [dest |-> dest, number |-> frames + 1]
    IN
    /\ CoreUnlocked
    /\ frames < MaxFrames
    /\ frames' = frames + 1
    /\ IF Len(qRx) < QSize
       THEN qRx' = Append(qRx, frame) /\ UNCHANGED output
       ELSE output' = <<frame>> /\ UNCHANGED qRx
    /\ UNCHANGED qTx

\* The blocked send goes through, and its thread unlocks the core.
StackResumes ==
    /\ ~ CoreUnlocked
    /\ Len(qRx) < QSize
    /\ qRx' = qRx \o output
    /\ output' = << >>
    /\ UNCHANGED <<qTx, frames>>

\* Mutant: the input is processed under the core lock, not posted.
InputMayRunMutant == qTx > 0 /\ CoreUnlocked
\* tcpip_input posts the frame to lwIP's mailbox and never waits: a frame the
\* mailbox has no room for is dropped.
InputMayRun == qTx > 0

\* openvpnif_input
Input ==
    /\ InputMayRun
    /\ qTx' = qTx - 1
    /\ UNCHANGED <<qRx, output, frames>>

\* openvpnif_write waits for room in qTx.
CanWrite == qTx < QSize

VpnIfTypeOK ==
    /\ qRx \in Seq(Frames)
    /\ qTx \in 0 .. QSize
    /\ output \in Seq(Frames)
    /\ frames \in Nat

=============================================================================
