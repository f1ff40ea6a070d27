------------------------------- MODULE Logging -------------------------------
(***************************************************************************)
(* The packet and command loggers of tsproto (src/tsproto/src/log.rs) and  *)
(* their registration by create_client (src/tsproto/benches/utils/mod.rs, *)
(* used by examples/many.rs and benches/message.rs).                       *)
(*                                                                         *)
(* A connection's Data has five observer taps (spec 6): InUdpPacket,       *)
(* OutUdpPacket, InPacket, OutPacket and InCommand.  Each tap holds its    *)
(* observers under string keys, and adding one under a key that is taken   *)
(* replaces it (handler_data.rs is not in the repository; this is spec 6). *)
(* When the packet layer passes a packet through a tap, every observer on  *)
(* it runs; the lines they log for that packet are a bag, because the      *)
(* taps are maps and their order is not fixed.                             *)
(*                                                                         *)
(* A log line keeps its message, the "dir" and "to" fields of              *)
(* prepare_logger and the packet type the content shows; colours, the     *)
(* address and the rest of the Debug output are left out.                  *)
(***************************************************************************)
EXTENDS Naturals, Bags

CONSTANTS
    IsClient,      \* Data::is_client of the connection the loggers belong to
    Verbosities,   \* u8 values of the verbose argument of create_client
    PacketTypes    \* packet types the taps see

ASSUME IsClient \in BOOLEAN /\ Verbosities \subseteq Nat
ASSUME {"Command", "CommandLow"} \subseteq PacketTypes

Taps == {"InUdpPacket", "OutUdpPacket", "InPacket", "OutPacket", "InCommand"}
Keys == {"log", "cmdlog"}
NoObserver == "none"

VARIABLES
    verbose,    \* the verbose argument create_client was called with
    created,    \* create_client has returned
    observers,  \* Taps -> Keys -> the logger registered there, or NoObserver
    requested,  \* history: the add_*_logger functions called so far
    packet,     \* history: the tap and packet the last step observed, or NoPacket
    logged      \* the bag of lines the observers logged for it

vars == <<verbose, created, observers, requested, packet, logged>>

-----------------------------------------------------------------------------
(* Log lines and the functions of log.rs that write them.                  *)

\* The bytes of a UDP packet: the direction its header was written for
\* and the packet type it carries.
Datagram(d, t) == [dir |-> d, type |-> t]

\* prepare_logger: "to" is S for a client, C for a server; "dir" is IN or OUT.
prepare_logger(is_client, incoming) ==
    [to |-> IF is_client THEN "S" ELSE "C", dir |-> IF incoming THEN "IN" ELSE "OUT"]

Line(msg, is_client, incoming, t) ==
    LET pl == prepare_logger(is_client, incoming)
    IN [msg |-> msg, type |-> t, to |-> pl.to, dir |-> pl.dir]

log_udp_packet(is_client, incoming, t) == Line("UdpPacket", is_client, incoming, t)
log_packet(is_client, incoming, t) == Line("Packet", is_client, incoming, t)
\* log_command: the message is the packet type, Command or CommandLow.
log_command(is_client, incoming, t) ==
    Line(IF t = "Command" THEN "Command" ELSE "CommandLow", is_client, incoming, t)
\* The error! of the out udp observer goes to the unprepared logger.
ParseError == [msg |-> "Cannot parse incoming udp packet", type |-> "none", to |-> "none", dir |-> "none"]

\* InPacket::try_new (packets.rs, not in the repository) parses the header
\* of the bytes for a direction.  Bytes written for that direction parse as
\* what they are; C2S headers carry a client id that S2C headers do not, so
\* with the other direction the type is read from the wrong byte and the
\* parse fails or gives any type.
try_new(bytes, d) ==
    IF bytes.dir = d THEN {[ok |-> TRUE, type |-> bytes.type]}
    ELSE {[ok |-> FALSE, type |-> "none"]} \cup {[ok |-> TRUE, type |-> t] : t \in PacketTypes}

\* The direction the out udp observer parses with (Direction::C2S for a
\* client).
OwnDirection(is_client) == IF is_client THEN "C2S" ELSE "S2C"

\* The bags of lines one observer can log for a packet on a tap: the
\* observe methods of the three loggers.
observe(o, tap, p) ==
    CASE o = "UdpPacketLogger" /\ tap = "InUdpPacket" ->
            {SetToBag({log_udp_packet(IsClient, TRUE, p.type)})}
      [] o = "UdpPacketLogger" /\ tap = "OutUdpPacket" ->
            {IF r.ok THEN SetToBag({log_udp_packet(IsClient, FALSE, r.type)})
             ELSE SetToBag({ParseError}) : r \in try_new(p, OwnDirection(IsClient))}
      [] o = "PacketLogger" ->
            {SetToBag({log_packet(IsClient, tap = "InPacket", p.type)})}
      [] o = "CommandLogger" /\ tap = "InCommand" ->
            {SetToBag({log_command(IsClient, TRUE, p.type)})}
      [] o = "CommandLogger" /\ tap = "OutPacket" ->
            {IF p.type \in {"Command", "CommandLow"}
             THEN SetToBag({log_command(IsClient, FALSE, p.type)})
             ELSE EmptyBag}

-----------------------------------------------------------------------------
(* Registration.                                                           *)

\* Data::add_*_observer (spec 6): the observer under key k replaces any
\* observer the tap had under k.
AddObserver(obs, tap, k, o) == [obs EXCEPT ![tap][k] = o]

add_udp_packet_logger(obs) ==
    AddObserver(AddObserver(obs, "InUdpPacket", "log", "UdpPacketLogger"),
                "OutUdpPacket", "log", "UdpPacketLogger")

add_packet_logger(obs) ==
    AddObserver(AddObserver(obs, "InPacket", "log", "PacketLogger"),
                "OutPacket", "log", "PacketLogger")

\* Mutant: the out observer added under the packet logger's key.
add_command_logger_shared_key(obs) ==
    AddObserver(AddObserver(obs, "InCommand", "cmdlog", "CommandLogger"),
                "OutPacket", "log", "CommandLogger")

add_command_logger(obs) ==
    AddObserver(AddObserver(obs, "InCommand", "cmdlog", "CommandLogger"),
                "OutPacket", "cmdlog", "CommandLogger")

\* create_client: verbose > 0 adds the command logger, > 1 the packet
\* logger, > 2 the udp packet logger, in this order.
create_client(obs, v) ==
    LET o1 == IF v > 0 THEN add_command_logger(obs) ELSE obs
        o2 == IF v > 1 THEN add_packet_logger(o1) ELSE o1
    IN IF v > 2 THEN add_udp_packet_logger(o2) ELSE o2

-----------------------------------------------------------------------------
(* The connection: create_client, later add_*_logger calls, and packets    *)
(* passing the taps.                                                       *)

NoPacket == [tap |-> "none", p |-> Datagram("none", "none")]

\* The packets each tap sees: incoming ones were written for the peer's
\* direction, outgoing ones for our own; InCommand carries commands only.
\* The packet layer writes a client's headers C2S and a server's S2C.
SendDirection(is_client) == IF is_client THEN "C2S" ELSE "S2C"
PeerDirection(is_client) == IF is_client THEN "S2C" ELSE "C2S"
TapPackets(tap) ==
    CASE tap \in {"InUdpPacket", "InPacket"} ->
            {Datagram(PeerDirection(IsClient), t) : t \in PacketTypes}
      [] tap = "InCommand" -> {Datagram(PeerDirection(IsClient), t) : t \in {"Command", "CommandLow"}}
      [] OTHER -> {Datagram(SendDirection(IsClient), t) : t \in PacketTypes}

\* The packet layer calls observe on every observer of the tap.
RECURSIVE Dispatch(_, _, _, _)
Dispatch(obs, tap, p, ks) ==
    IF ks = {} THEN {EmptyBag}
    ELSE LET k == CHOOSE k \in ks : TRUE
             here == IF obs[tap][k] = NoObserver THEN {EmptyBag} ELSE observe(obs[tap][k], tap, p)
         IN {b (+) c : b \in here, c \in Dispatch(obs, tap, p, ks \ {k})}

Init ==
    /\ verbose \in Verbosities
    /\ created = FALSE
    /\ observers = [t \in Taps |-> [k \in Keys |-> NoObserver]]
    /\ requested = {}
    /\ packet = NoPacket
    /\ logged = EmptyBag

\* create_client: the Data is made (ClientData::new, packet_handler.complete)
\* and the loggers of the verbose level are added.
CreateClient ==
    /\ ~created
    /\ created' = TRUE
    /\ observers' = create_client(observers, verbose)
    /\ requested' = {f \in {"command", "packet", "udp"} :
                        \/ f = "command" /\ verbose > 0
                        \/ f = "packet" /\ verbose > 1
                        \/ f = "udp" /\ verbose > 2}
    /\ UNCHANGED <<verbose, packet, logged>>

\* A later call of one of the public add_*_logger functions on the Data.
AddLogger(f) ==
    /\ created
    /\ observers' = CASE f = "command" -> add_command_logger(observers)
                       [] f = "packet" -> add_packet_logger(observers)
                       [] f = "udp" -> add_udp_packet_logger(observers)
    /\ requested' = requested \cup {f}
    /\ packet' = NoPacket
    /\ logged' = EmptyBag
    /\ UNCHANGED <<verbose, created>>

\* A packet passes a tap.
Observe(tap, p) ==
    /\ created
    /\ packet' = [tap |-> tap, p |-> p]
    /\ logged' \in Dispatch(observers, tap, p, Keys)
    /\ UNCHANGED <<verbose, created, observers, requested>>

Next ==
    \/ CreateClient
    \/ \E f \in {"command", "packet", "udp"} : AddLogger(f)
    \/ \E tap \in Taps : \E p \in TapPackets(tap) : Observe(tap, p)

Spec == Init /\ [][Next]_vars

-----------------------------------------------------------------------------
(* Properties.                                                             *)

\* The lines the loggers asked for must give for a packet on a tap: one
\* UdpPacket line per udp packet, one Packet line per packet, one Command
\* or CommandLow line per command, in its direction, with its type.
Expected(req, tap, p) ==
    LET in == tap \in {"InUdpPacket", "InPacket", "InCommand"} IN
    SetToBag(
      {log_udp_packet(IsClient, in, p.type) : x \in {x \in {"udp"} \cap req : tap \in {"InUdpPacket", "OutUdpPacket"}}}
      \cup {log_packet(IsClient, in, p.type) : x \in {x \in {"packet"} \cap req : tap \in {"InPacket", "OutPacket"}}}
      \cup {log_command(IsClient, in, p.type) :
              x \in {x \in {"command"} \cap req :
                       tap = "InCommand" \/ (tap = "OutPacket" /\ p.type \in {"Command", "CommandLow"})}})

\* The verbose levels of create_client (many.rs: 1 prints command strings,
\* 2 packets, 3 udp packets) and any later add_*_logger calls add up: the
\* command logger and the packet logger share the OutPacket tap under
\* their own keys, a repeated add replaces instead of doubling, and the
\* out udp logger parses our own datagrams in our direction.  So every
\* packet is logged exactly once by every logger asked for, and by no other.
LoggedAsRequested ==
    packet # NoPacket => logged = Expected(requested, packet.tap, packet.p)

=============================================================================
