-------------------------------- MODULE Book --------------------------------
(***************************************************************************)
(* The book of tsclientlib (src/tsclientlib/src/data.rs): the client's     *)
(* mirror of the server's channels and clients, mutated by incoming        *)
(* server messages and reporting every mutation as Events.                 *)
(*                                                                         *)
(* Connection::new builds an empty book from initserver.  Every message    *)
(* is handled in one step by handle_message; the dispatch from a message   *)
(* to its rules is generated code (m2bdecls.rs, not in the repository)     *)
(* and is modelled from the spec; the transform functions it calls         *)
(* (max_clients!, the cc/ce/cl funs, away_fun, talk_power_fun, address_fun)*)
(* and the book helpers (add and remove of channels and clients) are       *)
(* translated from data.rs.  A channel keeps the fields the transforms write; a client     *)
(* keeps its away message, talk power request and connection address.     *)
(***************************************************************************)
EXTENDS Integers, Sequences, SequencesExt, TLC

CONSTANTS
    ChannelIds,    \* channel ids the server uses
    ClientIds,     \* client ids the server uses
    Ints,          \* i32 values the server sends for max clients fields
    LimitFlags,    \* Option<bool> values of the max clients flags (created/edited)
    TypeFlags,     \* Option<bool> values of the channel type flags (created/edited)
    ListLimitFlags,\* bool values of the channellist max clients flags
    ListTypeFlags, \* bool values of the channellist channel type flags
    Texts,         \* away and talk power messages
    Times,         \* talk_power_request_time as a unix timestamp
    Ips,           \* the ip strings of clientconnectioninfo
    ValidIps,      \* the ones IpAddr::from_str accepts
    Ports          \* u16 ports

ASSUME ValidIps \subseteq Ips /\ Ints \subseteq Int /\ Times \subseteq Int

\* Option<T>: None is the empty tuple, Some(x) a one-tuple.
None == <<>>
Some(x) == <<x>>

\* MaxClients and ChannelType
Unlimited == <<"Unlimited">>
Inherited == <<"Inherited">>
Limited(n) == <<"Limited", n>>
ChannelTypes == {"Permanent", "SemiPermanent", "Temporary"}

U16Max == 2^16 - 1
InU16(i) == 0 <= i /\ i <= U16Max

VARIABLES
    channels,  \* server.channels: ChannelIds -> Channel, or None if absent
    clients,   \* server.clients: ClientIds -> Client, or None if absent
    events,    \* the Vec<Events> handle_message returned for the last message
    msg        \* the fields of the last message the properties read (history)

vars == <<channels, clients, events, msg>>

IsMaxClients(v) == v \in {None, Unlimited, Inherited} \/ (Len(v) = 2 /\ v[1] = "Limited" /\ InU16(v[2]))
IsChannel(ch) ==
    /\ DOMAIN ch = {"max_clients", "max_family_clients", "channel_type"}
    /\ IsMaxClients(ch.max_clients) /\ IsMaxClients(ch.max_family_clients)
    /\ ch.channel_type \in ChannelTypes
Client == [away : {None} \cup {Some(t) : t \in Texts},
           talk_power_request : {None} \cup {Some(<<t, x>>) : t \in Times, x \in Texts},
           connection_data : {None} \cup {Some(a) : a \in {None} \cup {Some(<<i, p>>) : i \in ValidIps, p \in Ports}}]

\* Events: PropertyChanged(id, old), Added(id, new), Removed(id, old).  A
\* property id names an entity, <<"channel", c>>, or one of its fields,
\* <<"channel", c, field>>.
PropertyChanged(id, old) == [kind |-> "PropertyChanged", id |-> id, val |-> old]
Added(id, new) == [kind |-> "Added", id |-> id, val |-> new]
Removed(id, old) == [kind |-> "Removed", id |-> id, val |-> old]

-----------------------------------------------------------------------------
(* Transform functions of data.rs.                                         *)

\* Mutant: the lower bound of the range check dropped.
max_clients_no_lower(cmd) ==
    <<IF cmd.is_max_clients_unlimited = Some(TRUE) THEN Some(Unlimited)
      ELSE IF cmd.max_clients # None /\ cmd.max_clients[1] <= U16Max
      THEN Some(Limited(cmd.max_clients[1] % 2^16))
      ELSE None,
      IF cmd.is_max_family_clients_unlimited = Some(TRUE) THEN Some(Unlimited)
      ELSE IF cmd.inherits_max_family_clients = Some(TRUE) THEN Some(Inherited)
      ELSE IF cmd.max_family_clients # None /\ cmd.max_family_clients[1] <= U16Max
      THEN Some(Limited(cmd.max_family_clients[1] % 2^16))
      ELSE None>>

\* The max_clients! macro for channelcreated and channeledited: the fields
\* are Options; an out of range value gives None.
max_clients(cmd) ==
    <<IF cmd.is_max_clients_unlimited = Some(TRUE) THEN Some(Unlimited)
      ELSE IF cmd.max_clients # None /\ InU16(cmd.max_clients[1])
      THEN Some(Limited(cmd.max_clients[1] % 2^16))
      ELSE None,
      IF cmd.is_max_family_clients_unlimited = Some(TRUE) THEN Some(Unlimited)
      ELSE IF cmd.inherits_max_family_clients = Some(TRUE) THEN Some(Inherited)
      ELSE IF cmd.max_family_clients # None /\ InU16(cmd.max_family_clients[1])
      THEN Some(Limited(cmd.max_family_clients[1] % 2^16))
      ELSE None>>

max_clients_cc_fun(cmd) == max_clients(cmd)

\* channellist: plain fields; an out of range family value gives Unlimited.
max_clients_cl_fun(cmd) ==
    <<IF cmd.is_max_clients_unlimited THEN Some(Unlimited)
      ELSE IF InU16(cmd.max_clients) THEN Some(Limited(cmd.max_clients % 2^16))
      ELSE None,
      IF cmd.is_max_family_clients_unlimited THEN Some(Unlimited)
      ELSE IF cmd.inherits_max_family_clients THEN Some(Inherited)
      ELSE IF InU16(cmd.max_family_clients) THEN Some(Limited(cmd.max_family_clients % 2^16))
      ELSE Some(Unlimited)>>

channel_type_cc_fun(cmd) ==
    IF cmd.is_permanent = Some(TRUE) THEN "Permanent"
    ELSE IF cmd.is_semi_permanent = Some(TRUE) THEN "SemiPermanent"
    ELSE "Temporary"

channel_type_cl_fun(cmd) ==
    IF cmd.is_permanent THEN "Permanent"
    ELSE IF cmd.is_semi_permanent THEN "SemiPermanent"
    ELSE "Temporary"

\* Option fields of a new channel become the Channel's Option fields.
OrNone(o) == IF o = None THEN None ELSE o[1]

\* Mutant: the events carry the new value instead of the taken old one.
max_clients_ce_fun_new(ch, cmd) ==
    LET mc == max_clients(cmd)
        c1 == IF mc[1] = None THEN ch ELSE [ch EXCEPT !.max_clients = mc[1][1]]
        c2 == IF mc[2] = None THEN c1 ELSE [c1 EXCEPT !.max_family_clients = mc[2][1]]
        e1 == IF mc[1] = None THEN <<>>
              ELSE <<PropertyChanged(<<"channel", cmd.channel_id, "max_clients">>, c2.max_clients)>>
        e2 == IF mc[2] = None THEN <<>>
              ELSE <<PropertyChanged(<<"channel", cmd.channel_id, "max_family_clients">>,
                                     c2.max_family_clients)>>
    IN [channel |-> c2, events |-> e1 \o e2]

\* max_clients_ce_fun on an existing channel ch: for each field the macro
\* yields, an event with the previous value (take()), then the new value.
\* Result: the channel and the events pushed.
max_clients_ce_fun(ch, cmd) ==
    LET mc == max_clients(cmd)
        c1 == IF mc[1] = None THEN ch ELSE [ch EXCEPT !.max_clients = mc[1][1]]
        c2 == IF mc[2] = None THEN c1 ELSE [c1 EXCEPT !.max_family_clients = mc[2][1]]
        e1 == IF mc[1] = None THEN <<>>
              ELSE <<PropertyChanged(<<"channel", cmd.channel_id, "max_clients">>, ch.max_clients)>>
        e2 == IF mc[2] = None THEN <<>>
              ELSE <<PropertyChanged(<<"channel", cmd.channel_id, "max_family_clients">>,
                                     ch.max_family_clients)>>
    IN [channel |-> c2, events |-> e1 \o e2]

\* Mutant: the event carries the new channel type.
channel_type_ce_fun_new(ch, cmd) ==
    LET typ == IF cmd.is_permanent # None
               THEN IF cmd.is_permanent[1] THEN "Permanent" ELSE "Temporary"
               ELSE "SemiPermanent"
    IN IF cmd.is_permanent = None /\ cmd.is_semi_permanent # Some(TRUE)
       THEN [channel |-> ch, events |-> <<>>]
       ELSE [channel |-> [ch EXCEPT !.channel_type = typ],
             events |-> <<PropertyChanged(<<"channel", cmd.channel_id, "channel_type">>, typ)>>]

\* channel_type_ce_fun: is_permanent, when present, decides alone; else
\* is_semi_permanent = Some(true) gives SemiPermanent; else no change.
channel_type_ce_fun(ch, cmd) ==
    LET typ == IF cmd.is_permanent # None
               THEN IF cmd.is_permanent[1] THEN "Permanent" ELSE "Temporary"
               ELSE "SemiPermanent"
    IN IF cmd.is_permanent = None /\ cmd.is_semi_permanent # Some(TRUE)
       THEN [channel |-> ch, events |-> <<>>]
       ELSE [channel |-> [ch EXCEPT !.channel_type = typ],
             events |-> <<PropertyChanged(<<"channel", cmd.channel_id, "channel_type">>,
                                          ch.channel_type)>>]

away_fun(cmd) == IF cmd.is_away THEN Some(cmd.away_message) ELSE None

talk_power_fun(cmd) ==
    IF cmd.talk_power_request_time > 0
    THEN Some(<<cmd.talk_power_request_time, cmd.talk_power_request_message>>)
    ELSE None

address_fun(cmd) == IF cmd.ip \in ValidIps THEN Some(<<cmd.ip, cmd.port>>) ELSE None

-----------------------------------------------------------------------------
(* Messages: the parts of the s2c messages the rules read.                *)

OptInts == {None} \cup {Some(i) : i \in Ints}

ChannelCreatedParts ==
    [channel_id : ChannelIds, max_clients : OptInts, max_family_clients : OptInts,
     is_max_clients_unlimited : LimitFlags, is_max_family_clients_unlimited : LimitFlags,
     inherits_max_family_clients : LimitFlags, is_permanent : TypeFlags,
     is_semi_permanent : TypeFlags]
ChannelEditedParts == ChannelCreatedParts
ChannelListParts ==
    [channel_id : ChannelIds, max_clients : Ints, max_family_clients : Ints,
     is_max_clients_unlimited : ListLimitFlags, is_max_family_clients_unlimited : ListLimitFlags,
     inherits_max_family_clients : ListLimitFlags, is_permanent : ListTypeFlags,
     is_semi_permanent : ListTypeFlags]
ClientEnterViewParts ==
    [client_id : ClientIds, is_away : BOOLEAN, away_message : Texts,
     talk_power_request_time : Times, talk_power_request_message : Texts]
ClientConnectionInfoParts == [client_id : ClientIds, ip : Ips, port : Ports]

\* What the history keeps of a channel message.
Hist(name, cmd) ==
    [name |-> name, max_clients |-> cmd.max_clients,
     max_family_clients |-> cmd.max_family_clients,
     is_permanent |-> cmd.is_permanent, is_semi_permanent |-> cmd.is_semi_permanent]

-----------------------------------------------------------------------------
(* Actions: one per handled message.                                       *)

\* Connection::new: initserver seeds a book without channels and clients.
Init ==
    /\ channels = [c \in ChannelIds |-> None]
    /\ clients = [u \in ClientIds |-> None]
    /\ events = <<>>
    /\ msg = [name |-> "initserver"]

\* add_channel with the fields of a new channel, reported as Added.
add_channel(c, ch) ==
    /\ channels' = [channels EXCEPT ![c] = ch]
    /\ events' = <<Added(<<"channel", c>>, ch)>>

ChannelCreated(cmd) ==
    LET mc == max_clients_cc_fun(cmd) IN
    /\ channels[cmd.channel_id] = None
    /\ add_channel(cmd.channel_id,
                   [max_clients |-> OrNone(mc[1]), max_family_clients |-> OrNone(mc[2]),
                    channel_type |-> channel_type_cc_fun(cmd)])
    /\ msg' = Hist("channelcreated", cmd)
    /\ UNCHANGED clients

ChannelList(cmd) ==
    LET mc == max_clients_cl_fun(cmd) IN
    /\ channels[cmd.channel_id] = None
    /\ add_channel(cmd.channel_id,
                   [max_clients |-> OrNone(mc[1]), max_family_clients |-> OrNone(mc[2]),
                    channel_type |-> channel_type_cl_fun(cmd)])
    /\ msg' = Hist("channellist", cmd)
    /\ UNCHANGED clients

\* Both ce functions look the channel up with get_mut_channel and do
\* nothing when it is missing.
ChannelEdited(cmd) ==
    LET c == cmd.channel_id
        r1 == max_clients_ce_fun(channels[c], cmd)
        r2 == channel_type_ce_fun(r1.channel, cmd)
    IN /\ IF channels[c] = None
          THEN UNCHANGED channels /\ events' = <<>>
          ELSE /\ channels' = [channels EXCEPT ![c] = r2.channel]
               /\ events' = r1.events \o r2.events
       /\ msg' = Hist("channeledited", cmd)
       /\ UNCHANGED clients

\* remove_channel, reported as Removed when there was a channel.
ChannelDeleted(c) ==
    /\ channels' = [channels EXCEPT ![c] = None]
    /\ events' = IF channels[c] = None THEN <<>> ELSE <<Removed(<<"channel", c>>, channels[c])>>
    /\ msg' = [name |-> "channeldeleted"]
    /\ UNCHANGED clients

\* add_client with away_fun and talk_power_fun.
ClientEnterView(cmd) ==
    LET u == cmd.client_id
        cl == [away |-> away_fun(cmd), talk_power_request |-> talk_power_fun(cmd),
               connection_data |-> None]
    IN /\ clients[u] = None
       /\ clients' = [clients EXCEPT ![u] = cl]
       /\ events' = <<Added(<<"client", u>>, cl)>>
       /\ msg' = [name |-> "cliententerview"]
       /\ UNCHANGED channels

ClientLeftView(u) ==
    /\ clients' = [clients EXCEPT ![u] = None]
    /\ events' = IF clients[u] = None THEN <<>> ELSE <<Removed(<<"client", u>>, clients[u])>>
    /\ msg' = [name |-> "clientleftview"]
    /\ UNCHANGED channels

\* Mutant: mem::replace result discarded, the new data reported as the old.
add_connection_client_data_new(cls, u, r) ==
    IF cls[u] = None THEN [ok |-> FALSE]
    ELSE [ok |-> TRUE, old |-> Some(r),
          clients |-> [cls EXCEPT ![u].connection_data = Some(r)]]

\* add_connection_client_data: replaces the client's connection data and
\* returns the old one; a missing client is an error.
add_connection_client_data(cls, u, r) ==
    IF cls[u] = None THEN [ok |-> FALSE]
    ELSE [ok |-> TRUE, old |-> cls[u].connection_data,
          clients |-> [cls EXCEPT ![u].connection_data = Some(r)]]

\* The error of add_connection_client_data is logged and the message
\* yields no event.
ClientConnectionInfo(cmd) ==
    LET u == cmd.client_id
        r == add_connection_client_data(clients, u, address_fun(cmd))
    IN /\ IF ~r.ok
          THEN UNCHANGED clients /\ events' = <<>>
          ELSE /\ clients' = r.clients
               /\ events' = <<PropertyChanged(<<"client", u, "connection_data">>, r.old)>>
       /\ msg' = [name |-> "clientconnectioninfo"]
       /\ UNCHANGED channels

Next ==
    \/ \E cmd \in ChannelCreatedParts : ChannelCreated(cmd)
    \/ \E cmd \in ChannelListParts : ChannelList(cmd)
    \/ \E cmd \in ChannelEditedParts : ChannelEdited(cmd)
    \/ \E c \in ChannelIds : ChannelDeleted(c)
    \/ \E cmd \in ClientEnterViewParts : ClientEnterView(cmd)
    \/ \E u \in ClientIds : ClientLeftView(u)
    \/ \E cmd \in ClientConnectionInfoParts : ClientConnectionInfo(cmd)

Spec == Init /\ [][Next]_vars

-----------------------------------------------------------------------------
(* Properties.                                                             *)

\* The refinement mapping: the two id spaces of the book as one map from
\* entity ids to entities, and the events handle_message returned.
EntityIds == {<<"channel", c>> : c \in ChannelIds} \cup {<<"client", u>> : u \in ClientIds}
BookMap == [e \in EntityIds |-> IF e[1] = "channel" THEN channels[e[2]] ELSE clients[e[2]]]
IsEntity(e, v) == IF e[1] = "channel" THEN IsChannel(v) ELSE v \in Client

Abs == INSTANCE BookAbstract WITH Entities <- EntityIds, IsValue <- IsEntity,
                                  book <- BookMap, events <- events

\* Spec 8.5 and "missing entities are skipped": the book implements
\* BookAbstract.  Every message handler (the cc/cl/ce transforms, the add
\* and remove helpers, add_connection_client_data) changes the book only as
\* its events report: an entity appears only with an Added carrying its
\* value, disappears only with a Removed carrying its last value, and a
\* field changes only with a PropertyChanged carrying the value it held
\* before; no id is reported twice for one message.
RefinesBookAbstract == Abs!Spec

\* A Limited(n) the book takes from a message carries exactly the integer the
\* server sent: the range check of max_clients! and max_clients_cl_fun
\* keeps an out of range i32 from wrapping into a u16.
RawInt(v) == IF msg'.name = "channellist" THEN v ELSE v[1]
TookLimited(c, f) ==
    /\ channels'[c] # None
    /\ channels[c] = None \/ channels'[c][f] # channels[c][f]
    /\ channels'[c][f] # None
    /\ channels'[c][f][1] = "Limited"
LimitedIsExact ==
    [][\A c \in ChannelIds, f \in {"max_clients", "max_family_clients"} :
          TookLimited(c, f) => RawInt(msg'[f]) = channels'[c][f][2]]_vars

\* Spec 4.6 channel_type: "is_permanent -> Permanent; else is_semi_permanent
\* -> SemiPermanent".  A channeledited that clears the permanent flag and
\* sets the semi-permanent flag makes the channel SemiPermanent.
SemiPermanentEdit ==
    [][\A c \in ChannelIds :
          (/\ msg'.name = "channeledited" /\ channels[c] # None /\ channels'[c] # None
           /\ msg'.is_semi_permanent = Some(TRUE) /\ msg'.is_permanent # Some(TRUE))
          => channels'[c].channel_type = "SemiPermanent"]_vars

=============================================================================
